-------------------------------- MODULE Boot --------------------------------
(***************************************************************************)
(* boot_init of kernel/main.c: find init.elf on the VFS, read it into a    *)
(* buffer from kmalloc, let elf_load place it, and jump to its entry.      *)
(* main() falls back to an idle loop when boot_init returns false.         *)
(* Whether the node exists, kmalloc finds room and the driver delivers     *)
(* every byte is left open.                                                *)
(***************************************************************************)
EXTENDS Elf

CONSTANT INIT_MAXSZ

ASSUME BootAssumption == INIT_MAXSZ \in Nat

VARIABLES
    stage,    \* "open", "load" (inside elf_load), "idle", "jumped" or
           \* "halted"
    buf    \* the buffer: "none", "held" or "freed"

bvars == <<elf_vars, stage, buf>>

BInit ==
    /\ ElfInit
    /\ stage = "open"
    /\ buf = "none"

NotFound ==
    /\ stage = "open"
    /\ stage' = "idle"
    /\ UNCHANGED <<elf_vars, buf>>

SizeInRange == image.size # 0 /\ image.size <= INIT_MAXSZ

SizeRefused ==
    /\ stage = "open"
    /\ ~SizeInRange
    /\ stage' = "idle"
    /\ UNCHANGED <<elf_vars, buf>>

\* kmalloc returns NULL.
NoRoom ==
    /\ stage = "open"
    /\ SizeInRange
    /\ stage' = "idle"
    /\ UNCHANGED <<elf_vars, buf>>

\* vfs_read returns fewer bytes than the node has, or an error.
ShortRead ==
    /\ stage = "open"
    /\ SizeInRange
    /\ buf' = "freed"
    /\ stage' = "idle"
    /\ UNCHANGED elf_vars

ReadAll ==
    /\ stage = "open"
    /\ SizeInRange
    /\ buf' = "held"
    /\ stage' = "load"
    /\ UNCHANGED elf_vars

ElfLoad ==
    /\ stage = "load"
    /\ ElfNext
    /\ UNCHANGED <<stage, buf>>

\* if (!elf_load(...)): a result of 0 is taken for a refusal, and any other
\* one for success.  res has no value unless elf_load wrote it.
Decide ==
    /\ stage = "load"
    /\ ret # LOADING
    /\ IF ret = 0
       THEN stage' = "idle" /\ buf' = "freed"
       ELSE stage' = "jumped" /\ UNCHANGED buf
    /\ UNCHANGED elf_vars

\* entry() comes back: boot_init returns true and main() halts.
EntryReturns ==
    /\ stage = "jumped"
    /\ stage' = "halted"
    /\ UNCHANGED <<elf_vars, buf>>

BNext ==
    \/ NotFound \/ SizeRefused \/ NoRoom \/ ShortRead \/ ReadAll
    \/ ElfLoad \/ Decide \/ EntryReturns

BSpec == BInit /\ [][BNext]_bvars

-----------------------------------------------------------------------------
(* Properties.                                                             *)

\* boot_init gives its buffer back on every path on which it returns false,
\* and enters elf_load, the only writer of memory, with the buffer in hand.
GivesUpCleanly ==
    /\ stage = "idle" => buf # "held"
    /\ stage = "load" => buf = "held"
    /\ (\E a \in Byte : mem[a] # OLD) => stage # "open" /\ buf # "none"

\* boot_init and elf_load together: whichever step fails, memory and the range
\* are what the headers handled so far say, only the file's bytes are copied, and
\* the buffer is given back.
ImageIsPlaced == MemoryIsImage /\ RangeIsTight /\ CopiesFromFile /\ GivesUpCleanly

\* loader.c:39 says that elf_load returns 0 on success and -1 on error, and
\* main.c:24-25 that boot_init loads and starts init.elf and returns false if
\* something went wrong: it jumps to the entry only of an image that loaded.
JumpsIntoLoadedImage == stage = "jumped" => ret = 0
=============================================================================
