------------------------------- MODULE Loader -------------------------------
(***************************************************************************)
(* From power-on to the kernel: the boot sector arch/x86-64/main.asm, the  *)
(* second stage arch/x86-64/stage2, and core/restart.c, which starts over. *)
(*                                                                         *)
(* mem holds, for the byte address of every sector read so far, the number *)
(* of that sector on the disk.  The BIOS, which may fail any read or reset *)
(* and may have stored part of what it was asked for, and the keyboard     *)
(* controller, with its one-byte buffers, are external.                    *)
(***************************************************************************)
EXTENDS Integers, Sequences, TLC

CONSTANTS
    Tables,               \* contents of stage2_location: sequences of [lba, count]
    SECTOR,
    STAGE2_LOAD,          \* linear address of STAGE2_LOAD_SEGMENT:STAGE2_LOAD_OFFSET
    KERNEL_STAGING_ADDR,
    KERNEL_FINAL_ADDR,    \* a power of two: the address line A20 gates
    KERNEL_LBA,
    KERNEL_SECTORS,
    SectorsPerTrack,      \* bdb_sectors_per_track
    Heads                 \* bdb_heads

ASSUME LoaderAssumption ==
    /\ {SECTOR, KERNEL_FINAL_ADDR, SectorsPerTrack, Heads} \subseteq Nat \ {0}
    /\ {STAGE2_LOAD, KERNEL_STAGING_ADDR, KERNEL_LBA, KERNEL_SECTORS} \subseteq Nat

VARIABLE ld   \* [at, table, ext, si, es, di, mem, step, al, kbc]
    \* at: "start", "read" (in disk_read), "reset" (in disk_reset), "key" (in
    \*     wait_key_and_reboot), "a20", "load", "copy", "kernel", "restart",
    \*     "hlt" or "pulsed" (the CPU was reset over the output port)
    \* ext: have_extensions; si: the next entry of the table; es: the address
    \*     es:bx to load to; di: attempts left; step and al: of enable_a20
    \* kbc: the controller [cmd: the byte in its input buffer, obf: its output
    \*     buffer, no byte or one, off: the keyboard is disabled, data: it waits for the byte
    \*     for its output port, port: the lines of that port that are up,
    \*     struck: a key was struck since power-on]

EMPTY == "empty"
Lines == {"cpu", "a20"}   \* bits 0 (0 resets the CPU) and 1 of the output port

PowerOn(table, port) ==
    [at |-> "start", table |-> table, ext |-> FALSE, si |-> 1, es |-> STAGE2_LOAD, di |-> 0,
     mem |-> <<>>, step |-> 1, al |-> {},
     kbc |-> [cmd |-> EMPTY, obf |-> {}, off |-> FALSE, data |-> FALSE, port |-> port,
             struck |-> FALSE]]

LInit == \E t \in Tables, p \in {{"cpu"}, Lines} : ld = PowerOn(t, p)

-----------------------------------------------------------------------------
(* Disk reads.                                                             *)

\* lba_to_chs: cylinder in ch and the upper bits of cl, sector in the lower
\* six, head in dh.
LbaToChs(lba) ==
    LET cylinder == (lba \div SectorsPerTrack) \div Heads
    IN  [ch |-> cylinder % 256,
         cl |-> ((lba % SectorsPerTrack) + 1) + 64 * ((cylinder \div 256) % 4),
         dh |-> ((lba \div SectorsPerTrack) % Heads) % 256]

\* The sector the BIOS reads for a cylinder, a head and a sector.
BiosSector(chs) ==
    ((chs.ch + 256 * (chs.cl \div 64)) * Heads + chs.dh) * SectorsPerTrack + (chs.cl % 64) - 1

\* mem after n sectors from lba on were stored at address a.
Stored(mem, a, lba, n) == [i \in {a + SECTOR * k : k \in 0 .. n - 1} |-> lba + (i - a) \div SECTOR] @@ mem

\* .after: ask for the extensions, then go through stage2_location.
DetectExtensions ==
    /\ ld.at = "start"
    /\ \E e \in BOOLEAN : ld' = [ld EXCEPT !.ext = e, !.at = "read", !.di = 3]

\* Mutant: every piece is loaded to the same place.
NextPiece_Same(l, count) == [l EXCEPT !.si = @ + 1, !.di = 3]

\* The end of .loop: es moves on by the sectors read.
NextPiece(l, count) == [l EXCEPT !.si = @ + 1, !.es = @ + SECTOR * count, !.di = 3]

\* One attempt of disk_read: what is in memory afterwards, and the carry flag.
DiskRead(a, piece) ==
    LET lba == IF ld.ext THEN piece.lba ELSE BiosSector(LbaToChs(piece.lba))
    IN  {[ok |-> n = piece.count, mem |-> Stored(ld.mem, a, lba, n)] :
            n \in {0, piece.count \div 2, piece.count}}

\* One pass of .loop, or the jump to the second stage at its end.
ReadPiece ==
    /\ ld.at = "read"
    /\ IF ld.si > Len(ld.table)
       THEN ld' = [ld EXCEPT !.at = "a20", !.step = 1]
       ELSE \E r \in DiskRead(ld.es, ld.table[ld.si]) :
               LET l == [ld EXCEPT !.mem = r.mem]
               IN  ld' = IF r.ok THEN NextPiece(l, ld.table[ld.si].count) ELSE [l EXCEPT !.at = "reset"]

\* Mutant: the attempts are not counted.
DiskReset_Forever ==
    /\ ld.at = "reset"
    /\ \E ok \in BOOLEAN : ld' = [ld EXCEPT !.at = IF ok THEN "read" ELSE "key"]

\* disk_reset and the rest of .retry; a failure prints and waits for a key.
DiskReset ==
    /\ ld.at = "reset"
    /\ \E ok \in BOOLEAN :
          ld' = [ld EXCEPT !.at = IF ok /\ ld.di > 1 THEN "read" ELSE "key",
                           !.di = IF ok THEN @ - 1 ELSE @]

\* wait_key_and_reboot: the key comes and the jump to the BIOS starts over.  So
\* does a CPU that was reset.
Reboot ==
    /\ ld.at \in {"key", "pulsed"}
    /\ ld' = PowerOn(ld.table, ld.kbc.port)

\* stage2_disk_read: one attempt; .fail halts.
LoadKernel ==
    /\ ld.at = "load"
    /\ \/ ld' = [ld EXCEPT !.mem = Stored(@, KERNEL_STAGING_ADDR, KERNEL_LBA, KERNEL_SECTORS),
                           !.at = "copy"]
       \/ ld' = [ld EXCEPT !.at = "hlt"]

\* With A20 down bit 20 of every address is 0.
Phys(a) ==
    IF "a20" \in ld.kbc.port \/ (a \div KERNEL_FINAL_ADDR) % 2 = 0 THEN a ELSE a - KERNEL_FINAL_ADDR

\* protected_mode_entry: rep movsd and the call of the kernel.
CopyKernel ==
    /\ ld.at = "copy"
    /\ ld' = [ld EXCEPT !.at = "kernel",
                        !.mem = [a \in {Phys(KERNEL_FINAL_ADDR + SECTOR * i) : i \in 0 .. KERNEL_SECTORS - 1} |->
                                   @[KERNEL_STAGING_ADDR + a - Phys(KERNEL_FINAL_ADDR)]] @@ @]

-----------------------------------------------------------------------------
(* The keyboard controller.                                                *)

\* enable_a20: what each step sends, or "in" for the byte it reads.
A20Steps == <<"AD", "D0", "in", "D1", "data", "AE">>

\* One step of enable_a20, after wait_kbd_input_clear or wait_kbd_output_full.
EnableA20 ==
    /\ ld.at = "a20"
    /\ LET k == ld.kbc
       IN  IF ld.step > Len(A20Steps)
           THEN k.cmd = EMPTY /\ ld' = [ld EXCEPT !.at = "load"]
           ELSE LET s == A20Steps[ld.step]
                IN  IF s = "in"
                    THEN \E b \in k.obf : ld' = [ld EXCEPT !.step = @ + 1, !.al = b, !.kbc.obf = {}]
                    ELSE k.cmd = EMPTY /\ ld' = [ld EXCEPT !.step = @ + 1, !.kbc.cmd = s]

\* or al, 2
PortByte == ld.al \cup {"a20"}

\* The controller takes the byte in its input buffer.  It answers D0 when its
\* output buffer is free.
Controller ==
    /\ ld.kbc.cmd # EMPTY
    /\ ld.kbc.cmd = "D0" => ld.kbc.obf = {}
    /\ LET k == [ld.kbc EXCEPT !.cmd = EMPTY]
       IN  CASE k.data -> IF "cpu" \in PortByte
                          THEN ld' = [ld EXCEPT !.kbc = [k EXCEPT !.data = FALSE, !.port = PortByte]]
                          ELSE ld' = [ld EXCEPT !.at = "pulsed", !.kbc = k]
             [] ld.kbc.cmd \in {"AD", "AE"} /\ ~k.data ->
                    ld' = [ld EXCEPT !.kbc = [k EXCEPT !.off = (ld.kbc.cmd = "AD")]]
             [] ld.kbc.cmd = "D0" /\ ~k.data -> ld' = [ld EXCEPT !.kbc = [k EXCEPT !.obf = {k.port}]]
             [] ld.kbc.cmd = "D1" /\ ~k.data -> ld' = [ld EXCEPT !.kbc = [k EXCEPT !.data = TRUE]]
             [] ld.kbc.cmd = "FE" /\ ~k.data -> ld' = PowerOn(ld.table, k.port)

\* A key is struck while the second stage, interrupts off, empties no buffer.
KeyStruck ==
    /\ ld.at = "a20" /\ ~ld.kbc.off /\ ld.kbc.obf = {}
    /\ \E code \in {{}, {"cpu"}} : ld' = [ld EXCEPT !.kbc.obf = {code}, !.kbc.struck = TRUE]

\* restart(): wait for the input buffer, pulse the reset line, halt.
Restart ==
    \/ ld.at = "kernel" /\ ld' = [ld EXCEPT !.at = "restart"]
    \/ ld.at = "restart" /\ ld.kbc.cmd = EMPTY /\ ld' = [ld EXCEPT !.at = "hlt", !.kbc.cmd = "FE"]

LoaderStep == DetectExtensions \/ ReadPiece \/ DiskReset \/ LoadKernel \/ CopyKernel \/ EnableA20

LNext == LoaderStep \/ Reboot \/ Controller \/ KeyStruck \/ Restart

\* The CPU runs, BIOS calls return and the controller empties its buffer.
LFair == WF_ld(LoaderStep) /\ WF_ld(Controller)

LSpec == LInit /\ [][LNext]_ld /\ LFair

-----------------------------------------------------------------------------
(* Properties.                                                             *)

\* The sectors a table lists, one after another.
RECURSIVE Listed(_)
Listed(table) ==
    IF table = <<>> THEN <<>>
    ELSE [k \in 1 .. Head(table).count |-> Head(table).lba + k - 1] \o Listed(Tail(table))

InPlace(a, sectors) ==
    \A k \in DOMAIN sectors :
        a + SECTOR * (k - 1) \in DOMAIN ld.mem /\ ld.mem[a + SECTOR * (k - 1)] = sectors[k]

\* When the boot sector jumps to the second stage, all the pieces of
\* stage2_location lie one after another at STAGE2_LOAD, whichever of the two
\* ways of reading was used and however many attempts it took; and neither the
\* kernel's arrival at the staging address nor its move disturbs them.
StageTwoInPlace ==
    ld.at \in {"a20", "load", "copy", "kernel"} => InPlace(STAGE2_LOAD, Listed(ld.table))

\* The kernel is entered with all of its sectors at KERNEL_FINAL_ADDR, not at
\* what that address is while A20 is down.
KernelInPlace ==
    ld.at = "kernel" =>
        InPlace(KERNEL_FINAL_ADDR, [k \in 1 .. KERNEL_SECTORS |-> KERNEL_LBA + k - 1])

\* enable_a20 never drops the CPU's reset line, unless a key struck before the
\* keyboard is disabled left its code where the port is read from.
ResetOnlyByKey == ld.at = "pulsed" => ld.kbc.struck

\* Whatever the BIOS and the keyboard controller do, a stage is entered only when
\* all of it is where it belongs, and the machine is not reset on the way.
StagesInPlace == StageTwoInPlace /\ KernelInPlace /\ ResetOnlyByKey

\* Every start comes to the kernel, to a prompt for a key, or to a halt.
LoadEnds == ld.at = "start" ~> ld.at \in {"kernel", "key", "hlt", "pulsed"}
=============================================================================
