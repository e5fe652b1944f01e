-------------------------------- MODULE Elf --------------------------------
(***************************************************************************)
(* The ELF32 loader, drivers/loader.c.  elf_load goes through the program  *)
(* headers of an image and copies every PT_LOAD segment to its address.    *)
(*                                                                         *)
(* An image is the file's size, the verdict of elf_check_header, the       *)
(* fields of the header that elf_load uses and the program headers.  A     *)
(* byte of memory is OLD, ZERO or the offset in the file it came from.     *)
(* Offsets and addresses are uint32_t: they wrap at UINT32.  The buffer with *)
(* the image is taken to lie apart from the segments.                      *)
(***************************************************************************)
EXTENDS Integers, Sequences

CONSTANTS
    UINT32,     \* number of values of uint32_t
    EHSIZE,   \* sizeof(Elf32_Ehdr)
    Images    \* what elf_load may be called with

PT_LOAD == "PT_LOAD"
OLD     == -1  \* not written by this call
ZERO    == -2  \* cleared
LOADING == 1   \* elf_load has not returned

Byte == 0 .. UINT32 - 1

Phdr == [type : STRING, offset : Byte, filesz : Byte, vaddr : Byte, memsz : Byte]

ASSUME ElfAssumption ==
    /\ UINT32 \in Nat \ {0}
    /\ EHSIZE \in Nat
    /\ \A im \in Images : im.size \in Nat /\ im.phdrs \in Seq(Phdr)

VARIABLES
    image,               \* the argument buf with buf_size
    i,                   \* loop counter: headers handled so far
    mem,                 \* the address space
    load_min, load_max,
    loaded_any,
    ret                  \* the result 0 or -1, or LOADING

elf_vars == <<image, i, mem, load_min, load_max, loaded_any, ret>>

Loads(im) == {n \in DOMAIN im.phdrs : im.phdrs[n].type = PT_LOAD}

-----------------------------------------------------------------------------

\* The tests before the loop.
Accepts(im) ==
    /\ im.size >= EHSIZE
    /\ im.headerOk
    /\ im.phoff # 0
    /\ Len(im.phdrs) # 0
    /\ (im.phoff + Len(im.phdrs) * im.phentsize) % UINT32 <= im.size

ElfInit ==
    /\ image \in Images
    /\ i = 0
    /\ mem = [a \in Byte |-> OLD]
    /\ load_min = UINT32 - 1
    /\ load_max = 0
    /\ loaded_any = FALSE
    /\ ret = IF Accepts(image) THEN LOADING ELSE -1

\* The tests on a segment.
Admissible(ph) ==
    /\ (ph.offset + ph.filesz) % UINT32 <= image.size
    /\ ph.filesz <= ph.memsz

\* Mutant: the rest of the segment is not cleared.
Placed_NoBss(m, ph) ==
    [a \in Byte |->
        LET d == (a - ph.vaddr) % UINT32
        IN  IF d < ph.filesz THEN (ph.offset + d) % UINT32 ELSE m[a]]

\* memory after loader_memcpy and loader_memset of one segment.
Placed(m, ph) ==
    [a \in Byte |->
        LET d == (a - ph.vaddr) % UINT32
        IN  IF d < ph.filesz THEN (ph.offset + d) % UINT32
            ELSE IF d < ph.memsz THEN ZERO ELSE m[a]]

Skip ==
    /\ image.phdrs[i + 1].type # PT_LOAD
    /\ UNCHANGED <<mem, load_min, load_max, loaded_any, ret>>

Reject ==
    /\ image.phdrs[i + 1].type = PT_LOAD
    /\ ~Admissible(image.phdrs[i + 1])
    /\ ret' = -1
    /\ UNCHANGED <<mem, load_min, load_max, loaded_any>>

Load(ph) ==
    /\ mem' = Placed(mem, ph)
    /\ load_min' = IF ph.vaddr < load_min THEN ph.vaddr ELSE load_min
    /\ LET seg_end == (ph.vaddr + ph.memsz) % UINT32
       IN  load_max' = IF seg_end > load_max THEN seg_end ELSE load_max
    /\ loaded_any' = TRUE
    /\ UNCHANGED ret

Segment ==
    /\ ret = LOADING
    /\ i < Len(image.phdrs)
    /\ i' = i + 1
    /\ UNCHANGED image
    /\ LET ph == image.phdrs[i + 1]
       IN  \/ Skip
           \/ Reject
           \/ ph.type = PT_LOAD /\ Admissible(ph) /\ Load(ph)

Return ==
    /\ ret = LOADING
    /\ i = Len(image.phdrs)
    /\ ret' = IF loaded_any THEN 0 ELSE -1
    /\ UNCHANGED <<image, i, mem, load_min, load_max, loaded_any>>

ElfNext == Segment \/ Return

ElfSpec == ElfInit /\ [][ElfNext]_elf_vars

-----------------------------------------------------------------------------
(* Properties.  They are about images whose segments end inside the        *)
(* address space.                                                          *)

NoWrap ==
    \A n \in Loads(image) :
        LET ph == image.phdrs[n]
        IN  ph.vaddr + ph.memsz < UINT32 /\ ph.offset + ph.filesz < UINT32

Covers(ph, a) == ph.vaddr <= a /\ a < ph.vaddr + ph.memsz

\* What the specification of ELF says is at address a: the last PT_LOAD header
\* among the first k that covers a puts a byte of the file or a zero there.
Expected(a, k) ==
    LET over == {n \in Loads(image) \cap (1 .. k) : Covers(image.phdrs[n], a)}
    IN  IF over = {} THEN OLD
        ELSE LET ph == image.phdrs[CHOOSE n \in over : \A m \in over : m <= n]
             IN  IF a < ph.vaddr + ph.filesz THEN ph.offset + (a - ph.vaddr) ELSE ZERO

\* After every header, and so also when a later header is rejected, memory is
\* what the headers handled so far say, byte by byte, and nothing else has
\* been touched.  The header that was rejected has changed nothing.
MemoryIsImage ==
    NoWrap => \A a \in Byte : mem[a] = Expected(a, IF ret = -1 THEN i - 1 ELSE i)

\* The range elf_load returns is exactly the range of the segments: every byte
\* that was written is in it, and both ends belong to a segment.
RangeIsTight ==
    NoWrap /\ ret = 0 =>
        /\ \A a \in Byte : mem[a] # OLD => load_min <= a /\ a < load_max
        /\ \E n \in Loads(image) : image.phdrs[n].vaddr = load_min
        /\ \E n \in Loads(image) : image.phdrs[n].vaddr + image.phdrs[n].memsz = load_max

\* Only bytes of the file are copied.
CopiesFromFile ==
    NoWrap => \A a \in Byte : mem[a] \in Byte => mem[a] < image.size
=============================================================================
