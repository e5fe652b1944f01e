------------------------------- MODULE MCBoot -------------------------------
(* The machine is started from power-on for one image, and from the moment*)
(* the kernel is entered for all the others.                               *)
(* Every image of up to two program headers over small numbers: segments   *)
(* that overlap, are empty, end at the last byte or wrap around it, lie    *)
(* outside the file or are longer in the file than in memory; files of no  *)
(* bytes, too short for a header and longer than INIT_MAXSZ.               *)
EXTENDS Boot, Loader

Phdrs == [type : {PT_LOAD}, offset : {1, 4, 7}, filesz : 0 .. 2, vaddr : {0, 2, 3, 6}, memsz : 0 .. 2]
         \cup {[type |-> "PT_NOTE", offset |-> 0, filesz |-> 0, vaddr |-> 0, memsz |-> 0]}

Image(size, ok, phoff, entsize, phdrs) ==
    [size |-> size, headerOk |-> ok, phoff |-> phoff, phentsize |-> entsize, phdrs |-> phdrs]

MCImages ==
    {Image(5, TRUE, 1, 2, <<p, q>>) : p \in Phdrs, q \in Phdrs}
    \cup {Image(s, TRUE, 1, 2, <<p>>) : s \in {0, 5, 6}, p \in Phdrs}
    \cup {Image(1, TRUE, 1, 0, <<p>>) : p \in Phdrs}
    \cup {Image(5, FALSE, 1, 2, <<p>>) : p \in Phdrs}
    \cup {Image(5, TRUE, 0, 2, <<p>>) : p \in Phdrs}
    \cup {Image(5, TRUE, 4, 2, <<p>>) : p \in Phdrs}
    \cup {Image(5, TRUE, 1, 2, <<>>)}

\* The table of main.asm, and second stages in several pieces, in any order
\* and beyond the first cylinder.
Piece(lba, count) == [lba |-> lba, count |-> count]
MCTables ==
    {<<Piece(1, 15)>>, <<Piece(1, 4), Piece(40, 11)>>, <<Piece(2000, 3), Piece(9300, 5), Piece(19, 7)>>}

\* An image without headers: elf_load leaves its state as it was.
Small == Image(5, TRUE, 1, 2, <<>>)

\* The state in which the kernel is entered without a detour.
Entered ==
    [PowerOn(<<Piece(1, 15)>>, Lines) EXCEPT !.at = "kernel", !.si = 2, !.step = 7, !.al = Lines,
        !.mem = Stored(Stored(Stored(<<>>, STAGE2_LOAD, 1, 15), KERNEL_STAGING_ADDR, KERNEL_LBA, KERNEL_SECTORS),
                       KERNEL_FINAL_ADDR, KERNEL_LBA, KERNEL_SECTORS)]

MCInit == BInit /\ IF image = Small THEN LInit ELSE ld = Entered

\* The kernel runs once it is entered; a reboot takes it back to its start.
MCNext ==
    \/ /\ image = Small
       /\ LNext
       /\ IF ld'.at = "start"
          THEN stage' = "open" /\ buf' = "none" /\ UNCHANGED elf_vars
          ELSE UNCHANGED bvars
    \/ /\ ld.at = "kernel"
       /\ BNext
       /\ UNCHANGED ld

MCSpec == MCInit /\ [][MCNext]_<<bvars, ld>> /\ LFair
=============================================================================
