----------------------------- MODULE MCClients -----------------------------
(* The sizes of the code but for task_t and the stack, on an arena of a    *)
(* few blocks.                                                             *)
EXTENDS Clients

\* 0: unknown; 10: less than a header; 100: less than the arena.
MCRamSizes == {0, 10, 100}
\* 0 is refused; 9 rounds up; the remainders fall on both sides of
\* MIN_SPLIT_SIZE as the arena fragments.
MCSizes == {0, 9, 20, 24, 40}
\* The first entry's parent is not there yet, the second's is.
MCEntries == [i \in 1 .. 2 |-> [parent_path |-> "a", name |-> "a"]]
=============================================================================
