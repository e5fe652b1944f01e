------------------------------- MODULE Files -------------------------------
(* The contents of a file as a sequence, and what writing from its start   *)
(* makes of it: vfs_write overwrites and extends, nothing truncates.       *)
EXTENDS Integers, Sequences

Min2(a, b) == IF a < b THEN a ELSE b
Max2(a, b) == IF a < b THEN b ELSE a

\* old after the first j elements of new were written over it.
Overlay(old, new, j) ==
    [i \in 1 .. Max2(Len(old), j) |-> IF i <= j THEN new[i] ELSE old[i]]
=============================================================================
