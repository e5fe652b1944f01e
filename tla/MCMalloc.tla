------------------------------ MODULE MCMalloc ------------------------------
(* Sizes that make krealloc shrink with and without a split, absorb the    *)
(* following block whole or in part, move, and fail to move.               *)
EXTENDS Malloc

MCRamSizes == {0}
MCSizes == {9, 24}
MCNewSizes == {0, 8, 20, 52, 90}
=============================================================================
