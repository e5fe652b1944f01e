---------------------------- MODULE MCKbdBuffer ----------------------------
(* A ring of three slots and two readers: the ring fills, wraps and drops  *)
(* while either reader is in the middle of a pop.                          *)
EXTENDS KbdBuffer
=============================================================================
