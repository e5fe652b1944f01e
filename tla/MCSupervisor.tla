---------------------------- MODULE MCSupervisor ----------------------------
(* Three tasks of any kind, or init_main and up to two consoles.           *)
EXTENDS Supervisor
=============================================================================
