------------------------------- MODULE E1000 -------------------------------
(***************************************************************************)
(* net/e1000.c: net_init programs the card one group of registers at a     *)
(* time.  The card (external) ends its reset when it likes: until then the *)
(* RST bit reads as set, and the end puts every register back to its       *)
(* default.  The fields of `e1':                                           *)
(*   pc       "off", "absent", "reset", "write", "link" or "ready"         *)
(*   next     the number of the group net_init writes next                 *)
(*   timeout  the counter of the polling loops                             *)
(*   rst      the RST bit of REG_CTRL                                      *)
(*   slow     the loop waiting for the reset ran out                       *)
(*   set      the groups that hold what net_init wrote                     *)
(*   up       the LU bit of REG_STATUS                                     *)
(***************************************************************************)
EXTENDS Integers, Sequences

CONSTANT E1_POLLS  \* 100000, the iterations of both polling loops

ASSUME E1000Assumption == E1_POLLS \in Nat \ {0}

VARIABLE e1

\* The groups in the order net_init writes them.
Groups == <<"MTA", "RA", "RXRING", "RCTL", "TXRING", "TCTL", "IMS">>

E1Init ==
    e1 \in [pc : {"off"}, next : {1}, timeout : {0}, rst : {FALSE}, slow : {FALSE}, set : {{}},
            up : BOOLEAN]

\* No card on the PCI bus.
NotFound ==
    /\ e1.pc = "off"
    /\ e1' = [e1 EXCEPT !.pc = "absent"]

\* Bus mastering and memory space on, then the reset.
StartReset ==
    /\ e1.pc = "off"
    /\ e1' = [e1 EXCEPT !.pc = "reset", !.timeout = E1_POLLS, !.rst = TRUE]

\* Mutant: waits for ever.
PollRst_Forever ==
    /\ e1.pc = "reset"
    /\ ~e1.rst
    /\ e1' = [e1 EXCEPT !.pc = "write"]

\* while ((e1000_read(REG_CTRL) & (1 << 26)) && reset_timeout--): when it runs
\* out there is a warning, and net_init goes on.
PollRst ==
    /\ e1.pc = "reset"
    /\ e1' = [e1 EXCEPT !.timeout = IF e1.rst THEN @ - 1 ELSE @,
                        !.slow = e1.rst /\ e1.timeout = 0,
                        !.pc = IF ~e1.rst \/ e1.timeout = 0 THEN "write" ELSE @]

WriteGroup ==
    /\ e1.pc = "write"
    /\ e1' = [e1 EXCEPT !.set = @ \cup {Groups[e1.next]},
                        !.next = @ + 1,
                        !.pc = IF e1.next = Len(Groups) THEN "link" ELSE @,
                        !.timeout = E1_POLLS]

\* do { ... link_timeout--; } while (!(status & (1 << 1)) && link_timeout > 0)
PollLink ==
    /\ e1.pc = "link"
    /\ e1' = [e1 EXCEPT !.timeout = @ - 1,
                        !.pc = IF e1.up \/ e1.timeout <= 1 THEN "ready" ELSE @]

CardResetEnds ==
    /\ e1.rst
    /\ e1' = [e1 EXCEPT !.rst = FALSE, !.set = {}]

CardLink == e1.pc # "off" /\ e1' = [e1 EXCEPT !.up = ~@]

NetInitStep == NotFound \/ StartReset \/ PollRst \/ WriteGroup \/ PollLink
E1Next == NetInitStep \/ CardResetEnds \/ CardLink

-----------------------------------------------------------------------------
(* Properties.                                                             *)

\* Receiving is on only while the multicast table is cleared, the address set
\* and the ring in place (e1000.c:26 on stale state), unless the card needed
\* longer for its reset than net_init waits.
RxAfterSetup ==
    ~e1.slow /\ "RCTL" \in e1.set => {"MTA", "RA", "RXRING"} \subseteq e1.set

\* net_init returns, also without a link and with a reset that never ends.
NetInitEnds == e1.pc = "reset" ~> e1.pc = "ready"
=============================================================================
