-------------------------------- MODULE Fifo --------------------------------
(***************************************************************************)
(* What the keyboard buffer promises: characters come out in the order     *)
(* they went in, each once, and one is refused only when LIMIT are         *)
(* waiting.                                                                *)
(***************************************************************************)
EXTENDS Naturals, Sequences

CONSTANTS KeyChars, ZERO, Readers, LIMIT

VARIABLES
    queue,  \* characters waiting, oldest first
    fate,   \* what became of the last one offered: "none", "kept", "dropped"
    last    \* per reader, the last character it was given

Init == queue = << >> /\ fate = "none" /\ last = [r \in Readers |-> ZERO]

Put(c) ==
    /\ Len(queue) < LIMIT
    /\ queue' = Append(queue, c)
    /\ fate' = "kept"
    /\ UNCHANGED last

Drop ==
    /\ Len(queue) = LIMIT
    /\ fate' = "dropped"
    /\ UNCHANGED <<queue, last>>

Take(r) ==
    /\ queue # << >>
    /\ last' = [last EXCEPT ![r] = Head(queue)]
    /\ queue' = Tail(queue)
    /\ UNCHANGED fate

Next == (\E c \in KeyChars : Put(c)) \/ Drop \/ \E r \in Readers : Take(r)

Spec == Init /\ [][Next]_<<queue, fate, last>>
=============================================================================
