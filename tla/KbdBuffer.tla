----------------------------- MODULE KbdBuffer -----------------------------
(***************************************************************************)
(* The keyboard ring, kernel/kbd_buffer.c, between its two users: the IRQ1 *)
(* handler that fills it (kernel/keyboard_irq.c) and the tasks that empty  *)
(* it through sys_read (kernel/syscall.c).                                 *)
(*                                                                         *)
(* irq1_handler runs to completion, but it may arrive between any two      *)
(* accesses kbd_buffer_pop makes to the shared indices.  Tasks are         *)
(* switched only inside sys_yield, so a task that is inside                *)
(* kbd_buffer_pop keeps the processor until it leaves.                     *)
(***************************************************************************)
EXTENDS Naturals, Sequences

CONSTANTS
    KBD_BUF_SIZE,
    KeyChars, \* what a text key press puts into the buffer
    ZERO,     \* the content of a static char array
    Readers   \* tasks that call sys_read

ASSUME KbdAssumption ==
    /\ KBD_BUF_SIZE \in Nat \ {0}
    /\ KeyChars # {}
    /\ Readers # {}

VARIABLES
    g_buf, g_head, g_tail,
    running,  \* the task that has the processor
    pc,       \* where each reader is
    out,      \* the local c of sys_read
    last,     \* the character each reader's last sys_read returned
    fate      \* what kbd_buffer_push did last

ring == <<g_buf, g_head, g_tail>>
kbd_vars == <<g_buf, g_head, g_tail, running, pc, out, last, fate>>

Slots == 0 .. KBD_BUF_SIZE - 1
Succ(i) == (i + 1) % KBD_BUF_SIZE

KbdInit ==
    /\ g_buf = [i \in Slots |-> ZERO]
    /\ g_head = 0
    /\ g_tail = 0
    /\ running \in Readers
    /\ pc = [r \in Readers |-> "user"]
    /\ out = [r \in Readers |-> ZERO]
    /\ last = [r \in Readers |-> ZERO]
    /\ fate = "none"

\* Mutant: gives up one slot too early.
Push_Early(c) ==
    IF Succ(g_head) = g_tail \/ Succ(Succ(g_head)) = g_tail
    THEN fate' = "dropped" /\ UNCHANGED ring
    ELSE /\ g_buf' = [g_buf EXCEPT ![g_head] = c]
         /\ g_head' = Succ(g_head)
         /\ fate' = "kept"
         /\ UNCHANGED g_tail

\* kbd_buffer_push: a character that finds the ring full is thrown away.
Push(c) ==
    IF Succ(g_head) = g_tail
    THEN fate' = "dropped" /\ UNCHANGED ring
    ELSE /\ g_buf' = [g_buf EXCEPT ![g_head] = c]
         /\ g_head' = Succ(g_head)
         /\ fate' = "kept"
         /\ UNCHANGED g_tail

\* irq1_handler for a key press that is text; any other scancode leaves the
\* ring alone.
Irq1(c) == Push(c) /\ UNCHANGED <<running, pc, out, last>>

\* A task that is not in sys_read either enters it or gives the processor up.
EnterRead(r) ==
    /\ pc[r] = "user"
    /\ pc' = [pc EXCEPT ![r] = "test"]
    /\ UNCHANGED <<g_buf, g_head, g_tail, running, out, last, fate>>

\* sys_yield hands the processor to whichever task the scheduler prefers.  The
\* loop of sys_read calls it after a test that failed, even if a key has come
\* in since, and tests again once it has the processor back.
Yield(r) ==
    /\ pc[r] \in {"user", "empty"}
    /\ running' \in Readers
    /\ pc' = [pc EXCEPT ![r] = IF @ = "empty" THEN "test" ELSE @]
    /\ UNCHANGED <<g_buf, g_head, g_tail, out, last, fate>>

\* Mutant: sys_read yields before it tests the ring.
PopEmpty_Any(r) ==
    /\ pc[r] = "test"
    /\ pc' = [pc EXCEPT ![r] = "empty"]
    /\ UNCHANGED <<g_buf, g_head, g_tail, running, out, last, fate>>

\* kbd_buffer_pop returns false.
PopEmpty(r) ==
    /\ pc[r] = "test"
    /\ g_tail = g_head
    /\ pc' = [pc EXCEPT ![r] = "empty"]
    /\ UNCHANGED <<g_buf, g_head, g_tail, running, out, last, fate>>

PopTest(r) ==
    /\ pc[r] = "test"
    /\ g_tail # g_head
    /\ pc' = [pc EXCEPT ![r] = "load"]
    /\ UNCHANGED <<g_buf, g_head, g_tail, running, out, last, fate>>

PopLoad(r) ==
    /\ pc[r] = "load"
    /\ out' = [out EXCEPT ![r] = g_buf[g_tail]]
    /\ pc' = [pc EXCEPT ![r] = "advance"]
    /\ UNCHANGED <<g_buf, g_head, g_tail, running, last, fate>>

\* The index moves, kbd_buffer_pop returns true and sys_read returns 1.
PopAdvance(r) ==
    /\ pc[r] = "advance"
    /\ g_tail' = Succ(g_tail)
    /\ last' = [last EXCEPT ![r] = out[r]]
    /\ pc' = [pc EXCEPT ![r] = "user"]
    /\ UNCHANGED <<g_buf, g_head, running, out, fate>>

Step(r) ==
    \/ EnterRead(r) \/ Yield(r)
    \/ PopEmpty(r) \/ PopTest(r) \/ PopLoad(r) \/ PopAdvance(r)

KbdNext == (\E c \in KeyChars : Irq1(c)) \/ Step(running)

\* A task that has the processor keeps executing.  IRQ1 owes nobody anything.
KbdFairness == WF_kbd_vars(Step(running))

KbdSpec == KbdInit /\ [][KbdNext]_kbd_vars
KbdFairSpec == KbdSpec /\ KbdFairness

-----------------------------------------------------------------------------
(* Properties.                                                             *)

KbdTypeOK ==
    /\ g_buf \in [Slots -> KeyChars \cup {ZERO}]
    /\ g_head \in Slots
    /\ g_tail \in Slots
    /\ running \in Readers
    /\ pc \in [Readers -> {"user", "test", "empty", "load", "advance"}]
    /\ out \in [Readers -> KeyChars \cup {ZERO}]
    /\ last \in [Readers -> KeyChars \cup {ZERO}]
    /\ fate \in {"none", "kept", "dropped"}

\* Between reading the oldest slot and moving g_tail past it, kbd_buffer_pop
\* holds a copy that no interrupt makes stale: the ring is not empty and the
\* slot still contains what was read, however many keys arrive in between.
\* Only the task with the processor is inside kbd_buffer_pop.
PopUndisturbed ==
    \A r \in Readers :
        /\ pc[r] \in {"load", "advance"} => running = r /\ g_tail # g_head
        /\ pc[r] = "advance" => out[r] = g_buf[g_tail]

Count == IF g_tail <= g_head THEN g_head - g_tail
                             ELSE g_head + KBD_BUF_SIZE - g_tail
Slot(i) == IF g_tail + i <= KBD_BUF_SIZE THEN g_tail + i - 1
                                         ELSE g_tail + i - 1 - KBD_BUF_SIZE
Queue == [i \in 1 .. Count |-> g_buf[Slot(i)]]

Promise == INSTANCE Fifo WITH queue <- Queue, LIMIT <- KBD_BUF_SIZE - 1

\* Interrupts in the middle of kbd_buffer_pop included, the ring is a queue:
\* first in, first out, every kept key delivered once, and a key thrown away
\* only when KBD_BUF_SIZE - 1 are waiting.
IsFifo == Promise!Spec

\* sys_read returns once it tests a ring that holds a character: nothing can
\* take that character away before kbd_buffer_pop has it, and the loop is not
\* sent back to sys_yield.
ReadReturns ==
    \A r \in Readers :
        running = r /\ pc[r] = "test" /\ g_tail # g_head ~> pc[r] = "user"
=============================================================================
