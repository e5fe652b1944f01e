------------------------------- MODULE Sched -------------------------------
(***************************************************************************)
(* The cooperative priority scheduler, init/init_sched.c, with the context *)
(* switch of arch/x86-64/context_switch.asm.                               *)
(*                                                                         *)
(* Every task on g_task_list was put in front by sys_create_task, which    *)
(* also numbers it with g_next_id, and nothing removes a task.  The list   *)
(* is therefore the ids 0 .. g_next_id - 1 in descending order, and "comes *)
(* earlier in the list" is "has the greater id".  Only the task that has   *)
(* the processor acts; it leaves it only inside sys_yield.                 *)
(***************************************************************************)
EXTENDS Integers

CONSTANTS
    WORD,       \* number of values of uint32_t, where g_sched_ticks wraps
    MaxTasks,   \* task_t's and stacks the heap has room for; none is ever freed
    Priorities, \* priorities passed to sys_create_task
    Delays,     \* arguments of sys_sleep
    Exiting     \* ids of the tasks whose entry returns

ASSUME SchedAssumption ==
    /\ WORD \in Nat \ {0}
    /\ MaxTasks \in Nat \ {0}
    /\ Priorities \subseteq Nat
    /\ Delays \subseteq 0 .. WORD - 1
    /\ Exiting \subseteq Nat

VARIABLES
    g_current_task,  \* id of the task with the processor
    g_next_id,
    g_sched_ticks,
    state,           \* task id -> task_state_t
    priority,
    wake_tick

vars == <<g_current_task, g_next_id, g_sched_ticks, state, priority, wake_tick>>

READY   == "READY"
RUNNING == "RUNNING"
BLOCKED == "BLOCKED"
DEAD    == "DEAD"
TaskState == {READY, RUNNING, BLOCKED, DEAD}

NoTask == -1
Tasks == 0 .. g_next_id - 1
cur == g_current_task
Ticks == 0 .. WORD - 1

-----------------------------------------------------------------------------
(* pick_next and sys_yield, on the states st and deadlines wt the caller   *)
(* has already written.                                                    *)

\* The list walk wakes every sleeper whose deadline has come, the current
\* task included.
Woken(st, wt, now) ==
    [t \in Tasks |-> IF st[t] = BLOCKED /\ wt[t] <= now THEN READY ELSE st[t]]

\* Mutant: takes dead tasks for candidates, too.
Candidates_Dead(st) == {t \in Tasks \ {cur} : st[t] \in {READY, DEAD}}

Candidates(st) == {t \in Tasks \ {cur} : st[t] = READY}

\* What pick_next returns: the highest priority first and, among equals, the
\* task met first in the list; the current task if nobody else is ready.
Picked(st, next) ==
    IF Candidates(st) = {}
    THEN next = cur
    ELSE /\ next \in Candidates(st)
         /\ \A u \in Candidates(st) :
               \/ priority[next] > priority[u]
               \/ priority[next] = priority[u] /\ next >= u

\* The states after context_switch from the current task to next.
Switch(st, next) ==
    [st EXCEPT ![cur]  = IF @ = RUNNING THEN READY ELSE @,
               ![next] = RUNNING]

\* Mutant: the tick counter stands still while there is nobody to switch to.
Reschedule_NoTick(st, wt) ==
    LET now   == (g_sched_ticks + 1) % WORD
        woken == Woken(st, wt, now)
    IN  \E next \in Tasks :
            /\ Picked(woken, next)
            /\ g_sched_ticks' = IF next = cur THEN g_sched_ticks ELSE now
            /\ state' = IF next = cur THEN woken ELSE Switch(woken, next)
            /\ g_current_task' = next

\* sys_yield: count the call, choose, and switch unless the choice is oneself.
Reschedule(st, wt) ==
    LET now   == (g_sched_ticks + 1) % WORD
        woken == Woken(st, wt, now)
    IN  \E next \in Tasks :
            /\ Picked(woken, next)
            /\ g_sched_ticks' = now
            /\ state' = IF next = cur THEN woken ELSE Switch(woken, next)
            /\ g_current_task' = next

-----------------------------------------------------------------------------

Init ==
    /\ g_current_task = NoTask
    /\ g_next_id = 1
    /\ g_sched_ticks = 0
    /\ state = [t \in {} |-> READY]
    /\ priority = [t \in {} |-> 0]
    /\ wake_tick = [t \in {} |-> 0]

\* The flow of control that calls sys_sched_init becomes task 0.
SysSchedInit ==
    /\ cur = NoTask
    /\ g_current_task' = 0
    /\ g_next_id' = 1
    /\ state' = [t \in {0} |-> RUNNING]
    /\ priority' = [t \in {0} |-> 0]
    /\ wake_tick' = [t \in {0} |-> 0]
    /\ UNCHANGED g_sched_ticks

\* The current task executes its own code: it has not left it by exiting.
Executing == cur # NoTask /\ state[cur] # DEAD

Enlist(prio) ==
    /\ g_next_id' = g_next_id + 1
    /\ state' = [t \in 0 .. g_next_id |-> IF t = g_next_id THEN READY ELSE state[t]]
    /\ priority' = [t \in 0 .. g_next_id |-> IF t = g_next_id THEN prio ELSE priority[t]]
    /\ wake_tick' = [t \in 0 .. g_next_id |-> IF t = g_next_id THEN 0 ELSE wake_tick[t]]

\* Without memory for the stack sys_create_task frees the task_t again and
\* returns INVALID_TASK_ID; nothing else has changed by then.
SysCreateTask(prio) ==
    /\ Executing
    /\ IF g_next_id < MaxTasks
       THEN Enlist(prio) /\ UNCHANGED <<g_current_task, g_sched_ticks>>
       ELSE UNCHANGED vars

SysYield ==
    /\ Executing
    /\ Reschedule(state, wake_tick)
    /\ UNCHANGED <<g_next_id, priority, wake_tick>>

SysSleep(ms) ==
    /\ Executing
    /\ wake_tick' = [wake_tick EXCEPT ![cur] = (g_sched_ticks + ms) % WORD]
    /\ Reschedule([state EXCEPT ![cur] = BLOCKED], wake_tick')
    /\ UNCHANGED <<g_next_id, priority>>

\* sys_task_exit, called by the task or by task_trampoline when entry returns.
\* If nobody else is ready the dead task stays current, in the endless loop.
SysTaskExit ==
    /\ Executing
    /\ cur \in Exiting
    /\ Reschedule([state EXCEPT ![cur] = DEAD], wake_tick)
    /\ UNCHANGED <<g_next_id, priority, wake_tick>>

\* for (;;) { } at the end of sys_task_exit.
Halted == cur # NoTask /\ state[cur] = DEAD
Spin == Halted /\ UNCHANGED vars

\* Every call that goes through sys_yield.
GiveWay == SysYield \/ (\E ms \in Delays : SysSleep(ms)) \/ SysTaskExit

Next ==
    \/ SysSchedInit
    \/ \E prio \in Priorities : SysCreateTask(prio)
    \/ GiveWay
    \/ Spin

\* "Tasks must call sys_yield() themselves" (init_sched.c:3-4); what a task
\* executes in between is finite.
Fairness == WF_vars(SysSchedInit) /\ WF_vars(GiveWay)

Spec == Init /\ [][Next]_vars
FairSpec == Spec /\ Fairness

-----------------------------------------------------------------------------
(* Properties.                                                             *)

TypeOK ==
    /\ g_current_task \in Tasks \cup {NoTask}
    /\ g_next_id \in Nat \ {0}
    /\ g_sched_ticks \in Ticks
    /\ IF cur = NoTask
       THEN DOMAIN state = {} /\ DOMAIN priority = {} /\ DOMAIN wake_tick = {}
       ELSE /\ state \in [Tasks -> TaskState]
            /\ priority \in [Tasks -> Nat]
            /\ wake_tick \in [Tasks -> Ticks]

\* One processor: a task that is marked running is the current one.  sys_yield
\* re-marks the task it leaves, sys_create_task and the wake-up loop never
\* mark one running, and a task that slept in vain stays current but unmarked.
OneRunning == \A t \in DOMAIN state : state[t] = RUNNING => t = cur

DeadKept ==
    \A t \in DOMAIN state : state[t] = DEAD =>
        state'[t] = DEAD /\ (cur' = t => cur = t)

\* A dead task is never revived, not by the wake-up loop of pick_next, whose
\* deadline test its old wake_tick passes, and is never switched to.
DeadStaysDead == [][DeadKept]_vars

HighestNext ==
    cur # NoTask /\ cur' # cur =>
        \A u \in DOMAIN state \ {cur} :
            state'[u] = READY => priority[u] <= priority[cur']

\* Whenever sys_yield switches, no task it leaves waiting, those it has just
\* woken included, has a higher priority than the one it switched to.  The
\* caller itself does not count, even when its priority is the highest.
SwitchesToHighest == [][HighestNext]_vars

Is(t, s) == t \in DOMAIN state /\ state[t] = s

\* A sleeper is woken, even when its deadline or the counter has wrapped,
\* unless the machine has come to a halt in sys_task_exit.
SleepersWake ==
    \A t \in 0 .. MaxTasks - 1 :
        Is(t, BLOCKED) ~> ~Is(t, BLOCKED) \/ Halted

\* Nobody who is ready waits for ever, as init_sched.c:104 has it of tasks of
\* equal priority, which take turns.
ReadyTasksRun ==
    \A t \in 0 .. MaxTasks - 1 :
        Is(t, READY) ~> cur = t \/ Halted

\* As long as there is only one other task, whatever the priorities, neither
\* waits for ever: pick_next never picks its caller while the other is ready.
TwoTakeTurns == [](g_next_id <= 2) => ReadyTasksRun

\* Nobody is forgotten: sleepers wake, and two tasks take turns.
TasksProceed == SleepersWake /\ TwoTakeTurns

\* init_sched.c:165 calls the loop after sys_yield in sys_task_exit
\* unreachable.
SpinUnreachable == ~Halted
=============================================================================
