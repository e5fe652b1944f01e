----------------------------- MODULE Supervisor -----------------------------
(***************************************************************************)
(* init_main (init/init.c) as task 0 of the scheduler, watching over the   *)
(* console.  initlib.c carves the watching out of init_main as functions:  *)
(* with library the loop calls those instead.                              *)
(*                                                                         *)
(* Of the counter only its place in the cycle of yields matters; the logs  *)
(* it also triggers are left out.  One pass of the loop is one step up to  *)
(* its yields, as nothing preempts it.                                     *)
(***************************************************************************)
EXTENDS Sched

CONSTANTS
    YIELD_EVERY,  \* 50 in init_main
    MaxFailures   \* how often sys_create_task may find the heap used up by others

\* init_main creates its consoles with priority 1.
ASSUME SupervisorAssumption == YIELD_EVERY \in Nat \ {0} /\ MaxFailures \in Nat /\ 1 \in Priorities

VARIABLES
    supervised,  \* task 0 is init_main; otherwise it is any task
    library,     \* init_main uses initlib.c
    pc,          \* where init_main stands
    tid,         \* the task it watches, or NoTask, which is INVALID_TASK_ID
    s,           \* s.state: what the last successful query said
    ticks,
    failures

init_vars == <<supervised, library, pc, tid, s, ticks, failures>>
svars == <<vars, init_vars>>

\* s is not initialised: it starts as whatever the stack holds.
SupInit ==
    /\ Init
    /\ supervised \in BOOLEAN
    /\ library \in BOOLEAN /\ (library => supervised)
    /\ pc = "start"
    /\ tid = NoTask
    /\ s \in IF supervised THEN TaskState ELSE {READY}
    /\ ticks = 0
    /\ failures = 0

\* sys_query_task finds the task on the list.
Found == tid \in Tasks

\* Mutant: the id of the new console is not kept.
CreateConsole_Forget ==
    \/ /\ g_next_id < MaxTasks
       /\ Enlist(1)
       /\ UNCHANGED <<g_current_task, g_sched_ticks, tid, failures>>
    \/ /\ g_next_id = MaxTasks \/ failures < MaxFailures
       /\ failures' = IF g_next_id = MaxTasks THEN failures ELSE failures + 1
       /\ UNCHANGED <<vars, tid>>

\* tid = sys_create_task(console_subsystem, 1)
CreateConsole ==
    \/ /\ g_next_id < MaxTasks
       /\ tid' = g_next_id
       /\ Enlist(1)
       /\ UNCHANGED <<g_current_task, g_sched_ticks, failures>>
    \/ /\ g_next_id = MaxTasks \/ failures < MaxFailures
       /\ tid' = NoTask
       /\ failures' = IF g_next_id = MaxTasks THEN failures ELSE failures + 1
       /\ UNCHANGED vars

Start ==
    /\ pc = "start"
    /\ CreateConsole
    /\ pc' = "loop"
    /\ UNCHANGED <<supervised, library, s, ticks>>

\* Mutant: a failed query leaves the loop without a verdict, in init.c too.
Dead_Fresh == Found /\ s' = DEAD

\* The console is taken for dead: init.c looks at s even when the query failed
\* and left it as it was, initlib_check_task_health returns before.
Dead == s' = DEAD /\ (library => Found)

\* A pass of the loop up to its yields.
Watch ==
    /\ pc = "loop"
    /\ ticks' = (ticks + 1) % (2 * YIELD_EVERY)
    /\ s' = IF Found THEN state[tid] ELSE s
    /\ IF Dead THEN CreateConsole ELSE UNCHANGED <<vars, tid, failures>>
    /\ pc' = CASE s' = RUNNING /\ ticks' = 0 -> "yield_twice"
               [] ticks' % YIELD_EVERY = 0   -> "yield"
               [] OTHER                      -> "loop"
    /\ UNCHANGED <<supervised, library>>

InitYield ==
    /\ pc \in {"yield_twice", "yield"}
    /\ pc' = IF pc = "yield_twice" THEN "yield" ELSE "loop"
    /\ SysYield
    /\ UNCHANGED <<supervised, library, tid, s, ticks, failures>>

InitMain == supervised /\ cur = 0 /\ (Start \/ Watch \/ InitYield)

\* Beside init_main only its consoles run.
Console == (supervised => cur > 0) /\ GiveWay /\ UNCHANGED init_vars
Other ==
    /\ ~supervised
    /\ \E prio \in Priorities : SysCreateTask(prio)
    /\ UNCHANGED init_vars
Begin == SysSchedInit /\ UNCHANGED init_vars
Stop == Spin /\ UNCHANGED init_vars

SupNext == Begin \/ InitMain \/ Console \/ Other \/ Stop

SupSpec == SupInit /\ [][SupNext]_svars
SupFairSpec ==
    SupSpec /\ WF_svars(Begin) /\ WF_svars(Console) /\ WF_svars(InitMain)

-----------------------------------------------------------------------------
(* Properties.                                                             *)

\* However stale what the loop knows is, it never has two consoles alive: it
\* makes a new one only when the last one it made is dead or was never made.
OneConsole ==
    supervised =>
        \A t, u \in DOMAIN state \ {0} : state[t] # DEAD /\ state[u] # DEAD => t = u

\* init_main always has the processor back: it never blocks, so a console
\* that exits or sleeps never ends in the endless loop of sys_task_exit.
SupervisorKeepsRunning == supervised => []<>(cur = 0)

\* A console that died is replaced as long as the heap can hold another, also
\* when the first attempts fail: init.c then goes on from a stale s, which
\* still says dead.  initlib.c gives up after one failed attempt.
ConsoleRevived ==
    supervised /\ ~library =>
        (Is(tid, DEAD) ~> g_next_id = MaxTasks \/ (tid # NoTask /\ ~Is(tid, DEAD)))

\* What init_main is there for: it never loses the processor for good, and a
\* dead console is replaced.
Supervises == SupervisorKeepsRunning /\ ConsoleRevived
=============================================================================
