---------------------------- MODULE KernelProofs ----------------------------
(***************************************************************************)
(* The scheduler and init_main, which runs on it, for any number of tasks, *)
(* any priorities and any width of the tick counter; and the keyboard       *)
(* decoder, for any keys of its tables and any order of their bytes.       *)
(***************************************************************************)
EXTENDS Supervisor, Keyboard, SequenceTheorems, TLAPS

-----------------------------------------------------------------------------
(* The scheduler.                                                          *)

\* A number reduced modulo WORD is a tick.
LEMMA ModWord ==
    ASSUME NEW n \in Nat
    PROVE  n % WORD \in Ticks
BY SchedAssumption DEF Ticks

\* sys_yield keeps the table well-formed, whatever state the caller put
\* itself into first, as long as it marked nobody running.
LEMMA RescheduleSafe ==
    ASSUME TypeOK, cur # NoTask,
           NEW st \in [Tasks -> TaskState],
           \A t \in Tasks : st[t] = RUNNING => t = cur,
           NEW wt \in [Tasks -> Ticks],
           Reschedule(st, wt),
           g_next_id' = g_next_id
    PROVE  /\ g_current_task' \in Tasks
           /\ g_sched_ticks' \in Ticks
           /\ state' \in [Tasks -> TaskState]
           /\ \A t \in Tasks : state'[t] = RUNNING => t = g_current_task'
<1> DEFINE now == (g_sched_ticks + 1) % WORD
           woken == Woken(st, wt, now)
<1>0. g_sched_ticks + 1 \in Nat
  BY SchedAssumption DEF TypeOK, Ticks
<1>1. now \in Ticks
  BY <1>0, ModWord
<1>2. /\ woken \in [Tasks -> TaskState]
      /\ \A t \in Tasks : woken[t] = RUNNING => t = cur
  BY DEF Woken, TaskState, READY, RUNNING, BLOCKED, DEAD
<1>3. PICK next \in Tasks :
          /\ Picked(woken, next)
          /\ g_sched_ticks' = now
          /\ state' = IF next = cur THEN woken ELSE Switch(woken, next)
          /\ g_current_task' = next
  BY DEF Reschedule
<1>4. cur \in Tasks
  BY DEF TypeOK, cur, NoTask
<1> HIDE DEF woken, now
<1>5. CASE next = cur
  BY <1>1, <1>2, <1>3, <1>5
<1>6. CASE next # cur
  BY <1>1, <1>2, <1>3, <1>4, <1>6 DEF Switch, TaskState, READY, RUNNING, BLOCKED, DEAD
<1> QED BY <1>5, <1>6

Inv == TypeOK /\ OneRunning

LEMMA InitInv == Init => Inv
BY SchedAssumption DEF Init, Inv, TypeOK, OneRunning, Tasks, cur, NoTask, Ticks

LEMMA NextInv == Inv /\ [Next]_vars => Inv'
<1> SUFFICES ASSUME Inv, [Next]_vars PROVE Inv'
  OBVIOUS
<1> USE DEF Inv
<1>1. CASE SysSchedInit
  BY <1>1, SchedAssumption
     DEF SysSchedInit, TypeOK, OneRunning, Tasks, cur, NoTask, Ticks,
         TaskState, READY, RUNNING, BLOCKED, DEAD
<1>2. ASSUME NEW prio \in Priorities, SysCreateTask(prio) PROVE Inv'
  <2>1. CASE g_next_id < MaxTasks
    <3> DEFINE new == g_next_id
    <3>1. /\ new \in Nat
          /\ cur \in Tasks
          /\ state \in [Tasks -> TaskState]
          /\ priority \in [Tasks -> Nat]
          /\ wake_tick \in [Tasks -> Ticks]
          /\ prio \in Nat
          /\ 0 \in Ticks
      BY <1>2, SchedAssumption DEF SysCreateTask, Executing, TypeOK, cur, NoTask, Ticks
    <3>2. Tasks' = 0 .. new /\ Tasks = 0 .. new - 1
      BY <1>2, <2>1, <3>1 DEF SysCreateTask, Enlist, Tasks
    <3>3. state' \in [Tasks' -> TaskState]
      BY <1>2, <2>1, <3>1, <3>2
         DEF SysCreateTask, Enlist, TaskState, READY
    <3>4. priority' \in [Tasks' -> Nat]
      BY <1>2, <2>1, <3>1, <3>2 DEF SysCreateTask, Enlist
    <3>8. wake_tick' \in [Tasks' -> Ticks]
      BY <1>2, <2>1, <3>1, <3>2 DEF SysCreateTask, Enlist
    <3>5. \A t \in Tasks' : state'[t] = RUNNING => t = cur'
      BY <1>2, <2>1, <3>1, <3>2
         DEF SysCreateTask, Enlist, OneRunning, READY, RUNNING, cur
    <3>6. g_current_task' \in Tasks' /\ g_next_id' \in Nat \ {0} /\ g_sched_ticks' \in Ticks
      BY <1>2, <2>1, <3>1, <3>2 DEF SysCreateTask, Enlist, TypeOK, cur
    <3>7. cur' # NoTask
      BY <3>2, <3>6 DEF cur, NoTask
    <3> QED
      BY <3>3, <3>4, <3>5, <3>6, <3>7, <3>8 DEF TypeOK, OneRunning
  <2>2. CASE ~(g_next_id < MaxTasks)
    BY <1>2, <2>2 DEF SysCreateTask, vars, TypeOK, OneRunning, Tasks, cur
  <2> QED BY <2>1, <2>2
<1>3. CASE SysYield
  <2>1. /\ state \in [Tasks -> TaskState]
        /\ \A t \in Tasks : state[t] = RUNNING => t = cur
        /\ wake_tick \in [Tasks -> Ticks]
        /\ cur # NoTask
        /\ Reschedule(state, wake_tick)
        /\ UNCHANGED <<g_next_id, priority, wake_tick>>
    BY <1>3 DEF SysYield, Executing, TypeOK, OneRunning
  <2>2. /\ g_current_task' \in Tasks
        /\ g_sched_ticks' \in Ticks
        /\ state' \in [Tasks -> TaskState]
        /\ \A t \in Tasks : state'[t] = RUNNING => t = g_current_task'
    BY <2>1, RescheduleSafe
  <2> QED BY <2>1, <2>2 DEF TypeOK, OneRunning, Tasks, cur, NoTask
<1>4. ASSUME NEW ms \in Delays, SysSleep(ms) PROVE Inv'
  <2> DEFINE st == [state EXCEPT ![cur] = BLOCKED]
  <2>1. /\ cur # NoTask
        /\ Reschedule(st, wake_tick')
        /\ wake_tick' = [wake_tick EXCEPT ![cur] = (g_sched_ticks + ms) % WORD]
        /\ UNCHANGED <<g_next_id, priority>>
    BY <1>4 DEF SysSleep, Executing
  <2>0. g_sched_ticks + ms \in Nat
    BY SchedAssumption DEF TypeOK, Ticks
  <2>2. (g_sched_ticks + ms) % WORD \in Ticks
    BY <2>0, ModWord
  <2>3. wake_tick' \in [Tasks -> Ticks]
    BY Zenon, <2>1, <2>2 DEF TypeOK
  <2>4. /\ st \in [Tasks -> TaskState]
        /\ \A t \in Tasks : st[t] = RUNNING => t = cur
    BY Zenon, <2>1 DEF TypeOK, OneRunning, TaskState, READY, RUNNING, BLOCKED, DEAD
  <2> HIDE DEF st
  <2>5. /\ g_current_task' \in Tasks
        /\ g_sched_ticks' \in Ticks
        /\ state' \in [Tasks -> TaskState]
        /\ \A t \in Tasks : state'[t] = RUNNING => t = g_current_task'
    BY Zenon, <2>1, <2>3, <2>4, RescheduleSafe
  <2> QED BY <2>1, <2>3, <2>5 DEF TypeOK, OneRunning, Tasks, cur, NoTask
<1>5. CASE SysTaskExit
  <2> DEFINE st == [state EXCEPT ![cur] = DEAD]
  <2>1. /\ cur # NoTask
        /\ Reschedule(st, wake_tick)
        /\ UNCHANGED <<g_next_id, priority, wake_tick>>
    BY <1>5 DEF SysTaskExit, Executing
  <2>2. /\ st \in [Tasks -> TaskState]
        /\ wake_tick \in [Tasks -> Ticks]
        /\ \A t \in Tasks : st[t] = RUNNING => t = cur
    BY Zenon, <2>1 DEF TypeOK, OneRunning, TaskState, READY, RUNNING, BLOCKED, DEAD
  <2> HIDE DEF st
  <2>3. /\ g_current_task' \in Tasks
        /\ g_sched_ticks' \in Ticks
        /\ state' \in [Tasks -> TaskState]
        /\ \A t \in Tasks : state'[t] = RUNNING => t = g_current_task'
    BY <2>1, <2>2, RescheduleSafe
  <2> QED BY <2>1, <2>2, <2>3 DEF TypeOK, OneRunning, Tasks, cur, NoTask
<1>6. CASE Spin \/ UNCHANGED vars
  BY Z3T(60), <1>6 DEF Spin, vars, TypeOK, OneRunning, Tasks, cur
<1> QED
  BY <1>1, <1>2, <1>3, <1>4, <1>5, <1>6 DEF Next, GiveWay

\* However many tasks are created, sleep and exit, the table stays well-formed
\* and only the current task is marked running.
THEOREM Safety == Spec => [](TypeOK /\ OneRunning)
BY InitInv, NextInv, PTL DEF Spec, Inv

\* At no time are two tasks marked running (init_sched.c:126-144).
THEOREM OneRuns == Spec => []OneRunning
BY Safety, PTL

\* sys_yield switches to nobody who is dead, revives nobody, and leaves nobody
\* of a higher priority than its choice ready.
LEMMA RescheduleChoice ==
    ASSUME TypeOK, cur # NoTask,
           NEW st \in [Tasks -> TaskState],
           NEW wt \in [Tasks -> Ticks],
           Reschedule(st, wt)
    PROVE  /\ \A t \in Tasks \ {cur} : st[t] = DEAD =>
                 state'[t] = DEAD /\ g_current_task' # t
           /\ g_current_task' # cur =>
                 \A u \in Tasks \ {cur} :
                     state'[u] = READY => priority[u] <= priority[g_current_task']
<1> DEFINE now == (g_sched_ticks + 1) % WORD
           woken == Woken(st, wt, now)
<1>1. /\ woken \in [Tasks -> TaskState]
      /\ \A t \in Tasks : st[t] = DEAD => woken[t] = DEAD
  BY DEF Woken, TaskState, READY, RUNNING, BLOCKED, DEAD
<1>2. PICK next \in Tasks :
          /\ Picked(woken, next)
          /\ state' = IF next = cur THEN woken ELSE Switch(woken, next)
          /\ g_current_task' = next
  BY DEF Reschedule
<1>3. cur \in Tasks /\ priority \in [Tasks -> Nat]
  BY DEF TypeOK, cur, NoTask
<1> HIDE DEF woken, now
<1>4. CASE next = cur
  BY <1>1, <1>2, <1>4
<1>5. CASE next # cur
  <2>1. /\ next \in Candidates(woken)
        /\ \A u \in Candidates(woken) : priority[u] <= priority[next]
    BY <1>2, <1>3, <1>5 DEF Picked, Candidates
  <2>2. woken[next] = READY
    BY <2>1 DEF Candidates
  <2>3. \A t \in Tasks \ {cur, next} : state'[t] = woken[t]
    BY <1>1, <1>2, <1>3, <1>5 DEF Switch
  <2>4. state'[next] = RUNNING
    BY <1>1, <1>2, <1>3, <1>5 DEF Switch
  <2>5. ASSUME NEW t \in Tasks \ {cur}, st[t] = DEAD
        PROVE  state'[t] = DEAD /\ g_current_task' # t
    BY <1>1, <1>2, <2>2, <2>3, <2>5 DEF READY, DEAD
  <2>6. ASSUME NEW u \in Tasks \ {cur}, state'[u] = READY
        PROVE  priority[u] <= priority[g_current_task']
    BY <1>2, <2>1, <2>3, <2>4, <2>6 DEF Candidates, READY, RUNNING
  <2> QED BY <2>5, <2>6
<1> QED BY <1>4, <1>5

\* What the two action properties say of one step.
LEMMA StepChoice == Inv /\ [Next]_vars => [DeadKept /\ HighestNext]_vars
<1> SUFFICES ASSUME Inv, Next PROVE DeadKept /\ HighestNext
  OBVIOUS
<1> USE DEF Inv
<1>1. CASE SysSchedInit
  BY <1>1 DEF SysSchedInit, TypeOK, DeadKept, HighestNext
<1>2. ASSUME NEW prio \in Priorities, SysCreateTask(prio) PROVE DeadKept /\ HighestNext
  BY <1>2 DEF SysCreateTask, Enlist, Executing, TypeOK, Tasks, cur, vars, DeadKept, HighestNext
<1>3. ASSUME cur # NoTask, state[cur] # DEAD,
             NEW st \in [Tasks -> TaskState],
             NEW wt \in [Tasks -> Ticks],
             \A t \in Tasks \ {cur} : st[t] = state[t],
             Reschedule(st, wt)
      PROVE  DeadKept /\ HighestNext
  <2>1. DOMAIN state = Tasks
    BY <1>3 DEF TypeOK
  <2>2. /\ \A t \in Tasks \ {cur} : st[t] = DEAD =>
              state'[t] = DEAD /\ g_current_task' # t
        /\ g_current_task' # cur =>
              \A u \in Tasks \ {cur} :
                  state'[u] = READY => priority[u] <= priority[g_current_task']
    BY <1>3, RescheduleChoice
  <2>3. DeadKept
    BY <1>3, <2>1, <2>2 DEF DeadKept, cur
  <2>4. HighestNext
    BY <2>1, <2>2 DEF HighestNext, cur
  <2> QED BY <2>3, <2>4
<1>4. CASE SysYield
  <2>1. /\ cur # NoTask
        /\ state[cur] # DEAD
        /\ state \in [Tasks -> TaskState]
        /\ wake_tick \in [Tasks -> Ticks]
        /\ Reschedule(state, wake_tick)
    BY <1>4 DEF SysYield, Executing, TypeOK
  <2> QED BY <1>3, <2>1
<1>5. ASSUME NEW ms \in Delays, SysSleep(ms) PROVE DeadKept /\ HighestNext
  <2> DEFINE st == [state EXCEPT ![cur] = BLOCKED]
  <2>1. /\ cur # NoTask
        /\ state[cur] # DEAD
        /\ Reschedule(st, wake_tick')
        /\ wake_tick' = [wake_tick EXCEPT ![cur] = (g_sched_ticks + ms) % WORD]
    BY <1>5 DEF SysSleep, Executing
  <2>2. g_sched_ticks + ms \in Nat
    BY SchedAssumption DEF TypeOK, Ticks
  <2>3. wake_tick' \in [Tasks -> Ticks]
    BY Zenon, <2>1, <2>2, ModWord DEF TypeOK
  <2>4. /\ st \in [Tasks -> TaskState]
        /\ \A t \in Tasks \ {cur} : st[t] = state[t]
    BY Zenon, <2>1 DEF TypeOK, TaskState, BLOCKED
  <2> HIDE DEF st
  <2> QED BY Zenon, <1>3, <2>1, <2>3, <2>4
<1>6. CASE SysTaskExit
  <2> DEFINE st == [state EXCEPT ![cur] = DEAD]
  <2>1. /\ cur # NoTask
        /\ state[cur] # DEAD
        /\ Reschedule(st, wake_tick)
        /\ wake_tick \in [Tasks -> Ticks]
    BY <1>6 DEF SysTaskExit, Executing, TypeOK
  <2>2. /\ st \in [Tasks -> TaskState]
        /\ \A t \in Tasks \ {cur} : st[t] = state[t]
    BY Zenon, <2>1 DEF TypeOK, TaskState, DEAD
  <2> HIDE DEF st
  <2> QED BY <1>3, <2>1, <2>2
<1>7. CASE Spin
  BY <1>7 DEF Spin, vars, DeadKept, HighestNext, cur
<1> QED
  BY <1>1, <1>2, <1>4, <1>5, <1>6, <1>7 DEF Next, GiveWay

\* A task that has exited is never switched to and never revived.
THEOREM DeadForever == Spec => DeadStaysDead
<1>1. Inv /\ [Next]_vars => [DeadKept]_vars
  BY StepChoice
<1> QED BY <1>1, InitInv, NextInv, PTL DEF Spec, DeadStaysDead

\* sys_yield never leaves a ready task of a higher priority behind.
THEOREM HighestFirst == Spec => SwitchesToHighest
<1>1. Inv /\ [Next]_vars => [HighestNext]_vars
  BY StepChoice
<1> QED BY <1>1, InitInv, NextInv, PTL DEF Spec, SwitchesToHighest

-----------------------------------------------------------------------------
(* init_main and its consoles.                                             *)

\* sys_yield kills nobody and revives nobody.
LEMMA RescheduleKeepsDead ==
    ASSUME TypeOK, cur # NoTask,
           NEW st \in [Tasks -> TaskState],
           NEW wt \in [Tasks -> Ticks],
           Reschedule(st, wt)
    PROVE  \A t \in Tasks : state'[t] = DEAD <=> st[t] = DEAD
<1> DEFINE now == (g_sched_ticks + 1) % WORD
           woken == Woken(st, wt, now)
<1>1. /\ woken \in [Tasks -> TaskState]
      /\ \A t \in Tasks : woken[t] = DEAD <=> st[t] = DEAD
  BY DEF Woken, TaskState, READY, RUNNING, BLOCKED, DEAD
<1>2. PICK next \in Tasks :
          /\ Picked(woken, next)
          /\ state' = IF next = cur THEN woken ELSE Switch(woken, next)
  BY DEF Reschedule
<1>3. cur \in Tasks
  BY DEF TypeOK, cur, NoTask
<1> HIDE DEF woken, now
<1>4. CASE next = cur
  BY <1>1, <1>2, <1>4
<1>5. CASE next # cur
  <2>1. woken[next] = READY
    BY <1>2, <1>5 DEF Picked, Candidates
  <2>2. \A t \in Tasks \ {cur, next} : state'[t] = woken[t]
    BY <1>1, <1>2, <1>3, <1>5 DEF Switch
  <2>3. state'[next] = RUNNING /\ state'[cur] = (IF woken[cur] = RUNNING THEN READY ELSE woken[cur])
    BY <1>1, <1>2, <1>3, <1>5 DEF Switch
  <2> QED BY <1>1, <2>1, <2>2, <2>3 DEF READY, RUNNING, DEAD
<1> QED BY <1>4, <1>5

\* Whoever is alive beside init_main is the task whose id it keeps, and
\* init_main itself does not exit.
Watches ==
    supervised =>
        /\ cur = NoTask => pc = "start"
        /\ pc = "start" => g_next_id = 1
        /\ cur # NoTask => state[0] # DEAD
        /\ \A t \in DOMAIN state \ {0} : state[t] # DEAD => t = tid

SupInv == Inv /\ Watches

LEMMA SupInitInv == SupInit => SupInv
<1> SUFFICES ASSUME SupInit PROVE SupInv
  OBVIOUS
<1>1. Inv BY InitInv DEF SupInit
<1>2. Watches BY DEF SupInit, Init, Watches, cur, NoTask
<1> QED BY <1>1, <1>2 DEF SupInv

\* Creating a console is a call of sys_create_task.
LEMMA CreateConsoleCalls ==
    ASSUME SupInv, supervised, cur = 0, CreateConsole
    PROVE  SysCreateTask(1) \/ UNCHANGED vars
<1>1. Executing BY DEF SupInv, Watches, Executing, NoTask
<1> QED BY <1>1 DEF CreateConsole, SysCreateTask

\* A step of init_main or of its consoles is a step of the scheduler.
LEMMA SupStep == SupInv /\ [SupNext]_svars => [Next]_vars
<1> SUFFICES ASSUME SupInv, [SupNext]_svars PROVE [Next]_vars
  OBVIOUS
<1>1. CASE Begin BY <1>1 DEF Begin, Next
<1>2. CASE InitMain
  <2>1. supervised /\ cur = 0 BY <1>2 DEF InitMain
  <2>2. 1 \in Priorities BY SupervisorAssumption
  <2>3. CASE Start BY <2>1, <2>2, <2>3, CreateConsoleCalls DEF Start, Next
  <2>4. CASE Watch BY <2>1, <2>2, <2>4, CreateConsoleCalls DEF Watch, Next, vars
  <2>5. CASE InitYield BY <2>5 DEF InitYield, Next, GiveWay
  <2> QED BY <1>2, <2>3, <2>4, <2>5 DEF InitMain
<1>3. CASE Console BY <1>3 DEF Console, Next
<1>4. CASE Other BY <1>4 DEF Other, Next
<1>5. CASE Stop BY <1>5 DEF Stop, Next
<1>6. CASE UNCHANGED svars BY <1>6 DEF svars
<1> QED BY <1>1, <1>2, <1>3, <1>4, <1>5, <1>6 DEF SupNext

\* A console is created only when no other is alive.
LEMMA CreateConsoleWatches ==
    ASSUME SupInv, supervised, cur = 0, CreateConsole, pc' # "start", UNCHANGED supervised,
           \A t \in DOMAIN state \ {0} : state[t] = DEAD
    PROVE  Watches'
<1>1. /\ g_next_id \in Nat \ {0} /\ state \in [0 .. g_next_id - 1 -> TaskState] /\ state[0] # DEAD
  BY DEF SupInv, Inv, TypeOK, Tasks, Watches, NoTask
<1>2. CASE Enlist(1) /\ tid' = g_next_id /\ UNCHANGED g_current_task
  <2>1. DOMAIN state' = 0 .. g_next_id /\ \A t \in 0 .. g_next_id - 1 : state'[t] = state[t]
    BY <1>1, <1>2 DEF Enlist
  <2>2. \A t \in 0 .. g_next_id : t = g_next_id \/ t \in 0 .. g_next_id - 1
    BY <1>1
  <2>3. \A t \in DOMAIN state' \ {0} : state'[t] # DEAD => t = tid'
    BY <1>1, <1>2, <2>1, <2>2
  <2>4. state'[0] # DEAD BY <1>1, <2>1
  <2>5. cur' # NoTask BY <1>2 DEF cur, NoTask
  <2> QED BY <2>3, <2>4, <2>5 DEF Watches
<1>3. CASE UNCHANGED vars
  BY <1>1, <1>3 DEF vars, Watches, cur, NoTask
<1> QED BY <1>2, <1>3 DEF CreateConsole

\* Whoever gives way, init_main or a console, leaves the others as they are.
LEMMA GiveWayWatches ==
    ASSUME SupInv, supervised, SysYield \/ (GiveWay /\ cur > 0), UNCHANGED <<supervised, tid>>,
           pc' = "start" => pc = "start"
    PROVE  Watches'
<1>1. /\ cur # NoTask /\ cur \in Tasks /\ g_next_id \in Nat \ {0} /\ state \in [Tasks -> TaskState]
      /\ wake_tick \in [Tasks -> Ticks] /\ g_sched_ticks \in Ticks
  BY DEF GiveWay, SysYield, SysSleep, SysTaskExit, Executing, SupInv, Inv, TypeOK, cur, NoTask
<1>2. ASSUME NEW st \in [Tasks -> TaskState], NEW wt \in [Tasks -> Ticks], Reschedule(st, wt),
             \A t \in Tasks : st[t] # DEAD => state[t] # DEAD,
             st[0] # DEAD, UNCHANGED g_next_id
      PROVE  Watches'
  <2>1. \A t \in Tasks : state'[t] = DEAD <=> st[t] = DEAD
    BY <1>1, <1>2, RescheduleKeepsDead DEF SupInv, Inv
  <2>2. DOMAIN state' = Tasks /\ cur' \in Tasks
    <3>1. PICK next \in Tasks :
              /\ state' = IF next = cur THEN Woken(st, wt, (g_sched_ticks + 1) % WORD)
                          ELSE Switch(Woken(st, wt, (g_sched_ticks + 1) % WORD), next)
              /\ g_current_task' = next
      BY <1>2 DEF Reschedule
    <3> QED BY <3>1 DEF Switch, Woken, cur
  <2>3. cur' # NoTask BY <1>1, <2>2 DEF Tasks, NoTask
  <2>4. 0 \in Tasks BY <1>1 DEF Tasks
  <2>5. /\ pc = "start" => g_next_id = 1
        /\ \A t \in Tasks \ {0} : state[t] # DEAD => t = tid
    BY <1>1 DEF SupInv, Watches
  <2>6. \A t \in DOMAIN state' \ {0} : state'[t] # DEAD => t = tid'
    BY <1>2, <2>1, <2>2, <2>5
  <2>7. state'[0] # DEAD BY <1>2, <2>1, <2>4
  <2> QED BY <1>2, <2>3, <2>5, <2>6, <2>7 DEF Watches
<1>3. state[0] # DEAD /\ 0 \in Tasks BY <1>1 DEF SupInv, Watches, Tasks
<1>4. CASE SysYield BY <1>1, <1>2, <1>3, <1>4 DEF SysYield
<1>5. ASSUME NEW ms \in Delays, SysSleep(ms) PROVE Watches'
  <2> DEFINE st == [state EXCEPT ![cur] = BLOCKED]
  <2>1. g_sched_ticks + ms \in Nat BY <1>1, SchedAssumption DEF Ticks
  <2>2. wake_tick' \in [Tasks -> Ticks] BY <1>1, <1>5, <2>1, ModWord DEF SysSleep
  <2>3. /\ st \in [Tasks -> TaskState] /\ \A t \in Tasks : st[t] # DEAD => state[t] # DEAD \/ t = cur
        /\ st[0] # DEAD
    BY <1>1, <1>3 DEF TaskState, BLOCKED, DEAD
  <2>4. state[cur] # DEAD /\ Reschedule(st, wake_tick') /\ UNCHANGED g_next_id BY <1>5 DEF SysSleep, Executing
  <2> HIDE DEF st
  <2> QED BY <1>2, <2>2, <2>3, <2>4
<1>6. CASE SysTaskExit /\ cur > 0
  <2> DEFINE st == [state EXCEPT ![cur] = DEAD]
  <2>1. /\ st \in [Tasks -> TaskState] /\ \A t \in Tasks : st[t] # DEAD => state[t] # DEAD
        /\ st[0] # DEAD
    BY <1>1, <1>3, <1>6 DEF TaskState, DEAD
  <2>2. Reschedule(st, wake_tick) /\ UNCHANGED g_next_id BY <1>6 DEF SysTaskExit
  <2> HIDE DEF st
  <2> QED BY <1>1, <1>2, <2>1, <2>2
<1> QED BY <1>4, <1>5, <1>6 DEF GiveWay

LEMMA SupNextInv == SupInv /\ [SupNext]_svars => SupInv'
<1> SUFFICES ASSUME SupInv, [SupNext]_svars PROVE SupInv'
  OBVIOUS
<1>0. Inv' BY SupStep, NextInv DEF SupInv
<1>1. SUFFICES ASSUME supervised, supervised' = supervised PROVE Watches'
  BY <1>0 DEF SupInv, Watches, SupNext, svars, init_vars, InitMain, Start, Watch, InitYield, Begin, Console, Other, Stop
<1>2. CASE Begin
  BY <1>2 DEF Begin, SysSchedInit, init_vars, SupInv, Watches, cur, NoTask, RUNNING, DEAD
<1>3. CASE InitMain
  <2>1. cur = 0 /\ cur # NoTask BY <1>3 DEF InitMain, NoTask
  <2>2. state \in [Tasks -> TaskState] /\ DOMAIN state = Tasks BY <2>1 DEF SupInv, Inv, TypeOK
  <2>3. CASE Start
    <3>1. \A t \in DOMAIN state \ {0} : state[t] = DEAD
      <4>1. g_next_id = 1 BY <1>1, <2>3 DEF Start, SupInv, Watches
      <4>2. Tasks \ {0} = {} BY <4>1 DEF Tasks
      <4> QED BY Zenon, <2>2, <4>2
    <3> QED BY <1>1, <2>1, <2>3, <3>1, CreateConsoleWatches DEF Start
  <2>4. CASE Watch
    <3>1. pc' # "start" /\ pc # "start" BY <2>4 DEF Watch
    <3>2. CASE Dead
      <4>1. \A t \in DOMAIN state \ {0} : state[t] = DEAD
        <5>1. \A t \in Tasks \ {0} : state[t] # DEAD => t = tid BY Zenon, <1>1, <2>2 DEF SupInv, Watches
        <5>2. tid \in Tasks => state[tid] = DEAD BY Zenon, <2>4, <3>2 DEF Watch, Dead, Found
        <5> QED BY Zenon, <2>2, <5>1, <5>2
      <4> QED BY <1>1, <2>1, <2>4, <3>1, <3>2, <4>1, CreateConsoleWatches DEF Watch
    <3>3. CASE ~Dead
      BY <1>1, <2>4, <3>1, <3>3 DEF Watch, SupInv, Watches, vars, cur
    <3> QED BY <3>2, <3>3
  <2>5. CASE InitYield
    <3>1. SysYield /\ UNCHANGED <<supervised, tid>> /\ pc' # "start" BY <2>5 DEF InitYield
    <3> QED BY Zenon, <1>1, <3>1, GiveWayWatches
  <2> QED BY <1>3, <2>3, <2>4, <2>5 DEF InitMain
<1>4. CASE Console
  BY Zenon, <1>1, <1>4, GiveWayWatches DEF Console, init_vars
<1>5. CASE Other BY <1>1, <1>5 DEF Other
<1>6. CASE Stop \/ UNCHANGED svars
  BY Zenon, <1>6 DEF Stop, Spin, svars, vars, init_vars, SupInv, Watches, cur
<1> QED BY <1>2, <1>3, <1>4, <1>5, <1>6 DEF SupNext

LEMMA SupAlways == SupSpec => []SupInv
BY SupInitInv, SupNextInv, PTL DEF SupSpec

\* init_main and its consoles use the scheduler only through its calls: with
\* the state of init_main hidden, all they do is a behaviour of the scheduler.
THEOREM SupervisorSchedules == SupSpec => Spec
<1>1. SupInit => Init BY DEF SupInit
<1> QED BY <1>1, SupAlways, SupStep, PTL DEF SupSpec, Spec

\* However often consoles die or cannot be created, and whatever init_main's
\* uninitialised status says, two consoles are never alive (init.c:8-32).
THEOREM NeverTwoConsoles == SupSpec => []OneConsole
<1>1. SupInv => OneConsole BY DEF SupInv, Watches, OneConsole
<1> QED BY <1>1, SupAlways, PTL

-----------------------------------------------------------------------------
(* The keyboard decoder.                                                   *)

\* The layout f has no entry for k.
Without(f, k) == k \notin DOMAIN f

\* Neither a held modifier nor KEY_NONE has an entry in a layout.
LEMMA SilentKeys ==
  ASSUME NEW l \in DOMAIN g_layouts, NEW k \in DOMAIN HoldFlag \cup {KEY_NONE}
  PROVE  k \notin DOMAIN g_layouts[l]
  <1> DEFINE Silent == {"KEY_LEFT_SHIFT", "KEY_RIGHT_SHIFT", "KEY_LEFT_CTRL", "KEY_RIGHT_CTRL",
                        "KEY_LEFT_ALT", "KEY_RIGHT_ALT", "KEY_NONE"}
  <1>1. k \in Silent BY DEF HoldFlag, KEY_NONE
  <1>2. \A x \in DOMAIN MainKeys : MainKeys[x] \notin Silent BY DEF MainKeys
  <1>3. \A x \in DOMAIN KeypadKeys : KeypadKeys[x] \notin Silent BY DEF KeypadKeys
  <1> HIDE DEF Silent
  <1>4. k \notin Listed(MainKeys) /\ k \notin Listed(KeypadKeys) BY Zenon, <1>1, <1>2, <1>3 DEF Listed
  <1>5. \A columns, keypad : Without(Entries(columns, keypad), k)
    BY Zenon, <1>4 DEF Entries, Without
  <1>6. Without(layout_qwerty, k) BY Zenon, <1>5 DEF layout_qwerty
  <1>7. Without(layout_azerty, k) BY Zenon, <1>5 DEF layout_azerty
  <1>8. Without(layout_qwertz, k) BY Zenon, <1>5 DEF layout_qwertz
  <1>9. Without(layout_dvorak, k) BY Zenon, <1>5 DEF layout_dvorak
  <1>10. g_layouts[l] \in {layout_qwerty, layout_azerty, layout_qwertz, layout_dvorak} BY ONLY l \in DOMAIN g_layouts DEF g_layouts
  <1> QED BY Zenon, <1>6, <1>7, <1>8, <1>9, <1>10 DEF Without

\* No two codes of the tables have one keycode.
LEMMA PlainCodes ==
  /\ \A x, y \in DOMAIN set1_table : set1_table[x] = set1_table[y] => x = y
  /\ \A x \in DOMAIN set1_table : \/ set1_table[x] \in {"KEY_F11", "KEY_F12"}
                                  \/ x \in DOMAIN Set1Codes /\ set1_table[x] = Set1Codes[x]
  <1> DEFINE Late == {"KEY_F11", "KEY_F12"}
  <1>1. \A x, y \in DOMAIN Set1Codes : Set1Codes[x] = Set1Codes[y] => x = y BY DEF Set1Codes
  <1>2. \A x \in DOMAIN Set1Codes : Set1Codes[x] \notin Late BY DEF Set1Codes
  <1>3. DOMAIN Set1Codes = 1 .. 83 BY DEF Set1Codes
  <1>4. DOMAIN set1_table = 1 .. 83 \cup {87, 88} BY Zenon DEF set1_table
  <1>5. \A x \in 1 .. 83 \cup {87, 88} :
          set1_table[x] = IF x = 87 THEN "KEY_F11" ELSE IF x = 88 THEN "KEY_F12" ELSE Set1Codes[x]
    BY Zenon DEF set1_table
  <1>6. \A x \in 1 .. 83 : x # 87 /\ x # 88 OBVIOUS
  <1>7. \A x \in 1 .. 83 : set1_table[x] = Set1Codes[x] BY ZenonT(60), <1>5, <1>6
  <1>8. set1_table[87] = "KEY_F11" /\ set1_table[88] = "KEY_F12" /\ "KEY_F11" # "KEY_F12"
    BY <1>5
  <1>9. ASSUME NEW x \in DOMAIN set1_table, NEW y \in DOMAIN set1_table, set1_table[x] = set1_table[y]
        PROVE  x = y
    <2>1. x \in 1 .. 83 \/ x = 87 \/ x = 88 BY Zenon, <1>4
    <2>2. y \in 1 .. 83 \/ y = 87 \/ y = 88 BY Zenon, <1>4
    <2>3. CASE x \in 1 .. 83 /\ y \in 1 .. 83
      <3>1. Set1Codes[x] = Set1Codes[y] BY Zenon, <1>7, <1>9, <2>3
      <3> QED BY Zenon, <1>1, <1>3, <2>3, <3>1
    <2>4. \A c \in 1 .. 83 : set1_table[c] # set1_table[87] /\ set1_table[c] # set1_table[88]
      BY <1>2, <1>3, <1>7, <1>8
    <2> QED BY <1>8, <1>9, <2>1, <2>2, <2>3, <2>4
  <1>10. ASSUME NEW x \in DOMAIN set1_table
         PROVE  set1_table[x] \in Late \/ (x \in DOMAIN Set1Codes /\ set1_table[x] = Set1Codes[x])
    <2>1. x \in 1 .. 83 \/ x = 87 \/ x = 88 BY Zenon, <1>4
    <2> QED BY <1>3, <1>7, <1>8, <2>1
  <1> QED BY Zenon, <1>9, <1>10

LEMMA PrefixedCodes ==
  /\ \A x, y \in DOMAIN set1_extended_table : set1_extended_table[x] = set1_extended_table[y] => x = y
  /\ \A x \in DOMAIN set1_table, y \in DOMAIN set1_extended_table : set1_table[x] # set1_extended_table[y]
  <1> DEFINE codes == << 28, 29, 53, 56, 71, 72, 73, 75, 77, 79, 80, 81, 82, 83 >>
             keycodes ==
               << "KEY_KP_ENTER", "KEY_RIGHT_CTRL", "KEY_KP_SLASH", "KEY_RIGHT_ALT", "KEY_HOME",
                  "KEY_ARROW_UP", "KEY_PAGE_UP", "KEY_ARROW_LEFT", "KEY_ARROW_RIGHT", "KEY_END",
                  "KEY_ARROW_DOWN", "KEY_PAGE_DOWN", "KEY_INSERT", "KEY_DELETE" >>
             at(c) == CHOOSE x \in DOMAIN codes : codes[x] = c
             Prefixed == {keycodes[x] : x \in DOMAIN keycodes}
  <1>1. set1_extended_table = [c \in {codes[x] : x \in DOMAIN codes} |-> keycodes[at(c)]]
    BY Zenon DEF set1_extended_table
  <1>2. \A x, y \in DOMAIN keycodes : keycodes[x] = keycodes[y] => x = y OBVIOUS
  <1>3. DOMAIN keycodes = DOMAIN codes OBVIOUS
  <1>4. \A x \in DOMAIN keycodes : keycodes[x] \notin {"KEY_F11", "KEY_F12"} OBVIOUS
  <1>5. \A x \in DOMAIN Set1Codes : Set1Codes[x] \notin Prefixed BY DEF Set1Codes
  <1> HIDE DEF codes, keycodes
  <1>6. \A c \in DOMAIN set1_extended_table : at(c) \in DOMAIN codes /\ codes[at(c)] = c BY Zenon, <1>1
  <1> HIDE DEF at
  <1>7. \A c \in DOMAIN set1_extended_table : set1_extended_table[c] = keycodes[at(c)] BY Zenon, <1>1
  <1>8. \A x, y \in DOMAIN set1_extended_table : set1_extended_table[x] = set1_extended_table[y] => x = y
    <2> SUFFICES ASSUME NEW x \in DOMAIN set1_extended_table, NEW y \in DOMAIN set1_extended_table,
                        set1_extended_table[x] = set1_extended_table[y]
                 PROVE  x = y
      BY Zenon
    <2>1. keycodes[at(x)] = keycodes[at(y)] BY Zenon, <1>7
    <2>2. at(x) \in DOMAIN keycodes /\ at(y) \in DOMAIN keycodes BY Zenon, <1>3, <1>6
    <2>3. at(x) = at(y) BY Zenon, <1>2, <2>1, <2>2
    <2> QED BY Zenon, <1>6, <2>3
  <1>9. \A x \in DOMAIN set1_table, y \in DOMAIN set1_extended_table : set1_table[x] # set1_extended_table[y]
    <2> SUFFICES ASSUME NEW x \in DOMAIN set1_table, NEW y \in DOMAIN set1_extended_table
                 PROVE  set1_table[x] # keycodes[at(y)]
      BY Zenon, <1>7
    <2>1. at(y) \in DOMAIN keycodes BY Zenon, <1>3, <1>6
    <2>2. CASE set1_table[x] \in {"KEY_F11", "KEY_F12"} BY Zenon, <1>4, <2>1, <2>2
    <2>3. CASE x \in DOMAIN Set1Codes /\ set1_table[x] = Set1Codes[x] BY Zenon, <1>5, <2>1, <2>3
    <2>4. \/ set1_table[x] \in {"KEY_F11", "KEY_F12"}
          \/ x \in DOMAIN Set1Codes /\ set1_table[x] = Set1Codes[x]
      BY Zenon, PlainCodes
    <2> QED BY Zenon, <2>2, <2>3, <2>4
  <1> QED BY Zenon, <1>8, <1>9

\* No two keys of the keyboard have one keycode, unless the tables know neither.
LEMMA KeycodesDistinct ==
  ASSUME NEW k1 \in Keys, NEW k2 \in Keys, KeyOf(k1) = KeyOf(k2), KeyOf(k1) # KEY_NONE
  PROVE  k1 = k2
  <1>1. \A k \in Keys : k.code % 128 = k.code /\ k.ext \in BOOLEAN BY KeyboardAssumption
  <1>2. k1 \in [code : 0 .. 95, ext : BOOLEAN] /\ k2 \in [code : 0 .. 95, ext : BOOLEAN]
    BY Zenon, KeyboardAssumption
  <1>3. ASSUME NEW k \in Keys, KeyOf(k) # KEY_NONE
        PROVE  /\ k.ext => k.code \in DOMAIN set1_extended_table /\ KeyOf(k) = set1_extended_table[k.code]
               /\ ~k.ext => k.code \in DOMAIN set1_table /\ KeyOf(k) = set1_table[k.code]
    <2>1. k.code % 128 = k.code BY Zenon, <1>1
    <2>2. CASE k.ext BY Zenon, <1>3, <2>1, <2>2 DEF KeyOf, KeycodeFromSet1
    <2>3. CASE ~k.ext BY ZenonT(60), <1>3, <2>1, <2>3 DEF KeyOf, KeycodeFromSet1
    <2> QED BY Zenon, <2>2, <2>3
  <1>4. KeyOf(k2) # KEY_NONE /\ k1.ext \in BOOLEAN /\ k2.ext \in BOOLEAN BY Zenon, <1>1
  <1>5. CASE k1.ext /\ k2.ext
    <2>1. k1.code = k2.code BY ZenonT(60), <1>3, <1>4, <1>5, PrefixedCodes
    <2> QED BY <1>2, <1>5, <2>1
  <1>6. CASE ~k1.ext /\ ~k2.ext
    <2>1. k1.code = k2.code BY <1>3, <1>4, <1>6, PlainCodes
    <2> QED BY <1>2, <1>6, <2>1
  <1>7. CASE k1.ext /\ ~k2.ext BY <1>3, <1>4, <1>7, PrefixedCodes
  <1>8. CASE ~k1.ext /\ k2.ext BY <1>3, <1>4, <1>8, PrefixedCodes
  <1> QED BY Zenon, <1>4, <1>5, <1>6, <1>7, <1>8

\* Translating k leaves the pending dead key a.
KeepsDead(l, a, k, m) == Translate(l, a, k, m).dead = a

LEMMA TranslateIdle ==
  ASSUME NEW l, NEW a, NEW k, NEW m, k \notin DOMAIN g_layouts[l]
  PROVE  Translate(l, a, k, m).codepoint = 0 /\ Translate(l, a, k, m).dead = a
  <1>1. Translate(l, a, k, m) = [codepoint |-> 0, dead |-> a] BY Zenon DEF Translate
  <1> QED BY <1>1

LEMMA TranslateDead ==
  ASSUME NEW l, NEW k, NEW m
  PROVE  \/ \A a : Translate(l, a, k, m).dead = a
         \/ \E d : \A a : Translate(l, a, k, m).dead = d
  <1>1. CASE k \notin DOMAIN g_layouts[l]
    <2>1. \A a : Translate(l, a, k, m).dead = a BY <1>1, TranslateIdle
    <2> QED BY Zenon, <2>1
  <1>2. CASE k \in DOMAIN g_layouts[l]
    <2> DEFINE e == g_layouts[l][k]
               cp == e[Column(e, m)]
    <2>1. CASE cp = 0
      <3>1. \A a : Translate(l, a, k, m) = [codepoint |-> 0, dead |-> a] BY Zenon, <1>2, <2>1 DEF Translate
      <3>2. \A a : [codepoint |-> 0, dead |-> a].dead = a OBVIOUS
      <3> QED BY Zenon, <3>1, <3>2
    <2>2. CASE cp # 0 /\ Column(e, m) \in e.dead
      <3>1. \A a : Translate(l, a, k, m) = [codepoint |-> 0, dead |-> cp] BY Zenon, <1>2, <2>2 DEF Translate
      <3>2. \A d : [codepoint |-> 0, dead |-> d].dead = d OBVIOUS
      <3> QED BY Zenon, <3>1, <3>2
    <2>3. CASE cp # 0 /\ Column(e, m) \notin e.dead
      <3>1. \A a : \E c : Translate(l, a, k, m) = [codepoint |-> c, dead |-> 0] BY Zenon, <1>2, <2>3 DEF Translate
      <3>2. \A c : [codepoint |-> c, dead |-> 0].dead = 0 OBVIOUS
      <3> QED BY Zenon, <3>1, <3>2
    <2> QED BY Zenon, <2>1, <2>2, <2>3
  <1> QED BY Zenon, <1>1, <1>2

\* Translating a key again, as its release does, leaves the pending dead key.
LEMMA TranslateSettles ==
  ASSUME NEW l, NEW a, NEW k, NEW m
  PROVE  KeepsDead(l, Translate(l, a, k, m).dead, k, m)
  <1>1. CASE \A b : Translate(l, b, k, m).dead = b BY Zenon, <1>1 DEF KeepsDead
  <1>2. CASE \E d : \A b : Translate(l, b, k, m).dead = d BY Zenon, <1>2 DEF KeepsDead
  <1>3. (\A b : Translate(l, b, k, m).dead = b) \/ \E d : \A b : Translate(l, b, k, m).dead = d
    BY TranslateDead
  <1> QED BY Zenon, <1>1, <1>2, <1>3

-----------------------------------------------------------------------------
(* The keys and modifiers that are down.                                   *)

Locks == {CAPS, NUM, SCROLL}
Events(D) == {KeyOf(key) : key \in D} \ {KEY_NONE}
FlagsOf(D) == {Flag(key) : key \in D \cap HoldKeys}

\* The keys reported once a byte for k has been handled.
After(rep, k, pressed) ==
  IF k = KEY_NONE THEN rep ELSE IF pressed THEN rep \cup {k} ELSE rep \ {k}

\* The decoder's view of the keys agrees with the keys held down.
Agrees(mods, rep, D) == rep = Events(D) /\ mods \ Locks \subseteq FlagsOf(D)

LEMMA EventsPress ==
  ASSUME NEW D, NEW key PROVE After(Events(D), KeyOf(key), TRUE) = Events(D \cup {key})
  <1> DEFINE K == KeyOf(key)
  <1>1. {KeyOf(x) : x \in D \cup {key}} = {KeyOf(x) : x \in D} \cup {K} BY Zenon
  <1> HIDE DEF K
  <1>2. CASE K = KEY_NONE BY Zenon, <1>1, <1>2 DEF After, Events, K
  <1>3. CASE K # KEY_NONE
    <2>1. ({KeyOf(x) : x \in D} \cup {K}) \ {KEY_NONE} = ({KeyOf(x) : x \in D} \ {KEY_NONE}) \cup {K}
      BY Zenon, <1>3
    <2> QED BY Zenon, <1>1, <1>3, <2>1 DEF After, Events, K
  <1> QED BY Zenon, <1>2, <1>3

LEMMA EventsRelease ==
  ASSUME NEW D \in SUBSET Keys, NEW key \in Keys
  PROVE  After(Events(D), KeyOf(key), FALSE) = Events(D \ {key})
  <1> DEFINE K == KeyOf(key)
  <1>1. CASE K = KEY_NONE
    <2>1. Events(D) = Events(D \ {key}) BY Zenon, <1>1 DEF Events
    <2> QED BY Zenon, <1>1, <2>1 DEF After
  <1>2. CASE K # KEY_NONE
    <2>1. \A x \in D : KeyOf(x) = K => x = key BY Zenon, <1>2, KeycodesDistinct
    <2>2. Events(D) \ {K} = Events(D \ {key}) BY Zenon, <2>1 DEF Events
    <2> QED BY Zenon, <1>2, <2>2 DEF After
  <1> QED BY Zenon, <1>1, <1>2

\* What an event does to the modifiers that are no locks.
LEMMA HoldFlags ==
  /\ \A k \in DOMAIN HoldFlag : HoldFlag[k] \notin Locks
  /\ \A k \in DOMAIN LockFlag : LockFlag[k] \in Locks
  /\ KEY_NONE \notin DOMAIN HoldFlag /\ KEY_NONE \notin DOMAIN LockFlag
  BY DEF HoldFlag, LockFlag, KEY_NONE, Locks, SHIFT, CTRL, ALT, ALTGR, CAPS, NUM, SCROLL

LEMMA ModifierNone ==
  ASSUME NEW mods, NEW pressed PROVE UpdateModifier(mods, KEY_NONE, pressed) = mods
  BY Zenon, HoldFlags DEF UpdateModifier

LEMMA ModifierOther ==
  ASSUME NEW mods, NEW k, NEW pressed, k \notin DOMAIN HoldFlag
  PROVE  UpdateModifier(mods, k, pressed) \ Locks = mods \ Locks
  <1>1. CASE k \in DOMAIN LockFlag /\ pressed
    <2>1. UpdateModifier(mods, k, pressed) = Toggle(mods, LockFlag[k]) BY Zenon, <1>1 DEF UpdateModifier
    <2>2. Toggle(mods, LockFlag[k]) \ Locks = mods \ Locks BY Zenon, <1>1, HoldFlags DEF Toggle
    <2> QED BY Zenon, <2>1, <2>2
  <1>2. CASE ~(k \in DOMAIN LockFlag /\ pressed) BY Zenon, <1>2 DEF UpdateModifier
  <1> QED BY Zenon, <1>1, <1>2

\* A press reports no modifier of which no key is down, nor does a release.
LEMMA ModifierPress ==
  ASSUME NEW D, NEW key \in D, key \in Keys, NEW mods, mods \ Locks \subseteq FlagsOf(D)
  PROVE  UpdateModifier(mods, KeyOf(key), TRUE) \ Locks \subseteq FlagsOf(D)
  <1>1. CASE KeyOf(key) \in DOMAIN HoldFlag
    <2>1. UpdateModifier(mods, KeyOf(key), TRUE) = mods \cup {Flag(key)} BY Zenon, <1>1 DEF UpdateModifier, Flag
    <2>2. Flag(key) \in FlagsOf(D) BY Zenon, <1>1 DEF FlagsOf, HoldKeys
    <2> QED BY Zenon, <2>1, <2>2
  <1>2. CASE KeyOf(key) \notin DOMAIN HoldFlag BY Zenon, <1>2, ModifierOther
  <1> QED BY Zenon, <1>1, <1>2

LEMMA ModifierRelease ==
  ASSUME NEW D, NEW key \in Keys, NEW mods, mods \ Locks \subseteq FlagsOf(D)
  PROVE  UpdateModifier(mods, KeyOf(key), FALSE) \ Locks \subseteq FlagsOf(D \ {key})
  <1>1. CASE KeyOf(key) \in DOMAIN HoldFlag
    <2>1. UpdateModifier(mods, KeyOf(key), FALSE) = mods \ {Flag(key)} BY Zenon, <1>1 DEF UpdateModifier, Flag
    <2>2. FlagsOf(D) \ {Flag(key)} \subseteq FlagsOf(D \ {key}) BY Zenon DEF FlagsOf
    <2> QED BY Zenon, <2>1, <2>2
  <1>2. CASE KeyOf(key) \notin DOMAIN HoldFlag
    <2>1. UpdateModifier(mods, KeyOf(key), FALSE) \ Locks = mods \ Locks BY Zenon, <1>2, ModifierOther
    <2>2. FlagsOf(D) \subseteq FlagsOf(D \ {key}) BY Zenon, <1>2 DEF FlagsOf, HoldKeys
    <2> QED BY Zenon, <2>1, <2>2
  <1> QED BY Zenon, <1>1, <1>2

-----------------------------------------------------------------------------
(* The bytes on their way.                                                 *)

ByteOf(key, pressed) == key.code + (IF pressed THEN 0 ELSE 128)

\* All of, or what is left of, the bytes of one press or release.
OnWire(w, prefixed, key, pressed) ==
  \/ w = <<PREFIX, ByteOf(key, pressed)>> /\ key.ext = TRUE /\ prefixed = FALSE
  \/ w = <<ByteOf(key, pressed)>> /\ prefixed = key.ext

LEMMA Bytes ==
  ASSUME NEW key \in Keys, NEW pressed \in BOOLEAN
  PROVE  /\ ByteOf(key, pressed) # PREFIX /\ ByteOf(key, pressed) % 128 = key.code % 128
         /\ ByteOf(key, pressed) < 128 <=> pressed
         /\ key.ext \in BOOLEAN
  <1>1. key.code \in 0 .. 95 /\ key.ext \in BOOLEAN BY KeyboardAssumption
  <1>2. CASE pressed BY <1>1, <1>2 DEF ByteOf, PREFIX
  <1>3. CASE ~pressed BY <1>1, <1>3 DEF ByteOf, PREFIX
  <1> QED BY Zenon, <1>2, <1>3

LEMMA NothingBefore == ASSUME NEW x PROVE <<>> \o <<x>> = <<x>>
  <1>1. <<x>> \in Seq({x}) OBVIOUS
  <1> QED BY Zenon, <1>1, ConcatEmptySeq

LEMMA OneBefore == ASSUME NEW x, NEW y PROVE <<x>> \o <<y>> = <<x, y>>
  <1> DEFINE S == {x, y}
             c == <<x>> \o <<y>>
             d == <<x, y>>
  <1>1. <<x>> \in Seq(S) /\ <<y>> \in Seq(S) /\ d \in Seq(S) OBVIOUS
  <1>2. Len(<<x>>) = 1 /\ Len(<<y>>) = 1 /\ Len(d) = 2 /\ <<x>>[1] = x /\ <<y>>[1] = y /\ d[1] = x /\ d[2] = y
    OBVIOUS
  <1>3. c \in Seq(S) BY Zenon, <1>1, ConcatProperties
  <1>4. Len(c) = 2 /\ c[1] = x /\ c[2] = y BY <1>1, <1>2
  <1> HIDE DEF c, d
  <1>5. \A n \in 1 .. Len(c) : c[n] = d[n]
    <2>1. \A n \in 1 .. 2 : n = 1 \/ n = 2 OBVIOUS
    <2> QED BY Zenon, <1>2, <1>4, <2>1
  <1>6. c = d BY Zenon, <1>1, <1>2, <1>3, <1>4, <1>5, SeqEqual
  <1> QED BY Zenon, <1>6 DEF c, d

LEMMA Sent ==
  ASSUME NEW key \in Keys, NEW pressed \in BOOLEAN, Send(key, ~pressed), pending_extended = FALSE
  PROVE  OnWire(wire', FALSE, key, pressed)
  <1> DEFINE b == ByteOf(key, pressed)
  <1>1. key.code + (IF ~pressed THEN 128 ELSE 0) = b BY Zenon DEF ByteOf
  <1>2. wire' = (IF key.ext THEN <<PREFIX>> ELSE <<>>) \o <<b>> BY Zenon, <1>1 DEF Send
  <1>3. key.ext \in BOOLEAN BY Zenon, Bytes
  <1> HIDE DEF b
  <1>4. CASE key.ext
    <2>1. wire' = <<PREFIX>> \o <<b>> BY Zenon, <1>2, <1>4
    <2>2. wire' = <<PREFIX, b>> BY Zenon, <2>1, OneBefore
    <2>3. key.ext = TRUE BY Zenon, <1>3, <1>4
    <2> QED BY Zenon, <2>2, <2>3 DEF OnWire, b
  <1>5. CASE ~key.ext
    <2>1. wire' = <<>> \o <<b>> BY Zenon, <1>2, <1>5
    <2>2. wire' = <<b>> BY Zenon, <2>1, NothingBefore
    <2>3. FALSE = key.ext BY Zenon, <1>3, <1>5
    <2> QED BY Zenon, <2>2, <2>3 DEF OnWire, b
  <1> QED BY Zenon, <1>4, <1>5

\* An interrupt reads the prefix, or the byte, whose keycode is the key's.
LEMMA ReadByte ==
  ASSUME NEW key \in Keys, NEW pressed \in BOOLEAN, OnWire(wire, pending_extended, key, pressed), Irq1Handler
  PROVE  \/ /\ OnWire(wire', pending_extended', key, pressed)
            /\ UNCHANGED <<current_mods, g_active_dead, typed, reported>>
         \/ /\ wire' = <<>> /\ pending_extended' = FALSE
            /\ \/ KeyOf(key) = KEY_NONE /\ UNCHANGED <<current_mods, g_active_dead, typed, reported>>
               \/ KeyOf(key) # KEY_NONE /\ Report(KeyOf(key), pressed)
  <1> DEFINE b == ByteOf(key, pressed)
  <1>1. HandleScancode(Head(wire)) /\ wire' = Tail(wire) BY Zenon DEF Irq1Handler
  <1>2. CASE wire = <<PREFIX, b>> /\ key.ext = TRUE
    <2> HIDE DEF b
    <2>1. Head(wire) = PREFIX /\ Tail(wire) = <<b>> BY <1>2
    <2>2. pending_extended' = TRUE /\ UNCHANGED <<current_mods, g_active_dead, typed, reported>>
      BY Zenon, <1>1, <2>1 DEF HandleScancode
    <2> QED BY Zenon, <1>1, <1>2, <2>1, <2>2 DEF OnWire, b
  <1>3. CASE wire = <<b>> /\ pending_extended = key.ext
    <2>2. b # PREFIX /\ (b < 128 <=> pressed) /\ b % 128 = key.code % 128 BY ZenonT(60), Bytes
    <2>1. KeycodeFromSet1(b, pending_extended) = KeyOf(key)
      <3> HIDE DEF b
      <3> QED BY Zenon, <1>3, <2>2 DEF KeycodeFromSet1, KeyOf
    <2> HIDE DEF b
    <2>3. Head(wire) = b /\ Tail(wire) = <<>> BY <1>3
    <2>4. /\ pending_extended' = FALSE
          /\ IF KeyOf(key) = KEY_NONE THEN UNCHANGED <<current_mods, g_active_dead, typed, reported>>
             ELSE Report(KeyOf(key), b < 128)
      BY Zenon, <1>1, <2>1, <2>2, <2>3 DEF HandleScancode
    <2>5. (b < 128) = pressed BY <2>2
    <2> QED BY Zenon, <1>1, <2>3, <2>4, <2>5
  <1> QED BY Zenon, <1>2, <1>3 DEF OnWire

-----------------------------------------------------------------------------
(* What a careful typist means.                                            *)

\* A lock key that is held down toggles its lock once.
LocksDoNotRepeat == \A key \in Repeating : KeyOf(key) \notin DOMAIN LockFlag

\* The character a byte for k leaves in typed.
Pushed(l, dead, k, mods, pressed, text) ==
  IF pressed /\ Translate(l, dead, k, mods).codepoint # 0
  THEN Translate(l, dead, k, mods).codepoint % 256 ELSE text

\* A held key that types takes no dead key and leaves none when it comes again.
TakesNothing(l, acc, mods, D) ==
  \A key \in D \ HoldKeys : KeepsDead(l, acc, KeyOf(key), mods)

\* No two held keys share a modifier.
FlagsDiffer(D) == \A k1, k2 \in D \cap HoldKeys : Flag(k1) = Flag(k2) => k1 = k2

\* The modifiers, the dead key and the text are the ones meant.
Meant(mods, dead, text, l, D, lk, acc, want) ==
  /\ mods = FlagsOf(D) \cup lk /\ lk \subseteq Locks
  /\ dead = acc /\ text = want
  /\ TakesNothing(l, acc, mods, D) /\ FlagsDiffer(D)

\* The locks after a press of k, and the modifiers after it.
LocksAfter(lk, k) == IF k \in DOMAIN LockFlag THEN Toggle(lk, LockFlag[k]) ELSE lk
ModifiersAfter(D, lk, key) ==
  UpdateModifier(FlagsOf(D) \cup lk, KeyOf(key), TRUE) = FlagsOf(D \cup {key}) \cup LocksAfter(lk, KeyOf(key))

LEMMA FlagsAreHeld == ASSUME NEW D PROVE FlagsOf(D) \cap Locks = {}
  BY Zenon, HoldFlags DEF FlagsOf, Flag, HoldKeys

\* The modifiers after a press, if they were the held ones and the locks.
LEMMA ModifiersMeant ==
  ASSUME NEW D, NEW key \in Keys, NEW lk, lk \subseteq Locks
  PROVE  ModifiersAfter(D, lk, key)
  <1> DEFINE K == KeyOf(key)
             m == FlagsOf(D) \cup lk
             n == LocksAfter(lk, K)
  <1> SUFFICES UpdateModifier(m, K, TRUE) = FlagsOf(D \cup {key}) \cup n
    BY Zenon DEF ModifiersAfter
  <1>1. CASE K \in DOMAIN HoldFlag
    <2>1. UpdateModifier(m, K, TRUE) = m \cup {Flag(key)} BY Zenon, <1>1 DEF UpdateModifier, Flag
    <2>2. FlagsOf(D \cup {key}) = FlagsOf(D) \cup {Flag(key)} BY Zenon, <1>1 DEF FlagsOf, HoldKeys
    <2>3. K \notin DOMAIN LockFlag
      <3>1. \A k \in DOMAIN LockFlag : k \notin DOMAIN HoldFlag BY DEF LockFlag, HoldFlag
      <3> QED BY Zenon, <1>1, <3>1
    <2>4. m \cup {Flag(key)} = (FlagsOf(D) \cup {Flag(key)}) \cup lk BY Zenon
    <2> QED BY Zenon, <2>1, <2>2, <2>3, <2>4 DEF LocksAfter
  <1>2. CASE K \notin DOMAIN HoldFlag
    <2>1. FlagsOf(D \cup {key}) = FlagsOf(D) BY Zenon, <1>2 DEF FlagsOf, HoldKeys
    <2>2. CASE K \in DOMAIN LockFlag
      <3>1. LockFlag[K] \notin FlagsOf(D) BY Zenon, <2>2, HoldFlags, FlagsAreHeld
      <3>2. UpdateModifier(m, K, TRUE) = Toggle(m, LockFlag[K]) BY Zenon, <1>2, <2>2 DEF UpdateModifier
      <3>3. Toggle(m, LockFlag[K]) = FlagsOf(D) \cup Toggle(lk, LockFlag[K]) BY Zenon, <3>1 DEF Toggle
      <3> QED BY Zenon, <2>1, <2>2, <3>2, <3>3 DEF LocksAfter
    <2>3. CASE K \notin DOMAIN LockFlag BY Zenon, <1>2, <2>1, <2>3 DEF UpdateModifier, LocksAfter
    <2> QED BY Zenon, <2>2, <2>3
  <1> QED BY Zenon, <1>1, <1>2

LEMMA LocksStay ==
  ASSUME NEW lk, lk \subseteq Locks, NEW k
  PROVE  LocksAfter(lk, k) \subseteq Locks
  BY Zenon, HoldFlags DEF Toggle, LocksAfter

\* A press by a careful typist.
LEMMA PressMeant ==
  ASSUME NEW l, NEW D, D \subseteq HoldKeys, NEW key \in Keys, key \in HoldKeys => Flag(key) \notin FlagsOf(D),
         NEW mods, NEW dead, NEW text, NEW lk, NEW acc, NEW want,
         Meant(mods, dead, text, l, D, lk, acc, want),
         NEW t, t = Translate(l, acc, KeyOf(key), FlagsOf(D \cup {key}) \cup LocksAfter(lk, KeyOf(key))),
         NEW m, m = UpdateModifier(mods, KeyOf(key), TRUE)
  PROVE  Meant(m, Translate(l, dead, KeyOf(key), m).dead, Pushed(l, dead, KeyOf(key), m, TRUE, text),
               l, D \cup {key}, LocksAfter(lk, KeyOf(key)), t.dead, IF t.codepoint # 0 THEN t.codepoint % 256 ELSE want)
  <1> DEFINE K == KeyOf(key)
             E == D \cup {key}
             lk2 == LocksAfter(lk, K)
  <1>1. m = FlagsOf(E) \cup lk2
    <2>1. ModifiersAfter(D, lk, key) BY Zenon, ModifiersMeant DEF Meant
    <2> QED BY Zenon, <2>1 DEF ModifiersAfter, Meant
  <1>2. lk2 \subseteq Locks
    <2>1. lk \subseteq Locks BY Zenon DEF Meant
    <2> QED BY <2>1, LocksStay
  <1>3. Translate(l, dead, K, m) = t BY Zenon, <1>1 DEF Meant
  <1>4. Pushed(l, dead, K, m, TRUE, text) = IF t.codepoint # 0 THEN t.codepoint % 256 ELSE want
    BY Zenon, <1>3 DEF Meant, Pushed
  <1>5. TakesNothing(l, t.dead, m, E)
    <2>1. t = Translate(l, acc, K, m) BY Zenon, <1>1
    <2>2. KeepsDead(l, t.dead, K, m)
      <3>1. KeepsDead(l, Translate(l, acc, K, m).dead, K, m) BY Zenon, TranslateSettles
      <3> QED BY Zenon, <2>1, <3>1
    <2> QED BY Zenon, <2>2 DEF TakesNothing
  <1>6. FlagsDiffer(E)
    <2>1. \A k1 \in D \cap HoldKeys : Flag(k1) \in FlagsOf(D) BY Zenon DEF FlagsOf
    <2> QED BY Zenon, <2>1 DEF FlagsDiffer, Meant
  <1> QED BY Zenon, <1>1, <1>2, <1>3, <1>4, <1>5, <1>6 DEF Meant

\* A key that no layout knows takes no dead key.
LEMMA HeldTakesNothing ==
  ASSUME NEW l \in DOMAIN g_layouts, NEW key \in Keys, key \in HoldKeys, NEW acc, NEW mods
  PROVE  KeepsDead(l, acc, KeyOf(key), mods)
  <1>1. KeyOf(key) \in DOMAIN HoldFlag BY Zenon DEF HoldKeys
  <1>2. KeyOf(key) \notin DOMAIN g_layouts[l] BY Zenon, <1>1, SilentKeys
  <1> QED BY <1>2, TranslateIdle DEF KeepsDead

\* The keyboard repeats a key.
LEMMA RepeatMeant ==
  ASSUME NEW l \in DOMAIN g_layouts, NEW D, NEW key \in D, key \in Keys, KeyOf(key) \notin DOMAIN LockFlag,
         NEW mods, NEW dead, NEW text, NEW lk, NEW acc, NEW want,
         Meant(mods, dead, text, l, D, lk, acc, want),
         NEW t, t = Translate(l, acc, KeyOf(key), FlagsOf(D) \cup lk),
         NEW m, m = UpdateModifier(mods, KeyOf(key), TRUE)
  PROVE  Meant(m, Translate(l, dead, KeyOf(key), m).dead, Pushed(l, dead, KeyOf(key), m, TRUE, text),
               l, D, lk, t.dead, IF t.codepoint # 0 THEN t.codepoint % 256 ELSE want)
  <1> DEFINE K == KeyOf(key)
  <1>1. D \cup {key} = D BY Zenon
  <1>2. UpdateModifier(FlagsOf(D) \cup lk, K, TRUE) = FlagsOf(D \cup {key}) \cup lk
    <2>1. ModifiersAfter(D, lk, key) BY Zenon, ModifiersMeant DEF Meant
    <2> QED BY Zenon, <2>1 DEF ModifiersAfter, LocksAfter
  <1>3. m = FlagsOf(D) \cup lk BY Zenon, <1>1, <1>2 DEF Meant
  <1>4. Translate(l, dead, K, m) = t BY Zenon, <1>3 DEF Meant
  <1>5. Pushed(l, dead, K, m, TRUE, text) = IF t.codepoint # 0 THEN t.codepoint % 256 ELSE want
    BY Zenon, <1>4 DEF Meant, Pushed
  <1>6. t.dead = acc
    <2>1. KeepsDead(l, acc, K, FlagsOf(D) \cup lk)
      <3>1. CASE key \in HoldKeys BY Zenon, <3>1, HeldTakesNothing
      <3>2. CASE key \notin HoldKeys BY Zenon, <3>2 DEF Meant, TakesNothing
      <3> QED BY Zenon, <3>1, <3>2
    <2> QED BY Zenon, <2>1 DEF KeepsDead
  <1>7. TakesNothing(l, t.dead, m, D) BY Zenon, <1>3, <1>6 DEF Meant
  <1> QED BY Zenon, <1>3, <1>4, <1>5, <1>7 DEF Meant

\* A release by a careful typist.
LEMMA ReleaseMeant ==
  ASSUME NEW l \in DOMAIN g_layouts, NEW D, NEW key \in D, key \in Keys, key \notin HoldKeys \/ D \subseteq HoldKeys,
         NEW mods, NEW dead, NEW text, NEW lk, NEW acc, NEW want,
         Meant(mods, dead, text, l, D, lk, acc, want),
         NEW m, m = UpdateModifier(mods, KeyOf(key), FALSE)
  PROVE  Meant(m, Translate(l, dead, KeyOf(key), m).dead, Pushed(l, dead, KeyOf(key), m, FALSE, text),
               l, D \ {key}, lk, acc, want)
  <1> DEFINE K == KeyOf(key)
             E == D \ {key}
  <1>1. Pushed(l, dead, K, m, FALSE, text) = want BY Zenon DEF Pushed, Meant
  <1>2. FlagsDiffer(E) BY Zenon DEF FlagsDiffer, Meant
  <1>3. CASE key \in HoldKeys
    <2>1. m = mods \ {Flag(key)} BY Zenon, <1>3 DEF UpdateModifier, Flag, HoldKeys
    <2>2. FlagsOf(E) = FlagsOf(D) \ {Flag(key)} BY Zenon, <1>3 DEF FlagsOf, FlagsDiffer, Meant
    <2>3. Flag(key) \notin lk
      <3>1. Flag(key) \in FlagsOf(D) BY Zenon, <1>3 DEF FlagsOf
      <3> QED BY Zenon, <3>1, FlagsAreHeld DEF Meant
    <2>4. m = FlagsOf(E) \cup lk BY Zenon, <2>1, <2>2, <2>3 DEF Meant
    <2>5. Translate(l, dead, K, m).dead = acc
      <3>1. KeepsDead(l, dead, K, m) BY Zenon, <1>3, HeldTakesNothing
      <3> QED BY Zenon, <3>1 DEF KeepsDead, Meant
    <2>6. TakesNothing(l, acc, m, E) BY Zenon, <1>3 DEF TakesNothing
    <2> QED BY Zenon, <1>1, <1>2, <2>4, <2>5, <2>6 DEF Meant
  <1>4. CASE key \notin HoldKeys
    <2>1. m = mods BY Zenon, <1>4 DEF UpdateModifier, HoldKeys
    <2>2. FlagsOf(E) = FlagsOf(D) BY Zenon, <1>4 DEF FlagsOf
    <2>3. Translate(l, dead, K, m).dead = acc BY Zenon, <1>4, <2>1 DEF Meant, TakesNothing, KeepsDead
    <2>4. TakesNothing(l, acc, m, E) BY Zenon, <2>1 DEF Meant, TakesNothing
    <2> QED BY Zenon, <1>1, <1>2, <2>1, <2>2, <2>3, <2>4 DEF Meant
  <1> QED BY Zenon, <1>3, <1>4

-----------------------------------------------------------------------------
(* The inductive invariant: a byte on its way is the one that will make    *)
(* the decoder agree with the keys, and with what was meant by them.       *)

Careful == hand.careful /\ LocksDoNotRepeat

InView(c, mods, rep, dead, text, l, D, lk, acc, want) ==
  Agrees(mods, rep, D) /\ (c => Meant(mods, dead, text, l, D, lk, acc, want))

InViewAfter(c, key, pressed, mods, rep, dead, text, l, D, lk, acc, want) ==
  LET k == KeyOf(key)
      m == UpdateModifier(mods, k, pressed)
  IN  InView(c, m, After(rep, k, pressed), Translate(l, dead, k, m).dead, Pushed(l, dead, k, m, pressed, text),
             l, D, lk, acc, want)

Quiet ==
  /\ wire = <<>> /\ pending_extended = FALSE
  /\ InView(Careful, current_mods, reported, g_active_dead, typed, g_current, down, locks, accent, wanted)

Coming(key, pressed) ==
  /\ OnWire(wire, pending_extended, key, pressed)
  /\ InViewAfter(Careful, key, pressed, current_mods, reported, g_active_dead, typed, g_current, down, locks,
                 accent, wanted)

KeyboardInv ==
  /\ down \subseteq Keys /\ g_current \in DOMAIN g_layouts
  /\ Quiet \/ \E key \in Keys, pressed \in BOOLEAN : Coming(key, pressed)

LEMMA NeverEmpty == ASSUME NEW x PROVE <<x>> # <<>>
  OBVIOUS

LEMMA NeverEmpty2 == ASSUME NEW x, NEW y PROVE <<x, y>> # <<>>
  OBVIOUS

LEMMA EmptyIsQuiet == ASSUME KeyboardInv, wire = <<>> PROVE Quiet
  <1>1. ASSUME NEW key, NEW pressed, OnWire(<<>>, pending_extended, key, pressed) PROVE FALSE
    BY Zenon, <1>1, NeverEmpty, NeverEmpty2 DEF OnWire
  <1> QED BY Zenon, <1>1 DEF KeyboardInv, Coming

LEMMA KeyboardInitInv == KeyboardInit => KeyboardInv
  <1> SUFFICES ASSUME KeyboardInit PROVE KeyboardInv
    OBVIOUS
  <1>1. "QWERTY" \in DOMAIN g_layouts BY Zenon DEF g_layouts
  <1>2. Agrees({}, {}, {}) BY Zenon DEF Agrees, Events, FlagsOf
  <1>3. Meant({}, 0, 0, g_current, {}, {}, 0, 0)
    <2>1. FlagsOf({}) = {} BY Zenon DEF FlagsOf
    <2> QED BY Zenon, <2>1 DEF Meant, TakesNothing, FlagsDiffer
  <1>4. Quiet BY Zenon, <1>2, <1>3 DEF KeyboardInit, Quiet, InView
  <1> QED BY ZenonT(60), <1>1, <1>4 DEF KeyboardInit, KeyboardInv

\* The byte of a press, or a release, is on its way.
LEMMA PressComes ==
  ASSUME KeyboardInv, NEW key \in Keys, Press(key) PROVE KeyboardInv'
  <1> DEFINE K == KeyOf(key)
             E == down \cup {key}
             m == UpdateModifier(current_mods, K, TRUE)
  <1>1. Quiet BY Zenon, EmptyIsQuiet DEF Press
  <1>2. /\ key \notin down /\ down' = E /\ locks' = LocksAfter(locks, K) /\ g_current' = g_current /\ hand' = hand
        /\ current_mods' = current_mods /\ pending_extended' = pending_extended /\ typed' = typed
        /\ g_active_dead' = g_active_dead /\ reported' = reported
    BY Zenon DEF Press, LocksAfter, decoder
  <1>3. OnWire(wire', FALSE, key, TRUE)
    <2>1. Send(key, ~TRUE)
      <3>1. (~TRUE) = FALSE BY Zenon
      <3> QED BY Zenon, <3>1 DEF Press
    <2> QED BY Zenon, <1>1, <2>1, Sent DEF Quiet
  <1>4. Agrees(m, After(reported, K, TRUE), E)
    <2>1. reported = Events(down) /\ current_mods \ Locks \subseteq FlagsOf(down) BY Zenon, <1>1 DEF Quiet, InView, Agrees
    <2>2. After(reported, K, TRUE) = Events(E) BY Zenon, <2>1, EventsPress
    <2>3. current_mods \ Locks \subseteq FlagsOf(E) BY Zenon, <2>1 DEF FlagsOf
    <2>4. m \ Locks \subseteq FlagsOf(E) BY Zenon, <2>3, ModifierPress
    <2> QED BY Zenon, <2>2, <2>4 DEF Agrees
  <1>5. Careful => Meant(m, Translate(g_current, g_active_dead, K, m).dead,
                         Pushed(g_current, g_active_dead, K, m, TRUE, typed),
                         g_current, E, locks', accent', wanted')
    <2> SUFFICES ASSUME Careful
                 PROVE  Meant(m, Translate(g_current, g_active_dead, K, m).dead,
                              Pushed(g_current, g_active_dead, K, m, TRUE, typed),
                              g_current, E, locks', accent', wanted')
      BY Zenon
    <2>1. Meant(current_mods, g_active_dead, typed, g_current, down, locks, accent, wanted)
      BY Zenon, <1>1 DEF Quiet, InView
    <2>2. down \subseteq HoldKeys /\ (key \in HoldKeys => Flag(key) \notin FlagsOf(down))
      BY Zenon DEF Press, Careful, HeldFlags, FlagsOf
    <2>3. HeldFlags' = FlagsOf(E) BY Zenon, <1>2 DEF HeldFlags, FlagsOf
    <2> DEFINE lk == LocksAfter(locks, K)
               t == Translate(g_current, accent, K, FlagsOf(E) \cup lk)
    <2>4. accent' = t.dead /\ wanted' = IF t.codepoint # 0 THEN t.codepoint % 256 ELSE wanted
      BY Zenon, <1>2, <2>3 DEF Press, Means
    <2>5. Meant(m, Translate(g_current, g_active_dead, K, m).dead,
                Pushed(g_current, g_active_dead, K, m, TRUE, typed),
                g_current, E, lk, t.dead, IF t.codepoint # 0 THEN t.codepoint % 256 ELSE wanted)
      BY Zenon, <2>1, <2>2, PressMeant
    <2> QED BY Zenon, <1>2, <2>4, <2>5
  <1>6. Careful' = Careful BY Zenon, <1>2 DEF Careful
  <1>7. Coming(key, TRUE)' BY Zenon, <1>1, <1>2, <1>3, <1>4, <1>5, <1>6 DEF Coming, InViewAfter, InView, Quiet
  <1>8. E \subseteq Keys /\ TRUE \in BOOLEAN BY Zenon DEF KeyboardInv
  <1> QED BY Zenon, <1>2, <1>7, <1>8 DEF KeyboardInv

LEMMA RepeatComes ==
  ASSUME KeyboardInv, NEW key \in Keys, Repeat(key) PROVE KeyboardInv'
  <1> DEFINE K == KeyOf(key)
             m == UpdateModifier(current_mods, K, TRUE)
  <1>1. Quiet BY Zenon, EmptyIsQuiet DEF Repeat
  <1>2. /\ key \in down /\ down' = down /\ locks' = locks /\ g_current' = g_current /\ hand' = hand
        /\ current_mods' = current_mods /\ pending_extended' = pending_extended /\ typed' = typed
        /\ g_active_dead' = g_active_dead /\ reported' = reported
    BY Zenon DEF Repeat, decoder
  <1>3. OnWire(wire', FALSE, key, TRUE)
    <2>1. Send(key, ~TRUE)
      <3>1. (~TRUE) = FALSE BY Zenon
      <3> QED BY Zenon, <3>1 DEF Repeat
    <2> QED BY Zenon, <1>1, <2>1, Sent DEF Quiet
  <1>4. Agrees(m, After(reported, K, TRUE), down)
    <2>1. reported = Events(down) /\ current_mods \ Locks \subseteq FlagsOf(down) BY Zenon, <1>1 DEF Quiet, InView, Agrees
    <2>2. down \cup {key} = down BY Zenon, <1>2
    <2>3. After(reported, K, TRUE) = Events(down \cup {key}) BY Zenon, <2>1, EventsPress
    <2>4. m \ Locks \subseteq FlagsOf(down) BY Zenon, <1>2, <2>1, ModifierPress
    <2> QED BY Zenon, <2>2, <2>3, <2>4 DEF Agrees
  <1>5. Careful => Meant(m, Translate(g_current, g_active_dead, K, m).dead,
                         Pushed(g_current, g_active_dead, K, m, TRUE, typed),
                         g_current, down, locks, accent', wanted')
    <2> SUFFICES ASSUME Careful
                 PROVE  Meant(m, Translate(g_current, g_active_dead, K, m).dead,
                              Pushed(g_current, g_active_dead, K, m, TRUE, typed),
                              g_current, down, locks, accent', wanted')
      BY Zenon
    <2>1. Meant(current_mods, g_active_dead, typed, g_current, down, locks, accent, wanted)
      BY Zenon, <1>1 DEF Quiet, InView
    <2>2. K \notin DOMAIN LockFlag BY Zenon DEF Repeat, Careful, LocksDoNotRepeat
    <2>3. HeldFlags' = FlagsOf(down) BY Zenon, <1>2 DEF HeldFlags, FlagsOf
    <2> DEFINE t == Translate(g_current, accent, K, FlagsOf(down) \cup locks)
    <2>4. accent' = t.dead /\ wanted' = IF t.codepoint # 0 THEN t.codepoint % 256 ELSE wanted
      BY Zenon, <1>2, <2>3 DEF Repeat, Means
    <2>5. g_current \in DOMAIN g_layouts BY Zenon DEF KeyboardInv
    <2>6. Meant(m, Translate(g_current, g_active_dead, K, m).dead,
                Pushed(g_current, g_active_dead, K, m, TRUE, typed),
                g_current, down, locks, t.dead, IF t.codepoint # 0 THEN t.codepoint % 256 ELSE wanted)
      BY Zenon, <1>2, <2>1, <2>2, <2>5, RepeatMeant
    <2> QED BY Zenon, <2>4, <2>6
  <1>6. Careful' = Careful BY Zenon, <1>2 DEF Careful
  <1>7. Coming(key, TRUE)' BY Zenon, <1>1, <1>2, <1>3, <1>4, <1>5, <1>6 DEF Coming, InViewAfter, InView, Quiet
  <1>8. TRUE \in BOOLEAN BY Zenon
  <1> QED BY Zenon, <1>2, <1>7, <1>8 DEF KeyboardInv

LEMMA ReleaseComes ==
  ASSUME KeyboardInv, NEW key \in Keys, Release(key) PROVE KeyboardInv'
  <1> DEFINE K == KeyOf(key)
             E == down \ {key}
             m == UpdateModifier(current_mods, K, FALSE)
  <1>1. Quiet BY Zenon, EmptyIsQuiet DEF Release
  <1>2. /\ key \in down /\ down' = E /\ locks' = locks /\ g_current' = g_current /\ hand' = hand
        /\ current_mods' = current_mods /\ pending_extended' = pending_extended /\ typed' = typed
        /\ g_active_dead' = g_active_dead /\ reported' = reported /\ accent' = accent /\ wanted' = wanted
    BY Zenon DEF Release, decoder
  <1>3. OnWire(wire', FALSE, key, FALSE)
    <2>1. Send(key, ~FALSE)
      <3>1. (~FALSE) = TRUE BY Zenon
      <3> QED BY Zenon, <3>1 DEF Release
    <2> QED BY Zenon, <1>1, <2>1, Sent DEF Quiet
  <1>4. Agrees(m, After(reported, K, FALSE), E)
    <2>1. reported = Events(down) /\ current_mods \ Locks \subseteq FlagsOf(down) BY Zenon, <1>1 DEF Quiet, InView, Agrees
    <2>2. down \in SUBSET Keys BY Zenon DEF KeyboardInv
    <2>3. After(reported, K, FALSE) = Events(E) BY Zenon, <2>1, <2>2, EventsRelease
    <2>4. m \ Locks \subseteq FlagsOf(E) BY Zenon, <2>1, ModifierRelease
    <2> QED BY Zenon, <2>3, <2>4 DEF Agrees
  <1>5. Careful => Meant(m, Translate(g_current, g_active_dead, K, m).dead,
                         Pushed(g_current, g_active_dead, K, m, FALSE, typed),
                         g_current, E, locks, accent, wanted)
    <2> SUFFICES ASSUME Careful
                 PROVE  Meant(m, Translate(g_current, g_active_dead, K, m).dead,
                              Pushed(g_current, g_active_dead, K, m, FALSE, typed),
                              g_current, E, locks, accent, wanted)
      BY Zenon
    <2>1. Meant(current_mods, g_active_dead, typed, g_current, down, locks, accent, wanted)
      BY Zenon, <1>1 DEF Quiet, InView
    <2>2. key \notin HoldKeys \/ down \subseteq HoldKeys BY Zenon DEF Release, Careful
    <2>3. g_current \in DOMAIN g_layouts BY Zenon DEF KeyboardInv
    <2> QED BY Zenon, <1>2, <2>1, <2>2, <2>3, ReleaseMeant
  <1>6. Careful' = Careful BY Zenon, <1>2 DEF Careful
  <1>7. Coming(key, FALSE)' BY Zenon, <1>1, <1>2, <1>3, <1>4, <1>5, <1>6 DEF Coming, InViewAfter, InView, Quiet
  <1>8. E \subseteq Keys /\ FALSE \in BOOLEAN BY Zenon DEF KeyboardInv
  <1> QED BY Zenon, <1>2, <1>7, <1>8 DEF KeyboardInv

\* The byte arrives.
LEMMA ByteArrives ==
  ASSUME KeyboardInv, Irq1Handler PROVE KeyboardInv'
  <1>1. PICK key \in Keys, pressed \in BOOLEAN : Coming(key, pressed)
    <2>1. wire # <<>> BY Zenon DEF Irq1Handler
    <2> QED BY Zenon, <2>1 DEF KeyboardInv, Quiet
  <1> DEFINE K == KeyOf(key)
             m == UpdateModifier(current_mods, K, pressed)
  <1>2. /\ g_current' = g_current /\ hand' = hand /\ down' = down /\ locks' = locks /\ accent' = accent
        /\ wanted' = wanted
    BY Zenon DEF Irq1Handler, typist
  <1>3. Careful' = Careful BY Zenon, <1>2 DEF Careful
  <1>4. OnWire(wire, pending_extended, key, pressed) BY Zenon, <1>1 DEF Coming
  <1>5. InViewAfter(Careful, key, pressed, current_mods, reported, g_active_dead, typed, g_current, down, locks,
                    accent, wanted)
    BY Zenon, <1>1 DEF Coming
  <1>6. CASE /\ OnWire(wire', pending_extended', key, pressed)
             /\ UNCHANGED <<current_mods, g_active_dead, typed, reported>>
    <2>1. Coming(key, pressed)' BY Zenon, <1>2, <1>3, <1>5, <1>6 DEF Coming
    <2> QED BY Zenon, <1>2, <2>1 DEF KeyboardInv
  <1>7. CASE wire' = <<>> /\ pending_extended' = FALSE /\ K = KEY_NONE
             /\ UNCHANGED <<current_mods, g_active_dead, typed, reported>>
    <2>1. m = current_mods BY Zenon, <1>7, ModifierNone
    <2>2. After(reported, K, pressed) = reported BY Zenon, <1>7 DEF After
    <2>3. K \notin DOMAIN g_layouts[g_current] BY Zenon, <1>7, SilentKeys DEF KeyboardInv
    <2>4. Translate(g_current, g_active_dead, K, m).codepoint = 0
          /\ Translate(g_current, g_active_dead, K, m).dead = g_active_dead
      BY <2>3, TranslateIdle
    <2>5. Pushed(g_current, g_active_dead, K, m, pressed, typed) = typed BY Zenon, <2>4 DEF Pushed
    <2>6. InView(Careful, current_mods, reported, g_active_dead, typed, g_current, down, locks, accent, wanted)
      BY Zenon, <1>5, <2>1, <2>2, <2>4, <2>5 DEF InViewAfter
    <2>7. Quiet' BY Zenon, <1>2, <1>3, <1>7, <2>6 DEF Quiet
    <2> QED BY Zenon, <1>2, <2>7 DEF KeyboardInv
  <1>8. CASE wire' = <<>> /\ pending_extended' = FALSE /\ K # KEY_NONE /\ Report(K, pressed)
    <2>1. current_mods' = m /\ g_active_dead' = Translate(g_current, g_active_dead, K, m).dead
      BY Zenon, <1>8 DEF Report
    <2>2. reported' = After(reported, K, pressed) BY Zenon, <1>8 DEF Report, After
    <2>3. typed' = Pushed(g_current, g_active_dead, K, m, pressed, typed) BY Zenon, <1>8 DEF Report, Pushed
    <2>4. Quiet' BY Zenon, <1>2, <1>3, <1>5, <1>8, <2>1, <2>2, <2>3 DEF Quiet, InViewAfter
    <2> QED BY Zenon, <1>2, <2>4 DEF KeyboardInv
  <1> QED BY Zenon, <1>4, <1>6, <1>7, <1>8, ReadByte

\* keymap_set_current.
LEMMA LayoutChanges ==
  ASSUME KeyboardInv, NEW id \in LayoutIds, SetCurrent(id) PROVE KeyboardInv'
  <1>1. /\ hand' = hand /\ down' = down /\ locks' = locks /\ accent' = accent /\ wanted' = wanted
        /\ current_mods' = current_mods /\ pending_extended' = pending_extended /\ typed' = typed
        /\ g_active_dead' = g_active_dead /\ reported' = reported /\ wire' = wire /\ g_current' = id
    BY Zenon DEF SetCurrent, decoder, typist
  <1>2. Careful' = Careful BY Zenon, <1>1 DEF Careful
  <1>3. id \in DOMAIN g_layouts BY Zenon, KeyboardAssumption
  <1>4. CASE Careful
    <2>1. down = {} /\ wire = <<>> BY Zenon, <1>4 DEF SetCurrent, Careful
    <2>2. Quiet BY Zenon, <2>1, EmptyIsQuiet
    <2>3. TakesNothing(id, accent, current_mods, down) BY Zenon, <2>1 DEF TakesNothing
    <2>4. Meant(current_mods, g_active_dead, typed, id, down, locks, accent, wanted)
      BY Zenon, <1>4, <2>2, <2>3 DEF Quiet, InView, Meant
    <2>5. Quiet' BY Zenon, <1>1, <1>2, <2>2, <2>4 DEF Quiet, InView
    <2> QED BY Zenon, <1>1, <1>3, <2>5 DEF KeyboardInv
  <1>5. CASE ~Careful
    <2>1. CASE Quiet
      <3>1. Quiet' BY Zenon, <1>1, <1>2, <1>5, <2>1 DEF Quiet, InView
      <3> QED BY Zenon, <1>1, <1>3, <3>1 DEF KeyboardInv
    <2>2. ASSUME NEW key \in Keys, NEW pressed \in BOOLEAN, Coming(key, pressed) PROVE KeyboardInv'
      <3>1. Coming(key, pressed)' BY Zenon, <1>1, <1>2, <1>5, <2>2 DEF Coming, InViewAfter, InView
      <3> QED BY Zenon, <1>1, <1>3, <3>1 DEF KeyboardInv
    <2> QED BY Zenon, <2>1, <2>2 DEF KeyboardInv
  <1> QED BY Zenon, <1>4, <1>5

LEMMA KeyboardStepInv == KeyboardInv /\ [KeyboardNext]_keyboard_vars => KeyboardInv'
  <1> SUFFICES ASSUME KeyboardInv, [KeyboardNext]_keyboard_vars PROVE KeyboardInv'
    OBVIOUS
  <1>1. CASE UNCHANGED keyboard_vars
    <2>1. /\ hand' = hand /\ down' = down /\ locks' = locks /\ accent' = accent /\ wanted' = wanted
          /\ current_mods' = current_mods /\ pending_extended' = pending_extended /\ typed' = typed
          /\ g_active_dead' = g_active_dead /\ reported' = reported /\ wire' = wire /\ g_current' = g_current
      BY Zenon, <1>1 DEF keyboard_vars, decoder, typist
    <2>2. Careful' = Careful BY Zenon, <2>1 DEF Careful
    <2>3. CASE Quiet
      <3>1. Quiet' BY Zenon, <2>1, <2>2, <2>3 DEF Quiet
      <3> QED BY Zenon, <2>1, <3>1 DEF KeyboardInv
    <2>4. ASSUME NEW key \in Keys, NEW pressed \in BOOLEAN, Coming(key, pressed) PROVE KeyboardInv'
      <3>1. Coming(key, pressed)' BY Zenon, <2>1, <2>2, <2>4 DEF Coming
      <3> QED BY Zenon, <2>1, <3>1 DEF KeyboardInv
    <2> QED BY Zenon, <2>3, <2>4 DEF KeyboardInv
  <1>2. CASE KeyboardNext
    BY Zenon, <1>2, PressComes, RepeatComes, ReleaseComes, ByteArrives, LayoutChanges DEF KeyboardNext
  <1> QED BY Zenon, <1>1, <1>2

\* Whatever keys a keyboard has and however they overlap, once the bytes are
\* read the decoder reports exactly the keys that are down and no modifier that
\* no key holds (keyboard.c's keyboard_handle_set1_scancode, update_modifier).
THEOREM DecoderFollows == KeyboardSpec => []FollowsKeys
  <1>1. KeyboardInv => FollowsKeys
    <2> SUFFICES ASSUME KeyboardInv, wire = <<>>
                 PROVE  /\ reported = {KeyOf(key) : key \in down} \ {KEY_NONE}
                        /\ current_mods \ {CAPS, NUM, SCROLL} \subseteq HeldFlags
      BY Zenon DEF FollowsKeys, EventsMatchKeys, NoStuckModifier
    <2> QED BY Zenon, EmptyIsQuiet DEF Quiet, InView, Agrees, Events, FlagsOf, HeldFlags, Locks
  <1> QED BY <1>1, KeyboardInitInv, KeyboardStepInv, PTL DEF KeyboardSpec

\* On every layout, and with every set of keys of which no lock key repeats, a
\* careful typist's presses become the text they stand for
\* (keymap.c's keymap_translate_keycode on the press and on the release).
THEOREM TextFollows == LocksDoNotRepeat /\ KeyboardSpec => []TextFollowsPresses
  <1> SUFFICES ASSUME LocksDoNotRepeat PROVE KeyboardSpec => []TextFollowsPresses
    OBVIOUS
  <1>1. KeyboardInv => TextFollowsPresses
    <2> SUFFICES ASSUME KeyboardInv, wire = <<>>, hand.careful
                 PROVE  typed = wanted /\ g_active_dead = accent
      BY Zenon DEF TextFollowsPresses
    <2> QED BY Zenon, EmptyIsQuiet DEF Quiet, InView, Careful, Meant
  <1> QED BY <1>1, KeyboardInitInv, KeyboardStepInv, PTL DEF KeyboardSpec
=============================================================================
