------------------------------ MODULE TaskMem ------------------------------
(***************************************************************************)
(* The memory of tasks: sys_create_task (init/init_sched.c) and            *)
(* greet_fork and greet_spawn (core/greet.c) take a task_t and a stack     *)
(* from the heap, and nothing gives them back.                             *)
(*                                                                         *)
(* greet.c gets its task_t's from sched_alloc_task, which is not in the    *)
(* repository; it is taken to allocate them as sys_create_task does.       *)
(* `making' is a call between its two allocations; nothing else runs then. *)
(***************************************************************************)
EXTENDS Hfs

CONSTANTS
    TASK,    \* sizeof(task_t)
    STACK,   \* TASK_STACK_SIZE in init_sched.c, STACK_SIZE in greet.c: 8192
    FRAME    \* bytes of the frame sys_create_task builds: 20

ASSUME TaskMemAssumption == TASK \in Sizes \ {0} /\ STACK \in Sizes \ {0} /\ FRAME \in 0 .. STACK

VARIABLES
    task,    \* address of a task_t -> [stack_base, esp, ready]
    making   \* [tcb, esp offset, whether a failure frees tcb, the list before]

task_vars == <<task, making>>

NoStack == [stack_base |-> NULL, esp |-> NULL, ready |-> FALSE]
NotMaking == [tcb |-> NULL, off |-> 0, frees |-> FALSE, before |-> NoHeap]
TaskInit == task = [t \in {} |-> NoStack] /\ making = NotMaking

\* The first kmalloc of sys_create_task, greet_fork and greet_spawn.
TakeTask(off, frees) ==
    /\ making = NotMaking
    /\ LET a == Alloc(blocks, TASK)
       IN  IF a.ptr = NULL
           THEN UNCHANGED <<vars, making>>
           ELSE /\ blocks' = a.list
                /\ held' = With(held, a.ptr, TASK)
                /\ making' = [tcb |-> a.ptr, off |-> off, frees |-> frees, before |-> blocks]
                /\ UNCHANGED capacity
    /\ UNCHANGED task

\* Mutant: a task_t without a stack is handed to kfree by nobody.
TakeStack_Leak ==
    /\ making # NotMaking
    /\ making' = NotMaking
    /\ LET a == Alloc(blocks, STACK)
       IN  \/ /\ a.ptr # NULL
              /\ blocks' = a.list
              /\ held' = With(held, a.ptr, STACK)
              /\ task' = With(task, making.tcb, [stack_base |-> a.ptr, esp |-> a.ptr + making.off, ready |-> TRUE])
              /\ UNCHANGED capacity
           \/ /\ a.ptr = NULL /\ making.frees
              /\ held' = Without(held, making.tcb)
              /\ UNCHANGED <<capacity, blocks, task>>
           \/ /\ a.ptr = NULL /\ ~making.frees
              /\ task' = With(task, making.tcb, NoStack)
              /\ UNCHANGED vars

\* The second kmalloc.  Without memory for the stack sys_create_task frees the
\* task_t again; greet_fork and greet_spawn leave it as it is.
TakeStack ==
    /\ making # NotMaking
    /\ making' = NotMaking
    /\ LET a == Alloc(blocks, STACK)
       IN  \/ /\ a.ptr # NULL
              /\ blocks' = a.list
              /\ held' = With(held, a.ptr, STACK)
              /\ task' = With(task, making.tcb, [stack_base |-> a.ptr, esp |-> a.ptr + making.off, ready |-> TRUE])
              /\ UNCHANGED capacity
           \/ a.ptr = NULL /\ making.frees /\ Kfree(making.tcb) /\ UNCHANGED task
           \/ /\ a.ptr = NULL /\ ~making.frees
              /\ task' = With(task, making.tcb, NoStack)
              /\ UNCHANGED vars

CreateTask == TakeTask(STACK - FRAME, TRUE)

\* Mutant: the child keeps the parent's stack pointer.
ForkOffset_Absolute(parent) == task[parent].esp

\* Where the child's stack pointer is put in its copy of the parent's stack.
ForkOffset(parent) == task[parent].esp - task[parent].stack_base

GreetFork(parent) == task[parent].ready /\ TakeTask(ForkOffset(parent), FALSE)

\* greet_spawn, once the file was read and elf_load has accepted it.
GreetSpawn == TakeTask(STACK, FALSE)

\* A task that is switched away from leaves its stack pointer anywhere in its
\* stack.
Suspend(t, depth) ==
    /\ task[t].ready
    /\ making = NotMaking
    /\ task' = [task EXCEPT ![t].esp = task[t].stack_base + STACK - depth]
    /\ UNCHANGED <<vars, making>>

TaskNext ==
    \/ CreateTask
    \/ \E t \in DOMAIN task : GreetFork(t) \/ Suspend(t, STACK)
    \/ GreetSpawn
    \/ TakeStack

-----------------------------------------------------------------------------
(* Properties.                                                             *)

\* A task that may be switched to runs on a live stack that no other task
\* has, with its stack pointer inside it: what the child of greet_fork inherits
\* is the parent's depth, not its address.
StacksApart ==
    \A t \in DOMAIN task : task[t].ready =>
        /\ task[t].stack_base \in DOMAIN held
        /\ task[t].esp \in task[t].stack_base .. task[t].stack_base + held[task[t].stack_base]
        /\ \A u \in DOMAIN task \ {t} : task[u].stack_base # task[t].stack_base

Undone ==
    making # NotMaking /\ making' = NotMaking /\ making.tcb \notin DOMAIN held' =>
        blocks' = making.before

\* A sys_create_task that fails halfway leaves the heap exactly as it found it:
\* the kfree of init_sched.c:52 undoes the kmalloc of line 47, split included.
FailedCreateLeavesNoTrace == [][Undone]_<<vars, task_vars>>
=============================================================================
