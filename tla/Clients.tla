------------------------------ MODULE Clients ------------------------------
(***************************************************************************)
(* The kernel's users of one heap: the object tree, the tasks, and callers *)
(* such as boot_init that hold plain buffers.                              *)
(***************************************************************************)
EXTENDS TaskMem

CONSTANT BufferSizes   \* values the other callers call kmalloc with

ASSUME ClientsAssumption == BufferSizes \subseteq Sizes

cvars == <<vars, hfs_vars, task_vars>>

CInit == Init /\ HfsInit /\ TaskInit

Stacks == {task[t].stack_base : t \in DOMAIN task} \ {NULL}
Buffers == DOMAIN held \ (DOMAIN node \cup DOMAIN task \cup Stacks)

BufferNext ==
    \/ \E ram \in RamSizes : MemInit(ram)
    \/ \E n \in BufferSizes : Kmalloc(n)
    \/ \E p \in Buffers : Kfree(p)

CNext ==
    \/ making = NotMaking /\ BufferNext /\ UNCHANGED <<hfs_vars, task_vars>>
    \/ making = NotMaking /\ HfsNext /\ UNCHANGED task_vars
    \/ TaskNext /\ UNCHANGED hfs_vars

CSpec == CInit /\ [][CNext]_cvars
=============================================================================
