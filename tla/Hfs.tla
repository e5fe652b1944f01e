-------------------------------- MODULE Hfs --------------------------------
(***************************************************************************)
(* The tree of kernel objects, drivers/hfs/, whose nodes live on the heap. *)
(*                                                                         *)
(* `node' is the memory of the nodes: address -> fields.  ROOT is the      *)
(* static node its owner passes to hfs_init.  Callers add a node once and  *)
(* remove only nodes without children: hfs_remove frees just the one node, *)
(* and what hangs below it would keep pointers to freed memory.            *)
(***************************************************************************)
EXTENDS Heap, Sequences

CONSTANTS
    NODE,     \* sizeof(hfs_node_t): 20 on i386
    Names,    \* names of nodes
    Entries   \* the hfs_nodes section: a sequence of [parent_path, name]

ASSUME HfsAssumption ==
    /\ NODE \in Sizes \ {0}
    /\ Entries \in Seq([parent_path : Names \cup {""}, name : Names])

VARIABLES
    node,
    entry   \* the entry hfs_register_apply comes to next

hfs_vars == <<node, entry>>

ROOT == -2
Fresh(name) == [name |-> name, parent |-> NULL, first_child |-> NULL, next_sibling |-> NULL]
HfsInit ==
    /\ node = [a \in {ROOT} |-> Fresh("root")]
    /\ entry = 1

\* kmalloc as a function: the list afterwards, and the address or NULL.
Alloc(bs, size) ==
    LET request == AlignSize(size)
    IN  IF Fits(bs, request) = {}
        THEN [list |-> bs, ptr |-> NULL]
        ELSE LET b == CHOOSE b \in FirstFit(bs, request) : TRUE
             IN  [list |-> Carve(bs, b, request), ptr |-> b + HDR]

\* The children of p, in the order hfs_find_child meets them.
Children(p) ==
    LET from[c \in DOMAIN node \cup {NULL}] ==
            IF c = NULL THEN <<>> ELSE <<c>> \o from[node[c].next_sibling]
    IN  from[node[p].first_child]

\* hfs_find_child, which is also all that hfs_find_path does.
FindChild(p, name) ==
    LET kids  == Children(p)
        found == {i \in DOMAIN kids : node[kids[i]].name = name}
    IN  IF found = {} THEN NULL ELSE kids[CHOOSE i \in found : \A j \in found : i <= j]

\* hfs_add_child on the memory nd.
Linked(nd, p, c) ==
    [nd EXCEPT ![c].parent = p,
               ![c].next_sibling = nd[p].first_child,
               ![p].first_child = c]

\* hfs_create_node, given what kmalloc answered.
Created(a) ==
    /\ blocks' = a.list
    /\ held' = With(held, a.ptr, NODE)
    /\ UNCHANGED capacity

Applied == entry > Len(Entries)

\* One turn of the loop of hfs_register_apply.  An unknown parent falls back
\* to the root; an entry there is no memory for is skipped.
RegisterApply ==
    /\ capacity # 0
    /\ ~Applied
    /\ entry' = entry + 1
    /\ LET e == Entries[entry]
           a == Alloc(blocks, NODE)
           found == IF e.parent_path = "" THEN NULL ELSE FindChild(ROOT, e.parent_path)
           parent == IF found = NULL THEN ROOT ELSE found
       IN  IF a.ptr = NULL
           THEN UNCHANGED <<vars, node>>
           ELSE /\ Created(a)
                /\ node' = Linked(With(node, a.ptr, Fresh(e.name)), parent, a.ptr)

CreateNode(name) ==
    /\ Applied
    /\ LET a == Alloc(blocks, NODE)
       IN  /\ a.ptr # NULL
           /\ Created(a)
           /\ node' = With(node, a.ptr, Fresh(name))
    /\ UNCHANGED entry

Attached(n) == n = ROOT \/ node[n].parent # NULL

AddChild(p, c) ==
    /\ Attached(p)
    /\ ~Attached(c)
    /\ node' = Linked(node, p, c)
    /\ UNCHANGED <<vars, entry>>

\* Mutant: a node in the middle of its siblings is freed but not unlinked.
Unlinked_FirstOnly(n) ==
    LET p == node[n].parent
    IN  IF node[p].first_child = n
        THEN [node EXCEPT ![p].first_child = node[n].next_sibling]
        ELSE node

\* hfs_remove up to its kfree: the parent, or the sibling in front, skips n.
Unlinked(n) ==
    LET p == node[n].parent
        before == {c \in DOMAIN node \ {ROOT} : node[c].parent = p /\ node[c].next_sibling = n}
    IN  IF node[p].first_child = n
        THEN [node EXCEPT ![p].first_child = node[n].next_sibling]
        ELSE [c \in DOMAIN node |->
                 IF c \in before THEN [node[c] EXCEPT !.next_sibling = node[n].next_sibling]
                                 ELSE node[c]]

\* hfs_remove returns at once for a node that has no parent.
Remove(n) ==
    /\ Applied
    /\ node[n].first_child = NULL
    /\ IF node[n].parent = NULL
       THEN UNCHANGED <<vars, node>>
       ELSE /\ node' = Without(Unlinked(n), n)
            /\ Kfree(n)
    /\ UNCHANGED entry

HfsNext ==
    \/ RegisterApply
    \/ \E name \in Names : CreateNode(name)
    \/ \E p \in DOMAIN node, c \in DOMAIN node \ {ROOT} : AddChild(p, c)
    \/ \E n \in DOMAIN node \ {ROOT} : Remove(n)

-----------------------------------------------------------------------------
(* Properties.                                                             *)

Members(seq) == {seq[i] : i \in DOMAIN seq}

\* No pointer of the tree leads to freed or foreign memory: every link is null
\* or a live node, and every node but the root is a live allocation of its own
\* size.
NoDanglingLinks ==
    /\ \A n \in DOMAIN node :
          {node[n].parent, node[n].first_child, node[n].next_sibling} \subseteq DOMAIN node \cup {NULL}
    /\ \A n \in DOMAIN node \ {ROOT} : n \in DOMAIN held /\ held[n] = NODE

\* What was added can be found until it is removed: each attached node is met
\* exactly once among the children of its parent, and nothing else is; and no
\* link dangles.
AttachedAreFound ==
    /\ NoDanglingLinks
    /\ \A p \in DOMAIN node :
          LET kids == Children(p)
          IN  /\ Members(kids) = {n \in DOMAIN node \ {ROOT} : node[n].parent = p}
              /\ \A i, j \in DOMAIN kids : kids[i] = kids[j] => i = j
=============================================================================
