--------------------------- MODULE ClientsProofs ---------------------------
(***************************************************************************)
(* The heap's users together.  Each piece of memory that the tree or a     *)
(* task points to is held, by nobody else; so what one of them frees, or   *)
(* gets, is never another's, and every step of theirs is one the heap      *)
(* allows.                                                                 *)
(***************************************************************************)
EXTENDS Clients, HeapProofs

-----------------------------------------------------------------------------
(* kmalloc as its callers see it.                                          *)

\* The first fit exists when there is a fit at all.
LEMMA FirstFitExists == ASSUME NEW bs, IsList(bs), NEW n, Fits(bs, n) # {} PROVE FirstFit(bs, n) # {}
  <1>1. Fits(bs, n) \subseteq Nat BY Zenon DEF Fits, FreeBlocks, IsList
  <1>2. PICK b \in Fits(bs, n) : \A c \in Fits(bs, n) : b <= c BY Zenon, <1>1, Least
  <1> QED BY Zenon, <1>2 DEF FirstFit

\* An allocation that succeeds takes the first fit, at an address nobody holds.
LEMMA AllocLemma ==
  ASSUME Inv, NEW size \in Sizes, size # 0, Alloc(blocks, size).ptr # NULL
  PROVE  \E b \in FirstFit(blocks, AlignSize(size)) :
            /\ b \in Nat
            /\ Alloc(blocks, size).ptr = b + HDR
            /\ Alloc(blocks, size).list = Carve(blocks, b, AlignSize(size))
            /\ b + HDR \in Nat
            /\ b + HDR \notin DOMAIN held
            /\ Fits(blocks, AlignSize(size)) # {}
  <1> DEFINE n == AlignSize(size)
             b == CHOOSE b \in FirstFit(blocks, n) : TRUE
  <1>1. IsList(blocks) BY Zenon DEF Inv, TypeOK
  <1>2. Fits(blocks, n) # {} BY Zenon DEF Alloc
  <1>3. b \in FirstFit(blocks, n) BY Zenon, <1>1, <1>2, FirstFitExists
  <1>4. Alloc(blocks, size) = [list |-> Carve(blocks, b, n), ptr |-> b + HDR] BY Zenon, <1>2 DEF Alloc
  <1> HIDE DEF b, n
  <1>p. Alloc(blocks, size).ptr = b + HDR /\ Alloc(blocks, size).list = Carve(blocks, b, n) BY <1>4
  <1>5. b \in DOMAIN blocks /\ ~blocks[b].used BY Zenon, <1>3 DEF FirstFit, Fits, FreeBlocks
  <1>6. b \in Nat BY Zenon, <1>1, <1>5 DEF IsList
  <1>7. b + HDR \in Nat BY <1>6, HeapAssumption
  <1>8. b + HDR \notin DOMAIN held
    <2> SUFFICES ASSUME b + HDR \in DOMAIN held PROVE FALSE OBVIOUS
    <2>1. PICK c \in UsedBlocks(blocks) : b + HDR = c + HDR BY DEF Inv, HeldIsUsed
    <2>2. c \in Nat BY Zenon, <1>1 DEF IsList, UsedBlocks
    <2>3. c = b BY <1>6, <2>1, <2>2, HeapAssumption
    <2> QED BY Zenon, <1>5, <2>3 DEF UsedBlocks
  <1> QED BY Zenon, <1>2, <1>3, <1>6, <1>7, <1>8, <1>p DEF n

\* One that fails leaves the list as it is.
LEMMA AllocFails ==
  ASSUME Inv, NEW size \in Sizes, Alloc(blocks, size).ptr = NULL
  PROVE  Fits(blocks, AlignSize(size)) = {}
  <1> SUFFICES ASSUME Fits(blocks, AlignSize(size)) # {} PROVE FALSE OBVIOUS
  <1> DEFINE n == AlignSize(size)
             b == CHOOSE b \in FirstFit(blocks, n) : TRUE
  <1>1. IsList(blocks) BY Zenon DEF Inv, TypeOK
  <1>3. b \in FirstFit(blocks, n) BY Zenon, <1>1, FirstFitExists
  <1>4. Alloc(blocks, size) = [list |-> Carve(blocks, b, n), ptr |-> b + HDR] BY Zenon DEF Alloc
  <1> HIDE DEF b, n
  <1>5. b \in Nat BY Zenon, <1>1, <1>3 DEF IsList, FirstFit, Fits, FreeBlocks
  <1>6. b + HDR # NULL BY <1>5, HeapAssumption DEF NULL
  <1>7. Alloc(blocks, size).ptr = b + HDR BY <1>4
  <1> QED BY Zenon, <1>6, <1>7

\* The clients' allocations are calls of kmalloc.
LEMMA AllocIsKmalloc ==
  ASSUME Inv, NEW size \in Sizes, size # 0, Alloc(blocks, size).ptr # NULL,
         blocks' = Alloc(blocks, size).list, held' = With(held, Alloc(blocks, size).ptr, size),
         UNCHANGED capacity
  PROVE  Kmalloc(size)
  BY Zenon, AllocLemma DEF Kmalloc

-----------------------------------------------------------------------------
(* Who owns what.  Every allocation belongs to one owner at most: a node,  *)
(* a task_t, or the stack of one task.                                     *)

Unowned(q, N, tk) == q \notin N /\ q \notin DOMAIN tk /\ \A t \in DOMAIN tk : tk[t].stack_base # q

Stacked(h, N, tk, t) ==
    /\ tk[t].stack_base \in DOMAIN h
    /\ h[tk[t].stack_base] = STACK
    /\ tk[t].stack_base \notin N
    /\ tk[t].stack_base \notin DOMAIN tk
    /\ tk[t].esp \in tk[t].stack_base .. tk[t].stack_base + STACK

TaskRecord == [stack_base : Nat \cup {NULL}, esp : Int, ready : BOOLEAN]

Owned(h, N, tk) ==
    /\ \A n \in N : n \in DOMAIN h /\ h[n] = NODE
    /\ \A t \in DOMAIN tk : t \in DOMAIN h /\ t \notin N /\ tk[t] \in TaskRecord
    /\ \A t \in DOMAIN tk : tk[t].stack_base # NULL => Stacked(h, N, tk, t)
    /\ \A t \in DOMAIN tk : tk[t].ready => tk[t].stack_base # NULL
    /\ \A t, u \in DOMAIN tk : t # u /\ tk[t].stack_base = tk[u].stack_base => tk[t].stack_base = NULL

LEMMA WithIs ==
  ASSUME NEW f, NEW p, NEW v
  PROVE  /\ DOMAIN With(f, p, v) = DOMAIN f \cup {p}
         /\ With(f, p, v)[p] = v
         /\ \A q \in DOMAIN f : q # p => With(f, p, v)[q] = f[q]
  BY Zenon DEF With

LEMMA WithoutIs ==
  ASSUME NEW f, NEW p
  PROVE  /\ DOMAIN Without(f, p) = DOMAIN f \ {p}
         /\ \A q \in DOMAIN f \ {p} : Without(f, p)[q] = f[q]
  BY Zenon DEF Without

\* What the owners have does not depend on the rest of the heap.
LEMMA OwnedElsewhere ==
  ASSUME NEW h, NEW N, NEW tk, Owned(h, N, tk), NEW g,
         \A q \in DOMAIN h : Unowned(q, N, tk) \/ (q \in DOMAIN g /\ g[q] = h[q])
  PROVE  Owned(g, N, tk)
  <1>1. \A n \in N : n \in DOMAIN g /\ g[n] = NODE BY Zenon DEF Owned, Unowned
  <1>2. \A t \in DOMAIN tk : t \in DOMAIN g /\ t \notin N /\ tk[t] \in TaskRecord BY Zenon DEF Owned, Unowned
  <1>3. \A t \in DOMAIN tk : tk[t].stack_base # NULL => Stacked(g, N, tk, t) BY Zenon DEF Owned, Unowned, Stacked
  <1> QED BY Zenon, <1>1, <1>2, <1>3 DEF Owned

LEMMA OwnedGrows ==
  ASSUME NEW h, NEW N, NEW tk, Owned(h, N, tk), NEW q, q \notin DOMAIN h, NEW s
  PROVE  Owned(With(h, q, s), N, tk)
  <1>1. \A p \in DOMAIN h : p \in DOMAIN With(h, q, s) /\ With(h, q, s)[p] = h[p] BY Zenon DEF With
  <1> QED BY Zenon, <1>1, OwnedElsewhere

LEMMA OwnedShrinks ==
  ASSUME NEW h, NEW N, NEW tk, Owned(h, N, tk), NEW q, Unowned(q, N, tk)
  PROVE  Owned(Without(h, q), N, tk)
  <1>1. \A p \in DOMAIN h : Unowned(p, N, tk) \/ (p \in DOMAIN Without(h, q) /\ Without(h, q)[p] = h[p])
    BY Zenon, WithoutIs
  <1> QED BY Zenon, <1>1, OwnedElsewhere

\* What is not held is not owned.
LEMMA NotHeld ==
  ASSUME NEW h, NEW N, NEW tk, Owned(h, N, tk), NEW q, q \notin DOMAIN h, q # NULL
  PROVE  Unowned(q, N, tk)
  BY Zenon DEF Owned, Unowned, Stacked

LEMMA OwnedNode ==
  ASSUME NEW h, NEW N, NEW tk, Owned(h, N, tk), NEW q \in DOMAIN h, h[q] = NODE, Unowned(q, N, tk)
  PROVE  Owned(h, N \cup {q}, tk)
  <1>1. \A t \in DOMAIN tk : tk[t].stack_base # NULL => Stacked(h, N \cup {q}, tk, t) BY Zenon DEF Owned, Unowned, Stacked
  <1>2. \A t \in DOMAIN tk : t \in DOMAIN h /\ t \notin N \cup {q} /\ tk[t] \in TaskRecord BY Zenon DEF Owned, Unowned
  <1> QED BY Zenon, <1>1, <1>2 DEF Owned

LEMMA NodeGone ==
  ASSUME NEW h, NEW N, NEW tk, Owned(h, N, tk), NEW q \in N, q # NULL
  PROVE  Owned(h, N \ {q}, tk) /\ Unowned(q, N \ {q}, tk)
  <1>1. \A t \in DOMAIN tk : tk[t].stack_base # NULL => Stacked(h, N \ {q}, tk, t) BY Zenon DEF Owned, Stacked
  <1>2. \A t \in DOMAIN tk : tk[t].stack_base # q
    <2> SUFFICES ASSUME NEW t \in DOMAIN tk, tk[t].stack_base = q PROVE FALSE OBVIOUS
    <2>1. tk[t].stack_base = NULL BY Zenon DEF Owned, Stacked
    <2> QED BY Zenon, <2>1
  <1> QED BY Zenon, <1>1, <1>2 DEF Owned, Unowned

LEMMA OwnedTask ==
  ASSUME NEW h, NEW N, NEW tk, Owned(h, N, tk), NEW t \in DOMAIN h, Unowned(t, N, tk), NEW r \in TaskRecord,
         \/ r.stack_base = NULL /\ ~r.ready
         \/ /\ r.stack_base \in DOMAIN h /\ h[r.stack_base] = STACK /\ Unowned(r.stack_base, N, tk)
            /\ r.stack_base # t /\ r.stack_base # NULL
            /\ r.esp \in r.stack_base .. r.stack_base + STACK
  PROVE  Owned(h, N, With(tk, t, r))
  <1> DEFINE tl == With(tk, t, r)
  <1>1. DOMAIN tl = DOMAIN tk \cup {t} /\ tl[t] = r BY Zenon DEF With
  <1>0. t \notin DOMAIN tk BY Zenon DEF Unowned
  <1>2. \A u \in DOMAIN tk : u # t /\ tl[u] = tk[u] BY Zenon, <1>0 DEF With
  <1> HIDE DEF tl
  <1>3. \A u \in DOMAIN tl : u \in DOMAIN h /\ u \notin N /\ tl[u] \in TaskRecord BY Zenon, <1>1, <1>2 DEF Owned, Unowned
  <1>4. \A u \in DOMAIN tl : tl[u].stack_base # NULL => Stacked(h, N, tl, u)
    <2>1. ASSUME NEW u \in DOMAIN tk, tl[u].stack_base # NULL PROVE Stacked(h, N, tl, u)
      <3>1. Stacked(h, N, tk, u) BY Zenon, <1>2, <2>1 DEF Owned
      <3>2. tk[u].stack_base # t BY Zenon DEF Unowned
      <3> QED BY Zenon, <1>1, <1>2, <3>1, <3>2 DEF Stacked
    <2>2. ASSUME tl[t].stack_base # NULL PROVE Stacked(h, N, tl, t) BY Zenon, <1>1, <2>2 DEF Stacked, Unowned
    <2> QED BY Zenon, <1>1, <2>1, <2>2
  <1>5. \A u \in DOMAIN tl : tl[u].ready => tl[u].stack_base # NULL BY Zenon, <1>1, <1>2 DEF Owned
  <1>6. \A u, v \in DOMAIN tl : u # v /\ tl[u].stack_base = tl[v].stack_base => tl[u].stack_base = NULL
    <2>1. \A u \in DOMAIN tk : tl[u].stack_base = tl[t].stack_base => tl[u].stack_base = NULL
      BY Zenon, <1>1, <1>2 DEF Unowned
    <2>2. \A u, v \in DOMAIN tk : u # v /\ tl[u].stack_base = tl[v].stack_base => tl[u].stack_base = NULL
      BY Zenon, <1>2 DEF Owned
    <2> QED BY Zenon, <1>1, <2>1, <2>2
  <1> QED BY Zenon, <1>3, <1>4, <1>5, <1>6 DEF Owned, tl

\* A task that is switched away from keeps its stack.
LEMMA OwnedSuspended ==
  ASSUME NEW h, NEW N, NEW tk, tk = [t \in DOMAIN tk |-> tk[t]], Owned(h, N, tk), NEW t \in DOMAIN tk, NEW e \in Int,
         tk[t].stack_base # NULL, e \in tk[t].stack_base .. tk[t].stack_base + STACK
  PROVE  Owned(h, N, [tk EXCEPT ![t].esp = e])
  <1> DEFINE tl == [tk EXCEPT ![t].esp = e]
  <1>1. DOMAIN tl = DOMAIN tk /\ \A u \in DOMAIN tk : u # t => tl[u] = tk[u] BY Zenon
  <1>2. tl[t] = [tk[t] EXCEPT !.esp = e] BY Zenon
  <1>3. tk[t] \in TaskRecord BY Zenon DEF Owned
  <1>4. tl[t] \in TaskRecord /\ tl[t].stack_base = tk[t].stack_base /\ tl[t].ready = tk[t].ready /\ tl[t].esp = e
    <2> HIDE DEF tl
    <2> QED BY <1>2, <1>3 DEF TaskRecord
  <1> HIDE DEF tl
  <1>5. \A u \in DOMAIN tk : tl[u].stack_base = tk[u].stack_base /\ tl[u].ready = tk[u].ready BY Zenon, <1>1, <1>4
  <1>6. \A u \in DOMAIN tl : tl[u].stack_base # NULL => Stacked(h, N, tl, u)
    <2>1. ASSUME NEW u \in DOMAIN tk, u # t, tl[u].stack_base # NULL PROVE Stacked(h, N, tl, u)
      <3>1. Stacked(h, N, tk, u) BY Zenon, <1>5, <2>1 DEF Owned
      <3> QED BY Zenon, <1>1, <2>1, <3>1 DEF Stacked
    <2>2. Stacked(h, N, tl, t)
      <3>1. Stacked(h, N, tk, t) BY Zenon DEF Owned
      <3> QED BY Zenon, <1>1, <1>4, <3>1 DEF Stacked
    <2> QED BY Zenon, <1>1, <2>1, <2>2
  <1>7. \A u \in DOMAIN tl : u \in DOMAIN h /\ u \notin N /\ tl[u] \in TaskRecord BY Zenon, <1>1, <1>4 DEF Owned
  <1>8. \A u \in DOMAIN tl : tl[u].ready => tl[u].stack_base # NULL BY Zenon, <1>1, <1>5 DEF Owned
  <1>9. \A u, v \in DOMAIN tl : u # v /\ tl[u].stack_base = tl[v].stack_base => tl[u].stack_base = NULL
    BY Zenon, <1>1, <1>5 DEF Owned
  <1>10. Owned(h, N, tl)
    <2>1. \A n \in N : n \in DOMAIN h /\ h[n] = NODE BY Zenon DEF Owned
    <2> QED BY Zenon, <1>6, <1>7, <1>8, <1>9, <2>1 DEF Owned
  <1> QED BY Zenon, <1>10 DEF tl

\* A task runs on a stack of its own.
LEMMA OwnedApart ==
  ASSUME Owned(held, DOMAIN node \ {ROOT}, task)
  PROVE  StacksApart
  <1> SUFFICES ASSUME NEW t \in DOMAIN task, task[t].ready
               PROVE  /\ task[t].stack_base \in DOMAIN held
                      /\ task[t].esp \in task[t].stack_base .. task[t].stack_base + held[task[t].stack_base]
                      /\ \A u \in DOMAIN task \ {t} : task[u].stack_base # task[t].stack_base
    BY Zenon DEF StacksApart
  <1>1. task[t].stack_base # NULL BY Zenon DEF Owned
  <1>2. Stacked(held, DOMAIN node \ {ROOT}, task, t) BY Zenon, <1>1 DEF Owned
  <1> QED BY Zenon, <1>1, <1>2 DEF Owned, Stacked

-----------------------------------------------------------------------------
(* The clients together.                                                   *)

Nodes == DOMAIN node \ {ROOT}

\* Between its two allocations a call knows the list the first of them found.
Begun ==
    LET b == making.tcb - HDR
    IN  /\ making.tcb \in DOMAIN held /\ Unowned(making.tcb, Nodes, task)
        /\ making.off \in 0 .. STACK
        /\ IsList(making.before) /\ Tiled(making.before, capacity) /\ FreePairs(making.before) = {}
        /\ b \in FreeBlocks(making.before) /\ AlignSize(TASK) <= making.before[b].size
        /\ blocks = Carve(making.before, b, AlignSize(TASK))

Calm ==
    /\ Inv
    /\ Tree(node)
    /\ Owned(held, Nodes, task)
    /\ task = [t \in DOMAIN task |-> task[t]]
    /\ entry \in Nat \ {0}

CInv == Calm /\ (making = NotMaking \/ Begun)

\* What a step of the clients is to its heap.
HeapStep == Next \/ UNCHANGED vars

LEMMA HeldAreNumbers == ASSUME Inv, NEW p \in DOMAIN held PROVE p \in Nat /\ p # NULL
  <1>1. p \in Nat BY Zenon DEF Inv, TypeOK
  <1> QED BY <1>1 DEF NULL

LEMMA FreshAddress ==
  ASSUME Inv, NEW b \in FreeBlocks(blocks)
  PROVE  b + HDR \in Nat /\ b + HDR # NULL /\ b + HDR \notin DOMAIN held
  <1>1. b \in Nat /\ b \in DOMAIN blocks /\ ~blocks[b].used BY Zenon DEF FreeBlocks, Inv, TypeOK, IsList
  <1>2. b + HDR \in Nat /\ b + HDR # NULL BY <1>1, HeapAssumption DEF NULL
  <1>3. ASSUME b + HDR \in DOMAIN held PROVE FALSE
    <2>1. DOMAIN held = {c + HDR : c \in UsedBlocks(blocks)} BY Zenon DEF Inv, HeldIsUsed
    <2>2. PICK c \in UsedBlocks(blocks) : b + HDR = c + HDR BY Zenon, <1>3, <2>1
    <2>3. c \in Nat BY Zenon DEF UsedBlocks, Inv, TypeOK, IsList
    <2>4. c = b BY <1>1, <2>2, <2>3, HeapAssumption
    <2> QED BY Zenon, <1>1, <2>4 DEF UsedBlocks
  <1> QED BY Zenon, <1>2, <1>3

\* An allocation of a client: a step of the heap that gives an address nobody had.
Granted(size) ==
    /\ HeapStep /\ Inv'
    /\ Alloc(blocks, size).ptr \in Nat /\ Alloc(blocks, size).ptr # NULL
    /\ Alloc(blocks, size).ptr \notin DOMAIN held
    /\ Unowned(Alloc(blocks, size).ptr, Nodes, task)
    /\ Owned(held', Nodes, task)
    /\ DOMAIN held' = DOMAIN held \cup {Alloc(blocks, size).ptr}
    /\ held'[Alloc(blocks, size).ptr] = size
    /\ \A q \in DOMAIN held : held'[q] = held[q]

LEMMA Grants ==
  ASSUME Calm, NEW size \in Sizes, size # 0, Alloc(blocks, size).ptr # NULL,
         blocks' = Alloc(blocks, size).list, held' = With(held, Alloc(blocks, size).ptr, size),
         UNCHANGED capacity
  PROVE  Granted(size)
  <1> DEFINE a == Alloc(blocks, size).ptr
  <1>1. Inv BY Zenon DEF Calm
  <1>2. Kmalloc(size) BY Zenon, <1>1, AllocIsKmalloc
  <1>3. Next BY Zenon, <1>2 DEF Next
  <1>4. Inv' BY Zenon, <1>1, <1>3, NextInv
  <1>5. a \in Nat /\ a \notin DOMAIN held BY Zenon, <1>1, AllocLemma
  <1>6. held' = With(held, a, size) BY Zenon
  <1> HIDE DEF a
  <1>7. DOMAIN held' = DOMAIN held \cup {a} /\ held'[a] = size BY Zenon, <1>6 DEF With
  <1>8. \A q \in DOMAIN held : held'[q] = held[q] BY Zenon, <1>5, <1>6 DEF With
  <1>9. Owned(held, Nodes, task) BY Zenon DEF Calm
  <1>10. Owned(held', Nodes, task) BY Zenon, <1>5, <1>6, <1>9, OwnedGrows
  <1>11. a # NULL BY Zenon DEF a
  <1>12. Unowned(a, Nodes, task) BY Zenon, <1>5, <1>9, <1>11, NotHeld
  <1> QED BY Zenon, <1>3, <1>4, <1>5, <1>7, <1>8, <1>10, <1>11, <1>12 DEF Granted, HeapStep, a

\* A kfree of what has no other owner.
LEMMA GivesBack ==
  ASSUME Inv, NEW N, NEW tk, Owned(held, N, tk), NEW p \in DOMAIN held, Unowned(p, N, tk), Kfree(p)
  PROVE  HeapStep /\ Inv' /\ Owned(held', N, tk) /\ DOMAIN held' = DOMAIN held \ {p}
  <1>1. Next BY Zenon DEF Next
  <1>2. Inv' BY Zenon, <1>1, NextInv
  <1>3. held' = Without(held, p) BY Zenon DEF Kfree
  <1>4. Owned(held', N, tk) BY Zenon, <1>3, OwnedShrinks
  <1>5. DOMAIN held' = DOMAIN held \ {p} BY Zenon, <1>3 DEF Without
  <1> QED BY Zenon, <1>1, <1>2, <1>4, <1>5 DEF HeapStep

LEMMA TreeInit == ASSUME HfsInit PROVE Tree(node)
  <1>1. DOMAIN node = {ROOT} /\ node[ROOT] = Fresh("root") /\ node = [n \in {ROOT} |-> node[n]] BY Zenon DEF HfsInit
  <1>2. NULL \in Int /\ ROOT # NULL BY DEF NULL, ROOT
  <1>3. Fresh("root") \in NodeRecord
    <2>1. "root" \in Names \cup {"root"} BY Zenon
    <2> QED BY <1>2, <2>1 DEF Fresh, NodeRecord
  <1>4. node[ROOT].parent = NULL /\ node[ROOT].first_child = NULL /\ node[ROOT].next_sibling = NULL BY <1>1 DEF Fresh
  <1>5. Kids(node, ROOT) = {} BY Zenon, <1>1 DEF Kids
  <1>6. Lists(Nx(node), <<>>, NULL, {}) BY Zenon, NoSiblings
  <1>7. \A p \in DOMAIN node : \E q : Lists(Nx(node), q, node[p].first_child, Kids(node, p)) BY Zenon, <1>1, <1>4, <1>5, <1>6
  <1>8. node \in [DOMAIN node -> NodeRecord] BY Zenon, <1>1, <1>3
  <1> QED BY Zenon, <1>1, <1>4, <1>7, <1>8 DEF Tree

LEMMA ClientsInit == CInit => CInv
  <1> SUFFICES ASSUME CInit PROVE CInv OBVIOUS
  <1>1. Inv BY Zenon, InitInv DEF CInit
  <1>2. Tree(node) BY Zenon, TreeInit DEF CInit
  <1>3. DOMAIN task = {} /\ task = [t \in DOMAIN task |-> task[t]] /\ making = NotMaking BY Zenon DEF CInit, TaskInit
  <1>4. Nodes = {} BY Zenon DEF CInit, HfsInit, Nodes
  <1>5. Owned(held, Nodes, task) BY Zenon, <1>3, <1>4 DEF Owned
  <1>6. entry \in Nat \ {0} BY DEF CInit, HfsInit
  <1> QED BY Zenon, <1>1, <1>2, <1>3, <1>5, <1>6 DEF CInv, Calm

\* The calls of the other users of the heap.
LEMMA BufferKeeps ==
  ASSUME Calm, BufferNext, UNCHANGED <<hfs_vars, task_vars>>
  PROVE  Calm' /\ HeapStep
  <1>0. Inv /\ Owned(held, Nodes, task) BY Zenon DEF Calm
  <1>1. Nodes' = Nodes /\ task' = task /\ node' = node /\ entry' = entry BY Zenon DEF hfs_vars, task_vars, Nodes
  <1>2. ASSUME HeapStep, Owned(held', Nodes, task) PROVE Calm'
    <2>1. Inv' BY Zenon, <1>0, <1>2, NextInv DEF HeapStep
    <2> QED BY Zenon, <1>1, <1>2, <2>1 DEF Calm
  <1>3. ASSUME NEW ram \in RamSizes, MemInit(ram) PROVE Calm' /\ HeapStep
    <2>1. HeapStep BY Zenon, <1>3 DEF HeapStep, Next
    <2>2. held' = held BY Zenon, <1>3 DEF MemInit
    <2> QED BY Zenon, <1>0, <1>2, <2>1, <2>2
  <1>4. ASSUME NEW n \in BufferSizes, Kmalloc(n) PROVE Calm' /\ HeapStep
    <2>1. HeapStep BY Zenon, <1>4, ClientsAssumption DEF HeapStep, Next
    <2>2. CASE UNCHANGED vars
      <3>1. held' = held BY Zenon, <2>2 DEF vars
      <3> QED BY Zenon, <1>0, <1>2, <2>1, <3>1
    <2>3. CASE ~UNCHANGED vars
      <3>1. PICK b \in FirstFit(blocks, AlignSize(n)) : held' = With(held, b + HDR, n) BY Zenon, <1>4, <2>3 DEF Kmalloc
      <3>2. b \in FreeBlocks(blocks) BY Zenon DEF FirstFit, Fits
      <3>3. Owned(held', Nodes, task) BY Zenon, <1>0, <3>1, <3>2, FreshAddress, OwnedGrows
      <3> QED BY Zenon, <1>2, <2>1, <3>3
    <2> QED BY Zenon, <2>2, <2>3
  <1>5. ASSUME NEW p \in Buffers, Kfree(p) PROVE Calm' /\ HeapStep
    <2>1. p \in DOMAIN held BY Zenon DEF Buffers
    <2>2. p # NULL BY Zenon, <1>0, <2>1, HeldAreNumbers
    <2>3. Unowned(p, Nodes, task) BY Zenon, <2>2 DEF Buffers, Stacks, Unowned, Nodes
    <2>4. HeapStep /\ Owned(held', Nodes, task) BY Zenon, <1>0, <1>5, <2>1, <2>3, GivesBack
    <2> QED BY Zenon, <1>2, <2>4
  <1> QED BY Zenon, <1>3, <1>4, <1>5 DEF BufferNext

\* A new node, linked or not.
LEMMA NodeMade ==
  ASSUME Calm, Alloc(blocks, NODE).ptr # NULL, Created(Alloc(blocks, NODE)), UNCHANGED task_vars,
         DOMAIN node' = DOMAIN node \cup {Alloc(blocks, NODE).ptr}, Tree(node'), entry' \in Nat \ {0}
  PROVE  Calm' /\ HeapStep
  <1> DEFINE a == Alloc(blocks, NODE).ptr
  <1>0. NODE \in Sizes /\ NODE # 0 BY Zenon, HfsAssumption
  <1>1. Granted(NODE) BY Zenon, <1>0, Grants DEF Created
  <1>2. a \in Nat /\ a \in DOMAIN held' /\ held'[a] = NODE /\ Unowned(a, Nodes, task) /\ Owned(held', Nodes, task)
    BY Zenon, <1>1 DEF Granted
  <1>3. a # ROOT
    <2> HIDE DEF a
    <2> QED BY <1>2 DEF ROOT
  <1>4. DOMAIN node' = DOMAIN node \cup {a} BY Zenon
  <1> HIDE DEF a
  <1>5. Nodes' = Nodes \cup {a} BY Zenon, <1>3, <1>4 DEF Nodes
  <1>6. Owned(held', Nodes \cup {a}, task) BY Zenon, <1>2, OwnedNode
  <1>7. task' = task BY Zenon DEF task_vars
  <1> QED BY Zenon, <1>1, <1>5, <1>6, <1>7 DEF Calm, Granted

\* The entries of the section are a sequence of records with a name.
LEMMA EntryNames == Len(Entries) \in Nat /\ \A i \in 1 .. Len(Entries) : Entries[i].name \in Names
  <1> DEFINE Paths == Names \cup {""}
             E == [parent_path : Paths, name : Names]
  <1>1. Entries \in Seq(E) BY Zenon, HfsAssumption
  <1> HIDE DEF Paths
  <1>2. \A e \in E : e.name \in Names OBVIOUS
  <1> HIDE DEF E
  <1>3. Len(Entries) \in Nat /\ \A i \in 1 .. Len(Entries) : Entries[i] \in E BY <1>1
  <1> QED BY Zenon, <1>2, <1>3

LEMMA RegisterKeeps ==
  ASSUME Calm, RegisterApply, UNCHANGED task_vars
  PROVE  Calm' /\ HeapStep
  <1> DEFINE e == Entries[entry]
             a == Alloc(blocks, NODE)
             found == IF e.parent_path = "" THEN NULL ELSE FindChild(ROOT, e.parent_path)
             parent == IF found = NULL THEN ROOT ELSE found
  <1>1. entry \in Nat \ {0} /\ entry <= Len(Entries) /\ entry' = entry + 1
    <2>1. entry \in Nat \ {0} /\ ~(entry > Len(Entries)) /\ entry' = entry + 1 BY Zenon DEF RegisterApply, Applied, Calm
    <2>2. Len(Entries) \in Nat BY Zenon, EntryNames
    <2> QED BY <2>1, <2>2
  <1>2. entry' \in Nat \ {0} BY <1>1
  <1>3. e.name \in Names
    <2>1. Len(Entries) \in Nat BY Zenon, EntryNames
    <2>2. entry \in 1 .. Len(Entries) BY <1>1, <2>1
    <2> QED BY Zenon, <2>2, EntryNames
  <1>4. CASE a.ptr = NULL
    <2>1. UNCHANGED <<vars, node>> BY Zenon, <1>4 DEF RegisterApply
    <2>2. UNCHANGED vars /\ node' = node /\ task' = task /\ held' = held BY Zenon, <2>1 DEF vars, task_vars
    <2>3. Inv' BY Zenon, <2>2, NextInv DEF Calm
    <2>4. Nodes' = Nodes BY Zenon, <2>2 DEF Nodes
    <2> QED BY Zenon, <1>2, <2>2, <2>3, <2>4 DEF Calm, HeapStep
  <1>5. CASE a.ptr # NULL
    <2>1. Created(a) /\ node' = Linked(With(node, a.ptr, Fresh(e.name)), parent, a.ptr)
      BY Zenon, <1>5 DEF RegisterApply, Created
    <2> DEFINE c == a.ptr
               nd == With(node, c, Fresh(e.name))
    <2>2. Granted(NODE) BY Zenon, <1>5, <2>1, HfsAssumption, Grants DEF Created
    <2>3. c \in Nat /\ c \notin DOMAIN held BY Zenon, <2>2 DEF Granted
    <2>4. Tree(node) /\ Owned(held, Nodes, task) BY Zenon DEF Calm
    <2>5. parent \in DOMAIN node BY Zenon, <2>4, FindsNode DEF Tree
    <2>6. c # ROOT
      <3> HIDE DEF c
      <3> QED BY <2>3 DEF ROOT
    <2>7. c \notin DOMAIN node BY Zenon, <2>3, <2>4, <2>6 DEF Owned, Nodes
    <2> HIDE DEF c, parent
    <2>8. Tree(nd) BY Zenon, <1>3, <2>3, <2>4, <2>7, TreeFresh
    <2>9. DOMAIN nd = DOMAIN node \cup {c} /\ nd[c] = Fresh(e.name) BY Zenon DEF With
    <2>10. nd[c].parent = NULL
      <3> HIDE DEF nd
      <3> QED BY <2>9 DEF Fresh
    <2> HIDE DEF nd
    <2>11. node' = Linked(nd, parent, c) BY Zenon, <2>1 DEF nd, c
    <2>12. Tree(node') BY Zenon, <2>5, <2>6, <2>7, <2>8, <2>9, <2>10, <2>11, TreeLinked
    <2>13. DOMAIN node' = DOMAIN node \cup {c} BY Zenon, <2>9, <2>11 DEF Linked
    <2> QED BY Zenon, <1>2, <1>5, <2>1, <2>12, <2>13, NodeMade DEF c
  <1> QED BY Zenon, <1>4, <1>5

LEMMA CreateKeeps ==
  ASSUME Calm, NEW name \in Names, CreateNode(name), UNCHANGED task_vars
  PROVE  Calm' /\ HeapStep
  <1> DEFINE a == Alloc(blocks, NODE)
             c == a.ptr
  <1>1. a.ptr # NULL /\ Created(a) /\ node' = With(node, c, Fresh(name)) /\ entry' = entry BY Zenon DEF CreateNode
  <1>2. Granted(NODE) BY Zenon, <1>1, HfsAssumption, Grants DEF Created
  <1>3. c \in Nat /\ c \notin DOMAIN held BY Zenon, <1>2 DEF Granted
  <1>4. Tree(node) /\ Owned(held, Nodes, task) /\ entry \in Nat \ {0} BY Zenon DEF Calm
  <1>5. c # ROOT
    <2> HIDE DEF c
    <2> QED BY <1>3 DEF ROOT
  <1>6. c \notin DOMAIN node BY Zenon, <1>3, <1>4, <1>5 DEF Owned, Nodes
  <1>7. Tree(node') BY Zenon, <1>1, <1>3, <1>4, <1>6, TreeFresh
  <1>8. DOMAIN node' = DOMAIN node \cup {c} BY Zenon, <1>1 DEF With
  <1> QED BY Zenon, <1>1, <1>4, <1>7, <1>8, NodeMade

LEMMA AddKeeps ==
  ASSUME Calm, NEW p \in DOMAIN node, NEW c \in DOMAIN node \ {ROOT}, AddChild(p, c), UNCHANGED task_vars
  PROVE  Calm' /\ HeapStep
  <1>1. Attached(p) /\ ~Attached(c) /\ node' = Linked(node, p, c) /\ UNCHANGED vars /\ entry' = entry BY Zenon DEF AddChild
  <1>2. p # c /\ node[c].parent = NULL BY Zenon, <1>1 DEF Attached
  <1>3. Tree(node') BY Zenon, <1>1, <1>2, TreeLinked DEF Calm
  <1>4. DOMAIN node' = DOMAIN node BY Zenon, <1>1 DEF Linked
  <1>5. Nodes' = Nodes BY Zenon, <1>4 DEF Nodes
  <1>6. held' = held /\ task' = task BY Zenon, <1>1 DEF vars, task_vars
  <1>7. Inv' BY Zenon, <1>1, NextInv DEF Calm
  <1> QED BY Zenon, <1>1, <1>3, <1>5, <1>6, <1>7 DEF Calm, HeapStep

LEMMA RemoveKeeps ==
  ASSUME Calm, NEW n \in DOMAIN node \ {ROOT}, Remove(n), UNCHANGED task_vars
  PROVE  Calm' /\ HeapStep
  <1>1. node[n].first_child = NULL /\ entry' = entry /\ task' = task BY Zenon DEF Remove, task_vars
  <1>2. CASE node[n].parent = NULL
    <2>1. UNCHANGED <<vars, node>> BY Zenon, <1>2 DEF Remove
    <2>2. UNCHANGED vars /\ node' = node /\ held' = held BY Zenon, <2>1 DEF vars
    <2>3. Inv' BY Zenon, <2>2, NextInv DEF Calm
    <2>4. Nodes' = Nodes BY Zenon, <2>2 DEF Nodes
    <2> QED BY Zenon, <1>1, <2>2, <2>3, <2>4 DEF Calm, HeapStep
  <1>3. CASE node[n].parent # NULL
    <2>1. node' = Without(Unlinked(n), n) /\ Kfree(n) BY Zenon, <1>3 DEF Remove
    <2>2. Inv /\ Tree(node) /\ Owned(held, Nodes, task) /\ n \in Nodes BY Zenon DEF Calm, Nodes
    <2>3. n \in DOMAIN held BY Zenon, <2>2 DEF Owned
    <2>4. n # NULL BY Zenon, <2>2, <2>3, HeldAreNumbers
    <2>5. Owned(held, Nodes \ {n}, task) /\ Unowned(n, Nodes \ {n}, task) BY Zenon, <2>2, <2>4, NodeGone
    <2>6. HeapStep /\ Inv' /\ Owned(held', Nodes \ {n}, task) BY Zenon, <2>1, <2>2, <2>3, <2>5, GivesBack
    <2>7. Tree(node') BY Zenon, <1>1, <1>3, <2>1, <2>2, TreeRemoved
    <2>8. DOMAIN Unlinked(n) = DOMAIN node BY Zenon DEF Unlinked
    <2>9. DOMAIN node' = DOMAIN node \ {n} BY Zenon, <2>1, <2>8 DEF Without
    <2>10. Nodes' = Nodes \ {n} BY Zenon, <2>9 DEF Nodes
    <2> QED BY Zenon, <1>1, <2>6, <2>7, <2>10 DEF Calm
  <1> QED BY Zenon, <1>2, <1>3

LEMMA HfsKeeps == ASSUME Calm, HfsNext, UNCHANGED task_vars PROVE Calm' /\ HeapStep
  BY Zenon, RegisterKeeps, CreateKeeps, AddKeeps, RemoveKeeps DEF HfsNext

\* Whoever begins a task gets a task_t nobody has, and remembers the list.
LEMMA TakeTaskKeeps ==
  ASSUME Calm, NEW off \in 0 .. STACK, NEW frees, TakeTask(off, frees), UNCHANGED hfs_vars
  PROVE  CInv' /\ HeapStep
  <1> DEFINE a == Alloc(blocks, TASK)
             n == AlignSize(TASK)
  <1>0. TASK \in Sizes /\ TASK # 0 BY Zenon, TaskMemAssumption
  <1>1. task' = task /\ node' = node /\ entry' = entry /\ Nodes' = Nodes /\ making = NotMaking
    BY Zenon DEF TakeTask, hfs_vars, Nodes
  <1>2. CASE a.ptr = NULL
    <2>1. UNCHANGED <<vars, making>> BY Zenon, <1>2 DEF TakeTask
    <2>2. UNCHANGED vars /\ making' = NotMaking /\ held' = held BY Zenon, <1>1, <2>1 DEF vars
    <2>3. Inv' BY Zenon, <2>2, NextInv DEF Calm
    <2> QED BY Zenon, <1>1, <2>2, <2>3 DEF Calm, CInv, HeapStep
  <1>3. CASE a.ptr # NULL
    <2>1. /\ blocks' = a.list /\ held' = With(held, a.ptr, TASK) /\ capacity' = capacity
          /\ making' = [tcb |-> a.ptr, off |-> off, frees |-> frees, before |-> blocks]
      BY Zenon, <1>3 DEF TakeTask
    <2>2. Granted(TASK) BY Zenon, <1>0, <1>3, <2>1, Grants
    <2>3. Inv /\ Tree(node) /\ Owned(held, Nodes, task) BY Zenon DEF Calm
    <2>4. PICK b \in FirstFit(blocks, n) : b \in Nat /\ a.ptr = b + HDR /\ a.list = Carve(blocks, b, n)
      BY Zenon, <1>0, <1>3, <2>3, AllocLemma
    <2>5. b \in FreeBlocks(blocks) /\ n <= blocks[b].size
      <3>1. b \in FreeBlocks(blocks) /\ blocks[b].size >= n BY Zenon DEF FirstFit, Fits
      <3>2. blocks[b].size \in Nat /\ n \in Nat
        <4>1. IsList(blocks) /\ b \in DOMAIN blocks BY Zenon, <2>3, <3>1 DEF Inv, TypeOK, FreeBlocks
        <4>2. IsHeader(blocks[b]) BY Zenon, <4>1, HeaderIs
        <4>3. TASK \in Nat BY <1>0, HeapAssumption
        <4> QED BY Zenon, <4>2, <4>3, AlignNat DEF IsHeader
      <3> HIDE DEF n
      <3> QED BY <3>1, <3>2
    <2>6. capacity # 0 /\ Tiled(blocks, capacity) /\ IsList(blocks) /\ FreePairs(blocks) = {}
      BY Zenon, <2>3, <2>5 DEF Inv, TypeOK, Tiling, Coalesced, FreeBlocks
    <2>7. making'.tcb = b + HDR /\ making'.off = off /\ making'.before = blocks
      <3> DEFINE m == [tcb |-> a.ptr, off |-> off, frees |-> frees, before |-> blocks]
      <3>1. m.tcb = a.ptr /\ m.off = off /\ m.before = blocks OBVIOUS
      <3> QED BY Zenon, <2>1, <2>4, <3>1
    <2>8. making'.tcb - HDR = b BY <2>4, <2>7, HeapAssumption
    <2>9. making'.tcb \in DOMAIN held' /\ Unowned(making'.tcb, Nodes', task')
      BY Zenon, <1>1, <2>2, <2>4, <2>7 DEF Granted
    <2>10. blocks' = Carve(making'.before, making'.tcb - HDR, n) BY Zenon, <2>1, <2>4, <2>7, <2>8
    <2> HIDE DEF n
    <2>11. /\ IsList(making'.before) /\ Tiled(making'.before, capacity') /\ FreePairs(making'.before) = {}
           /\ making'.tcb - HDR \in FreeBlocks(making'.before) /\ n <= making'.before[making'.tcb - HDR].size
           /\ making'.off \in 0 .. STACK
      BY Zenon, <2>1, <2>5, <2>6, <2>7, <2>8
    <2>12. Begun' BY Zenon, <2>9, <2>10, <2>11 DEF Begun, n
    <2>13. Calm' BY Zenon, <1>1, <2>2 DEF Calm, Granted
    <2> QED BY Zenon, <2>2, <2>12, <2>13 DEF CInv, Granted
  <1> QED BY Zenon, <1>2, <1>3

\* The depth that the child of greet_fork inherits.
LEMMA ForkDepth == ASSUME Calm, NEW t \in DOMAIN task, task[t].ready PROVE ForkOffset(t) \in 0 .. STACK
  <1> DEFINE base == task[t].stack_base
             esp == task[t].esp
  <1>1. Owned(held, Nodes, task) BY Zenon DEF Calm
  <1>2. base # NULL /\ Stacked(held, Nodes, task, t) BY Zenon, <1>1 DEF Owned
  <1>3. esp \in base .. base + STACK /\ base \in DOMAIN held BY Zenon, <1>2 DEF Stacked
  <1>4. base \in Nat BY Zenon, <1>3, HeldAreNumbers DEF Calm
  <1>5. STACK \in Nat BY TaskMemAssumption, HeapAssumption
  <1>6. ForkOffset(t) = esp - base BY Zenon DEF ForkOffset
  <1> HIDE DEF esp, base
  <1> QED BY <1>3, <1>4, <1>5, <1>6

LEMMA SuspendKeeps ==
  ASSUME Calm, NEW t \in DOMAIN task, Suspend(t, STACK), UNCHANGED hfs_vars
  PROVE  CInv' /\ HeapStep
  <1> DEFINE base == task[t].stack_base
             e == base + STACK - STACK
  <1>1. /\ task[t].ready /\ making' = NotMaking /\ UNCHANGED vars
        /\ task' = [task EXCEPT ![t].esp = e]
    BY Zenon DEF Suspend
  <1>2. Owned(held, Nodes, task) /\ task = [u \in DOMAIN task |-> task[u]] BY Zenon DEF Calm
  <1>3. base # NULL /\ Stacked(held, Nodes, task, t) BY Zenon, <1>1, <1>2 DEF Owned
  <1>4. base \in Nat BY Zenon, <1>3, HeldAreNumbers DEF Calm, Stacked
  <1>5. STACK \in Nat BY TaskMemAssumption, HeapAssumption
  <1>6. e \in Int /\ e \in base .. base + STACK
    <2> HIDE DEF base
    <2> QED BY <1>4, <1>5
  <1> HIDE DEF e
  <1>7. Owned(held, Nodes, task') BY Zenon, <1>1, <1>2, <1>3, <1>6, OwnedSuspended
  <1>8. task' = [u \in DOMAIN task' |-> task'[u]] BY Zenon, <1>1
  <1>9. Nodes' = Nodes /\ held' = held /\ node' = node /\ entry' = entry BY Zenon, <1>1 DEF hfs_vars, vars, Nodes
  <1>10. Inv' BY Zenon, <1>1, NextInv DEF Calm
  <1> QED BY Zenon, <1>1, <1>7, <1>8, <1>9, <1>10 DEF Calm, CInv, HeapStep

\* The second kmalloc completes the task, or its failure is dealt with; a
\* task_t that is freed again leaves the list that its kmalloc found.
LEMMA TakeStackKeeps ==
  ASSUME CInv, TakeStack, UNCHANGED hfs_vars
  PROVE  CInv' /\ HeapStep /\ Undone
  <1> DEFINE t == making.tcb
             a == Alloc(blocks, STACK)
             n == AlignSize(TASK)
  <1>1. Calm /\ Begun /\ making' = NotMaking BY Zenon DEF CInv, TakeStack
  <1>2. Inv /\ Tree(node) /\ Owned(held, Nodes, task) /\ entry \in Nat \ {0} /\ task = [u \in DOMAIN task |-> task[u]]
    BY Zenon, <1>1 DEF Calm
  <1>3. t \in DOMAIN held /\ Unowned(t, Nodes, task) /\ making.off \in 0 .. STACK BY Zenon, <1>1 DEF Begun
  <1>4. Nodes' = Nodes /\ node' = node /\ entry' = entry BY Zenon DEF hfs_vars, Nodes
  <1>5. t \in Nat /\ t # NULL BY Zenon, <1>2, <1>3, HeldAreNumbers
  <1>6. STACK \in Sizes /\ STACK # 0 BY Zenon, TaskMemAssumption
  <1>7. CASE /\ a.ptr # NULL
             /\ blocks' = a.list
             /\ held' = With(held, a.ptr, STACK)
             /\ task' = With(task, t, [stack_base |-> a.ptr, esp |-> a.ptr + making.off, ready |-> TRUE])
             /\ UNCHANGED capacity
    <2> DEFINE p == a.ptr
               e == p + making.off
               r == [stack_base |-> p, esp |-> e, ready |-> TRUE]
    <2>1. Granted(STACK) BY Zenon, <1>1, <1>6, <1>7, Grants
    <2>2. p \in Nat /\ p # NULL /\ p \notin DOMAIN held /\ p \in DOMAIN held' /\ held'[p] = STACK
      BY Zenon, <2>1 DEF Granted
    <2>3. t \in DOMAIN held' /\ p # t BY Zenon, <1>3, <2>1, <2>2 DEF Granted
    <2>4. STACK \in Nat BY <1>6, HeapAssumption
    <2>5. e \in Int /\ e \in p .. p + STACK
      <3> HIDE DEF p
      <3> QED BY <1>3, <2>2, <2>4
    <2>6. r.stack_base = p /\ r.esp = e /\ r.ready /\ r \in TaskRecord
      <3> HIDE DEF p, e
      <3> QED BY <2>2, <2>5 DEF TaskRecord
    <2>7. task' = With(task, t, r) BY Zenon, <1>7
    <2>8. Unowned(p, Nodes, task) /\ Owned(held', Nodes, task) BY Zenon, <2>1 DEF Granted
    <2> HIDE DEF r, e
    <2>9. Owned(held', Nodes, With(task, t, r)) BY Zenon, <1>3, <2>2, <2>3, <2>5, <2>6, <2>8, OwnedTask
    <2>10. task' = [u \in DOMAIN task' |-> task'[u]] BY Zenon, <2>7 DEF With
    <2>11. Calm' BY Zenon, <1>2, <1>4, <2>1, <2>7, <2>9, <2>10 DEF Calm, Granted
    <2> QED BY Zenon, <1>1, <2>1, <2>3, <2>11 DEF CInv, Undone, Granted
  <1>8. CASE a.ptr = NULL /\ making.frees /\ Kfree(t) /\ UNCHANGED task
    <2> DEFINE bs == making.before
               b == t - HDR
    <2>1. HeapStep /\ Inv' /\ Owned(held', Nodes, task) BY Zenon, <1>2, <1>3, <1>8, GivesBack
    <2>2. blocks' = Release(blocks, b) BY Zenon, <1>8 DEF Kfree
    <2>3. /\ IsList(bs) /\ Tiled(bs, capacity) /\ FreePairs(bs) = {}
          /\ b \in FreeBlocks(bs) /\ n <= bs[b].size /\ blocks = Carve(bs, b, n)
      BY Zenon, <1>1 DEF Begun
    <2>4. TASK \in Nat BY TaskMemAssumption, HeapAssumption
    <2>5. n \in Nat BY Zenon, <2>4, AlignNat
    <2>6. capacity \in Nat BY Zenon, <1>2 DEF Inv, TypeOK
    <2> HIDE DEF bs, b, n
    <2>7. Release(Carve(bs, b, n), b) = bs BY Zenon, <2>3, <2>5, <2>6, ReleaseUndoesCarve
    <2>8. blocks' = bs BY Zenon, <2>2, <2>3, <2>7
    <2>9. Calm' BY Zenon, <1>2, <1>4, <1>8, <2>1 DEF Calm
    <2> QED BY Zenon, <1>1, <2>1, <2>8, <2>9 DEF CInv, Undone, bs
  <1>9. CASE a.ptr = NULL /\ ~making.frees /\ task' = With(task, t, NoStack) /\ UNCHANGED vars
    <2>1. held' = held BY Zenon, <1>9 DEF vars
    <2>2. NoStack.stack_base = NULL /\ ~NoStack.ready /\ NoStack \in TaskRecord
      BY DEF NoStack, TaskRecord, NULL
    <2>3. Owned(held, Nodes, With(task, t, NoStack)) BY Zenon, <1>2, <1>3, <2>2, OwnedTask
    <2>4. task' = [u \in DOMAIN task' |-> task'[u]] BY Zenon, <1>9 DEF With
    <2>5. Inv' BY Zenon, <1>2, <1>9, NextInv
    <2>6. Calm' BY Zenon, <1>2, <1>4, <1>9, <2>1, <2>3, <2>4, <2>5 DEF Calm
    <2> QED BY Zenon, <1>1, <1>3, <1>9, <2>1, <2>6 DEF CInv, Undone, HeapStep
  <1> QED BY Zenon, <1>7, <1>8, <1>9 DEF TakeStack

LEMMA NoTaskMade == ASSUME making = NotMaking \/ making' = making PROVE Undone
  BY Zenon DEF Undone

\* Every step keeps the invariant, is a step of the heap or leaves it alone,
\* and undoes what a failed sys_create_task did.
LEMMA ClientsStep == CInv /\ [CNext]_cvars => CInv' /\ [Next]_vars /\ [Undone]_<<vars, task_vars>>
  <1> SUFFICES ASSUME CInv, [CNext]_cvars PROVE CInv' /\ HeapStep /\ Undone
    BY Zenon DEF HeapStep
  <1>1. CASE making = NotMaking /\ BufferNext /\ UNCHANGED <<hfs_vars, task_vars>>
    <2>1. Calm' /\ HeapStep BY Zenon, <1>1, BufferKeeps DEF CInv
    <2>2. making' = NotMaking BY Zenon, <1>1 DEF task_vars
    <2> QED BY Zenon, <1>1, <2>1, <2>2, NoTaskMade DEF CInv
  <1>2. CASE making = NotMaking /\ HfsNext /\ UNCHANGED task_vars
    <2>1. Calm' /\ HeapStep BY Zenon, <1>2, HfsKeeps DEF CInv
    <2>2. making' = NotMaking BY Zenon, <1>2 DEF task_vars
    <2> QED BY Zenon, <1>2, <2>1, <2>2, NoTaskMade DEF CInv
  <1>3. CASE TaskNext /\ UNCHANGED hfs_vars
    <2>0. Calm BY Zenon DEF CInv
    <2>1. STACK \in Nat /\ FRAME \in 0 .. STACK BY TaskMemAssumption, HeapAssumption
    <2>2. STACK - FRAME \in 0 .. STACK /\ STACK \in 0 .. STACK BY <2>1
    <2>3. CASE TakeStack BY Zenon, <1>3, <2>3, TakeStackKeeps
    <2>4. CASE CreateTask
      <3>1. TakeTask(STACK - FRAME, TRUE) BY Zenon, <2>4 DEF CreateTask
      <3>2. making = NotMaking BY Zenon, <3>1 DEF TakeTask
      <3> QED BY Zenon, <1>3, <2>0, <2>2, <3>1, <3>2, TakeTaskKeeps, NoTaskMade
    <2>5. CASE GreetSpawn
      <3>1. TakeTask(STACK, FALSE) BY Zenon, <2>5 DEF GreetSpawn
      <3>2. making = NotMaking BY Zenon, <3>1 DEF TakeTask
      <3> QED BY Zenon, <1>3, <2>0, <2>2, <3>1, <3>2, TakeTaskKeeps, NoTaskMade
    <2>6. ASSUME NEW t \in DOMAIN task, GreetFork(t) PROVE CInv' /\ HeapStep /\ Undone
      <3>1. task[t].ready /\ TakeTask(ForkOffset(t), FALSE) BY Zenon, <2>6 DEF GreetFork
      <3>2. making = NotMaking BY Zenon, <3>1 DEF TakeTask
      <3>3. ForkOffset(t) \in 0 .. STACK BY Zenon, <2>0, <3>1, ForkDepth
      <3> QED BY Zenon, <1>3, <2>0, <3>1, <3>2, <3>3, TakeTaskKeeps, NoTaskMade
    <2>7. ASSUME NEW t \in DOMAIN task, Suspend(t, STACK) PROVE CInv' /\ HeapStep /\ Undone
      <3>1. making = NotMaking BY Zenon, <2>7 DEF Suspend
      <3> QED BY Zenon, <1>3, <2>0, <2>7, <3>1, SuspendKeeps, NoTaskMade
    <2> QED BY Zenon, <1>3, <2>3, <2>4, <2>5, <2>6, <2>7 DEF TaskNext
  <1>4. CASE UNCHANGED cvars
    <2>1. UNCHANGED vars /\ UNCHANGED hfs_vars /\ UNCHANGED task_vars BY Zenon, <1>4 DEF cvars
    <2>2. /\ held' = held /\ blocks' = blocks /\ capacity' = capacity
          /\ node' = node /\ entry' = entry /\ task' = task /\ making' = making
      BY Zenon, <2>1 DEF vars, hfs_vars, task_vars
    <2>3. CInv' BY Zenon, <2>2 DEF CInv, Calm, Begun, Inv, TypeOK, Tiling, Coalesced, HeldIsUsed, Nodes
    <2> QED BY Zenon, <2>1, <2>2, <2>3, NoTaskMade DEF HeapStep
  <1> QED BY Zenon, <1>1, <1>2, <1>3, <1>4 DEF CNext

-----------------------------------------------------------------------------
(* The theorems.                                                           *)

\* The clients never use the heap in a way heap.c does not allow: hfs.c,
\* init_sched.c and greet.c free only what they hold, and only once.
THEOREM ClientsUseTheHeap == CSpec => Spec
<1>1. CInit => Init BY DEF CInit
<1> QED BY <1>1, ClientsInit, ClientsStep, PTL DEF CSpec, Spec

\* So the list stays sound under them (heap.c:38-98).
THEOREM ClientsKeepTheList == CSpec => []ListSound
BY ClientsUseTheHeap, ListKept, PTL

\* And they get from it what an allocator promises.
THEOREM ClientsGetAnAllocator == CSpec => IsAllocator
BY ClientsUseTheHeap, Refinement, PTL

\* Each node of the tree is met exactly once among its parent's children and no
\* link leads to freed memory, whatever the other users of the heap do
\* (hfs.c:19-95, hfs_register.c:17-34).
THEOREM TreeIsFound == CSpec => []AttachedAreFound
<1>1. CInv => AttachedAreFound BY Zenon, TreeFound DEF CInv, Calm, Nodes, Owned
<1> QED BY <1>1, ClientsInit, ClientsStep, PTL DEF CSpec

\* Tasks that may run have live stacks of their own (init_sched.c:44-77,
\* greet.c).
THEOREM StacksStayApart == CSpec => []StacksApart
<1>1. CInv => StacksApart BY Zenon, OwnedApart DEF CInv, Calm, Nodes
<1> QED BY <1>1, ClientsInit, ClientsStep, PTL DEF CSpec

\* A sys_create_task without memory for its stack leaves the list as it was
\* (init_sched.c:44-55).
THEOREM FailedCreateUndone == CSpec => FailedCreateLeavesNoTrace
BY ClientsInit, ClientsStep, PTL DEF CSpec, FailedCreateLeavesNoTrace
=============================================================================
