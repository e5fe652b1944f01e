-------------------------------- MODULE Vfs --------------------------------
(***************************************************************************)
(* The file layer: the node table of kernel/vfs.c, the operations on open  *)
(* files of kernel/include/vfs.h, and copy_file of userland/pkg.c, which   *)
(* reads from one and writes to another a buffer at a time.                *)
(*                                                                         *)
(* A node's data is the sequence of its bytes; a directory, made by        *)
(* vfs_mkdir, has no operations and no data.  A path that is longer than   *)
(* VFS_MAX_PATH - 1 is stored as Trunc of it.  The driver below a node     *)
(* (external) may transfer less than it is asked for and may fail.         *)
(***************************************************************************)
EXTENDS Files

CONSTANTS
    Paths,          \* the paths that are used
    Trunc,          \* path -> what the name field holds of it
    Byte,           \* what a file is made of
    Contents,       \* what a file may hold when its driver registers it
    Writes,         \* what callers of vfs_write write
    Handles,        \* vfs_file_t variables
    ReadSizes,      \* sizes callers of vfs_read ask for
    WORD,           \* 2^32
    COPY_BUF,       \* the size of copy_file's buffer
    VFS_MAX_NODES,
    MaxSize         \* bound: no file grows beyond it

ASSUME VfsAssumption ==
    /\ Trunc \in [Paths -> Paths]
    /\ VFS_MAX_NODES \in Nat /\ WORD \in Nat \ {0} /\ COPY_BUF \in Nat \ {0} /\ MaxSize \in Nat
    /\ ReadSizes \subseteq Nat
    /\ Contents \subseteq Seq(Byte) /\ Writes \subseteq Seq(Byte)

VARIABLES
    nodes,  \* vfs_nodes[0 .. vfs_node_count - 1]
    fds,    \* handle -> [node, off]; node 0 is a handle that was never opened
    copy    \* the copy_file that runs or was the last call

vfs_vars == <<nodes, fds, copy>>

NoCopy == [pc |-> "idle"]
Closed == [node |-> 0, off |-> 0]

\* vfs_lookup: the first node of that name, as a set of at most one.
VfsLookup(table, path) ==
    {i \in DOMAIN table : table[i].name = path /\ \A j \in 1 .. i - 1 : table[j].name # path}

VfsInit ==
    /\ nodes = <<>>
    /\ fds = [h \in Handles |-> Closed]
    /\ copy = NoCopy

Resting == copy.pc \in {"idle", "done", "failed"}

\* vfs_register_node, which does not look for a node of the same name.
VfsRegisterNode(node) ==
    nodes' = IF Len(nodes) >= VFS_MAX_NODES THEN nodes ELSE Append(nodes, node)

\* A driver registers a file.
RegisterFile(path, data) ==
    /\ Resting
    /\ VfsRegisterNode([name |-> path, dir |-> FALSE, data |-> data])
    /\ copy' = NoCopy /\ UNCHANGED fds

VfsMkdir(path) ==
    /\ Resting /\ VfsLookup(nodes, path) = {}
    /\ VfsRegisterNode([name |-> Trunc[path], dir |-> TRUE, data |-> <<>>])
    /\ copy' = NoCopy /\ UNCHANGED fds

VfsOpen(h, path) ==
    /\ Resting
    /\ \E i \in VfsLookup(nodes, path) : fds' = [fds EXCEPT ![h] = [node |-> i, off |-> 0]]
    /\ copy' = NoCopy /\ UNCHANGED nodes

-----------------------------------------------------------------------------
(* Transfers.                                                              *)

HasOps(h) == fds[h].node # 0 /\ ~nodes[fds[h].node].dir
Size(h) == Len(nodes[fds[h].node].data)

\* The size vfs_read asks the driver for.  The sum wraps.
Clamped(h, size) ==
    IF (fds[h].off + size) % WORD > Size(h) THEN Size(h) - fds[h].off ELSE size

\* What vfs_read may return: -1 for a handle without operations or a failing
\* driver, 0 at the end, else as much as the driver likes.
VfsReadResults(h, size) ==
    IF ~HasOps(h) THEN {-1}
    ELSE IF fds[h].off >= Size(h) THEN {0}
    ELSE -1 .. Clamped(h, size)

\* fds after a vfs_read that returned n.
Advanced(h, n) == [fds EXCEPT ![h].off = IF n > 0 THEN @ + n ELSE @]

VfsRead(h, size) ==
    /\ Resting
    /\ \E n \in VfsReadResults(h, size) : fds' = Advanced(h, n)
    /\ copy' = NoCopy /\ UNCHANGED nodes

\* Mutant: only the handle moves; the node keeps its size.
Written_KeepSize(h, bytes) ==
    LET off == fds[h].off
    IN  [nodes EXCEPT ![fds[h].node].data =
            [i \in DOMAIN @ |-> IF i - off \in DOMAIN bytes THEN bytes[i - off] ELSE @[i]]]

\* nodes after the driver of h took these bytes at the handle's offset.
Written(h, bytes) ==
    LET off == fds[h].off
    IN  [nodes EXCEPT ![fds[h].node].data =
            [i \in 1 .. Max2(Len(@), off + Len(bytes)) |->
                IF i - off \in DOMAIN bytes THEN bytes[i - off] ELSE @[i]]]

\* What vfs_write of n bytes may return.
VfsWriteResults(h, n) == IF HasOps(h) THEN -1 .. n ELSE {-1}

VfsWrite(h, bytes) ==
    /\ Resting
    /\ \E m \in VfsWriteResults(h, Len(bytes)) :
        /\ fds[h].off + m <= MaxSize
        /\ IF m > 0 THEN nodes' = Written(h, SubSeq(bytes, 1, m)) /\ fds' = Advanced(h, m)
                    ELSE UNCHANGED <<nodes, fds>>
    /\ copy' = NoCopy

-----------------------------------------------------------------------------
(* copy_file, on two files that were just opened.  was remembers what they *)
(* held.                                                                   *)

StartCopy(src, dst) ==
    /\ Resting /\ src # dst
    /\ \A h \in {src, dst} : fds[h].node # 0 /\ fds[h].off = 0
    /\ copy' = [pc |-> "read", src |-> src, dst |-> dst, buf |-> <<>>, total |-> 0, faulty |-> FALSE,
                was |-> [s |-> nodes[fds[src].node].data, d |-> nodes[fds[dst].node].data]]
    /\ UNCHANGED <<nodes, fds>>

\* Mutant: reading nothing is not the end.
MoreToCopy_Zero(n) == n >= 0

\* The condition of the loop.
MoreToCopy(n) == n > 0

CopyRead ==
    /\ copy.pc = "read"
    /\ \E n \in VfsReadResults(copy.src, COPY_BUF) :
        /\ fds' = Advanced(copy.src, n)
        /\ copy' = IF MoreToCopy(n)
                   THEN [copy EXCEPT !.pc = "write",
                            !.buf = SubSeq(nodes[fds[copy.src].node].data,
                                           fds[copy.src].off + 1, fds[copy.src].off + n)]
                   ELSE [copy EXCEPT !.pc = "done", !.faulty = fds[copy.src].off < Size(copy.src)]
    /\ UNCHANGED nodes

\* Mutant: only a negative result is an error.
AllTaken_NotNegative(m, n) == m >= 0

\* vfs_write(dst, buf, n) == n
AllTaken(m, n) == m = n

CopyWrite ==
    /\ copy.pc = "write"
    /\ \E m \in VfsWriteResults(copy.dst, Len(copy.buf)) :
        /\ IF m > 0 THEN nodes' = Written(copy.dst, SubSeq(copy.buf, 1, m)) /\ fds' = Advanced(copy.dst, m)
                    ELSE UNCHANGED <<nodes, fds>>
        /\ copy' = IF AllTaken(m, Len(copy.buf))
                   THEN [copy EXCEPT !.pc = "read", !.total = @ + Len(copy.buf)]
                   ELSE [copy EXCEPT !.pc = "failed"]

CopyFileStep == CopyRead \/ CopyWrite

VfsNext ==
    \/ \E p \in Paths, d \in Contents : RegisterFile(p, d)
    \/ \E p \in Paths : VfsMkdir(p) \/ \E h \in Handles : VfsOpen(h, p)
    \/ \E h \in Handles : (\E n \in ReadSizes : VfsRead(h, n)) \/ \E d \in Writes : VfsWrite(h, d)
    \/ \E src, dst \in Handles : StartCopy(src, dst)
    \/ CopyFileStep

VfsSpec == VfsInit /\ [][VfsNext]_vfs_vars

-----------------------------------------------------------------------------
(* Properties.                                                             *)

Node == [name : Paths, dir : BOOLEAN, data : Seq(Byte)]
CopyState == [pc : {"read", "write", "done", "failed"}, src : Handles, dst : Handles, buf : Seq(Byte),
              total : Nat, faulty : BOOLEAN, was : [s : Seq(Byte), d : Seq(Byte)]]

VfsTypeOK ==
    /\ nodes \in Seq(Node)
    /\ fds \in [Handles -> [node : Nat, off : Nat]]
    /\ \A h \in Handles : fds[h].node <= Len(nodes)
    /\ copy \in CopyState \cup {NoCopy}

\* No offset is so near the end of uint32_t that vfs_read's sum wraps.
SumsFit == \A h \in Handles, n \in ReadSizes \cup {COPY_BUF} : fds[h].off + n < WORD

\* A path that resolves goes on resolving to the same node: registering a
\* second node of a name, which nothing prevents, does not change what the
\* files that are looked up later are.
ResolvesToSame ==
    [][\A p \in Paths : VfsLookup(nodes, p) # {} => VfsLookup(nodes', p) = VfsLookup(nodes, p)]_vfs_vars

\* No handle is beyond the end of its file, whichever handles read and write it
\* and however little a driver transfers, so vfs_write never leaves a hole.  It
\* takes that vfs_read's comparison does not wrap (SumsFit).
NoHoles == \A h \in Handles : HasOps(h) => fds[h].off <= Size(h)

\* copy_file leaves in the destination what Pkg takes it to: the first `total'
\* bytes of the source over what was there, all of them unless a read failed or
\* brought nothing; also after short transfers, and when both are one file.
CopyIsOverlay ==
    /\ copy.pc = "done" =>
          /\ nodes[fds[copy.dst].node].data = Overlay(copy.was.d, copy.was.s, copy.total)
          /\ ~copy.faulty => copy.total = Len(copy.was.s)
    /\ copy.pc = "failed" =>
          \E j \in 0 .. Len(copy.was.s) :
              nodes[fds[copy.dst].node].data = Overlay(copy.was.d, copy.was.s, j)

\* copy_file ends, whatever the drivers return.
CopyEnds == ~Resting ~> Resting
=============================================================================
