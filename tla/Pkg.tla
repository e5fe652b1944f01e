-------------------------------- MODULE Pkg --------------------------------
(***************************************************************************)
(* The package manager userland/pkg.c, the table of dynamic commands       *)
(* userland/register.c and the file operations of kernel/include/vfs.h     *)
(* they use.                                                               *)
(*                                                                         *)
(* A file is the sequence of its blocks, the database file the sequence of *)
(* its records.  vfs_write overwrites in place and only ever extends a     *)
(* file; nothing truncates one.  A record's path is always /bin/<name>, so *)
(* it is left out.  The database file exists: nothing in the code creates  *)
(* it, and without it every operation fails.  A driver transfers a block   *)
(* or a record whole or not at all.  faults says which transfers may fail, *)
(* at any block or record: "read" and "write" of the copied file or, for   *)
(* writes, of the database, and "load", a read of the database.  What was  *)
(* written before the failure stays on the disk.                           *)
(***************************************************************************)
EXTENDS Files, FiniteSets

CONSTANTS
    Names,            \* package names, all shorter than PKG_NAME_MAX
    OnVfs,            \* names whose /bin/<name> vfs_open finds
    Programs,         \* the contents of the source files
    PKG_MAX_ENTRIES,
    DYN_CMD_MAX,
    FaultSets         \* the sets of transfers that may fail together

ASSUME PkgAssumption ==
    /\ OnVfs \subseteq Names
    /\ \A p \in Programs : p \in Seq({p[i] : i \in DOMAIN p})
    /\ PKG_MAX_ENTRIES \in Nat
    /\ DYN_CMD_MAX \in Nat
    /\ FaultSets \subseteq SUBSET {"read", "write", "load"}

VARIABLES
    db,    \* the records of PKG_DB_PATH
    bin,   \* name -> the blocks of /bin/<name>
    dyn,   \* names in use in g_dyn_table
    last,  \* the last call: [op, name, fault, ret]
    faults \* the transfers that may fail

vars == <<db, bin, dyn, last, faults>>

-----------------------------------------------------------------------------
(* Files.                                                                  *)

\* Mutant: the last record is written first.
DbSave_Backwards(entries) ==
    {[db |-> Overlay(db, entries, Len(entries)), fault |-> "none"]}
    \cup {[db |-> [i \in 1 .. Max2(Len(db), Len(entries)) |->
                     IF i <= Len(entries) /\ (i > j \/ i > Len(db)) THEN entries[i] ELSE db[i]],
           fault |-> "write"] : j \in IF "write" \in faults THEN 1 .. Len(entries) ELSE {}}

\* db_save: what is in the file afterwards and whether it failed.
DbSave(entries) ==
    {[db |-> Overlay(db, entries, Len(entries)), fault |-> "none"]}
    \cup {[db |-> Overlay(db, entries, j), fault |-> "write"] :
              j \in IF "write" \in faults THEN 0 .. Len(entries) - 1 ELSE {}}

\* Mutant: stops one block early.
CopyFile_OffByOne(program) ==
    {[total |-> j, fault |-> f] :
        j \in 0 .. Len(program) - 1, f \in faults \cap {"read", "write"}}
    \cup {[total |-> Len(program) - 1, fault |-> "none"]}

\* copy_file: blocks written, and how it ended.  A failing vfs_read ends the
\* loop as the end of the file does; only a failing vfs_write is an error.
CopyFile(program) ==
    {[total |-> j, fault |-> f] :
        j \in 0 .. Len(program) - 1, f \in faults \cap {"read", "write"}}
    \cup {[total |-> Len(program), fault |-> "none"]}

\* What db_load may return: no more records than its caller has room for, and
\* only those before a read that failed, which it takes for the end.
DbLoad ==
    LET all == Min2(Len(db), PKG_MAX_ENTRIES)
    IN  {SubSeq(db, 1, n) : n \in IF "load" \in faults THEN 0 .. all ELSE {all}}

\* The first record of name, as every search of the code finds it.
Find(entries, name) ==
    {i \in DOMAIN entries : entries[i].name = name /\ \A j \in 1 .. i - 1 : entries[j].name # name}

-----------------------------------------------------------------------------
(* The table of dynamic commands.                                          *)

\* register_elf_command; its result is ignored by every caller.
RegisterElfCommand(name) ==
    dyn' = IF name \in dyn \/ Cardinality(dyn) < DYN_CMD_MAX THEN dyn \cup {name} ELSE dyn

-----------------------------------------------------------------------------
(* The operations.  Refuse(op, name) is a return of -1 before any change.  *)

Refuse(op, name) ==
    /\ last' = [op |-> op, name |-> name, fault |-> "none", ret |-> -1]
    /\ UNCHANGED <<db, bin, dyn>>

\* A failed copy: what was written of the binary stays.
FailedCopy(op, name, fault) ==
    /\ last' = [op |-> op, name |-> name, fault |-> fault, ret |-> -1]
    /\ UNCHANGED <<db, dyn>>

\* Mutant: registers before it knows that the record is saved.
Record_Early(op, name, entries, copyFault) ==
    \E s \in DbSave(entries) :
        /\ db' = s.db
        /\ last' = [op |-> op, name |-> name,
                    fault |-> IF copyFault = "none" THEN s.fault ELSE copyFault,
                    ret |-> IF s.fault = "none" THEN 0 ELSE -1]
        /\ RegisterElfCommand(name)

\* Save the records and, only if that worked, make the command runnable.
Record(op, name, entries, copyFault) ==
    \E s \in DbSave(entries) :
        /\ db' = s.db
        /\ last' = [op |-> op, name |-> name,
                    fault |-> IF copyFault = "none" THEN s.fault ELSE copyFault,
                    ret |-> IF s.fault = "none" THEN 0 ELSE -1]
        /\ IF s.fault = "none" THEN RegisterElfCommand(name) ELSE UNCHANGED dyn

\* A reinstallation does not look at the result of db_save.
RecordAgain(name, entries, copyFault) ==
    \E s \in DbSave(entries) :
        /\ db' = s.db
        /\ last' = [op |-> "install", name |-> name,
                    fault |-> IF copyFault = "none" THEN s.fault ELSE copyFault, ret |-> 0]
        /\ RegisterElfCommand(name)

PkgInstall(name, program) ==
    IF name \notin OnVfs
    THEN Refuse("install", name)
    ELSE \E c \in CopyFile(program), entries \in DbLoad :
            LET found  == Find(entries, name)
                record == [name |-> name, size |-> c.total]
            IN  /\ bin' = [bin EXCEPT ![name] = Overlay(@, program, c.total)]
                /\ CASE c.fault = "write" -> FailedCopy("install", name, "write")
                     [] c.fault # "write" /\ found # {} ->
                          RecordAgain(name, [i \in DOMAIN entries |->
                                         IF i \in found THEN record ELSE entries[i]], c.fault)
                     [] c.fault # "write" /\ found = {} /\ Len(entries) >= PKG_MAX_ENTRIES ->
                          FailedCopy("install", name, c.fault)
                     [] OTHER -> Record("install", name, Append(entries, record), c.fault)

PkgUpdate(name, program) ==
    \E entries \in DbLoad :
        LET found == Find(entries, name)
        IN  IF found = {} \/ name \notin OnVfs
            THEN Refuse("update", name)
            ELSE \E c \in CopyFile(program) :
                    LET record == [name |-> name, size |-> c.total]
                    IN  /\ bin' = [bin EXCEPT ![name] = Overlay(@, program, c.total)]
                        /\ IF c.fault = "write"
                           THEN FailedCopy("update", name, "write")
                           ELSE Record("update", name,
                                    [i \in DOMAIN entries |-> IF i \in found THEN record ELSE entries[i]],
                                    c.fault)

\* vfs_open does not find the source file.
NoSource(op, name) == Refuse(op, name)

\* The command goes first, then the record; the binary stays.
PkgRemove(name) ==
    \E entries \in DbLoad :
        LET found == Find(entries, name)
        IN  IF found = {}
            THEN Refuse("remove", name)
            ELSE /\ dyn' = dyn \ {name}
                 /\ \E i \in found :
                        \E s \in DbSave(SubSeq(entries, 1, i - 1) \o SubSeq(entries, i + 1, Len(entries))) :
                            /\ db' = s.db
                            /\ last' = [op |-> "remove", name |-> name, fault |-> s.fault,
                                        ret |-> IF s.fault = "none" THEN 0 ELSE -1]
                 /\ UNCHANGED bin

\* core/restart.c: the files survive, g_dyn_table does not.
Restart ==
    /\ dyn' = {}
    /\ last' = [op |-> "restart", name |-> "", fault |-> "none", ret |-> 0]
    /\ UNCHANGED <<db, bin>>

Init ==
    /\ db = <<>>
    /\ bin = [n \in OnVfs |-> <<>>]
    /\ dyn = {}
    /\ faults \in FaultSets
    /\ last = [op |-> "restart", name |-> "", fault |-> "none", ret |-> 0]

Next ==
    /\ \/ \E name \in Names, p \in Programs : PkgInstall(name, p) \/ PkgUpdate(name, p)
       \/ \E name \in Names, op \in {"install", "update"} : NoSource(op, name)
       \/ \E name \in Names : PkgRemove(name)
       \/ Restart
    /\ UNCHANGED faults

Spec == Init /\ [][Next]_vars

-----------------------------------------------------------------------------
(* Properties.                                                             *)

Recorded == {db[i].name : i \in DOMAIN db}

\* Every command the shell can run has a record: whichever copy or save fails,
\* pkg_install registers after the record is saved and pkg_remove unregisters
\* before it touches the records.  It takes a database that can be read.
RunnableIsRecorded == "load" \notin faults => dyn \subseteq Recorded

OthersKept ==
    \A n \in OnVfs \ {last'.name} :
        /\ "load" \notin faults => {db[i] : i \in Find(db, n)} = {db'[i] : i \in Find(db', n)}
        /\ bin'[n] = bin[n]
        /\ last'.op # "restart" => (n \in dyn' <=> n \in dyn)

\* An operation on one package, also one that fails halfway through rewriting
\* the database, keeps the record, the binary and the command of every other.
\* It hangs on the order of the writes: records only move towards the front.  A
\* db_load cut short by a failing read, which pkg.c:46 takes for the end, costs
\* others their records, but neither their binaries nor their commands.
OtherPackagesKept == [][OthersKept]_vars

\* As long as no driver fails, the binary of a runnable command is an intact
\* program up to its recorded size, although reinstalling a shorter program
\* leaves blocks of the longer one behind and pkg_remove leaves records behind.
RunnableIsIntact ==
    faults = {} => \A n \in dyn : \A i \in Find(db, n) : SubSeq(bin[n], 1, db[i].size) \in Programs

\* pkg.h:22: pkg_remove drops the record.
RemoveDropsRecord == last.op = "remove" /\ last.ret = 0 => last.name \notin Recorded
=============================================================================
