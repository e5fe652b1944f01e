--------------------------- MODULE ProgramsProofs ---------------------------
(***************************************************************************)
(* Programs on their way to run: packages, for every database size, however *)
(* a copy or a save ends; the mounted FAT32 volume, for any devices; and    *)
(* the loading of the first program, for any width of an address and any    *)
(* program headers.                                                        *)
(***************************************************************************)
EXTENDS Boot, Pkg, Fat32, SequenceTheorems, TLAPS

-----------------------------------------------------------------------------
(* Packages.                                                               *)

Rec == [name : OnVfs, size : Nat]

\* The record a search for a name finds.
RecordsOf(d, n) == {d[y] : y \in Find(d, n)}

\* r is the first record of n in d, at index f.
FirstAt(d, n, f, r) ==
  f \in 1 .. Len(d) /\ d[f] = r /\ r.name = n /\ \A j \in 1 .. f - 1 : d[j].name # n

LEMMA FoundIsFirst ==
  ASSUME NEW d \in Seq(Rec), NEW n, NEW r
  PROVE  r \in RecordsOf(d, n) <=> \E f \in 1 .. Len(d) : FirstAt(d, n, f, r)
  <1>1. DOMAIN d = 1 .. Len(d) OBVIOUS
  <1> QED BY <1>1 DEF RecordsOf, Find, FirstAt

\* Two databases in which the first records of a name agree.
LEMMA SameFirst ==
  ASSUME NEW d \in Seq(Rec), NEW o \in Seq(Rec), NEW n,
         \A r \in Rec : (\E f \in 1 .. Len(d) : FirstAt(d, n, f, r)) => \E f \in 1 .. Len(o) : FirstAt(o, n, f, r),
         \A r \in Rec : (\E f \in 1 .. Len(o) : FirstAt(o, n, f, r)) => \E f \in 1 .. Len(d) : FirstAt(d, n, f, r)
  PROVE  RecordsOf(o, n) = RecordsOf(d, n)
  <1>1. \A x \in Seq(Rec) : \A r : (\E f \in 1 .. Len(x) : FirstAt(x, n, f, r)) => r \in Rec
    BY DEF FirstAt
  <1>2. \A r : r \in RecordsOf(o, n) <=> r \in RecordsOf(d, n)
    BY Zenon, <1>1, FoundIsFirst
  <1> QED BY Zenon, <1>2

-----------------------------------------------------------------------------
(* What db_save leaves in the file.                                        *)

LEMMA OverlayType ==
  ASSUME NEW d \in Seq(Rec), NEW e \in Seq(Rec), NEW j \in 0 .. Len(e)
  PROVE  /\ Overlay(d, e, j) \in Seq(Rec)
         /\ Len(Overlay(d, e, j)) = IF Len(d) < j THEN j ELSE Len(d)
         /\ \A k \in 1 .. Len(Overlay(d, e, j)) : Overlay(d, e, j)[k] = IF k <= j THEN e[k] ELSE d[k]
  <1> DEFINE top == IF Len(d) < j THEN j ELSE Len(d)
             o == [k \in 1 .. top |-> IF k <= j THEN e[k] ELSE d[k]]
  <1>1. Overlay(d, e, j) = o BY DEF Overlay, Max2
  <1>2. Len(d) \in Nat /\ Len(e) \in Nat /\ top \in Nat OBVIOUS
  <1>3. ASSUME NEW k \in 1 .. top PROVE o[k] \in Rec
    <2>1. CASE k <= j
      <3>1. k \in 1 .. Len(e) BY <2>1, <1>2
      <3> QED BY <2>1, <3>1
    <2>2. CASE ~(k <= j)
      <3>1. k \in 1 .. Len(d) BY <2>2, <1>2
      <3> QED BY <2>2, <3>1
    <2> QED BY <2>1, <2>2
  <1> HIDE DEF top
  <1>4. o \in [1 .. top -> Rec] BY <1>3
  <1>5. \A k \in 1 .. top : o[k] = IF k <= j THEN e[k] ELSE d[k] OBVIOUS
  <1> HIDE DEF o
  <1>6. o \in Seq(Rec) /\ Len(o) = top BY <1>2, <1>4
  <1> QED BY <1>1, <1>5, <1>6 DEF top

\* Rewriting only the records of one name.
LEMMA RewriteKeeps ==
  ASSUME NEW d \in Seq(Rec), NEW o \in Seq(Rec), Len(o) = Len(d), NEW name \in OnVfs,
         NEW n \in OnVfs, n # name,
         \A k \in 1 .. Len(d) : o[k].name = d[k].name /\ (o[k] = d[k] \/ d[k].name = name)
  PROVE  RecordsOf(o, n) = RecordsOf(d, n)
  <1>1. ASSUME NEW r \in Rec, NEW f \in 1 .. Len(d)
        PROVE  FirstAt(d, n, f, r) <=> FirstAt(o, n, f, r)
    <2>1. \A j \in 1 .. f - 1 : o[j].name = d[j].name OBVIOUS
    <2>2. o[f].name = d[f].name /\ (o[f] = d[f] \/ d[f].name = name) OBVIOUS
    <2>3. (\A j \in 1 .. f - 1 : d[j].name # n) <=> (\A j \in 1 .. f - 1 : o[j].name # n) BY <2>1
    <2>4. d[f] = r /\ r.name = n <=> o[f] = r /\ r.name = n BY <2>2
    <2> QED BY Zenon, <2>3, <2>4 DEF FirstAt
  <1> QED BY <1>1, SameFirst

\* Adding a record of another name at the end.
LEMMA AppendKeeps ==
  ASSUME NEW d \in Seq(Rec), NEW rec \in Rec, NEW n, n # rec.name
  PROVE  RecordsOf(Append(d, rec), n) = RecordsOf(d, n)
  <1> DEFINE o == Append(d, rec)
  <1>1. o \in Seq(Rec) /\ Len(o) = Len(d) + 1 /\ Len(d) \in Nat /\ o[Len(d) + 1] = rec
        /\ \A k \in 1 .. Len(d) : o[k] = d[k]
    OBVIOUS
  <1> HIDE DEF o
  <1>2. ASSUME NEW r \in Rec, NEW f \in 1 .. Len(d)
        PROVE  FirstAt(d, n, f, r) <=> FirstAt(o, n, f, r)
    <2>1. \A j \in 1 .. f - 1 : j \in 1 .. Len(d) BY <1>1
    <2>2. f \in 1 .. Len(o) BY <1>1
    <2> QED BY ZenonT(60), <2>1, <2>2, <1>1 DEF FirstAt
  <1>3. ASSUME NEW r \in Rec, NEW f \in 1 .. Len(o), FirstAt(o, n, f, r) PROVE f \in 1 .. Len(d)
    <2>1. f # Len(d) + 1 BY <1>1, <1>3 DEF FirstAt
    <2> QED BY <2>1, <1>1
  <1>4. \A f \in 1 .. Len(d) : f \in 1 .. Len(o) BY <1>1
  <1>5. RecordsOf(o, n) = RecordsOf(d, n) BY <1>1, <1>2, <1>3, <1>4, SameFirst
  <1> QED BY <1>5 DEF o

\* The database without its y-th record, of which the first j were written.
LEMMA ShiftKeeps ==
  ASSUME NEW d \in Seq(Rec), NEW y \in 1 .. Len(d), NEW j \in 0 .. Len(d) - 1, NEW n, n # d[y].name,
         NEW o \in Seq(Rec), Len(o) = Len(d),
         \A k \in 1 .. Len(d) : o[k] = IF y <= k /\ k <= j THEN d[k + 1] ELSE d[k]
  PROVE  RecordsOf(o, n) = RecordsOf(d, n)
  <1>0. Len(d) \in Nat OBVIOUS
  <1>1. ASSUME NEW r \in Rec, NEW f \in 1 .. Len(d), FirstAt(d, n, f, r)
        PROVE  \E g \in 1 .. Len(o) : FirstAt(o, n, g, r)
    <2>1. f # y /\ d[f] = r /\ r.name = n /\ \A k \in 1 .. f - 1 : d[k].name # n BY <1>1 DEF FirstAt
    <2>2. CASE y < f /\ f - 1 <= j
      <3>1. f - 1 \in 1 .. Len(o) /\ o[f - 1] = r BY <2>1, <2>2, <1>0
      <3>2. ASSUME NEW k \in 1 .. (f - 1) - 1 PROVE o[k].name # n
        <4>1. k \in 1 .. Len(d) /\ k \in 1 .. f - 1 /\ k + 1 \in 1 .. f - 1 BY <1>0
        <4> QED BY <4>1, <2>1
      <3> QED BY <3>1, <3>2, <2>1 DEF FirstAt
    <2>3. CASE ~(y < f /\ f - 1 <= j)
      <3>1. f \in 1 .. Len(o) /\ o[f] = r BY <2>1, <2>3, <1>0
      <3>2. ASSUME NEW k \in 1 .. f - 1 PROVE o[k].name # n
        <4>1. k \in 1 .. Len(d) BY <1>0
        <4>2. CASE y <= k /\ k <= j
          <5>1. k + 1 \in 1 .. f - 1 BY <2>1, <2>3, <4>2, <1>0
          <5> QED BY <5>1, <4>1, <4>2, <2>1
        <4>3. CASE ~(y <= k /\ k <= j) BY <4>1, <4>3, <2>1
        <4> QED BY <4>2, <4>3
      <3> QED BY <3>1, <3>2, <2>1 DEF FirstAt
    <2> QED BY ZenonT(60), <2>2, <2>3
  <1>2. ASSUME NEW r \in Rec, NEW g \in 1 .. Len(o), FirstAt(o, n, g, r)
        PROVE  \E f \in 1 .. Len(d) : FirstAt(d, n, f, r)
    <2>1. o[g] = r /\ r.name = n /\ \A k \in 1 .. g - 1 : o[k].name # n BY <1>2 DEF FirstAt
    <2>2. CASE y <= g /\ g <= j
      <3>1. g + 1 \in 1 .. Len(d) /\ d[g + 1] = r BY <2>1, <2>2, <1>0
      <3>2. ASSUME NEW k \in 1 .. (g + 1) - 1 PROVE d[k].name # n
        <4>1. CASE k = y BY <4>1
        <4>2. CASE k < y
          <5>1. k \in 1 .. g - 1 /\ k \in 1 .. Len(d) BY <2>2, <4>2, <1>0
          <5> QED BY <5>1, <4>2, <2>1
        <4>3. CASE y < k
          <5>1. k - 1 \in 1 .. g - 1 /\ k - 1 \in 1 .. Len(d) /\ y <= k - 1 /\ k - 1 <= j /\ (k - 1) + 1 = k
            BY <2>2, <4>3, <1>0
          <5> QED BY Zenon, <5>1, <2>1
        <4> QED BY <4>1, <4>2, <4>3
      <3> QED BY <3>1, <3>2, <2>1 DEF FirstAt
    <2>3. CASE ~(y <= g /\ g <= j)
      <3>1. g \in 1 .. Len(d) /\ d[g] = r BY <2>1, <2>3, <1>0
      <3>2. ASSUME NEW k \in 1 .. g - 1 PROVE d[k].name # n
        <4>0. k \in 1 .. Len(d) BY <1>0
        <4>1. CASE k = y BY <4>1
        <4>2. CASE ~(y <= k /\ k <= j) BY <4>0, <4>2, <2>1
        <4>3. CASE y < k /\ k <= j
          <5>1. k - 1 \in 1 .. g - 1 /\ k - 1 \in 1 .. Len(d) /\ y <= k - 1 /\ k - 1 <= j /\ (k - 1) + 1 = k
            BY <4>3, <1>0
          <5> QED BY Zenon, <5>1, <2>1
        <4> QED BY <4>1, <4>2, <4>3, <1>0
      <3> QED BY <3>1, <3>2, <2>1 DEF FirstAt
    <2> QED BY <2>2, <2>3
  <1> QED BY <1>1, <1>2, SameFirst

-----------------------------------------------------------------------------
(* The invariant, and the state an operation leaves.                       *)

\* RunnableIsRecorded is inductive with the types and with a database that fits
\* in the array db_load reads it into: otherwise a save would drop its end.
PkgInv ==
  /\ db \in Seq(Rec) /\ Len(db) <= PKG_MAX_ENTRIES
  /\ dyn \subseteq OnVfs
  /\ bin = [n \in OnVfs |-> bin[n]]
  /\ RunnableIsRecorded

LEMMA RecordedIs ==
  ASSUME NEW d \in Seq(Rec)
  PROVE  {d[y].name : y \in DOMAIN d} = {d[y].name : y \in 1 .. Len(d)}
  OBVIOUS

\* What db_save may leave: the first j of the records, all when it worked.
LEMMA SaveIs ==
  ASSUME NEW e \in Seq(Rec), NEW s \in DbSave(e)
  PROVE  \E j \in 0 .. Len(e) : s.db = Overlay(db, e, j) /\ (s.fault = "none" => j = Len(e))
  <1>1. Len(e) \in Nat OBVIOUS
  <1>2. CASE s = [db |-> Overlay(db, e, Len(e)), fault |-> "none"] BY <1>1, <1>2
  <1>3. CASE \E j \in 0 .. Len(e) - 1 : s = [db |-> Overlay(db, e, j), fault |-> "write"]
    BY <1>1, <1>3
  <1> QED BY <1>2, <1>3 DEF DbSave

\* What db_load may return.
LEMMA LoadIs ==
  ASSUME PkgInv, NEW e \in DbLoad
  PROVE  /\ e \in Seq(Rec) /\ Len(e) <= Len(db)
         /\ "load" \notin faults => e = db
  <1>1. PICK n \in 0 .. Len(db) : e = SubSeq(db, 1, n) /\ ("load" \notin faults => n = Len(db))
    <2>1. Len(db) \in Nat /\ Min2(Len(db), PKG_MAX_ENTRIES) = Len(db)
      BY PkgAssumption DEF PkgInv, Min2
    <2> QED BY <2>1 DEF DbLoad
  <1>2. db \in Seq(Rec) BY DEF PkgInv
  <1> QED BY <1>1, <1>2

\* The state after a database of another shape was put in place: what a step has
\* to show about it.
Keeps(d, name) ==
  /\ d \in Seq(Rec) /\ Len(d) <= PKG_MAX_ENTRIES
  /\ "load" \notin faults =>
       /\ \A n \in OnVfs \ {name} : RecordsOf(d, n) = RecordsOf(db, n)
       /\ \A k \in 1 .. Len(db) : db[k].name # name => db[k].name \in {d[y].name : y \in DOMAIN d}

LEMMA KeepsSame == ASSUME PkgInv, NEW name PROVE Keeps(db, name)
  BY DEF PkgInv, Keeps

\* A save of the records with the one at y replaced.
LEMMA ReplaceSaved ==
  ASSUME PkgInv, NEW e \in DbLoad, NEW name \in OnVfs, NEW rec \in Rec, rec.name = name,
         NEW found, found = Find(e, name),
         NEW s \in DbSave([y \in DOMAIN e |-> IF y \in found THEN rec ELSE e[y]])
  PROVE  /\ Keeps(s.db, name)
         /\ "load" \notin faults /\ found # {} => name \in {s.db[y].name : y \in DOMAIN s.db}
  <1> DEFINE w == [y \in DOMAIN e |-> IF y \in found THEN rec ELSE e[y]]
  <1>1. e \in Seq(Rec) /\ Len(e) <= Len(db) /\ ("load" \notin faults => e = db)
        /\ db \in Seq(Rec) /\ Len(db) \in Nat /\ Len(db) <= PKG_MAX_ENTRIES /\ Len(e) \in Nat
        /\ DOMAIN e = 1 .. Len(e)
    BY LoadIs DEF PkgInv
  <1>2. w \in Seq(Rec) /\ Len(w) = Len(e) /\ \A k \in 1 .. Len(e) : w[k].name = e[k].name
        /\ (w[k] = e[k] \/ e[k].name = name)
    <2>1. \A k \in 1 .. Len(e) : w[k] \in Rec /\ w[k].name = e[k].name /\ (w[k] = e[k] \/ e[k].name = name)
      BY <1>1 DEF Find
    <2>2. w \in [1 .. Len(e) -> Rec] BY <1>1, <2>1
    <2> HIDE DEF w
    <2>3. w \in Seq(Rec) /\ Len(w) = Len(e) BY Z3T(60), <1>1, <2>2
    <2> QED BY <2>1, <2>3
  <1>3. s \in DbSave(w) OBVIOUS
  <1> HIDE DEF w
  <1>4. PICK j \in 0 .. Len(w) : s.db = Overlay(db, w, j) BY <1>2, <1>3, SaveIs
  <1> DEFINE o == s.db
  <1>5. /\ o \in Seq(Rec) /\ Len(o) = Len(db)
        /\ \A k \in 1 .. Len(o) : o[k] = IF k <= j THEN w[k] ELSE db[k]
    <2>1. o \in Seq(Rec) /\ Len(o) = (IF Len(db) < j THEN j ELSE Len(db))
          /\ \A k \in 1 .. Len(o) : o[k] = IF k <= j THEN w[k] ELSE db[k]
      BY <1>1, <1>2, <1>4, OverlayType
    <2>2. ~(Len(db) < j) BY <1>1, <1>2
    <2> QED BY Z3T(60), <2>1, <2>2
  <1> HIDE DEF o
  <1>6. CASE "load" \in faults BY <1>1, <1>5, <1>6 DEF Keeps, o
  <1>7. CASE "load" \notin faults
    <2>1. \A k \in 1 .. Len(db) : o[k].name = db[k].name /\ (o[k] = db[k] \/ db[k].name = name)
      BY <1>1, <1>2, <1>5, <1>7
    <2>2. \A n \in OnVfs \ {name} : RecordsOf(o, n) = RecordsOf(db, n)
      <3> TAKE n \in OnVfs \ {name}
      <3>1. n # name OBVIOUS
      <3>2. db \in Seq(Rec) /\ o \in Seq(Rec) /\ Len(o) = Len(db) BY <1>1, <1>5
      <3> QED BY <3>1, <3>2, <2>1, RewriteKeeps
    <2>3. DOMAIN o = 1 .. Len(db) BY <1>5
    <2>4. \A k \in 1 .. Len(db) : db[k].name \in {o[y].name : y \in DOMAIN o} BY Z3T(60), <2>1, <2>3
    <2>5. found # {} => \E k \in 1 .. Len(db) : db[k].name = name BY <1>1, <1>7 DEF Find
    <2> QED BY Z3T(60), <1>1, <1>5, <2>2, <2>4, <2>5 DEF Keeps, o
  <1> QED BY <1>6, <1>7

\* A save of the records with a new one behind them.  One that fails has only
\* written again what was there.
LEMMA AppendSaved ==
  ASSUME PkgInv, NEW e \in DbLoad, NEW name \in OnVfs, NEW rec \in Rec, rec.name = name,
         Len(e) < PKG_MAX_ENTRIES, NEW s \in DbSave(Append(e, rec))
  PROVE  /\ Keeps(s.db, name)
         /\ "load" \notin faults /\ s.fault = "none" => name \in {s.db[y].name : y \in DOMAIN s.db}
         /\ "load" \notin faults =>
              \A k \in 1 .. Len(db) : db[k].name \in {s.db[y].name : y \in DOMAIN s.db}
  <1> DEFINE w == Append(e, rec)
  <1>1. e \in Seq(Rec) /\ Len(e) <= Len(db) /\ ("load" \notin faults => e = db)
        /\ db \in Seq(Rec) /\ Len(db) \in Nat /\ Len(db) <= PKG_MAX_ENTRIES /\ Len(e) \in Nat
    BY LoadIs DEF PkgInv
  <1>2. w \in Seq(Rec) /\ Len(w) = Len(e) + 1 /\ w[Len(e) + 1] = rec
        /\ \A k \in 1 .. Len(e) : w[k] = e[k]
    BY <1>1
  <1>3. s \in DbSave(w) /\ w = Append(e, rec) OBVIOUS
  <1> HIDE DEF w
  <1>4. PICK j \in 0 .. Len(w) : s.db = Overlay(db, w, j) /\ (s.fault = "none" => j = Len(w))
    BY Zenon, <1>2, <1>3, SaveIs
  <1> DEFINE o == s.db
  <1>5. /\ o \in Seq(Rec) /\ Len(o) = (IF Len(db) < j THEN j ELSE Len(db))
        /\ \A k \in 1 .. Len(o) : o[k] = IF k <= j THEN w[k] ELSE db[k]
    BY <1>1, <1>2, <1>4, OverlayType
  <1> HIDE DEF o
  <1>6. Len(o) <= PKG_MAX_ENTRIES BY <1>1, <1>2, <1>4, <1>5, PkgAssumption
  <1>7. CASE "load" \in faults BY <1>5, <1>6, <1>7 DEF Keeps, o
  <1>8. CASE "load" \notin faults /\ j = Len(w)
    <2>1. o = w
      <3>1. e = db /\ Len(w) = Len(db) + 1 BY <1>1, <1>2, <1>8
      <3>2. Len(o) = Len(w) /\ \A k \in 1 .. Len(o) : o[k] = w[k] BY <1>1, <1>5, <1>8, <3>1
      <3> QED BY <1>2, <1>5, <3>2
    <2>2. \A n \in OnVfs \ {name} : RecordsOf(o, n) = RecordsOf(db, n)
      <3> TAKE n \in OnVfs \ {name}
      <3> QED BY <1>1, <1>3, <1>8, <2>1, AppendKeeps
    <2>3. \A k \in 1 .. Len(db) + 1 : k \in DOMAIN o BY <1>1, <1>2, <1>8, <2>1
    <2>4. \A k \in 1 .. Len(db) : o[k].name = db[k].name /\ k \in DOMAIN o
      BY <1>1, <1>2, <1>8, <2>1, <2>3
    <2>5. o[Len(db) + 1].name = name /\ Len(db) + 1 \in DOMAIN o BY <1>1, <1>2, <1>8, <2>1, <2>3
    <2> QED BY ZenonT(60), <1>5, <1>6, <2>2, <2>4, <2>5 DEF Keeps, o
  <1>9. CASE "load" \notin faults /\ j # Len(w)
    <2>1. o = db
      <3>1. e = db /\ Len(o) = Len(db) BY <1>1, <1>2, <1>5, <1>9
      <3>2. ASSUME NEW k \in 1 .. Len(o) PROVE o[k] = db[k]
        BY <1>2, <1>5, <1>9, <3>1
      <3> QED BY <1>1, <1>5, <3>1, <3>2
    <2> QED BY <1>4, <1>9, <2>1, KeepsSame DEF o
  <1> QED BY <1>7, <1>8, <1>9

\* The records without the y-th, as pkg_remove moves them.
LEMMA WithoutIs ==
  ASSUME NEW e \in Seq(Rec), NEW y \in 1 .. Len(e)
  PROVE  LET w == SubSeq(e, 1, y - 1) \o SubSeq(e, y + 1, Len(e))
         IN  /\ w \in Seq(Rec) /\ Len(w) = Len(e) - 1
             /\ \A k \in 1 .. Len(w) : w[k] = IF k < y THEN e[k] ELSE e[k + 1]
  <1> DEFINE m == Len(e)
             a == SubSeq(e, 1, y - 1)
             b == SubSeq(e, y + 1, m)
  <1>1. m \in Nat /\ y \in 1 .. m /\ \A k \in 1 .. m : e[k] \in Rec OBVIOUS
  <1> HIDE DEF m
  <1>2. a \in Seq(Rec) /\ Len(a) = y - 1 /\ \A k \in 1 .. y - 1 : a[k] = e[k]
    <2>1. \A k \in 1 .. y - 1 : e[k] \in Rec /\ 1 + k - 1 = k BY <1>1
    <2>2. y - 1 \in Int /\ y - 1 - 1 + 1 = y - 1 /\ (~(1 <= y - 1) => 0 = y - 1) BY <1>1
    <2>3. /\ a \in Seq(Rec)
          /\ Len(a) = IF 1 <= y - 1 THEN y - 1 - 1 + 1 ELSE 0
          /\ \A k \in 1 .. y - 1 - 1 + 1 : a[k] = e[1 + k - 1]
      BY <2>1, <2>2, SubSeqProperties
    <2> HIDE DEF a
    <2> QED BY <2>1, <2>2, <2>3
  <1>3. b \in Seq(Rec) /\ Len(b) = m - y /\ \A k \in 1 .. m - y : b[k] = e[y + k]
    <2>1. \A k \in y + 1 .. m : e[k] \in Rec BY <1>1
    <2>2. y + 1 \in Int /\ m \in Int /\ m - (y + 1) + 1 = m - y /\ (~(y + 1 <= m) => 0 = m - y)
          /\ \A k \in 1 .. m - y : (y + 1) + k - 1 = y + k
      BY <1>1
    <2>3. /\ b \in Seq(Rec)
          /\ Len(b) = IF y + 1 <= m THEN m - (y + 1) + 1 ELSE 0
          /\ \A k \in 1 .. m - (y + 1) + 1 : b[k] = e[(y + 1) + k - 1]
      BY <2>1, <2>2, SubSeqProperties
    <2> HIDE DEF b
    <2> QED BY <2>2, <2>3
  <1> HIDE DEF a, b
  <1> DEFINE w == a \o b
  <1>4. w \in Seq(Rec) /\ Len(w) = Len(a) + Len(b)
        /\ \A k \in 1 .. Len(a) + Len(b) : w[k] = IF k <= Len(a) THEN a[k] ELSE b[k - Len(a)]
    BY Zenon, <1>2, <1>3, ConcatProperties
  <1> HIDE DEF w
  <1>5. Len(w) = m - 1 BY Z3T(60), <1>1, <1>2, <1>3, <1>4
  <1>6. ASSUME NEW k \in 1 .. Len(w) PROVE w[k] = IF k < y THEN e[k] ELSE e[k + 1]
    <2>1. w[k] = IF k <= y - 1 THEN a[k] ELSE b[k - (y - 1)] BY <1>2, <1>4
    <2>2. CASE k < y BY <1>1, <1>2, <2>1, <2>2
    <2>3. CASE ~(k < y)
      <3>1. k - (y - 1) \in 1 .. m - y /\ y + (k - (y - 1)) = k + 1 BY <1>1, <1>5, <2>3
      <3>2. w[k] = b[k - (y - 1)] BY <1>1, <2>1, <2>3
      <3> QED BY <1>3, <2>3, <3>1, <3>2
    <2> QED BY <2>2, <2>3
  <1> QED BY Zenon, <1>4, <1>5, <1>6 DEF w, a, b, m

\* A save of the records without the y-th.
LEMMA RemoveSaved ==
  ASSUME PkgInv, NEW e \in DbLoad, NEW name \in OnVfs, NEW y \in Find(e, name),
         NEW s \in DbSave(SubSeq(e, 1, y - 1) \o SubSeq(e, y + 1, Len(e)))
  PROVE  Keeps(s.db, name)
  <1> DEFINE w == SubSeq(e, 1, y - 1) \o SubSeq(e, y + 1, Len(e))
  <1>1. e \in Seq(Rec) /\ Len(e) <= Len(db) /\ ("load" \notin faults => e = db)
        /\ db \in Seq(Rec) /\ Len(db) \in Nat /\ Len(db) <= PKG_MAX_ENTRIES /\ Len(e) \in Nat
        /\ DOMAIN e = 1 .. Len(e)
    BY LoadIs DEF PkgInv
  <1>2. y \in 1 .. Len(e) /\ e[y].name = name BY Z3T(60), <1>1 DEF Find
  <1>3. w \in Seq(Rec) /\ Len(w) = Len(e) - 1
        /\ \A k \in 1 .. Len(w) : w[k] = IF k < y THEN e[k] ELSE e[k + 1]
    BY Zenon, <1>1, <1>2, WithoutIs
  <1>4. s \in DbSave(w) OBVIOUS
  <1> HIDE DEF w
  <1>5. PICK j \in 0 .. Len(w) : s.db = Overlay(db, w, j) BY <1>3, <1>4, SaveIs
  <1> DEFINE o == s.db
  <1>6. /\ o \in Seq(Rec) /\ Len(o) = (IF Len(db) < j THEN j ELSE Len(db))
        /\ \A k \in 1 .. Len(o) : o[k] = IF k <= j THEN w[k] ELSE db[k]
    <2>1. db \in Seq(Rec) /\ w \in Seq(Rec) /\ s.db = Overlay(db, w, j) BY <1>1, <1>3, <1>5
    <2> HIDE <1>3
    <2> QED BY <2>1, OverlayType
  <1> HIDE DEF o
  <1>7. Len(o) = Len(db) BY <1>1, <1>3, <1>5, <1>6
  <1>8. CASE "load" \in faults BY <1>1, <1>6, <1>7, <1>8 DEF Keeps, o
  <1>9. CASE "load" \notin faults
    <2>1. e = db /\ j \in 0 .. Len(db) - 1 /\ y \in 1 .. Len(db) BY <1>1, <1>2, <1>3, <1>9
    <2>2. \A k \in 1 .. Len(db) : o[k] = IF y <= k /\ k <= j THEN db[k + 1] ELSE db[k]
      BY <1>1, <1>3, <1>6, <1>7, <2>1
    <2>3. \A n \in OnVfs \ {name} : RecordsOf(o, n) = RecordsOf(db, n)
      <3> TAKE n \in OnVfs \ {name}
      <3>1. n # db[y].name BY <1>2, <2>1
      <3>2. db \in Seq(Rec) /\ o \in Seq(Rec) BY <1>1, <1>6
      <3> QED BY ZenonT(60), <3>1, <3>2, <1>7, <2>1, <2>2, ShiftKeeps
    <2>4. ASSUME NEW k \in 1 .. Len(db), db[k].name # name
          PROVE  \E m \in DOMAIN o : o[m].name = db[k].name
      <3>1. k # y /\ DOMAIN o = 1 .. Len(db) BY <1>2, <1>6, <1>7, <2>1, <2>4
      <3>2. CASE y < k /\ k - 1 <= j
        <4>1. k - 1 \in 1 .. Len(db) /\ o[k - 1] = db[k] BY Z3T(60), <1>1, <2>1, <2>2, <3>2
        <4> QED BY <3>1, <4>1
      <3>3. CASE ~(y < k /\ k - 1 <= j)
        <4>1. o[k] = db[k] BY <1>1, <2>1, <2>2, <3>1, <3>3
        <4> QED BY <3>1, <4>1
      <3> QED BY <3>2, <3>3
    <2> QED BY Z3T(60), <1>1, <1>6, <1>7, <2>3, <2>4 DEF Keeps, o
  <1> QED BY <1>8, <1>9

-----------------------------------------------------------------------------
(* One step.                                                               *)

\* What every operation on name does: to the database what Keeps allows, to one
\* binary and to one command at most, and a new command only with its record.
Touches(name) ==
  /\ Keeps(db', name)
  /\ bin' = [n \in OnVfs |-> bin'[n]] /\ \A n \in OnVfs \ {name} : bin'[n] = bin[n]
  /\ dyn' = dyn \/ (name \in OnVfs /\ dyn' = dyn \cup {name}) \/ dyn' = dyn \ {name}
  /\ "load" \notin faults /\ name \in dyn' => name \in {db'[y].name : y \in DOMAIN db'}
  /\ last'.name = name
  /\ faults' = faults

LEMMA CopyTotal == ASSUME NEW p \in Programs, NEW c \in CopyFile(p) PROVE c.total \in Nat
  <1>1. Len(p) \in Nat BY PkgAssumption
  <1>2. CASE c = [total |-> Len(p), fault |-> "none"] BY <1>1, <1>2
  <1>3. CASE \E j \in 0 .. Len(p) - 1, f \in faults \cap {"read", "write"} : c = [total |-> j, fault |-> f]
    BY <1>1, <1>3
  <1> QED BY <1>2, <1>3 DEF CopyFile

\* A step that leaves the database and the commands.
LEMMA QuietTouches ==
  ASSUME PkgInv, NEW name \in Names, db' = db, dyn' = dyn, faults' = faults, last'.name = name,
         bin' = [n \in OnVfs |-> bin'[n]], \A n \in OnVfs \ {name} : bin'[n] = bin[n]
  PROVE  Touches(name)
  <1>1. Keeps(db', name) BY KeepsSame
  <1>2. "load" \notin faults /\ name \in dyn' => name \in {db'[y].name : y \in DOMAIN db'}
    BY DEF PkgInv, RunnableIsRecorded, Recorded
  <1> QED BY <1>1, <1>2 DEF Touches

LEMMA RefuseTouches ==
  ASSUME PkgInv, NEW name \in Names, NEW op, Refuse(op, name), faults' = faults PROVE Touches(name)
  BY QuietTouches DEF Refuse, PkgInv

\* The binary after a copy.
LEMMA BinCopied ==
  ASSUME PkgInv, NEW name, NEW x, bin' = [bin EXCEPT ![name] = x]
  PROVE  bin' = [n \in OnVfs |-> bin'[n]] /\ \A n \in OnVfs \ {name} : bin'[n] = bin[n]
  BY DEF PkgInv

\* register_elf_command.
LEMMA Registers ==
  ASSUME NEW name, RegisterElfCommand(name) PROVE dyn' = dyn \/ dyn' = dyn \cup {name}
  BY DEF RegisterElfCommand

LEMMA InstallTouches ==
  ASSUME PkgInv, NEW name \in Names, NEW p \in Programs, PkgInstall(name, p), faults' = faults
  PROVE  Touches(name)
  <1>1. CASE name \notin OnVfs BY Zenon, <1>1, RefuseTouches DEF PkgInstall
  <1>2. CASE name \in OnVfs
    <2>1. PICK c \in CopyFile(p), e \in DbLoad :
            LET found  == Find(e, name)
                record == [name |-> name, size |-> c.total]
            IN  /\ bin' = [bin EXCEPT ![name] = Overlay(@, p, c.total)]
                /\ \/ \E f : FailedCopy("install", name, f)
                   \/ /\ found # {}
                      /\ RecordAgain(name, [y \in DOMAIN e |-> IF y \in found THEN record ELSE e[y]], c.fault)
                   \/ /\ ~(Len(e) >= PKG_MAX_ENTRIES)
                      /\ Record("install", name, Append(e, record), c.fault)
      BY ZenonT(60), <1>2 DEF PkgInstall
    <2> DEFINE found == Find(e, name)
               record == [name |-> name, size |-> c.total]
               w == [y \in DOMAIN e |-> IF y \in found THEN record ELSE e[y]]
    <2>2. bin' = [n \in OnVfs |-> bin'[n]] /\ \A n \in OnVfs \ {name} : bin'[n] = bin[n]
      BY Zenon, <2>1, BinCopied
    <2>3. record \in Rec /\ record.name = name BY <1>2, CopyTotal DEF Rec
    <2> HIDE DEF record
    <2>4. CASE \E f : FailedCopy("install", name, f) BY <2>2, <2>4, QuietTouches DEF FailedCopy
    <2>5. CASE found # {} /\ RecordAgain(name, w, c.fault)
      <3>1. PICK s \in DbSave(w) : db' = s.db /\ last'.name = name /\ RegisterElfCommand(name)
        BY Z3T(60), <2>5 DEF RecordAgain
      <3>2. Keeps(s.db, name) /\ ("load" \notin faults => name \in {s.db[y].name : y \in DOMAIN s.db})
        BY <1>2, <2>3, <2>5, ReplaceSaved
      <3> HIDE DEF w, found
      <3> QED BY <1>2, <2>2, <3>1, <3>2, Registers DEF Touches
    <2>6. CASE ~(Len(e) >= PKG_MAX_ENTRIES) /\ Record("install", name, Append(e, record), c.fault)
      <3>1. PICK s \in DbSave(Append(e, record)) : db' = s.db /\ last'.name = name
               /\ IF s.fault = "none" THEN RegisterElfCommand(name) ELSE UNCHANGED dyn
        BY <2>6 DEF Record
      <3>2. Len(e) < PKG_MAX_ENTRIES
        <4>1. Len(e) \in Nat BY SMTT(30), LoadIs
        <4> QED BY <2>6, <4>1, PkgAssumption
      <3>3. /\ Keeps(s.db, name)
            /\ "load" \notin faults /\ s.fault = "none" => name \in {s.db[y].name : y \in DOMAIN s.db}
            /\ "load" \notin faults =>
                 \A k \in 1 .. Len(db) : db[k].name \in {s.db[y].name : y \in DOMAIN s.db}
        BY <1>2, <2>3, <3>2, AppendSaved
      <3>4. "load" \notin faults /\ name \in dyn => name \in {s.db[y].name : y \in DOMAIN s.db}
        <4>1. DOMAIN db = 1 .. Len(db) BY DEF PkgInv
        <4> QED BY <3>3, <4>1 DEF PkgInv, RunnableIsRecorded, Recorded
      <3> QED BY <1>2, <2>2, <3>1, <3>3, <3>4, Registers DEF Touches
    <2> QED BY <2>1, <2>4, <2>5, <2>6 DEF record
  <1> QED BY <1>1, <1>2

LEMMA UpdateTouches ==
  ASSUME PkgInv, NEW name \in Names, NEW p \in Programs, PkgUpdate(name, p), faults' = faults
  PROVE  Touches(name)
  <1>1. PICK e \in DbLoad :
          \/ Refuse("update", name)
          \/ /\ Find(e, name) # {} /\ name \in OnVfs
             /\ \E c \in CopyFile(p) :
                  LET record == [name |-> name, size |-> c.total]
                  IN  /\ bin' = [bin EXCEPT ![name] = Overlay(@, p, c.total)]
                      /\ \/ FailedCopy("update", name, "write")
                         \/ Record("update", name,
                                [y \in DOMAIN e |-> IF y \in Find(e, name) THEN record ELSE e[y]], c.fault)
    BY Zenon DEF PkgUpdate
  <1>2. CASE Refuse("update", name) BY <1>2, RefuseTouches
  <1>3. CASE ~Refuse("update", name)
    <2>1. Find(e, name) # {} /\ name \in OnVfs BY Z3T(60), <1>1, <1>3
    <2>2. PICK c \in CopyFile(p) :
                  LET record == [name |-> name, size |-> c.total]
                  IN  /\ bin' = [bin EXCEPT ![name] = Overlay(@, p, c.total)]
                      /\ \/ FailedCopy("update", name, "write")
                         \/ Record("update", name,
                                [y \in DOMAIN e |-> IF y \in Find(e, name) THEN record ELSE e[y]], c.fault)
      BY Zenon, <1>1, <1>3
    <2> DEFINE found == Find(e, name)
               record == [name |-> name, size |-> c.total]
               w == [y \in DOMAIN e |-> IF y \in found THEN record ELSE e[y]]
    <2>3. bin' = [n \in OnVfs |-> bin'[n]] /\ \A n \in OnVfs \ {name} : bin'[n] = bin[n]
      BY Zenon, <2>2, BinCopied
    <2>4. record \in Rec /\ record.name = name BY <2>1, CopyTotal DEF Rec
    <2>5. CASE FailedCopy("update", name, "write") BY <2>3, <2>5, QuietTouches DEF FailedCopy
    <2>6. CASE Record("update", name, w, c.fault)
      <3> HIDE DEF record
      <3>1. PICK s \in DbSave(w) : db' = s.db /\ last'.name = name
               /\ IF s.fault = "none" THEN RegisterElfCommand(name) ELSE UNCHANGED dyn
        BY Z3T(60), <2>6 DEF Record
      <3>2. Keeps(s.db, name) /\ ("load" \notin faults => name \in {s.db[y].name : y \in DOMAIN s.db})
        BY <2>1, <2>4, ReplaceSaved
      <3> HIDE DEF w, found
      <3> QED BY <2>1, <2>3, <3>1, <3>2, Registers DEF Touches
    <2> QED BY <2>2, <2>5, <2>6
  <1> QED BY <1>2, <1>3

LEMMA RemoveTouches ==
  ASSUME PkgInv, NEW name \in Names, PkgRemove(name), faults' = faults PROVE Touches(name)
  <1>1. PICK e \in DbLoad :
          \/ Refuse("remove", name)
          \/ /\ dyn' = dyn \ {name} /\ bin' = bin
             /\ \E y \in Find(e, name) :
                  \E s \in DbSave(SubSeq(e, 1, y - 1) \o SubSeq(e, y + 1, Len(e))) :
                    db' = s.db /\ last'.name = name
    BY DEF PkgRemove
  <1>2. CASE Refuse("remove", name) BY <1>2, RefuseTouches
  <1>3. CASE ~Refuse("remove", name)
    <2>1. PICK y \in Find(e, name) :
            \E s \in DbSave(SubSeq(e, 1, y - 1) \o SubSeq(e, y + 1, Len(e))) : db' = s.db /\ last'.name = name
      BY <1>1, <1>3
    <2>2. PICK s \in DbSave(SubSeq(e, 1, y - 1) \o SubSeq(e, y + 1, Len(e))) : db' = s.db /\ last'.name = name
      BY <2>1
    <2>3. name \in OnVfs
      <3>1. e \in Seq(Rec) /\ y \in DOMAIN e /\ e[y].name = name BY LoadIs DEF Find
      <3>2. e[y] \in Rec BY <3>1
      <3> QED BY <3>1, <3>2 DEF Rec
    <2>4. Keeps(s.db, name) BY <2>3, RemoveSaved
    <2> QED BY <1>1, <1>3, <2>2, <2>4 DEF Touches, PkgInv
  <1> QED BY <1>2, <1>3

\* A step is an operation on one package, or a restart.
LEMMA StepTouches ==
  ASSUME PkgInv, Next
  PROVE  \/ \E name \in Names : Touches(name)
         \/ db' = db /\ bin' = bin /\ dyn' = {} /\ faults' = faults /\ last'.op = "restart"
  <1>1. faults' = faults BY DEF Next
  <1>2. CASE \E name \in Names, p \in Programs : PkgInstall(name, p) \/ PkgUpdate(name, p)
    BY <1>1, <1>2, InstallTouches, UpdateTouches
  <1>3. CASE \E name \in Names, op \in {"install", "update"} : NoSource(op, name)
    BY <1>1, <1>3, RefuseTouches DEF NoSource
  <1>4. CASE \E name \in Names : PkgRemove(name) BY <1>1, <1>4, RemoveTouches
  <1>5. CASE Restart BY Zenon, <1>1, <1>5 DEF Restart
  <1> QED BY <1>2, <1>3, <1>4, <1>5 DEF Next

LEMMA PkgInitInv == Init => PkgInv
  <1> SUFFICES ASSUME Init PROVE PkgInv
    OBVIOUS
  <1>1. db \in Seq(Rec) /\ Len(db) <= PKG_MAX_ENTRIES
    <2>1. db = <<>> BY Zenon DEF Init
    <2>2. Len(db) = 0 /\ db \in Seq(Rec) BY <2>1
    <2> QED BY <2>2, PkgAssumption
  <1>2. dyn \subseteq OnVfs /\ RunnableIsRecorded BY Zenon DEF Init, RunnableIsRecorded
  <1>3. bin = [n \in OnVfs |-> bin[n]] BY Zenon DEF Init
  <1> QED BY <1>1, <1>2, <1>3 DEF PkgInv

LEMMA PkgStepInv == PkgInv /\ [Next]_vars => PkgInv'
  <1> SUFFICES ASSUME PkgInv, [Next]_vars PROVE PkgInv'
    OBVIOUS
  <1>1. CASE UNCHANGED vars BY <1>1 DEF vars, PkgInv, RunnableIsRecorded, Recorded
  <1>2. CASE db' = db /\ bin' = bin /\ dyn' = {} /\ faults' = faults
    BY <1>2 DEF PkgInv, RunnableIsRecorded, Recorded
  <1>3. ASSUME NEW name \in Names, Touches(name) PROVE PkgInv'
    <2>1. db' \in Seq(Rec) /\ Len(db') <= PKG_MAX_ENTRIES BY <1>3 DEF Touches, Keeps
    <2>2. dyn' \subseteq OnVfs BY <1>3 DEF Touches, PkgInv
    <2>3. bin' = [n \in OnVfs |-> bin'[n]] BY <1>3 DEF Touches
    <2>4. ASSUME "load" \notin faults', NEW n \in dyn' PROVE n \in {db'[y].name : y \in DOMAIN db'}
      <3>1. "load" \notin faults BY <1>3, <2>4 DEF Touches
      <3>2. CASE n = name BY <1>3, <3>1, <3>2 DEF Touches
      <3>3. CASE n # name
        <4>1. n \in dyn BY <1>3, <3>3 DEF Touches
        <4>2. PICK k \in DOMAIN db : db[k].name = n
          BY <3>1, <4>1 DEF PkgInv, RunnableIsRecorded, Recorded
        <4>3. DOMAIN db = 1 .. Len(db) BY DEF PkgInv
        <4> QED BY <1>3, <3>1, <3>3, <4>2, <4>3 DEF Touches, Keeps
      <3> QED BY <3>2, <3>3
    <2>5. RunnableIsRecorded' BY <2>4 DEF RunnableIsRecorded, Recorded
    <2> QED BY <2>1, <2>2, <2>3, <2>5 DEF PkgInv
  <1> QED BY <1>1, <1>2, <1>3, StepTouches

\* Every command the shell can run has a record, for every database size,
\* command table, set of packages and failing transfer: install registers only
\* after db_save worked, remove unregisters first (pkg.c:83-126, 157-176).
THEOREM RunnableRecorded == Spec => []RunnableIsRecorded
  <1>1. PkgInv => RunnableIsRecorded BY DEF PkgInv
  <1> QED BY <1>1, PkgInitInv, PkgStepInv, PTL DEF Spec

\* An operation on one package keeps the record, the binary and the command of
\* every other, wherever the copy or the save stops (pkg.c:52-66, 83-176).
THEOREM OthersUntouched == Spec => OtherPackagesKept
  <1>1. PkgInv /\ [Next]_vars => [OthersKept]_vars
    <2> SUFFICES ASSUME PkgInv, Next PROVE OthersKept
      BY DEF vars
    <2>1. CASE db' = db /\ bin' = bin /\ last'.op = "restart" BY <2>1 DEF OthersKept
    <2>2. ASSUME NEW name \in Names, Touches(name) PROVE OthersKept
      <3> SUFFICES ASSUME NEW n \in OnVfs \ {name}
                   PROVE  /\ "load" \notin faults => RecordsOf(db, n) = RecordsOf(db', n)
                          /\ bin'[n] = bin[n]
                          /\ n \in dyn' <=> n \in dyn
        BY Zenon, <2>2 DEF OthersKept, Touches, RecordsOf
      <3>1. "load" \notin faults => RecordsOf(db, n) = RecordsOf(db', n) BY <2>2 DEF Touches, Keeps
      <3>2. bin'[n] = bin[n] BY <2>2 DEF Touches
      <3>3. n \in dyn' <=> n \in dyn BY <2>2 DEF Touches
      <3> QED BY <3>1, <3>2, <3>3
    <2> QED BY <2>1, <2>2, StepTouches
  <1> QED BY <1>1, PkgInitInv, PkgStepInv, PTL DEF Spec, OtherPackagesKept

-----------------------------------------------------------------------------
(* What is runnable is intact, when no driver fails.                       *)

\* A file after the whole of a program was copied over it.
LEMMA CopiedWhole ==
  ASSUME NEW p \in Programs, NEW old, Len(old) \in Nat
  PROVE  /\ SubSeq(Overlay(old, p, Len(p)), 1, Len(p)) = p
         /\ Len(Overlay(old, p, Len(p))) \in Nat
  <1> DEFINE n == Len(p)
             S == {p[y] : y \in DOMAIN p}
             top == Max2(Len(old), n)
             T == {old[y] : y \in 1 .. Len(old)} \cup S
             o == Overlay(old, p, n)
             q == SubSeq(o, 1, n)
  <1>1. p \in Seq(S) BY Zenon, PkgAssumption
  <1>2. n \in Nat /\ DOMAIN p = 1 .. n
    <2> HIDE DEF S
    <2> QED BY <1>1
  <1>3. o = [y \in 1 .. top |-> IF y <= n THEN p[y] ELSE old[y]] BY Zenon DEF Overlay
  <1>4. top \in Nat /\ n <= top BY <1>2 DEF Max2
  <1>5. ASSUME NEW y \in 1 .. top PROVE o[y] \in T
    <2>1. CASE y <= n
      <3>1. y \in 1 .. n BY <2>1, <1>2, <1>4
      <3> QED BY Zenon, <1>2, <1>3, <2>1, <3>1
    <2>2. CASE ~(y <= n)
      <3>1. y \in 1 .. Len(old) BY <2>2, <1>2 DEF Max2
      <3> QED BY Zenon, <1>3, <2>2, <3>1
    <2> QED BY Zenon, <2>1, <2>2
  <1>6. o \in [1 .. top -> T] BY Zenon, <1>3, <1>5
  <1>7. \A y \in 1 .. n : y \in 1 .. top /\ y <= n BY <1>2, <1>4
  <1>8. \A y \in 1 .. n : o[y] = p[y] BY Zenon, <1>3, <1>7
  <1> HIDE DEF o, top, T, n, S
  <1>9. o \in Seq(T) /\ Len(o) = top BY <1>4, <1>6
  <1>10. q \in Seq(T) /\ Len(q) = n /\ \A y \in 1 .. n : q[y] = o[y]
    BY <1>2, <1>4, <1>9
  <1>11. q = [y \in 1 .. n |-> q[y]] /\ p = [y \in 1 .. n |-> p[y]]
    <2>1. q = [y \in 1 .. Len(q) |-> q[y]] BY <1>10
    <2>2. p = [y \in 1 .. Len(p) |-> p[y]] BY <1>1
    <2> QED BY Zenon, <1>10, <2>1, <2>2 DEF n
  <1>12. q = p BY Zenon, <1>8, <1>10, <1>11
  <1> QED BY Zenon, <1>4, <1>9, <1>12 DEF o, n

\* Without faults a copy is whole, and so is a save.
LEMMA NoFaultCopy ==
  ASSUME faults = {}, NEW p, NEW c \in CopyFile(p) PROVE c.total = Len(p) /\ c.fault = "none"
  <1>1. c = [total |-> Len(p), fault |-> "none"] BY DEF CopyFile
  <1> QED BY <1>1

LEMMA NoFaultSave ==
  ASSUME faults = {}, NEW w, NEW s \in DbSave(w) PROVE s.db = Overlay(db, w, Len(w))
  <1>1. s = [db |-> Overlay(db, w, Len(w)), fault |-> "none"] BY Zenon DEF DbSave
  <1> QED BY <1>1

\* The binary of n is a program up to the size of the record d finds.
Intact(d, b, n) == \A r \in RecordsOf(d, n) : SubSeq(b[n], 1, r.size) \in Programs

IntactInv ==
  faults = {} => (\A n \in OnVfs : Len(bin[n]) \in Nat) /\ \A n \in dyn : Intact(db, bin, n)

LEMMA IntactImplies == PkgInv /\ IntactInv => RunnableIsIntact
  BY Zenon DEF PkgInv, IntactInv, Intact, RecordsOf, RunnableIsIntact

\* After a save of the records with the one of name replaced.
LEMMA ReplacedIs ==
  ASSUME PkgInv, faults = {}, NEW name \in OnVfs, NEW rec \in Rec, rec.name = name,
         NEW s \in DbSave([y \in DOMAIN db |-> IF y \in Find(db, name) THEN rec ELSE db[y]]),
         NEW r \in RecordsOf(s.db, name)
  PROVE  r = rec
  <1> DEFINE w == [y \in DOMAIN db |-> IF y \in Find(db, name) THEN rec ELSE db[y]]
             o == s.db
             m == Len(db)
  <1>1. db \in Seq(Rec) /\ m \in Nat /\ DOMAIN db = 1 .. m BY DEF PkgInv
  <1>2. \A k \in 1 .. m : k \in Find(db, name) => db[k].name = name BY Zenon DEF Find
  <1>3. \A k \in 1 .. m : db[k] \in Rec BY <1>1
  <1>4. w \in [1 .. m -> Rec] BY Zenon, <1>1, <1>3
  <1>5. \A k \in 1 .. m : w[k] = IF k \in Find(db, name) THEN rec ELSE db[k] BY Zenon, <1>1
  <1> HIDE DEF w
  <1>6. w \in Seq(Rec) /\ Len(w) = m BY <1>1, <1>4
  <1>7. o = Overlay(db, w, m) BY Zenon, <1>6, NoFaultSave DEF w
  <1>8. m \in 0 .. Len(w) /\ ~(m < m) BY <1>1, <1>6
  <1>9. o \in Seq(Rec) /\ Len(o) = m /\ \A k \in 1 .. m : o[k] = IF k <= m THEN w[k] ELSE db[k]
    <2>1. o \in Seq(Rec) /\ Len(o) = (IF Len(db) < m THEN m ELSE Len(db))
          /\ \A k \in 1 .. Len(o) : o[k] = IF k <= m THEN w[k] ELSE db[k]
      <3>1. db \in Seq(Rec) /\ w \in Seq(Rec) /\ m \in 0 .. Len(w) /\ o = Overlay(db, w, m)
        BY Zenon, <1>1, <1>6, <1>7, <1>8
      <3> HIDE DEF o, m
      <3> QED BY ONLY <3>1, OverlayType
    <2>2. Len(o) = m BY Zenon, <2>1, <1>8
    <2> QED BY Zenon, <2>1, <2>2
  <1>10. \A k \in 1 .. m : k <= m BY <1>1
  <1>11. \A k \in 1 .. m : o[k] = w[k] /\ o[k].name = db[k].name BY Zenon, <1>2, <1>5, <1>9, <1>10
  <1> HIDE DEF o
  <1>12. PICK f \in 1 .. m : FirstAt(o, name, f, r) BY Zenon, <1>9, FoundIsFirst DEF o
  <1>13. db[f].name = name /\ \A j \in 1 .. f - 1 : db[j].name # name
    <2>1. \A j \in 1 .. f - 1 : j \in 1 .. m BY <1>1
    <2> QED BY Zenon, <1>11, <1>12, <2>1 DEF FirstAt
  <1>14. f \in Find(db, name) BY Zenon, <1>1, <1>13 DEF Find
  <1> QED BY Zenon, <1>5, <1>11, <1>12, <1>14 DEF FirstAt

\* After a save of the records with a new one of name behind them.
LEMMA AppendedIs ==
  ASSUME PkgInv, faults = {}, NEW name \in OnVfs, NEW rec \in Rec, Find(db, name) = {},
         NEW s \in DbSave(Append(db, rec)), NEW r \in RecordsOf(s.db, name)
  PROVE  r = rec
  <1> DEFINE w == Append(db, rec)
             o == s.db
             m == Len(db)
  <1>1. db \in Seq(Rec) /\ m \in Nat BY DEF PkgInv
  <1>2. w \in Seq(Rec) /\ Len(w) = m + 1 /\ w[m + 1] = rec /\ \A k \in 1 .. m : w[k] = db[k] BY <1>1
  <1>3. o = Overlay(db, w, m + 1) BY Zenon, <1>2, NoFaultSave
  <1> HIDE DEF w
  <1>4. m + 1 \in 0 .. Len(w) /\ m < m + 1 BY <1>1, <1>2
  <1>5. o \in Seq(Rec) /\ Len(o) = m + 1 /\ \A k \in 1 .. m + 1 : o[k] = IF k <= m + 1 THEN w[k] ELSE db[k]
    <2> HIDE DEF o
    <2> QED BY ZenonT(60), <1>1, <1>2, <1>3, <1>4, OverlayType DEF m
  <1> HIDE DEF o
  <1>6. PICK f \in 1 .. m + 1 : FirstAt(o, name, f, r) BY Zenon, <1>5, FoundIsFirst DEF o
  <1>7. f <= m + 1 /\ (f \in 1 .. m \/ f = m + 1) BY <1>1
  <1>8. CASE f = m + 1 BY Zenon, <1>2, <1>5, <1>6, <1>7, <1>8 DEF FirstAt
  <1>9. CASE f \in 1 .. m
    <2>1. \A j \in 1 .. f - 1 : j \in 1 .. m /\ j \in 1 .. m + 1 /\ j <= m + 1 BY <1>1, <1>9
    <2>2. db[f].name = name /\ \A j \in 1 .. f - 1 : db[j].name # name
      BY Zenon, <1>2, <1>5, <1>6, <1>7, <1>9, <2>1 DEF FirstAt
    <2>3. f \in DOMAIN db BY <1>1, <1>9
    <2> QED BY Zenon, <2>2, <2>3 DEF Find
  <1> QED BY Zenon, <1>7, <1>8, <1>9

\* Without faults db_load reads every record.
LEMMA NoFaultLoad == ASSUME PkgInv, faults = {}, NEW e \in DbLoad PROVE e = db
  BY Zenon, LoadIs

\* A command that was copied and recorded whole.
LEMMA RecordedWhole ==
  ASSUME PkgInv, IntactInv, faults = {}, NEW name \in OnVfs, NEW p \in Programs, NEW c \in CopyFile(p),
         bin' = [bin EXCEPT ![name] = Overlay(@, p, c.total)], NEW rec, rec.size = c.total,
         \A r \in RecordsOf(db', name) : r = rec
  PROVE  Intact(db', bin', name)
  <1>1. c.total = Len(p) BY Zenon, NoFaultCopy
  <1>2. bin'[name] = Overlay(bin[name], p, Len(p)) BY Zenon, <1>1 DEF PkgInv
  <1>3. Len(bin[name]) \in Nat BY Zenon DEF IntactInv
  <1>4. SubSeq(bin'[name], 1, Len(p)) = p BY Zenon, <1>2, <1>3, CopiedWhole
  <1> QED BY Zenon, <1>1, <1>4 DEF Intact

\* The lengths after a copy.
LEMMA LengthsCopied ==
  ASSUME PkgInv, IntactInv, faults = {}, NEW name \in OnVfs, NEW p \in Programs, NEW c \in CopyFile(p),
         bin' = [bin EXCEPT ![name] = Overlay(@, p, c.total)]
  PROVE  Len(bin'[name]) \in Nat
  <1>1. c.total = Len(p) BY Zenon, NoFaultCopy
  <1>2. bin'[name] = Overlay(bin[name], p, Len(p)) BY Zenon, <1>1 DEF PkgInv
  <1>3. Len(bin[name]) \in Nat BY Zenon DEF IntactInv
  <1> QED BY Zenon, <1>2, <1>3, CopiedWhole

\* What an operation leaves of its own package: a binary of some length that
\* is, if the command is registered, the program its record was written for.
Fresh(name) ==
  /\ name \in OnVfs => Len(bin'[name]) \in Nat
  /\ name \in dyn' => Intact(db', bin', name)

LEMMA QuietFresh ==
  ASSUME PkgInv, IntactInv, faults = {}, NEW name, UNCHANGED <<db, bin, dyn>> PROVE Fresh(name)
  <1>1. db' = db /\ bin' = bin /\ dyn' = dyn BY Zenon
  <1> QED BY Zenon, <1>1 DEF IntactInv, Fresh

LEMMA RefuseFresh ==
  ASSUME PkgInv, IntactInv, faults = {}, NEW name, NEW op, Refuse(op, name) PROVE Fresh(name)
  BY QuietFresh DEF Refuse

LEMMA InstallFresh ==
  ASSUME PkgInv, IntactInv, faults = {}, NEW name \in Names, NEW p \in Programs, PkgInstall(name, p)
  PROVE  Fresh(name)
  <1>1. CASE name \notin OnVfs BY Zenon, <1>1, RefuseFresh DEF PkgInstall
  <1>2. CASE name \in OnVfs
    <2>1. PICK c \in CopyFile(p), e \in DbLoad :
            LET found  == Find(e, name)
                record == [name |-> name, size |-> c.total]
            IN  /\ bin' = [bin EXCEPT ![name] = Overlay(@, p, c.total)]
                /\ \/ c.fault = "write"
                   \/ RecordAgain(name, [y \in DOMAIN e |-> IF y \in found THEN record ELSE e[y]], c.fault)
                   \/ found = {} /\ FailedCopy("install", name, c.fault)
                   \/ found = {} /\ Record("install", name, Append(e, record), c.fault)
      BY ZenonT(60), <1>2 DEF PkgInstall
    <2> DEFINE found == Find(db, name)
               record == [name |-> name, size |-> c.total]
               w == [y \in DOMAIN db |-> IF y \in found THEN record ELSE db[y]]
    <2>2. e = db BY Zenon, NoFaultLoad
    <2>3. record \in Rec /\ record.name = name /\ record.size = c.total BY <1>2, CopyTotal DEF Rec
    <2> HIDE DEF record
    <2>4. c.fault # "write"
      <3>1. c.fault = "none" BY Zenon, NoFaultCopy
      <3> QED BY <3>1
    <2>5. name \in OnVfs => Len(bin'[name]) \in Nat BY Zenon, <1>2, <2>1, LengthsCopied
    <2>6. CASE RecordAgain(name, w, c.fault)
      <3>1. PICK s \in DbSave(w) : db' = s.db BY Zenon, <2>6 DEF RecordAgain
      <3>2. \A r \in RecordsOf(db', name) : r = record BY Zenon, <1>2, <2>3, <3>1, ReplacedIs
      <3> QED BY Zenon, <1>2, <2>1, <2>3, <2>5, <3>2, RecordedWhole DEF Fresh
    <2>7. CASE found = {} /\ FailedCopy("install", name, c.fault)
      <3>1. RecordsOf(db', name) = {} BY Zenon, <2>7 DEF FailedCopy, RecordsOf
      <3> QED BY Zenon, <2>5, <3>1 DEF Fresh, Intact
    <2>8. CASE found = {} /\ Record("install", name, Append(db, record), c.fault)
      <3>1. PICK s \in DbSave(Append(db, record)) : db' = s.db BY Zenon, <2>8 DEF Record
      <3>2. \A r \in RecordsOf(db', name) : r = record BY Zenon, <1>2, <2>3, <2>8, <3>1, AppendedIs
      <3> QED BY Zenon, <1>2, <2>1, <2>3, <2>5, <3>2, RecordedWhole DEF Fresh
    <2> QED BY Zenon, <2>1, <2>2, <2>4, <2>6, <2>7, <2>8 DEF record
  <1> QED BY <1>1, <1>2

LEMMA UpdateFresh ==
  ASSUME PkgInv, IntactInv, faults = {}, NEW name \in Names, NEW p \in Programs, PkgUpdate(name, p)
  PROVE  Fresh(name)
  <1>1. PICK e \in DbLoad :
          \/ Refuse("update", name)
          \/ /\ name \in OnVfs
             /\ \E c \in CopyFile(p) :
                  LET record == [name |-> name, size |-> c.total]
                  IN  /\ bin' = [bin EXCEPT ![name] = Overlay(@, p, c.total)]
                      /\ \/ c.fault = "write"
                         \/ Record("update", name,
                                [y \in DOMAIN e |-> IF y \in Find(e, name) THEN record ELSE e[y]], c.fault)
    BY Zenon DEF PkgUpdate
  <1>2. CASE Refuse("update", name) BY Zenon, <1>2, RefuseFresh
  <1>3. CASE ~Refuse("update", name)
    <2>1. name \in OnVfs BY Zenon, <1>1, <1>3
    <2>2. PICK c \in CopyFile(p) :
                  LET record == [name |-> name, size |-> c.total]
                  IN  /\ bin' = [bin EXCEPT ![name] = Overlay(@, p, c.total)]
                      /\ \/ c.fault = "write"
                         \/ Record("update", name,
                                [y \in DOMAIN e |-> IF y \in Find(e, name) THEN record ELSE e[y]], c.fault)
      BY Zenon, <1>1, <1>3
    <2> DEFINE record == [name |-> name, size |-> c.total]
               w == [y \in DOMAIN db |-> IF y \in Find(db, name) THEN record ELSE db[y]]
    <2>3. e = db BY Zenon, NoFaultLoad
    <2>4. record \in Rec /\ record.name = name /\ record.size = c.total BY <2>1, CopyTotal DEF Rec
    <2> HIDE DEF record
    <2>5. c.fault # "write"
      <3>1. c.fault = "none" BY Zenon, NoFaultCopy
      <3> QED BY <3>1
    <2>6. Record("update", name, w, c.fault) BY Zenon, <2>2, <2>3, <2>5 DEF record
    <2>7. PICK s \in DbSave(w) : db' = s.db BY Zenon, <2>6 DEF Record
    <2>8. \A r \in RecordsOf(db', name) : r = record BY Zenon, <2>1, <2>4, <2>7, ReplacedIs
    <2>9. Intact(db', bin', name) BY Zenon, <2>1, <2>2, <2>4, <2>8, RecordedWhole
    <2>10. Len(bin'[name]) \in Nat BY Zenon, <2>1, <2>2, LengthsCopied
    <2> QED BY Zenon, <2>9, <2>10 DEF Fresh
  <1> QED BY <1>2, <1>3

LEMMA RemoveFresh ==
  ASSUME PkgInv, IntactInv, faults = {}, NEW name \in Names, PkgRemove(name) PROVE Fresh(name)
  <1>1. Refuse("remove", name) \/ (dyn' = dyn \ {name} /\ bin' = bin) BY Zenon DEF PkgRemove
  <1>2. CASE Refuse("remove", name) BY Zenon, <1>2, RefuseFresh
  <1>3. CASE dyn' = dyn \ {name} /\ bin' = bin
    <2>1. name \notin dyn' BY Zenon, <1>3
    <2> QED BY Zenon, <1>3, <2>1 DEF Fresh, IntactInv
  <1> QED BY Zenon, <1>1, <1>2, <1>3

LEMMA StepFresh ==
  ASSUME PkgInv, IntactInv, faults = {}, Next
  PROVE  \/ \E name \in Names : Touches(name) /\ Fresh(name)
         \/ db' = db /\ bin' = bin /\ dyn' = {}
  <1>1. faults' = faults BY Zenon DEF Next
  <1>2. ASSUME NEW name \in Names, NEW p \in Programs, PkgInstall(name, p) \/ PkgUpdate(name, p)
        PROVE  Touches(name) /\ Fresh(name)
    BY Zenon, <1>1, <1>2, InstallTouches, UpdateTouches, InstallFresh, UpdateFresh
  <1>3. ASSUME NEW name \in Names, NEW op, NoSource(op, name) PROVE Touches(name) /\ Fresh(name)
    BY Zenon, <1>1, <1>3, RefuseTouches, RefuseFresh DEF NoSource
  <1>4. ASSUME NEW name \in Names, PkgRemove(name) PROVE Touches(name) /\ Fresh(name)
    BY Zenon, <1>1, <1>4, RemoveTouches, RemoveFresh
  <1>5. CASE Restart BY Zenon, <1>5 DEF Restart
  <1> QED BY Zenon, <1>2, <1>3, <1>4, <1>5 DEF Next

LEMMA IntactInit == Init => IntactInv
  <1> SUFFICES ASSUME Init PROVE IntactInv
    OBVIOUS
  <1>1. Len(<<>>) \in Nat OBVIOUS
  <1>2. dyn = {} /\ \A n \in OnVfs : bin[n] = <<>> BY Zenon DEF Init
  <1> QED BY Zenon, <1>1, <1>2 DEF IntactInv

LEMMA IntactStep == PkgInv /\ IntactInv /\ [Next]_vars => IntactInv'
  <1> SUFFICES ASSUME PkgInv, IntactInv, [Next]_vars PROVE IntactInv'
    OBVIOUS
  <1>1. CASE UNCHANGED vars
    <2>1. db' = db /\ bin' = bin /\ dyn' = dyn /\ faults' = faults BY Zenon, <1>1 DEF vars
    <2> QED BY Zenon, <2>1 DEF IntactInv, Intact
  <1>2. CASE Next
    <2>1. faults' = faults BY Zenon, <1>2 DEF Next
    <2> SUFFICES ASSUME faults = {}
                 PROVE  (\A n \in OnVfs : Len(bin'[n]) \in Nat) /\ \A n \in dyn' : Intact(db', bin', n)
      BY Zenon, <2>1 DEF IntactInv, Intact
    <2>2. CASE db' = db /\ bin' = bin /\ dyn' = {} BY Zenon, <2>2 DEF IntactInv
    <2>3. ASSUME NEW name \in Names, Touches(name), Fresh(name)
          PROVE  (\A n \in OnVfs : Len(bin'[n]) \in Nat) /\ \A n \in dyn' : Intact(db', bin', n)
      <3>1. \A n \in OnVfs : Len(bin'[n]) \in Nat BY Zenon, <2>3 DEF Touches, Fresh, IntactInv
      <3>2. ASSUME NEW n \in dyn', n # name PROVE Intact(db', bin', n)
        <4>1. n \in dyn /\ n \in OnVfs BY Zenon, <2>3, <3>2 DEF Touches, PkgInv
        <4>2. bin'[n] = bin[n] BY Zenon, <2>3, <3>2, <4>1 DEF Touches
        <4>3. RecordsOf(db', n) = RecordsOf(db, n) BY Zenon, <2>3, <3>2, <4>1 DEF Touches, Keeps
        <4> QED BY Zenon, <4>1, <4>2, <4>3 DEF Intact, IntactInv
      <3> QED BY Zenon, <2>3, <3>1, <3>2 DEF Fresh
    <2> QED BY Zenon, <1>2, <2>2, <2>3, StepFresh
  <1> QED BY <1>1, <1>2

\* As long as no driver fails, the binary of every command the shell can run is
\* an intact program up to its recorded size, whatever was installed, updated
\* and removed before: copy_file overwrites from the front and the record is
\* written with the total it copied (pkg.c:70-126, 130-154).
THEOREM RunnableIntact == Spec => []RunnableIsIntact
  <1> QED BY PkgInitInv, PkgStepInv, IntactInit, IntactStep, IntactImplies, PTL DEF Spec

-----------------------------------------------------------------------------
(* The FAT32 volume that is mounted.                                       *)

\* No volume reaches the last block number.
VolumesFit == \A bs \in BootSectors : Layout(bs).data \in 0 .. LBA_WORD - 1

\* What is mounted is what one boot sector says, all of it.
MountedFrom(ctx, from) ==
  \/ ctx = NotMounted
  \/ /\ ctx.mounted = TRUE /\ ctx.fat_begin = Layout(from).fat /\ ctx.cluster_begin = Layout(from).data
     /\ ctx.root = from.root

State(s, d, c, f) == [sector |-> s, device |-> d, ctx |-> c, from |-> f]

Sound(s, d, c, f) ==
  /\ s = [dev \in Devices |-> s[dev]] /\ \A dev \in Devices : s[dev] \in BootSectors
  /\ d \in Devices \cup {NoDevice}
  /\ MountedFrom(c, f)

FatInv ==
  /\ fat = State(fat.sector, fat.device, fat.ctx, fat.from)
  /\ Sound(fat.sector, fat.device, fat.ctx, fat.from)

LEMMA SoundState ==
  ASSUME NEW s, NEW d, NEW c, NEW f, fat' = State(s, d, c, f), Sound(s, d, c, f)
  PROVE  FatInv' /\ fat'.ctx = c /\ fat'.from = f
  <1>1. fat'.sector = s /\ fat'.device = d /\ fat'.ctx = c /\ fat'.from = f BY DEF State
  <1>2. fat' = State(fat'.sector, fat'.device, fat'.ctx, fat'.from) BY Zenon, <1>1
  <1>3. Sound(fat'.sector, fat'.device, fat'.ctx, fat'.from) BY Zenon, <1>1
  <1> QED BY Zenon, <1>1, <1>2, <1>3 DEF FatInv

LEMMA GeometryIs ==
  ASSUME VolumesFit, NEW d, NEW bs \in BootSectors PROVE MountedFrom(Geometry(d, bs), bs)
  <1> DEFINE g == Geometry(d, bs)
             n == bs.reserved + bs.fats * bs.spf
  <1>1. /\ g.mounted = TRUE /\ g.fat_begin = bs.reserved /\ g.root = bs.root /\ g.cluster_begin = n % LBA_WORD
        /\ Layout(bs).fat = bs.reserved /\ Layout(bs).data = n
    BY Zenon DEF Geometry, Layout
  <1>2. n \in 0 .. LBA_WORD - 1 BY Zenon, <1>1 DEF VolumesFit
  <1> HIDE DEF n, g
  <1>3. n % LBA_WORD = n BY <1>2, Fat32Assumption
  <1> QED BY Zenon, <1>1, <1>3 DEF MountedFrom, g

\* A step changes one thing: the device, the medium, or the volume mounted.
LEMMA FatSteps ==
  ASSUME VolumesFit, FatInv, Fat32Next
  PROVE  /\ FatInv'
         /\ \/ fat'.ctx = fat.ctx /\ fat'.from = fat.from
            \/ /\ fat.sector[fat.device].bps = 512 /\ fat'.from = fat.sector[fat.device]
               /\ fat'.ctx = Geometry(fat.device, fat.sector[fat.device])
  <1>1. fat = [sector |-> fat.sector, device |-> fat.device, ctx |-> fat.ctx, from |-> fat.from]
    BY Zenon DEF FatInv, State
  <1>2. Sound(fat.sector, fat.device, fat.ctx, fat.from) BY Zenon DEF FatInv
  <1>3. ASSUME NEW d \in Devices, Fat32SetDevice(d) PROVE FatInv' /\ fat'.ctx = fat.ctx /\ fat'.from = fat.from
    <2>1. fat' = State(fat.sector, d, fat.ctx, fat.from) BY Zenon, <1>1, <1>3 DEF Fat32SetDevice, State
    <2>2. Sound(fat.sector, d, fat.ctx, fat.from) BY Zenon, <1>2 DEF Sound
    <2> QED BY Zenon, <2>1, <2>2, SoundState
  <1>4. ASSUME NEW d \in Devices, NEW bs \in BootSectors, NewMedium(d, bs)
        PROVE  FatInv' /\ fat'.ctx = fat.ctx /\ fat'.from = fat.from
    <2> DEFINE s == [fat.sector EXCEPT ![d] = bs]
    <2>1. fat' = State(s, fat.device, fat.ctx, fat.from) BY Zenon, <1>1, <1>4 DEF NewMedium, State
    <2>2. fat.sector = [dev \in Devices |-> fat.sector[dev]] /\ \A dev \in Devices : fat.sector[dev] \in BootSectors
      BY Zenon, <1>2 DEF Sound
    <2>3. s = [dev \in Devices |-> s[dev]] /\ \A dev \in Devices : s[dev] \in BootSectors BY Zenon, <2>2
    <2> HIDE DEF s
    <2>4. Sound(s, fat.device, fat.ctx, fat.from) BY Zenon, <1>2, <2>3 DEF Sound
    <2> QED BY Zenon, <2>1, <2>4, SoundState
  <1>5. ASSUME NEW r \in BOOLEAN, Fat32Mount(r)
        PROVE  /\ FatInv'
               /\ \/ fat'.ctx = fat.ctx /\ fat'.from = fat.from
                  \/ /\ fat.sector[fat.device].bps = 512 /\ fat'.from = fat.sector[fat.device]
                     /\ fat'.ctx = Geometry(fat.device, fat.sector[fat.device])
    <2> DEFINE bs == fat.sector[fat.device]
    <2>1. CASE fat' = fat
      <3>1. fat' = State(fat.sector, fat.device, fat.ctx, fat.from) BY Zenon, <2>1 DEF FatInv
      <3> QED BY Zenon, <1>2, <3>1, SoundState
    <2>2. CASE ~(fat.device = NoDevice \/ ~r \/ bs.bps # 512)
      <3> DEFINE g == Geometry(fat.device, bs)
      <3>6. fat' = [fat EXCEPT !.ctx = g, !.from = bs] BY Zenon, <1>5, <2>2 DEF Fat32Mount
      <3> HIDE DEF g, bs
      <3>1. fat' = State(fat.sector, fat.device, g, bs) BY Zenon, <1>1, <3>6 DEF State
      <3> USE DEF g
      <3>2. bs \in BootSectors
        <4>1. fat.device # NoDevice /\ fat.device \in Devices \cup {NoDevice} BY Zenon, <1>2, <2>2 DEF Sound
        <4>2. fat.device \in Devices BY Zenon, <4>1
        <4> QED BY Zenon, <1>2, <4>2 DEF Sound, bs
      <3>3. MountedFrom(Geometry(fat.device, bs), bs) BY Zenon, <3>2, GeometryIs
      <3>4. Sound(fat.sector, fat.device, Geometry(fat.device, bs), bs) BY Zenon, <1>2, <3>3 DEF Sound
      <3>5. FatInv' /\ fat'.ctx = Geometry(fat.device, bs) /\ fat'.from = bs BY Zenon, <3>1, <3>4, SoundState
      <3> QED BY Zenon, <2>2, <3>5 DEF bs
    <2> QED BY ZenonT(60), <1>5, <2>1, <2>2 DEF Fat32Mount
  <1> QED BY Zenon, <1>3, <1>4, <1>5 DEF Fat32Next

\* What fat32_get_ctx hands out is one volume, for any devices, any volumes that
\* fit the width of a block number, and any order of fat32_set_device, changes
\* of medium and mounts that fail or succeed (core.c:21-62).
THEOREM VolumeIsOne == VolumesFit /\ Fat32Spec => ContextIsOneVolume
  <1> SUFFICES ASSUME VolumesFit PROVE Fat32Spec => ContextIsOneVolume
    OBVIOUS
  <1>1. Fat32Init => FatInv
    <2> SUFFICES ASSUME Fat32Init PROVE FatInv
      OBVIOUS
    <2>1. fat \in [sector : [Devices -> BootSectors], device : {NoDevice}, ctx : {NotMounted}, from : {NotMounted}]
      BY Zenon DEF Fat32Init
    <2>2. fat = [sector |-> fat.sector, device |-> fat.device, ctx |-> fat.ctx, from |-> fat.from] BY <2>1
    <2>3. fat.sector \in [Devices -> BootSectors] /\ fat.device = NoDevice /\ fat.ctx = NotMounted BY Zenon, <2>1
    <2>4. fat.sector = [d \in Devices |-> fat.sector[d]] /\ \A d \in Devices : fat.sector[d] \in BootSectors
      BY Zenon, <2>3
    <2> QED BY Zenon, <2>2, <2>3, <2>4 DEF FatInv, MountedFrom, State, Sound
  <1>2. FatInv /\ [Fat32Next]_fat => FatInv'
    <2>1. FatInv /\ Fat32Next => FatInv' BY Zenon, FatSteps
    <2>2. FatInv /\ UNCHANGED fat => FatInv' BY Zenon DEF FatInv
    <2> QED BY Zenon, <2>1, <2>2
  <1>3. FatInv /\ FatInv' /\ [Fat32Next]_fat => [OneVolume]_fat
    <2> SUFFICES ASSUME FatInv, FatInv', Fat32Next PROVE OneVolume
      BY Zenon
    <2>1. NotMounted.mounted = FALSE BY DEF NotMounted
    <2>2. \/ fat'.ctx = fat.ctx
          \/ /\ fat.sector[fat.device].bps = 512 /\ fat'.from = fat.sector[fat.device]
             /\ fat'.ctx = Geometry(fat.device, fat.sector[fat.device])
      BY Zenon, FatSteps
    <2>3. fat'.ctx.mounted =>
            /\ fat'.ctx.fat_begin = Layout(fat'.from).fat
            /\ fat'.ctx.cluster_begin = Layout(fat'.from).data
            /\ fat'.ctx.root = fat'.from.root
      BY Zenon, <2>1 DEF FatInv, MountedFrom, Sound
    <2>4. \A d, bs : Geometry(d, bs).mounted = TRUE /\ Geometry(d, bs).dev = d BY Zenon DEF Geometry
    <2>5. fat.ctx.mounted => fat'.ctx.mounted BY <2>2, <2>4
    <2>6. fat'.ctx # fat.ctx =>
            fat'.ctx.dev = fat.device /\ fat'.from = fat.sector[fat.device] /\ fat'.from.bps = 512
      BY <2>2, <2>4
    <2> QED BY Zenon, <2>3, <2>5, <2>6 DEF OneVolume
  <1> QED BY <1>1, <1>2, <1>3, PTL DEF Fat32Spec, ContextIsOneVolume

-----------------------------------------------------------------------------
(* Arithmetic on addresses.                                                *)

\* A difference of two addresses, reduced to an address.
LEMMA Distance ==
  ASSUME NEW a \in Byte, NEW v \in Byte
  PROVE  (a - v) % UINT32 = IF v <= a THEN a - v ELSE a - v + UINT32
  <1>1. UINT32 \in Nat \ {0} BY ElfAssumption
  <1> DEFINE x == a - v
             r == x % UINT32
             q == x \div UINT32
  <1>2. x \in Int /\ -UINT32 < x /\ x < UINT32 /\ (v <= a <=> x >= 0) BY <1>1 DEF Byte
  <1> HIDE DEF x
  <1>3. r \in 0 .. UINT32 - 1 /\ q \in Int /\ x = UINT32 * q + r
    <2>1. r \in 0 .. UINT32 - 1 BY <1>1, <1>2
    <2>2. q \in Int BY <1>1, <1>2
    <2>3. x = UINT32 * q + r BY <1>1, <1>2
    <2> QED BY <2>1, <2>2, <2>3
  <1> HIDE DEF q, r
  <1>4. q < 1 BY <1>1, <1>2, <1>3
  <1>5. q > -2 BY <1>1, <1>2, <1>3
  <1>6. q = 0 \/ q = -1 BY <1>3, <1>4, <1>5
  <1>7. r = IF x >= 0 THEN x ELSE x + UINT32 BY <1>1, <1>2, <1>3, <1>6
  <1> QED BY <1>2, <1>7 DEF r, x

\* What is below UINT32 is not reduced.
LEMMA Small == ASSUME NEW n \in Nat, n < UINT32 PROVE n % UINT32 = n
  BY ElfAssumption

\* An address and a length.
LEMMA Sums == \A p, q \in Nat : p + q \in Nat /\ p <= p + q
  OBVIOUS

-----------------------------------------------------------------------------
(* One segment in memory.                                                  *)

\* The byte that a segment puts at an address it covers.
Content(ph, a) == IF a < ph.vaddr + ph.filesz THEN ph.offset + (a - ph.vaddr) ELSE ZERO

LEMMA PhdrFields ==
  ASSUME NEW ph \in Phdr
  PROVE  /\ ph.offset \in Nat /\ ph.filesz \in Nat /\ ph.vaddr \in Nat /\ ph.memsz \in Nat
         /\ ph.vaddr \in Byte /\ ph.offset \in Byte
  BY ElfAssumption DEF Phdr, Byte

LEMMA PlacedIs ==
  ASSUME NEW ph \in Phdr, NEW m, NEW a \in Byte,
         ph.vaddr + ph.memsz < UINT32, ph.offset + ph.filesz < UINT32, ph.filesz <= ph.memsz
  PROVE  Placed(m, ph)[a] = IF Covers(ph, a) THEN Content(ph, a) ELSE m[a]
  <1> DEFINE d == (a - ph.vaddr) % UINT32
             v == ph.vaddr
             z == ph.memsz
             f == ph.filesz
             o == ph.offset
  <1>0. UINT32 \in Nat \ {0} BY ElfAssumption
  <1>1. o \in Nat /\ f \in Nat /\ v \in Nat /\ z \in Nat /\ v \in Byte BY PhdrFields
  <1>2. Placed(m, ph)[a] = IF d < f THEN (o + d) % UINT32 ELSE IF d < z THEN ZERO ELSE m[a] BY Zenon DEF Placed
  <1>3. d = IF v <= a THEN a - v ELSE a - v + UINT32 BY Zenon, <1>1, Distance
  <1>4. v + z < UINT32 /\ o + f < UINT32 /\ f <= z OBVIOUS
  <1>5. Covers(ph, a) <=> v <= a /\ a < v + z BY Zenon DEF Covers
  <1>6. Content(ph, a) = IF a < v + f THEN o + (a - v) ELSE ZERO BY Zenon DEF Content
  <1>7. a \in Nat /\ a < UINT32 BY <1>0 DEF Byte
  <1> HIDE DEF d, v, z, f, o
  <1>8. CASE Covers(ph, a)
    <2>1. d = a - v /\ d \in Nat /\ d < z /\ (d < f <=> a < v + f) BY <1>1, <1>3, <1>5, <1>7, <1>8
    <2>2. CASE d < f
      <3>1. o + d \in Nat /\ o + d < UINT32 BY <1>0, <1>1, <1>4, <2>1, <2>2
      <3>2. (o + d) % UINT32 = o + d BY <3>1, Small
      <3> QED BY Zenon, <1>2, <1>6, <1>8, <2>1, <2>2, <3>2
    <2>3. CASE ~(d < f) BY Zenon, <1>2, <1>6, <1>8, <2>1, <2>3
    <2> QED BY Zenon, <2>2, <2>3
  <1>9. CASE ~Covers(ph, a)
    <2>1. ~(d < z) /\ ~(d < f) BY <1>0, <1>1, <1>3, <1>4, <1>5, <1>7, <1>9
    <2> QED BY Zenon, <1>2, <1>9, <2>1
  <1> QED BY Zenon, <1>8, <1>9

-----------------------------------------------------------------------------
(* What the headers of an image say.                                       *)

\* The segments among the first k headers, those that cover an address, what the
\* last one of a set puts there, and so what the first k headers say.
Upto(im, k) == Loads(im) \cap (1 .. k)
Over(im, a, k) == {n \in Loads(im) \cap (1 .. k) : Covers(im.phdrs[n], a)}
LastOf(im, a, over) ==
    IF over = {} THEN OLD ELSE Content(im.phdrs[CHOOSE n \in over : \A m \in over : m <= n], a)
Said(im, a, k) == LastOf(im, a, Over(im, a, k))

Fits(im) ==
    \A n \in Loads(im) :
        im.phdrs[n].vaddr + im.phdrs[n].memsz < UINT32 /\ im.phdrs[n].offset + im.phdrs[n].filesz < UINT32

LEMMA Handles ==
  ASSUME NEW im \in Images
  PROVE  /\ Len(im.phdrs) \in Nat /\ DOMAIN im.phdrs = 1 .. Len(im.phdrs) /\ im.size \in Nat
         /\ \A n \in 1 .. Len(im.phdrs) : im.phdrs[n] \in Phdr
         /\ Loads(im) \subseteq 1 .. Len(im.phdrs)
  <1>1. im.size \in Nat /\ im.phdrs \in Seq(Phdr) BY Zenon, ElfAssumption
  <1> DEFINE p == im.phdrs
  <1>2. p \in Seq(Phdr) BY Zenon, <1>1
  <1> HIDE DEF p
  <1>3. Len(p) \in Nat /\ DOMAIN p = 1 .. Len(p) /\ \A n \in 1 .. Len(p) : p[n] \in Phdr BY <1>2
  <1> QED BY Zenon, <1>1, <1>3 DEF p, Loads

\* The next header is one more segment, or none.
LEMMA UptoStep ==
  ASSUME NEW im \in Images, NEW k \in Nat, k + 1 \in 1 .. Len(im.phdrs)
  PROVE  Upto(im, k + 1) = IF im.phdrs[k + 1].type = PT_LOAD THEN Upto(im, k) \cup {k + 1} ELSE Upto(im, k)
  <1>1. \A n : n \in 1 .. k + 1 <=> n \in 1 .. k \/ n = k + 1 OBVIOUS
  <1>2. DOMAIN im.phdrs = 1 .. Len(im.phdrs) BY Zenon, Handles
  <1>3. k + 1 \in Loads(im) <=> im.phdrs[k + 1].type = PT_LOAD BY Zenon, <1>2 DEF Loads
  <1>4. CASE im.phdrs[k + 1].type = PT_LOAD
    <2>1. Upto(im, k + 1) = Upto(im, k) \cup {k + 1} BY Zenon, <1>1, <1>3, <1>4 DEF Upto
    <2> QED BY Zenon, <1>4, <2>1
  <1>5. CASE im.phdrs[k + 1].type # PT_LOAD
    <2>1. Upto(im, k + 1) = Upto(im, k) BY Zenon, <1>1, <1>3, <1>5 DEF Upto
    <2> QED BY Zenon, <1>5, <2>1
  <1> QED BY Zenon, <1>4, <1>5

\* A header that is no segment, or does not cover the address, changes nothing.
LEMMA SaidSame ==
  ASSUME NEW im \in Images, NEW a \in Byte, NEW k \in Nat, k + 1 \in 1 .. Len(im.phdrs),
         im.phdrs[k + 1].type # PT_LOAD \/ ~Covers(im.phdrs[k + 1], a)
  PROVE  Said(im, a, k + 1) = Said(im, a, k)
  <1>1. \A n : n \in 1 .. k + 1 <=> n \in 1 .. k \/ n = k + 1 OBVIOUS
  <1>2. k + 1 \notin Over(im, a, k + 1) BY Zenon DEF Over, Loads
  <1>3. Over(im, a, k + 1) = Over(im, a, k) BY Zenon, <1>1, <1>2 DEF Over
  <1> QED BY Zenon, <1>3 DEF Said

\* The last segment that covers an address says what is there.
LEMMA SaidLast ==
  ASSUME NEW im \in Images, NEW a \in Byte, NEW k \in Nat, k + 1 \in 1 .. Len(im.phdrs),
         im.phdrs[k + 1].type = PT_LOAD, Covers(im.phdrs[k + 1], a)
  PROVE  Said(im, a, k + 1) = Content(im.phdrs[k + 1], a)
  <1> DEFINE over == Over(im, a, k + 1)
             Last(n) == n \in over /\ \A m \in over : m <= n
             top == CHOOSE n \in over : \A m \in over : m <= n
  <1>0. DOMAIN im.phdrs = 1 .. Len(im.phdrs) BY Zenon, Handles
  <1>1. k + 1 \in over
    <2>1. k + 1 \in 1 .. k + 1 OBVIOUS
    <2> QED BY Zenon, <1>0, <2>1 DEF Over, Loads
  <1>2. \A m \in over : m \in Int /\ m <= k + 1 BY DEF Over
  <1>3. Last(k + 1) BY Zenon, <1>1, <1>2
  <1> HIDE DEF over
  <1>4. Last(top) BY Zenon, <1>3
  <1> HIDE DEF top
  <1>5. top = k + 1 BY <1>1, <1>2, <1>4
  <1>6. Said(im, a, k + 1) = Content(im.phdrs[top], a) BY Zenon, <1>1 DEF Said, LastOf, top, over
  <1> QED BY Zenon, <1>5, <1>6

\* No segment, nothing said.
LEMMA SaidNothing == ASSUME NEW im, NEW a, NEW k, Upto(im, k) = {} PROVE Said(im, a, k) = OLD
  <1>1. Over(im, a, k) = {} BY Zenon DEF Upto, Over
  <1> QED BY Zenon, <1>1 DEF Said, LastOf

\* Something is there only when a segment put it there.
LEMMA SaidCovered ==
  ASSUME NEW im, NEW a, NEW k, Said(im, a, k) # OLD
  PROVE  \E n \in Upto(im, k) : Covers(im.phdrs[n], a)
  BY Zenon DEF Said, LastOf, Over, Upto

-----------------------------------------------------------------------------
(* The inductive invariant of elf_load.  The range is tight for the headers *)
(* handled so far, and loaded_any says whether there was a segment at all,  *)
(* which is why an image without one is refused with nothing written.       *)

Handled == IF ret = -1 THEN i - 1 ELSE i

Bounds(im, lo, hi, S) ==
    /\ \A n \in S : lo <= im.phdrs[n].vaddr /\ im.phdrs[n].vaddr + im.phdrs[n].memsz <= hi
    /\ S # {} => \E n \in S : im.phdrs[n].vaddr = lo
    /\ S # {} => \E n \in S : im.phdrs[n].vaddr + im.phdrs[n].memsz = hi
    /\ S = {} => lo = UINT32 - 1 /\ hi = 0

LoadTypes ==
    /\ image \in Images
    /\ i \in 0 .. Len(image.phdrs)
    /\ load_min \in Byte /\ load_max \in Byte
    /\ loaded_any \in BOOLEAN
    /\ ret \in {LOADING, 0, -1}

\* What has been loaded, as a predicate of the variables.
Loaded(im, k, m, lo, hi, any) ==
    /\ any <=> Upto(im, k) # {}
    /\ Fits(im) => Bounds(im, lo, hi, Upto(im, k))
    /\ Fits(im) => \A a \in Byte : m[a] = Said(im, a, k)
    /\ Fits(im) => \A a \in Byte : m[a] \in Byte => m[a] < im.size

LoadInv ==
    /\ LoadTypes
    /\ ret = 0 => loaded_any
    /\ Loaded(image, Handled, mem, load_min, load_max, loaded_any)

LEMMA LoadInitInv == ElfInit => LoadInv
  <1> SUFFICES ASSUME ElfInit PROVE LoadInv OBVIOUS
  <1>0. UINT32 \in Nat \ {0} BY ElfAssumption
  <1>1. Len(image.phdrs) \in Nat BY Zenon, Handles DEF ElfInit
  <1>2. LoadTypes
    <2>1. i \in 0 .. Len(image.phdrs) BY <1>1 DEF ElfInit
    <2>2. load_min \in Byte /\ load_max \in Byte BY <1>0 DEF ElfInit, Byte
    <2> QED BY Zenon, <2>1, <2>2 DEF ElfInit, LoadTypes
  <1>3. Upto(image, Handled) = {}
    <2>1. \A n : n \notin 1 .. Handled BY DEF ElfInit, Handled
    <2> QED BY Zenon, <2>1 DEF Upto
  <1>4. ret # 0 /\ loaded_any = FALSE BY DEF ElfInit, LOADING
  <1>5. Bounds(image, load_min, load_max, Upto(image, Handled)) BY Zenon, <1>3 DEF Bounds, ElfInit
  <1>6. OLD \notin Byte BY <1>0 DEF OLD, Byte
  <1>7. \A a \in Byte : mem[a] = OLD BY Zenon DEF ElfInit
  <1>8. Loaded(image, Handled, mem, load_min, load_max, loaded_any)
    BY Zenon, <1>3, <1>4, <1>5, <1>6, <1>7, SaidNothing DEF Loaded
  <1> QED BY Zenon, <1>2, <1>4, <1>8 DEF LoadInv

-----------------------------------------------------------------------------
(* The steps.                                                              *)

\* A header that is not a segment adds nothing.
LEMMA SkipsOther ==
  ASSUME NEW im \in Images, NEW k \in Nat, k + 1 \in 1 .. Len(im.phdrs), im.phdrs[k + 1].type # PT_LOAD,
         NEW m, NEW lo, NEW hi, NEW any, Loaded(im, k, m, lo, hi, any)
  PROVE  Loaded(im, k + 1, m, lo, hi, any)
  <1>1. Upto(im, k + 1) = Upto(im, k) BY Zenon, UptoStep
  <1>2. \A a \in Byte : Said(im, a, k + 1) = Said(im, a, k) BY Zenon, SaidSame
  <1> QED BY Zenon, <1>1, <1>2 DEF Loaded

\* An image in which no segment was found is refused as it was before the last
\* header.
LEMMA RefusesEmpty ==
  ASSUME NEW im, NEW k, NEW l, NEW m, NEW lo, NEW hi, NEW any,
         Loaded(im, k, m, lo, hi, any), ~any, Upto(im, l) \subseteq Upto(im, k)
  PROVE  Loaded(im, l, m, lo, hi, any)
  <1>1. Upto(im, k) = {} /\ Upto(im, l) = {} BY Zenon DEF Loaded
  <1> QED BY Zenon, <1>1, SaidNothing DEF Loaded

\* A segment widens the range just enough.
LEMMA WidensRange ==
  ASSUME NEW im \in Images, NEW k \in Nat, k + 1 \in 1 .. Len(im.phdrs), im.phdrs[k + 1].type = PT_LOAD,
         Fits(im), NEW lo \in Byte, NEW hi \in Byte, Bounds(im, lo, hi, Upto(im, k)),
         NEW l, l = (IF im.phdrs[k + 1].vaddr < lo THEN im.phdrs[k + 1].vaddr ELSE lo),
         NEW h, h = (IF (im.phdrs[k + 1].vaddr + im.phdrs[k + 1].memsz) % UINT32 > hi
                     THEN (im.phdrs[k + 1].vaddr + im.phdrs[k + 1].memsz) % UINT32 ELSE hi)
  PROVE  Bounds(im, l, h, Upto(im, k + 1))
  <1> DEFINE S == Upto(im, k)
             V(n) == im.phdrs[n].vaddr
             E(n) == im.phdrs[n].vaddr + im.phdrs[n].memsz
             x == V(k + 1)
             e == E(k + 1)
  <1>0. UINT32 \in Nat \ {0} /\ lo \in Nat /\ lo < UINT32 /\ hi \in Nat BY ElfAssumption DEF Byte
  <1>1. Upto(im, k + 1) = S \cup {k + 1} BY Zenon, UptoStep
  <1>2. k + 1 \in Loads(im) BY Zenon, Handles DEF Loads
  <1>3. x \in Nat /\ e \in Nat /\ x <= e /\ e < UINT32
    <2>1. im.phdrs[k + 1] \in Phdr BY Zenon, Handles
    <2>2. im.phdrs[k + 1].vaddr \in Nat /\ im.phdrs[k + 1].memsz \in Nat BY Zenon, <2>1, PhdrFields
    <2>3. e < UINT32 BY Zenon, <1>2 DEF Fits
    <2> QED BY Zenon, <2>2, <2>3, Sums
  <1>4. e % UINT32 = e BY Zenon, <1>3, Small
  <1>5. l = (IF x < lo THEN x ELSE lo) /\ h = (IF e > hi THEN e ELSE hi) BY Zenon, <1>4
  <1>6. \A n \in S : V(n) \in Nat /\ E(n) \in Nat
    <2> TAKE n \in S
    <2>1. im.phdrs[n] \in Phdr BY Zenon, Handles DEF Upto
    <2>2. im.phdrs[n].vaddr \in Nat /\ im.phdrs[n].memsz \in Nat BY Zenon, <2>1, PhdrFields
    <2> QED BY Zenon, <2>2, Sums
  <1>7. /\ \A n \in S : lo <= V(n) /\ E(n) <= hi
        /\ S # {} => \E n \in S : V(n) = lo
        /\ S # {} => \E n \in S : E(n) = hi
        /\ S = {} => lo = UINT32 - 1 /\ hi = 0 BY Zenon DEF Bounds
  <1> HIDE DEF S, V, E, x, e
  <1>8. \A n \in S \cup {k + 1} : l <= V(n) /\ E(n) <= h
    <2>1. ASSUME NEW n \in S PROVE l <= V(n) /\ E(n) <= h
      <3>1. lo <= V(n) /\ E(n) <= hi /\ V(n) \in Nat /\ E(n) \in Nat BY Zenon, <1>6, <1>7
      <3> HIDE DEF V, E
      <3> QED BY ONLY <1>0, <1>3, <1>5, <3>1
    <2>2. l <= x /\ e <= h BY ONLY <1>0, <1>3, <1>5
    <2> QED BY Zenon, <2>1, <2>2 DEF x, e
  <1>9. \E n \in S \cup {k + 1} : V(n) = l
    <2>1. CASE l = x BY Zenon, <2>1 DEF x
    <2>2. CASE l # x
      <3>0. S = {} => lo = UINT32 - 1 /\ hi = 0 BY Zenon, <1>7
      <3>1. l = lo /\ S # {} BY ONLY <1>0, <1>3, <1>5, <2>2, <3>0
      <3> QED BY Zenon, <1>7, <3>1
    <2> QED BY Zenon, <2>1, <2>2
  <1>10. \E n \in S \cup {k + 1} : E(n) = h
    <2>1. CASE h = e BY Zenon, <2>1 DEF e
    <2>2. CASE h # e
      <3>0. S = {} => lo = UINT32 - 1 /\ hi = 0 BY Zenon, <1>7
      <3>1. h = hi /\ S # {} BY ONLY <1>0, <1>3, <1>5, <2>2, <3>0
      <3> QED BY Zenon, <1>7, <3>1
    <2> QED BY Zenon, <2>1, <2>2
  <1> QED BY Zenon, <1>1, <1>8, <1>9, <1>10 DEF Bounds, V, E

\* A segment is added.
LEMMA LoadsSegment ==
  ASSUME NEW im \in Images, NEW k \in Nat, k + 1 \in 1 .. Len(im.phdrs), im.phdrs[k + 1].type = PT_LOAD,
         (im.phdrs[k + 1].offset + im.phdrs[k + 1].filesz) % UINT32 <= im.size,
         im.phdrs[k + 1].filesz <= im.phdrs[k + 1].memsz,
         NEW m, NEW lo \in Byte, NEW hi \in Byte, NEW any, Loaded(im, k, m, lo, hi, any),
         NEW l, l = (IF im.phdrs[k + 1].vaddr < lo THEN im.phdrs[k + 1].vaddr ELSE lo),
         NEW h, h = (IF (im.phdrs[k + 1].vaddr + im.phdrs[k + 1].memsz) % UINT32 > hi
                     THEN (im.phdrs[k + 1].vaddr + im.phdrs[k + 1].memsz) % UINT32 ELSE hi)
  PROVE  Loaded(im, k + 1, Placed(m, im.phdrs[k + 1]), l, h, TRUE)
  <1> DEFINE ph == im.phdrs[k + 1]
  <1>1. ph \in Phdr BY Zenon, Handles
  <1>2. Upto(im, k + 1) # {} BY Zenon, UptoStep
  <1>3. Fits(im) => Bounds(im, l, h, Upto(im, k + 1)) BY Zenon, WidensRange DEF Loaded
  <1>4. ASSUME Fits(im), NEW a \in Byte
        PROVE  /\ Placed(m, ph)[a] = Said(im, a, k + 1)
               /\ Placed(m, ph)[a] \in Byte => Placed(m, ph)[a] < im.size
    <2>1. k + 1 \in Loads(im) BY Zenon, Handles DEF Loads
    <2>2. ph.vaddr + ph.memsz < UINT32 /\ ph.offset + ph.filesz < UINT32 BY Zenon, <1>4, <2>1 DEF Fits
    <2>3. Placed(m, ph)[a] = IF Covers(ph, a) THEN Content(ph, a) ELSE m[a] BY Zenon, <1>1, <2>2, PlacedIs
    <2>4. m[a] = Said(im, a, k) /\ (m[a] \in Byte => m[a] < im.size) BY Zenon, <1>4 DEF Loaded
    <2>5. CASE Covers(ph, a)
      <3>1. Said(im, a, k + 1) = Content(ph, a) BY Zenon, <2>5, SaidLast
      <3>2. Content(ph, a) \in Byte => Content(ph, a) < im.size
        <4> DEFINE v == ph.vaddr
                   f == ph.filesz
                   o == ph.offset
                   len == im.size
        <4>1. o \in Nat /\ f \in Nat /\ v \in Nat /\ len \in Nat BY Zenon, <1>1, PhdrFields, Handles
        <4>2. v <= a BY Zenon, <2>5 DEF Covers
        <4>3. Content(ph, a) = IF a < v + f THEN o + (a - v) ELSE ZERO BY Zenon DEF Content
        <4>4. (o + f) % UINT32 <= len /\ o + f < UINT32 BY Zenon, <2>2
        <4>5. a \in Nat /\ UINT32 \in Nat BY ONLY a \in Byte, ElfAssumption DEF Byte
        <4> HIDE DEF v, f, o
        <4>6. o + f \in Nat BY Zenon, <4>1, Sums
        <4>7. (o + f) % UINT32 = o + f BY Zenon, <4>4, <4>6, Small
        <4> HIDE DEF len
        <4>8. ZERO \notin Byte BY ONLY <4>5 DEF ZERO, Byte
        <4>9. a < v + f => o + (a - v) < len BY ONLY <4>1, <4>2, <4>4, <4>5, <4>7
        <4> QED BY Zenon, <4>3, <4>8, <4>9 DEF len
      <3> QED BY Zenon, <2>3, <2>5, <3>1, <3>2
    <2>6. CASE ~Covers(ph, a)
      <3>1. Said(im, a, k + 1) = Said(im, a, k) BY Zenon, <2>6, SaidSame
      <3> QED BY Zenon, <2>3, <2>4, <2>6, <3>1
    <2> QED BY Zenon, <2>5, <2>6
  <1> QED BY Zenon, <1>2, <1>3, <1>4 DEF Loaded

LEMMA SegmentInv == ASSUME LoadInv, Segment PROVE LoadInv'
  <1> DEFINE ph == image.phdrs[i + 1]
             n == Len(image.phdrs)
  <1>0. UINT32 \in Nat \ {0} BY ElfAssumption
  <1>1. image \in Images /\ n \in Nat BY Zenon, Handles DEF LoadInv, LoadTypes
  <1>2. i \in 0 .. n /\ i < n /\ i' = i + 1 /\ image' = image /\ ret = LOADING
    BY Zenon DEF Segment, LoadInv, LoadTypes
  <1> HIDE DEF n
  <1>3. i \in Nat /\ i + 1 \in 1 .. n /\ i' \in 0 .. n BY <1>1, <1>2
  <1>4. Handled = i BY <1>2 DEF Handled, LOADING
  <1>5. ph \in Phdr BY Zenon, <1>1, <1>3, Handles DEF n
  <1>6. Loaded(image, i, mem, load_min, load_max, loaded_any) BY Zenon, <1>4 DEF LoadInv
  <1>7. CASE Skip
    <2>1. ret' = LOADING /\ ret' # -1 /\ ret' # 0 BY <1>2, <1>7 DEF Skip, LOADING
    <2>2. Handled' = i + 1 BY Zenon, <1>2, <2>1 DEF Handled
    <2>3. Loaded(image, i + 1, mem, load_min, load_max, loaded_any) BY Zenon, <1>1, <1>3, <1>6, <1>7, SkipsOther DEF n, Skip
    <2>4. LoadTypes' BY Zenon, <1>2, <1>3, <1>7 DEF LoadInv, LoadTypes, Skip, n
    <2> QED BY Zenon, <1>2, <1>7, <2>1, <2>2, <2>3, <2>4 DEF Skip, LoadInv
  <1>8. CASE Reject
    <2>1. ret' = -1 /\ ret' # 0 BY <1>8 DEF Reject
    <2>2. Handled' = i
      <3>1. Handled' = i' - 1 BY Zenon, <2>1 DEF Handled
      <3> QED BY <1>2, <1>3, <3>1
    <2>3. LoadTypes' BY Zenon, <1>2, <1>3, <1>8, <2>1 DEF LoadInv, LoadTypes, Reject, n
    <2> QED BY Zenon, <1>2, <1>6, <1>8, <2>1, <2>2, <2>3 DEF Reject, LoadInv
  <1>9. CASE ph.type = PT_LOAD /\ Admissible(ph) /\ Load(ph)
    <2>1. ret' = LOADING /\ ret' # -1 /\ ret' # 0 BY <1>2, <1>9 DEF Load, LOADING
    <2>2. Handled' = i + 1 BY Zenon, <1>2, <2>1 DEF Handled
    <2>3. load_min \in Byte /\ load_max \in Byte BY Zenon DEF LoadInv, LoadTypes
    <2>4. Loaded(image, i + 1, Placed(mem, ph), load_min', load_max', TRUE)
      BY Zenon, <1>1, <1>3, <1>6, <1>9, <2>3, LoadsSegment DEF n, Admissible, Load
    <2>5. load_min' \in Byte /\ load_max' \in Byte
      <3> DEFINE e == ph.vaddr + ph.memsz
      <3>1. ph.vaddr \in Byte /\ ph.vaddr \in Nat /\ ph.memsz \in Nat BY Zenon, <1>5, PhdrFields
      <3>2. e \in Nat BY <3>1
      <3>3. load_min' = (IF ph.vaddr < load_min THEN ph.vaddr ELSE load_min)
            /\ load_max' = (IF e % UINT32 > load_max THEN e % UINT32 ELSE load_max) BY Zenon, <1>9 DEF Load
      <3> HIDE DEF e
      <3>4. e % UINT32 \in Byte BY <1>0, <3>2 DEF Byte
      <3> QED BY Zenon, <2>3, <3>1, <3>3, <3>4
    <2>6. LoadTypes' BY Zenon, <1>2, <1>3, <1>9, <2>5 DEF LoadInv, LoadTypes, Load, n
    <2> QED BY ZenonT(60), <1>2, <1>9, <2>1, <2>2, <2>4, <2>6 DEF Load, LoadInv
  <1> QED BY Zenon, <1>7, <1>8, <1>9 DEF Segment

LEMMA ReturnInv == ASSUME LoadInv, Return PROVE LoadInv'
  <1>1. ret = LOADING /\ image' = image /\ i' = i /\ UNCHANGED <<mem, load_min, load_max, loaded_any>>
    BY Zenon DEF Return
  <1>2. image \in Images /\ Len(image.phdrs) \in Nat /\ i \in 0 .. Len(image.phdrs) /\ loaded_any \in BOOLEAN
    BY Zenon, Handles DEF LoadInv, LoadTypes
  <1>3. Handled = i /\ i \in Nat BY <1>1, <1>2 DEF Handled, LOADING
  <1>4. Loaded(image, i, mem, load_min, load_max, loaded_any) BY Zenon, <1>3 DEF LoadInv
  <1>5. CASE loaded_any
    <2>1. ret' = 0 BY Zenon, <1>5 DEF Return
    <2>2. ret' # -1 BY <2>1
    <2>3. Handled' = i BY Zenon, <1>1, <2>2 DEF Handled
    <2>4. LoadTypes' BY Zenon, <1>1, <2>1 DEF LoadInv, LoadTypes
    <2> QED BY Zenon, <1>1, <1>4, <1>5, <2>1, <2>3, <2>4 DEF LoadInv
  <1>6. CASE ~loaded_any
    <2>1. ret' = -1 BY Zenon, <1>6 DEF Return
    <2>2. ret' # 0 BY <2>1
    <2>3. Handled' = i - 1 BY Zenon, <1>1, <2>1 DEF Handled
    <2>4. LoadTypes' BY Zenon, <1>1, <2>1 DEF LoadInv, LoadTypes
    <2>5. Upto(image, i - 1) \subseteq Upto(image, i)
      <3>1. 1 .. i - 1 \subseteq 1 .. i BY <1>3
      <3> QED BY Zenon, <3>1 DEF Upto
    <2>6. Loaded(image, i - 1, mem, load_min, load_max, loaded_any) BY Zenon, <1>4, <1>6, <2>5, RefusesEmpty
    <2> QED BY Zenon, <1>1, <2>2, <2>3, <2>4, <2>6 DEF LoadInv
  <1> QED BY Zenon, <1>2, <1>5, <1>6

\* The invariant says what the three properties of elf_load say.
LEMMA LoadInvImplies == LoadInv => MemoryIsImage /\ RangeIsTight /\ CopiesFromFile
  <1> SUFFICES ASSUME LoadInv PROVE MemoryIsImage /\ RangeIsTight /\ CopiesFromFile OBVIOUS
  <1>0. UINT32 \in Nat \ {0} /\ load_min \in Nat /\ load_max \in Nat BY ElfAssumption DEF LoadInv, LoadTypes, Byte
  <1>1. NoWrap <=> Fits(image) BY Zenon DEF NoWrap, Fits
  <1>2. \A a, k : Expected(a, k) = Said(image, a, k)
    BY Zenon DEF Expected, Said, LastOf, Over, Content
  <1>3. Loaded(image, Handled, mem, load_min, load_max, loaded_any) BY Zenon DEF LoadInv
  <1>4. MemoryIsImage
    <2>1. NoWrap => \A a \in Byte : mem[a] = Expected(a, Handled) BY Zenon, <1>1, <1>2, <1>3 DEF Loaded
    <2> QED BY Zenon, <2>1 DEF MemoryIsImage, Handled
  <1>5. CopiesFromFile BY Zenon, <1>1, <1>3 DEF CopiesFromFile, Loaded
  <1>6. RangeIsTight
    <2> SUFFICES ASSUME NoWrap, ret = 0
                 PROVE  /\ \A a \in Byte : mem[a] # OLD => load_min <= a /\ a < load_max
                        /\ \E n \in Loads(image) : image.phdrs[n].vaddr = load_min
                        /\ \E n \in Loads(image) : image.phdrs[n].vaddr + image.phdrs[n].memsz = load_max
      BY Zenon DEF RangeIsTight
    <2> DEFINE S == Upto(image, Handled)
    <2>1. S # {} /\ Bounds(image, load_min, load_max, S) BY Zenon, <1>1, <1>3 DEF Loaded, LoadInv
    <2>2. S \subseteq Loads(image) BY Zenon DEF Upto
    <2>3. ASSUME NEW a \in Byte, mem[a] # OLD PROVE load_min <= a /\ a < load_max
      <3>1. Said(image, a, Handled) # OLD BY Zenon, <1>1, <1>3, <2>3 DEF Loaded
      <3>2. PICK n \in S : Covers(image.phdrs[n], a) BY Zenon, <3>1, SaidCovered
      <3> DEFINE v == image.phdrs[n].vaddr
                 e == image.phdrs[n].vaddr + image.phdrs[n].memsz
      <3>3. v <= a /\ a < e BY Zenon, <3>2 DEF Covers
      <3>4. load_min <= v /\ e <= load_max BY Zenon, <2>1 DEF Bounds
      <3>5. image.phdrs[n] \in Phdr BY Zenon, <2>2, Handles DEF LoadInv, LoadTypes
      <3>6. image.phdrs[n].vaddr \in Nat /\ image.phdrs[n].memsz \in Nat BY Zenon, <3>5, PhdrFields
      <3>7. v \in Nat /\ e \in Nat /\ a \in Nat BY <1>0, <3>6 DEF Byte
      <3> HIDE DEF v, e
      <3> QED BY <1>0, <3>3, <3>4, <3>7
    <2> QED BY Zenon, <2>1, <2>2, <2>3 DEF Bounds
  <1> QED BY Zenon, <1>4, <1>5, <1>6

-----------------------------------------------------------------------------
(* boot_init around it.                                                    *)

BootInv ==
    /\ LoadInv
    /\ stage \in {"open", "load", "idle", "jumped", "halted"}
    /\ stage = "open" \/ buf = "none" => \A a \in Byte : mem[a] = OLD
    /\ stage = "open" => buf = "none"
    /\ stage = "idle" => buf # "held"
    /\ stage = "load" => buf = "held"

LEMMA BootInitInv == BInit => BootInv
  <1> SUFFICES ASSUME BInit PROVE BootInv OBVIOUS
  <1>1. LoadInv BY Zenon, LoadInitInv DEF BInit
  <1>2. \A a \in Byte : mem[a] = OLD BY Zenon DEF BInit, ElfInit
  <1> QED BY Zenon, <1>1, <1>2 DEF BInit, BootInv

LEMMA LoadStays == ASSUME LoadInv, UNCHANGED elf_vars PROVE LoadInv'
  BY Zenon DEF LoadInv, LoadTypes, Handled, elf_vars

LEMMA BootNextInv == BootInv /\ [BNext]_bvars => BootInv'
  <1> SUFFICES ASSUME BootInv, [BNext]_bvars PROVE BootInv' OBVIOUS
  <1>1. ASSUME UNCHANGED elf_vars PROVE LoadInv' /\ mem' = mem BY Zenon, <1>1, LoadStays DEF BootInv, elf_vars
  <1>2. CASE NotFound \/ SizeRefused \/ NoRoom
    BY Zenon, <1>1, <1>2 DEF NotFound, SizeRefused, NoRoom, BootInv
  <1>3. CASE ShortRead BY Zenon, <1>1, <1>3 DEF ShortRead, BootInv
  <1>4. CASE ReadAll BY Zenon, <1>1, <1>4 DEF ReadAll, BootInv
  <1>5. CASE ElfLoad
    <2>1. LoadInv' BY Zenon, <1>5, SegmentInv, ReturnInv DEF ElfLoad, ElfNext, BootInv
    <2> QED BY Zenon, <1>5, <2>1 DEF ElfLoad, BootInv
  <1>6. CASE Decide BY Zenon, <1>1, <1>6 DEF Decide, BootInv
  <1>7. CASE EntryReturns BY Zenon, <1>1, <1>7 DEF EntryReturns, BootInv
  <1>8. CASE UNCHANGED bvars BY Zenon, <1>1, <1>8 DEF bvars, BootInv
  <1> QED BY Zenon, <1>2, <1>3, <1>4, <1>5, <1>6, <1>7, <1>8 DEF BNext

\* boot_init and elf_load (main.c:26-70, loader.c:91-172), for every image and every
\* width of an address: after every header memory is what the headers handled say,
\* byte by byte; the range returned is exactly that of the segments; no byte beyond
\* the end of the file is copied; and the buffer is given back whenever boot_init
\* gives up.
THEOREM ImageAlwaysPlaced == BSpec => []ImageIsPlaced
  <1>1. BootInv => ImageIsPlaced
    <2> SUFFICES ASSUME BootInv PROVE ImageIsPlaced OBVIOUS
    <2>1. MemoryIsImage /\ RangeIsTight /\ CopiesFromFile BY Zenon, LoadInvImplies DEF BootInv
    <2>2. GivesUpCleanly BY Zenon DEF BootInv, GivesUpCleanly
    <2> QED BY Zenon, <2>1, <2>2 DEF ImageIsPlaced
  <1> QED BY <1>1, BootInitInv, BootNextInv, PTL DEF BSpec

=============================================================================
