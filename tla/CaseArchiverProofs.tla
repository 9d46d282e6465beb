-------------------------- MODULE CaseArchiverProofs --------------------------
(***************************************************************************)
(* Theorems about the case archiver for every set of cases and days, every *)
(* batch size and every number of calls and faults.                        *)
(*                                                                         *)
(* Any number of archivers keep the types and the folders of cases that    *)
(* are not indexed.  What is said of zips and of the index assumes         *)
(* OneArchiver, since two archivers lose a case, which a run of TLC shows, *)
(* and rests on the inductive invariant Inv: a zip that the index relies   *)
(* on has a name whose number no later archive can have.                   *)
(***************************************************************************)
EXTENDS CaseArchiverProperties, FiniteSetTheorems, FunctionTheorems, WellFoundedInduction, TLAPS

-----------------------------------------------------------------------------
(* Least and greatest numbers *)

LEMMA LeastNumber ==
  ASSUME NEW S \in SUBSET Nat, S # {}
  PROVE  \E n \in S : \A m \in S : n <= m
  <1> DEFINE less == OpToRel(<, Nat)
  <1>1. IsWellFoundedOn(less, Nat)
    BY NatLessThanWellFounded
  <1>2. PICK n \in S : \A m \in S : <<m, n>> \notin less
    <2> HIDE DEF less
    <2> QED BY <1>1, WFMin
  <1>3. \A m \in S : ~ (m < n)
    BY <1>2 DEF OpToRel
  <1> QED BY <1>3

\* The greatest is the one that has the fewest above it.
LEMMA GreatestNumber ==
  ASSUME NEW S \in SUBSET Nat, S # {}, IsFiniteSet(S)
  PROVE  \E n \in S : \A m \in S : m <= n
  <1> DEFINE Above(n) == {m \in S : n < m}
             counts == {Cardinality(Above(n)) : n \in S}
  <1>1. \A n \in S : IsFiniteSet(Above(n)) /\ Cardinality(Above(n)) \in Nat
    BY FS_Subset, FS_CardinalityType
  <1>2. counts \in SUBSET Nat /\ counts # {}
    BY <1>1
  <1>3. PICK n \in S : \A l \in S : Cardinality(Above(n)) <= Cardinality(Above(l))
    <2>1. PICK count \in counts : \A other \in counts : count <= other
      <3> HIDE DEF counts
      <3> QED BY <1>2, LeastNumber
    <2> QED BY <2>1
  <1>4. ASSUME NEW m \in S, ~ (m <= n) PROVE FALSE
    <2>1. m \in Nat /\ n \in Nat /\ n < m /\ S \subseteq Nat
      BY <1>4
    <2>2. m \in Above(n) /\ m \notin Above(m)
      BY <2>1
    <2>3. Above(m) \in SUBSET Above(n)
      <3>1. ASSUME NEW l \in Above(m) PROVE l \in S /\ n < l
        <4>1. l \in Nat /\ m < l /\ l \in S
          BY <2>1
        <4> QED BY <2>1, <4>1
      <3> QED BY <3>1
    <2> HIDE DEF Above
    <2>4. /\ Cardinality(Above(m)) <= Cardinality(Above(n))
          /\ Cardinality(Above(n)) # Cardinality(Above(m))
      BY <1>1, <2>2, <2>3, FS_Subset
    <2>5. Cardinality(Above(n)) <= Cardinality(Above(m))
      BY <1>3
    <2> QED BY <1>1, <2>4, <2>5
  <1> QED BY <1>4

-----------------------------------------------------------------------------
(* Type correctness *)

\* The days of a batch have a first and a last one.
LEMMA DaysOfBatch ==
  ASSUME NEW D \in SUBSET Days, D # {}
  PROVE  Earliest(D) \in Days /\ Latest(D) \in Days
  <1>1. Days \in SUBSET Nat
    BY CaseAssumption DEF Days
  <1>2. IsFiniteSet(D)
    <2> DEFINE days == {DayOf[c] : c \in Case}
               day  == [c \in Case |-> DayOf[c]]
    <2>1. day \in Surjection(Case, days)
      BY DEF Surjection
    <2>2. IsFiniteSet(days)
      <3> HIDE DEF days, day
      <3> QED BY <2>1, CaseAssumption, FS_Surjection
    <2>3. IsFiniteSet(Days)
      <3> HIDE DEF days
      <3>1. Days = days \cup {Today}
        BY DEF Days, days
      <3> QED BY <2>2, <3>1, FS_AddElement
    <2> QED BY <2>3, FS_Subset
  <1>3. D \in SUBSET Nat
    BY <1>1
  <1>4. \E d \in D : \A e \in D : d <= e
    BY <1>3, LeastNumber
  <1>5. \E d \in D : \A e \in D : e <= d
    BY <1>2, <1>3, GreatestNumber
  <1> QED BY <1>4, <1>5 DEF Earliest, Latest

\* An archiver that is to mark cases has saved a record.
HasOwnRecord == \A a \in Archiver : pc[a] = "mark" => \E i \in DOMAIN records : records[i].by = a

TypeInv == TypeOK /\ HasOwnRecord

LEMMA OwnRecordIsLast ==
  ASSUME TypeOK, NEW a \in Archiver, \E i \in DOMAIN records : records[i].by = a
  PROVE  /\ OwnRecord(a) \in DOMAIN records
         /\ \A j \in DOMAIN records : records[j].by = a => j <= OwnRecord(a)
  <1> DEFINE own == {i \in DOMAIN records : records[i].by = a}
  <1>1. DOMAIN records = 1 .. Len(records) /\ Len(records) \in Nat
    BY DEF TypeOK
  <1>2. own \in SUBSET Nat /\ own # {}
    BY <1>1
  <1>3. IsFiniteSet(own)
    <2>1. IsFiniteSet(1 .. Len(records))
      BY <1>1, FS_Interval
    <2> QED BY <1>1, <2>1, FS_Subset
  <1>4. PICK i \in own : \A j \in own : j <= i
    <2> HIDE DEF own
    <2> QED BY <1>2, <1>3, GreatestNumber
  <1>5. \E k \in DOMAIN records :
          /\ records[k].by = a
          /\ \A j \in DOMAIN records : records[j].by = a => j <= k
    BY <1>4
  <1> QED BY <1>5 DEF OwnRecord

LEMMA InitType == Init => TypeInv
  BY CaseAssumption, BoundAssumption
  DEF Init, TypeInv, TypeOK, HasOwnRecord, Labels, Contents, Nothing, Names, NoName, Days

SaveStep == \E c \in Case : SaveCase(c) \/ SaveRest(c) \/ AbandonSave(c)
CallStep(a) == Scan(a) \/ TakeBatch(a) \/ Return(a) \/ Abandon(a)
BundleStep(a) == SetName(a) \/ CopyFolder(a)
ZipStep(a) == OpenZip(a) \/ WriteZip(a)
IndexStep(a) == SaveRecord(a) \/ MarkArchived(a) \/ PruneFolder(a)

LEMMA StepCases ==
  ASSUME [Next]_vars
  PROVE  \/ SaveStep \/ UNCHANGED vars
         \/ \E a \in Archiver : CallStep(a) \/ BundleStep(a) \/ ZipStep(a) \/ IndexStep(a)
  BY DEF Next, ArchiverStep, SaveStep, CallStep, BundleStep, ZipStep, IndexStep

LEMMA GotoType ==
  ASSUME TypeOK, NEW a \in Archiver, NEW label \in Labels, Goto(a, label)
  PROVE  /\ pc' \in [Archiver -> Labels]
         /\ pc'[a] = label
         /\ \A b \in Archiver \ {a} : pc'[b] = pc[b]
  BY DEF TypeOK, Goto

LEMMA SaveType == TypeInv /\ SaveStep => TypeInv'
  <1> SUFFICES ASSUME TypeInv, NEW c \in Case, SaveCase(c) \/ SaveRest(c) \/ AbandonSave(c)
               PROVE  TypeInv'
    BY DEF SaveStep
  <1>1. UNCHANGED <<zips, tables, pc, locals, calls>>
    BY DEF SaveCase, SaveRest, AbandonSave
  <1>2. /\ folder' \in Contents
        /\ saving' \in [Case -> {"unsaved", "half", "saved", "failed"}]
        /\ faults' \in 0 .. MaxFaults
    <2> USE DEF TypeInv, TypeOK, Contents, Files
    <2>1. CASE SaveCase(c)
      BY <2>1 DEF SaveCase
    <2>2. CASE SaveRest(c)
      BY <2>2 DEF SaveRest
    <2>3. CASE AbandonSave(c)
      BY <2>3, BoundAssumption DEF AbandonSave
    <2> QED BY <2>1, <2>2, <2>3
  <1> QED BY <1>1, <1>2 DEF TypeInv, TypeOK, HasOwnRecord, tables, locals

LEMMA CallType == \A a \in Archiver : TypeInv /\ CallStep(a) => TypeInv'
  <1> SUFFICES ASSUME NEW a \in Archiver, TypeInv, CallStep(a) PROVE TypeInv'
    OBVIOUS
  <1> USE BoundAssumption DEF disk, tables
  <1>1. UNCHANGED <<folder, saving, zips, records, archived, name, temp>>
    BY DEF CallStep, Scan, TakeBatch, Return, Abandon
  <1>2. pc' \in [Archiver -> Labels] /\ \A b \in Archiver : pc'[b] = "mark" => pc[b] = "mark"
    BY DEF CallStep, Scan, TakeBatch, Return, Abandon, Goto, TypeInv, TypeOK, Labels
  <1>3. /\ pending' \in [Archiver -> SUBSET Case] /\ forced' \in [Archiver -> BOOLEAN]
        /\ batch' \in [Archiver -> SUBSET Case] /\ left' \in [Archiver -> SUBSET Case]
        /\ calls' \in 0 .. MaxCalls /\ faults' \in 0 .. MaxFaults
    <2> USE DEF TypeInv, TypeOK
    <2>1. CASE Scan(a)
      BY <2>1 DEF Scan, Unarchived
    <2>2. CASE TakeBatch(a)
      BY <2>2 DEF TakeBatch
    <2>3. CASE Return(a)
      BY <2>3 DEF Return
    <2>4. CASE Abandon(a)
      BY <2>4 DEF Abandon
    <2> QED BY <2>1, <2>2, <2>3, <2>4 DEF CallStep
  <1> QED BY <1>1, <1>2, <1>3 DEF TypeInv, TypeOK, HasOwnRecord

LEMMA BundleType == \A a \in Archiver : TypeInv /\ BundleStep(a) => TypeInv'
  <1> SUFFICES ASSUME NEW a \in Archiver, TypeInv, BundleStep(a) PROVE TypeInv'
    OBVIOUS
  <1> USE DEF disk, tables
  <1>1. UNCHANGED <<folder, saving, zips, records, archived, pending, forced, batch, calls, faults>>
    BY DEF BundleStep, SetName, CopyFolder
  <1>2. pc' \in [Archiver -> Labels] /\ \A b \in Archiver : pc'[b] = "mark" => pc[b] = "mark"
    BY DEF BundleStep, SetName, CopyFolder, Goto, TypeInv, TypeOK, Labels
  <1>3. /\ name' \in [Archiver -> Names] /\ temp' \in [Archiver -> Contents]
        /\ left' \in [Archiver -> SUBSET Case]
    <2>1. CASE SetName(a)
      <3> DEFINE dated == {DayOf[c] : c \in {b \in batch[a] : "case" \in folder[b]}}
                 days  == IF dated = {} THEN {Today} ELSE dated
                 named == [from |-> Earliest(days), to |-> Latest(days), number |-> BatchNumber]
      <3>1. days \in SUBSET Days /\ days # {}
        BY DEF Days, TypeInv, TypeOK
      <3> HIDE DEF days
      <3>2. named \in Names
        <4>1. Earliest(days) \in Days /\ Latest(days) \in Days
          BY <3>1, DaysOfBatch
        <4>2. BatchNumber \in Nat
          BY DEF BatchNumber, TypeInv, TypeOK
        <4> QED BY <4>1, <4>2 DEF Names
      <3>3. name' = [name EXCEPT ![a] = named] /\ UNCHANGED left
        BY <2>1 DEF SetName, days
      <3>4. temp' = [temp EXCEPT ![a] = Nothing]
        BY <2>1 DEF SetName
      <3> HIDE DEF named
      <3> QED BY <3>2, <3>3, <3>4 DEF TypeInv, TypeOK, Nothing, Contents
    <2>2. CASE CopyFolder(a)
      BY <2>2 DEF CopyFolder, TypeInv, TypeOK, Contents
    <2> QED BY <2>1, <2>2 DEF BundleStep
  <1> QED BY <1>1, <1>2, <1>3 DEF TypeInv, TypeOK, HasOwnRecord

LEMMA PutType ==
  ASSUME TypeOK, NEW n \in Names, NEW content \in Contents, Put(n, content)
  PROVE  /\ DOMAIN zips' = DOMAIN zips \cup {n}
         /\ zips' \in [DOMAIN zips' -> Contents]
         /\ zips'[n] = content
         /\ \A m \in DOMAIN zips : m # n => zips'[m] = zips[m]
  BY DEF TypeOK, Put

LEMMA ZipType == \A a \in Archiver : TypeInv /\ ZipStep(a) => TypeInv'
  <1> SUFFICES ASSUME NEW a \in Archiver, TypeInv, ZipStep(a) PROVE TypeInv'
    OBVIOUS
  <1> USE DEF tables, locals
  <1>1. UNCHANGED <<folder, saving, tables, locals, calls, faults>>
    BY DEF ZipStep, OpenZip, WriteZip
  <1>2. pc' \in [Archiver -> Labels] /\ \A b \in Archiver : pc'[b] = "mark" => pc[b] = "mark"
    BY DEF ZipStep, OpenZip, WriteZip, Goto, TypeInv, TypeOK, Labels
  <1>3. DOMAIN zips' \subseteq Names /\ zips' \in [DOMAIN zips' -> Contents]
    <2>1. PICK content \in Contents : Put(name[a], content)
      BY DEF ZipStep, OpenZip, WriteZip, TypeInv, TypeOK, Nothing, Contents
    <2>2. name[a] \in Names /\ DOMAIN zips \subseteq Names
      BY DEF TypeInv, TypeOK
    <2>3. TypeOK
      BY DEF TypeInv
    <2>4. DOMAIN zips' = DOMAIN zips \cup {name[a]} /\ zips' \in [DOMAIN zips' -> Contents]
      BY <2>1, <2>2, <2>3, PutType
    <2> QED BY <2>2, <2>4
  <1> QED BY <1>1, <1>2, <1>3 DEF TypeInv, TypeOK, HasOwnRecord

LEMMA SaveRecordType == \A a \in Archiver : TypeInv /\ SaveRecord(a) => TypeInv'
  <1> SUFFICES ASSUME NEW a \in Archiver, TypeInv, SaveRecord(a) PROVE TypeInv'
    OBVIOUS
  <1> DEFINE record == [name |-> name[a], cases |-> batch[a], by |-> a]
  <1>1. record \in Records
    BY DEF TypeInv, TypeOK, Records
  <1>2. records' = Append(records, record) /\ UNCHANGED <<disk, archived, locals, calls, faults>>
    BY DEF SaveRecord
  <1>3. pc' \in [Archiver -> Labels] /\ \A b \in Archiver \ {a} : pc'[b] = pc[b]
    BY DEF SaveRecord, Goto, TypeInv, TypeOK, Labels
  <1>4. /\ records' \in Seq(Records) /\ Len(records') = Len(records) + 1
        /\ Len(records) \in Nat
        /\ DOMAIN records = 1 .. Len(records) /\ DOMAIN records' = 1 .. Len(records) + 1
        /\ records'[Len(records) + 1] = record
        /\ \A i \in DOMAIN records : records'[i] = records[i]
    <2> HIDE DEF record
    <2> QED BY <1>1, <1>2 DEF TypeInv, TypeOK
  <1>5. HasOwnRecord'
    <2>1. ASSUME NEW b \in Archiver, pc'[b] = "mark"
          PROVE  \E i \in DOMAIN records' : records'[i].by = b
      <3>1. CASE b = a
        <4>1. Len(records) + 1 \in DOMAIN records'
          BY <1>4
        <4> QED BY <1>4, <3>1, <4>1
      <3>2. CASE b # a
        BY <1>3, <1>4, <2>1, <3>2 DEF TypeInv, HasOwnRecord
      <3> QED BY <3>1, <3>2
    <2> QED BY <2>1 DEF HasOwnRecord
  <1>6. archived' \in [Case -> 0 .. Len(records')]
    BY <1>2, <1>4 DEF TypeInv, TypeOK
  <1> QED BY <1>2, <1>3, <1>4, <1>5, <1>6 DEF TypeInv, TypeOK, disk, locals

LEMMA MarkType == \A a \in Archiver : TypeInv /\ MarkArchived(a) => TypeInv'
  <1> SUFFICES ASSUME NEW a \in Archiver, TypeInv, MarkArchived(a) PROVE TypeInv'
    OBVIOUS
  <1>1. UNCHANGED <<disk, records, pending, forced, batch, name, temp, calls, faults>>
    BY DEF MarkArchived
  <1>2. OwnRecord(a) \in 0 .. Len(records)
    <2>1. OwnRecord(a) \in DOMAIN records
      BY OwnRecordIsLast DEF MarkArchived, TypeInv, HasOwnRecord
    <2> QED BY <2>1 DEF TypeInv, TypeOK
  <1>3. archived' \in [Case -> 0 .. Len(records)] /\ left' \in [Archiver -> SUBSET Case]
    BY <1>2 DEF MarkArchived, TypeInv, TypeOK
  <1>4. pc' \in [Archiver -> Labels] /\ \A b \in Archiver : pc'[b] = "mark" => pc[b] = "mark"
    BY DEF MarkArchived, Goto, TypeInv, TypeOK, Labels
  <1> QED BY <1>1, <1>3, <1>4 DEF TypeInv, TypeOK, HasOwnRecord, disk

LEMMA PruneType == \A a \in Archiver : TypeInv /\ PruneFolder(a) => TypeInv'
  <1> SUFFICES ASSUME NEW a \in Archiver, TypeInv, PruneFolder(a) PROVE TypeInv'
    OBVIOUS
  <1>1. UNCHANGED <<saving, zips, tables, pending, forced, batch, name, temp, calls>>
    BY DEF PruneFolder
  <1>2. /\ folder' \in Contents /\ left' \in [Archiver -> SUBSET Case]
        /\ faults' \in 0 .. MaxFaults
    BY BoundAssumption DEF PruneFolder, TypeInv, TypeOK, Contents
  <1>3. pc' \in [Archiver -> Labels] /\ \A b \in Archiver : pc'[b] = "mark" => pc[b] = "mark"
    BY DEF PruneFolder, Goto, TypeInv, TypeOK, Labels
  <1> QED BY <1>1, <1>2, <1>3 DEF TypeInv, TypeOK, HasOwnRecord, tables

LEMMA NextType == TypeInv /\ [Next]_vars => TypeInv'
  <1> SUFFICES ASSUME TypeInv, [Next]_vars PROVE TypeInv'
    OBVIOUS
  <1>1. CASE UNCHANGED vars
    BY <1>1 DEF TypeInv, TypeOK, HasOwnRecord, vars, disk, tables, locals
  <1>2. CASE SaveStep
    BY <1>2, SaveType
  <1>3. ASSUME NEW a \in Archiver, CallStep(a) \/ BundleStep(a) \/ ZipStep(a) \/ IndexStep(a)
        PROVE  TypeInv'
    BY <1>3, CallType, BundleType, ZipType, SaveRecordType, MarkType, PruneType DEF IndexStep
  <1> QED BY <1>1, <1>2, <1>3, StepCases

LEMMA TypeAlways == Spec => []TypeInv
  BY InitType, NextType, PTL DEF Spec

\* Every variable keeps its type and the index names records there are, with
\* any number of archivers.
THEOREM TypeCorrect == Spec => []TypeOK
  <1>1. TypeInv => TypeOK
    BY DEF TypeInv
  <1> QED BY <1>1, TypeAlways, PTL
-----------------------------------------------------------------------------
(* Any number of archivers: folders *)

PrunesIndexed == \A a \in Archiver : pc[a] = "prune" => \A c \in left[a] : archived[c] # 0

FolderInv == TypeInv /\ SavedIsKept /\ PrunesIndexed

LEMMA InitFolder == Init => FolderInv
  BY InitType DEF Init, FolderInv, SavedIsKept, PrunesIndexed

LEMMA SaveKeepsFolder ==
  ASSUME FolderInv, SaveStep
  PROVE  SavedIsKept' /\ PrunesIndexed'
  <1>1. PICK c \in Case : SaveCase(c) \/ SaveRest(c) \/ AbandonSave(c)
    BY DEF SaveStep
  <1>2. UNCHANGED <<tables, pc, locals>>
    BY <1>1 DEF SaveCase, SaveRest, AbandonSave
  <1>3. folder \in Contents /\ saving \in [Case -> {"unsaved", "half", "saved", "failed"}]
    BY DEF FolderInv, TypeInv, TypeOK
  <1>4. SavedIsKept'
    <2>1. CASE SaveCase(c)
      BY <1>2, <1>3, <2>1 DEF SaveCase, Contents, FolderInv, SavedIsKept, tables
    <2>2. CASE SaveRest(c)
      BY <1>2, <1>3, <2>2 DEF SaveRest, Contents, FolderInv, SavedIsKept, tables
    <2>3. CASE AbandonSave(c)
      BY <1>2, <1>3, <2>3 DEF AbandonSave, FolderInv, SavedIsKept, tables
    <2> QED BY <1>1, <2>1, <2>2, <2>3
  <1> QED BY <1>2, <1>4 DEF FolderInv, PrunesIndexed, tables, locals

LEMMA MarkKeepsFolder ==
  ASSUME FolderInv, NEW a \in Archiver, MarkArchived(a)
  PROVE  SavedIsKept' /\ PrunesIndexed'
  <1>1. TypeOK /\ pc[a] = "mark" /\ UNCHANGED <<folder, saving>>
    BY DEF FolderInv, TypeInv, MarkArchived, disk
  <1>2. OwnRecord(a) # 0
    <2>1. OwnRecord(a) \in DOMAIN records
      BY <1>1, OwnRecordIsLast DEF FolderInv, TypeInv, HasOwnRecord
    <2> QED BY <1>1, <2>1 DEF TypeOK
  <1>3. \A c \in Case : archived'[c] = IF c \in batch[a] THEN OwnRecord(a) ELSE archived[c]
    BY DEF MarkArchived
  <1>4. SavedIsKept'
    BY <1>1, <1>2, <1>3 DEF FolderInv, SavedIsKept
  <1>5. /\ left'[a] = batch[a] /\ batch[a] \subseteq Case
        /\ \A b \in Archiver \ {a} : left'[b] = left[b] /\ pc'[b] = pc[b] /\ left[b] \subseteq Case
    <2>1. /\ left' = [left EXCEPT ![a] = batch[a]]
          /\ pc' = [pc EXCEPT ![a] = "prune"]
      BY DEF MarkArchived, Goto
    <2> QED BY <1>1, <2>1 DEF TypeOK
  <1>6. PrunesIndexed'
    BY <1>2, <1>3, <1>5 DEF FolderInv, PrunesIndexed
  <1> QED BY <1>4, <1>6

LEMMA PruneKeepsFolder ==
  ASSUME FolderInv, NEW a \in Archiver, PruneFolder(a)
  PROVE  SavedIsKept' /\ PrunesIndexed'
  <1>1. TypeOK /\ pc[a] = "prune" /\ UNCHANGED <<saving, archived>>
    BY DEF FolderInv, TypeInv, PruneFolder, tables
  <1>2. PICK c \in left[a] : \E kept \in SUBSET folder[c] :
          /\ folder' = [folder EXCEPT ![c] = kept]
          /\ left' = [left EXCEPT ![a] = @ \ {c}]
    BY DEF PruneFolder
  <1>3. archived[c] # 0
    BY <1>1 DEF FolderInv, PrunesIndexed
  <1>4. SavedIsKept'
    BY <1>1, <1>2, <1>3 DEF FolderInv, SavedIsKept, TypeOK, Contents
  <1>5. \A b \in Archiver : left'[b] \subseteq left[b] /\ (pc'[b] = "prune" => pc[b] = "prune")
    BY <1>1, <1>2 DEF PruneFolder, Goto, TypeOK
  <1> QED BY <1>1, <1>4, <1>5 DEF FolderInv, PrunesIndexed

\* The other steps touch no folder, and none that begins there prunes.
LEMMA RestKeepsFolder ==
  ASSUME FolderInv, NEW a \in Archiver,
         CallStep(a) \/ BundleStep(a) \/ ZipStep(a) \/ SaveRecord(a)
  PROVE  SavedIsKept' /\ PrunesIndexed'
  <1>1. TypeOK
    BY DEF FolderInv, TypeInv
  <1>2. UNCHANGED <<folder, saving, archived>>
    BY DEF CallStep, Scan, TakeBatch, Return, Abandon, BundleStep, SetName, CopyFolder,
           ZipStep, OpenZip, WriteZip, SaveRecord, disk, tables
  <1>3. /\ pc'[a] # "prune"
        /\ \A b \in Archiver \ {a} : pc'[b] = pc[b] /\ left'[b] = left[b]
    <2>1. CASE CallStep(a)
      BY <1>1, <2>1 DEF CallStep, Scan, TakeBatch, Return, Abandon, Goto, TypeOK
    <2>2. CASE BundleStep(a)
      BY <1>1, <2>2 DEF BundleStep, SetName, CopyFolder, Goto, TypeOK
    <2>3. CASE ZipStep(a) \/ SaveRecord(a)
      BY <1>1, <2>3 DEF ZipStep, OpenZip, WriteZip, SaveRecord, Goto, TypeOK, locals
    <2> QED BY <2>1, <2>2, <2>3
  <1> QED BY <1>2, <1>3 DEF FolderInv, SavedIsKept, PrunesIndexed

LEMMA NextFolder == FolderInv /\ [Next]_vars => FolderInv'
  <1> SUFFICES ASSUME FolderInv, [Next]_vars PROVE FolderInv'
    OBVIOUS
  <1>1. TypeInv'
    BY NextType DEF FolderInv
  <1>2. SavedIsKept' /\ PrunesIndexed'
    <2>1. CASE UNCHANGED vars
      BY <2>1 DEF FolderInv, SavedIsKept, PrunesIndexed, vars, disk, tables, locals
    <2>2. CASE ~UNCHANGED vars
      BY <2>2, StepCases, SaveKeepsFolder, RestKeepsFolder, MarkKeepsFolder, PruneKeepsFolder
      DEF IndexStep
    <2> QED BY <2>1, <2>2
  <1> QED BY <1>1, <1>2 DEF FolderInv

\* With any number of archivers a saved case without a record keeps its folder:
\* create_archive_bundle (archiver.py) removes only what the index has, so a
\* case is lost through its zip or not at all.
THEOREM UnindexedCasesStay == Spec => []SavedIsKept
  <1>1. FolderInv => SavedIsKept
    BY DEF FolderInv
  <1> QED BY <1>1, InitFolder, NextFolder, PTL DEF Spec

-----------------------------------------------------------------------------
(* One archiver: the invariant *)

OneArchiver == \A a, b \in Archiver : a = b

\* The number in the name of a record's zip is its place in the table.
NumberIsPlace == \A i \in DOMAIN records : records[i].name.number = i

TableInv == NumberIsPlace /\ SavedIsKept /\ IndexedIsZipped

BeforeMark == {"name", "copy", "open", "write", "save", "mark"}

\* Cases that wait to be archived have their folder and no record.
WaitsForBatch(a) ==
    /\ pending[a] \subseteq Unarchived
    /\ pc[a] \in BeforeMark => batch[a] \subseteq Unarchived /\ pending[a] \cap batch[a] = {}
    /\ pc[a] = "prune" => \A c \in left[a] : archived[c] # 0

\* Until its record is saved, the number of a zip is that of the record to come.
NewName(a) ==
    pc[a] \in {"copy", "open", "write", "save"} => name[a].number = Len(records) + 1

CopyIsBatch(a) ==
    /\ pc[a] = "name" => left[a] = batch[a]
    /\ pc[a] = "copy" => \A c \in batch[a] \ left[a] : "case" \in temp[a][c]
    /\ pc[a] \in {"open", "write"} => \A c \in batch[a] : "case" \in temp[a][c]

ZipIsBatch(a) ==
    /\ pc[a] = "save" => /\ name[a] \in DOMAIN zips
                         /\ \A c \in batch[a] : "case" \in zips[name[a]][c]
    /\ pc[a] = "mark" => /\ Len(records) # 0
                         /\ \A c \in batch[a] : InZipOf(c, Len(records))

ArchiverInv(a) == WaitsForBatch(a) /\ NewName(a) /\ CopyIsBatch(a) /\ ZipIsBatch(a)

Inv == TypeInv /\ TableInv /\ \A a \in Archiver : ArchiverInv(a)

-----------------------------------------------------------------------------
(* One archiver: every step keeps the invariant *)

LEMMA InitInv == Init => Inv
  <1> SUFFICES ASSUME Init PROVE Inv
    OBVIOUS
  <1>1. TableInv
    BY DEF Init, TableInv, NumberIsPlace, SavedIsKept, IndexedIsZipped
  <1>2. \A a \in Archiver : ArchiverInv(a)
    BY DEF Init, ArchiverInv, WaitsForBatch, NewName, CopyIsBatch, ZipIsBatch, BeforeMark
  <1> QED BY <1>1, <1>2, InitType DEF Inv

LEMMA SaveKeeps ==
  ASSUME Inv, SaveStep
  PROVE  TableInv' /\ \A a \in Archiver : ArchiverInv(a)'
  <1>1. PICK c \in Case : SaveCase(c) \/ SaveRest(c) \/ AbandonSave(c)
    BY DEF SaveStep
  <1>2. UNCHANGED <<zips, tables, pc, locals>>
    BY <1>1 DEF SaveCase, SaveRest, AbandonSave
  <1>3. folder \in Contents /\ saving \in [Case -> {"unsaved", "half", "saved", "failed"}]
    BY DEF Inv, TypeInv, TypeOK
  <1>4. /\ \A d \in Case : "case" \in folder[d] => "case" \in folder'[d]
        /\ \A d \in Case : saving'[d] # "unsaved" => saving[d] # "unsaved" \/ "case" \in folder'[d]
    <2>1. CASE SaveCase(c)
      BY <1>3, <2>1 DEF SaveCase, Contents
    <2>2. CASE SaveRest(c)
      BY <1>3, <2>2 DEF SaveRest, Contents
    <2>3. CASE AbandonSave(c)
      BY <1>3, <2>3 DEF AbandonSave
    <2> QED BY <1>1, <2>1, <2>2, <2>3
  <1>5. Unarchived \subseteq Unarchived'
    BY <1>2, <1>4 DEF Unarchived, tables
  <1>6. TableInv'
    BY <1>2, <1>4 DEF Inv, TableInv, NumberIsPlace, SavedIsKept, IndexedIsZipped, InZipOf, tables
  <1>7. ASSUME NEW a \in Archiver PROVE ArchiverInv(a)'
    <2>1. ArchiverInv(a)
      BY DEF Inv
    <2>2. WaitsForBatch(a)'
      BY <1>2, <1>5, <2>1 DEF ArchiverInv, WaitsForBatch, tables, locals
    <2>3. NewName(a)' /\ CopyIsBatch(a)' /\ ZipIsBatch(a)'
      BY <1>2, <2>1 DEF ArchiverInv, NewName, CopyIsBatch, ZipIsBatch, InZipOf, tables, locals
    <2> QED BY <2>2, <2>3 DEF ArchiverInv
  <1> QED BY <1>6, <1>7

LEMMA CallKeeps ==
  ASSUME Inv, NEW a \in Archiver, CallStep(a)
  PROVE  TableInv' /\ ArchiverInv(a)'
  <1>1. UNCHANGED <<disk, tables, name, temp>>
    BY DEF CallStep, Scan, TakeBatch, Return, Abandon, disk, tables
  <1>2. TypeOK /\ ArchiverInv(a)
    BY DEF Inv, TypeInv
  <1>3. TableInv' /\ Unarchived' = Unarchived
    BY <1>1 DEF Inv, TableInv, NumberIsPlace, SavedIsKept, IndexedIsZipped, InZipOf, Unarchived,
                disk, tables
  <1>4. CASE Scan(a) \/ Return(a) \/ Abandon(a)
    <2>1. pc'[a] \in {"idle", "take"}
      BY <1>2, <1>4 DEF Scan, Return, Abandon, Goto, TypeOK
    <2>2. pending'[a] \subseteq Unarchived
      BY <1>2, <1>4 DEF Scan, Return, Abandon, TypeOK
    <2> QED BY <1>3, <2>1, <2>2 DEF ArchiverInv, WaitsForBatch, NewName, CopyIsBatch,
                                    ZipIsBatch, BeforeMark
  <1>5. CASE TakeBatch(a)
    <2>1. pc'[a] = "name"
      BY <1>2, <1>5 DEF TakeBatch, Goto, TypeOK
    <2>2. PICK taken \in SUBSET pending[a] :
            /\ batch' = [batch EXCEPT ![a] = taken]
            /\ left' = [left EXCEPT ![a] = taken]
            /\ pending' = [pending EXCEPT ![a] = @ \ taken]
      BY <1>5 DEF TakeBatch
    <2>3. batch'[a] = taken /\ left'[a] = taken /\ pending'[a] = pending[a] \ taken
      BY <1>2, <2>2 DEF TypeOK
    <2>4. pending[a] \subseteq Unarchived
      BY <1>2 DEF ArchiverInv, WaitsForBatch
    <2>5. WaitsForBatch(a)'
      BY <1>3, <2>1, <2>3, <2>4 DEF WaitsForBatch, BeforeMark
    <2>6. NewName(a)' /\ CopyIsBatch(a)' /\ ZipIsBatch(a)'
      BY <2>1, <2>3 DEF NewName, CopyIsBatch, ZipIsBatch
    <2> QED BY <1>3, <2>5, <2>6 DEF ArchiverInv
  <1> QED BY <1>4, <1>5 DEF CallStep

LEMMA SetNameKeeps ==
  ASSUME Inv, NEW a \in Archiver, SetName(a)
  PROVE  TableInv' /\ ArchiverInv(a)'
  <1>1. UNCHANGED <<disk, tables, pending, batch, left>>
    BY DEF SetName, disk, tables
  <1>2. TypeOK /\ ArchiverInv(a)
    BY DEF Inv, TypeInv
  <1>3. TableInv' /\ Unarchived' = Unarchived
    BY <1>1 DEF Inv, TableInv, NumberIsPlace, SavedIsKept, IndexedIsZipped, InZipOf, Unarchived,
                disk, tables
  <1>4. pc[a] = "name" /\ pc'[a] = "copy"
    BY <1>2 DEF SetName, Goto, TypeOK
  <1>5. name'[a].number = Len(records') + 1
    BY <1>1, <1>2 DEF SetName, BatchNumber, TypeOK, tables
  <1>6. WaitsForBatch(a)'
    BY <1>1, <1>2, <1>3, <1>4 DEF ArchiverInv, WaitsForBatch, BeforeMark
  <1>7. CopyIsBatch(a)'
    BY <1>1, <1>2, <1>4 DEF ArchiverInv, CopyIsBatch
  <1>8. NewName(a)' /\ ZipIsBatch(a)'
    BY <1>4, <1>5 DEF NewName, ZipIsBatch
  <1> QED BY <1>3, <1>6, <1>7, <1>8 DEF ArchiverInv

LEMMA CopyKeeps ==
  ASSUME Inv, NEW a \in Archiver, CopyFolder(a)
  PROVE  TableInv' /\ ArchiverInv(a)'
  <1>1. UNCHANGED <<disk, tables, pending, batch, name>>
    BY DEF CopyFolder, disk, tables
  <1>2. TypeOK /\ ArchiverInv(a)
    BY DEF Inv, TypeInv
  <1>3. TableInv' /\ Unarchived' = Unarchived
    BY <1>1 DEF Inv, TableInv, NumberIsPlace, SavedIsKept, IndexedIsZipped, InZipOf, Unarchived,
                disk, tables
  <1>4. PICK c \in left[a] :
          /\ temp' = [temp EXCEPT ![a][c] = folder[c]]
          /\ left' = [left EXCEPT ![a] = @ \ {c}]
    BY DEF CopyFolder
  <1>5. /\ pc[a] = "copy" /\ pc'[a] \in {"copy", "open"}
        /\ pc'[a] = "open" => Cardinality(left[a]) = 1
    BY <1>2 DEF CopyFolder, Goto, TypeOK
  <1>6. left'[a] = left[a] \ {c} /\ c \in Case
    BY <1>2, <1>4 DEF TypeOK
  <1>7. /\ temp'[a][c] = folder[c]
        /\ \A d \in Case \ {c} : temp'[a][d] = temp[a][d]
    BY <1>2, <1>4, <1>6 DEF TypeOK, Contents
  <1>8. batch[a] \subseteq Unarchived /\ batch[a] \subseteq Case
    BY <1>2, <1>5 DEF ArchiverInv, WaitsForBatch, BeforeMark, TypeOK
  <1>9. \A d \in batch[a] \ left'[a] : "case" \in temp'[a][d]
    <2>1. \A d \in batch[a] : "case" \in folder[d]
      BY <1>8 DEF Unarchived
    <2>2. \A d \in batch[a] \ left[a] : "case" \in temp[a][d]
      BY <1>2, <1>5 DEF ArchiverInv, CopyIsBatch
    <2> QED BY <1>6, <1>7, <1>8, <2>1, <2>2
  <1>10. pc'[a] = "open" => left'[a] = {}
    <2>1. IsFiniteSet(left[a])
      BY <1>2, CaseAssumption, FS_Subset DEF TypeOK
    <2> QED BY <1>5, <1>6, <2>1, FS_Singleton
  <1>11. CopyIsBatch(a)'
    BY <1>1, <1>5, <1>9, <1>10 DEF CopyIsBatch
  <1>12. WaitsForBatch(a)'
    BY <1>1, <1>2, <1>3, <1>5 DEF ArchiverInv, WaitsForBatch, BeforeMark
  <1>13. NewName(a)' /\ ZipIsBatch(a)'
    BY <1>1, <1>2, <1>5 DEF ArchiverInv, NewName, ZipIsBatch, tables
  <1> QED BY <1>3, <1>11, <1>12, <1>13 DEF ArchiverInv

\* A zip that is opened or written has a name that no record has.
LEMMA ZipKeeps ==
  ASSUME Inv, NEW a \in Archiver, ZipStep(a)
  PROVE  TableInv' /\ ArchiverInv(a)'
  <1>1. UNCHANGED <<folder, saving, tables, locals>>
    BY DEF ZipStep, OpenZip, WriteZip
  <1>2. TypeOK /\ ArchiverInv(a) /\ TableInv
    BY DEF Inv, TypeInv
  <1>3. /\ pc[a] \in {"open", "write"}
        /\ pc[a] = "open" => pc'[a] = "write" /\ Put(name[a], Nothing)
        /\ pc[a] = "write" => pc'[a] = "save" /\ Put(name[a], temp[a])
    BY <1>2 DEF ZipStep, OpenZip, WriteZip, Goto, TypeOK
  <1>4. name[a] \in Names /\ temp[a] \in Contents /\ Nothing \in Contents
    BY <1>2 DEF TypeOK, Nothing, Contents
  <1>5. /\ DOMAIN zips' = DOMAIN zips \cup {name[a]}
        /\ \A m \in DOMAIN zips : m # name[a] => zips'[m] = zips[m]
        /\ pc[a] = "write" => zips'[name[a]] = temp[a]
    BY <1>2, <1>3, <1>4, PutType
  <1>6. name[a].number = Len(records) + 1
    BY <1>2, <1>3 DEF ArchiverInv, NewName
  <1>7. \A i \in DOMAIN records : records[i].name # name[a]
    BY <1>2, <1>6 DEF TableInv, NumberIsPlace, TypeOK
  <1>8. \A c \in Case, i \in DOMAIN records : InZipOf(c, i) => InZipOf(c, i)'
    BY <1>1, <1>5, <1>7 DEF InZipOf, tables
  <1>9. TableInv'
    <2>1. \A c \in Case : archived[c] # 0 => archived[c] \in DOMAIN records
      BY <1>2 DEF TypeOK
    <2>2. IndexedIsZipped'
      BY <1>1, <1>2, <1>8, <2>1 DEF TableInv, IndexedIsZipped, tables
    <2> QED BY <1>1, <1>2, <2>2 DEF TableInv, NumberIsPlace, SavedIsKept, tables
  <1>10. WaitsForBatch(a)'
    BY <1>1, <1>2, <1>3 DEF ArchiverInv, WaitsForBatch, BeforeMark, Unarchived, tables, locals
  <1>11. NewName(a)' /\ CopyIsBatch(a)'
    BY <1>1, <1>2, <1>3 DEF ArchiverInv, NewName, CopyIsBatch, tables, locals
  <1>12. ZipIsBatch(a)'
    BY <1>1, <1>2, <1>3, <1>5 DEF ArchiverInv, ZipIsBatch, CopyIsBatch, locals
  <1> QED BY <1>9, <1>10, <1>11, <1>12 DEF ArchiverInv

LEMMA RecordKeeps ==
  ASSUME Inv, NEW a \in Archiver, SaveRecord(a)
  PROVE  TableInv' /\ ArchiverInv(a)'
  <1> DEFINE record == [name |-> name[a], cases |-> batch[a], by |-> a]
  <1>1. UNCHANGED <<disk, archived, locals>> /\ records' = Append(records, record)
    BY DEF SaveRecord
  <1>2. TypeOK /\ ArchiverInv(a) /\ TableInv
    BY DEF Inv, TypeInv
  <1>3. pc[a] = "save" /\ pc'[a] = "mark"
    BY <1>2 DEF SaveRecord, Goto, TypeOK
  <1>4. /\ Len(records) \in Nat /\ Len(records') = Len(records) + 1
        /\ DOMAIN records = 1 .. Len(records) /\ DOMAIN records' = 1 .. Len(records) + 1
        /\ records'[Len(records) + 1] = record
        /\ \A i \in DOMAIN records : records'[i] = records[i]
    <2>1. record \in Records
      BY <1>2 DEF TypeOK, Records
    <2> HIDE DEF record
    <2> QED BY <1>1, <1>2, <2>1 DEF TypeOK
  <1>5. NumberIsPlace'
    <2>1. record.name.number = Len(records) + 1
      BY <1>2, <1>3 DEF ArchiverInv, NewName
    <2> HIDE DEF record
    <2> QED BY <1>2, <1>4, <2>1 DEF TableInv, NumberIsPlace
  <1>6. SavedIsKept'
    BY <1>1, <1>2 DEF TableInv, SavedIsKept, disk
  <1>7. IndexedIsZipped'
    <2>1. \A c \in Case : archived[c] # 0 => archived[c] \in DOMAIN records
      BY <1>2 DEF TypeOK
    <2>2. \A c \in Case, i \in DOMAIN records : InZipOf(c, i) => InZipOf(c, i)'
      BY <1>1, <1>4 DEF InZipOf, disk
    <2> QED BY <1>1, <1>2, <2>1, <2>2 DEF TableInv, IndexedIsZipped
  <1>8. WaitsForBatch(a)'
    BY <1>1, <1>2, <1>3 DEF ArchiverInv, WaitsForBatch, BeforeMark, Unarchived, disk, locals
  <1>9. NewName(a)' /\ CopyIsBatch(a)'
    BY <1>3 DEF NewName, CopyIsBatch
  <1>10. ZipIsBatch(a)'
    <2>1. name[a] \in DOMAIN zips /\ \A c \in batch[a] : "case" \in zips[name[a]][c]
      BY <1>2, <1>3 DEF ArchiverInv, ZipIsBatch
    <2>2. Len(records') # 0 /\ records'[Len(records')].name = name[a]
      BY <1>4
    <2> QED BY <1>1, <1>3, <2>1, <2>2 DEF ZipIsBatch, InZipOf, disk, locals
  <1> QED BY <1>5, <1>6, <1>7, <1>8, <1>9, <1>10 DEF TableInv, ArchiverInv

LEMMA MarkKeeps ==
  ASSUME OneArchiver, Inv, NEW a \in Archiver, MarkArchived(a)
  PROVE  TableInv' /\ ArchiverInv(a)'
  <1>1. UNCHANGED <<disk, records, pending, batch>>
    BY DEF MarkArchived
  <1>2. TypeOK /\ ArchiverInv(a) /\ TableInv
    BY DEF Inv, TypeInv
  <1>3. pc[a] = "mark" /\ pc'[a] = "prune"
    BY <1>2 DEF MarkArchived, Goto, TypeOK
  <1>4. Len(records) \in Nat \ {0} /\ DOMAIN records = 1 .. Len(records)
    BY <1>2, <1>3 DEF ArchiverInv, ZipIsBatch, TypeOK
  <1>5. OwnRecord(a) = Len(records)
    <2>1. \A i \in DOMAIN records : records[i].by = a
      <3>1. \A i \in DOMAIN records : records[i] \in Records
        BY <1>2 DEF TypeOK
      <3>2. \A i \in DOMAIN records : records[i].by \in Archiver
        BY <3>1 DEF Records
      <3> QED BY <3>2 DEF OneArchiver
    <2>2. /\ OwnRecord(a) \in DOMAIN records
          /\ \A j \in DOMAIN records : records[j].by = a => j <= OwnRecord(a)
      BY <1>2, <1>4, <2>1, OwnRecordIsLast
    <2> QED BY <1>4, <2>1, <2>2
  <1>6. \A c \in Case : archived'[c] = IF c \in batch[a] THEN Len(records) ELSE archived[c]
    BY <1>5 DEF MarkArchived
  <1>7. left'[a] = batch[a] /\ batch[a] \subseteq Case
    BY <1>2 DEF MarkArchived, TypeOK
  <1>8. SavedIsKept'
    BY <1>1, <1>2, <1>4, <1>6 DEF TableInv, SavedIsKept, disk
  <1>9. IndexedIsZipped'
    <2>1. \A c \in batch[a] : InZipOf(c, Len(records))
      BY <1>2, <1>3 DEF ArchiverInv, ZipIsBatch
    <2>2. \A c \in Case, i \in Nat : InZipOf(c, i)' = InZipOf(c, i)
      BY <1>1 DEF InZipOf, disk
    <2>3. \A c \in Case : archived[c] \in Nat
      BY <1>2 DEF TypeOK
    <2> QED BY <1>2, <1>4, <1>6, <2>1, <2>2, <2>3 DEF TableInv, IndexedIsZipped
  <1>10. WaitsForBatch(a)'
    <2>1. pending[a] \subseteq Unarchived /\ pending[a] \cap batch[a] = {}
      BY <1>2, <1>3 DEF ArchiverInv, WaitsForBatch, BeforeMark
    <2>2. pending'[a] \subseteq Unarchived'
      BY <1>1, <1>6, <2>1 DEF Unarchived, disk
    <2> QED BY <1>3, <1>4, <1>6, <1>7, <2>2 DEF WaitsForBatch, BeforeMark
  <1>11. NewName(a)' /\ CopyIsBatch(a)' /\ ZipIsBatch(a)'
    BY <1>3 DEF NewName, CopyIsBatch, ZipIsBatch
  <1>12. NumberIsPlace'
    BY <1>1, <1>2 DEF TableInv, NumberIsPlace
  <1> QED BY <1>8, <1>9, <1>10, <1>11, <1>12 DEF TableInv, ArchiverInv

LEMMA PruneKeeps ==
  ASSUME Inv, NEW a \in Archiver, PruneFolder(a)
  PROVE  TableInv' /\ ArchiverInv(a)'
  <1>1. UNCHANGED <<saving, zips, tables, pending, batch>>
    BY DEF PruneFolder
  <1>2. TypeOK /\ ArchiverInv(a) /\ TableInv
    BY DEF Inv, TypeInv
  <1>3. PICK c \in left[a] : \E kept \in SUBSET folder[c] :
          /\ folder' = [folder EXCEPT ![c] = kept]
          /\ left' = [left EXCEPT ![a] = @ \ {c}]
    BY DEF PruneFolder
  <1>4. pc[a] = "prune" /\ pc'[a] \in {"take", "prune"}
    BY <1>2 DEF PruneFolder, Goto, TypeOK
  <1>5. archived[c] # 0 /\ \A d \in left[a] : archived[d] # 0
    BY <1>2, <1>4 DEF ArchiverInv, WaitsForBatch
  <1>6. \A d \in Case \ {c} : folder'[d] = folder[d]
    BY <1>2, <1>3 DEF TypeOK, Contents
  <1>7. Unarchived' = Unarchived
    BY <1>1, <1>5, <1>6 DEF Unarchived, tables
  <1>8. TableInv'
    BY <1>1, <1>2, <1>5, <1>6 DEF TableInv, NumberIsPlace, SavedIsKept, IndexedIsZipped, InZipOf,
                                  tables
  <1>9. WaitsForBatch(a)'
    <2>1. left'[a] \subseteq left[a]
      BY <1>2, <1>3 DEF TypeOK
    <2> QED BY <1>1, <1>2, <1>4, <1>5, <1>7, <2>1
            DEF ArchiverInv, WaitsForBatch, BeforeMark, tables
  <1>10. NewName(a)' /\ CopyIsBatch(a)' /\ ZipIsBatch(a)'
    BY <1>4 DEF NewName, CopyIsBatch, ZipIsBatch
  <1> QED BY <1>8, <1>9, <1>10 DEF ArchiverInv

LEMMA NextInv == OneArchiver /\ Inv /\ [Next]_vars => Inv'
  <1> SUFFICES ASSUME OneArchiver, Inv, [Next]_vars PROVE Inv'
    OBVIOUS
  <1>1. TypeInv'
    BY NextType DEF Inv
  <1>2. CASE SaveStep
    BY <1>1, <1>2, SaveKeeps DEF Inv
  <1>3. CASE UNCHANGED vars
    <2>1. TableInv'
      BY <1>3 DEF Inv, TableInv, NumberIsPlace, SavedIsKept, IndexedIsZipped, InZipOf,
                  vars, disk, tables
    <2>2. ASSUME NEW a \in Archiver PROVE ArchiverInv(a)'
      <3>1. ArchiverInv(a)
        BY DEF Inv
      <3> QED BY <1>3, <3>1 DEF ArchiverInv, WaitsForBatch, NewName, CopyIsBatch, ZipIsBatch,
                   InZipOf, Unarchived, vars, disk, tables, locals
    <2> QED BY <1>1, <2>1, <2>2 DEF Inv
  <1>4. ASSUME NEW a \in Archiver, CallStep(a) \/ BundleStep(a) \/ ZipStep(a) \/ IndexStep(a)
        PROVE  Inv'
    <2>1. TableInv' /\ ArchiverInv(a)'
      BY <1>4, CallKeeps, SetNameKeeps, CopyKeeps, ZipKeeps, RecordKeeps, MarkKeeps, PruneKeeps
      DEF BundleStep, IndexStep
    <2>2. \A b \in Archiver : b = a
      BY DEF OneArchiver
    <2> QED BY <1>1, <2>1, <2>2 DEF Inv
  <1> QED BY <1>2, <1>3, <1>4, StepCases

LEMMA InvAlways == OneArchiver => (Spec => []Inv)
  <1>1. OneArchiver /\ Inv /\ [Next]_vars => Inv'
    BY NextInv
  <1>2. CASE OneArchiver
    <2>1. Inv /\ [Next]_vars => Inv'
      BY <1>1, <1>2
    <2> QED BY <2>1, InitInv, PTL DEF Spec
  <1> QED BY <1>2

-----------------------------------------------------------------------------
(* One archiver: what it owes to the cases *)

\* With one archiver a saved case is in its folder or in a zip, whatever
\* create_archive_bundle (archiver.py) has done when it raises or dies.
THEOREM NoCaseIsLost == OneArchiver => (Spec => []NoCaseLost)
  <1>1. Inv => NoCaseLost
    BY DEF Inv, TableInv, SavedIsKept, IndexedIsZipped, InZipOf, NoCaseLost, Zipped
  <1> QED BY <1>1, InvAlways, PTL

\* With one archiver mark_cases_archived (run_store.py) tells the truth: a case
\* is in the zip of the record it points to, for good.
THEOREM IndexTellsTruth == OneArchiver => (Spec => []IndexedIsZipped)
  <1>1. Inv => IndexedIsZipped
    BY DEF Inv, TableInv
  <1> QED BY <1>1, InvAlways, PTL
-----------------------------------------------------------------------------
(* One archiver: records and the index *)

RecordsHaveOwnZips == \A i, j \in DOMAIN records : records[i].name = records[j].name => i = j

\* With one archiver no two rows of case_archives share a zip, though numbers
\* are given out again after a call that died before it saved its record.
THEOREM RecordsDoNotShareZips == OneArchiver => (Spec => []RecordsHaveOwnZips)
  <1>1. Inv => RecordsHaveOwnZips
    BY DEF Inv, TableInv, NumberIsPlace, RecordsHaveOwnZips
  <1> QED BY <1>1, InvAlways, PTL

\* A case that is indexed keeps its record, and records keep what they say.
IndexStays ==
    /\ \A c \in Case : archived[c] # 0 => archived'[c] = archived[c]
    /\ \A i \in DOMAIN records : i \in DOMAIN records' /\ records'[i] = records[i]

LEMMA NextIndexStays ==
  ASSUME Inv, [Next]_vars
  PROVE  IndexStays
  <1>1. CASE UNCHANGED tables
    BY <1>1 DEF IndexStays, tables
  <1>2. ASSUME NEW a \in Archiver, SaveRecord(a) PROVE IndexStays
    <2> DEFINE record == [name |-> name[a], cases |-> batch[a], by |-> a]
    <2>1. records' = Append(records, record) /\ UNCHANGED archived
      BY <1>2 DEF SaveRecord
    <2>2. record \in Records /\ records \in Seq(Records)
      BY DEF Inv, TypeInv, TypeOK, Records
    <2> HIDE DEF record
    <2> QED BY <2>1, <2>2 DEF IndexStays
  <1>3. ASSUME NEW a \in Archiver, MarkArchived(a) PROVE IndexStays
    <2>1. pc[a] = "mark" /\ UNCHANGED records
      BY <1>3 DEF MarkArchived
    <2>2. \A c \in batch[a] : archived[c] = 0
      BY <2>1 DEF Inv, ArchiverInv, WaitsForBatch, BeforeMark, Unarchived
    <2>3. \A c \in Case : archived'[c] = IF c \in batch[a] THEN OwnRecord(a) ELSE archived[c]
      BY <1>3 DEF MarkArchived
    <2> QED BY <2>1, <2>2, <2>3 DEF IndexStays
  <1>4. CASE UNCHANGED vars
    BY <1>1, <1>4 DEF vars
  <1>5. CASE SaveStep
    BY <1>1, <1>5 DEF SaveStep, SaveCase, SaveRest, AbandonSave
  <1>6. ASSUME NEW a \in Archiver, CallStep(a) \/ BundleStep(a) \/ ZipStep(a) \/ PruneFolder(a)
        PROVE  UNCHANGED tables
    BY <1>6 DEF CallStep, Scan, TakeBatch, Return, Abandon, BundleStep, SetName, CopyFolder,
                ZipStep, OpenZip, WriteZip, PruneFolder
  <1> QED BY <1>1, <1>2, <1>3, <1>4, <1>5, <1>6, StepCases DEF IndexStep

\* With one archiver neither archived_cases nor case_archives ever changes what
\* it says of a case: save_archive and mark_cases_archived only add to them.
THEOREM IndexOnlyGrows == OneArchiver => (Spec => [][IndexStays]_vars)
  <1>1. Inv /\ [Next]_vars => IndexStays
    BY NextIndexStays
  <1>2. CASE OneArchiver
    <2>1. Spec => []Inv
      BY <1>2, InvAlways
    <2> QED BY <1>1, <2>1, PTL DEF Spec
  <1> QED BY <1>2
=============================================================================
