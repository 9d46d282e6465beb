---------------------------- MODULE CaseArchiver ----------------------------
(***************************************************************************)
(* RollingCaseArchiver: a run's artifacts are saved as a folder of files;  *)
(* an archiver lists the folders the index does not know, copies a batch   *)
(* of them, zips the copy, records the zip, indexes the cases and removes  *)
(* their folders.  Nothing makes these steps one, and nothing keeps two    *)
(* archivers (a driver and the archive request, or two requests) apart.    *)
(*                                                                         *)
(* One tenant: folders, zips and both tables are divided by tenant.        *)
(***************************************************************************)
EXTENDS Naturals, Sequences, FiniteSets

CONSTANTS
    Case,         \* cases whose artifacts are saved, each once
    DayOf,        \* the day of created_at in each case.json
    Today,        \* the day the archiver runs
    Archiver,     \* threads that archive, one call after another
    BatchSize,    \* batch_size, 10 in the code
    MaxCalls,     \* bound: calls of an archiver
    MaxFaults     \* bound: calls that raise or die, folders half removed

ASSUME CaseAssumption == IsFiniteSet(Case) /\ DayOf \in [Case -> Nat] /\ Today \in Nat
ASSUME BoundAssumption == BatchSize \in Nat \ {0} /\ MaxCalls \in Nat /\ MaxFaults \in Nat

VARIABLES
    folder,     \* the files of each case under cases/, {} without a folder
    saving,     \* how far save_case_bundle is with each case
    zips,       \* archives/: from the names that exist to what the zip holds
    records,    \* case_archives, oldest first
    archived,   \* archived_cases: the record of each case, 0 for none
    pc,         \* where each archiver is
    pending,    \* `unarchived`: cases of this call not batched yet
    forced,     \* the call is force_archive
    batch,      \* the cases of the batch
    left,       \* those the loop over the batch has still to visit
    name,       \* archive_filename
    temp,       \* the staging folder
    calls, faults

disk    == <<folder, saving, zips>>
tables  == <<records, archived>>
locals  == <<pending, forced, batch, left, name, temp>>
vars == <<disk, tables, pc, locals, calls, faults>>

\* case.json, written first, and the other artifacts.
Files    == {"case", "rest"}
Contents == [Case -> SUBSET Files]
Nothing  == [c \in Case |-> {}]

Days  == {DayOf[c] : c \in Case} \cup {Today}
Names == [from : Days, to : Days, number : Nat]
NoName == [from |-> Today, to |-> Today, number |-> 0]

Init ==
    /\ folder = Nothing
    /\ saving = [c \in Case |-> "unsaved"]
    /\ zips = [n \in {} |-> Nothing]
    /\ records = <<>>
    /\ archived = [c \in Case |-> 0]
    /\ pc = [a \in Archiver |-> "idle"]
    /\ pending = [a \in Archiver |-> {}]
    /\ forced = [a \in Archiver |-> FALSE]
    /\ batch = [a \in Archiver |-> {}]
    /\ left = [a \in Archiver |-> {}]
    /\ name = [a \in Archiver |-> NoName]
    /\ temp = [a \in Archiver |-> Nothing]
    /\ calls = 0 /\ faults = 0

-----------------------------------------------------------------------------
(* save_case_bundle *)

SaveCase(c) ==
    /\ saving[c] = "unsaved"
    /\ folder' = [folder EXCEPT ![c] = {"case"}]
    /\ saving' = [saving EXCEPT ![c] = "half"]
    /\ UNCHANGED <<zips, tables, pc, locals, calls, faults>>

\* The folder may have been archived and removed meanwhile: the write raises.
SaveRest(c) ==
    /\ saving[c] = "half"
    /\ IF folder[c] = {} THEN UNCHANGED folder
                         ELSE folder' = [folder EXCEPT ![c] = @ \cup {"rest"}]
    /\ saving' = [saving EXCEPT ![c] = IF folder[c] = {} THEN "failed" ELSE "saved"]
    /\ UNCHANGED <<zips, tables, pc, locals, calls, faults>>

-----------------------------------------------------------------------------
(* get_unarchived_case_ids, check_and_archive, force_archive *)

Goto(a, label) == pc' = [pc EXCEPT ![a] = label]

Unarchived == {c \in Case : "case" \in folder[c] /\ archived[c] = 0}

\* Both calls list the pending cases once.
Scan(a) ==
    /\ pc[a] = "idle" /\ calls < MaxCalls
    /\ calls' = calls + 1
    /\ pending' = [pending EXCEPT ![a] = Unarchived]
    /\ \E f \in BOOLEAN : forced' = [forced EXCEPT ![a] = f]
    /\ Goto(a, "take")
    /\ UNCHANGED <<disk, tables, batch, left, name, temp, faults>>

Enough(a) == IF forced[a] THEN pending[a] # {} ELSE Cardinality(pending[a]) >= BatchSize

\* force_archive takes all, check_and_archive as many as a batch has.  Which of
\* them depends on the folders' modification times.
TakeBatch(a) ==
    /\ pc[a] = "take" /\ Enough(a)
    /\ \E taken \in SUBSET pending[a] :
        /\ Cardinality(taken) = (IF forced[a] THEN Cardinality(pending[a]) ELSE BatchSize)
        /\ batch' = [batch EXCEPT ![a] = taken]
        /\ left' = [left EXCEPT ![a] = taken]
        /\ pending' = [pending EXCEPT ![a] = @ \ taken]
    /\ Goto(a, "name")
    /\ UNCHANGED <<disk, tables, forced, name, temp, calls, faults>>

Return(a) ==
    /\ pc[a] = "take" /\ ~Enough(a)
    /\ pending' = [pending EXCEPT ![a] = {}]
    /\ Goto(a, "idle")
    /\ UNCHANGED <<disk, tables, forced, batch, left, name, temp, calls, faults>>

-----------------------------------------------------------------------------
(* create_archive_bundle *)

\* Mutant of BatchNumber: the default of batch_number is the first batch.
FirstBatchNumber == 1

\* existing_archives_count + 1
BatchNumber == Len(records) + 1

Earliest(D) == CHOOSE d \in D : \A e \in D : d <= e
Latest(D)   == CHOOSE d \in D : \A e \in D : e <= d

\* The dates come from the case files still there, or from the clock.
SetName(a) ==
    /\ pc[a] = "name"
    /\ LET dated == {DayOf[c] : c \in {b \in batch[a] : "case" \in folder[b]}}
           days  == IF dated = {} THEN {Today} ELSE dated
       IN  name' = [name EXCEPT ![a] =
               [from |-> Earliest(days), to |-> Latest(days), number |-> BatchNumber]]
    /\ temp' = [temp EXCEPT ![a] = Nothing]
    /\ Goto(a, "copy")
    /\ UNCHANGED <<disk, tables, pending, forced, batch, left, calls, faults>>

\* One folder after another, if it is still there.
CopyFolder(a) ==
    /\ pc[a] = "copy"
    /\ \E c \in left[a] :
        /\ temp' = [temp EXCEPT ![a][c] = folder[c]]
        /\ left' = [left EXCEPT ![a] = @ \ {c}]
    /\ Goto(a, IF Cardinality(left[a]) = 1 THEN "open" ELSE "copy")
    /\ UNCHANGED <<disk, tables, pending, forced, batch, name, calls, faults>>

Put(n, content) == zips' = [m \in DOMAIN zips \cup {n} |-> IF m = n THEN content ELSE zips[m]]

\* Mutant of WriteZip: the file is not closed before the archive is recorded.
WriteZipUnflushed(a) ==
    /\ pc[a] = "write"
    /\ Goto(a, "save")
    /\ UNCHANGED <<disk, tables, locals, calls, faults>>

\* ZipFile(mode="w") empties a file of this name.
OpenZip(a) ==
    /\ pc[a] = "open"
    /\ Put(name[a], Nothing)
    /\ Goto(a, "write")
    /\ UNCHANGED <<folder, saving, tables, locals, calls, faults>>

WriteZip(a) ==
    /\ pc[a] = "write"
    /\ Put(name[a], temp[a])
    /\ Goto(a, "save")
    /\ UNCHANGED <<folder, saving, tables, locals, calls, faults>>

\* Mutant of SaveRecord: the cases are not marked, since the record lists them.
SaveRecordOnly(a) ==
    /\ pc[a] = "save"
    /\ records' = Append(records, [name |-> name[a], cases |-> batch[a], by |-> a])
    /\ left' = [left EXCEPT ![a] = batch[a]]
    /\ Goto(a, "prune")
    /\ UNCHANGED <<disk, archived, pending, forced, batch, name, temp, calls, faults>>

\* save_archive, then mark_cases_archived: two transactions.
SaveRecord(a) ==
    /\ pc[a] = "save"
    /\ records' = Append(records, [name |-> name[a], cases |-> batch[a], by |-> a])
    /\ Goto(a, "mark")
    /\ UNCHANGED <<disk, archived, locals, calls, faults>>

\* The record this archiver saved last.
OwnRecord(a) == CHOOSE i \in DOMAIN records :
    /\ records[i].by = a
    /\ \A j \in DOMAIN records : records[j].by = a => j <= i

MarkArchived(a) ==
    /\ pc[a] = "mark"
    /\ archived' = [c \in Case |-> IF c \in batch[a] THEN OwnRecord(a) ELSE archived[c]]
    /\ left' = [left EXCEPT ![a] = batch[a]]
    /\ Goto(a, "prune")
    /\ UNCHANGED <<disk, records, pending, forced, batch, name, temp, calls, faults>>

\* rmtree ignores what it cannot remove.
PruneFolder(a) ==
    /\ pc[a] = "prune"
    /\ \E c \in left[a] : \E kept \in SUBSET folder[c] :
        /\ IF kept = {} THEN faults' = faults ELSE faults < MaxFaults /\ faults' = faults + 1
        /\ folder' = [folder EXCEPT ![c] = kept]
        /\ left' = [left EXCEPT ![a] = @ \ {c}]
    /\ Goto(a, IF Cardinality(left[a]) = 1 THEN "take" ELSE "prune")
    /\ UNCHANGED <<saving, zips, tables, pending, forced, batch, name, temp, calls>>

\* A call raises, or its process dies, at any step.
Abandon(a) ==
    /\ pc[a] # "idle"
    /\ faults < MaxFaults /\ faults' = faults + 1
    /\ Goto(a, "idle")
    /\ pending' = [pending EXCEPT ![a] = {}]
    /\ UNCHANGED <<disk, tables, forced, batch, left, name, temp, calls>>

AbandonSave(c) ==
    /\ saving[c] = "half"
    /\ faults < MaxFaults /\ faults' = faults + 1
    /\ saving' = [saving EXCEPT ![c] = "failed"]
    /\ UNCHANGED <<folder, zips, tables, pc, locals, calls>>

ArchiverStep(a) ==
    \/ Scan(a) \/ TakeBatch(a) \/ Return(a)
    \/ SetName(a) \/ CopyFolder(a) \/ OpenZip(a) \/ WriteZip(a)
    \/ SaveRecord(a) \/ MarkArchived(a) \/ PruneFolder(a)
    \/ Abandon(a)

Next ==
    \/ \E c \in Case : SaveCase(c) \/ SaveRest(c) \/ AbandonSave(c)
    \/ \E a \in Archiver : ArchiverStep(a)

Spec == Init /\ [][Next]_vars
=============================================================================
