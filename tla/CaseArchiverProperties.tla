----------------------- MODULE CaseArchiverProperties -----------------------
(***************************************************************************)
(* What the archiver owes to the cases it removes.  One archiver at a time *)
(* keeps it, whatever raises or dies; two of them do not.                  *)
(***************************************************************************)
EXTENDS CaseArchiver

Labels == {"idle", "take", "name", "copy", "open", "write", "save", "mark", "prune"}

Records == [name : Names, cases : SUBSET Case, by : Archiver]

\* The type of every variable; the index names records there are.
TypeOK ==
    /\ folder \in Contents
    /\ saving \in [Case -> {"unsaved", "half", "saved", "failed"}]
    /\ DOMAIN zips \subseteq Names /\ zips \in [DOMAIN zips -> Contents]
    /\ records \in Seq(Records)
    /\ archived \in [Case -> 0 .. Len(records)]
    /\ pc \in [Archiver -> Labels]
    /\ pending \in [Archiver -> SUBSET Case] /\ forced \in [Archiver -> BOOLEAN]
    /\ batch \in [Archiver -> SUBSET Case] /\ left \in [Archiver -> SUBSET Case]
    /\ name \in [Archiver -> Names]
    /\ temp \in [Archiver -> Contents]
    /\ calls \in 0 .. MaxCalls /\ faults \in 0 .. MaxFaults

\* A saved case keeps its folder until the index has it, whatever archivers do
\* at the same time: a case can only be lost through its zip.
SavedIsKept == \A c \in Case : saving[c] # "unsaved" /\ archived[c] = 0 => "case" \in folder[c]

Zipped(c) == \E n \in DOMAIN zips : "case" \in zips[n][c]

\* "Prune individual uncompressed case folders that are now archived": a case
\* once saved is in its folder or in a zip, whatever is interrupted.
NoCaseLost == \A c \in Case :
    saving[c] # "unsaved" => "case" \in folder[c] \/ Zipped(c)

InZipOf(c, i) == records[i].name \in DOMAIN zips /\ "case" \in zips[records[i].name][c]

\* A case the index calls archived is in the zip of the record it points to, so
\* that no later archiver, or crash, has made the index lie.
IndexedIsZipped == \A c \in Case : archived[c] # 0 => InZipOf(c, archived[c])
=============================================================================
