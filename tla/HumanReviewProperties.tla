------------------------- MODULE HumanReviewProperties -------------------------
(***************************************************************************)
(* What human review guarantees, whichever requests race and die.          *)
(***************************************************************************)
EXTENDS HumanReview

Decision == [by : Request \cup {None}, kind : {"NONE", "APPROVE", "REJECT"},
             scopes : SUBSET Scope]
Grant    == [review : Review, scope : Scope, by : Request \cup {None}]
Row      == [status : Statuses, decision : Decision]
RunState == [terminal : {"NONE", "SAFETY_STOP", "COMPLETED", "HUMAN_REVIEW_REQUIRED"},
             pending : Review \cup {None}, grants : SUBSET Grant,
             history : Seq(Decision)]

OPCs == {"idle", "load", "pause", "done"}
RPCs == {"idle", "view", "viewClock", "decide", "decideClock", "decideSave",
         "resume", "resumeLoad", "resumeTask", "resumeState", "reply", "done"}

Looking == {"idle", "view", "viewClock", "done"}

\* A request past its arrival names a review, and only one that decides gets
\* past looking at it.
AsksOK == \A q \in Request :
    /\ rpc[q] # "idle" => ask[q].review \in Review
    /\ rpc[q] \notin Looking => ask[q].kind # "VIEW"

\* The type of every variable.
TypeOK ==
    /\ run \in RunState
    /\ row \in [Review -> Row]
    /\ due \in [Review -> BOOLEAN]
    /\ opc \in [Opener -> OPCs]
    /\ rpc \in [Request -> RPCs]
    /\ ask \in [Request -> [kind : Kinds, review : Review \cup {None},
                            scopes : SUBSET Scope]]
    /\ copy \in [Request -> Row]
    /\ held \in [Opener \cup Request -> RunState]
    /\ saved \subseteq Request
    /\ faults \in Nat
    /\ AsksOK

-----------------------------------------------------------------------------
(* Safety *)

\* The documentation's promise: a resumed run never holds a grant broader than
\* the review it was granted for allowed, whoever decided and resumed when.
ScopesBounded == \A g \in run.grants : g.scope \in Allowed[g.review]

\* Every grant, and every decision in the history, was saved as an approval of
\* that very review: a rejection or an expiry never grants anything, even when
\* it overwrites an approval, or is overwritten by one, while a resume is under
\* way.
GrantsBacked ==
    /\ \A g \in run.grants :
         /\ g.by \in saved
         /\ ask[g.by].kind = "APPROVE" /\ ask[g.by].review = g.review
         /\ g.scope \in ask[g.by].scopes
    /\ \A i \in 1..Len(run.history) :
         LET d == run.history[i] IN d.by \in saved /\ d = DecisionOf(d.by)
                                    /\ d.kind = "APPROVE"

\* A run that waits for a human waits for a review that exists: the row is
\* inserted before the run is paused, and no crash comes between unnoticed.
PausedHasReview ==
    run.terminal = "HUMAN_REVIEW_REQUIRED"
        => run.pending # None /\ row[run.pending].status # "NONE"

\* A review that was decided or expired changes only by a thread that had read
\* it OPEN, or, from the approval it read to RESUMED, by one that resumes it.
SettledReviewStays == [][
    \A r \in Review :
        row[r].status \notin {"NONE", "OPEN"} /\ row'[r] # row[r] =>
            \E q \in Request :
                /\ ask[q].review = r
                /\ \/ copy[q].status = "OPEN"
                   \/ copy[q].status = "APPROVED" /\ row'[r].status = "RESUMED"
    ]_vars

-----------------------------------------------------------------------------
(* Liveness *)

\* An approval stays where it is only if a thread died: whoever wins the race to
\* save an approval goes on to resume the run with it.
NoApprovalLeftBehind ==
    <>[](faults = 0 => \A r \in Review : row[r].status # "APPROVED")
=============================================================================
