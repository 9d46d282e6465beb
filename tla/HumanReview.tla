------------------------------ MODULE HumanReview ------------------------------
(***************************************************************************)
(* Human review of one run: the review_tasks rows and the `runs` row of    *)
(* SQLiteRunStore (persistence/run_store.py), and the threads that work on *)
(* them: create_review_task, the decide endpoint of web.py (which decides  *)
(* and then resumes in one request) and the chat endpoint (which only      *)
(* looks at a review, and thereby may expire it).                          *)
(*                                                                         *)
(* Every store call opens a connection of its own, so a request is a       *)
(* sequence of separate reads and blind writes of whole rows.  The version *)
(* column of `runs` is left out, since none of these callers compares it.  *)
(* A worker that saves the run from its session is the action SaveSession. *)
(* Its openers are callers of the store that keep the token they are given *)
(* (the web driver drops its own, and is modelled in RunDriver).           *)
(***************************************************************************)
EXTENDS Naturals, Sequences, FiniteSets

CONSTANTS
    Opener,     \* calls of create_review_task; each names the review it opens
    Request,    \* HTTP requests; each also names the decision it would make
    Scope,      \* authorization scopes
    Allowed,    \* allowed_scopes of the review each opener opens
    None,       \* no review, no decision
    MaxFaults   \* bound: threads that die

ASSUME AllowedAssumption == Allowed \in [Opener -> SUBSET Scope]
ASSUME NoneAssumption == None \notin Opener /\ None \notin Request
ASSUME FaultAssumption == MaxFaults \in Nat

Review == Opener

VARIABLES
    run,     \* state_json of the run: what review and resume touch of it
    row,     \* review_tasks: status and decision of each review
    due,     \* expires_at of each review has passed
    opc,     \* where each create_review_task is
    rpc,     \* where each request is
    ask,     \* what each request asks for
    copy,    \* the HumanReviewTask object a request works on
    held,    \* the run state a thread loaded and has not saved
    saved,   \* requests whose decision _save_task wrote
    faults   \* faults so far

vars == <<run, row, due, opc, rpc, ask, copy, held, saved, faults>>

Kinds    == {"VIEW", "APPROVE", "REJECT"}
Statuses == {"NONE", "OPEN", "APPROVED", "REJECTED", "EXPIRED", "RESUMED"}

NoDecision == [by |-> None, kind |-> "NONE", scopes |-> {}]
Absent     == [status |-> "NONE", decision |-> NoDecision]
NoAsk      == [kind |-> "VIEW", review |-> None, scopes |-> {}]

\* A run state without the grants and the history that only resume_run adds.
SessionState(terminal) ==
    [terminal |-> terminal, pending |-> None, grants |-> {}, history |-> <<>>]

Init ==
    /\ run = SessionState("NONE")
    /\ row = [r \in Review |-> Absent]
    /\ due = [r \in Review |-> FALSE]
    /\ opc = [o \in Opener |-> "idle"]
    /\ rpc = [q \in Request |-> "idle"]
    /\ ask = [q \in Request |-> NoAsk]
    /\ copy = [q \in Request |-> Absent]
    /\ held = [p \in Opener \cup Request |-> SessionState("NONE")]
    /\ saved = {}
    /\ faults = 0

-----------------------------------------------------------------------------
(* create_review_task: INSERT the row, load the run, save it as paused     *)

OpenReview(o) ==
    /\ opc[o] = "idle"
    /\ row' = [row EXCEPT ![o] = [status |-> "OPEN", decision |-> NoDecision]]
    /\ opc' = [opc EXCEPT ![o] = "load"]
    /\ UNCHANGED <<run, due, rpc, ask, copy, held, saved, faults>>

OpenerLoads(o) ==
    /\ opc[o] = "load"
    /\ held' = [held EXCEPT ![o] = run]
    /\ opc' = [opc EXCEPT ![o] = "pause"]
    /\ UNCHANGED <<run, row, due, rpc, ask, copy, saved, faults>>

\* Mutant: the review is not recorded in the run.
PausedWithoutReview(state, r) ==
    [state EXCEPT !.terminal = "HUMAN_REVIEW_REQUIRED"]

Paused(state, r) ==
    [state EXCEPT !.pending = r, !.terminal = "HUMAN_REVIEW_REQUIRED"]

PauseRun(o) ==
    /\ opc[o] = "pause"
    /\ run' = Paused(held[o], o)
    /\ held' = [held EXCEPT ![o] = SessionState("NONE")]
    /\ opc' = [opc EXCEPT ![o] = "done"]
    /\ UNCHANGED <<row, due, rpc, ask, copy, saved, faults>>

-----------------------------------------------------------------------------
(* A request.  Both endpoints first look at the review (get_review_task);  *)
(* decide then reads it again in decide_review_task and in resume_run.     *)

RequestGoto(q, label) == rpc' = [rpc EXCEPT ![q] = label]

Done(q) ==
    /\ RequestGoto(q, "done")
    /\ copy' = [copy EXCEPT ![q] = Absent]

\* A request about a review whose token was handed out.  (With a wrong token
\* the decide endpoint has the effects of looking.)
Arrive(q) ==
    /\ rpc[q] = "idle"
    /\ \E k \in Kinds, r \in Review, S \in SUBSET Scope :
         /\ row[r].status # "NONE"
         /\ k = "VIEW" => S = {}
         /\ ask' = [ask EXCEPT ![q] = [kind |-> k, review |-> r, scopes |-> S]]
    /\ RequestGoto(q, "view")
    /\ UNCHANGED <<run, row, due, opc, copy, held, saved, faults>>

\* get_review_task reads the row; only if it is OPEN is the clock looked at.
Fetch(q, clock, next) ==
    LET t == row[ask[q].review] IN
    /\ copy' = [copy EXCEPT ![q] = t]
    /\ RequestGoto(q, IF t.status = "OPEN" THEN clock ELSE next)
    /\ UNCHANGED <<run, row, due, opc, ask, held, saved, faults>>

Expired(q) == [copy[q] EXCEPT !.status = "EXPIRED"]

\* The task is past its expires_at: it is written back as EXPIRED.
ExpireCopy(q) ==
    /\ due[ask[q].review]
    /\ row' = [row EXCEPT ![ask[q].review] = Expired(q)]

AfterView(q) == IF ask[q].kind = "VIEW" THEN "done" ELSE "decide"

View(q) == rpc[q] = "view" /\ Fetch(q, "viewClock", AfterView(q))

ViewClock(q) ==
    /\ rpc[q] = "viewClock"
    /\ \/ ExpireCopy(q)
       \/ ~due[ask[q].review] /\ UNCHANGED row
    /\ RequestGoto(q, AfterView(q))
    /\ copy' = [copy EXCEPT ![q] = Absent]
    /\ UNCHANGED <<run, due, opc, ask, held, saved, faults>>

\* decide_review_task of a task that is not OPEN raises.
DecideFetch(q, clock) == rpc[q] = "decide" /\ Fetch(q, clock, "done")

Decide(q) == DecideFetch(q, "decideClock")

ScopesAccepted(q) ==
    /\ ask[q].scopes \subseteq Allowed[ask[q].review]
    /\ ask[q].kind = "REJECT" => ask[q].scopes = {}

\* It was OPEN; the clock and the arguments decide.
DecideClock(q) ==
    /\ rpc[q] = "decideClock"
    /\ \/ ExpireCopy(q) /\ Done(q)
       \/ /\ ~due[ask[q].review]
          /\ UNCHANGED row
          /\ \/ ScopesAccepted(q) /\ RequestGoto(q, "decideSave") /\ UNCHANGED copy
             \/ ~ScopesAccepted(q) /\ Done(q)
    /\ UNCHANGED <<run, due, opc, ask, held, saved, faults>>

DecisionOf(q) == [by |-> q, kind |-> ask[q].kind, scopes |-> ask[q].scopes]

Decided(q) ==
    [status |-> IF ask[q].kind = "APPROVE" THEN "APPROVED" ELSE "REJECTED",
     decision |-> DecisionOf(q)]

\* _save_task: the whole row, by task_id alone.
DecideSave(q) ==
    /\ rpc[q] = "decideSave"
    /\ row' = [row EXCEPT ![ask[q].review] = Decided(q)]
    /\ saved' = saved \cup {q}
    /\ IF ask[q].kind = "APPROVE"
         THEN RequestGoto(q, "resume") /\ copy' = [copy EXCEPT ![q] = Absent]
         ELSE Done(q)
    /\ UNCHANGED <<run, due, opc, ask, held, faults>>

\* Mutants: a run may be resumed whatever was decided; only by an open task.
ResumableAny(t) == t.decision # NoDecision
ResumableOpen(t) == t.status = "OPEN"

Resumable(t) == t.status = "APPROVED" /\ t.decision # NoDecision

\* resume_run reads the task again.  (It cannot be OPEN: a decision was saved.)
ResumeRead(q) ==
    /\ rpc[q] = "resume"
    /\ LET t == row[ask[q].review] IN
         IF Resumable(t)
           THEN RequestGoto(q, "resumeLoad") /\ copy' = [copy EXCEPT ![q] = t]
           ELSE Done(q)
    /\ UNCHANGED <<run, row, due, opc, ask, held, saved, faults>>

ResumeLoad(q) ==
    /\ rpc[q] = "resumeLoad"
    /\ held' = [held EXCEPT ![q] = run]
    /\ RequestGoto(q, "resumeTask")
    /\ UNCHANGED <<run, row, due, opc, ask, copy, saved, faults>>

\* The task is marked RESUMED before the run is saved.
ResumeTask(q) ==
    /\ rpc[q] = "resumeTask"
    /\ row' = [row EXCEPT ![ask[q].review] = [copy[q] EXCEPT !.status = "RESUMED"]]
    /\ RequestGoto(q, "resumeState")
    /\ UNCHANGED <<run, due, opc, ask, copy, held, saved, faults>>

GrantsOf(r, d) == {[review |-> r, scope |-> s, by |-> d.by] : s \in d.scopes}

Resumed(state, r, d) ==
    [terminal |-> "NONE", pending |-> None,
     grants |-> state.grants \cup GrantsOf(r, d),
     history |-> Append(state.history, d)]

ResumeState(q) ==
    /\ rpc[q] = "resumeState"
    /\ run' = Resumed(held[q], ask[q].review, copy[q].decision)
    /\ held' = [held EXCEPT ![q] = SessionState("NONE")]
    /\ RequestGoto(q, "reply")
    /\ copy' = [copy EXCEPT ![q] = Absent]
    /\ UNCHANGED <<row, due, opc, ask, saved, faults>>

\* The endpoint enqueues the workflow again (DurableQueue's Enqueue) and answers.
Reply(q) ==
    /\ rpc[q] = "reply"
    /\ RequestGoto(q, "done")
    /\ UNCHANGED <<run, row, due, opc, ask, copy, held, saved, faults>>

-----------------------------------------------------------------------------
(* The environment                                                         *)

ReviewDue(r) ==
    /\ row[r].status # "NONE"
    /\ ~due[r]
    /\ due' = [due EXCEPT ![r] = TRUE]
    /\ UNCHANGED <<run, row, opc, rpc, ask, copy, held, saved, faults>>

\* A worker saves its ADK session state over the run (ADK_RUN_SNAPSHOT).
SaveSession(terminal) ==
    /\ run' = SessionState(terminal)
    /\ UNCHANGED <<row, due, opc, rpc, ask, copy, held, saved, faults>>

\* The thread dies, or the store raises: what was written stays.
RequestDies(q) ==
    /\ rpc[q] \notin {"idle", "done"}
    /\ faults < MaxFaults
    /\ faults' = faults + 1
    /\ Done(q)
    /\ held' = [held EXCEPT ![q] = SessionState("NONE")]
    /\ UNCHANGED <<run, row, due, opc, ask, saved>>

OpenerDies(o) ==
    /\ opc[o] \in {"load", "pause"}
    /\ faults < MaxFaults
    /\ faults' = faults + 1
    /\ opc' = [opc EXCEPT ![o] = "done"]
    /\ held' = [held EXCEPT ![o] = SessionState("NONE")]
    /\ UNCHANGED <<run, row, due, rpc, ask, copy, saved>>

OpenerStep(o) == OpenReview(o) \/ OpenerLoads(o) \/ PauseRun(o)

RequestStep(q) ==
    \/ View(q)       \/ ViewClock(q)
    \/ Decide(q)     \/ DecideClock(q) \/ DecideSave(q)
    \/ ResumeRead(q) \/ ResumeLoad(q)  \/ ResumeTask(q) \/ ResumeState(q)
    \/ Reply(q)

Next ==
    \/ \E o \in Opener : OpenerStep(o) \/ OpenerDies(o)
    \/ \E q \in Request : Arrive(q) \/ RequestStep(q) \/ RequestDies(q)
    \/ \E r \in Review : ReviewDue(r)
    \/ \E t \in {"NONE", "SAFETY_STOP", "COMPLETED"} : SaveSession(t)

Spec == Init /\ [][Next]_vars

\* A request and a create_review_task that no fault stops run to their end.
FairSpec ==
    /\ Spec
    /\ \A q \in Request : WF_vars(RequestStep(q))
    /\ \A o \in Opener : WF_vars(OpenerLoads(o) \/ PauseRun(o))
=============================================================================
