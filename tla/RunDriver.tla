------------------------------ MODULE RunDriver ------------------------------
(***************************************************************************)
(* The web driver (web.py): run_workflow admits a run, enqueues its task   *)
(* and runs ONE worker step; the handler runs the agent graph, snapshots   *)
(* the ADK session into the run store and opens a review, or approves by   *)
(* itself, when the graph stopped for safety.  An automatic approval       *)
(* enqueues a second task and starts a resume thread with a worker of its  *)
(* own.  A review is the end of the run here: its resume token is dropped  *)
(* as soon as it is made (web.py:2190) and only its hash is stored, so no  *)
(* request can decide a review the driver opened.                          *)
(*                                                                         *)
(* A worker step claims the oldest waiting task of ANY run, while its      *)
(* handler is a closure over the run of its own thread: `job` is the task  *)
(* a thread was given, the thread itself says whose graph it runs.         *)
(*                                                                         *)
(* The queue is taken at the grain of whole operations.  DurableQueue      *)
(* models the steps inside them, leases and heartbeats; GateWorkflow the   *)
(* graph, of which only the way it ends is kept; HumanReview the decision  *)
(* of a review whose opener kept the token.                                *)
(***************************************************************************)
EXTENDS Naturals, Sequences, FiniteSets

CONSTANTS
    Run,             \* runs a request may start; each has one driver thread
    Slot,            \* resume threads, one for each automatic approval
    NoRun,           \* the run of a resume thread not yet started
    MaxActiveRuns,   \* OPERATION_SETTINGS.max_active_runs
    MaxQueueDepth,   \* OPERATION_SETTINGS.max_queue_depth
    MaxAttempts,     \* max_attempts of every task (3 in the code)
    MaxFaults        \* bound: calls that raise, and deaths of the server process

ASSUME RunAssumption == IsFiniteSet(Run) /\ NoRun \notin Run
ASSUME SlotAssumption ==
    IsFiniteSet(Slot) /\ Run \cap Slot = {}
ASSUME LimitAssumption ==
    /\ MaxActiveRuns \in Nat \ {0}
    /\ MaxQueueDepth \in Nat \ {0}
    /\ MaxAttempts \in Nat \ {0}
    /\ MaxFaults \in Nat

Thread == Run \cup Slot

VARIABLES
    active,    \* RunAdmissionController._active
    queue,     \* task_queue in created_at order: records run, status, attempt
    control,   \* run_controls.status of each run, "NONE" before create_run
    state,     \* runs.state_json of each run
    session,   \* the ADK session state of each run
    reviews,   \* review tasks opened for each run
    pc,        \* where each thread is
    bound,     \* the run a resume thread was started for
    job,       \* index of the task the thread's worker holds, 0 for none
    copy,      \* the handler's local SupportMasterState
    loaded,    \* the run create_review_task has loaded and not saved
    ran,       \* runs whose graph has been run
    resumes,   \* tasks enqueued by automatic approvals
    faults     \* calls that raised, and deaths of the process

storeVars  == <<queue, control, state>>
locals     == <<copy, loaded>>
threadVars == <<pc, bound, job, locals>>
vars == <<active, storeVars, session, reviews, threadVars, ran, resumes, faults>>

Waiting    == {"PENDING", "RETRY_WAIT"}
Active     == Waiting \cup {"RUNNING"}
Executable == {"RUNNABLE", "RUNNING"}

\* Of a run's state: the terminal status the graph or a review leaves, and
\* whether it carries the grants of an automatic approval.  pending_human_review is set
\* exactly with HUMAN_REVIEW_REQUIRED.
Stops == {"none", "SAFETY_STOP", "HUMAN_REVIEW_REQUIRED"}
States == [stop : Stops, granted : BOOLEAN]
Fresh == [stop |-> "none", granted |-> FALSE]

Init ==
    /\ active = {}
    /\ queue = <<>>
    /\ control = [r \in Run |-> "NONE"]
    /\ state = [r \in Run |-> Fresh]
    /\ session = [r \in Run |-> Fresh]
    /\ reviews = [r \in Run |-> 0]
    /\ pc = [th \in Thread |-> "new"]
    /\ bound = [s \in Slot |-> NoRun]
    /\ job = [th \in Thread |-> 0]
    /\ copy = [th \in Thread |-> Fresh]
    /\ loaded = [th \in Thread |-> Fresh]
    /\ ran = {}
    /\ resumes = 0
    /\ faults = 0

-----------------------------------------------------------------------------
(* Building blocks *)

Goto(th, label) == pc' = [pc EXCEPT ![th] = label]

\* The run a thread's execute_task closure is bound to.
RunOf(th) == IF th \in Run THEN th ELSE bound[th]

NewTask(r) == [run |-> r, status |-> "PENDING", attempt |-> 0]

\* active_queue_depth: tasks that are waiting or running.
Depth == Cardinality({i \in DOMAIN queue : queue[i].status \in Active})

Settle(i, status) == queue' = [queue EXCEPT ![i].status = status]

\* A RUNNING task no thread works on: its process died, or the store raised
\* while the task was being released.  Its lease will lapse.
Orphans == {i \in DOMAIN queue :
    queue[i].status = "RUNNING" /\ \A th \in Thread : job[th] # i}

-----------------------------------------------------------------------------
(* run_workflow and _run_workflow up to the worker step *)

\* Mutant of Admit: the limit itself is still let in.
AdmitAtLimit(r) ==
    /\ pc[r] = "new"
    /\ Cardinality(active) <= MaxActiveRuns
    /\ active' = active \cup {r}
    /\ Goto(r, "depth")
    /\ UNCHANGED <<storeVars, session, reviews, bound, job, locals, ran, resumes, faults>>

\* RUN_ADMISSION.lease: a run is admitted while there is room.
Admit(r) ==
    /\ pc[r] = "new"
    /\ Cardinality(active) < MaxActiveRuns
    /\ active' = active \cup {r}
    /\ Goto(r, "depth")
    /\ UNCHANGED <<storeVars, session, reviews, bound, job, locals, ran, resumes, faults>>

\* Mutant of CheckDepth: a queue that is exactly full still takes a task.
CheckDepthTooLate(r) ==
    /\ pc[r] = "depth"
    /\ Goto(r, IF Depth > MaxQueueDepth THEN "leave" ELSE "create")
    /\ UNCHANGED <<active, storeVars, session, reviews, bound, job, locals, ran, resumes, faults>>

\* The queue depth is read once, long before the task is enqueued.
CheckDepth(r) ==
    /\ pc[r] = "depth"
    /\ Goto(r, IF Depth >= MaxQueueDepth THEN "leave" ELSE "create")
    /\ UNCHANGED <<active, storeVars, session, reviews, bound, job, locals, ran, resumes, faults>>

\* Case, investigation, planning, ADK session, then create_run.
CreateRun(r) ==
    /\ pc[r] = "create"
    /\ control' = [control EXCEPT ![r] = "RUNNABLE"]
    /\ Goto(r, "enqueue")
    /\ UNCHANGED <<active, queue, state, session, reviews, bound, job, locals, ran, resumes, faults>>

Enqueue(r) ==
    /\ pc[r] = "enqueue"
    /\ queue' = Append(queue, NewTask(r))
    /\ Goto(r, "claim")
    /\ UNCHANGED <<active, control, state, session, reviews, bound, job, locals, ran, resumes, faults>>

-----------------------------------------------------------------------------
(* One worker step: run_once_async *)

\* claim_next_task first expires the lapsed leases L.
Expired(L) == [i \in DOMAIN queue |->
    IF i \notin L THEN queue[i]
    ELSE [queue[i] EXCEPT !.status =
              IF queue[i].attempt < MaxAttempts THEN "RETRY_WAIT" ELSE "FAILED"]]

Claimable(q) == {i \in DOMAIN q :
    q[i].status \in Waiting /\ control[q[i].run] \in Executable}

\* The backoff of fail_task may still be running; that of an expiry never is.
BackingOff(q, i, L) == q[i].status = "RETRY_WAIT" /\ i \notin L

\* The oldest task of any executable run, older ones backing off.
Claim(th) ==
    /\ pc[th] = "claim"
    /\ \E L \in SUBSET Orphans :
        LET q == Expired(L) IN
        \E i \in Claimable(q) :
            /\ \A j \in Claimable(q) : j < i => BackingOff(q, j, L)
            /\ queue' = [q EXCEPT ![i].status = "RUNNING", ![i].attempt = @ + 1]
            /\ control' = [control EXCEPT ![q[i].run] = "RUNNING"]
            /\ job' = [job EXCEPT ![th] = i]
    /\ Goto(th, "graph")
    /\ UNCHANGED <<active, state, session, reviews, bound, locals, ran, resumes, faults>>

\* Mutant of ClaimNothing: the driver does not look at what the worker returned.
ClaimNothingUnnoticed(th) ==
    /\ pc[th] = "claim"
    /\ \E L \in SUBSET Orphans :
        /\ \A i \in Claimable(Expired(L)) : BackingOff(Expired(L), i, L)
        /\ queue' = Expired(L)
    /\ Goto(th, "mark")
    /\ UNCHANGED <<active, control, state, session, reviews, bound, job, locals, ran, resumes, faults>>

\* Nothing to claim: the driver raises, a resume thread just returns.
ClaimNothing(th) ==
    /\ pc[th] = "claim"
    /\ \E L \in SUBSET Orphans :
        /\ \A i \in Claimable(Expired(L)) : BackingOff(Expired(L), i, L)
        /\ queue' = Expired(L)
    /\ Goto(th, "leave")
    /\ UNCHANGED <<active, control, state, session, reviews, bound, job, locals, ran, resumes, faults>>

\* execute_task runs the graph of the thread's own run on its session.  A driver
\* turns an exception of the runner into made-up events and goes on; a resume
\* thread lets it fail the task.
Graph(th) ==
    /\ pc[th] = "graph"
    /\ \E stop \in {"none", "SAFETY_STOP"} :
        session' = [session EXCEPT ![RunOf(th)].stop = stop]
    /\ ran' = ran \cup {RunOf(th)}
    /\ \/ Goto(th, "snapshot")
       \/ th \in Slot /\ Goto(th, "fail")
    /\ UNCHANGED <<active, storeVars, reviews, bound, job, locals, resumes, faults>>

\* Mutant of Snapshot: saved under the run of the claimed task.
SnapshotOfClaimedRun(th) ==
    /\ pc[th] = "snapshot"
    /\ copy' = [copy EXCEPT ![th] = session[RunOf(th)]]
    /\ state' = [state EXCEPT ![queue[job[th]].run] = session[RunOf(th)]]
    /\ Goto(th, IF session[RunOf(th)].stop = "SAFETY_STOP" THEN "gates" ELSE "complete")
    /\ UNCHANGED <<active, queue, control, session, reviews, bound, job, loaded, ran, resumes, faults>>

\* ADK_RUN_SNAPSHOT: the session is saved over the run's state, whatever an
\* approval has added to it, and check_safety_gates looks at the same copy.
Snapshot(th) ==
    /\ pc[th] = "snapshot"
    /\ copy' = [copy EXCEPT ![th] = session[RunOf(th)]]
    /\ state' = [state EXCEPT ![RunOf(th)] = session[RunOf(th)]]
    /\ Goto(th, IF session[RunOf(th)].stop = "SAFETY_STOP" THEN "gates" ELSE "complete")
    /\ UNCHANGED <<active, queue, control, session, reviews, bound, job, loaded, ran, resumes, faults>>

\* create_review_task: the review is inserted, ...
InsertReview(th) ==
    /\ pc[th] = "gates"
    /\ reviews' = [reviews EXCEPT ![RunOf(th)] = @ + 1]
    /\ Goto(th, "reviewLoad")
    /\ UNCHANGED <<active, storeVars, session, bound, job, locals, ran, resumes, faults>>

\* ... the run is loaded, ...
LoadRun(th) ==
    /\ pc[th] = "reviewLoad"
    /\ loaded' = [loaded EXCEPT ![th] = state[RunOf(th)]]
    /\ Goto(th, "reviewSave")
    /\ UNCHANGED <<active, storeVars, session, reviews, bound, job, copy, ran, resumes, faults>>

\* ... and saved as paused, whatever the row holds by now.
SavePaused(th) ==
    /\ pc[th] = "reviewSave"
    /\ state' = [state EXCEPT ![RunOf(th)] = [loaded[th] EXCEPT !.stop = "HUMAN_REVIEW_REQUIRED"]]
    /\ copy' = [copy EXCEPT ![th].stop = "HUMAN_REVIEW_REQUIRED"]
    /\ Goto(th, "ownSave")
    /\ UNCHANGED <<active, queue, control, session, reviews, bound, job, loaded, ran, resumes,
                   faults>>

\* The handler then saves its own copy; the session is not told (the call that
\* would do it has the wrong arguments, and its exception is swallowed).
OwnSave(th) ==
    /\ pc[th] = "ownSave"
    /\ state' = [state EXCEPT ![RunOf(th)] = copy[th]]
    /\ Goto(th, "complete")
    /\ UNCHANGED <<active, queue, control, session, reviews, bound, job, locals, ran, resumes, faults>>

\* Bound: the resume threads still to come.  A handler that approves has one of
\* them reserved.
MayApprove == Cardinality({th \in Thread : pc[th] \in {"autoSave", "autoEnqueue"}})
                  < Cardinality({s \in Slot : pc[s] = "new"})

Approved == [stop |-> "none", granted |-> TRUE]

\* With auto-approve on, the copy gets the grants and is merged into the
\* session; an exception there is noted and swallowed.
AutoApprove(th) ==
    /\ pc[th] = "gates" /\ MayApprove
    /\ copy' = [copy EXCEPT ![th] = Approved]
    /\ session' \in {session, [session EXCEPT ![RunOf(th)] = Approved]}
    /\ Goto(th, "autoSave")
    /\ UNCHANGED <<active, storeVars, reviews, bound, job, loaded, ran, resumes, faults>>

AutoSave(th) ==
    /\ pc[th] = "autoSave"
    /\ state' = [state EXCEPT ![RunOf(th)] = copy[th]]
    /\ Goto(th, "autoEnqueue")
    /\ UNCHANGED <<active, queue, control, session, reviews, bound, job, locals, ran, resumes,
                   faults>>

\* enqueue_task under a new key, then Thread(run_resumed_worker_sync).
Resume(th, next) ==
    /\ pc[th] = "autoEnqueue"
    /\ queue' = Append(queue, NewTask(RunOf(th)))
    /\ resumes' = resumes + 1
    /\ \E s \in Slot :
        /\ pc[s] = "new"
        /\ bound' = [bound EXCEPT ![s] = RunOf(th)]
        /\ pc' = [pc EXCEPT ![th] = next, ![s] = "claim"]
    /\ UNCHANGED <<active, control, state, session, reviews, job, locals, ran, faults>>

\* Mutant of AutoEnqueue: the handler goes on to the review as well.
AutoEnqueueThenReview(th) == Resume(th, "gates")

\* Mutant of AutoEnqueue: the copy is saved again once the thread has started.
AutoEnqueueThenSave(th) == Resume(th, "ownSave")

AutoEnqueue(th) == Resume(th, "complete")

\* The worker settles the task it was given, whichever run that belongs to.
Complete(th) ==
    /\ pc[th] = "complete"
    /\ Settle(job[th], "SUCCEEDED")
    /\ job' = [job EXCEPT ![th] = 0]
    /\ Goto(th, "mark")
    /\ UNCHANGED <<active, control, state, session, reviews, bound, locals, ran, resumes, faults>>

Fail(th) ==
    /\ pc[th] = "fail"
    /\ Settle(job[th], IF queue[job[th]].attempt < MaxAttempts THEN "RETRY_WAIT" ELSE "FAILED")
    /\ job' = [job EXCEPT ![th] = 0]
    /\ Goto(th, "leave")
    /\ UNCHANGED <<active, control, state, session, reviews, bound, locals, ran, resumes, faults>>

\* mark_run_completed on the thread's own run, even with a review just opened.
Mark(th) ==
    /\ pc[th] = "mark"
    /\ control' = [control EXCEPT ![RunOf(th)] = "COMPLETED"]
    /\ Goto(th, "leave")
    /\ UNCHANGED <<active, queue, state, session, reviews, bound, job, locals, ran, resumes, faults>>

\* Mutant of Leave: the slot is released after a completed run only.
LeaveIfCompleted(th) ==
    /\ pc[th] = "leave"
    /\ active' = {r \in active : r = th => control[r] # "COMPLETED"}
    /\ copy' = [copy EXCEPT ![th] = Fresh]
    /\ loaded' = [loaded EXCEPT ![th] = Fresh]
    /\ Goto(th, "done")
    /\ UNCHANGED <<storeVars, session, reviews, bound, job, ran, resumes, faults>>

\* The driver's `with RUN_ADMISSION.lease` ends, on every path.
Leave(th) ==
    /\ pc[th] = "leave"
    /\ active' = active \ {th}
    /\ copy' = [copy EXCEPT ![th] = Fresh]
    /\ loaded' = [loaded EXCEPT ![th] = Fresh]
    /\ Goto(th, "done")
    /\ UNCHANGED <<storeVars, session, reviews, bound, job, ran, resumes, faults>>

Outside == {"depth", "create", "enqueue", "claim", "mark"}
Handler == {"graph", "snapshot", "gates", "reviewLoad", "reviewSave", "ownSave",
            "autoSave", "autoEnqueue", "complete"}

\* A store or session call raises: outside the worker step the thread ends; in
\* the handler, or while completing, the task fails; while failing it, the
\* worker leaves it RUNNING.
Raise(th) ==
    /\ faults < MaxFaults /\ faults' = faults + 1
    /\ \/ pc[th] \in Outside /\ Goto(th, "leave") /\ UNCHANGED job
       \/ pc[th] \in Handler /\ Goto(th, "fail") /\ UNCHANGED job
       \/ pc[th] = "fail" /\ Goto(th, "leave") /\ job' = [job EXCEPT ![th] = 0]
    /\ UNCHANGED <<active, storeVars, session, reviews, bound, locals, ran, resumes>>

-----------------------------------------------------------------------------
\* The server process dies and starts again: threads, requests and admission
\* are gone, tables and sessions stay.
Restart ==
    /\ faults < MaxFaults
    /\ faults' = faults + 1
    /\ active' = {}
    /\ pc' = [th \in Thread |-> IF pc[th] = "new" THEN "new" ELSE "done"]
    /\ job' = [th \in Thread |-> 0]
    /\ copy' = [th \in Thread |-> Fresh]
    /\ loaded' = [th \in Thread |-> Fresh]
    /\ UNCHANGED <<storeVars, session, reviews, bound, ran, resumes>>

DriverStep(r) == CheckDepth(r) \/ CreateRun(r) \/ Enqueue(r)

GateStep(th) ==
    \/ InsertReview(th) \/ LoadRun(th) \/ SavePaused(th) \/ OwnSave(th)
    \/ AutoApprove(th) \/ AutoSave(th) \/ AutoEnqueue(th)

WorkerStep(th) ==
    \/ Claim(th)    \/ ClaimNothing(th) \/ Graph(th) \/ Snapshot(th)
    \/ GateStep(th)
    \/ Complete(th) \/ Fail(th)         \/ Mark(th)  \/ Leave(th)

Next ==
    \/ \E r \in Run : Admit(r) \/ DriverStep(r)
    \/ \E th \in Thread : WorkerStep(th) \/ Raise(th)
    \/ Restart

Spec == Init /\ [][Next]_vars
=============================================================================
