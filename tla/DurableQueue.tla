----------------------------- MODULE DurableQueue -----------------------------
(***************************************************************************)
(* The durable task queue: the task_queue, run_controls and                *)
(* task_checkpoints tables of SQLiteRunStore (persistence/run_store.py)    *)
(* together with DurableTaskWorker and its _LeaseHeartbeat thread          *)
(* (runtime/durable_worker.py).                                            *)
(*                                                                         *)
(* Atomicity.  sqlite3 connections are opened with the default isolation   *)
(* level, under which a SELECT runs outside any transaction and the first  *)
(* UPDATE or INSERT opens one that lasts until the `with` block ends.  An  *)
(* operation that selects a row and then writes it is therefore TWO steps, *)
(* the read and the write, and other connections may write in between.     *)
(* Only claim_next_task starts with BEGIN IMMEDIATE and is one step.       *)
(*                                                                         *)
(* Time.  A lease that has run out (lease_expires_at <= now) is a flag set *)
(* by LeaseLapses, a retry whose backoff is over one set by BackoffElapses *)
(***************************************************************************)
EXTENDS Integers, Sequences, FiniteSets

CONSTANTS
    Task,              \* idempotency keys, as numbers in (created_at, task_id) order
    Run,               \* runs, all created before the behaviour starts
    RunOf,             \* the run a task is enqueued for
    MaxAttempts,       \* max_attempts of each task
    Worker,            \* run_once / run_once_async call sites
    WorkerId,          \* the worker_id each of them passes to the store
    NoOwner,           \* lease_owner IS NULL
    NoTask,            \* the worker holds no claim
    OperatorStatus,    \* values set_run_control is called with
    MaxOperatorCalls,  \* bound: calls of set_run_control
    MaxFaults,         \* bound: worker deaths and sqlite errors
    MaxCheckpoints     \* bound: checkpoint rows of a task

ControlStatus == {"RUNNABLE", "RUNNING", "PAUSED", "CANCEL_REQUESTED",
                  "CANCELLED", "COMPLETED", "FAILED"}

ASSUME TaskAssumption == Task \subseteq Nat /\ NoTask \notin Task
ASSUME RunAssumption == RunOf \in [Task -> Run]
ASSUME AttemptAssumption == MaxAttempts \in [Task -> Nat \ {0}]
ASSUME IdAssumption == NoOwner \notin {WorkerId[w] : w \in Worker}
ASSUME OperatorAssumption == OperatorStatus \subseteq ControlStatus
ASSUME BoundAssumption ==
    MaxOperatorCalls \in Nat /\ MaxFaults \in Nat /\ MaxCheckpoints \in Nat

VARIABLES
    \* task_queue, one row per task
    status,       \* "NONE" before the row exists
    attempt,      \* attempt_count
    owner,        \* lease_owner
    lapsed,       \* lease_expires_at is set and has passed
    ready,        \* available_at has passed
    result,       \* the attempt whose result_json is stored, 0 for NULL
    \* other tables
    control,      \* run_controls.status
    deferrals,    \* TASK_DEFERRED events of each task
    completions,  \* TASK_COMPLETED events of each task
    checkpoints,  \* task_checkpoints of each task: the attempt that wrote each
    \* each worker's local state
    pc,           \* where run_once is
    path,         \* inside the try ("finish"), in _fail, or interrupted
    job,          \* task.task_id of the claimed snapshot
    lease,        \* task.attempt_count of the claimed snapshot
    seen,         \* control.status read by _finish or _fail
    retry,        \* should_retry computed by fail_task
    nextSeq,      \* next_sequence computed by checkpoint_task
    cancel,       \* the cancellation Event is set
    hb,           \* the heartbeat thread
    \* bounded environment
    calls,        \* calls of set_run_control so far
    faults        \* faults so far

taskVars   == <<status, attempt, owner, lapsed, ready, result>>
logVars    == <<deferrals, completions, checkpoints>>
localVars  == <<pc, path, job, lease, seen, retry, nextSeq, cancel, hb>>
storeVars  == <<taskVars, control, logVars>>
envVars    == <<calls, faults>>
vars       == <<storeVars, localVars, envVars>>

Waiting    == {"PENDING", "RETRY_WAIT"}
Terminal   == {"SUCCEEDED", "FAILED", "CANCELLED"}
Executable == {"RUNNABLE", "RUNNING"}
Cancelling == {"CANCEL_REQUESTED", "CANCELLED"}

OwnerIds == {WorkerId[w] : w \in Worker} \cup {NoOwner}

Init ==
    /\ status = [t \in Task |-> "NONE"]
    /\ attempt = [t \in Task |-> 0]
    /\ owner = [t \in Task |-> NoOwner]
    /\ lapsed = [t \in Task |-> FALSE]
    /\ ready = [t \in Task |-> TRUE]
    /\ result = [t \in Task |-> 0]
    /\ control = [r \in Run |-> "RUNNABLE"]
    /\ deferrals = [t \in Task |-> 0]
    /\ completions = [t \in Task |-> 0]
    /\ checkpoints = [t \in Task |-> <<>>]
    /\ pc = [w \in Worker |-> "idle"]
    /\ path = [w \in Worker |-> "finish"]
    /\ job = [w \in Worker |-> NoTask]
    /\ lease = [w \in Worker |-> 0]
    /\ seen = [w \in Worker |-> "UNREAD"]
    /\ retry = [w \in Worker |-> FALSE]
    /\ nextSeq = [w \in Worker |-> 0]
    /\ cancel = [w \in Worker |-> FALSE]
    /\ hb = [w \in Worker |-> "off"]
    /\ calls = 0
    /\ faults = 0

-----------------------------------------------------------------------------
(* Building blocks                                                         *)

Goto(w, label) == pc' = [pc EXCEPT ![w] = label]

\* run_once returns or raises; its finally clause stops the heartbeat thread.
Leaves(w) ==
    /\ Goto(w, "idle")
    /\ path' = [path EXCEPT ![w] = "finish"]
    /\ job' = [job EXCEPT ![w] = NoTask]
    /\ lease' = [lease EXCEPT ![w] = 0]
    /\ seen' = [seen EXCEPT ![w] = "UNREAD"]
    /\ retry' = [retry EXCEPT ![w] = FALSE]
    /\ nextSeq' = [nextSeq EXCEPT ![w] = 0]
    /\ cancel' = [cancel EXCEPT ![w] = FALSE]
    /\ hb' = [hb EXCEPT ![w] = "off"]

\* An Exception inside the try goes to _fail; one inside _fail leaves run_once,
\* and so does one swallowed while a BaseException is being re-raised.
Raises(w) ==
    IF path[w] = "finish"
      THEN /\ Goto(w, "control")
           /\ path' = [path EXCEPT ![w] = "fail"]
           /\ seen' = [seen EXCEPT ![w] = "UNREAD"]
           /\ UNCHANGED <<job, lease, retry, nextSeq, cancel, hb>>
      ELSE Leaves(w)

\* The row is RUNNING under this worker's id: the check every release makes
\* when it reads the row, and the WHERE clause of the fenced writes.
HoldsLease(w) ==
    /\ status[job[w]] = "RUNNING"
    /\ owner[job[w]] = WorkerId[w]

\* The UPDATE shared by the four releases: the lease columns become NULL.
ReleaseRow(t, newStatus) ==
    /\ status' = [status EXCEPT ![t] = newStatus]
    /\ owner' = [owner EXCEPT ![t] = NoOwner]
    /\ lapsed' = [lapsed EXCEPT ![t] = FALSE]
    /\ UNCHANGED attempt

-----------------------------------------------------------------------------
(* enqueue_task: inserted once per idempotency key; a second call returns  *)
(* the row, or loses to the UNIQUE constraint.  run_controls is not read.  *)

Enqueue(t) ==
    /\ status[t] = "NONE"
    /\ status' = [status EXCEPT ![t] = "PENDING"]
    /\ UNCHANGED <<attempt, owner, lapsed, ready, result, control, logVars,
                   localVars, envVars>>

-----------------------------------------------------------------------------
(* claim_next_task: expire every lapsed lease, then claim the oldest ready *)
(* task of an executable run.  The expiry is committed even when nothing   *)
(* can be claimed.                                                         *)

\* Mutants: no UPDATE for the final attempt; an UPDATE joined on run_controls.
ExpiredIfRetryable(t) ==
    status[t] = "RUNNING" /\ lapsed[t] /\ attempt[t] < MaxAttempts[t]
ExpiredIfExecutable(t) ==
    status[t] = "RUNNING" /\ lapsed[t] /\ control[RunOf[t]] \in Executable

Expired(t) == status[t] = "RUNNING" /\ lapsed[t]

ExpiredInto(t) ==
    IF attempt[t] < MaxAttempts[t] THEN "RETRY_WAIT" ELSE "FAILED"

StatusAfterExpiry(t) == IF Expired(t) THEN ExpiredInto(t) ELSE status[t]

ReadyAfterExpiry(t) ==
    ready[t] \/ (Expired(t) /\ ExpiredInto(t) = "RETRY_WAIT")

\* Mutant: no join with run_controls.
ClaimableInAnyRun(t) == StatusAfterExpiry(t) \in Waiting /\ ReadyAfterExpiry(t)

Claimable(t) ==
    /\ StatusAfterExpiry(t) \in Waiting
    /\ ReadyAfterExpiry(t)
    /\ control[RunOf[t]] \in Executable

Oldest(t) == \A u \in Task : Claimable(u) => t <= u

OwnerAfterExpiry(t) == IF Expired(t) THEN NoOwner ELSE owner[t]

\* SELECT finds no row: run_once returns None.
ClaimNothing(w) ==
    /\ pc[w] = "idle"
    /\ \A t \in Task : ~Claimable(t)
    /\ status' = [t \in Task |-> StatusAfterExpiry(t)]
    /\ owner' = [t \in Task |-> OwnerAfterExpiry(t)]
    /\ lapsed' = [t \in Task |-> FALSE]
    /\ ready' = [t \in Task |-> ReadyAfterExpiry(t)]
    /\ UNCHANGED <<attempt, result, control, logVars, localVars, envVars>>

\* Mutant: the row returned is the one selected before the UPDATE.
StaleSnapshotAttempt(t) == attempt[t]

\* The row is selected again after the UPDATE and returned to the worker.
SnapshotAttempt(t) == attempt[t] + 1

\* Task t is claimed; the heartbeat thread starts and the handler is called.
ClaimTask(w, t) ==
    /\ pc[w] = "idle"
    /\ Claimable(t)
    /\ Oldest(t)
    /\ status' = [u \in Task |-> IF u = t THEN "RUNNING" ELSE StatusAfterExpiry(u)]
    /\ owner' = [u \in Task |-> IF u = t THEN WorkerId[w] ELSE OwnerAfterExpiry(u)]
    /\ lapsed' = [u \in Task |-> FALSE]
    /\ ready' = [u \in Task |-> ReadyAfterExpiry(u)]
    /\ attempt' = [attempt EXCEPT ![t] = @ + 1]
    /\ control' = [control EXCEPT ![RunOf[t]] =
                      IF @ = "RUNNABLE" THEN "RUNNING" ELSE @]
    /\ Goto(w, "handler")
    /\ job' = [job EXCEPT ![w] = t]
    /\ lease' = [lease EXCEPT ![w] = SnapshotAttempt(t)]
    /\ hb' = [hb EXCEPT ![w] = "armed"]
    /\ UNCHANGED <<result, logVars, path, seen, retry, nextSeq, cancel, envVars>>

Claim(w) == ClaimNothing(w) \/ \E t \in Task : ClaimTask(w, t)

-----------------------------------------------------------------------------
(* The handler.  It may checkpoint, then returns a mapping, raises, or is  *)
(* stopped by a BaseException (a cancelled asyncio task, Ctrl-C), in which *)
(* case run_once calls fail_task without looking at the run control.       *)

HandlerReturns(w) ==
    /\ pc[w] = "handler"
    /\ Goto(w, "control")
    /\ UNCHANGED <<storeVars, path, job, lease, seen, retry, nextSeq, cancel, hb,
                   envVars>>

HandlerRaises(w) ==
    /\ pc[w] = "handler"
    /\ Raises(w)
    /\ UNCHANGED <<storeVars, envVars>>

HandlerInterrupted(w) ==
    /\ pc[w] = "handler"
    /\ faults < MaxFaults
    /\ faults' = faults + 1
    /\ Goto(w, "failRead")
    /\ path' = [path EXCEPT ![w] = "interrupt"]
    /\ UNCHANGED <<storeVars, job, lease, seen, retry, nextSeq, cancel, hb, calls>>

\* checkpoint_task, first SELECT: the lease is checked.
CheckpointOwner(w) ==
    /\ pc[w] = "handler"
    /\ Len(checkpoints[job[w]]) < MaxCheckpoints
    /\ \/ /\ HoldsLease(w)
          /\ Goto(w, "checkpointSeq")
          /\ UNCHANGED <<path, job, lease, seen, retry, nextSeq, cancel, hb>>
       \/ /\ ~HoldsLease(w)
          /\ Raises(w)
    /\ UNCHANGED <<storeVars, envVars>>

\* checkpoint_task, second SELECT: MAX(sequence) + 1.
CheckpointSeq(w) ==
    /\ pc[w] = "checkpointSeq"
    /\ nextSeq' = [nextSeq EXCEPT ![w] = Len(checkpoints[job[w]]) + 1]
    /\ Goto(w, "checkpointInsert")
    /\ UNCHANGED <<storeVars, path, job, lease, seen, retry, cancel, hb, envVars>>

SequenceFree(w) == nextSeq[w] > Len(checkpoints[job[w]])

\* checkpoint_task, INSERT: UNIQUE(task_id, sequence) may reject the row.
CheckpointInsert(w) ==
    /\ pc[w] = "checkpointInsert"
    /\ \/ /\ SequenceFree(w)
          /\ checkpoints' = [checkpoints EXCEPT ![job[w]] = Append(@, lease[w])]
          /\ Goto(w, "handler")
          /\ nextSeq' = [nextSeq EXCEPT ![w] = 0]
          /\ UNCHANGED <<path, job, lease, seen, retry, cancel, hb>>
       \/ /\ ~SequenceFree(w)
          /\ Raises(w)
          /\ UNCHANGED checkpoints
    /\ UNCHANGED <<taskVars, control, deferrals, completions, envVars>>

-----------------------------------------------------------------------------
(* _finish and _fail: read the run control, then choose how to release.    *)

ReadControl(w) ==
    /\ pc[w] = "control"
    /\ seen' = [seen EXCEPT ![w] = control[RunOf[job[w]]]]
    /\ Goto(w, "branch")
    /\ UNCHANGED <<storeVars, path, job, lease, retry, nextSeq, cancel, hb, envVars>>

Deferring(w) == seen[w] = "PAUSED" \/ cancel[w]

Branch(w) ==
    /\ pc[w] = "branch"
    /\ \/ /\ seen[w] \in Cancelling
          /\ Goto(w, "cancelRead")
       \/ /\ seen[w] \notin Cancelling
          /\ Deferring(w)
          /\ Goto(w, "deferRead")
       \/ /\ seen[w] \notin Cancelling
          /\ ~Deferring(w)
          /\ Goto(w, IF path[w] = "fail" THEN "failRead" ELSE "completeRead")
    /\ UNCHANGED <<storeVars, path, job, lease, seen, retry, nextSeq, cancel, hb,
                   envVars>>

-----------------------------------------------------------------------------
(* complete_task                                                           *)

CompleteRead(w) ==
    /\ pc[w] = "completeRead"
    /\ \/ /\ status[job[w]] = "SUCCEEDED"
          /\ Leaves(w)
       \/ /\ HoldsLease(w)
          /\ Goto(w, "completeWrite")
          /\ UNCHANGED <<path, job, lease, seen, retry, nextSeq, cancel, hb>>
       \/ /\ status[job[w]] # "SUCCEEDED"
          /\ ~HoldsLease(w)
          /\ Raises(w)
    /\ UNCHANGED <<storeVars, envVars>>

\* UPDATE ... WHERE status='RUNNING' AND lease_owner=?
CompleteFence(w) == HoldsLease(w)

\* The event is appended, and success reported, whether or not a row matched.
CompleteWrite(w) ==
    /\ pc[w] = "completeWrite"
    /\ \/ /\ CompleteFence(w)
          /\ ReleaseRow(job[w], "SUCCEEDED")
          /\ result' = [result EXCEPT ![job[w]] = lease[w]]
       \/ /\ ~CompleteFence(w)
          /\ UNCHANGED <<status, attempt, owner, lapsed, result>>
    /\ completions' = [completions EXCEPT ![job[w]] = @ + 1]
    /\ Leaves(w)
    /\ UNCHANGED <<ready, control, deferrals, checkpoints, envVars>>

-----------------------------------------------------------------------------
(* fail_task, always called with retryable=True                            *)

\* Mutant: one attempt too many.
AttemptsLeftInclusive(t) == attempt[t] <= MaxAttempts[t]

AttemptsLeft(t) == attempt[t] < MaxAttempts[t]

FailRead(w) ==
    /\ pc[w] = "failRead"
    /\ \/ /\ HoldsLease(w)
          /\ retry' = [retry EXCEPT ![w] = AttemptsLeft(job[w])]
          /\ Goto(w, "failWrite")
          /\ UNCHANGED <<path, job, lease, seen, nextSeq, cancel, hb>>
       \/ /\ ~HoldsLease(w)
          /\ Raises(w)
    /\ UNCHANGED <<storeVars, envVars>>

\* Mutant: UPDATE ... WHERE status='RUNNING'
FailIfRunning(w) == status[job[w]] = "RUNNING"

FailFence(w) == HoldsLease(w)

FailWrite(w) ==
    /\ pc[w] = "failWrite"
    /\ \/ /\ FailFence(w)
          /\ ReleaseRow(job[w], IF retry[w] THEN "RETRY_WAIT" ELSE "FAILED")
          /\ ready' = [ready EXCEPT ![job[w]] = FALSE]
       \/ /\ ~FailFence(w)
          /\ UNCHANGED <<status, attempt, owner, lapsed, ready>>
    /\ Leaves(w)
    /\ UNCHANGED <<result, control, logVars, envVars>>

BackoffElapses(t) ==
    /\ ~ready[t]
    /\ ready' = [ready EXCEPT ![t] = TRUE]
    /\ UNCHANGED <<status, attempt, owner, lapsed, result, control, logVars,
                   localVars, envVars>>

-----------------------------------------------------------------------------
(* defer_task and cancel_task: the lease is checked when the row is read,  *)
(* and the UPDATE names the row by task_id alone.                          *)

\* A ConcurrentUpdateError is caught: run_once returns a FAILED outcome.
DeferRead(w) ==
    /\ pc[w] = "deferRead"
    /\ \/ /\ HoldsLease(w)
          /\ Goto(w, "deferWrite")
          /\ UNCHANGED <<path, job, lease, seen, retry, nextSeq, cancel, hb>>
       \/ /\ ~HoldsLease(w)
          /\ Leaves(w)
    /\ UNCHANGED <<storeVars, envVars>>

DeferWrite(w) ==
    /\ pc[w] = "deferWrite"
    /\ ReleaseRow(job[w], "RETRY_WAIT")
    /\ ready' = [ready EXCEPT ![job[w]] = TRUE]
    /\ deferrals' = [deferrals EXCEPT ![job[w]] = @ + 1]
    /\ Leaves(w)
    /\ UNCHANGED <<result, control, completions, checkpoints, envVars>>

CancelRead(w) ==
    /\ pc[w] = "cancelRead"
    /\ \/ /\ status[job[w]] = "CANCELLED"
          /\ Leaves(w)
       \/ /\ HoldsLease(w)
          /\ Goto(w, "cancelWrite")
          /\ UNCHANGED <<path, job, lease, seen, retry, nextSeq, cancel, hb>>
       \/ /\ status[job[w]] # "CANCELLED"
          /\ ~HoldsLease(w)
          /\ Raises(w)
    /\ UNCHANGED <<storeVars, envVars>>

CancelWrite(w) ==
    /\ pc[w] = "cancelWrite"
    /\ ReleaseRow(job[w], "CANCELLED")
    /\ Leaves(w)
    /\ UNCHANGED <<ready, result, control, logVars, envVars>>

-----------------------------------------------------------------------------
(* _LeaseHeartbeat._run: renew the lease, then read the run control.       *)

Stopping == {"PAUSED", "CANCEL_REQUESTED", "CANCELLED"}

HeartbeatRenew(w) ==
    /\ hb[w] = "armed"
    /\ \/ /\ HoldsLease(w)
          /\ lapsed' = [lapsed EXCEPT ![job[w]] = FALSE]
          /\ hb' = [hb EXCEPT ![w] = "alive"]
       \/ /\ ~HoldsLease(w)
          /\ hb' = [hb EXCEPT ![w] = "lost"]
          /\ UNCHANGED lapsed
    /\ UNCHANGED <<status, attempt, owner, ready, result, control, logVars,
                   pc, path, job, lease, seen, retry, nextSeq, cancel, envVars>>

HeartbeatControl(w) ==
    /\ hb[w] \in {"alive", "lost"}
    /\ IF hb[w] = "lost" \/ control[RunOf[job[w]]] \in Stopping
         THEN /\ cancel' = [cancel EXCEPT ![w] = TRUE]
              /\ hb' = [hb EXCEPT ![w] = "off"]
         ELSE /\ hb' = [hb EXCEPT ![w] = "armed"]
              /\ UNCHANGED cancel
    /\ UNCHANGED <<storeVars, pc, path, job, lease, seen, retry, nextSeq, envVars>>

\* Any exception in the loop sets the event and ends the thread.
HeartbeatRaises(w) ==
    /\ hb[w] # "off"
    /\ faults < MaxFaults
    /\ faults' = faults + 1
    /\ cancel' = [cancel EXCEPT ![w] = TRUE]
    /\ hb' = [hb EXCEPT ![w] = "off"]
    /\ UNCHANGED <<storeVars, pc, path, job, lease, seen, retry, nextSeq, calls>>

-----------------------------------------------------------------------------
(* The environment: the clock, sqlite errors, worker deaths, the operator. *)

LeaseLapses(t) ==
    /\ status[t] = "RUNNING"
    /\ ~lapsed[t]
    /\ lapsed' = [lapsed EXCEPT ![t] = TRUE]
    /\ UNCHANGED <<status, attempt, owner, ready, result, control, logVars,
                   localVars, envVars>>

\* sqlite3.OperationalError ("database is locked") from a store call.
StoreRaises(w) ==
    /\ pc[w] \notin {"idle", "handler", "branch"}
    /\ faults < MaxFaults
    /\ faults' = faults + 1
    /\ Raises(w)
    /\ UNCHANGED <<storeVars, calls>>

\* The process of the worker dies; a new worker may use the same id later.
WorkerDies(w) ==
    /\ pc[w] # "idle"
    /\ faults < MaxFaults
    /\ faults' = faults + 1
    /\ Leaves(w)
    /\ UNCHANGED <<storeVars, calls>>

\* Mutant: waiting tasks of every run.
CancelledInAnyRun(r, s, t) ==
    s \in Cancelling /\ status[t] \in Waiting

\* Cancelling a run cancels its waiting tasks, not its running ones.
CancelledByOperator(r, s, t) ==
    s \in Cancelling /\ RunOf[t] = r /\ status[t] \in Waiting

\* set_run_control: any status to any status.
SetRunControl(r, s) ==
    /\ calls < MaxOperatorCalls
    /\ calls' = calls + 1
    /\ control' = [control EXCEPT ![r] = s]
    /\ status' = [t \in Task |->
                    IF CancelledByOperator(r, s, t) THEN "CANCELLED" ELSE status[t]]
    /\ UNCHANGED <<attempt, owner, lapsed, ready, result, logVars, localVars, faults>>

-----------------------------------------------------------------------------
HandlerStep(w) == HandlerReturns(w) \/ HandlerRaises(w)

CheckpointStep(w) == CheckpointOwner(w) \/ CheckpointSeq(w) \/ CheckpointInsert(w)

ReleaseStep(w) ==
    \/ ReadControl(w)  \/ Branch(w)
    \/ CompleteRead(w) \/ CompleteWrite(w)
    \/ FailRead(w)     \/ FailWrite(w)
    \/ DeferRead(w)    \/ DeferWrite(w)
    \/ CancelRead(w)   \/ CancelWrite(w)

HeartbeatStep(w) == HeartbeatRenew(w) \/ HeartbeatControl(w)

FaultStep(w) ==
    HandlerInterrupted(w) \/ HeartbeatRaises(w) \/ StoreRaises(w) \/ WorkerDies(w)

WorkerStep(w) ==
    \/ Claim(w) \/ HandlerStep(w) \/ CheckpointStep(w) \/ ReleaseStep(w)
    \/ HeartbeatStep(w) \/ FaultStep(w)

TaskClock(t) == Enqueue(t) \/ LeaseLapses(t) \/ BackoffElapses(t)

Operator == \E r \in Run, s \in OperatorStatus : SetRunControl(r, s)

Next ==
    \/ \E w \in Worker : WorkerStep(w)
    \/ \E t \in Task : TaskClock(t)
    \/ Operator

Spec == Init /\ [][Next]_vars
=============================================================================
