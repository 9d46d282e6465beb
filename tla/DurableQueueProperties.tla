------------------------ MODULE DurableQueueProperties ------------------------
(***************************************************************************)
(* What the durable task queue guarantees, and what its documentation      *)
(* says of it that the code does not do.                                   *)
(***************************************************************************)
EXTENDS DurableQueue

PCs == {"idle", "handler", "checkpointSeq", "checkpointInsert", "control", "branch",
        "completeRead", "completeWrite", "failRead", "failWrite",
        "deferRead", "deferWrite", "cancelRead", "cancelWrite"}

\* The tables.
StoreTypeOK ==
    /\ status \in [Task -> {"NONE", "RUNNING"} \cup Waiting \cup Terminal]
    /\ attempt \in [Task -> Nat]
    /\ owner \in [Task -> OwnerIds]
    /\ lapsed \in [Task -> BOOLEAN]
    /\ ready \in [Task -> BOOLEAN]
    /\ result \in [Task -> Nat]
    /\ control \in [Run -> ControlStatus]
    /\ deferrals \in [Task -> Nat]
    /\ completions \in [Task -> Nat]
    /\ checkpoints \in [Task -> Seq(Nat)]

\* The workers.  A worker holds a claim exactly while run_once executes, and
\* its heartbeat thread lives no longer than that.
LocalTypeOK ==
    /\ pc \in [Worker -> PCs]
    /\ path \in [Worker -> {"finish", "fail", "interrupt"}]
    /\ job \in [Worker -> Task \cup {NoTask}]
    /\ lease \in [Worker -> Nat]
    /\ seen \in [Worker -> ControlStatus \cup {"UNREAD"}]
    /\ retry \in [Worker -> BOOLEAN]
    /\ nextSeq \in [Worker -> Nat]
    /\ cancel \in [Worker -> BOOLEAN]
    /\ hb \in [Worker -> {"off", "armed", "alive", "lost"}]
    /\ \A w \in Worker : (pc[w] = "idle") <=> (job[w] = NoTask)
    /\ \A w \in Worker : hb[w] # "off" => pc[w] # "idle"

\* The type of every variable.
TypeOK == StoreTypeOK /\ LocalTypeOK /\ calls \in Nat /\ faults \in Nat

\* Two call sites never use one worker_id.  DurableTaskWorker draws a uuid by
\* default; the web driver's resume workers of one run share theirs.
DistinctIds == \A v, w \in Worker : WorkerId[v] = WorkerId[w] => v = w

-----------------------------------------------------------------------------
(* Safety *)

\* A row carries a lease exactly while it is RUNNING, whichever of the eight
\* writers (claim, expiry, four releases, cancellation, heartbeat) wrote last.
LeaseIffRunning == \A t \in Task :
    /\ status[t] = "RUNNING" <=> owner[t] # NoOwner
    /\ lapsed[t] => status[t] = "RUNNING"

\* Fencing: a worker that still passes the lease check of the store works on
\* the current attempt, so a worker whose lease was reclaimed never passes it.
Fenced == \A w \in Worker :
    job[w] # NoTask /\ owner[job[w]] = WorkerId[w] => lease[w] = attempt[job[w]]

\* The result stored with a SUCCEEDED task was computed by its latest claim.
ResultOfLatestAttempt == \A t \in Task :
    status[t] = "SUCCEEDED" => result[t] = attempt[t] /\ result[t] > 0

\* The retry budget: beyond max_attempts, each extra claim was paid for by a
\* deferral (a pause, or a heartbeat that raised), and a task is never left
\* waiting for a claim that the budget does not cover.
RetryBudget == \A t \in Task :
    /\ attempt[t] <= MaxAttempts[t] + deferrals[t]
    /\ status[t] \in Waiting => attempt[t] < MaxAttempts[t] + deferrals[t]

\* A task that gave up had spent its whole budget of attempts.
FailedOnlyWhenExhausted == \A t \in Task :
    status[t] = "FAILED" => attempt[t] >= MaxAttempts[t]

-----------------------------------------------------------------------------
(* Action properties *)

UnfencedWrite(t) == \E w \in Worker :
    pc[w] \in {"deferWrite", "cancelWrite"} /\ job[w] = t

\* A settled task stays settled: only a worker caught between the read and the
\* write of defer_task or cancel_task can reopen it.  Claims, expiry, the other
\* releases and operator calls in any order never do.
SettledStays == [][
    \A t \in Task : status[t] \in Terminal /\ status'[t] # status[t]
        => UnfencedWrite(t)
    ]_vars

Releasing(t) == \E w \in Worker :
    /\ owner[t] = WorkerId[w] /\ job[w] = t
    /\ pc[w] \in {"completeWrite", "failWrite"}

\* A lease that has not lapsed ends only by its holder's own release, or by the
\* unfenced write of defer_task or cancel_task; operator calls leave it alone.
LeaseRespected == [][
    \A t \in Task : owner[t] # NoOwner /\ ~lapsed[t] /\ owner'[t] # owner[t]
        => Releasing(t) \/ UnfencedWrite(t)
    ]_vars

\* Cancelling a run touches the waiting tasks of that run only.
CancelStaysInRun == [][
    \A t \in Task : status[t] \in Waiting /\ status'[t] = "CANCELLED"
        => control'[RunOf[t]] \in Cancelling \/ UnfencedWrite(t)
    ]_vars

-----------------------------------------------------------------------------
(* Refinement *)

\* The queue, with its split reads and writes, implements the life cycle of its
\* tasks in which every operation is one step.
Lifecycle == INSTANCE TaskLifecycle WITH
    status  <- status,
    attempt <- attempt,
    result  <- result,
    control <- control
LifecycleSpec == Lifecycle!Spec

-----------------------------------------------------------------------------
(* Claims of the documentation and of the code's own checks that the       *)
(* interleavings refute.                                                   *)

\* durable_task.py: "A resumable unit of work claimed by one worker lease at a
\* time": nobody takes a live lease from the worker that holds it.
LeaseIsExclusive == [][
    \A t \in Task : owner[t] # NoOwner /\ ~lapsed[t] /\ owner'[t] # owner[t]
        => \E w \in Worker : owner[t] = WorkerId[w] /\ job[w] = t
                             /\ lease[w] = attempt[t] /\ pc'[w] = "idle"
    ]_vars

-----------------------------------------------------------------------------
(* Liveness.  The steps of a worker and its handler end, and a lease that  *)
(* no thread renews lapses.  Nothing is assumed of claims: no loop of the  *)
(* code polls the queue, a request claims once.                            *)

Unattended(t) == \A w \in Worker : job[w] = t => hb[w] = "off"

AbandonedLapses(t) == Unattended(t) /\ LeaseLapses(t)

Fairness ==
    /\ \A w \in Worker : /\ WF_vars(HandlerStep(w))
                         /\ WF_vars(CheckpointSeq(w) \/ CheckpointInsert(w))
                         /\ WF_vars(ReleaseStep(w))
    /\ \A t \in Task : WF_vars(AbandonedLapses(t))

FairSpec == Spec /\ Fairness

\* No task is held for ever: whatever workers die or store calls fail, it is
\* again and again released, or left as a row that the next claim, whenever a
\* request makes one, takes from the dead worker.
LeasesEnd == \A t \in Task : []<>(status[t] # "RUNNING" \/ Expired(t))

\* Once a run stays paused or cancelled, its tasks all leave RUNNING for good, or
\* stay there without a worker as rows that the next claim gives up.
StoppedRunsQuiesce == \A r \in Run :
    <>[](control[r] \in Stopping)
        => <>[](\A t \in Task : RunOf[t] = r /\ status[t] = "RUNNING"
                                   => Expired(t) /\ Unattended(t))
=============================================================================
