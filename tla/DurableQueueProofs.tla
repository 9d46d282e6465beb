-------------------------- MODULE DurableQueueProofs --------------------------
(***************************************************************************)
(* Theorems about the durable task queue for every set of tasks, runs and  *)
(* workers, every max_attempts and every bound: type correctness, safety,  *)
(* and the refinement of TaskLifecycle with the action properties.         *)
(*                                                                         *)
(* Safety assumes DistinctIds and rests on the inductive invariant Inv,    *)
(* which adds to the properties what makes them inductive: a claim is      *)
(* never newer than its row (ClaimNotAhead), and the retry decision        *)
(* fail_task computed from the row it read still fits the row it writes    *)
(* (DecisionFits).  For the refinement each step of a worker is mapped,    *)
(* task by task, to what the life cycle lets one task do.                  *)
(***************************************************************************)
EXTENDS DurableQueueProperties, TLAPS

-----------------------------------------------------------------------------
(* Type correctness *)

USE DEF Waiting, Terminal, Executable, Cancelling, ControlStatus, PCs, OwnerIds

LEMMA InitTypeOK == Init => TypeOK
  BY TaskAssumption DEF Init, TypeOK, StoreTypeOK, LocalTypeOK

\* Leaving run_once and entering _fail keep the worker's local state well typed.
LEMMA LeavesType ==
  ASSUME LocalTypeOK, NEW w \in Worker, Leaves(w)
  PROVE  LocalTypeOK'
  BY DEF LocalTypeOK, Leaves, Goto

LEMMA RaisesType ==
  ASSUME LocalTypeOK, NEW w \in Worker, pc[w] # "idle", Raises(w)
  PROVE  LocalTypeOK'
  <1>1. CASE path[w] = "finish"
    BY <1>1 DEF LocalTypeOK, Raises, Goto
  <1>2. CASE path[w] # "finish"
    BY <1>2, LeavesType DEF Raises
  <1> QED BY <1>1, <1>2

LEMMA GotoType ==
  ASSUME LocalTypeOK, NEW w \in Worker, pc[w] # "idle",
         NEW l \in PCs \ {"idle"}, Goto(w, l),
         UNCHANGED <<path, job, lease, cancel, hb>>,
         seen' \in [Worker -> ControlStatus \cup {"UNREAD"}],
         retry' \in [Worker -> BOOLEAN], nextSeq' \in [Worker -> Nat]
  PROVE  LocalTypeOK'
  BY DEF LocalTypeOK, Goto

LEMMA UnchangedStoreType == StoreTypeOK /\ UNCHANGED storeVars => StoreTypeOK'
  BY DEF StoreTypeOK, storeVars, taskVars, logVars

LEMMA UnchangedLocalType == LocalTypeOK /\ UNCHANGED localVars => LocalTypeOK'
  BY DEF LocalTypeOK, localVars

LEMMA ReleaseRowType ==
  ASSUME StoreTypeOK, NEW t \in Task \cup {NoTask},
         NEW s \in {"SUCCEEDED", "FAILED", "RETRY_WAIT", "CANCELLED"}, ReleaseRow(t, s)
  PROVE  /\ status' \in [Task -> {"NONE", "RUNNING"} \cup Waiting \cup Terminal]
         /\ attempt' \in [Task -> Nat]
         /\ owner' \in [Task -> OwnerIds]
         /\ lapsed' \in [Task -> BOOLEAN]
  BY DEF StoreTypeOK, ReleaseRow

LEMMA ClaimType ==
  ASSUME TypeOK, NEW w \in Worker, Claim(w)
  PROVE  TypeOK'
  <1> USE TaskAssumption, RunAssumption
  <1>1. CASE ClaimNothing(w)
    <2>1. StoreTypeOK'
      BY <1>1 DEF ClaimNothing, TypeOK, StoreTypeOK, StatusAfterExpiry, ExpiredInto,
                  OwnerAfterExpiry, ReadyAfterExpiry, Expired, logVars
    <2>2. LocalTypeOK' /\ calls' \in Nat /\ faults' \in Nat
      BY <1>1, UnchangedLocalType DEF ClaimNothing, TypeOK, envVars
    <2> QED BY <2>1, <2>2 DEF TypeOK
  <1>2. ASSUME NEW t \in Task, ClaimTask(w, t) PROVE TypeOK'
    <2>1. StoreTypeOK'
      <3>1. status' \in [Task -> {"NONE", "RUNNING"} \cup Waiting \cup Terminal]
        BY <1>2 DEF ClaimTask, TypeOK, StoreTypeOK, StatusAfterExpiry, ExpiredInto
      <3>2. owner' \in [Task -> OwnerIds]
        BY <1>2 DEF ClaimTask, TypeOK, StoreTypeOK, OwnerAfterExpiry
      <3>3. lapsed' \in [Task -> BOOLEAN] /\ ready' \in [Task -> BOOLEAN]
        BY <1>2 DEF ClaimTask, TypeOK, StoreTypeOK, ReadyAfterExpiry, Expired, ExpiredInto
      <3>4. attempt' \in [Task -> Nat] /\ control' \in [Run -> ControlStatus]
        BY <1>2 DEF ClaimTask, TypeOK, StoreTypeOK
      <3> QED BY <1>2, <3>1, <3>2, <3>3, <3>4 DEF ClaimTask, TypeOK, StoreTypeOK, logVars
    <2>2. attempt[t] + 1 \in Nat
      BY DEF TypeOK, StoreTypeOK
    <2>3. LocalTypeOK'
      BY <1>2, <2>2 DEF ClaimTask, TypeOK, LocalTypeOK, SnapshotAttempt, Goto
    <2> QED BY <1>2, <2>1, <2>3 DEF TypeOK, ClaimTask, envVars
  <1> QED BY <1>1, <1>2 DEF Claim

LEMMA HandlerType ==
  ASSUME TypeOK, NEW w \in Worker, HandlerStep(w) \/ CheckpointStep(w)
  PROVE  TypeOK'
  <1>1. CASE HandlerReturns(w)
    <2>1. LocalTypeOK'
      <3>1. /\ pc[w] # "idle" /\ Goto(w, "control") /\ "control" \in PCs \ {"idle"}
            /\ UNCHANGED <<path, job, lease, seen, retry, nextSeq, cancel, hb>>
        BY <1>1 DEF HandlerReturns
      <3> QED BY <3>1, GotoType DEF TypeOK, LocalTypeOK
    <2> QED BY <1>1, <2>1, UnchangedStoreType DEF HandlerReturns, TypeOK, envVars
  <1>2. CASE HandlerRaises(w)
    BY <1>2, UnchangedStoreType, RaisesType DEF HandlerRaises, TypeOK, envVars
  <1>3. CASE CheckpointOwner(w)
    <2>1. LocalTypeOK'
      <3>1. CASE Raises(w)
        BY <1>3, <3>1, RaisesType DEF CheckpointOwner, TypeOK
      <3>2. CASE ~Raises(w)
        <4>1. /\ pc[w] # "idle" /\ Goto(w, "checkpointSeq")
              /\ UNCHANGED <<path, job, lease, seen, retry, nextSeq, cancel, hb>>
          BY <1>3, <3>2 DEF CheckpointOwner
        <4> QED BY <4>1, GotoType DEF TypeOK, LocalTypeOK
      <3> QED BY <3>1, <3>2
    <2> QED BY <1>3, <2>1, UnchangedStoreType DEF CheckpointOwner, TypeOK, envVars
  <1>4. CASE CheckpointSeq(w)
    <2>1. job[w] \in Task
      BY <1>4 DEF CheckpointSeq, TypeOK, LocalTypeOK
    <2>2. Len(checkpoints[job[w]]) + 1 \in Nat
      BY <2>1 DEF TypeOK, StoreTypeOK
    <2>3. LocalTypeOK'
      BY <1>4, <2>2 DEF CheckpointSeq, TypeOK, LocalTypeOK, Goto
    <2> QED BY <1>4, <2>3, UnchangedStoreType DEF CheckpointSeq, TypeOK, envVars
  <1>5. CASE CheckpointInsert(w)
    <2>1. LocalTypeOK'
      <3>1. CASE Raises(w)
        BY <1>5, <3>1, RaisesType DEF CheckpointInsert, TypeOK
      <3>2. CASE ~Raises(w)
        <4>1. /\ Goto(w, "handler")
              /\ nextSeq' = [nextSeq EXCEPT ![w] = 0]
              /\ UNCHANGED <<path, job, lease, seen, retry, cancel, hb>>
          BY <1>5, <3>2 DEF CheckpointInsert
        <4>2. pc[w] # "idle"
          BY <1>5 DEF CheckpointInsert
        <4> QED BY <4>1, <4>2, GotoType DEF TypeOK, LocalTypeOK
      <3> QED BY <3>1, <3>2
    <2>2. checkpoints' \in [Task -> Seq(Nat)]
      <3>1. job[w] \in Task /\ lease[w] \in Nat
        BY <1>5 DEF CheckpointInsert, TypeOK, LocalTypeOK
      <3>2. Append(checkpoints[job[w]], lease[w]) \in Seq(Nat)
        BY <3>1 DEF TypeOK, StoreTypeOK
      <3> QED BY <1>5, <3>2 DEF CheckpointInsert, TypeOK, StoreTypeOK
    <2>3. StoreTypeOK'
      BY <1>5, <2>2 DEF CheckpointInsert, TypeOK, StoreTypeOK, taskVars
    <2> QED BY <1>5, <2>1, <2>3 DEF CheckpointInsert, TypeOK, envVars
  <1> QED BY <1>1, <1>2, <1>3, <1>4, <1>5 DEF HandlerStep, CheckpointStep

LEMMA ReleaseType ==
  ASSUME TypeOK, NEW w \in Worker, ReleaseStep(w)
  PROVE  TypeOK'
  <1>1. CASE ReadControl(w)
    <2>1. job[w] \in Task
      BY <1>1 DEF ReadControl, TypeOK, LocalTypeOK
    <2>2. LocalTypeOK'
      BY <1>1, <2>1, RunAssumption DEF ReadControl, TypeOK, StoreTypeOK, LocalTypeOK, Goto
    <2> QED BY <1>1, <2>2, UnchangedStoreType DEF ReadControl, TypeOK, envVars
  <1>2. CASE Branch(w)
    BY <1>2, UnchangedStoreType DEF Branch, TypeOK, LocalTypeOK, Goto, envVars
  <1>3. CASE CompleteRead(w)
    <2>1. CASE Leaves(w) \/ Raises(w)
      BY <1>3, <2>1, LeavesType, RaisesType, UnchangedStoreType DEF CompleteRead, TypeOK, envVars
    <2>2. CASE ~(Leaves(w) \/ Raises(w))
      <3>1. LocalTypeOK'
        BY <1>3, <2>2 DEF CompleteRead, TypeOK, LocalTypeOK, Goto
      <3> QED BY <1>3, <3>1, UnchangedStoreType DEF CompleteRead, TypeOK, envVars
    <2> QED BY <2>1, <2>2
  <1>4. CASE FailRead(w)
    <2>1. LocalTypeOK'
      <3>1. CASE Raises(w)
        BY <1>4, <3>1, RaisesType DEF FailRead, TypeOK
      <3>2. CASE ~Raises(w)
        <4>1. /\ Goto(w, "failWrite")
              /\ retry' = [retry EXCEPT ![w] = AttemptsLeft(job[w])]
              /\ UNCHANGED <<path, job, lease, seen, nextSeq, cancel, hb>>
          BY <1>4, <3>2 DEF FailRead
        <4>2. pc[w] # "idle" /\ AttemptsLeft(job[w]) \in BOOLEAN
          BY <1>4 DEF FailRead, AttemptsLeft
        <4> QED BY <4>1, <4>2, GotoType DEF TypeOK, LocalTypeOK
      <3> QED BY <3>1, <3>2
    <2> QED BY <1>4, <2>1, UnchangedStoreType DEF FailRead, TypeOK, envVars
  <1>5. CASE DeferRead(w)
    <2>1. LocalTypeOK'
      BY <1>5, LeavesType DEF DeferRead, TypeOK, LocalTypeOK, Goto
    <2> QED BY <1>5, <2>1, UnchangedStoreType DEF DeferRead, TypeOK, envVars
  <1>6. CASE CancelRead(w)
    <2>1. CASE Leaves(w) \/ Raises(w)
      BY <1>6, <2>1, LeavesType, RaisesType, UnchangedStoreType DEF CancelRead, TypeOK, envVars
    <2>2. CASE ~(Leaves(w) \/ Raises(w))
      <3>1. LocalTypeOK'
        BY <1>6, <2>2 DEF CancelRead, TypeOK, LocalTypeOK, Goto
      <3> QED BY <1>6, <3>1, UnchangedStoreType DEF CancelRead, TypeOK, envVars
    <2> QED BY <2>1, <2>2
  <1>7. job[w] \in Task \cup {NoTask}
    BY DEF TypeOK, LocalTypeOK
  <1>8. CASE CompleteWrite(w)
    <2>1. result' \in [Task -> Nat] /\ completions' \in [Task -> Nat]
      <3>1. job[w] \in Task /\ lease[w] \in Nat
        BY <1>8 DEF CompleteWrite, TypeOK, LocalTypeOK
      <3>2. completions' \in [Task -> Nat]
        BY <1>8, <3>1 DEF CompleteWrite, TypeOK, StoreTypeOK
      <3>3. result' \in [Task -> Nat]
        BY <1>8, <3>1 DEF CompleteWrite, TypeOK, StoreTypeOK
      <3> QED BY <3>2, <3>3
    <2>2. StoreTypeOK'
      BY <1>7, <1>8, <2>1, ReleaseRowType DEF CompleteWrite, TypeOK, StoreTypeOK
    <2> QED BY <1>8, <2>2, LeavesType DEF CompleteWrite, TypeOK, envVars
  <1>9. CASE FailWrite(w)
    <2>1. StoreTypeOK'
      BY <1>7, <1>9, ReleaseRowType DEF FailWrite, TypeOK, StoreTypeOK, logVars
    <2> QED BY <1>9, <2>1, LeavesType DEF FailWrite, TypeOK, envVars
  <1>10. CASE DeferWrite(w)
    <2>1. deferrals' \in [Task -> Nat]
      <3>1. job[w] \in Task
        BY <1>10 DEF DeferWrite, TypeOK, LocalTypeOK
      <3> QED BY <1>10, <3>1 DEF DeferWrite, TypeOK, StoreTypeOK
    <2>2. StoreTypeOK'
      BY <1>7, <1>10, <2>1, ReleaseRowType DEF DeferWrite, TypeOK, StoreTypeOK
    <2> QED BY <1>10, <2>2, LeavesType DEF DeferWrite, TypeOK, envVars
  <1>11. CASE CancelWrite(w)
    <2>1. StoreTypeOK'
      BY <1>7, <1>11, ReleaseRowType DEF CancelWrite, TypeOK, StoreTypeOK, logVars
    <2> QED BY <1>11, <2>1, LeavesType DEF CancelWrite, TypeOK, envVars
  <1> QED
    BY <1>1, <1>2, <1>3, <1>4, <1>5, <1>6, <1>8, <1>9, <1>10, <1>11 DEF ReleaseStep

LEMMA HeartbeatType ==
  ASSUME TypeOK, NEW w \in Worker, HeartbeatStep(w)
  PROVE  TypeOK'
  <1>1. CASE HeartbeatRenew(w)
    <2>1. StoreTypeOK'
      BY <1>1 DEF HeartbeatRenew, TypeOK, StoreTypeOK, logVars
    <2>2. LocalTypeOK'
      BY <1>1 DEF HeartbeatRenew, TypeOK, LocalTypeOK
    <2> QED BY <1>1, <2>1, <2>2 DEF HeartbeatRenew, TypeOK, envVars
  <1>2. CASE HeartbeatControl(w)
    <2>1. PICK h \in {"off", "armed"}, c \in BOOLEAN :
            hb' = [hb EXCEPT ![w] = h] /\ cancel' = [cancel EXCEPT ![w] = c]
      <3>1. CASE hb[w] = "lost" \/ control[RunOf[job[w]]] \in Stopping
        BY <1>2, <3>1 DEF HeartbeatControl
      <3>2. CASE ~(hb[w] = "lost" \/ control[RunOf[job[w]]] \in Stopping)
        <4>1. hb' = [hb EXCEPT ![w] = "armed"] /\ cancel' = [cancel EXCEPT ![w] = cancel[w]]
          BY <1>2, <3>2 DEF HeartbeatControl, TypeOK, LocalTypeOK
        <4>2. cancel[w] \in BOOLEAN
          BY DEF TypeOK, LocalTypeOK
        <4> QED BY <4>1, <4>2
      <3> QED BY <3>1, <3>2
    <2>2. hb' \in [Worker -> {"off", "armed", "alive", "lost"}] /\ cancel' \in [Worker -> BOOLEAN]
      BY <2>1 DEF TypeOK, LocalTypeOK
    <2>3. \A v \in Worker : hb'[v] # "off" => hb[v] # "off"
      BY <1>2 DEF HeartbeatControl, TypeOK, LocalTypeOK
    <2>4. LocalTypeOK'
      BY <1>2, <2>2, <2>3 DEF HeartbeatControl, TypeOK, LocalTypeOK
    <2> QED BY <1>2, <2>4, UnchangedStoreType DEF HeartbeatControl, TypeOK, envVars
  <1> QED BY <1>1, <1>2 DEF HeartbeatStep

LEMMA FaultType ==
  ASSUME TypeOK, NEW w \in Worker, FaultStep(w)
  PROVE  TypeOK'
  <1>1. CASE HandlerInterrupted(w)
    BY <1>1, UnchangedStoreType DEF HandlerInterrupted, TypeOK, LocalTypeOK, Goto
  <1>2. CASE HeartbeatRaises(w)
    BY <1>2, UnchangedStoreType DEF HeartbeatRaises, TypeOK, LocalTypeOK
  <1>3. CASE StoreRaises(w)
    BY <1>3, UnchangedStoreType, RaisesType DEF StoreRaises, TypeOK
  <1>4. CASE WorkerDies(w)
    BY <1>4, UnchangedStoreType, LeavesType DEF WorkerDies, TypeOK
  <1> QED BY <1>1, <1>2, <1>3, <1>4 DEF FaultStep

LEMMA EnvironmentType ==
  ASSUME TypeOK, (\E t \in Task : TaskClock(t)) \/ Operator
  PROVE  TypeOK'
  <1>1. ASSUME NEW t \in Task, TaskClock(t) PROVE TypeOK'
    <2>1. StoreTypeOK'
      BY <1>1 DEF TaskClock, Enqueue, LeaseLapses, BackoffElapses, TypeOK, StoreTypeOK, logVars
    <2> QED BY <1>1, <2>1, UnchangedLocalType
            DEF TaskClock, Enqueue, LeaseLapses, BackoffElapses, TypeOK, envVars
  <1>2. ASSUME NEW r \in Run, NEW s \in OperatorStatus, SetRunControl(r, s) PROVE TypeOK'
    <2>1. StoreTypeOK'
      BY <1>2, OperatorAssumption
         DEF SetRunControl, CancelledByOperator, TypeOK, StoreTypeOK, logVars
    <2> QED BY <1>2, <2>1, UnchangedLocalType DEF SetRunControl, TypeOK
  <1> QED BY <1>1, <1>2 DEF Operator

LEMMA NextTypeOK == TypeOK /\ [Next]_vars => TypeOK'
  <1> SUFFICES ASSUME TypeOK, [Next]_vars PROVE TypeOK'
    OBVIOUS
  <1>1. CASE Next
    BY <1>1, ClaimType, HandlerType, ReleaseType, HeartbeatType, FaultType, EnvironmentType
       DEF Next, WorkerStep
  <1>2. CASE UNCHANGED vars
    BY <1>2, UnchangedStoreType, UnchangedLocalType DEF vars, envVars, TypeOK
  <1> QED BY <1>1, <1>2

\* Every variable keeps its type in every reachable state.
THEOREM TypeCorrect == Spec => []TypeOK
  BY InitTypeOK, NextTypeOK, PTL DEF Spec

-----------------------------------------------------------------------------
(* The inductive invariant *)

\* What fail_task decided when it read the row is right when it writes it: with
\* the lease still held the count is the one it saw, and it never decreases.
DecisionFits == \A w \in Worker : pc[w] = "failWrite" =>
    /\ retry[w] /\ owner[job[w]] = WorkerId[w] => AttemptsLeft(job[w])
    /\ ~retry[w] => ~AttemptsLeft(job[w])

\* A claimed snapshot is one the row has reached, and a claim spends an attempt.
ClaimNotAhead == \A w \in Worker :
    job[w] # NoTask => 0 < lease[w] /\ lease[w] <= attempt[job[w]]

\* A row that was never inserted was never claimed.
Unborn == \A t \in Task : status[t] = "NONE" => attempt[t] = 0

Inv == /\ TypeOK
       /\ Unborn
       /\ LeaseIffRunning
       /\ Fenced
       /\ ResultOfLatestAttempt
       /\ RetryBudget
       /\ FailedOnlyWhenExhausted
       /\ DecisionFits
       /\ ClaimNotAhead

-----------------------------------------------------------------------------
(* What steps do to workers and rows, as far as Inv can tell.              *)

\* A worker keeps its claim or drops it, and reaches the write of fail_task only
\* with a decision taken from the row as it is.
ClaimKept(v) ==
    /\ \/ job'[v] = NoTask
       \/ job'[v] = job[v] /\ lease'[v] = lease[v]
    /\ pc'[v] = "failWrite" =>
         /\ job'[v] = job[v]
         /\ \/ pc[v] = "failWrite" /\ retry'[v] = retry[v]
            \/ retry'[v] = AttemptsLeft(job[v])

RowsKept == UNCHANGED <<status, attempt, owner, lapsed, result, deferrals>>

\* No row changes and no worker claims.
Quiet == RowsKept /\ \A v \in Worker : ClaimKept(v)

LEMMA LeavesKeepsClaims ==
  ASSUME TypeOK, NEW w \in Worker, Leaves(w)
  PROVE  \A v \in Worker : ClaimKept(v)
  BY DEF TypeOK, LocalTypeOK, Leaves, Goto, ClaimKept

LEMMA RaisesKeepsClaims ==
  ASSUME TypeOK, NEW w \in Worker, Raises(w)
  PROVE  \A v \in Worker : ClaimKept(v)
  <1>1. CASE path[w] = "finish"
    BY <1>1 DEF TypeOK, LocalTypeOK, Raises, Goto, ClaimKept
  <1>2. CASE path[w] # "finish"
    BY <1>2, LeavesKeepsClaims DEF Raises
  <1> QED BY <1>1, <1>2

LEMMA GotoKeepsClaims ==
  ASSUME TypeOK, NEW w \in Worker, NEW l, l # "failWrite", Goto(w, l),
         UNCHANGED <<job, lease, retry>>
  PROVE  \A v \in Worker : ClaimKept(v)
  BY DEF TypeOK, LocalTypeOK, Goto, ClaimKept

LEMMA IdleLocalsKeepClaims ==
  ASSUME TypeOK, UNCHANGED <<pc, job, lease, retry>>
  PROVE  \A v \in Worker : ClaimKept(v)
  BY DEF ClaimKept

LEMMA HandlerQuiet ==
  ASSUME TypeOK, NEW w \in Worker, HandlerStep(w) \/ CheckpointStep(w)
  PROVE  Quiet
  <1>1. RowsKept
    BY DEF HandlerStep, CheckpointStep, HandlerReturns, HandlerRaises, CheckpointOwner,
           CheckpointSeq, CheckpointInsert, RowsKept, storeVars, taskVars, logVars
  <1>2. CASE Raises(w)
    BY <1>1, <1>2, RaisesKeepsClaims DEF Quiet
  <1>3. CASE ~Raises(w)
    <2>1. /\ UNCHANGED <<job, lease, retry>>
          /\ \E l \in PCs \ {"failWrite"} : Goto(w, l)
      <3>1. CASE HandlerReturns(w)
        BY <3>1 DEF HandlerReturns
      <3>2. CASE CheckpointOwner(w)
        BY <1>3, <3>2 DEF CheckpointOwner
      <3>3. CASE CheckpointSeq(w)
        BY <3>3 DEF CheckpointSeq
      <3>4. CASE CheckpointInsert(w)
        BY <1>3, <3>4 DEF CheckpointInsert
      <3> QED BY <1>3, <3>1, <3>2, <3>3, <3>4 DEF HandlerStep, CheckpointStep, HandlerRaises
    <2> QED BY <1>1, <2>1, GotoKeepsClaims DEF Quiet
  <1> QED BY <1>2, <1>3

ReadStep(w) ==
    \/ ReadControl(w) \/ Branch(w) \/ CompleteRead(w) \/ FailRead(w)
    \/ DeferRead(w)   \/ CancelRead(w)

LEMMA ReadQuiet ==
  ASSUME TypeOK, NEW w \in Worker, ReadStep(w)
  PROVE  Quiet
  <1>1. RowsKept
    BY DEF ReadStep, ReadControl, Branch, CompleteRead, FailRead, DeferRead, CancelRead,
           RowsKept, storeVars, taskVars, logVars
  <1>2. CASE Raises(w) \/ Leaves(w)
    BY <1>1, <1>2, RaisesKeepsClaims, LeavesKeepsClaims DEF Quiet
  <1>3. CASE ~(Raises(w) \/ Leaves(w)) /\ ~FailRead(w)
    <2>1. /\ UNCHANGED <<job, lease, retry>>
          /\ \E l \in PCs \ {"failWrite"} : Goto(w, l)
      <3>1. CASE ReadControl(w)
        BY <3>1 DEF ReadControl
      <3>2. CASE Branch(w)
        <4>1. CASE path[w] = "fail"
          BY <3>2, <4>1 DEF Branch
        <4>2. CASE path[w] # "fail"
          BY <3>2, <4>2 DEF Branch
        <4> QED BY <4>1, <4>2
      <3>3. CASE CompleteRead(w)
        BY <1>3, <3>3 DEF CompleteRead
      <3>4. CASE DeferRead(w)
        BY <1>3, <3>4 DEF DeferRead
      <3>5. CASE CancelRead(w)
        BY <1>3, <3>5 DEF CancelRead
      <3> QED BY <1>3, <3>1, <3>2, <3>3, <3>4, <3>5 DEF ReadStep
    <2> QED BY <1>1, <2>1, GotoKeepsClaims DEF Quiet
  <1>4. CASE ~(Raises(w) \/ Leaves(w)) /\ FailRead(w)
    <2>1. /\ retry' = [retry EXCEPT ![w] = AttemptsLeft(job[w])]
          /\ Goto(w, "failWrite")
          /\ UNCHANGED <<job, lease>>
      BY <1>4 DEF FailRead
    <2>2. \A v \in Worker : ClaimKept(v)
      BY <2>1 DEF TypeOK, LocalTypeOK, Goto, ClaimKept
    <2> QED BY <1>1, <2>2 DEF Quiet
  <1> QED BY <1>2, <1>3, <1>4

LEMMA FaultQuiet ==
  ASSUME TypeOK, NEW w \in Worker, FaultStep(w) \/ HeartbeatControl(w)
  PROVE  Quiet
  <1>1. RowsKept
    BY DEF FaultStep, HeartbeatControl, HandlerInterrupted, HeartbeatRaises, StoreRaises,
           WorkerDies, RowsKept, storeVars, taskVars, logVars
  <1>2. CASE Raises(w) \/ Leaves(w)
    BY <1>1, <1>2, RaisesKeepsClaims, LeavesKeepsClaims DEF Quiet
  <1>3. CASE HandlerInterrupted(w)
    BY <1>1, <1>3, GotoKeepsClaims DEF HandlerInterrupted, Quiet
  <1>4. CASE HeartbeatControl(w) \/ HeartbeatRaises(w)
    BY <1>1, <1>4, IdleLocalsKeepClaims DEF HeartbeatControl, HeartbeatRaises, Quiet
  <1> QED BY <1>2, <1>3, <1>4 DEF FaultStep, StoreRaises, WorkerDies

-----------------------------------------------------------------------------
(* A step without effect on rows and claims preserves Inv.                 *)

LEMMA QuietInv ==
  ASSUME Inv, Quiet, TypeOK'
  PROVE  Inv'
  <1> USE DEF Inv, Quiet, RowsKept
  <1>1. LeaseIffRunning' /\ ResultOfLatestAttempt' /\ RetryBudget' /\ FailedOnlyWhenExhausted' /\ Unborn'
    BY DEF Unborn, LeaseIffRunning, ResultOfLatestAttempt, RetryBudget, FailedOnlyWhenExhausted
  <1>2. Fenced'
    BY DEF Fenced, ClaimKept
  <1>3. DecisionFits'
    BY DEF DecisionFits, ClaimKept, AttemptsLeft
  <1>4. ClaimNotAhead'
    BY DEF ClaimNotAhead, ClaimKept
  <1> QED BY <1>1, <1>2, <1>3, <1>4

-----------------------------------------------------------------------------
(* The claim                                                               *)

\* Workers that fail_task has brought to its write hold a task.
LEMMA FailingHoldsTask ==
  ASSUME TypeOK
  PROVE  \A v \in Worker : pc[v] = "failWrite" => job[v] \in Task /\ job[v] # NoTask
  BY DEF TypeOK, LocalTypeOK

LEMMA ClaimNothingInv ==
  ASSUME Inv, NEW w \in Worker, ClaimNothing(w), TypeOK'
  PROVE  Inv'
  <1> USE DEF Inv, StatusAfterExpiry, ExpiredInto, OwnerAfterExpiry, Expired
  <1>1. /\ status' = [t \in Task |-> StatusAfterExpiry(t)]
        /\ owner' = [t \in Task |-> OwnerAfterExpiry(t)]
        /\ lapsed' = [t \in Task |-> FALSE]
        /\ UNCHANGED <<attempt, result, deferrals, pc, job, lease, retry>>
    BY DEF ClaimNothing, logVars, localVars
  <1>2. LeaseIffRunning' /\ Unborn'
    BY <1>1 DEF LeaseIffRunning, Unborn
  <1>3. ResultOfLatestAttempt' /\ FailedOnlyWhenExhausted'
    <2>1. \A t \in Task : attempt[t] \in Nat /\ MaxAttempts[t] \in Nat
      BY AttemptAssumption DEF TypeOK, StoreTypeOK
    <2> QED BY <1>1, <2>1 DEF ResultOfLatestAttempt, FailedOnlyWhenExhausted
  <1>4. RetryBudget'
    <2>1. SUFFICES ASSUME NEW t \in Task
                   PROVE  /\ attempt[t] <= MaxAttempts[t] + deferrals[t]
                          /\ status'[t] \in Waiting => attempt[t] < MaxAttempts[t] + deferrals[t]
      BY <1>1 DEF RetryBudget
    <2>2. attempt[t] \in Nat /\ deferrals[t] \in Nat /\ MaxAttempts[t] \in Nat
      BY AttemptAssumption DEF TypeOK, StoreTypeOK
    <2>3. CASE Expired(t)
      BY <1>1, <2>2, <2>3 DEF RetryBudget
    <2>4. CASE ~Expired(t)
      BY <1>1, <2>2, <2>4 DEF RetryBudget
    <2> QED BY <2>3, <2>4
  <1>5. Fenced' /\ DecisionFits' /\ ClaimNotAhead'
    <2>1. \A v \in Worker : job[v] # NoTask /\ owner'[job[v]] = WorkerId[v] => owner[job[v]] = WorkerId[v]
      BY <1>1, IdAssumption DEF TypeOK, LocalTypeOK
    <2>2. \A v \in Worker : pc[v] = "failWrite" => job[v] # NoTask
      BY DEF TypeOK, LocalTypeOK
    <2> QED BY <1>1, <2>1, <2>2 DEF Fenced, DecisionFits, ClaimNotAhead, AttemptsLeft
  <1> QED BY <1>2, <1>3, <1>4, <1>5

LEMMA ClaimTaskInv ==
  ASSUME DistinctIds, Inv, NEW w \in Worker, NEW t \in Task, ClaimTask(w, t), TypeOK'
  PROVE  Inv'
  <1> USE DEF Inv, StatusAfterExpiry, ExpiredInto, OwnerAfterExpiry, Expired
  <1>1. /\ status' = [u \in Task |-> IF u = t THEN "RUNNING" ELSE StatusAfterExpiry(u)]
        /\ owner' = [u \in Task |-> IF u = t THEN WorkerId[w] ELSE OwnerAfterExpiry(u)]
        /\ lapsed' = [u \in Task |-> FALSE]
        /\ attempt' = [attempt EXCEPT ![t] = @ + 1]
        /\ pc' = [pc EXCEPT ![w] = "handler"]
        /\ job' = [job EXCEPT ![w] = t]
        /\ lease' = [lease EXCEPT ![w] = attempt[t] + 1]
        /\ UNCHANGED <<result, deferrals, retry>>
    BY DEF ClaimTask, logVars, Goto, SnapshotAttempt
  <1>2. /\ StatusAfterExpiry(t) \in Waiting
        /\ pc[w] = "idle" /\ job[w] = NoTask
    BY DEF ClaimTask, Claimable, TypeOK, LocalTypeOK
  <1>3. attempt \in [Task -> Nat] /\ deferrals \in [Task -> Nat] /\ job \in [Worker -> Task \cup {NoTask}]
        /\ pc \in [Worker -> PCs] /\ lease \in [Worker -> Nat] /\ WorkerId[w] # NoOwner
    BY IdAssumption DEF TypeOK, StoreTypeOK, LocalTypeOK
  <1>4. LeaseIffRunning' /\ Unborn'
    BY <1>1, <1>3 DEF LeaseIffRunning, Unborn
  <1>5. ResultOfLatestAttempt' /\ FailedOnlyWhenExhausted'
    <2>1. \A u \in Task : attempt[u] \in Nat /\ MaxAttempts[u] \in Nat
      BY <1>3, AttemptAssumption
    <2> QED BY <1>1, <1>3, <2>1 DEF ResultOfLatestAttempt, FailedOnlyWhenExhausted
  <1>6. RetryBudget'
    <2>1. \A u \in Task : attempt[u] \in Nat /\ deferrals[u] \in Nat /\ MaxAttempts[u] \in Nat
      BY <1>3, AttemptAssumption
    <2>2. \A u \in Task : StatusAfterExpiry(u) \in Waiting => attempt[u] < MaxAttempts[u] + deferrals[u]
      BY <2>1 DEF RetryBudget
    <2>3. SUFFICES ASSUME NEW u \in Task
                   PROVE  /\ attempt'[u] <= MaxAttempts[u] + deferrals[u]
                          /\ status'[u] \in Waiting => attempt'[u] < MaxAttempts[u] + deferrals[u]
      BY <1>1 DEF RetryBudget
    <2>4. CASE u = t
      BY <1>1, <1>2, <1>3, <2>1, <2>2, <2>4
    <2>5. CASE u # t
      BY <1>1, <1>3, <2>1, <2>2, <2>5 DEF RetryBudget
    <2> QED BY <2>4, <2>5
  <1>7. \A v \in Worker : v # w /\ job[v] # NoTask /\ owner'[job[v]] = WorkerId[v]
            => job[v] # t /\ owner[job[v]] = WorkerId[v]
    BY <1>1, <1>3, IdAssumption DEF DistinctIds
  <1>8. \A v \in Worker : v # w => job'[v] = job[v] /\ lease'[v] = lease[v] /\ pc'[v] = pc[v]
    BY <1>1, <1>3
  <1>9. job'[w] = t /\ lease'[w] = attempt'[t] /\ pc'[w] = "handler" /\ attempt'[t] = attempt[t] + 1
    BY <1>1, <1>3
  <1>10. \A u \in Task : attempt'[u] >= attempt[u] /\ (u # t => attempt'[u] = attempt[u])
    BY <1>1, <1>3
  <1>11. Fenced'
    BY <1>3, <1>7, <1>8, <1>9, <1>10 DEF Fenced
  <1>12. DecisionFits'
    <2>1. SUFFICES ASSUME NEW v \in Worker, pc'[v] = "failWrite"
                   PROVE  /\ retry'[v] /\ owner'[job'[v]] = WorkerId[v]
                                => attempt'[job'[v]] < MaxAttempts[job'[v]]
                          /\ ~retry'[v] => ~(attempt'[job'[v]] < MaxAttempts[job'[v]])
      BY DEF DecisionFits, AttemptsLeft
    <2>2. v # w
      BY <1>9, <2>1
    <2>3. pc[v] = "failWrite" /\ job'[v] = job[v] /\ retry'[v] = retry[v]
      BY <1>1, <1>8, <2>1, <2>2
    <2>4. job[v] \in Task /\ job[v] # NoTask
      BY <2>3, FailingHoldsTask
    <2>5. /\ retry[v] /\ owner[job[v]] = WorkerId[v] => attempt[job[v]] < MaxAttempts[job[v]]
          /\ ~retry[v] => ~(attempt[job[v]] < MaxAttempts[job[v]])
      BY <2>3 DEF DecisionFits, AttemptsLeft
    <2>6. attempt[job[v]] \in Nat /\ attempt'[job[v]] \in Nat /\ MaxAttempts[job[v]] \in Nat
      BY <1>1, <1>3, <2>4, AttemptAssumption
    <2> QED BY <1>7, <1>10, <2>2, <2>3, <2>4, <2>5, <2>6
  <1>13. ClaimNotAhead'
    BY <1>3, <1>8, <1>9, <1>10 DEF ClaimNotAhead
  <1> QED BY <1>4, <1>5, <1>6, <1>11, <1>12, <1>13

-----------------------------------------------------------------------------
(* The four releases                                                       *)

\* A release preserves Inv when the status it writes is one the row has earned.
LEMMA ReleaseInv ==
  ASSUME Inv, TypeOK', NEW t \in Task,
         NEW s \in {"SUCCEEDED", "FAILED", "RETRY_WAIT", "CANCELLED"}, ReleaseRow(t, s),
         \A v \in Worker : ClaimKept(v),
         \A u \in Task : deferrals'[u] >= deferrals[u],
         \A u \in Task : u # t => result'[u] = result[u],
         s = "SUCCEEDED" => result'[t] = attempt[t] /\ result'[t] > 0,
         s = "FAILED" => attempt[t] >= MaxAttempts[t],
         s = "RETRY_WAIT" => attempt[t] < MaxAttempts[t] + deferrals'[t]
  PROVE  Inv'
  <1> USE DEF Inv
  <1>1. /\ status' = [status EXCEPT ![t] = s]
        /\ owner' = [owner EXCEPT ![t] = NoOwner]
        /\ lapsed' = [lapsed EXCEPT ![t] = FALSE]
        /\ attempt' = attempt
    BY DEF ReleaseRow
  <1>2. /\ status \in [Task -> {"NONE", "RUNNING"} \cup Waiting \cup Terminal]
        /\ owner \in [Task -> OwnerIds] /\ lapsed \in [Task -> BOOLEAN]
    BY DEF TypeOK, StoreTypeOK
  <1>3. \A u \in Task : /\ attempt[u] \in Nat /\ deferrals[u] \in Nat /\ deferrals'[u] \in Nat
                        /\ MaxAttempts[u] \in Nat
    BY AttemptAssumption DEF TypeOK, StoreTypeOK
  <1>4. LeaseIffRunning' /\ Unborn'
    BY <1>1, <1>2 DEF LeaseIffRunning, Unborn
  <1>5. ResultOfLatestAttempt'
    BY <1>1, <1>2 DEF ResultOfLatestAttempt
  <1>6. RetryBudget'
    <2>1. SUFFICES ASSUME NEW u \in Task
                   PROVE  /\ attempt[u] <= MaxAttempts[u] + deferrals'[u]
                          /\ status'[u] \in Waiting => attempt[u] < MaxAttempts[u] + deferrals'[u]
      BY <1>1 DEF RetryBudget
    <2>2. attempt[u] <= MaxAttempts[u] + deferrals[u] /\ deferrals'[u] >= deferrals[u]
      BY DEF RetryBudget
    <2>3. status'[u] \in Waiting => attempt[u] < MaxAttempts[u] + deferrals'[u]
      <3>1. CASE u = t
        BY <1>1, <1>2, <3>1
      <3>2. CASE u # t
        <4>1. status'[u] = status[u]
          BY <1>1, <1>2, <3>2
        <4> QED BY <1>3, <2>2, <4>1 DEF RetryBudget
      <3> QED BY <3>1, <3>2
    <2> QED BY <1>3, <2>2, <2>3
  <1>7. FailedOnlyWhenExhausted'
    BY <1>1, <1>2, <1>3 DEF FailedOnlyWhenExhausted
  <1>8. \A v \in Worker : job'[v] # NoTask /\ owner'[job'[v]] = WorkerId[v]
            => job'[v] = job[v] /\ owner[job[v]] = WorkerId[v]
    <2>1. SUFFICES ASSUME NEW v \in Worker, job'[v] # NoTask, owner'[job'[v]] = WorkerId[v]
                   PROVE  job'[v] = job[v] /\ owner[job[v]] = WorkerId[v]
      OBVIOUS
    <2>2. job'[v] = job[v] /\ job[v] \in Task
      BY <2>1 DEF ClaimKept, TypeOK, LocalTypeOK
    <2>3. WorkerId[v] # NoOwner
      BY IdAssumption
    <2> QED BY <1>1, <1>2, <2>1, <2>2, <2>3
  <1>9. Fenced'
    BY <1>1, <1>8 DEF Fenced, ClaimKept
  <1>10. DecisionFits'
    <2>1. SUFFICES ASSUME NEW v \in Worker, pc'[v] = "failWrite"
                   PROVE  /\ retry'[v] /\ owner'[job'[v]] = WorkerId[v]
                                => attempt'[job'[v]] < MaxAttempts[job'[v]]
                          /\ ~retry'[v] => ~(attempt'[job'[v]] < MaxAttempts[job'[v]])
      BY DEF DecisionFits, AttemptsLeft
    <2>2. job'[v] = job[v] /\ job'[v] # NoTask
      <3>1. job'[v] # NoTask
        BY <2>1 DEF TypeOK, LocalTypeOK
      <3> QED BY <2>1, <3>1 DEF ClaimKept
    <2>3. CASE pc[v] = "failWrite" /\ retry'[v] = retry[v]
      <3>1. /\ retry[v] /\ owner[job[v]] = WorkerId[v] => attempt[job[v]] < MaxAttempts[job[v]]
            /\ ~retry[v] => ~(attempt[job[v]] < MaxAttempts[job[v]])
        BY <2>3 DEF DecisionFits, AttemptsLeft
      <3> QED BY <1>1, <1>8, <2>2, <2>3, <3>1
    <2>4. CASE retry'[v] = (attempt[job[v]] < MaxAttempts[job[v]])
      BY <1>1, <2>2, <2>4
    <2> QED BY <2>1, <2>3, <2>4 DEF ClaimKept, AttemptsLeft
  <1>11. ClaimNotAhead'
    BY <1>1 DEF ClaimNotAhead, ClaimKept
  <1> QED BY <1>4, <1>5, <1>6, <1>7, <1>9, <1>10, <1>11

WriteStep(w) == CompleteWrite(w) \/ FailWrite(w) \/ DeferWrite(w) \/ CancelWrite(w)

\* An UPDATE whose fence matched no row changes no row.
LEMMA NoMatchQuiet ==
  ASSUME TypeOK, NEW w \in Worker, Leaves(w), RowsKept
  PROVE  Quiet
  BY LeavesKeepsClaims DEF Quiet

LEMMA WriteInv ==
  ASSUME Inv, NEW w \in Worker, WriteStep(w), TypeOK'
  PROVE  Inv'
  <1> DEFINE t == job[w]
  <1>1. /\ TypeOK
        /\ t \in Task /\ t # NoTask /\ lease[w] \in Nat
        /\ \A u \in Task : attempt[u] \in Nat /\ deferrals[u] \in Nat /\ MaxAttempts[u] \in Nat
        /\ deferrals \in [Task -> Nat] /\ result \in [Task -> Nat]
    <2>1. TypeOK
      BY DEF Inv
    <2>2. pc[w] # "idle"
      BY DEF WriteStep, CompleteWrite, FailWrite, DeferWrite, CancelWrite
    <2>3. t \in Task /\ t # NoTask /\ lease[w] \in Nat
      BY <2>1, <2>2 DEF TypeOK, LocalTypeOK
    <2> QED BY <2>1, <2>3, AttemptAssumption DEF TypeOK, StoreTypeOK
  <1>2. Leaves(w)
    BY DEF WriteStep, CompleteWrite, FailWrite, DeferWrite, CancelWrite
  <1>3. \A v \in Worker : ClaimKept(v)
    BY <1>1, <1>2, LeavesKeepsClaims
  <1>4. CASE CompleteWrite(w)
    <2>1. CASE CompleteFence(w)
      <3>1. /\ ReleaseRow(t, "SUCCEEDED")
            /\ result' = [result EXCEPT ![t] = lease[w]]
            /\ deferrals' = deferrals
        BY <1>4, <2>1 DEF CompleteWrite
      <3>2. lease[w] = attempt[t] /\ lease[w] > 0
        BY <1>1, <2>1 DEF CompleteFence, HoldsLease, Inv, Fenced, ClaimNotAhead
      <3> QED BY <1>1, <1>3, <3>1, <3>2, ReleaseInv
    <2>2. CASE ~CompleteFence(w)
      BY <1>1, <1>2, <1>4, <2>2, NoMatchQuiet, QuietInv DEF CompleteWrite, RowsKept
    <2> QED BY <2>1, <2>2
  <1>5. CASE FailWrite(w)
    <2>1. CASE FailFence(w)
      <3>1. /\ ReleaseRow(t, IF retry[w] THEN "RETRY_WAIT" ELSE "FAILED")
            /\ UNCHANGED <<result, deferrals>>
        BY <1>5, <2>1 DEF FailWrite, logVars
      <3>2. /\ retry[w] => attempt[t] < MaxAttempts[t]
            /\ ~retry[w] => attempt[t] >= MaxAttempts[t]
        BY <1>1, <1>5, <2>1
           DEF FailWrite, FailFence, HoldsLease, Inv, DecisionFits, AttemptsLeft
      <3>3. CASE retry[w]
        BY <1>1, <1>3, <3>1, <3>2, <3>3, ReleaseInv
      <3>4. CASE ~retry[w]
        BY <1>1, <1>3, <3>1, <3>2, <3>4, ReleaseInv
      <3> QED BY <3>3, <3>4
    <2>2. CASE ~FailFence(w)
      BY <1>1, <1>2, <1>5, <2>2, NoMatchQuiet, QuietInv DEF FailWrite, RowsKept, logVars
    <2> QED BY <2>1, <2>2
  <1>6. CASE DeferWrite(w)
    <2>1. /\ ReleaseRow(t, "RETRY_WAIT")
          /\ deferrals' = [deferrals EXCEPT ![t] = @ + 1]
          /\ result' = result
      BY <1>6 DEF DeferWrite
    <2>2. attempt[t] <= MaxAttempts[t] + deferrals[t]
      BY <1>1 DEF Inv, RetryBudget
    <2>3. deferrals'[t] = deferrals[t] + 1 /\ \A u \in Task : deferrals'[u] >= deferrals[u]
      BY <1>1, <2>1
    <2>4. attempt[t] < MaxAttempts[t] + deferrals'[t]
      BY <1>1, <2>2, <2>3
    <2> QED BY <1>1, <1>3, <2>1, <2>3, <2>4, ReleaseInv
  <1>7. CASE CancelWrite(w)
    <2>1. ReleaseRow(t, "CANCELLED") /\ UNCHANGED <<result, deferrals>>
      BY <1>7 DEF CancelWrite, logVars
    <2> QED BY <1>1, <1>3, <2>1, ReleaseInv
  <1> QED BY <1>4, <1>5, <1>6, <1>7 DEF WriteStep

-----------------------------------------------------------------------------
(* The clocks, the heartbeat and the operator                              *)

\* A flag of a RUNNING row that changes, and nothing else of the row.
LEMMA LapsedInv ==
  ASSUME Inv, TypeOK', NEW t \in Task, NEW b \in BOOLEAN,
         b => status[t] = "RUNNING", lapsed' = [lapsed EXCEPT ![t] = b],
         UNCHANGED <<status, attempt, owner, result, deferrals, pc, job, lease, retry>>
  PROVE  Inv'
  <1> USE DEF Inv
  <1>1. LeaseIffRunning' /\ Unborn'
    BY DEF LeaseIffRunning, Unborn, TypeOK, StoreTypeOK
  <1>2. ResultOfLatestAttempt' /\ RetryBudget' /\ FailedOnlyWhenExhausted'
    BY DEF ResultOfLatestAttempt, RetryBudget, FailedOnlyWhenExhausted
  <1>3. Fenced' /\ DecisionFits' /\ ClaimNotAhead'
    BY DEF Fenced, DecisionFits, ClaimNotAhead, AttemptsLeft
  <1> QED BY <1>1, <1>2, <1>3

\* A row that changes status without being claimed, released or leased.
LEMMA StatusInv ==
  ASSUME Inv, TypeOK',
         \A t \in Task : \/ status'[t] = status[t]
                         \/ status[t] = "NONE" /\ status'[t] = "PENDING"
                         \/ status[t] \in Waiting /\ status'[t] = "CANCELLED",
         UNCHANGED <<attempt, owner, lapsed, result, deferrals, pc, job, lease, retry>>
  PROVE  Inv'
  <1> USE DEF Inv
  <1>1. \A t \in Task : attempt[t] \in Nat /\ deferrals[t] \in Nat /\ MaxAttempts[t] \in Nat \ {0}
    BY AttemptAssumption DEF TypeOK, StoreTypeOK
  <1>2. LeaseIffRunning' /\ ResultOfLatestAttempt' /\ FailedOnlyWhenExhausted' /\ Unborn'
    BY <1>1 DEF LeaseIffRunning, ResultOfLatestAttempt, FailedOnlyWhenExhausted, Unborn
  <1>3. RetryBudget'
    BY <1>1 DEF RetryBudget, Unborn
  <1>4. Fenced' /\ DecisionFits' /\ ClaimNotAhead'
    BY DEF Fenced, DecisionFits, ClaimNotAhead, AttemptsLeft
  <1> QED BY <1>2, <1>3, <1>4

LEMMA HeartbeatInv ==
  ASSUME Inv, NEW w \in Worker, HeartbeatRenew(w), TypeOK'
  PROVE  Inv'
  <1>1. job[w] \in Task
    BY DEF HeartbeatRenew, Inv, TypeOK, LocalTypeOK
  <1>2. CASE HoldsLease(w)
    <2>1. lapsed' = [lapsed EXCEPT ![job[w]] = FALSE]
      BY <1>2 DEF HeartbeatRenew
    <2>2. UNCHANGED <<status, attempt, owner, result, deferrals, pc, job, lease, retry>>
      BY DEF HeartbeatRenew, logVars
    <2> QED BY <1>1, <2>1, <2>2, LapsedInv
  <1>3. CASE ~HoldsLease(w)
    <2>1. RowsKept /\ UNCHANGED <<pc, job, lease, retry>>
      BY <1>3 DEF HeartbeatRenew, RowsKept, logVars
    <2> QED BY <2>1, IdleLocalsKeepClaims, QuietInv DEF Quiet, Inv
  <1> QED BY <1>2, <1>3

LEMMA EnvironmentInv ==
  ASSUME Inv, (\E t \in Task : TaskClock(t)) \/ Operator, TypeOK'
  PROVE  Inv'
  <1>1. TypeOK
    BY DEF Inv
  <1>2. ASSUME NEW t \in Task, Enqueue(t) PROVE Inv'
    <2>1. \A u \in Task : \/ status'[u] = status[u]
                          \/ status[u] = "NONE" /\ status'[u] = "PENDING"
      BY <1>1, <1>2 DEF Enqueue, TypeOK, StoreTypeOK
    <2>2. UNCHANGED <<attempt, owner, lapsed, result, deferrals, pc, job, lease, retry>>
      BY <1>2 DEF Enqueue, logVars, localVars
    <2> QED BY <2>1, <2>2, StatusInv
  <1>3. ASSUME NEW t \in Task, LeaseLapses(t) PROVE Inv'
    <2>1. /\ status[t] = "RUNNING" /\ lapsed' = [lapsed EXCEPT ![t] = TRUE]
          /\ UNCHANGED <<status, attempt, owner, result, deferrals, pc, job, lease, retry>>
      BY <1>3 DEF LeaseLapses, logVars, localVars
    <2> QED BY <2>1, LapsedInv
  <1>4. ASSUME NEW t \in Task, BackoffElapses(t) PROVE Inv'
    <2>1. RowsKept /\ UNCHANGED <<pc, job, lease, retry>>
      BY <1>4 DEF BackoffElapses, RowsKept, logVars, localVars
    <2> QED BY <1>1, <2>1, IdleLocalsKeepClaims, QuietInv DEF Quiet
  <1>5. ASSUME NEW r \in Run, NEW s \in OperatorStatus, SetRunControl(r, s) PROVE Inv'
    <2>1. \A t \in Task : \/ status'[t] = status[t]
                          \/ status[t] \in Waiting /\ status'[t] = "CANCELLED"
      BY <1>5 DEF SetRunControl, CancelledByOperator
    <2>2. UNCHANGED <<attempt, owner, lapsed, result, deferrals, pc, job, lease, retry>>
      BY <1>5 DEF SetRunControl, logVars, localVars
    <2> QED BY <2>1, <2>2, StatusInv
  <1> QED BY <1>2, <1>3, <1>4, <1>5 DEF TaskClock, Operator

-----------------------------------------------------------------------------
(* The invariant                                                           *)

LEMMA InitInv == Init => Inv
  <1> SUFFICES ASSUME Init PROVE Inv
    OBVIOUS
  <1>1. TypeOK
    BY InitTypeOK
  <1>2. LeaseIffRunning /\ Fenced /\ ResultOfLatestAttempt /\ FailedOnlyWhenExhausted
    BY DEF Init, LeaseIffRunning, Fenced, ResultOfLatestAttempt, FailedOnlyWhenExhausted
  <1>3. Unborn /\ DecisionFits /\ ClaimNotAhead
    BY DEF Init, Unborn, DecisionFits, ClaimNotAhead
  <1>4. RetryBudget
    BY AttemptAssumption DEF Init, RetryBudget
  <1> QED BY <1>1, <1>2, <1>3, <1>4 DEF Inv

LEMMA NextInv == DistinctIds /\ Inv /\ [Next]_vars => Inv'
  <1> SUFFICES ASSUME DistinctIds, Inv, [Next]_vars PROVE Inv'
    OBVIOUS
  <1>1. TypeOK /\ TypeOK'
    BY NextTypeOK DEF Inv
  <1>2. ASSUME NEW w \in Worker, WorkerStep(w) PROVE Inv'
    <2>1. CASE Claim(w)
      BY <1>1, <2>1, ClaimNothingInv, ClaimTaskInv DEF Claim
    <2>2. CASE HandlerStep(w) \/ CheckpointStep(w)
      BY <1>1, <2>2, HandlerQuiet, QuietInv
    <2>3. CASE ReadStep(w)
      BY <1>1, <2>3, ReadQuiet, QuietInv
    <2>4. CASE WriteStep(w)
      BY <1>1, <2>4, WriteInv
    <2>5. CASE HeartbeatRenew(w)
      BY <1>1, <2>5, HeartbeatInv
    <2>6. CASE HeartbeatControl(w) \/ FaultStep(w)
      BY <1>1, <2>6, FaultQuiet, QuietInv
    <2> QED BY <1>2, <2>1, <2>2, <2>3, <2>4, <2>5, <2>6
            DEF WorkerStep, ReleaseStep, ReadStep, WriteStep, HeartbeatStep
  <1>3. CASE (\E t \in Task : TaskClock(t)) \/ Operator
    BY <1>1, <1>3, EnvironmentInv
  <1>4. CASE UNCHANGED vars
    <2>1. RowsKept /\ UNCHANGED <<pc, job, lease, retry>>
      BY <1>4 DEF vars, storeVars, taskVars, logVars, localVars, RowsKept
    <2> QED BY <1>1, <2>1, IdleLocalsKeepClaims, QuietInv DEF Quiet
  <1> QED BY <1>2, <1>3, <1>4 DEF Next

LEMMA SpecInv == DistinctIds => (Spec => []Inv)
  <1>1. DistinctIds /\ Inv /\ [Next]_vars => Inv'
    BY NextInv
  <1>2. CASE DistinctIds
    <2>1. Inv /\ [Next]_vars => Inv'
      BY <1>1, <1>2
    <2>2. Spec => []Inv
      BY <2>1, InitInv, PTL DEF Spec
    <2> QED BY <2>2
  <1> QED BY <1>2

\* A row carries a lease exactly while it is RUNNING, after any sequence of
\* claims, expiries, releases, cancellations and renewals (run_store.py).
THEOREM LeaseTracksStatus == DistinctIds => (Spec => []LeaseIffRunning)
  <1>1. Inv => LeaseIffRunning
    BY DEF Inv
  <1> QED BY <1>1, SpecInv, PTL

\* A worker whose lease was reclaimed never again passes the lease check of
\* run_store.py: whoever passes it works on the current attempt.
THEOREM Fencing == DistinctIds => (Spec => []Fenced)
  <1>1. Inv => Fenced
    BY DEF Inv
  <1> QED BY <1>1, SpecInv, PTL

\* complete_task stores the result of the latest claim of a task, whichever
\* workers ran it and whenever their leases lapsed.
THEOREM ResultIsCurrent == DistinctIds => (Spec => []ResultOfLatestAttempt)
  <1>1. Inv => ResultOfLatestAttempt
    BY DEF Inv
  <1> QED BY <1>1, SpecInv, PTL

\* max_attempts bounds the claims of a task, one more for each defer_task.
THEOREM BudgetKept == DistinctIds => (Spec => []RetryBudget)
  <1>1. Inv => RetryBudget
    BY DEF Inv
  <1> QED BY <1>1, SpecInv, PTL

\* Neither fail_task nor the expiry in claim_next_task gives a task up early.
THEOREM NoEarlyFailure == DistinctIds => (Spec => []FailedOnlyWhenExhausted)
  <1>1. Inv => FailedOnlyWhenExhausted
    BY DEF Inv
  <1> QED BY <1>1, SpecInv, PTL

-----------------------------------------------------------------------------
(* Steps of the queue that the life cycle does not see, or sees at one task*)

USE DEF Lifecycle!Waiting, Lifecycle!Executable

LEMMA UnseenStep ==
  ASSUME TypeOK', UNCHANGED <<status, attempt, result>>
  PROVE  Lifecycle!Next
  BY DEF TypeOK, StoreTypeOK, Lifecycle!Next, Lifecycle!TaskStep, Lifecycle!Stays,
         Lifecycle!OneClaim

LEMMA OneTaskStep ==
  ASSUME TypeOK, TypeOK', NEW t \in Task, Lifecycle!TaskStep(t),
         \A u \in Task : u # t => Lifecycle!Stays(u)
  PROVE  Lifecycle!Next
  <1>1. \A u \in Task : Lifecycle!TaskStep(u)
    BY DEF Lifecycle!TaskStep
  <1>2. Lifecycle!OneClaim
    BY DEF Lifecycle!OneClaim, Lifecycle!Stays
  <1> QED BY <1>1, <1>2 DEF TypeOK, StoreTypeOK, Lifecycle!Next

\* Steps in which no task starts an attempt.
LEMMA NoClaimStep ==
  ASSUME TypeOK', attempt' = attempt, \A t \in Task : Lifecycle!TaskStep(t)
  PROVE  Lifecycle!Next
  BY DEF TypeOK, StoreTypeOK, Lifecycle!Next, Lifecycle!OneClaim

-----------------------------------------------------------------------------
(* Claims                                                                  *)

LEMMA ExpiryStep ==
  ASSUME TypeOK, NEW t \in Task, status'[t] = StatusAfterExpiry(t),
         attempt'[t] = attempt[t], result'[t] = result[t]
  PROVE  Lifecycle!TaskStep(t)
  <1>1. CASE Expired(t)
    <2>1. status[t] = "RUNNING" /\ status'[t] \in {"RETRY_WAIT", "FAILED"}
      BY <1>1 DEF Expired, StatusAfterExpiry, ExpiredInto
    <2> QED BY <2>1 DEF Lifecycle!TaskStep, Lifecycle!Requeued, Lifecycle!Failed, Lifecycle!Moves
  <1>2. CASE ~Expired(t)
    BY <1>2 DEF StatusAfterExpiry, Lifecycle!TaskStep, Lifecycle!Stays
  <1> QED BY <1>1, <1>2

LEMMA ClaimRefines ==
  ASSUME TypeOK, TypeOK', NEW w \in Worker, Claim(w)
  PROVE  Lifecycle!Next
  <1>1. CASE ClaimNothing(w)
    <2>1. attempt' = attempt
      BY <1>1 DEF ClaimNothing
    <2>2. ASSUME NEW t \in Task PROVE Lifecycle!TaskStep(t)
      <3>1. status'[t] = StatusAfterExpiry(t) /\ attempt'[t] = attempt[t] /\ result'[t] = result[t]
        BY <1>1 DEF ClaimNothing
      <3> QED BY <3>1, ExpiryStep
    <2> QED BY <2>1, <2>2, NoClaimStep
  <1>2. ASSUME NEW t \in Task, ClaimTask(w, t) PROVE Lifecycle!Next
    <2>1. /\ status'[t] = "RUNNING" /\ attempt'[t] = attempt[t] + 1 /\ result'[t] = result[t]
          /\ StatusAfterExpiry(t) \in Waiting /\ control[RunOf[t]] \in Executable
      BY <1>2 DEF ClaimTask, Claimable, TypeOK, StoreTypeOK
    <2>2. status[t] \in Waiting \cup {"RUNNING"}
      BY <2>1 DEF StatusAfterExpiry, Expired
    <2>3. Lifecycle!TaskStep(t)
      BY <2>1, <2>2 DEF Lifecycle!TaskStep, Lifecycle!Claimed
    <2>4. ASSUME NEW u \in Task, u # t
          PROVE  /\ status'[u] = StatusAfterExpiry(u)
                 /\ attempt'[u] = attempt[u] /\ result'[u] = result[u]
      BY <1>2, <2>4 DEF ClaimTask, TypeOK, StoreTypeOK
    <2>5. \A u \in Task : Lifecycle!TaskStep(u)
      BY <2>3, <2>4, ExpiryStep
    <2>6. Lifecycle!OneClaim
      BY <2>4 DEF Lifecycle!OneClaim
    <2> QED BY <2>5, <2>6 DEF TypeOK, StoreTypeOK, Lifecycle!Next
  <1> QED BY <1>1, <1>2 DEF Claim

-----------------------------------------------------------------------------
(* Releases                                                                *)

LEMMA ReleaseRefines ==
  ASSUME TypeOK, TypeOK', NEW t \in Task,
         NEW s \in {"SUCCEEDED", "FAILED", "RETRY_WAIT", "CANCELLED"}, ReleaseRow(t, s),
         \A u \in Task : u # t => result'[u] = result[u],
         \/ s = "SUCCEEDED" /\ status[t] = "RUNNING" /\ result'[t] = attempt[t]
         \/ s \in {"FAILED", "RETRY_WAIT"} /\ status[t] = "RUNNING" /\ result'[t] = result[t]
         \/ s \in {"RETRY_WAIT", "CANCELLED"} /\ attempt[t] > 0 /\ result'[t] = result[t]
  PROVE  Lifecycle!Next
  <1>1. status'[t] = s /\ attempt' = attempt
    BY DEF ReleaseRow, TypeOK, StoreTypeOK
  <1>2. \A u \in Task : u # t => Lifecycle!Stays(u)
    BY <1>1 DEF ReleaseRow, TypeOK, StoreTypeOK, Lifecycle!Stays
  <1>3. CASE s = "SUCCEEDED" /\ status[t] = "RUNNING" /\ result'[t] = attempt[t]
    <2>1. Lifecycle!Succeeded(t)
      BY <1>1, <1>3 DEF Lifecycle!Succeeded
    <2> QED BY <1>2, <2>1, OneTaskStep DEF Lifecycle!TaskStep
  <1>4. CASE s \in {"FAILED", "RETRY_WAIT"} /\ status[t] = "RUNNING" /\ result'[t] = result[t]
    <2>1. Lifecycle!Failed(t) \/ Lifecycle!Requeued(t)
      BY <1>1, <1>4 DEF Lifecycle!Failed, Lifecycle!Requeued, Lifecycle!Moves
    <2> QED BY <1>2, <2>1, OneTaskStep DEF Lifecycle!TaskStep
  <1>5. CASE s \in {"RETRY_WAIT", "CANCELLED"} /\ attempt[t] > 0 /\ result'[t] = result[t]
    <2>1. Lifecycle!Overwritten(t)
      BY <1>1, <1>5 DEF Lifecycle!Overwritten, Lifecycle!Moves
    <2> QED BY <1>2, <2>1, OneTaskStep DEF Lifecycle!TaskStep
  <1> QED BY <1>3, <1>4, <1>5

LEMMA WriteRefines ==
  ASSUME Inv, TypeOK', NEW w \in Worker, WriteStep(w)
  PROVE  Lifecycle!Next
  <1> DEFINE t == job[w]
  <1>1. TypeOK /\ t \in Task /\ t # NoTask
    BY DEF Inv, TypeOK, LocalTypeOK, WriteStep, CompleteWrite, FailWrite, DeferWrite, CancelWrite
  <1>2. lease[w] > 0 /\ lease[w] <= attempt[t] /\ lease[w] \in Nat /\ attempt[t] \in Nat
    BY <1>1 DEF Inv, ClaimNotAhead, TypeOK, StoreTypeOK, LocalTypeOK
  <1>3. CASE CompleteWrite(w)
    <2>1. CASE CompleteFence(w)
      <3>1. ReleaseRow(t, "SUCCEEDED") /\ result' = [result EXCEPT ![t] = lease[w]]
        BY <1>3, <2>1 DEF CompleteWrite
      <3>2. result'[t] = lease[w] /\ \A u \in Task : u # t => result'[u] = result[u]
        BY <1>1, <3>1 DEF TypeOK, StoreTypeOK
      <3>3. lease[w] = attempt[t] /\ status[t] = "RUNNING"
        BY <1>1, <2>1 DEF CompleteFence, HoldsLease, Inv, Fenced
      <3> QED BY <1>1, <3>1, <3>2, <3>3, ReleaseRefines
    <2>2. CASE ~CompleteFence(w)
      BY <1>3, <2>2, UnseenStep DEF CompleteWrite
    <2> QED BY <2>1, <2>2
  <1>4. CASE FailWrite(w)
    <2>1. CASE FailFence(w)
      <3>1. ReleaseRow(t, IF retry[w] THEN "RETRY_WAIT" ELSE "FAILED") /\ result' = result
        BY <1>4, <2>1 DEF FailWrite
      <3>2. status[t] = "RUNNING"
        BY <2>1 DEF FailFence, HoldsLease
      <3>3. CASE retry[w]
        BY <1>1, <3>1, <3>2, <3>3, ReleaseRefines
      <3>4. CASE ~retry[w]
        BY <1>1, <3>1, <3>2, <3>4, ReleaseRefines
      <3> QED BY <3>3, <3>4
    <2>2. CASE ~FailFence(w)
      BY <1>4, <2>2, UnseenStep DEF FailWrite
    <2> QED BY <2>1, <2>2
  <1>5. CASE DeferWrite(w)
    <2>1. ReleaseRow(t, "RETRY_WAIT") /\ result' = result
      BY <1>5 DEF DeferWrite
    <2> QED BY <1>1, <1>2, <2>1, ReleaseRefines
  <1>6. CASE CancelWrite(w)
    <2>1. ReleaseRow(t, "CANCELLED") /\ result' = result
      BY <1>6 DEF CancelWrite
    <2> QED BY <1>1, <1>2, <2>1, ReleaseRefines
  <1> QED BY <1>3, <1>4, <1>5, <1>6 DEF WriteStep

-----------------------------------------------------------------------------
(* The clocks and the operator                                             *)

LEMMA EnvironmentRefines ==
  ASSUME TypeOK, TypeOK', (\E t \in Task : TaskClock(t)) \/ Operator
  PROVE  Lifecycle!Next
  <1>1. ASSUME NEW t \in Task, Enqueue(t) PROVE Lifecycle!Next
    <2>1. Lifecycle!Enqueued(t) /\ \A u \in Task : u # t => Lifecycle!Stays(u)
      BY <1>1 DEF Enqueue, TypeOK, StoreTypeOK, Lifecycle!Enqueued, Lifecycle!Moves,
                  Lifecycle!Stays
    <2> QED BY <2>1, OneTaskStep DEF Lifecycle!TaskStep
  <1>2. ASSUME NEW t \in Task, LeaseLapses(t) \/ BackoffElapses(t) PROVE Lifecycle!Next
    BY <1>2, UnseenStep DEF LeaseLapses, BackoffElapses
  <1>3. ASSUME NEW r \in Run, NEW s \in OperatorStatus, SetRunControl(r, s)
        PROVE  Lifecycle!Next
    <2>1. attempt' = attempt /\ result' = result
      BY <1>3 DEF SetRunControl
    <2>2. ASSUME NEW t \in Task PROVE Lifecycle!TaskStep(t)
      <3>1. CASE CancelledByOperator(r, s, t)
        <4>1. Lifecycle!CancelledWaiting(t)
          BY <1>3, <2>1, <3>1 DEF SetRunControl, CancelledByOperator,
             Lifecycle!CancelledWaiting, Lifecycle!Moves
        <4> QED BY <4>1 DEF Lifecycle!TaskStep
      <3>2. CASE ~CancelledByOperator(r, s, t)
        <4>1. Lifecycle!Stays(t)
          BY <1>3, <2>1, <3>2 DEF SetRunControl, Lifecycle!Stays
        <4> QED BY <4>1 DEF Lifecycle!TaskStep
      <3> QED BY <3>1, <3>2
    <2> QED BY <2>1, <2>2, NoClaimStep
  <1> QED BY <1>1, <1>2, <1>3 DEF TaskClock, Operator

-----------------------------------------------------------------------------
(* The refinement                                                          *)

LEMMA QuietRefines == Quiet /\ TypeOK' => Lifecycle!Next
  BY UnseenStep DEF Quiet, RowsKept

LEMMA InitRefines == Init => Lifecycle!Init
  BY DEF Init, Lifecycle!Init

LEMMA NextRefines == Inv /\ [Next]_vars => [Lifecycle!Next]_(Lifecycle!vars)
  <1> SUFFICES ASSUME Inv, [Next]_vars
               PROVE  Lifecycle!Next \/ UNCHANGED Lifecycle!vars
    OBVIOUS
  <1>1. TypeOK /\ TypeOK'
    BY NextTypeOK DEF Inv
  <1>2. ASSUME NEW w \in Worker, WorkerStep(w) PROVE Lifecycle!Next
    <2>1. CASE Claim(w)
      BY <1>1, <2>1, ClaimRefines
    <2>2. CASE HandlerStep(w) \/ CheckpointStep(w)
      BY <1>1, <2>2, HandlerQuiet, QuietRefines
    <2>3. CASE ReadStep(w)
      BY <1>1, <2>3, ReadQuiet, QuietRefines
    <2>4. CASE WriteStep(w)
      BY <1>1, <2>4, WriteRefines
    <2>5. CASE HeartbeatRenew(w)
      BY <1>1, <2>5, UnseenStep DEF HeartbeatRenew
    <2>6. CASE HeartbeatControl(w) \/ FaultStep(w)
      BY <1>1, <2>6, FaultQuiet, QuietRefines
    <2> QED BY <1>2, <2>1, <2>2, <2>3, <2>4, <2>5, <2>6
            DEF WorkerStep, ReleaseStep, ReadStep, WriteStep, HeartbeatStep
  <1>3. CASE (\E t \in Task : TaskClock(t)) \/ Operator
    BY <1>1, <1>3, EnvironmentRefines
  <1>4. CASE UNCHANGED vars
    BY <1>4 DEF vars, storeVars, taskVars, Lifecycle!vars
  <1> QED BY <1>2, <1>3, <1>4 DEF Next

\* The queue, whose operations read and write in separate steps, implements the
\* life cycle of durable_task.py in which each of them is one step.
THEOREM Refinement == DistinctIds => (Spec => LifecycleSpec)
  <1>1. Spec /\ []Inv => Lifecycle!Spec
    BY InitRefines, NextRefines, PTL DEF Spec, Lifecycle!Spec
  <1> QED BY <1>1, SpecInv, PTL DEF LifecycleSpec

-----------------------------------------------------------------------------
(* Settled tasks and live leases                                           *)

SettledStep == \A t \in Task :
    status[t] \in Terminal /\ status'[t] # status[t] => UnfencedWrite(t)

LeaseStep == \A t \in Task :
    owner[t] # NoOwner /\ ~lapsed[t] /\ owner'[t] # owner[t]
        => Releasing(t) \/ UnfencedWrite(t)

LEMMA UnseenRowsStep ==
  ASSUME UNCHANGED <<status, owner>>
  PROVE  SettledStep /\ LeaseStep
  BY DEF SettledStep, LeaseStep

LEMMA ClaimRespects ==
  ASSUME Inv, NEW w \in Worker, Claim(w)
  PROVE  SettledStep /\ LeaseStep
  <1> USE DEF StatusAfterExpiry, OwnerAfterExpiry, Expired
  <1>1. CASE ClaimNothing(w)
    BY <1>1 DEF ClaimNothing, SettledStep, LeaseStep
  <1>2. ASSUME NEW t \in Task, ClaimTask(w, t) PROVE SettledStep /\ LeaseStep
    <2>1. StatusAfterExpiry(t) \in Waiting
      BY <1>2 DEF ClaimTask, Claimable
    <2>2. status[t] \notin Terminal /\ (owner[t] # NoOwner => lapsed[t])
      BY <2>1 DEF Inv, LeaseIffRunning
    <2>3. \A u \in Task : u # t => /\ status'[u] = StatusAfterExpiry(u)
                                  /\ owner'[u] = OwnerAfterExpiry(u)
      BY <1>2 DEF ClaimTask
    <2> QED BY <2>2, <2>3 DEF SettledStep, LeaseStep
  <1> QED BY <1>1, <1>2 DEF Claim

LEMMA WriteRespects ==
  ASSUME Inv, NEW w \in Worker, WriteStep(w)
  PROVE  SettledStep /\ LeaseStep
  <1> DEFINE t == job[w]
  <1>1. \A u \in Task : u # t => status'[u] = status[u] /\ owner'[u] = owner[u]
    BY DEF WriteStep, CompleteWrite, FailWrite, DeferWrite, CancelWrite, ReleaseRow,
           Inv, TypeOK, StoreTypeOK
  <1>2. CASE DeferWrite(w) \/ CancelWrite(w)
    <2>1. t \in Task => UnfencedWrite(t)
      BY <1>2 DEF UnfencedWrite, DeferWrite, CancelWrite
    <2> QED BY <1>1, <2>1 DEF SettledStep, LeaseStep
  <1>3. CASE CompleteWrite(w) \/ FailWrite(w)
    <2>1. CASE HoldsLease(w)
      <3>1. status[t] = "RUNNING" /\ Releasing(t)
        BY <1>3, <2>1 DEF HoldsLease, Releasing, CompleteWrite, FailWrite
      <3> QED BY <1>1, <3>1 DEF SettledStep, LeaseStep
    <2>2. CASE ~HoldsLease(w)
      BY <1>3, <2>2, UnseenRowsStep DEF CompleteWrite, CompleteFence, FailWrite, FailFence
    <2> QED BY <2>1, <2>2
  <1> QED BY <1>2, <1>3 DEF WriteStep

LEMMA EnvironmentRespects ==
  ASSUME Inv, (\E t \in Task : TaskClock(t)) \/ Operator
  PROVE  SettledStep /\ LeaseStep
  <1>1. owner' = owner
    BY DEF TaskClock, Enqueue, LeaseLapses, BackoffElapses, Operator, SetRunControl
  <1>2. \A t \in Task : status[t] \in Terminal => status'[t] = status[t]
    BY DEF TaskClock, Enqueue, LeaseLapses, BackoffElapses, Operator, SetRunControl,
           CancelledByOperator, Inv, TypeOK, StoreTypeOK
  <1> QED BY <1>1, <1>2 DEF SettledStep, LeaseStep

LEMMA NextRespects == Inv /\ [Next]_vars => SettledStep /\ LeaseStep
  <1> SUFFICES ASSUME Inv, [Next]_vars PROVE SettledStep /\ LeaseStep
    OBVIOUS
  <1>1. TypeOK
    BY DEF Inv
  <1>2. ASSUME NEW w \in Worker, WorkerStep(w) PROVE SettledStep /\ LeaseStep
    <2>1. CASE Claim(w)
      BY <2>1, ClaimRespects
    <2>2. CASE Quiet
      BY <2>2, UnseenRowsStep DEF Quiet, RowsKept
    <2>3. CASE WriteStep(w)
      BY <2>3, WriteRespects
    <2>4. CASE HeartbeatRenew(w)
      BY <2>4, UnseenRowsStep DEF HeartbeatRenew
    <2> QED BY <1>1, <1>2, <2>1, <2>2, <2>3, <2>4, HandlerQuiet, ReadQuiet, FaultQuiet
            DEF WorkerStep, ReleaseStep, ReadStep, WriteStep, HeartbeatStep
  <1>3. CASE (\E t \in Task : TaskClock(t)) \/ Operator
    BY <1>3, EnvironmentRespects
  <1>4. CASE UNCHANGED vars
    BY <1>4, UnseenRowsStep DEF vars, storeVars, taskVars
  <1> QED BY <1>2, <1>3, <1>4 DEF Next

\* Only a worker between the read and the write of defer_task or cancel_task
\* (run_store.py) can take a task out of a terminal status.
THEOREM SettledTasksStay == DistinctIds => (Spec => SettledStays)
  <1>1. Inv /\ [Next]_vars => [SettledStep]_vars
    BY NextRespects
  <1>2. Spec /\ []Inv => [][SettledStep]_vars
    BY <1>1, PTL DEF Spec
  <1> QED BY <1>2, SpecInv, PTL DEF SettledStays, SettledStep

\* A lease that has not lapsed ends only by its holder's release or by such an
\* unfenced write: claim_next_task and set_run_control never take it.
THEOREM LiveLeasesRespected == DistinctIds => (Spec => LeaseRespected)
  <1>1. Inv /\ [Next]_vars => [LeaseStep]_vars
    BY NextRespects
  <1>2. Spec /\ []Inv => [][LeaseStep]_vars
    BY <1>1, PTL DEF Spec
  <1> QED BY <1>2, SpecInv, PTL DEF LeaseRespected, LeaseStep

-----------------------------------------------------------------------------
(* Cancellations                                                           *)

CancelStep == \A t \in Task : status[t] \in Waiting /\ status'[t] = "CANCELLED"
    => control'[RunOf[t]] \in Cancelling \/ UnfencedWrite(t)

LEMMA NextCancels == TypeOK /\ [Next]_vars => CancelStep
  <1> SUFFICES ASSUME TypeOK, [Next]_vars, NEW t \in Task,
                      status[t] \in Waiting, status'[t] = "CANCELLED"
               PROVE  control'[RunOf[t]] \in Cancelling \/ UnfencedWrite(t)
    BY DEF CancelStep
  <1>1. ASSUME NEW w \in Worker, Claim(w) PROVE FALSE
    BY <1>1 DEF Claim, ClaimNothing, ClaimTask, StatusAfterExpiry, Expired
  <1>2. ASSUME NEW w \in Worker, WriteStep(w) PROVE UnfencedWrite(t)
    <2>1. job[w] = t
      BY <1>2 DEF WriteStep, CompleteWrite, FailWrite, DeferWrite, CancelWrite, ReleaseRow,
                  TypeOK, StoreTypeOK
    <2>2. CASE CompleteWrite(w) \/ FailWrite(w)
      BY <2>1, <2>2 DEF CompleteWrite, FailWrite, ReleaseRow, TypeOK, StoreTypeOK
    <2>3. CASE DeferWrite(w) \/ CancelWrite(w)
      BY <2>1, <2>3 DEF UnfencedWrite, DeferWrite, CancelWrite
    <2> QED BY <1>2, <2>2, <2>3 DEF WriteStep
  <1>3. ASSUME NEW r \in Run, NEW s \in OperatorStatus, SetRunControl(r, s)
        PROVE  control'[RunOf[t]] \in Cancelling
    BY <1>3, TaskAssumption DEF SetRunControl, CancelledByOperator, TypeOK, StoreTypeOK
  <1>4. CASE \E u \in Task : Enqueue(u)
    BY <1>4 DEF Enqueue, TypeOK, StoreTypeOK
  <1>5. ASSUME NEW w \in Worker, WorkerStep(w), ~Claim(w), ~WriteStep(w)
        PROVE  status' = status
    <2> USE DEF storeVars, taskVars
    <2>1. CASE HandlerStep(w) \/ CheckpointStep(w)
      BY <2>1 DEF HandlerStep, HandlerReturns, HandlerRaises, CheckpointStep,
                  CheckpointOwner, CheckpointSeq, CheckpointInsert
    <2>2. CASE ReadStep(w)
      BY <2>2 DEF ReadStep, ReadControl, Branch, CompleteRead, FailRead, DeferRead, CancelRead
    <2>3. CASE HeartbeatStep(w) \/ FaultStep(w)
      BY <2>3 DEF HeartbeatStep, HeartbeatRenew, HeartbeatControl, FaultStep,
                  HandlerInterrupted, HeartbeatRaises, StoreRaises, WorkerDies
    <2> QED BY <1>5, <2>1, <2>2, <2>3 DEF WorkerStep, ReleaseStep, ReadStep, WriteStep
  <1>6. CASE UNCHANGED vars \/ \E u \in Task : LeaseLapses(u) \/ BackoffElapses(u)
    BY <1>6 DEF vars, storeVars, taskVars, LeaseLapses, BackoffElapses
  <1> QED BY <1>1, <1>2, <1>3, <1>4, <1>5, <1>6 DEF Next, TaskClock, Operator

\* Cancelling a run reaches the waiting tasks of that run only: every other
\* cancellation of a waiting task is the unfenced write of a worker that held it.
THEOREM CancellationsStayInRun == Spec => CancelStaysInRun
  <1>1. TypeOK /\ [Next]_vars => [CancelStep]_vars
    BY NextCancels
  <1>2. Spec /\ []TypeOK => [][CancelStep]_vars
    BY <1>1, PTL DEF Spec
  <1> QED BY <1>2, TypeCorrect, PTL DEF CancelStaysInRun, CancelStep
=============================================================================
