----------------------------- MODULE RunDriverProofs -----------------------------
(***************************************************************************)
(* Theorems about the web driver, for every number of runs, resume threads *)
(* and faults and every limit.                                             *)
(***************************************************************************)
EXTENDS RunDriverProperties, FiniteSetTheorems, SequenceTheorems, TLAPS

-----------------------------------------------------------------------------
(* Types.  A thread at work has a run, which is what it writes about.      *)

Task == [run : Run, status : Active \cup {"SUCCEEDED", "FAILED"}, attempt : Nat]

QueueOK   == queue \in Seq(Task)
ControlOK == control \in [Run -> {"NONE", "RUNNABLE", "RUNNING", "COMPLETED"}]
StateOK   == state \in [Run -> States] /\ session \in [Run -> States] /\ copy \in [Thread -> States]
             /\ loaded \in [Thread -> States]
ReviewsOK == reviews \in [Run -> Nat]
PcOK      == pc \in [Thread -> Labels]
BoundOK   == bound \in [Slot -> Run \cup {NoRun}]
JobOK     ==
    /\ job \in [Thread -> Nat]
    /\ \A th \in Thread : job[th] \in (IF pc[th] \in Holding THEN DOMAIN queue ELSE {0})
CountsOK  == active \subseteq Run /\ ran \subseteq Run /\ resumes \in Nat /\ faults \in Nat

AtWork(th) == pc[th] \notin {"new", "done"}

BoundRun == \A s \in Slot : AtWork(s) => bound[s] \in Run

Inv == TypeOK /\ BoundRun

LEMMA InvParts ==
  Inv <=> /\ QueueOK /\ ControlOK /\ StateOK /\ ReviewsOK /\ PcOK /\ BoundOK /\ JobOK
          /\ CountsOK /\ BoundRun
  BY DEF Inv, TypeOK, QueueOK, ControlOK, StateOK, ReviewsOK, PcOK, BoundOK, JobOK, CountsOK,
         Task

LEMMA RunOfType ==
  ASSUME Inv, NEW th \in Thread, AtWork(th)
  PROVE  RunOf(th) \in Run
  BY SlotAssumption DEF Inv, BoundRun, RunOf, Thread

LEMMA RunsAndSlots ==
  /\ Run \subseteq Thread /\ Slot \subseteq Thread
  /\ \A th \in Thread : th \in Run \/ th \in Slot
  /\ \A r \in Run : r \notin Slot
  BY SlotAssumption DEF Thread

LEMMA InitInv == Init => Inv
  <1> SUFFICES ASSUME Init PROVE Inv
    OBVIOUS
  <1>1. Fresh \in States
    BY DEF Fresh, States, Stops
  <1>2. QueueOK
    BY EmptySeq DEF Init, QueueOK
  <1>3. ControlOK /\ ReviewsOK /\ CountsOK
    BY DEF Init, ControlOK, ReviewsOK, CountsOK
  <1>4. StateOK
    BY <1>1 DEF Init, StateOK
  <1>5. PcOK /\ BoundOK
    BY DEF Init, PcOK, BoundOK, Labels
  <1>6. JobOK
    BY DEF Init, JobOK, Holding, Handler
  <1>7. BoundRun
    BY RunsAndSlots DEF Init, BoundRun, AtWork
  <1> QED BY <1>2, <1>3, <1>4, <1>5, <1>6, <1>7, InvParts

-----------------------------------------------------------------------------
(* The queue *)

LEMMA ExpiredType ==
  ASSUME QueueOK, NEW L
  PROVE  /\ Expired(L) \in Seq(Task) /\ DOMAIN Expired(L) = DOMAIN queue
         /\ \A i \in DOMAIN queue :
              /\ Expired(L)[i].run = queue[i].run
              /\ i \notin L => Expired(L)[i] = queue[i]
              /\ i \in L => Expired(L)[i].status \in {"RETRY_WAIT", "FAILED"}
  <1> DEFINE q == Expired(L)
  <1>1. DOMAIN q = 1 .. Len(queue) /\ DOMAIN queue = 1 .. Len(queue) /\ Len(queue) \in Nat
    BY LenProperties DEF QueueOK, Expired
  <1>2. ASSUME NEW i \in 1 .. Len(queue)
        PROVE  q[i] \in Task /\ q[i].run = queue[i].run /\ (i \notin L => q[i] = queue[i])
               /\ (i \in L => q[i].status \in {"RETRY_WAIT", "FAILED"})
    <2>1. queue[i] \in Task
      BY ElementOfSeq DEF QueueOK
    <2>2. q[i] = IF i \notin L THEN queue[i]
                 ELSE [queue[i] EXCEPT !.status =
                         IF queue[i].attempt < MaxAttempts THEN "RETRY_WAIT" ELSE "FAILED"]
      BY <1>1 DEF Expired
    <2> QED BY <2>1, <2>2 DEF Task, Active, Waiting
  <1>3. q = [i \in 1 .. Len(queue) |-> q[i]]
    BY <1>1 DEF Expired
  <1>4. q \in Seq(Task)
    BY <1>1, <1>2, <1>3, IsASeq
  <1> QED BY <1>1, <1>2, <1>4

LEMMA SetTask ==
  ASSUME NEW q \in Seq(Task), NEW i \in DOMAIN q, NEW t \in Task
  PROVE  [q EXCEPT ![i] = t] \in Seq(Task) /\ DOMAIN [q EXCEPT ![i] = t] = DOMAIN q
  BY ExceptSeq

LEMMA AppendTask ==
  ASSUME QueueOK, NEW t \in Task
  PROVE  /\ Append(queue, t) \in Seq(Task)
         /\ DOMAIN queue = 1 .. Len(queue) /\ Len(queue) \in Nat
         /\ DOMAIN Append(queue, t) = 1 .. Len(queue) + 1
         /\ \A i \in 1 .. Len(queue) : Append(queue, t)[i] = queue[i]
         /\ Append(queue, t)[Len(queue) + 1] = t
  <1>1. queue \in Seq(Task) /\ Len(queue) \in Nat /\ DOMAIN queue = 1 .. Len(queue)
    BY LenProperties DEF QueueOK
  <1> QED BY <1>1, AppendProperties

LEMMA SettleType ==
  ASSUME QueueOK, NEW i \in DOMAIN queue, NEW s \in Active \cup {"SUCCEEDED", "FAILED"}
  PROVE  [queue EXCEPT ![i].status = s] \in Seq(Task)
         /\ DOMAIN [queue EXCEPT ![i].status = s] = DOMAIN queue
  <1>1. queue \in Seq(Task) /\ DOMAIN queue = 1 .. Len(queue)
    BY LenProperties DEF QueueOK
  <1>2. queue[i] \in Task
    BY <1>1, ElementOfSeq
  <1>3. [queue[i] EXCEPT !.status = s] \in Task
    BY <1>2 DEF Task
  <1>4. [queue EXCEPT ![i] = [queue[i] EXCEPT !.status = s]] \in Seq(Task)
    BY <1>1, <1>3, ExceptSeq
  <1> QED BY <1>4

\* The steps that change the queue.
LEMMA QueueCases ==
  ASSUME Inv, [Next]_vars
  PROVE  \/ UNCHANGED queue
         \/ \E r \in Run : queue' = Append(queue, NewTask(r))
         \/ \E th \in Thread : Claim(th) \/ ClaimNothing(th) \/ Complete(th) \/ Fail(th)
  <1>1. CASE \E r \in Run : Enqueue(r)
    BY <1>1 DEF Enqueue
  <1>3. ASSUME NEW th \in Thread, AutoEnqueue(th)
        PROVE  \E r \in Run : queue' = Append(queue, NewTask(r))
    BY <1>3, RunOfType DEF AutoEnqueue, Resume, AtWork
  <1>4. CASE \E r \in Run : Admit(r) \/ CheckDepth(r) \/ CreateRun(r)
    BY <1>4 DEF Admit, CheckDepth, CreateRun, storeVars
  <1>5. CASE \E th \in Thread : InsertReview(th) \/ LoadRun(th) \/ SavePaused(th)
    BY <1>5 DEF InsertReview, LoadRun, SavePaused, storeVars
  <1>6. CASE \E th \in Thread : Graph(th) \/ Snapshot(th) \/ OwnSave(th) \/ AutoApprove(th)
                                \/ AutoSave(th)
    BY <1>6 DEF Graph, Snapshot, OwnSave, AutoApprove, AutoSave, storeVars
  <1>7. CASE \E th \in Thread : Mark(th) \/ Leave(th) \/ Raise(th)
    BY <1>7 DEF Mark, Leave, Raise, storeVars
  <1>8. CASE Restart \/ UNCHANGED vars
    BY <1>8 DEF Restart, vars, storeVars
  <1> QED
    BY <1>1, <1>3, <1>4, <1>5, <1>6, <1>7, <1>8
       DEF Next, DriverStep, WorkerStep, GateStep

\* A thread that claims takes a task that no thread holds.
LEMMA ClaimTask ==
  ASSUME Inv, NEW th \in Thread, Claim(th)
  PROVE  \E i \in DOMAIN queue, L \in SUBSET Orphans :
            /\ Expired(L)[i].status \in Waiting
            /\ queue' = [Expired(L) EXCEPT ![i].status = "RUNNING", ![i].attempt = @ + 1]
            /\ queue' \in Seq(Task) /\ DOMAIN queue' = DOMAIN queue
            /\ control' = [control EXCEPT ![queue[i].run] = "RUNNING"] /\ queue[i].run \in Run
            /\ job' = [job EXCEPT ![th] = i]
  <1>1. PICK L \in SUBSET Orphans : \E i \in Claimable(Expired(L)) :
            /\ queue' = [Expired(L) EXCEPT ![i].status = "RUNNING", ![i].attempt = @ + 1]
            /\ control' = [control EXCEPT ![Expired(L)[i].run] = "RUNNING"]
            /\ job' = [job EXCEPT ![th] = i]
    BY DEF Claim
  <1> DEFINE q == Expired(L)
  <1>2. QueueOK
    BY InvParts
  <1>3. /\ q \in Seq(Task) /\ DOMAIN q = DOMAIN queue
        /\ \A i \in DOMAIN queue : q[i].run = queue[i].run
    BY <1>2, ExpiredType
  <1> HIDE DEF q
  <1>4. PICK i \in Claimable(q) :
            /\ queue' = [q EXCEPT ![i].status = "RUNNING", ![i].attempt = @ + 1]
            /\ control' = [control EXCEPT ![q[i].run] = "RUNNING"]
            /\ job' = [job EXCEPT ![th] = i]
    BY <1>1 DEF q
  <1>5. i \in DOMAIN q /\ q[i].status \in Waiting
    BY <1>4 DEF Claimable
  <1>6. DOMAIN q = 1 .. Len(q) /\ q[i] \in Task
    BY <1>3, <1>5, LenProperties, ElementOfSeq
  <1>7. [q[i] EXCEPT !.status = "RUNNING", !.attempt = @ + 1] \in Task
    <2>1. "RUNNING" \in Active /\ q[i].attempt + 1 \in Nat
      BY <1>6 DEF Task, Active
    <2> QED BY <1>6, <2>1 DEF Task
  <1>8. queue' = [q EXCEPT ![i] = [q[i] EXCEPT !.status = "RUNNING", !.attempt = @ + 1]]
    BY <1>4, <1>5
  <1>9. queue' \in Seq(Task) /\ DOMAIN queue' = DOMAIN q
    <2> DEFINE t == [q[i] EXCEPT !.status = "RUNNING", !.attempt = @ + 1]
    <2>1. t \in Task /\ i \in 1 .. Len(q) /\ q \in Seq(Task)
      BY <1>3, <1>5, <1>6, <1>7
    <2> HIDE DEF t
    <2>2. [q EXCEPT ![i] = t] \in Seq(Task) /\ DOMAIN [q EXCEPT ![i] = t] = DOMAIN q
      BY <2>1, ExceptSeq
    <2>3. queue' = [q EXCEPT ![i] = t]
      BY <1>8 DEF t
    <2> QED BY <2>2, <2>3
  <1>10. queue[i].run \in Run /\ q[i].run = queue[i].run
    BY <1>3, <1>5, <1>6 DEF Task
  <1> QED BY <1>3, <1>4, <1>5, <1>9, <1>10 DEF q

LEMMA QueueStep ==
  ASSUME Inv, [Next]_vars
  PROVE  QueueOK' /\ DOMAIN queue \subseteq DOMAIN queue'
  <1>1. QueueOK /\ JobOK /\ PcOK
    BY InvParts
  <1>2. CASE UNCHANGED queue
    BY <1>1, <1>2 DEF QueueOK
  <1>3. ASSUME NEW r \in Run, queue' = Append(queue, NewTask(r))
        PROVE  QueueOK' /\ DOMAIN queue \subseteq DOMAIN queue'
    <2>1. NewTask(r) \in Task
      BY DEF NewTask, Task, Active, Waiting
    <2>2. /\ Append(queue, NewTask(r)) \in Seq(Task) /\ Len(queue) \in Nat
          /\ DOMAIN queue = 1 .. Len(queue)
          /\ DOMAIN Append(queue, NewTask(r)) = 1 .. Len(queue) + 1
      BY <1>1, <2>1, AppendTask
    <2> QED BY <1>3, <2>2 DEF QueueOK
  <1>4. ASSUME NEW th \in Thread, Claim(th)
        PROVE  QueueOK' /\ DOMAIN queue \subseteq DOMAIN queue'
    BY <1>4, ClaimTask DEF QueueOK
  <1>5. ASSUME NEW th \in Thread, ClaimNothing(th)
        PROVE  QueueOK' /\ DOMAIN queue \subseteq DOMAIN queue'
    BY <1>1, <1>5, ExpiredType DEF ClaimNothing, QueueOK
  <1>6. ASSUME NEW th \in Thread, Complete(th) \/ Fail(th)
        PROVE  QueueOK' /\ DOMAIN queue \subseteq DOMAIN queue'
    <2>1. job[th] \in DOMAIN queue
      BY <1>1, <1>6 DEF JobOK, PcOK, Complete, Fail, Holding, Handler
    <2>2. \E s \in Active \cup {"SUCCEEDED", "FAILED"} :
             queue' = [queue EXCEPT ![job[th]].status = s]
      BY <1>6 DEF Complete, Fail, Settle, Active, Waiting
    <2> QED BY <1>1, <2>1, <2>2, SettleType DEF QueueOK
  <1> QED BY <1>2, <1>3, <1>4, <1>5, <1>6, QueueCases

-----------------------------------------------------------------------------
(* The other variables *)

LEMMA ControlStep ==
  ASSUME Inv, [Next]_vars
  PROVE  ControlOK'
  <1>1. ControlOK
    BY InvParts
  <1> USE <1>1 DEF ControlOK
  <1>2. CASE \E r \in Run : CreateRun(r)
    BY <1>2 DEF CreateRun
  <1>3. ASSUME NEW th \in Thread, Claim(th) PROVE ControlOK'
    BY <1>3, ClaimTask
  <1>4. ASSUME NEW th \in Thread, Mark(th) PROVE ControlOK'
    BY <1>4, RunOfType DEF Mark, AtWork
  <1>5. CASE UNCHANGED control
    BY <1>5
  <1> QED
    BY <1>2, <1>3, <1>4, <1>5
       DEF Next, DriverStep, WorkerStep, GateStep, vars, storeVars, Admit, CheckDepth,
           Enqueue, ClaimNothing, Graph, Snapshot,
           InsertReview, LoadRun, SavePaused, OwnSave, AutoApprove, AutoSave, AutoEnqueue,
           Resume, Complete, Fail, Leave, Raise, Restart

LEMMA StateStep ==
  ASSUME Inv, [Next]_vars
  PROVE  StateOK'
  <1>1. StateOK /\ BoundRun
    BY InvParts
  <1>2. Approved \in States /\ Fresh \in States
    BY DEF Approved, Fresh, States, Stops
  <1>3. \A s \in States : \A stop \in Stops : [s EXCEPT !.stop = stop] \in States
    BY DEF States
  <1>4. {"none", "SAFETY_STOP", "HUMAN_REVIEW_REQUIRED"} \subseteq Stops
    BY DEF Stops
  <1> USE <1>1 DEF StateOK
  <1>5. ASSUME NEW th \in Thread, Graph(th) PROVE StateOK'
    <2>1. PICK stop \in Stops : session' = [session EXCEPT ![RunOf(th)].stop = stop]
      BY <1>4, <1>5 DEF Graph
    <2>2. RunOf(th) \in Run
      BY <1>5, RunOfType DEF Graph, AtWork
    <2>3. session' \in [Run -> States]
      BY <1>3, <2>1, <2>2
    <2> QED BY <1>5, <2>3 DEF Graph, storeVars, locals
  <1>6. ASSUME NEW th \in Thread, Snapshot(th) PROVE StateOK'
    BY <1>6, RunOfType DEF Snapshot, AtWork
  <1>7. ASSUME NEW th \in Thread, SavePaused(th) PROVE StateOK'
    <2>1. RunOf(th) \in Run
      BY <1>7, RunOfType DEF SavePaused, AtWork
    <2>2. state' \in [Run -> States]
      BY <1>3, <1>4, <1>7, <2>1 DEF SavePaused
    <2>3. copy' \in [Thread -> States]
      BY <1>3, <1>4, <1>7 DEF SavePaused
    <2> QED BY <1>7, <2>2, <2>3 DEF SavePaused
  <1>8. ASSUME NEW th \in Thread, OwnSave(th) \/ AutoSave(th) PROVE StateOK'
    BY <1>8, RunOfType DEF OwnSave, AutoSave, locals, AtWork
  <1>9. ASSUME NEW th \in Thread, AutoApprove(th) PROVE StateOK'
    BY <1>2, <1>9, RunOfType DEF AutoApprove, storeVars, AtWork
  <1>10. ASSUME NEW th \in Thread, LoadRun(th) PROVE StateOK'
    BY <1>10, RunOfType DEF LoadRun, storeVars, AtWork
  <1>11. CASE Restart \/ \E th \in Thread : Leave(th)
    BY <1>2, <1>11 DEF Restart, Leave, storeVars
  <1>12. CASE UNCHANGED <<state, session, copy, loaded>>
    BY <1>12
  <1> QED
    BY <1>5, <1>6, <1>7, <1>8, <1>9, <1>10, <1>11, <1>12
       DEF Next, DriverStep, WorkerStep, GateStep, vars, storeVars, threadVars, locals, Admit,
           CheckDepth, CreateRun, Enqueue, Claim, ClaimNothing, InsertReview, AutoEnqueue,
           Resume, Complete, Fail, Mark, Raise

LEMMA ReviewsStep ==
  ASSUME Inv, [Next]_vars
  PROVE  ReviewsOK'
  <1>1. ReviewsOK
    BY InvParts
  <1> USE <1>1 DEF ReviewsOK
  <1>2. ASSUME NEW th \in Thread, InsertReview(th) PROVE ReviewsOK'
    BY <1>2, RunOfType DEF InsertReview, AtWork
  <1>4. CASE UNCHANGED reviews
    BY <1>4
  <1> QED
    BY <1>2, <1>4
       DEF Next, DriverStep, WorkerStep, GateStep, vars, Admit, CheckDepth, CreateRun,
           Enqueue, Claim, ClaimNothing, Graph, Snapshot, LoadRun, SavePaused, OwnSave,
           AutoApprove, AutoSave, AutoEnqueue, Resume, Complete, Fail, Mark, Leave, Raise,
           Restart

LEMMA CountsStep ==
  ASSUME Inv, [Next]_vars
  PROVE  CountsOK'
  <1>1. CountsOK
    BY InvParts
  <1> USE <1>1 DEF CountsOK
  <1>2. CASE \E r \in Run : Admit(r)
    BY <1>2 DEF Admit
  <1>3. CASE \E th \in Thread : Leave(th)
    BY <1>3 DEF Leave
  <1>4. ASSUME NEW th \in Thread, Graph(th) PROVE CountsOK'
    BY <1>4, RunOfType DEF Graph, AtWork
  <1>5. CASE \E th \in Thread : AutoEnqueue(th)
    BY <1>5 DEF AutoEnqueue, Resume
  <1>6. CASE Restart \/ \E th \in Thread : Raise(th)
    BY <1>6 DEF Restart, Raise
  <1>7. CASE UNCHANGED <<active, ran, resumes, faults>>
    BY <1>7
  <1> QED
    BY <1>2, <1>3, <1>4, <1>5, <1>6, <1>7
       DEF Next, DriverStep, WorkerStep, GateStep, vars, CheckDepth, CreateRun, Enqueue,
           Claim, ClaimNothing, Snapshot, InsertReview, LoadRun, SavePaused, OwnSave,
           AutoApprove, AutoSave, Complete, Fail, Mark

-----------------------------------------------------------------------------
(* Where threads are *)

\* One thread at work goes on to another label, holding its task or not.
Proceeds(th) ==
    /\ AtWork(th) /\ UNCHANGED bound
    /\ \E l \in Labels \ {"new", "done"} :
        /\ pc' = [pc EXCEPT ![th] = l]
        /\ \/ UNCHANGED job /\ (l \in Holding <=> pc[th] \in Holding)
           \/ l \in Holding /\ \E i \in DOMAIN queue : job' = [job EXCEPT ![th] = i]
           \/ l \notin Holding /\ job' = [job EXCEPT ![th] = 0]

LEMMA HoldingLabels ==
  /\ Holding = {"fail", "graph", "snapshot", "gates", "reviewLoad", "reviewSave", "ownSave",
                "autoSave", "autoEnqueue", "complete"}
  /\ Holding \subseteq Labels \ {"new", "done"}
  BY DEF Holding, Handler, Labels

LEMMA DriverProceeds ==
  ASSUME NEW r \in Run, DriverStep(r)
  PROVE  Proceeds(r)
  BY HoldingLabels
     DEF DriverStep, CheckDepth, CreateRun, Enqueue, Proceeds, AtWork, Goto, Labels

LEMMA WorkerProceeds ==
  ASSUME Inv, NEW th \in Thread, WorkerStep(th), ~Leave(th), ~AutoEnqueue(th)
  PROVE  Proceeds(th)
  <1>0. {"graph", "leave", "fail", "mark", "snapshot", "gates", "complete"} \subseteq Labels
    BY DEF Labels, Handler
  <1> USE <1>0, HoldingLabels DEF Proceeds, AtWork, Goto
  <1>1. CASE Claim(th)
    <2>1. \E i \in DOMAIN queue : job' = [job EXCEPT ![th] = i]
      BY <1>1, ClaimTask
    <2> QED BY <1>1, <2>1 DEF Claim
  <1>2. CASE ClaimNothing(th)
    <2>1. pc[th] = "claim" /\ pc' = [pc EXCEPT ![th] = "leave"] /\ UNCHANGED <<bound, job>>
      BY <1>2 DEF ClaimNothing
    <2>2. "leave" \in Labels \ {"new", "done"} /\ "leave" \notin Holding /\ "claim" \notin Holding
      OBVIOUS
    <2> QED BY <2>1, <2>2
  <1>3. CASE Graph(th)
    BY <1>3 DEF Graph
  <1>4. CASE Snapshot(th)
    BY <1>4 DEF Snapshot
  <1>5. CASE GateStep(th)
    BY <1>5 DEF GateStep, InsertReview, LoadRun, SavePaused, OwnSave, AutoApprove, AutoSave
  <1>6. CASE Complete(th) \/ Fail(th)
    BY <1>6 DEF Complete, Fail
  <1>7. CASE Mark(th)
    <2>1. pc[th] = "mark" /\ pc' = [pc EXCEPT ![th] = "leave"] /\ UNCHANGED <<bound, job>>
      BY <1>7 DEF Mark
    <2>2. "leave" \in Labels \ {"new", "done"} /\ "leave" \notin Holding /\ "mark" \notin Holding
      OBVIOUS
    <2> QED BY <2>1, <2>2
  <1> HIDE DEF Proceeds
  <1> QED BY <1>1, <1>2, <1>3, <1>4, <1>5, <1>6, <1>7 DEF WorkerStep

LEMMA RaiseProceeds ==
  ASSUME NEW th \in Thread, Raise(th)
  PROVE  Proceeds(th)
  BY HoldingLabels DEF Raise, Outside, Handler, Proceeds, AtWork, Goto, Labels

\* A handler that approved its run starts a resume thread for it and goes on.
Binds(s) ==
    /\ pc[s] = "new" /\ UNCHANGED job
    /\ \E th \in Thread :
        /\ pc[th] = "autoEnqueue" /\ RunOf(th) \in Run
        /\ bound' = [bound EXCEPT ![s] = RunOf(th)]
        /\ pc' = [pc EXCEPT ![th] = "complete", ![s] = "claim"]

LEMMA PcCases ==
  ASSUME Inv, [Next]_vars
  PROVE  \/ UNCHANGED <<pc, job, bound>>
         \/ \E th \in Thread : Proceeds(th)
         \/ \E r \in Run : Admit(r)
         \/ \E th \in Thread : Leave(th)
         \/ \E s \in Slot : Binds(s)
         \/ Restart
  <1>2. ASSUME NEW th \in Thread, AutoEnqueue(th) PROVE \E s \in Slot : Binds(s)
    <2>1. RunOf(th) \in Run
      BY <1>2, RunOfType DEF AutoEnqueue, Resume, AtWork
    <2> QED BY <1>2, <2>1 DEF AutoEnqueue, Resume, Binds
  <1>3. CASE UNCHANGED vars
    BY <1>3 DEF vars, threadVars
  <1>4. CASE \E r \in Run : Admit(r) \/ DriverStep(r)
    BY <1>4, DriverProceeds, RunsAndSlots
  <1>6. CASE \E th \in Thread : WorkerStep(th) \/ Raise(th)
    BY <1>2, <1>6, WorkerProceeds, RaiseProceeds
  <1> QED BY <1>3, <1>4, <1>6 DEF Next

LEMMA PcStep ==
  ASSUME Inv, [Next]_vars
  PROVE  PcOK' /\ BoundOK' /\ BoundRun'
  <1>1. PcOK /\ BoundOK /\ BoundRun
    BY InvParts
  <1>2. {"new", "depth", "claim", "complete", "done"} \subseteq Labels
    BY DEF Labels, Handler
  <1> USE <1>1, RunsAndSlots DEF PcOK, BoundOK, BoundRun, AtWork
  <1>3. CASE UNCHANGED <<pc, job, bound>>
    BY <1>3
  <1>4. ASSUME NEW th \in Thread, Proceeds(th) PROVE PcOK' /\ BoundOK' /\ BoundRun'
    BY <1>4 DEF Proceeds
  <1>5. ASSUME NEW r \in Run, Admit(r) PROVE PcOK' /\ BoundOK' /\ BoundRun'
    BY <1>2, <1>5 DEF Admit, Goto
  <1>6. ASSUME NEW th \in Thread, Leave(th) PROVE PcOK' /\ BoundOK' /\ BoundRun'
    BY <1>2, <1>6 DEF Leave, Goto
  <1>7. ASSUME NEW s \in Slot, Binds(s) PROVE PcOK' /\ BoundOK' /\ BoundRun'
    <2>1. PcOK' /\ BoundOK'
      BY <1>2, <1>7 DEF Binds
    <2>2. bound'[s] \in Run /\ \A t \in Slot : t # s => bound'[t] = bound[t]
      BY <1>7 DEF Binds
    <2>3. \A t \in Slot : t # s /\ pc'[t] \notin {"new", "done"} => pc[t] \notin {"new",
    "done"}
      BY <1>7 DEF Binds
    <2> QED BY <2>1, <2>2, <2>3
  <1>8. CASE Restart
    BY <1>2, <1>8 DEF Restart
  <1> QED BY <1>3, <1>4, <1>5, <1>6, <1>7, <1>8, PcCases

LEMMA JobStep ==
  ASSUME Inv, [Next]_vars
  PROVE  JobOK'
  <1>1. PcOK /\ JobOK /\ QueueOK
    BY InvParts
  <1>2. DOMAIN queue \subseteq DOMAIN queue' /\ DOMAIN queue \subseteq Nat
    BY <1>1, QueueStep, LenProperties DEF QueueOK
  <1>3. /\ "autoEnqueue" \in Holding /\ "complete" \in Holding
        /\ {"new", "done", "claim", "depth", "leave"} \cap Holding = {}
    BY HoldingLabels
  <1> USE <1>1, <1>2, <1>3, RunsAndSlots DEF PcOK, JobOK
  <1>4. CASE UNCHANGED <<pc, job, bound>>
    BY <1>4
  <1>5. ASSUME NEW th \in Thread, Proceeds(th) PROVE JobOK'
    <2>1. job' \in [Thread -> Nat]
      BY <1>5 DEF Proceeds
    <2>2. \A t \in Thread : t # th => pc'[t] = pc[t] /\ job'[t] = job[t]
      BY <1>5 DEF Proceeds
    <2>3. job'[th] \in (IF pc'[th] \in Holding THEN DOMAIN queue ELSE {0})
      BY <1>5 DEF Proceeds
    <2> QED BY <2>1, <2>2, <2>3
  <1>6. ASSUME NEW r \in Run, Admit(r) PROVE JobOK'
    BY <1>6 DEF Admit, Goto
  <1>7. ASSUME NEW th \in Thread, Leave(th) PROVE JobOK'
    BY <1>7 DEF Leave, Goto
  <1>8. ASSUME NEW s \in Slot, Binds(s) PROVE JobOK'
    <2>1. \A t \in Thread : pc'[t] \in Holding <=> pc[t] \in Holding
      BY <1>8 DEF Binds
    <2>2. job' = job
      BY <1>8 DEF Binds
    <2> QED BY <2>1, <2>2
  <1>9. CASE Restart
    BY <1>9 DEF Restart
  <1> QED BY <1>4, <1>5, <1>6, <1>7, <1>8, <1>9, PcCases

LEMMA InvStep == Inv /\ [Next]_vars => Inv'
  <1> SUFFICES ASSUME Inv, [Next]_vars PROVE Inv'
    OBVIOUS
  <1>1. QueueOK' /\ ControlOK' /\ StateOK' /\ ReviewsOK' /\ PcOK' /\ BoundOK' /\ JobOK'
        /\ CountsOK' /\ BoundRun'
    BY QueueStep, ControlStep, StateStep, ReviewsStep, PcStep, JobStep, CountsStep
  <1> QED
    BY <1>1 DEF Inv, TypeOK, QueueOK, ControlOK, StateOK, ReviewsOK, PcOK, BoundOK, JobOK,
                CountsOK, Task

LEMMA Invariance == Spec => []Inv
  BY InitInv, InvStep, PTL DEF Spec

\* Every variable keeps its type, and a thread holds a task of the queue exactly
\* inside the worker step.
THEOREM TypeCorrect == Spec => []TypeOK
  <1>1. Inv => TypeOK
    BY DEF Inv
  <1> QED BY <1>1, Invariance, PTL

-----------------------------------------------------------------------------
(* Admission *)

\* Steps that are neither an admission, nor a departure, nor a death of the
\* process leave every driver inside or outside.
LEMMA InsideStays ==
  ASSUME Inv, [Next]_vars, ~Restart, \A r \in Run : ~Admit(r) /\ ~Leave(r)
  PROVE  UNCHANGED <<active, Inside, Departed>>
  <1>1. PcOK /\ CountsOK
    BY InvParts
  <1>2. \A r \in Run : /\ pc'[r] = "new" <=> pc[r] = "new"
                       /\ pc'[r] = "done" <=> pc[r] = "done"
    <2> USE <1>1, RunsAndSlots DEF PcOK
    <2>1. ASSUME NEW th \in Thread, Proceeds(th)
          PROVE  \A r \in Run : /\ pc'[r] = "new" <=> pc[r] = "new"
                                /\ pc'[r] = "done" <=> pc[r] = "done"
      BY <2>1 DEF Proceeds, AtWork
    <2>2. ASSUME NEW s \in Slot, Leave(s)
          PROVE  \A r \in Run : pc'[r] = pc[r]
      BY <2>2 DEF Leave, Goto
    <2>3. ASSUME NEW s \in Slot, Binds(s)
          PROVE  \A r \in Run : /\ pc'[r] = "new" <=> pc[r] = "new"
                                /\ pc'[r] = "done" <=> pc[r] = "done"
      BY <2>3 DEF Binds
    <2> QED BY <2>1, <2>2, <2>3, PcCases
  <1>3. UNCHANGED active
    <2>1. ASSUME NEW s \in Slot, Leave(s) PROVE UNCHANGED active
      BY <1>1, <2>1, RunsAndSlots DEF Leave, CountsOK
    <2> QED
      BY <2>1, RunsAndSlots
         DEF Next, DriverStep, WorkerStep, GateStep, vars, CheckDepth, CreateRun, Enqueue,
             Claim, ClaimNothing, Graph, Snapshot,
             InsertReview, LoadRun, SavePaused, OwnSave, AutoApprove, AutoSave, AutoEnqueue,
             Resume, Complete, Fail, Mark, Raise
  <1> QED BY <1>2, <1>3 DEF Inside, Departed

LEMMA InsideAdmit ==
  ASSUME Inv, NEW r \in Run, Admit(r)
  PROVE  /\ r \notin Inside \cup Departed
         /\ Inside' = Inside \cup {r} /\ Departed' = Departed
  <1>1. PcOK
    BY InvParts
  <1> QED BY <1>1, RunsAndSlots DEF PcOK, Admit, Goto, Inside, Departed

LEMMA InsideLeave ==
  ASSUME Inv, NEW r \in Run, Leave(r)
  PROVE  /\ r \in Inside
         /\ Inside' = Inside \ {r} /\ Departed' = Departed \cup {r}
  <1>1. PcOK
    BY InvParts
  <1> QED BY <1>1, RunsAndSlots DEF PcOK, Leave, Goto, Inside, Departed

LEMMA InsideRestart ==
  ASSUME Inv, Restart
  PROVE  Inside' = {} /\ Departed' = Departed \cup Inside
  <1>1. PcOK
    BY InvParts
  <1> QED BY <1>1, RunsAndSlots DEF PcOK, Restart, Inside, Departed

LEMMA SlotsStep ==
  ASSUME Inv, SlotsMatchDrivers, [Next]_vars
  PROVE  SlotsMatchDrivers'
  <1>1. IsFiniteSet(active) /\ Cardinality(active) \in Nat
    BY RunAssumption, InvParts, FS_Subset, FS_CardinalityType DEF CountsOK
  <1>2. MaxActiveRuns \in Nat \ {0}
    BY LimitAssumption
  <1> USE DEF SlotsMatchDrivers
  <1>3. ASSUME NEW r \in Run, Admit(r) PROVE SlotsMatchDrivers'
    <2>1. active' = active \cup {r} /\ Cardinality(active) < MaxActiveRuns
      BY <1>3 DEF Admit
    <2>2. Cardinality(active \cup {r}) <= Cardinality(active) + 1
      BY <1>1, FS_AddElement
    <2>3. Cardinality(active \cup {r}) \in Nat
      BY <1>1, FS_AddElement, FS_CardinalityType
    <2> QED BY <1>1, <1>2, <1>3, <2>1, <2>2, <2>3, InsideAdmit
  <1>4. ASSUME NEW r \in Run, Leave(r) PROVE SlotsMatchDrivers'
    <2>1. active' = active \ {r}
      BY <1>4 DEF Leave
    <2>2. Cardinality(active \ {r}) <= Cardinality(active)
      BY <1>1, FS_Subset
    <2>3. Cardinality(active \ {r}) \in Nat
      BY <1>1, FS_Subset, FS_CardinalityType
    <2> QED BY <1>1, <1>2, <1>4, <2>1, <2>2, <2>3, InsideLeave
  <1>5. CASE Restart
    BY <1>2, <1>5, InsideRestart, FS_EmptySet DEF Restart
  <1> QED BY <1>3, <1>4, <1>5, InsideStays

\* RUN_ADMISSION counts exactly the drivers that are inside, and never more than
\* it may: no path, exception or death leaks a slot or gives one twice.
THEOREM SlotsExact == Spec => []SlotsMatchDrivers
  <1>1. Init => SlotsMatchDrivers
    BY RunsAndSlots, LimitAssumption, FS_EmptySet DEF Init, SlotsMatchDrivers, Inside
  <1> QED BY <1>1, Invariance, SlotsStep, PTL DEF Spec

\* Drivers, whatever they do inside, take slots as BoundedSlots says.
THEOREM SlotsRefinement == Spec => SlotsSpec
  <1>1. Init => Slots!Init
    BY RunsAndSlots DEF Init, Slots!Init, Inside, Departed
  <1>2. ASSUME Inv, SlotsMatchDrivers, [Next]_vars
        PROVE  [Slots!Next]_(Slots!slotVars)
    <2> USE DEF Slots!Next, Slots!slotVars
    <2>1. ASSUME NEW r \in Run, Admit(r) PROVE Slots!Enter(r)
      <3>1. Cardinality(Inside) < MaxActiveRuns
        BY <1>2, <2>1 DEF SlotsMatchDrivers, Admit
      <3>2. r \notin Inside \cup Departed /\ Inside' = Inside \cup {r} /\ Departed' = Departed
        BY <1>2, <2>1, InsideAdmit
      <3>3. Slots!Cardinality(Inside) = Cardinality(Inside)
        BY DEF Slots!Cardinality, Cardinality
      <3> QED BY <3>1, <3>2, <3>3 DEF Slots!Enter
    <2>2. ASSUME NEW r \in Run, Leave(r) PROVE Slots!Exit(r)
      BY <1>2, <2>2, InsideLeave DEF Slots!Exit
    <2>3. CASE Restart
      BY <1>2, <2>3, InsideRestart DEF Slots!Die
    <2> QED BY <1>2, <2>1, <2>2, <2>3, InsideStays
  <1> QED BY <1>1, <1>2, Invariance, SlotsExact, PTL DEF Spec, SlotsSpec, Slots!Spec

-----------------------------------------------------------------------------
(* Completed runs *)

Past == {"snapshot", "gates", "reviewLoad", "reviewSave", "ownSave", "autoSave",
         "autoEnqueue", "complete", "mark"}

\* A thread past the graph has run the graph of its own run.
RanInv ==
    /\ CompletedRunRan
    /\ \A th \in Thread : pc[th] \in Past => RunOf(th) \in ran

\* A thread at work keeps its run.
LEMMA RunOfStays ==
  ASSUME Inv, [Next]_vars, NEW th \in Thread, AtWork(th)
  PROVE  RunOf(th)' = RunOf(th)
  <1>1. BoundOK
    BY InvParts
  <1>2. th \in Run \/ bound'[th] = bound[th]
    <2>1. CASE UNCHANGED bound
      BY <2>1
    <2>2. ASSUME NEW s \in Slot, Binds(s) PROVE th \in Run \/ bound'[th] = bound[th]
      BY <1>1, <2>2, RunsAndSlots DEF Binds, BoundOK, AtWork
    <2> QED
      BY <2>1, <2>2, PcCases DEF Proceeds, Admit, Leave, Restart
  <1> QED BY <1>2 DEF RunOf

LEMMA RanStep ==
  ASSUME Inv, RanInv, [Next]_vars
  PROVE  RanInv'
  <1>1. PcOK /\ CountsOK /\ ControlOK
    BY InvParts
  <1>2. ran \subseteq ran'
    BY DEF Next, DriverStep, WorkerStep, GateStep, vars, Admit, CheckDepth, CreateRun,
           Enqueue, Claim, ClaimNothing, Graph,
           Snapshot, InsertReview, LoadRun, SavePaused, OwnSave, AutoApprove, AutoSave,
           AutoEnqueue, Resume, Complete, Fail, Mark,
           Leave, Raise, Restart
  <1>3. CompletedRunRan'
    <2> USE <1>1, <1>2 DEF RanInv, CompletedRunRan, ControlOK
    <2>1. ASSUME NEW th \in Thread, Mark(th) PROVE CompletedRunRan'
      BY <2>1, RunOfType DEF Mark, AtWork, Past
    <2>2. ASSUME NEW th \in Thread, Claim(th) PROVE CompletedRunRan'
      BY <2>2, ClaimTask
    <2>3. CASE \E r \in Run : CreateRun(r)
      BY <2>3 DEF CreateRun
    <2>4. CASE UNCHANGED control
      BY <2>4
    <2> QED
      BY <2>1, <2>2, <2>3, <2>4
         DEF Next, DriverStep, WorkerStep, GateStep, vars, storeVars, Admit, CheckDepth,
             Enqueue, ClaimNothing, Graph, Snapshot,
             InsertReview, LoadRun, SavePaused, OwnSave, AutoApprove, AutoSave, AutoEnqueue,
             Resume, Complete, Fail, Leave, Raise,
             Restart
  <1>4. ASSUME NEW th \in Thread, pc'[th] \in Past
        PROVE  RunOf(th)' \in ran'
    <2>1. CASE pc[th] \in Past
      <3>1. AtWork(th)
        BY <2>1 DEF AtWork, Past
      <3> QED BY <1>2, <2>1, <3>1, RunOfStays DEF RanInv
    <2>2. CASE pc[th] \notin Past
      <3>1. Graph(th)
        <4> USE <1>1, <1>4, <2>2, RunsAndSlots DEF PcOK, Goto, Past
        <4>1. ASSUME NEW r \in Run, Admit(r) \/ DriverStep(r) PROVE FALSE
          BY <4>1 DEF DriverStep, Admit, CheckDepth, CreateRun, Enqueue
        <4>3. ASSUME NEW t \in Thread, Claim(t) \/ ClaimNothing(t) PROVE FALSE
          BY <4>3 DEF Claim, ClaimNothing
        <4>4. ASSUME NEW t \in Thread,
                     Snapshot(t) \/ InsertReview(t) \/ LoadRun(t) \/ SavePaused(t)
              PROVE FALSE
          BY <4>4 DEF Snapshot, InsertReview, LoadRun, SavePaused
        <4>2. ASSUME NEW t \in Thread, OwnSave(t) \/ AutoApprove(t) \/ AutoSave(t) PROVE FALSE
          BY <4>2 DEF OwnSave, AutoApprove, AutoSave
        <4>5. ASSUME NEW t \in Thread, AutoEnqueue(t) PROVE FALSE
          BY <4>5 DEF AutoEnqueue, Resume
        <4>6. ASSUME NEW t \in Thread,
        Complete(t) \/ Fail(t) \/ Mark(t) \/ Leave(t) \/ Raise(t)
              PROVE FALSE
          BY <4>6 DEF Complete, Fail, Mark, Leave, Raise
        <4>7. CASE Restart \/ UNCHANGED vars
          BY <4>7 DEF Restart, vars, threadVars
        <4>8. ASSUME NEW t \in Thread, Graph(t) PROVE t = th
          BY <4>8 DEF Graph
        <4> QED
          BY <4>1, <4>2, <4>3, <4>4, <4>5, <4>6, <4>7, <4>8 DEF Next, WorkerStep, GateStep
      <3>2. ran' = ran \cup {RunOf(th)} /\ AtWork(th)
        BY <3>1 DEF Graph, AtWork
      <3> QED BY <3>2, RunOfStays
    <2> QED BY <2>1, <2>2
  <1> QED BY <1>3, <1>4 DEF RanInv

\* Although a worker step may settle the task of another run, only runs whose
\* own graph has run are marked COMPLETED.
THEOREM CompletedRan == Spec => []CompletedRunRan
  <1>1. Init => RanInv
    BY DEF Init, RanInv, CompletedRunRan, Past
  <1>2. RanInv => CompletedRunRan
    BY DEF RanInv
  <1> QED BY <1>1, <1>2, Invariance, RanStep, PTL DEF Spec

-----------------------------------------------------------------------------
(* The threads of one run.  A resume thread begins when the handler that   *)
(* started it has saved all it will, so at most one of them is in hand.    *)

InHand == Early \cup Pausing

\* A resume thread not yet started belongs to no run; past a review no thread is
\* left that could approve the run or go on with it.
ChainInv ==
    /\ \A s \in Slot : pc[s] = "new" => bound[s] = NoRun
    /\ HandlersTakeTurns
    /\ \A r \in Run : \A th \in Own(r) : reviews[r] > 0 => pc[th] \notin Early

LEMMA SingleInHand ==
  ASSUME ChainInv, NEW t \in Thread, NEW u \in Thread, RunOf(t) = RunOf(u), RunOf(t) \in Run,
         pc[t] \in InHand, pc[u] \in InHand
  PROVE  t = u
  BY DEF ChainInv, HandlersTakeTurns, Own, InHand

\* A thread of a run that will be in hand is so now, or is being started.
Stays(th) == pc'[th] \in InHand => pc[th] \in InHand /\ (pc'[th] \in Early => pc[th] \in Early)

LEMMA StaysStep ==
  ASSUME Inv, [Next]_vars, \A s \in Slot : ~Binds(s), NEW t \in Thread
  PROVE  Stays(t)
  <1>1. PcOK
    BY InvParts
  <1> USE <1>1, RunsAndSlots DEF PcOK, Stays, InHand, Early, Pausing, Goto
  <1>2. ASSUME NEW r \in Run, Admit(r) \/ DriverStep(r) PROVE Stays(t)
    BY <1>2 DEF DriverStep, Admit, CheckDepth, CreateRun, Enqueue
  <1>3. ASSUME NEW th \in Thread, Claim(th) \/ ClaimNothing(th) \/ Graph(th) \/ Snapshot(th)
        PROVE  Stays(t)
    BY <1>3 DEF Claim, ClaimNothing, Graph, Snapshot
  <1>4. ASSUME NEW th \in Thread, InsertReview(th) \/ LoadRun(th) \/ SavePaused(th)
        PROVE  Stays(t)
    BY <1>4 DEF InsertReview, LoadRun, SavePaused
  <1>5. ASSUME NEW th \in Thread, OwnSave(th) \/ AutoApprove(th) \/ AutoSave(th)
        PROVE  Stays(t)
    BY <1>5 DEF OwnSave, AutoApprove, AutoSave
  <1>6. ASSUME NEW th \in Thread, Complete(th) \/ Fail(th) \/ Mark(th) \/ Leave(th) \/ Raise(th)
        PROVE  Stays(t)
    BY <1>6 DEF Complete, Fail, Mark, Leave, Raise
  <1>7. ASSUME NEW th \in Thread, AutoEnqueue(th) PROVE FALSE
    <2>1. RunOf(th) \in Run
      BY <1>7, RunOfType DEF AutoEnqueue, Resume, AtWork
    <2> QED BY <1>7, <2>1 DEF AutoEnqueue, Resume, Binds
  <1>8. CASE Restart \/ UNCHANGED vars
    BY <1>8 DEF Restart, vars, threadVars
  <1> QED BY <1>2, <1>3, <1>4, <1>5, <1>6, <1>7, <1>8 DEF Next, WorkerStep, GateStep

\* A review is opened by a handler in hand, which then is past approving.
LEMMA ReviewsCases ==
  ASSUME Inv, [Next]_vars
  PROVE  UNCHANGED reviews \/ \E th \in Thread : InsertReview(th)
  BY DEF Next, DriverStep, WorkerStep, GateStep, vars, Admit, CheckDepth, CreateRun, Enqueue,
         Claim, ClaimNothing, Graph, Snapshot, LoadRun, SavePaused, OwnSave, AutoApprove,
         AutoSave, AutoEnqueue, Resume, Complete, Fail, Mark, Leave, Raise, Restart

LEMMA ChainStep ==
  ASSUME Inv, ChainInv, [Next]_vars
  PROVE  ChainInv'
  <1>1. PcOK /\ BoundOK /\ ReviewsOK /\ BoundRun
    BY InvParts
  <1>2. ASSUME NEW s \in Slot, pc'[s] = "new" PROVE bound'[s] = NoRun
    <2> USE <1>1, <1>2, RunsAndSlots DEF PcOK, BoundOK, ChainInv
    <2>1. ASSUME NEW th \in Thread, Proceeds(th) PROVE bound'[s] = NoRun
      BY <2>1 DEF Proceeds
    <2>2. ASSUME NEW u \in Slot, Binds(u) PROVE bound'[s] = NoRun
      BY <2>2 DEF Binds
    <2>3. CASE (\E r \in Run : Admit(r)) \/ \E th \in Thread : Leave(th)
      BY <2>3 DEF Admit, Leave, Goto
    <2>4. CASE Restart \/ UNCHANGED <<pc, job, bound>>
      BY <2>4 DEF Restart
    <2> QED BY <2>1, <2>2, <2>3, <2>4, PcCases
  <1>3. ASSUME NEW s \in Slot, Binds(s)
        PROVE  HandlersTakeTurns' /\ \A r \in Run : \A th \in Own(r)' : reviews'[r] > 0 => pc'[th] \notin Early
    <2>1. PICK th \in Thread :
            /\ pc[th] = "autoEnqueue" /\ RunOf(th) \in Run
            /\ bound' = [bound EXCEPT ![s] = RunOf(th)]
            /\ pc' = [pc EXCEPT ![th] = "complete", ![s] = "claim"]
      BY <1>3 DEF Binds
    <2>2. pc[s] = "new" /\ bound[s] = NoRun /\ s # th /\ s \in Thread
      BY <1>3, <2>1, RunsAndSlots DEF Binds, ChainInv
    <2>3. RunOf(s)' = RunOf(th) /\ \A t \in Thread : t # s => RunOf(t)' = RunOf(t)
      BY <1>1, <2>1, RunsAndSlots DEF RunOf, BoundOK
    <2>4. /\ pc'[th] = "complete" /\ pc'[s] = "claim"
          /\ \A t \in Thread : t # s /\ t # th => pc'[t] = pc[t]
      BY <1>1, <2>1, <2>2 DEF PcOK
    <2>5. ASSUME NEW t \in Thread, t # s, RunOf(t) = RunOf(th)
          PROVE  pc'[t] \notin InHand
      <3>1. pc[th] \in InHand
        BY <2>1 DEF InHand, Early
      <3>2. CASE t = th
        BY <2>4, <3>2 DEF InHand, Early, Pausing
      <3>3. CASE t # th
        BY <2>1, <2>4, <2>5, <3>1, <3>3, SingleInHand
      <3> QED BY <3>2, <3>3
    <2>6. ASSUME NEW t \in Thread, NEW u \in Thread, RunOf(t)' = RunOf(u)', RunOf(t)' \in Run,
                 pc'[t] \in InHand, pc'[u] \in InHand
          PROVE  t = u
      <3>1. CASE t = s \/ u = s
        BY <2>3, <2>5, <2>6, <3>1
      <3>2. CASE t # s /\ u # s
        <4>1. pc'[th] \notin InHand
          BY <2>4 DEF InHand, Early, Pausing
        <4>2. pc[t] \in InHand /\ pc[u] \in InHand
          BY <2>4, <2>6, <3>2, <4>1
        <4> QED BY <2>3, <2>6, <3>2, <4>2, SingleInHand
      <3> QED BY <3>1, <3>2
    <2>7. HandlersTakeTurns'
      BY <2>6 DEF HandlersTakeTurns, Own, InHand
    <2>8. reviews' = reviews
      <3>1. ASSUME NEW t \in Thread, InsertReview(t) PROVE FALSE
        BY <2>1, <2>2, <2>4, <3>1, <1>1 DEF InsertReview, Goto, PcOK
      <3> QED BY <3>1, ReviewsCases
    <2>9. ASSUME NEW r \in Run, NEW t \in Own(r)', reviews[r] > 0 PROVE pc'[t] \notin Early
      <3>1. t \in Thread /\ RunOf(t)' = r
        BY <2>9 DEF Own
      <3>2. RunOf(th) # r
        BY <2>1, <2>9 DEF ChainInv, Own, Early
      <3>3. t # s
        BY <2>3, <3>1, <3>2
      <3>4. t \in Own(r)
        BY <2>3, <3>1, <3>3 DEF Own
      <3>5. t # th /\ pc[t] \notin Early
        BY <2>9, <3>2, <3>4 DEF ChainInv, Own
      <3> QED BY <2>4, <3>1, <3>3, <3>5
    <2> QED BY <2>7, <2>8, <2>9
  <1>4. ASSUME \A s \in Slot : ~Binds(s)
        PROVE  HandlersTakeTurns' /\ \A r \in Run : \A th \in Own(r)' : reviews'[r] > 0 => pc'[th] \notin Early
    <2>1. \A t \in Thread : Stays(t)
      BY <1>4, StaysStep
    <2>2. \A t \in Thread : RunOf(t)' = RunOf(t)
      <3>1. UNCHANGED bound
        BY <1>4, PcCases DEF Proceeds, Admit, Leave, Restart
      <3> QED BY <3>1 DEF RunOf
    <2>3. HandlersTakeTurns'
      <3>1. ASSUME NEW t \in Thread, NEW u \in Thread, RunOf(t)' = RunOf(u)', RunOf(t)' \in Run,
                   pc'[t] \in InHand, pc'[u] \in InHand
            PROVE  t = u
        BY <2>1, <2>2, <3>1, SingleInHand DEF Stays
      <3> QED BY <3>1 DEF HandlersTakeTurns, Own, InHand
    <2>4. ASSUME NEW r \in Run, NEW t \in Thread, RunOf(t) = r, reviews'[r] > 0
          PROVE  pc'[t] \notin Early
      <3>1. t \in Thread /\ RunOf(t) = r /\ t \in Own(r)
        BY <2>4 DEF Own
      <3>2. CASE reviews[r] > 0
        BY <2>1, <3>1, <3>2 DEF ChainInv, Stays, InHand
      <3>3. CASE ~(reviews[r] > 0)
        <4>1. PICK th \in Thread : InsertReview(th)
          BY <2>4, <3>3, ReviewsCases
        <4>2. RunOf(th) = r
          BY <1>1, <2>4, <3>3, <4>1 DEF InsertReview, ReviewsOK
        <4>3. pc[th] \in InHand /\ pc'[th] = "reviewLoad"
          BY <1>1, <4>1 DEF InsertReview, Goto, PcOK, InHand, Early
        <4>4. CASE t = th
          BY <4>3, <4>4 DEF Early
        <4>5. CASE t # th
          <5>1. pc[t] \notin InHand
            BY <3>1, <4>2, <4>3, <4>5, SingleInHand
          <5> QED BY <2>1, <3>1, <5>1 DEF Stays, InHand
        <4> QED BY <4>4, <4>5
      <3> QED BY <3>2, <3>3
    <2>5. \A r \in Run : \A th \in Own(r)' : reviews'[r] > 0 => pc'[th] \notin Early
      BY <2>2, <2>4 DEF Own
    <2> QED BY <2>3, <2>5
  <1>5. HandlersTakeTurns' /\ \A r \in Run : \A th \in Own(r)' : reviews'[r] > 0 => pc'[th] \notin Early
    BY <1>3, <1>4
  <1> QED BY <1>2, <1>5 DEF ChainInv

LEMMA ChainInit == Init => ChainInv
  BY RunsAndSlots, RunAssumption
     DEF Init, ChainInv, HandlersTakeTurns, Own, RunOf

\* No two threads of one run are ever in hand, whichever tasks they are given.
THEOREM TakeTurns == Spec => []HandlersTakeTurns
  <1>1. ChainInv => HandlersTakeTurns
    BY DEF ChainInv
  <1>2. Inv /\ ChainInv /\ [Next]_vars => ChainInv'
    BY ChainStep
  <1> QED BY <1>1, <1>2, ChainInit, Invariance, PTL DEF Spec

\* One review at most: the handler that opens it was the last one in hand.
OneReview == \A r \in Run : reviews[r] <= 1

LEMMA OneReviewStep ==
  ASSUME Inv, ChainInv, OneReview, [Next]_vars
  PROVE  OneReview'
  <1>1. ReviewsOK
    BY InvParts
  <1>2. ASSUME NEW th \in Thread, InsertReview(th) PROVE OneReview'
    <2>1. RunOf(th) \in Run
      BY <1>2, RunOfType DEF InsertReview, AtWork
    <2>2. ~(reviews[RunOf(th)] > 0)
      BY <1>2, <2>1 DEF InsertReview, ChainInv, Own, Early
    <2>3. reviews' = [reviews EXCEPT ![RunOf(th)] = reviews[RunOf(th)] + 1]
      BY <1>2 DEF InsertReview
    <2>4. reviews[RunOf(th)] = 0
      BY <1>1, <2>1, <2>2 DEF ReviewsOK
    <2>5. \A r \in Run : reviews'[r] = IF r = RunOf(th) THEN 1 ELSE reviews[r]
      BY <1>1, <2>1, <2>3, <2>4 DEF ReviewsOK
    <2> QED BY <2>5 DEF OneReview
  <1> QED BY <1>2, ReviewsCases DEF OneReview

\* Once a review of a run is open, nothing approves the run or goes on with it.
THEOREM ReviewRests == Spec => []ReviewedRunRests
  <1>1. Init => OneReview
    BY DEF Init, OneReview
  <1>2. Inv /\ ChainInv /\ OneReview => ReviewedRunRests
    <2> SUFFICES ASSUME Inv, ChainInv, OneReview PROVE ReviewedRunRests
      OBVIOUS
    <2>1. reviews \in [Run -> Nat]
      BY InvParts DEF ReviewsOK
    <2> QED BY <2>1 DEF ChainInv, OneReview, ReviewedRunRests
  <1>3. Inv /\ ChainInv /\ [Next]_vars => ChainInv'
    BY ChainStep
  <1>4. Inv /\ ChainInv /\ OneReview /\ [Next]_vars => OneReview'
    BY OneReviewStep
  <1> QED BY <1>1, <1>2, <1>3, <1>4, ChainInit, Invariance, PTL DEF Spec

-----------------------------------------------------------------------------
(* Grants.  While a handler pauses its run, what it holds and what the row *)
(* holds agree about the grants, since no other thread saves the run.      *)

Keeping == {"gates"} \cup Pausing

GrantInv == \A th \in Thread :
    /\ pc[th] \in Keeping => (copy[th].granted <=> state[RunOf(th)].granted)
    /\ pc[th] = "reviewSave" => (loaded[th].granted <=> state[RunOf(th)].granted)
    /\ pc[th] = "autoSave" => copy[th].granted

Saves(th) == Snapshot(th) \/ SavePaused(th) \/ OwnSave(th) \/ AutoSave(th)

\* The row of a run is written by a handler of that run.
LEMMA SavesCases ==
  ASSUME Inv, [Next]_vars
  PROVE  UNCHANGED state \/ \E th \in Thread : Saves(th)
  BY DEF Saves, Next, DriverStep, WorkerStep, GateStep, vars, storeVars, Admit, CheckDepth,
         CreateRun, Enqueue, Claim, ClaimNothing, Graph, InsertReview, LoadRun, AutoApprove,
         AutoEnqueue, Resume, Complete, Fail, Mark, Leave, Raise, Restart

LEMMA SaverInHand ==
  ASSUME Inv, NEW th \in Thread, Saves(th)
  PROVE  /\ pc[th] \in InHand /\ RunOf(th) \in Run
         /\ \A r \in Run : r # RunOf(th) => state'[r] = state[r]
  <1>1. StateOK
    BY InvParts
  <1>2. pc[th] \in {"snapshot", "reviewSave", "ownSave", "autoSave"}
    BY DEF Saves, Snapshot, SavePaused, OwnSave, AutoSave
  <1>3. RunOf(th) \in Run /\ pc[th] \in InHand
    BY <1>2, RunOfType DEF AtWork, InHand, Early, Pausing
  <1>4. \A r \in Run : r # RunOf(th) => state'[r] = state[r]
    BY <1>1 DEF Saves, Snapshot, SavePaused, OwnSave, AutoSave, StateOK
  <1> QED BY <1>3, <1>4

\* What a handler's own save does to the grants of its run.
LEMMA SavedGrants ==
  ASSUME Inv, GrantInv, NEW th \in Thread
  PROVE  /\ Snapshot(th) => state'[RunOf(th)] = session[RunOf(th)]
         /\ SavePaused(th) => (state'[RunOf(th)].granted <=> state[RunOf(th)].granted)
         /\ OwnSave(th) => (state'[RunOf(th)].granted <=> state[RunOf(th)].granted)
         /\ AutoSave(th) => state'[RunOf(th)].granted
  <1>1. StateOK
    BY InvParts
  <1>2. CASE Snapshot(th)
    <2>1. RunOf(th) \in Run
      BY <1>2, RunOfType DEF Snapshot, AtWork
    <2>2. pc[th] = "snapshot"
      BY <1>2 DEF Snapshot
    <2> QED BY <1>1, <1>2, <2>1, <2>2 DEF Snapshot, SavePaused, OwnSave, AutoSave, StateOK
  <1>3. CASE SavePaused(th)
    <2>1. RunOf(th) \in Run /\ pc[th] = "reviewSave"
      BY <1>3, RunOfType DEF SavePaused, AtWork
    <2>2. state'[RunOf(th)].granted = loaded[th].granted
      BY <1>1, <1>3, <2>1 DEF SavePaused, StateOK, States
    <2>3. loaded[th].granted <=> state[RunOf(th)].granted
      BY <2>1 DEF GrantInv
    <2>4. state'[RunOf(th)].granted <=> state[RunOf(th)].granted
      BY <2>2, <2>3
    <2> QED BY <2>1, <2>4 DEF Snapshot, OwnSave, AutoSave
  <1>4. CASE OwnSave(th)
    <2>1. RunOf(th) \in Run /\ pc[th] = "ownSave"
      BY <1>4, RunOfType DEF OwnSave, AtWork
    <2>2. state'[RunOf(th)].granted = copy[th].granted
      BY <1>1, <1>4, <2>1 DEF OwnSave, StateOK
    <2>3. copy[th].granted <=> state[RunOf(th)].granted
      BY <2>1 DEF GrantInv, Keeping, Pausing
    <2>4. state'[RunOf(th)].granted <=> state[RunOf(th)].granted
      BY <2>2, <2>3
    <2> QED BY <2>1, <2>4 DEF Snapshot, SavePaused, AutoSave
  <1>5. CASE AutoSave(th)
    <2>1. RunOf(th) \in Run /\ pc[th] = "autoSave"
      BY <1>5, RunOfType DEF AutoSave, AtWork
    <2>2. state'[RunOf(th)].granted = copy[th].granted
      BY <1>1, <1>5, <2>1 DEF AutoSave, StateOK
    <2>3. copy[th].granted
      BY <2>1 DEF GrantInv
    <2> QED BY <2>1, <2>2, <2>3 DEF Snapshot, SavePaused, OwnSave
  <1> QED BY <1>2, <1>3, <1>4, <1>5

LEMMA GrantsStep ==
  ASSUME Inv, ChainInv, GrantInv, [Next]_vars, NEW r \in Run,
         state[r].granted, ~state'[r].granted
  PROVE  ~session[r].granted /\ \E th \in Own(r) : pc[th] = "snapshot"
  <1>1. PICK th \in Thread : Saves(th)
    BY SavesCases
  <1>2. RunOf(th) = r
    <2>1. CASE RunOf(th) # r
      BY <1>1, <2>1, SaverInHand
    <2> QED BY <2>1
  <1>3. Snapshot(th)
    BY <1>1, <1>2, SavedGrants DEF Saves
  <1>4. pc[th] = "snapshot" /\ th \in Own(r)
    BY <1>2, <1>3 DEF Snapshot, Own
  <1>5. state'[r] = session[r]
    BY <1>2, <1>3, SavedGrants
  <1> QED BY <1>4, <1>5

\* A thread that a step leaves alone keeps what it holds, and its label.
Untouched(th) == pc'[th] = pc[th] /\ copy'[th] = copy[th] /\ loaded'[th] = loaded[th]

LEMMA OneThreadSteps ==
  ASSUME Inv, [Next]_vars, NEW th \in Thread, pc'[th] \in InHand \ {"new", "claim", "graph"}
  PROVE  Untouched(th) \/ DriverStep(th) \/ Graph(th) \/ Snapshot(th) \/ GateStep(th)
         \/ Admit(th)
  <1>1. PcOK /\ StateOK
    BY InvParts
  <1> USE <1>1, RunsAndSlots DEF PcOK, StateOK, Untouched, Goto, InHand, Early, Pausing
  <1>2. ASSUME NEW r \in Run, Admit(r) \/ DriverStep(r), r # th PROVE Untouched(th)
    BY <1>2 DEF DriverStep, Admit, CheckDepth, CreateRun, Enqueue, locals
  <1>3. ASSUME NEW u \in Thread, Claim(u) \/ ClaimNothing(u) PROVE Untouched(th)
    BY <1>3 DEF Claim, ClaimNothing, locals
  <1>4. ASSUME NEW u \in Thread, Graph(u) \/ Snapshot(u), u # th PROVE Untouched(th)
    BY <1>4 DEF Graph, Snapshot, locals
  <1>5. ASSUME NEW u \in Thread, InsertReview(u) \/ LoadRun(u) \/ SavePaused(u), u # th
        PROVE  Untouched(th)
    BY <1>5 DEF InsertReview, LoadRun, SavePaused, locals
  <1>6. ASSUME NEW u \in Thread, OwnSave(u) \/ AutoApprove(u) \/ AutoSave(u), u # th
        PROVE  Untouched(th)
    BY <1>6 DEF OwnSave, AutoApprove, AutoSave, locals
  <1>7. ASSUME NEW u \in Thread, AutoEnqueue(u), u # th PROVE Untouched(th)
    BY <1>7 DEF AutoEnqueue, Resume, locals
  <1>8. ASSUME NEW u \in Thread, Complete(u) \/ Fail(u) \/ Mark(u) \/ Raise(u) PROVE Untouched(th)
    BY <1>8 DEF Complete, Fail, Mark, Raise, locals
  <1>9. ASSUME NEW u \in Thread, Leave(u) PROVE Untouched(th)
    BY <1>9 DEF Leave
  <1>10. CASE UNCHANGED vars
    BY <1>10 DEF vars, threadVars, locals
  <1>11. ~Restart
    BY DEF Restart
  <1> HIDE <1>1 DEF PcOK, StateOK, Untouched, Goto, InHand, Early, Pausing
  <1> QED
    BY <1>2, <1>3, <1>4, <1>5, <1>6, <1>7, <1>8, <1>9, <1>10, <1>11
       DEF Next, WorkerStep, GateStep

LEMMA GrantStep ==
  ASSUME Inv, ChainInv, GrantInv, [Next]_vars
  PROVE  GrantInv'
  <1>1. PcOK /\ StateOK
    BY InvParts
  <1> DEFINE Agrees(th) ==
        /\ pc[th] \in Keeping => (copy[th].granted <=> state[RunOf(th)].granted)
        /\ pc[th] = "reviewSave" => (loaded[th].granted <=> state[RunOf(th)].granted)
        /\ pc[th] = "autoSave" => copy[th].granted
  <1>2. ASSUME NEW th \in Thread, pc'[th] \in Keeping \cup {"autoSave"} PROVE Agrees(th)'
    <2>1. pc'[th] \in InHand \ {"new", "claim", "graph"}
      BY <1>2 DEF InHand, Early, Pausing, Keeping
    <2>2. CASE Untouched(th)
      <3>1. pc[th] = pc'[th] /\ copy'[th] = copy[th] /\ loaded'[th] = loaded[th]
        BY <2>2 DEF Untouched
      <3>2. AtWork(th) /\ pc[th] \in InHand
        BY <1>2, <2>1, <3>1 DEF AtWork, Keeping, Pausing
      <3>3. RunOf(th) \in Run /\ RunOf(th)' = RunOf(th)
        BY <3>2, RunOfType, RunOfStays
      <3>4. ASSUME NEW u \in Thread, Saves(u) PROVE state'[RunOf(th)] = state[RunOf(th)]
        <4>1. CASE u = th
          BY <1>1, <3>1, <3>4, <4>1
             DEF Saves, Snapshot, SavePaused, OwnSave, AutoSave, Goto, PcOK
        <4>2. CASE u # th
          <5>1. pc[u] \in InHand /\ RunOf(u) \in Run
            BY <3>4, SaverInHand
          <5>2. RunOf(u) # RunOf(th)
            BY <3>2, <3>3, <4>2, <5>1, SingleInHand
          <5> QED BY <3>3, <3>4, <5>2, SaverInHand
        <4> QED BY <4>1, <4>2
      <3>5. state'[RunOf(th)] = state[RunOf(th)]
        BY <3>4, SavesCases
      <3>6. Agrees(th)
        BY DEF GrantInv
      <3> QED BY <3>1, <3>3, <3>5, <3>6
    <2>3. CASE DriverStep(th) \/ Admit(th) \/ Graph(th)
      BY <1>1, <1>2, <2>3
         DEF DriverStep, Admit, CheckDepth, CreateRun, Enqueue, Graph, Goto, PcOK, Keeping, Pausing
    <2>4. ASSUME AtWork(th) PROVE RunOf(th) \in Run /\ RunOf(th)' = RunOf(th)
      BY <2>4, RunOfType, RunOfStays
    <2>5. CASE Snapshot(th)
      <3>1. RunOf(th) \in Run /\ RunOf(th)' = RunOf(th)
        BY <2>4, <2>5 DEF Snapshot, AtWork
      <3>2. pc'[th] \notin {"reviewSave", "autoSave"}
        BY <1>1, <2>5 DEF Snapshot, Goto, PcOK
      <3>3. copy'[th] = session[RunOf(th)] /\ state'[RunOf(th)] = session[RunOf(th)]
        BY <1>1, <2>5, <3>1 DEF Snapshot, StateOK
      <3> QED BY <3>1, <3>2, <3>3
    <2>6. CASE InsertReview(th)
      <3>1. RunOf(th) \in Run /\ RunOf(th)' = RunOf(th)
        BY <2>4, <2>6 DEF InsertReview, AtWork
      <3>2. pc[th] = "gates" /\ pc'[th] = "reviewLoad" /\ copy' = copy /\ state' = state
        BY <1>1, <2>6 DEF InsertReview, Goto, PcOK, locals, storeVars
      <3>3. copy[th].granted <=> state[RunOf(th)].granted
        BY <3>2 DEF GrantInv, Keeping
      <3> QED BY <3>1, <3>2, <3>3
    <2>7. CASE LoadRun(th)
      <3>1. RunOf(th) \in Run /\ RunOf(th)' = RunOf(th)
        BY <2>4, <2>7 DEF LoadRun, AtWork
      <3>2. pc[th] = "reviewLoad" /\ pc'[th] = "reviewSave" /\ copy' = copy /\ state' = state
            /\ loaded'[th] = state[RunOf(th)]
        BY <1>1, <2>7 DEF LoadRun, Goto, PcOK, StateOK, storeVars
      <3>3. copy[th].granted <=> state[RunOf(th)].granted
        BY <3>2 DEF GrantInv, Keeping, Pausing
      <3> QED BY <3>1, <3>2, <3>3
    <2>8. CASE SavePaused(th)
      <3>1. RunOf(th) \in Run /\ RunOf(th)' = RunOf(th)
        BY <2>4, <2>8 DEF SavePaused, AtWork
      <3>2. pc[th] = "reviewSave" /\ pc'[th] = "ownSave"
        BY <1>1, <2>8 DEF SavePaused, Goto, PcOK
      <3>3. copy'[th].granted = copy[th].granted
        BY <1>1, <2>8 DEF SavePaused, StateOK, States
      <3>4. copy[th].granted <=> state[RunOf(th)].granted
        BY <3>2 DEF GrantInv, Keeping, Pausing
      <3>5. state'[RunOf(th)].granted <=> state[RunOf(th)].granted
        BY <2>8, SavedGrants
      <3>6. copy'[th].granted <=> state'[RunOf(th)].granted
        BY <3>3, <3>4, <3>5
      <3> QED BY <3>1, <3>2, <3>6
    <2>9. CASE AutoApprove(th)
      <3>1. pc'[th] = "autoSave" /\ copy'[th] = Approved
        BY <1>1, <2>9 DEF AutoApprove, Goto, PcOK, StateOK
      <3> QED BY <3>1 DEF Approved, Keeping, Pausing
    <2>10. CASE OwnSave(th) \/ AutoSave(th) \/ AutoEnqueue(th)
      BY <1>1, <1>2, <2>10
         DEF OwnSave, AutoSave, AutoEnqueue, Resume, Goto, PcOK, Keeping, Pausing
    <2> QED
      BY <2>1, <2>2, <2>3, <2>5, <2>6, <2>7, <2>8, <2>9, <2>10, OneThreadSteps DEF GateStep
  <1>3. ASSUME NEW th \in Thread, pc'[th] \notin Keeping \cup {"autoSave"} PROVE Agrees(th)'
    BY <1>3 DEF Keeping, Pausing
  <1>4. \A th \in Thread : Agrees(th)'
    BY <1>2, <1>3
  <1> QED BY <1>4 DEF GrantInv

\* The grants of an automatic approval leave a run only in the snapshot of a
\* session that was not told of them.
THEOREM GrantsLost == Spec => GrantsLostOnlyUntold
  <1>1. Init => GrantInv
    BY DEF Init, GrantInv, Keeping, Pausing
  <1>2. Inv /\ ChainInv /\ [Next]_vars => ChainInv'
    BY ChainStep
  <1>3. Inv /\ ChainInv /\ GrantInv /\ [Next]_vars => GrantInv'
    BY GrantStep
  <1>4. Inv /\ ChainInv /\ GrantInv /\ [Next]_vars =>
          [\A r \in Run : state[r].granted /\ ~state'[r].granted
             => ~session[r].granted /\ \E th \in Own(r) : pc[th] = "snapshot"]_vars
    BY GrantsStep
  <1> QED
    BY <1>1, <1>2, <1>3, <1>4, ChainInit, Invariance, PTL DEF Spec, GrantsLostOnlyUntold

-----------------------------------------------------------------------------
(* Who holds a task.  A task is held by one thread, which keeps it RUNNING: *)
(* else a task that has left the queue could come back to it.              *)

HeldInv ==
    /\ \A th \in Thread : job[th] # 0 => queue[job[th]].status = "RUNNING"
    /\ \A t1, t2 \in Thread : job[t1] # 0 /\ job[t1] = job[t2] => t1 = t2

LEMMA HeldIndex ==
  ASSUME Inv, NEW th \in Thread, job[th] # 0
  PROVE  job[th] \in DOMAIN queue /\ job[th] \notin Orphans
  <1>1. JobOK
    BY InvParts
  <1> QED BY <1>1 DEF JobOK, Orphans

\* Expiring the leases of orphans leaves a held task alone.
LEMMA HeldNotExpired ==
  ASSUME Inv, NEW th \in Thread, job[th] # 0, NEW L \in SUBSET Orphans
  PROVE  Expired(L)[job[th]] = queue[job[th]]
  <1>1. QueueOK
    BY InvParts
  <1>2. job[th] \in DOMAIN queue /\ job[th] \notin L
    BY HeldIndex
  <1> QED BY <1>1, <1>2, ExpiredType

LEMMA HeldStep ==
  ASSUME Inv, HeldInv, [Next]_vars
  PROVE  HeldInv'
  <1>1. QueueOK /\ JobOK /\ PcOK
    BY InvParts
  <1>2. \A t \in Thread : job[t] # 0 => job[t] \in DOMAIN queue
    BY HeldIndex
  <1> USE DEF HeldInv
  <1>3. ASSUME NEW th \in Thread, Claim(th) PROVE HeldInv'
    <2>1. PICK i \in DOMAIN queue, L \in SUBSET Orphans :
            /\ Expired(L)[i].status \in Waiting
            /\ queue' = [Expired(L) EXCEPT ![i].status = "RUNNING", ![i].attempt = @ + 1]
            /\ queue' \in Seq(Task)
            /\ job' = [job EXCEPT ![th] = i]
      BY <1>3, ClaimTask
    <2>2. /\ DOMAIN Expired(L) = DOMAIN queue /\ Expired(L)[i] \in Task
          /\ DOMAIN queue = 1 .. Len(queue) /\ Len(queue) \in Nat
      <3>1. Expired(L) \in Seq(Task) /\ DOMAIN Expired(L) = DOMAIN queue
        BY <1>1, ExpiredType
      <3> QED BY <1>1, <3>1, ElementOfSeq, LenProperties DEF QueueOK
    <2>3. queue'[i].status = "RUNNING" /\ i # 0
      BY <2>1, <2>2 DEF Task
    <2>4. \A j \in DOMAIN queue : j # i => queue'[j] = Expired(L)[j]
      BY <2>1, <2>2
    <2>5. ASSUME NEW t \in Thread, t # th, job[t] # 0
          PROVE  job[t] # i /\ queue'[job[t]].status = "RUNNING"
      <3>1. Expired(L)[job[t]] = queue[job[t]] /\ queue[job[t]].status = "RUNNING"
        BY <2>5, HeldNotExpired
      <3>2. job[t] # i
        BY <2>1, <3>1 DEF Waiting
      <3> QED BY <1>2, <2>4, <2>5, <3>1, <3>2
    <2>6. job'[th] = i /\ \A t \in Thread : t # th => job'[t] = job[t]
      BY <1>1, <2>1 DEF JobOK
    <2> QED BY <2>3, <2>5, <2>6
  <1>4. ASSUME NEW th \in Thread, ClaimNothing(th) PROVE HeldInv'
    <2>1. job' = job /\ \E L \in SUBSET Orphans : queue' = Expired(L)
      BY <1>4 DEF ClaimNothing
    <2> QED BY <2>1, HeldNotExpired
  <1>5. ASSUME NEW r \in Run, queue' = Append(queue, NewTask(r)), job' = job PROVE HeldInv'
    <2>1. NewTask(r) \in Task
      BY DEF NewTask, Task, Active, Waiting
    <2>2. \A j \in DOMAIN queue : queue'[j] = queue[j]
      BY <1>1, <1>5, <2>1, AppendTask
    <2> QED BY <1>2, <1>5, <2>2
  <1>6. ASSUME NEW th \in Thread, Complete(th) \/ Fail(th) PROVE HeldInv'
    <2>1. job[th] \in DOMAIN queue /\ job[th] # 0
      BY <1>1, <1>6, LenProperties DEF JobOK, Complete, Fail, Holding, Handler, QueueOK
    <2>2. job' = [job EXCEPT ![th] = 0] /\ \E s : queue' = [queue EXCEPT ![job[th]].status = s]
      BY <1>6 DEF Complete, Fail, Settle
    <2>3. \A j \in DOMAIN queue : j # job[th] => queue'[j] = queue[j]
      BY <2>2
    <2>4. job'[th] = 0 /\ \A t \in Thread : t # th => job'[t] = job[t]
      BY <1>1, <2>2 DEF JobOK
    <2> QED BY <1>2, <2>1, <2>3, <2>4
  <1>7. ASSUME NEW th \in Thread, Raise(th) PROVE HeldInv'
    <2>1. queue' = queue /\ (job' = job \/ job' = [job EXCEPT ![th] = 0])
      BY <1>7 DEF Raise, storeVars
    <2>2. \A t \in Thread : job'[t] \in {0, job[t]}
      BY <1>1, <2>1 DEF JobOK
    <2> QED BY <2>1, <2>2
  <1>8. CASE Restart
    BY <1>8 DEF Restart, storeVars
  <1>9. CASE UNCHANGED <<queue, job>>
    BY <1>9
  <1>10. ASSUME NEW r \in Run, Admit(r) \/ DriverStep(r) PROVE HeldInv'
    <2>1. CASE Enqueue(r)
      BY <1>5, <2>1 DEF Enqueue
    <2> QED
      BY <1>9, <1>10, <2>1 DEF DriverStep, Admit, CheckDepth, CreateRun, storeVars
  <1>12. ASSUME NEW th \in Thread, WorkerStep(th) PROVE HeldInv'
    <2>1. CASE AutoEnqueue(th)
      <3>1. RunOf(th) \in Run
        BY <2>1, RunOfType DEF AutoEnqueue, Resume, AtWork
      <3> QED BY <1>5, <2>1, <3>1 DEF AutoEnqueue, Resume
    <2> QED
      BY <1>3, <1>4, <1>6, <1>9, <1>12, <2>1
         DEF WorkerStep, GateStep, Graph, Snapshot, InsertReview, LoadRun, SavePaused,
             OwnSave, AutoApprove, AutoSave, Mark, Leave, storeVars
  <1>13. CASE UNCHANGED vars
    BY <1>9, <1>13 DEF vars, storeVars, threadVars
  <1> QED BY <1>7, <1>8, <1>10, <1>12, <1>13 DEF Next

-----------------------------------------------------------------------------
(* The depth of the queue *)

Live(q) == {i \in DOMAIN q : q[i].status \in Active}

LEMMA DepthIsLive == Depth = Cardinality(Live(queue))
  BY DEF Depth, Live

LEMMA LiveFinite ==
  ASSUME NEW q \in Seq(Task)
  PROVE  IsFiniteSet(Live(q)) /\ Cardinality(Live(q)) \in Nat
  <1>1. DOMAIN q = 1 .. Len(q) /\ Len(q) \in Nat
    BY LenProperties
  <1>2. IsFiniteSet(1 .. Len(q))
    BY <1>1, FS_Interval
  <1>3. Live(q) \subseteq 1 .. Len(q)
    BY <1>1 DEF Live
  <1> QED BY <1>2, <1>3, FS_Subset, FS_CardinalityType

\* A task that is waiting or running was so before, unless it has been enqueued.
LEMMA LiveShrinks ==
  ASSUME Inv, HeldInv, NEW th \in Thread,
  Claim(th) \/ ClaimNothing(th) \/ Complete(th) \/ Fail(th)
  PROVE  Live(queue') \subseteq Live(queue)
  <1>1. QueueOK /\ JobOK /\ PcOK
    BY InvParts
  <1>2. ASSUME NEW L \in SUBSET Orphans, NEW j \in DOMAIN queue,
  Expired(L)[j].status \in Active
        PROVE  queue[j].status \in Active
    <2>1. CASE j \in L
      BY <2>1 DEF Orphans, Active
    <2>2. CASE j \notin L
      BY <1>1, <1>2, <2>2, ExpiredType
    <2> QED BY <2>1, <2>2
  <1>3. CASE Claim(th)
    <2>1. PICK i \in DOMAIN queue, L \in SUBSET Orphans :
            /\ Expired(L)[i].status \in Waiting
            /\ queue' = [Expired(L) EXCEPT ![i].status = "RUNNING", ![i].attempt = @ + 1]
            /\ DOMAIN queue' = DOMAIN queue
      BY <1>3, ClaimTask
    <2>2. DOMAIN Expired(L) = DOMAIN queue
      BY <1>1, ExpiredType
    <2>3. \A j \in DOMAIN queue : j # i => queue'[j] = Expired(L)[j]
      BY <2>1, <2>2
    <2>4. queue[i].status \in Active
      BY <1>2, <2>1 DEF Active
    <2> QED BY <1>2, <2>1, <2>3, <2>4 DEF Live
  <1>4. CASE ClaimNothing(th)
    <2>1. PICK L \in SUBSET Orphans : queue' = Expired(L)
      BY <1>4 DEF ClaimNothing
    <2>2. DOMAIN queue' = DOMAIN queue
      BY <1>1, <2>1, ExpiredType
    <2> QED BY <1>2, <2>1, <2>2 DEF Live
  <1>5. CASE Complete(th) \/ Fail(th)
    <2>1. job[th] \in DOMAIN queue /\ job[th] # 0
      BY <1>1, <1>5, LenProperties DEF JobOK, PcOK, Complete, Fail, Holding, Handler, QueueOK
    <2>2. queue[job[th]].status \in Active
      BY <2>1 DEF HeldInv, Active
    <2>3. PICK s : queue' = [queue EXCEPT ![job[th]].status = s]
      BY <1>5 DEF Complete, Fail, Settle
    <2>4. DOMAIN queue' = DOMAIN queue /\ \A j \in DOMAIN queue : j # job[th] => queue'[j] = queue[j]
      BY <2>3
    <2> QED BY <2>2, <2>4 DEF Live
  <1> QED BY <1>3, <1>4, <1>5

LEMMA DepthShrinks ==
  ASSUME Inv, HeldInv, NEW th \in Thread,
  Claim(th) \/ ClaimNothing(th) \/ Complete(th) \/ Fail(th)
  PROVE  Depth' <= Depth /\ Depth' \in Nat
  <1>1. Live(queue') \subseteq Live(queue)
    BY LiveShrinks
  <1>2. IsFiniteSet(Live(queue)) /\ queue \in Seq(Task)
    BY InvParts, LiveFinite DEF QueueOK
  <1>3. Cardinality(Live(queue')) <= Cardinality(Live(queue))
        /\ Cardinality(Live(queue')) \in Nat
    BY <1>1, <1>2, FS_Subset, FS_CardinalityType
  <1> QED BY <1>3 DEF Depth, Live

LEMMA DepthGrows ==
  ASSUME Inv, NEW r \in Run, queue' = Append(queue, NewTask(r))
  PROVE  Depth' = Depth + 1 /\ Depth' \in Nat
  <1>1. NewTask(r) \in Task /\ NewTask(r).status \in Active
    BY DEF NewTask, Task, Active, Waiting
  <1>2. /\ queue \in Seq(Task) /\ DOMAIN queue = 1 .. Len(queue) /\ Len(queue) \in Nat
        /\ DOMAIN queue' = 1 .. Len(queue) + 1
        /\ \A i \in 1 .. Len(queue) : queue'[i] = queue[i]
        /\ queue'[Len(queue) + 1] = NewTask(r)
    BY <1>1, InvParts, AppendTask DEF QueueOK
  <1>3. Live(queue') = Live(queue) \cup {Len(queue) + 1} /\ Len(queue) + 1 \notin Live(queue)
    BY <1>1, <1>2 DEF Live
  <1>4. IsFiniteSet(Live(queue)) /\ Cardinality(Live(queue)) \in Nat
    BY <1>2, LiveFinite
  <1>5. Cardinality(Live(queue')) = Cardinality(Live(queue)) + 1
    BY <1>3, <1>4, FS_AddElement
  <1>6. Depth' = Cardinality(Live(queue'))
    BY DEF Depth, Live
  <1> QED BY <1>4, <1>5, <1>6, DepthIsLive

\* Every admitted run that has passed the check may still enqueue one task.
DepthInv ==
    Depth + Cardinality(Checked) <= (MaxQueueDepth - 1) + MaxActiveRuns + resumes

LEMMA CheckedFinite ==
  ASSUME Inv, SlotsMatchDrivers
  PROVE  /\ IsFiniteSet(Checked) /\ Cardinality(Checked) \in Nat
         /\ Cardinality(Checked) <= MaxActiveRuns
  <1>1. Checked \subseteq active /\ active \subseteq Run
    BY InvParts DEF SlotsMatchDrivers, Checked, Inside, CountsOK
  <1>2. IsFiniteSet(active)
    BY <1>1, RunAssumption, FS_Subset
  <1>3. IsFiniteSet(Checked) /\ Cardinality(Checked) <= Cardinality(active)
    BY <1>1, <1>2, FS_Subset
  <1> QED
    BY <1>2, <1>3, LimitAssumption, FS_CardinalityType DEF SlotsMatchDrivers

LEMMA DepthType == ASSUME Inv PROVE Depth \in Nat
  BY InvParts, LiveFinite, DepthIsLive DEF QueueOK

\* A step that neither checks nor enqueues.
LEMMA DepthQuiet ==
  ASSUME Inv, SlotsMatchDrivers, DepthInv, Checked' \subseteq Checked,
         Depth' \in Nat,
         \/ Depth' <= Depth /\ resumes' = resumes
         \/ Depth' = Depth + 1 /\ resumes' = resumes + 1
  PROVE  DepthInv'
  <1>1. IsFiniteSet(Checked) /\ Cardinality(Checked) \in Nat
    BY CheckedFinite
  <1>2. Cardinality(Checked') <= Cardinality(Checked) /\ Cardinality(Checked') \in Nat
    BY <1>1, FS_Subset, FS_CardinalityType
  <1>3. Depth \in Nat /\ resumes \in Nat /\ MaxQueueDepth \in Nat /\ MaxActiveRuns \in Nat
    BY DepthType, InvParts, LimitAssumption DEF CountsOK
  <1> QED BY <1>1, <1>2, <1>3 DEF DepthInv

LEMMA CheckedStep ==
  ASSUME Inv, [Next]_vars, \A r \in Run : ~CheckDepth(r)
  PROVE  Checked' \subseteq Checked
  <1>1. PcOK
    BY InvParts
  <1> USE <1>1, RunsAndSlots DEF PcOK, Checked, Goto
  <1>2. ASSUME NEW r \in Run, Admit(r) \/ DriverStep(r) PROVE Checked' \subseteq Checked
    BY <1>2 DEF DriverStep, Admit, CreateRun, Enqueue
  <1>4. ASSUME NEW th \in Thread, Claim(th) \/ ClaimNothing(th) \/ Graph(th) \/ Snapshot(th)
        PROVE  Checked' \subseteq Checked
    BY <1>4 DEF Claim, ClaimNothing, Graph, Snapshot
  <1>3. ASSUME NEW th \in Thread, InsertReview(th) \/ LoadRun(th) \/ SavePaused(th)
        PROVE  Checked' \subseteq Checked
    BY <1>3 DEF InsertReview, LoadRun, SavePaused
  <1>5. ASSUME NEW th \in Thread, OwnSave(th) \/ AutoApprove(th) \/ AutoSave(th)
        PROVE  Checked' \subseteq Checked
    BY <1>5 DEF OwnSave, AutoApprove, AutoSave
  <1>6. ASSUME NEW th \in Thread, AutoEnqueue(th) PROVE Checked' \subseteq Checked
    BY <1>6 DEF AutoEnqueue, Resume
  <1>7. ASSUME NEW th \in Thread,
  Complete(th) \/ Fail(th) \/ Mark(th) \/ Leave(th) \/ Raise(th)
        PROVE  Checked' \subseteq Checked
    BY <1>7 DEF Complete, Fail, Mark, Leave, Raise
  <1>8. CASE Restart \/ UNCHANGED vars
    BY <1>8 DEF Restart, vars, threadVars
  <1> QED BY <1>2, <1>3, <1>4, <1>5, <1>6, <1>7, <1>8 DEF Next, WorkerStep, GateStep

LEMMA DepthStep ==
  ASSUME Inv, SlotsMatchDrivers, HeldInv, DepthInv, [Next]_vars
  PROVE  DepthInv'
  <1>1. Depth \in Nat /\ resumes \in Nat
    BY DepthType, InvParts DEF CountsOK
  <1>2. MaxQueueDepth \in Nat \ {0} /\ MaxActiveRuns \in Nat \ {0}
    BY LimitAssumption
  <1>3. ASSUME NEW r \in Run, CheckDepth(r) PROVE DepthInv'
    <2>1. Depth' = Depth /\ resumes' = resumes
      BY <1>3 DEF CheckDepth, storeVars, Depth
    <2>2. CASE Depth >= MaxQueueDepth
      <3>1. Checked' \subseteq Checked
        <4>1. PcOK
          BY InvParts
        <4> QED BY <1>3, <2>2, <4>1, RunsAndSlots DEF CheckDepth, PcOK, Checked, Goto
      <3> QED BY <1>1, <2>1, <3>1, DepthQuiet
    <2>3. CASE ~(Depth >= MaxQueueDepth)
      <3>1. SlotsMatchDrivers' /\ Inv'
        BY SlotsStep, InvStep
      <3>2. Cardinality(Checked') \in Nat /\ Cardinality(Checked') <= MaxActiveRuns
        <4>1. Checked' \subseteq active' /\ active' \subseteq Run
          BY <3>1 DEF SlotsMatchDrivers, Checked, Inside, Inv, TypeOK
        <4>2. IsFiniteSet(active')
          BY <4>1, RunAssumption, FS_Subset
        <4>3. Cardinality(Checked') <= Cardinality(active') /\ IsFiniteSet(Checked')
          BY <4>1, <4>2, FS_Subset
        <4>4. Cardinality(active') <= MaxActiveRuns
          BY <3>1 DEF SlotsMatchDrivers
        <4>5. Cardinality(active') \in Nat /\ Cardinality(Checked') \in Nat
          BY <4>2, <4>3, FS_CardinalityType
        <4> QED BY <1>2, <4>3, <4>4, <4>5
      <3> QED BY <1>1, <1>2, <2>1, <2>3, <3>2 DEF DepthInv
    <2> QED BY <2>2, <2>3
  <1>4. ASSUME NEW r \in Run, Enqueue(r) PROVE DepthInv'
    <2>1. Depth' = Depth + 1 /\ resumes' = resumes
      BY <1>4, DepthGrows DEF Enqueue
    <2>2. r \in Checked /\ Checked' = Checked \ {r}
      <3>1. PcOK
        BY InvParts
      <3> QED BY <1>4, <3>1, RunsAndSlots DEF Enqueue, PcOK, Checked, Goto
    <2>3. IsFiniteSet(Checked) /\ Cardinality(Checked) \in Nat
      BY CheckedFinite
    <2>4. Cardinality(Checked') = Cardinality(Checked) - 1
      BY <2>2, <2>3, FS_RemoveElement
    <2> QED BY <1>1, <1>2, <2>1, <2>3, <2>4 DEF DepthInv
  <1>5. ASSUME NEW r \in Run, queue' = Append(queue, NewTask(r)), resumes' = resumes + 1,
               Checked' \subseteq Checked
        PROVE  DepthInv'
    BY <1>1, <1>5, DepthGrows, DepthQuiet
  <1>6. ASSUME queue' = queue, resumes' = resumes, Checked' \subseteq Checked PROVE DepthInv'
    <2>1. Depth' = Depth
      BY <1>6 DEF Depth
    <2> QED BY <1>1, <1>6, <2>1, DepthQuiet
  <1>7. CASE \A r \in Run : ~CheckDepth(r) /\ ~Enqueue(r)
    <2>1. Checked' \subseteq Checked
      BY <1>7, CheckedStep
    <2>2. ASSUME NEW r \in Run, Admit(r) \/ DriverStep(r) PROVE DepthInv'
      BY <1>6, <1>7, <2>1, <2>2 DEF DriverStep, Admit, CreateRun, storeVars
    <2>4. ASSUME NEW th \in Thread, WorkerStep(th) PROVE DepthInv'
      <3>1. CASE AutoEnqueue(th)
        <4>1. RunOf(th) \in Run
          BY <3>1, RunOfType DEF AutoEnqueue, Resume, AtWork
        <4> QED BY <1>5, <2>1, <3>1, <4>1 DEF AutoEnqueue, Resume
      <3>2. CASE Claim(th) \/ ClaimNothing(th) \/ Complete(th) \/ Fail(th)
        <4>1. Depth' <= Depth /\ Depth' \in Nat
          BY <3>2, DepthShrinks
        <4>2. resumes' = resumes
          BY <3>2 DEF Claim, ClaimNothing, Complete, Fail
        <4> QED BY <2>1, <4>1, <4>2, DepthQuiet
      <3> QED
        BY <1>6, <2>1, <2>4, <3>1, <3>2
           DEF WorkerStep, GateStep, Graph, Snapshot, InsertReview, LoadRun, SavePaused,
               OwnSave, AutoApprove, AutoSave, Mark, Leave, storeVars
    <2>5. ASSUME NEW th \in Thread, Raise(th) PROVE DepthInv'
      BY <1>6, <2>1, <2>5 DEF Raise, storeVars
    <2>6. CASE Restart \/ UNCHANGED vars
      BY <1>6, <2>1, <2>6 DEF Restart, vars, storeVars
    <2> QED BY <2>2, <2>4, <2>5, <2>6 DEF Next
  <1> QED BY <1>3, <1>4, <1>7

\* Concurrent drivers overshoot max_queue_depth by less than the number of runs
\* admission lets in, and automatic approvals by one each.
THEOREM DepthOvershoot == Spec => []DepthOvershootBounded
  <1>1. Init => HeldInv /\ DepthInv
    <2> SUFFICES ASSUME Init PROVE HeldInv /\ DepthInv
      OBVIOUS
    <2>1. Live(queue) = {} /\ Checked = {}
      BY RunsAndSlots DEF Init, Live, Checked
    <2>2. Depth = 0 /\ Cardinality(Checked) = 0
      BY <2>1, FS_EmptySet, DepthIsLive
    <2>3. HeldInv
      BY DEF Init, HeldInv
    <2> QED BY <2>2, <2>3, LimitAssumption DEF Init, DepthInv
  <1>2. Inv /\ SlotsMatchDrivers /\ HeldInv /\ DepthInv => DepthOvershootBounded
    <2> SUFFICES ASSUME Inv, SlotsMatchDrivers, HeldInv, DepthInv PROVE DepthOvershootBounded
      OBVIOUS
    <2>1. Cardinality(Checked) \in Nat /\ Depth \in Nat /\ resumes \in Nat
      BY CheckedFinite, DepthType, InvParts DEF CountsOK
    <2> QED BY <2>1, LimitAssumption DEF DepthInv, DepthOvershootBounded
  <1>3. Inv /\ SlotsMatchDrivers /\ HeldInv /\ DepthInv /\ [Next]_vars => HeldInv' /\ DepthInv'
    BY HeldStep, DepthStep
  <1> QED BY <1>1, <1>2, <1>3, Invariance, SlotsExact, PTL DEF Spec
=============================================================================
