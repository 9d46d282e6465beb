-------------------------- MODULE RunDriverProperties --------------------------
(***************************************************************************)
(* What the web driver guarantees about admission, the queue and runs, and *)
(* what its documentation says of a run that its interleavings refute.     *)
(***************************************************************************)
EXTENDS RunDriver

Labels == {"new", "depth", "create", "enqueue", "claim", "fail", "mark", "leave", "done"}
              \cup Handler

Holding == {"fail"} \cup Handler

\* The type of every variable; a thread holds a task of the queue exactly
\* inside the worker step.
TypeOK ==
    /\ active \subseteq Run
    /\ queue \in Seq([run : Run, status : Active \cup {"SUCCEEDED", "FAILED"}, attempt : Nat])
    /\ control \in [Run -> {"NONE", "RUNNABLE", "RUNNING", "COMPLETED"}]
    /\ state \in [Run -> States]
    /\ session \in [Run -> States]
    /\ reviews \in [Run -> Nat]
    /\ pc \in [Thread -> Labels]
    /\ bound \in [Slot -> Run \cup {NoRun}]
    /\ job \in [Thread -> Nat]
    /\ copy \in [Thread -> States]
    /\ loaded \in [Thread -> States]
    /\ ran \subseteq Run
    /\ resumes \in Nat /\ faults \in Nat
    /\ \A th \in Thread :
        job[th] \in (IF pc[th] \in Holding THEN DOMAIN queue ELSE {0})

-----------------------------------------------------------------------------
(* Safety *)

\* The drivers between admission and the end of their lease, and those past it.
Inside == {r \in Run : pc[r] \notin {"new", "done"}}
Departed == {r \in Run : pc[r] = "done"}

\* RUN_ADMISSION holds a slot for exactly the drivers that are inside: whatever
\* raises, and wherever the server dies, no slot leaks and none is given twice.
SlotsMatchDrivers == active = Inside /\ Cardinality(active) <= MaxActiveRuns

\* Drivers that have read the depth and not yet enqueued their task.
Checked == {r \in Run : pc[r] \in {"create", "enqueue"}}

\* The depth is checked long before the enqueue and not again.  What that costs
\* is bounded: concurrent drivers exceed max_queue_depth by less than the number
\* of admitted runs, and automatic approvals, which check nothing, by one each.
DepthOvershootBounded == Depth <= MaxQueueDepth + (MaxActiveRuns - 1) + resumes

\* Although a worker step may be given another run's task, a run is marked
\* COMPLETED only after its own graph has run.
CompletedRunRan == \A r \in Run : control[r] = "COMPLETED" => r \in ran

\* The threads of a run: its driver and the resume threads started for it.
Own(r) == {th \in Thread : RunOf(th) = r}

\* Until the handler has approved or paused its run.
Early == {"new", "depth", "create", "enqueue", "claim", "graph", "snapshot", "gates",
          "autoSave", "autoEnqueue"}
Pausing == {"reviewLoad", "reviewSave", "ownSave"}

\* The handlers of one run take turns on its session and its row, although each
\* thread has a worker that claims tasks of any run: a resume thread begins only
\* when the handler that started it has nothing left to save.
HandlersTakeTurns == \A r \in Run :
    \A t, u \in Own(r) :
        pc[t] \in Early \cup Pausing /\ pc[u] \in Early \cup Pausing => t = u

\* A safety stop that was handed to a human stays one: once a review of a run is
\* open no thread runs its graph or approves it, even where the call that opened
\* the review failed half way and its task is handed out again.
ReviewedRunRests == \A r \in Run :
    reviews[r] > 0 => reviews[r] = 1 /\ \A th \in Own(r) : pc[th] \notin Early

-----------------------------------------------------------------------------
(* Action properties *)

\* The grants of an automatic approval leave a run only in the snapshot of a
\* session that was not told of them.  No other save takes them away: not that
\* of a thread that holds the run's task for another run, and none of the two
\* blind saves that pause a run, of a reloaded and of a kept state.
GrantsLostOnlyUntold == [][
    \A r \in Run : state[r].granted /\ ~state'[r].granted
        => ~session[r].granted /\ \E th \in Own(r) : pc[th] = "snapshot"
    ]_vars

-----------------------------------------------------------------------------
(* Refinement *)

\* Drivers, seen only by where they are, take turns as BoundedSlots says.
Slots == INSTANCE BoundedSlots WITH
    Holder <- Run,
    Limit  <- MaxActiveRuns,
    inside <- Inside,
    left   <- Departed
SlotsSpec == Slots!Spec

-----------------------------------------------------------------------------
(* What the documentation says *)

\* web.py: "Run one isolated, durable workflow and return generated agent
\* messages": a task that succeeded did the work of its own run.
RunsAreIsolated == \A i \in DOMAIN queue :
    queue[i].status = "SUCCEEDED" => queue[i].run \in ran
=============================================================================
