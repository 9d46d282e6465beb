---------------------------- MODULE TaskLifecycle ----------------------------
(***************************************************************************)
(* What the durable task queue promises about one task, seen from outside: *)
(* no workers, no leases, no clocks and no gap between reading a row and   *)
(* writing it back.  A task is enqueued once, is claimed only while its    *)
(* run may execute, spends one attempt per claim, and stores a result only *)
(* for the attempt that is current when the result is stored.              *)
(*                                                                         *)
(* DurableQueue implements this module; see Lifecycle there.  The two      *)
(* Overwrite actions are not a wish: defer_task and cancel_task write the  *)
(* row by task_id alone, so a worker that read its lease before losing it  *)
(* can still put a task back, or cancel it, whatever the task became.      *)
(***************************************************************************)
EXTENDS Naturals

CONSTANTS Task,          \* task identities
          Run,           \* run identities
          RunOf,         \* the run each task belongs to
          ControlStatus  \* values of run_controls.status

VARIABLES status,        \* status column of each task
          attempt,       \* attempt_count column of each task
          result,        \* the attempt whose result is stored, 0 for none
          control        \* run_controls.status of each run

vars == <<status, attempt, result, control>>

Waiting    == {"PENDING", "RETRY_WAIT"}
Executable == {"RUNNABLE", "RUNNING"}

-----------------------------------------------------------------------------
(* One task, one step: its row before and after.  Rows of several tasks    *)
(* change together (a claim first expires every lapsed lease, cancelling a *)
(* run cancels all its waiting tasks), so Next quantifies over all tasks.  *)

Stays(t) ==
    /\ status'[t] = status[t]
    /\ attempt'[t] = attempt[t]
    /\ result'[t] = result[t]

Moves(t, from, to) ==
    /\ status[t] \in from
    /\ status'[t] = to
    /\ attempt'[t] = attempt[t]
    /\ result'[t] = result[t]

Enqueued(t) == Moves(t, {"NONE"}, "PENDING")

\* A waiting task, or a running one whose lease has lapsed, starts an attempt.
Claimed(t) ==
    /\ status[t] \in Waiting \cup {"RUNNING"}
    /\ control[RunOf[t]] \in Executable
    /\ status'[t] = "RUNNING"
    /\ attempt'[t] = attempt[t] + 1
    /\ result'[t] = result[t]

\* The result stored is the current attempt's, never an earlier one's.
Succeeded(t) ==
    /\ status[t] = "RUNNING"
    /\ status'[t] = "SUCCEEDED"
    /\ attempt'[t] = attempt[t]
    /\ result'[t] = attempt[t]

Failed(t) == Moves(t, {"RUNNING"}, "FAILED")

Requeued(t) == Moves(t, {"RUNNING"}, "RETRY_WAIT")

CancelledWaiting(t) == Moves(t, Waiting, "CANCELLED")

\* An unfenced release by a worker that once held the task.
Overwritten(t) ==
    /\ attempt[t] > 0
    /\ \/ Moves(t, {status[t]}, "RETRY_WAIT")
       \/ Moves(t, {status[t]}, "CANCELLED")

TaskStep(t) ==
    \/ Stays(t)      \/ Enqueued(t) \/ Claimed(t)  \/ Succeeded(t)
    \/ Failed(t)     \/ Requeued(t) \/ CancelledWaiting(t)
    \/ Overwritten(t)

\* At most one task starts an attempt in one step.
OneClaim == \A t, u \in Task :
    attempt'[t] # attempt[t] /\ attempt'[u] # attempt[u] => t = u

Init ==
    /\ status = [t \in Task |-> "NONE"]
    /\ attempt = [t \in Task |-> 0]
    /\ result = [t \in Task |-> 0]
    /\ control = [r \in Run |-> "RUNNABLE"]

Next ==
    /\ \A t \in Task : TaskStep(t)
    /\ OneClaim
    /\ \A r \in Run : control'[r] \in ControlStatus

Spec == Init /\ [][Next]_vars
=============================================================================
