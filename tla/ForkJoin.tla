------------------------------- MODULE ForkJoin -------------------------------
(***************************************************************************)
(* ForkJoinExecutor.run: one group of read-only tasks with dependencies is *)
(* run in waves on a thread pool, under a deadline for the group and a     *)
(* timeout for each task, and the outputs are joined.                      *)
(*                                                                         *)
(* The collecting thread and the handlers run concurrently: a handler may  *)
(* return before or after it is given up, or never; the clock passes a     *)
(* timeout, and a caller asks for cancellation, at any moment.             *)
(***************************************************************************)
EXTENDS Naturals, Sequences, FiniteSets

CONSTANTS
    Tasks,            \* number of tasks of the group
    Keys, Values,     \* what handlers may output
    NoValue,          \* a key that is not output, or not merged
    Limit             \* min(group.max_concurrency, self.max_concurrency)

ASSUME TasksAssumption == Tasks \in Nat \ {0} /\ Limit \in Nat \ {0}
ASSUME ValueAssumption == NoValue \notin Values

\* Tasks are numbered in the order of their names.
Task == 1 .. Tasks

VARIABLES
    deps,        \* task.dependencies of the group, chosen by the caller
    stack,       \* calls of visit() under way, innermost last: `visiting`
    visited,
    pc,          \* where run() is
    results,     \* the BranchResult status of each task, "none" until it has one
    handler,     \* what the thread of each task is doing
    output,      \* what each handler that returned has returned
    wave,        \* tasks of the wave
    collected,   \* done_set: tasks whose future wait() has returned
    timedOut,    \* timed_out
    cancelled,   \* cancel_event is set
    late,        \* the group deadline has passed
    expired,     \* started tasks whose own timeout has passed
    joined       \* the ForkJoinResult

search == <<stack, visited>>
clock == <<cancelled, late, expired>>
vars == <<deps, search, pc, results, handler, output, wave, collected, timedOut, clock, joined>>

BranchStatus == {"SUCCEEDED", "FAILED", "TIMED_OUT", "CANCELLED", "SKIPPED"}
Outputs == [Keys -> Values \cup {NoValue}]
Silent  == [k \in Keys |-> NoValue]
NotJoined == [status |-> "none", merged |-> Silent, conflicts |-> {}]

Init ==
    /\ deps \in [Task -> SUBSET Task]
    /\ stack = <<>> /\ visited = {}
    /\ pc = "validate"
    /\ results = [t \in Task |-> "none"]
    /\ handler = [t \in Task |-> "idle"]
    /\ output = [t \in Task |-> Silent]
    /\ wave = {} /\ collected = {} /\ timedOut = {}
    /\ cancelled = FALSE /\ late = FALSE /\ expired = {}
    /\ joined = NotJoined

-----------------------------------------------------------------------------
(* _validate_group: the depth-first search of _assert_acyclic, call by     *)
(* call.  Dependencies are visited in any order.                           *)

Visiting == {stack[i] : i \in DOMAIN stack}
Innermost == stack[Len(stack)]

\* What is to be visited next: the dependencies of the call under way.
Callees == IF stack = <<>> THEN Task ELSE deps[Innermost]

runVars == <<deps, results, handler, output, wave, collected, timedOut, clock, joined>>

Visit(t) ==
    /\ pc = "validate" /\ t \in Callees \ (Visiting \cup visited)
    /\ stack' = Append(stack, t)
    /\ UNCHANGED <<visited, pc, runVars>>

\* Mutant of Leave: a call returns without a look at what is being visited.
LeaveUnchecked ==
    /\ pc = "validate" /\ stack # <<>> /\ Callees \subseteq Visiting \cup visited
    /\ stack' = SubSeq(stack, 1, Len(stack) - 1)
    /\ visited' = visited \cup {Innermost}
    /\ UNCHANGED <<pc, runVars>>

Leave ==
    /\ pc = "validate" /\ stack # <<>> /\ Callees \subseteq visited
    /\ stack' = SubSeq(stack, 1, Len(stack) - 1)
    /\ visited' = visited \cup {Innermost}
    /\ UNCHANGED <<pc, runVars>>

Refuse ==
    /\ pc = "validate" /\ Callees \cap Visiting # {}
    /\ pc' = "refused"
    /\ UNCHANGED <<stack, visited, runVars>>

Accept ==
    /\ pc = "validate" /\ stack = <<>> /\ Task \subseteq visited
    /\ pc' = "plan"
    /\ UNCHANGED <<stack, visited, runVars>>

Validate == (\E t \in Task : Visit(t)) \/ Leave \/ Refuse \/ Accept

-----------------------------------------------------------------------------
(* run: the loop over waves *)

Pending == {t \in Task : results[t] = "none"}

\* Mutant of Ready: one dependency that has succeeded is enough.
ReadyAfterAny ==
    {t \in Pending : deps[t] # {} => \E d \in deps[t] : results[d] = "SUCCEEDED"}

\* Mutant of Blocked: a dependency that has no result yet blocks as well.
BlockedByPending == {t \in Pending : \E d \in deps[t] : results[d] # "SUCCEEDED"}

Ready   == {t \in Pending : \A d \in deps[t] : results[d] = "SUCCEEDED"}
Blocked == {t \in Pending : \E d \in deps[t] : results[d] \notin {"none", "SUCCEEDED"}}

\* Give every task of S a result.
Decide(S, status) == [t \in Task |-> IF t \in S THEN status ELSE results[t]]

CancelPending ==
    /\ pc = "plan" /\ Pending # {} /\ cancelled
    /\ results' = Decide(Pending, "CANCELLED")
    /\ pc' = "join"
    /\ UNCHANGED <<deps, search, handler, output, wave, collected, timedOut, clock, joined>>

\* Nothing can run any more, or nothing is left.
SkipPending ==
    /\ pc = "plan" /\ Ready = {}
    /\ Pending # {} => ~cancelled
    /\ results' = Decide(Pending, "SKIPPED")
    /\ pc' = "join"
    /\ UNCHANGED <<deps, search, handler, output, wave, collected, timedOut, clock, joined>>

\* A wave is as many ready tasks as may run; past the deadline it is not run.
StartWave ==
    /\ pc = "plan" /\ Ready # {} /\ ~cancelled
    /\ \E W \in SUBSET Ready :
        /\ Cardinality(W) = (IF Cardinality(Ready) < Limit THEN Cardinality(Ready) ELSE Limit)
        /\ IF late
           THEN /\ results' = [t \in Task |-> IF t \in W THEN "TIMED_OUT"
                                              ELSE Decide(Blocked, "SKIPPED")[t]]
                /\ UNCHANGED <<pc, handler, wave>>
           ELSE /\ results' = Decide(Blocked, "SKIPPED")
                /\ handler' = [t \in Task |-> IF t \in W THEN "running" ELSE handler[t]]
                /\ wave' = W
                /\ pc' = "wait"
    /\ collected' = {} /\ timedOut' = {}
    /\ UNCHANGED <<deps, search, output, clock, joined>>

-----------------------------------------------------------------------------
(* _run_wave: collecting futures *)

Finished     == {t \in Task : handler[t] \in {"returned", "raised"}}
\* Mutant of Uncollected: a task given up is not waited for.
UncollectedInTime == (wave \ collected) \ timedOut

Uncollected  == wave \ collected

\* wait(..., FIRST_COMPLETED) returned futures that are done.
Gather ==
    /\ pc = "wait" /\ Uncollected \cap Finished # {}
    /\ collected' = collected \cup (wave \cap Finished)
    /\ UNCHANGED <<deps, search, pc, results, handler, output, wave, timedOut, clock, joined>>

\* wait() timed out.  A task given up stays among the futures waited for.
GiveUp ==
    /\ pc = "wait" /\ Uncollected # {} /\ ~late
    /\ timedOut' = timedOut \cup (Uncollected \cap expired)
    /\ UNCHANGED <<deps, search, pc, results, handler, output, wave, collected, clock, joined>>

\* Mutant of GiveUpAll: past the deadline too, only its own timeout counts.
GiveUpExpired ==
    /\ pc = "wait" /\ Uncollected # {} /\ late
    /\ timedOut' = timedOut \cup (Uncollected \cap expired)
    /\ UNCHANGED <<deps, search, pc, results, handler, output, wave, collected, clock, joined>>

GiveUpAll ==
    /\ pc = "wait" /\ Uncollected # {} /\ late
    /\ timedOut' = timedOut \cup Uncollected
    /\ pc' = "settle"
    /\ UNCHANGED <<deps, search, results, handler, output, wave, collected, clock, joined>>

AllCollected ==
    /\ pc = "wait" /\ Uncollected = {}
    /\ pc' = "settle"
    /\ UNCHANGED <<deps, search, results, handler, output, wave, collected, timedOut, clock, joined>>

\* A task given up is TIMED_OUT even if its handler has returned since.
Outcome(t) ==
    IF t \in timedOut THEN "TIMED_OUT"
    ELSE IF t \notin collected THEN "CANCELLED"
    ELSE IF handler[t] = "returned" THEN "SUCCEEDED" ELSE "FAILED"

Settle ==
    /\ pc = "settle"
    /\ results' = [t \in Task |-> IF t \in wave THEN Outcome(t) ELSE results[t]]
    /\ wave' = {} /\ collected' = {} /\ timedOut' = {}
    /\ pc' = "plan"
    /\ UNCHANGED <<deps, search, handler, output, clock, joined>>

-----------------------------------------------------------------------------
(* _join *)

Nothing == [value |-> NoValue, conflict |-> FALSE]

\* Mutant of MergeBranch: a conflict is forgotten when the next branch comes.
MergeBranchForgetful(acc, t, k) ==
    LET v == output[t][k] IN
    IF results[t] # "SUCCEEDED" \/ v = NoValue THEN acc
    ELSE IF acc.value \notin {NoValue, v} THEN [value |-> NoValue, conflict |-> TRUE]
    ELSE [value |-> v, conflict |-> FALSE]

\* A value two branches disagree on is withdrawn for good.
MergeBranch(acc, t, k) ==
    LET v == output[t][k] IN
    IF results[t] # "SUCCEEDED" \/ v = NoValue \/ acc.conflict THEN acc
    ELSE IF acc.value \notin {NoValue, v} THEN [value |-> NoValue, conflict |-> TRUE]
    ELSE [value |-> v, conflict |-> FALSE]

\* One key, branch after branch in the order of their names.
MergeUpTo(k) ==
    LET after[n \in 0 .. Tasks] ==
            IF n = 0 THEN Nothing ELSE MergeBranch(after[n - 1], n, k)
    IN  after

Merging(k) == MergeUpTo(k)[Tasks]

Unsuccessful == {t \in Task : results[t] # "SUCCEEDED"}

\* Which tasks are required matters here only.
JoinedStatus(required, conflicts) ==
    IF conflicts # {} \/ required \cap Unsuccessful # {} THEN "BLOCKED"
    ELSE IF Unsuccessful # {} THEN "PARTIAL"
    ELSE "COMPLETED"

Join ==
    /\ pc = "join"
    /\ \E required \in SUBSET Task :
        LET conflicts == {k \in Keys : Merging(k).conflict} IN
        joined' = [status |-> JoinedStatus(required, conflicts),
                   merged |-> [k \in Keys |-> Merging(k).value],
                   conflicts |-> conflicts]
    /\ pc' = "done"
    /\ UNCHANGED <<deps, search, results, handler, output, wave, collected, timedOut, clock>>

-----------------------------------------------------------------------------
(* Handlers, the caller and the clock *)

HandlerReturns(t) ==
    /\ handler[t] = "running"
    /\ handler' = [handler EXCEPT ![t] = "returned"]
    /\ \E o \in Outputs : output' = [output EXCEPT ![t] = o]
    /\ UNCHANGED <<deps, search, pc, results, wave, collected, timedOut, clock, joined>>

\* It raises, or returns what is not a mapping.
HandlerRaises(t) ==
    /\ handler[t] = "running"
    /\ handler' = [handler EXCEPT ![t] = "raised"]
    /\ UNCHANGED <<deps, search, pc, results, output, wave, collected, timedOut, clock, joined>>

Running == pc \notin {"validate", "refused", "done"}

CancelRequested ==
    /\ Running /\ ~cancelled
    /\ cancelled' = TRUE
    /\ UNCHANGED <<deps, search, pc, results, handler, output, wave, collected, timedOut, late, expired, joined>>

DeadlinePasses ==
    /\ Running /\ ~late
    /\ late' = TRUE
    /\ UNCHANGED <<deps, search, pc, results, handler, output, wave, collected, timedOut, cancelled, expired, joined>>

TimeoutPasses(t) ==
    /\ pc = "wait" /\ t \in wave \ expired
    /\ expired' = expired \cup {t}
    /\ UNCHANGED <<deps, search, pc, results, handler, output, wave, collected, timedOut, cancelled, late, joined>>

Collector ==
    \/ Validate
    \/ CancelPending \/ SkipPending \/ StartWave
    \/ Gather \/ GiveUp \/ GiveUpAll \/ AllCollected
    \/ Settle \/ Join

Next ==
    \/ Collector
    \/ \E t \in Task : HandlerReturns(t) \/ HandlerRaises(t) \/ TimeoutPasses(t)
    \/ CancelRequested \/ DeadlinePasses

Spec == Init /\ [][Next]_vars

\* The collecting thread runs and time passes; handlers may hang.
Fairness == WF_vars(Collector) /\ WF_vars(DeadlinePasses)

FairSpec == Spec /\ Fairness
=============================================================================
