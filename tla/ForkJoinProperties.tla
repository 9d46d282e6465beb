-------------------------- MODULE ForkJoinProperties --------------------------
(***************************************************************************)
(* What a fork/join run guarantees, whenever handlers return and whatever  *)
(* the clock and the caller do meanwhile.                                  *)
(***************************************************************************)
EXTENDS ForkJoin

Labels == {"validate", "refused", "plan", "wait", "settle", "join", "done"}

Conclusions == {"none", "COMPLETED", "PARTIAL", "BLOCKED"}

\* The type of every variable; futures exist for the tasks of the wave only.
TypeOK ==
    /\ deps \in [Task -> SUBSET Task]
    /\ stack \in Seq(Task) /\ visited \subseteq Task
    /\ pc \in Labels
    /\ results \in [Task -> BranchStatus \cup {"none"}]
    /\ handler \in [Task -> {"idle", "running", "returned", "raised"}]
    /\ output \in [Task -> Outputs]
    /\ wave \subseteq Task /\ collected \subseteq wave /\ timedOut \subseteq wave
    /\ cancelled \in BOOLEAN /\ late \in BOOLEAN /\ expired \subseteq Task
    /\ joined \in [status : Conclusions, merged : Outputs, conflicts : SUBSET Keys]

-----------------------------------------------------------------------------
(* Safety *)

Cycle == \E S \in SUBSET Task : S # {} /\ \A t \in S : deps[t] \cap S # {}

\* The depth-first search refuses a group exactly if its tasks wait for one
\* another in a circle.
RefusedIffCyclic ==
    /\ pc = "refused" => Cycle
    /\ pc \notin {"validate", "refused"} => ~Cycle

\* "Run read-only branches with bounded concurrency": handlers that were given
\* up and still run count, and a new wave never comes on top of them.
ConcurrencyBounded == Cardinality({t \in Task : handler[t] = "running"}) <= Limit

\* A handler runs only behind dependencies that have all succeeded, and what it
\* was given of them is never taken back: run() decides a task once.
StartedAfterDependencies ==
    \A t \in Task : handler[t] # "idle" => \A d \in deps[t] : results[d] = "SUCCEEDED"

\* The tasks t waits for, directly or not: those in every set that has its
\* dependencies and, of whatever it has, the dependencies too.
Upstream(t) == {u \in Task : \A S \in SUBSET Task :
    deps[t] \subseteq S /\ (\A s \in S : deps[s] \subseteq S) => u \in S}

\* A task is skipped only behind one that failed, timed out or was cancelled,
\* however far upstream: never because waves ran out.
SkippedBehindFailure ==
    \A t \in Task : results[t] = "SKIPPED" =>
        \E u \in Upstream(t) : results[u] \in {"FAILED", "TIMED_OUT", "CANCELLED"}

Succeeded == {t \in Task : results[t] = "SUCCEEDED"}

Offered(k) == {output[t][k] : t \in Succeeded} \ {NoValue}

\* The join is fail-closed and does not depend on the order of its branches: a
\* key is merged exactly if the succeeded branches that have it agree, withheld
\* exactly if they do not, and the group is COMPLETED only if every task has
\* succeeded and none contradicts another.
JoinIsFailClosed == pc = "done" =>
    /\ \A t \in Task : results[t] # "none"
    /\ joined.conflicts = {k \in Keys : Cardinality(Offered(k)) > 1}
    /\ \A k \in Keys : joined.merged[k] =
            IF Cardinality(Offered(k)) = 1 THEN CHOOSE v \in Offered(k) : TRUE ELSE NoValue
    /\ joined.status = "COMPLETED" => Succeeded = Task /\ joined.conflicts = {}

-----------------------------------------------------------------------------
(* Liveness *)

\* The group's deadline bounds the run: it ends even if every handler hangs.
RunEnds == <>(pc \in {"refused", "done"})
=============================================================================
