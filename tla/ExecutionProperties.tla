------------------------- MODULE ExecutionProperties -------------------------
(***************************************************************************)
(* What the executors guarantee about a repository and its host, whatever  *)
(* expires, fails or dies on the way.                                      *)
(***************************************************************************)
EXTENDS Execution

Results == {"none", "VALIDATED", "PARTIAL", "BLOCKED", "FAILED", "PUBLISHED", "PARTIALLY_PUBLISHED"}

\* The type of every variable.
TypeOK ==
    /\ repo \in Repositories
    /\ host \in Hosts
    /\ call \in Calls
    /\ op \in Ops
    /\ checked \in BOOLEAN /\ live \in BOOLEAN
    /\ snapshot \in Content \cup {"none"}
    /\ status \in Results
    /\ before \in [repo : Repositories, host : Hosts]
    /\ seen \in Histories
    /\ calls \in 0 .. MaxCalls /\ faults \in 0 .. MaxFaults

\* "Authorization is enforced by PublicationExecutor immediately before each
\* mutating operation" (adapters.py): the check does not cover the operation it
\* precedes, but an expired grant lets through one operation of a call at most.
AtMostOneLateEffect == seen.late <= 1

\* BLOCKED and FAILED are answers about this machine only: nothing was pushed
\* and no pull request opened, not even by an operation that answered too late.
FailureIsLocal == status \in {"BLOCKED", "FAILED"} => host = before.host

\* The fix reaches a branch, here or at the host, only when tests have passed on
\* it, or after a call that reported it untested or died before it could.
UntestedFixIsExcused ==
    \/ seen.passed \/ seen.excused
    \/ "fixed" \notin {repo.refs[b] : b \in Branch} \cup {host.topic}

\* A publication that is retried opens no second pull request for one commit.
OnePullRequestPerCommit == host.prs <= seen.commits

-----------------------------------------------------------------------------
(* Action properties: what a call has done when it returns *)

Returns(results) == op # "idle" /\ op' = "idle" /\ status' \in results

\* local_demo.py: "Rolls back the applied change when validation fails": a call
\* that ends FAILED or BLOCKED leaves the approved file as it found it, unless
\* its own test run deleted the file, which the rollback does not bring back.
FailureRestoresFile ==
    [][Returns({"BLOCKED", "FAILED"})
        => \/ repo'.file = before.repo.file
           \/ op = "rollback" /\ repo.file = "removed" /\ repo' = repo]_vars

\* A call that ends PUBLISHED on the branch of its plan has made a commit there
\* and the host's branch holds it.
PublishedIsPushed ==
    [][Returns({"PUBLISHED"}) /\ before.repo.head = "topic"
        => /\ host'.topic = repo'.refs["topic"]
           /\ host'.topic # before.repo.refs["topic"]]_vars
=============================================================================
