------------------------------ MODULE Execution ------------------------------
(***************************************************************************)
(* The executors that change a repository: ControlledEngineeringExecutor   *)
(* (apply a change, test it, roll it back), PublicationExecutor (commit,   *)
(* push, open a pull request) and the golden path of local_demo.py, which  *)
(* seeds a repository, runs the engineering executor and commits the fix   *)
(* on a branch of its own.                                                 *)
(*                                                                         *)
(* Every call asks for its grant before each adapter call and holds none   *)
(* across it, so a grant may expire between the question and the effect.   *)
(* Calls follow one another on one repository; the process may die inside  *)
(* one, an adapter may report a failure of what it has done, and the tests *)
(* may delete the file they test.                                          *)
(***************************************************************************)
EXTENDS Naturals

CONSTANTS
    MaxCalls,      \* bound: calls of an executor
    MaxFaults      \* bound: deaths of the process, failures of git, tests that
                   \* delete what they test

ASSUME BoundAssumption == MaxCalls \in Nat /\ MaxFaults \in Nat

VARIABLES
    repo,      \* the repository: see Repositories
    host,      \* the remote head branch, and the pull requests opened
    call,      \* which executor was called last
    op,        \* the adapter call it is at, "idle" outside a call
    checked,   \* it has been granted
    live,      \* the grants of the call have not expired
    snapshot,  \* LocalDemoCodeChangeAdapter._snapshot, "none" if empty
    status,    \* the result of the call, "none" until it has one
    before,    \* repository and host when the call began
    seen,      \* history: see Histories
    calls, faults

step == <<call, op, checked, live, snapshot, status, before>>
vars == <<repo, host, step, seen, calls, faults>>

\* The approved file with the defect, with the fix, or not there.
Content == {"defect", "fixed", "removed"}
Branch  == {"main", "topic"}

\* Approved file in the working tree and in the index, whether another file has
\* been changed, the branch checked out, and the file on each branch, "missing"
\* where there is no such branch.
Repositories == [file : Content, index : Content, stray : BOOLEAN, head : Branch,
                 refs : [Branch -> Content \cup {"missing"}]]

Hosts == [topic : Content \cup {"missing"}, prs : Nat]

\* Mutating adapter calls of this call made after its grant expired; whether
\* tests have passed on the fix; whether a call left the fix untested and said
\* so, or died; commits that publications made.
Histories == [late : Nat, passed : BOOLEAN, excused : BOOLEAN, commits : Nat]

Calls   == {"engineer", "golden", "publish"}
Guarded == {"preflight", "apply", "test", "commit", "push", "create", "verify"}
Ops     == Guarded \cup {"seed", "rollback", "demoCommit", "idle"}

Init ==
    /\ repo = [file |-> "defect", index |-> "defect", stray |-> FALSE, head |-> "main",
               refs |-> [b \in Branch |-> IF b = "main" THEN "defect" ELSE "missing"]]
    /\ host = [topic |-> "missing", prs |-> 0]
    /\ call = "engineer" /\ op = "idle" /\ checked = TRUE /\ live = FALSE
    /\ snapshot = "none" /\ status = "none"
    /\ before = [repo |-> repo, host |-> host]
    /\ seen = [late |-> 0, passed |-> FALSE, excused |-> FALSE, commits |-> 0]
    /\ calls = 0 /\ faults = 0

-----------------------------------------------------------------------------
(* Building blocks *)

\* Mutant of Goto: the grant is checked once, before the first adapter call.
GotoCheckedOnce(o) == op' = o /\ checked' = (o # "preflight")

\* A guarded adapter call is preceded by a check of the grant.
Goto(o) == op' = o /\ checked' = (o \notin Guarded)

Finish(result) == Goto("idle") /\ status' = result

At(o) == op = o /\ checked

\* Continue, or return a result.
Then(o) == Goto(o) /\ status' = status

Fault == faults < MaxFaults /\ faults' = faults + 1
NoFault == faults' = faults

\* What a mutating adapter call adds to the history.
Effect == [seen EXCEPT !.late = @ + (IF live THEN 0 ELSE 1)]

Kept == <<call, live, before, calls>>

-----------------------------------------------------------------------------
(* Calls and grants *)

\* A caller hands over a state with a grant, or without.  The demo grant of the
\* golden path has no expiry.
Start(c) ==
    /\ op = "idle" /\ calls < MaxCalls
    /\ call' = c /\ calls' = calls + 1
    /\ Goto(IF c = "golden" THEN "seed" ELSE "preflight")
    /\ live' \in (IF c = "golden" THEN {TRUE} ELSE BOOLEAN)
    /\ status' = "none" /\ snapshot' = "none"
    /\ before' = [repo |-> repo, host |-> host]
    /\ seen' = [seen EXCEPT !.late = 0]
    /\ UNCHANGED <<repo, host, faults>>

Expire ==
    /\ op # "idle" /\ call # "golden" /\ live
    /\ live' = FALSE
    /\ UNCHANGED <<repo, host, call, op, checked, snapshot, status, before, seen, calls, faults>>

\* What a call that lost its grant before an operation returns.
Expired(o) ==
    CASE o \in {"preflight", "apply", "commit"} -> "BLOCKED"
      [] o = "test" -> "PARTIAL"
      [] o \in {"push", "create", "verify"} -> "PARTIALLY_PUBLISHED"

\* A change left in the tree without a test is reported PARTIAL.
Excused(result) == [seen EXCEPT !.excused = @ \/ result = "PARTIAL"]

Check ==
    /\ op \in Guarded /\ ~checked
    /\ IF live THEN checked' = TRUE /\ UNCHANGED <<op, status, seen>>
               ELSE Finish(Expired(op)) /\ seen' = Excused(Expired(op))
    /\ UNCHANGED <<repo, host, snapshot, Kept, faults>>

\* The plan is not authorised, or its scope not verified or not relative.
PlanRefused ==
    /\ At("preflight") /\ call # "golden"
    /\ Finish("BLOCKED")
    /\ UNCHANGED <<repo, host, snapshot, seen, Kept, faults>>

\* git status must name no path outside the scope, and must answer.
Preflight ==
    /\ At("preflight")
    /\ \/ ~repo.stray /\ Then(IF call = "publish" THEN "commit" ELSE "apply") /\ NoFault
       \/ repo.stray /\ Finish("BLOCKED") /\ NoFault
       \/ Fault /\ Finish("BLOCKED")
    /\ UNCHANGED <<repo, host, snapshot, seen, Kept>>

-----------------------------------------------------------------------------
(* Engineering *)

\* LocalDemoCodeChangeAdapter.apply: the defect must be there, and in scope.
Apply ==
    /\ At("apply")
    /\ \/ /\ repo.file = "defect"
          /\ snapshot' = repo.file
          /\ repo' = [repo EXCEPT !.file = "fixed"]
          /\ seen' = Effect
          /\ Then("test")
       \/ /\ repo.file # "defect" \/ call = "engineer"
          /\ Finish("FAILED")
          /\ UNCHANGED <<repo, snapshot, seen>>
    /\ UNCHANGED <<host, Kept, faults>>

\* SubprocessTestRunner.run: the command may delete the approved file.
TestRun ==
    \/ UNCHANGED repo /\ NoFault
    \/ repo' = [repo EXCEPT !.file = "removed"] /\ Fault

\* Mutant of Test: no test command counts as passed.
TestBlockedPasses ==
    /\ At("test") /\ TestRun
    /\ \/ seen' \in {seen, [seen EXCEPT !.passed = TRUE]}
          /\ IF call = "golden" THEN Then("demoCommit") ELSE Finish("VALIDATED")
       \/ Then("rollback") /\ seen' = seen
    /\ UNCHANGED <<host, snapshot, Kept>>

\* Mutant of Test: a failure returns before the rollback.
TestWithoutRollback ==
    /\ At("test") /\ TestRun
    /\ \/ /\ seen' = [seen EXCEPT !.passed = TRUE]
          /\ IF call = "golden" THEN Then("demoCommit") ELSE Finish("VALIDATED")
       \/ Finish("FAILED") /\ seen' = seen
    /\ UNCHANGED <<host, snapshot, Kept>>

\* Of two callers, one forbids the rollback.
Test ==
    /\ At("test") /\ TestRun
    /\ \/ /\ seen' = [seen EXCEPT !.passed = TRUE]
          /\ IF call = "golden" THEN Then("demoCommit") ELSE Finish("VALIDATED")
       \/ Then("rollback") /\ seen' = seen
       \/ call = "engineer" /\ Finish("PARTIAL") /\ seen' = Excused("PARTIAL")
    /\ UNCHANGED <<host, snapshot, Kept>>

\* Rollback asks for no grant, and refuses to write a file that is not there any
\* more; its snapshot is gone either way, and the call has FAILED.
Rollback ==
    /\ At("rollback")
    /\ IF snapshot # "none" /\ repo.file # "removed"
         THEN repo' = [repo EXCEPT !.file = snapshot] /\ seen' = Effect
         ELSE UNCHANGED <<repo, seen>>
    /\ snapshot' = "none"
    /\ Finish("FAILED")
    /\ UNCHANGED <<host, Kept, faults>>

-----------------------------------------------------------------------------
(* git *)

\* The branch b holds this file when it is checked out, or made from HEAD.
Target(b) == IF repo.refs[b] = "missing" THEN repo.refs[repo.head] ELSE repo.refs[b]

\* A checkout keeps index and tree where the branches agree on the file, or the
\* index agrees with the branch (and removes no file that is not tracked) ...
Carries(b) ==
    \/ Target(b) = repo.refs[repo.head]
    \/ Target(b) = repo.index /\ (repo.index = "removed" => repo.file = "removed")

\* ... replaces both where nothing was changed, and is refused otherwise.
Replaces(b) ==
    repo.index = repo.refs[repo.head] /\ repo.file \in {repo.index, "removed"}

CanCheckout(b) == Carries(b) \/ Replaces(b)

CheckedOut(b) ==
    LET onto == [repo EXCEPT !.head = b, !.refs[b] = Target(b)] IN
    IF Carries(b) THEN onto ELSE [onto EXCEPT !.file = Target(b), !.index = Target(b)]

\* git add of the approved file, which fails on a file neither there nor tracked,
\* and git commit of what is staged.
CanAdd       == ~(repo.file = "removed" /\ repo.index = "removed")
Staged(r)    == [r EXCEPT !.index = r.file]
Committed(r) == [Staged(r) EXCEPT !.refs[r.head] = r.file]
ToCommit     == repo.file # repo.refs[repo.head]

-----------------------------------------------------------------------------
(* The golden path around it *)

\* seed_demo_repository: git add . and a baseline commit on whatever branch is
\* checked out; nothing to commit is fine.
Seed ==
    /\ At("seed")
    /\ repo' = [Committed(repo) EXCEPT !.stray = FALSE]
    /\ Then("preflight")
    /\ UNCHANGED <<host, snapshot, seen, Kept, faults>>

\* commit_demo_fix: git checkout -b topic, or git checkout topic, add, commit.  A
\* checkout or a commit that did not succeed is a warning only.
DemoCommit ==
    /\ At("demoCommit")
    /\ \/ ~CanCheckout("topic") /\ NoFault /\ repo' = repo
       \/ CanCheckout("topic") /\ NoFault /\ repo' = Committed(CheckedOut("topic"))
       \/ CanCheckout("topic") /\ Fault /\ repo' = Staged(CheckedOut("topic"))
    /\ Finish("VALIDATED")
    /\ UNCHANGED <<host, snapshot, seen, Kept>>

-----------------------------------------------------------------------------
(* Publication *)

\* Mutant of Commit: with nothing to commit, the last commit is taken.
CommitNothingSucceeds ==
    /\ At("commit") /\ NoFault
    /\ repo' = Committed(repo)
    /\ seen' = [Effect EXCEPT !.commits = @ + (IF ToCommit THEN 1 ELSE 0)]
    /\ Then("push")
    /\ UNCHANGED <<host, snapshot, Kept>>

\* git add, git commit, git rev-parse.  A commit refused leaves the file staged;
\* one that answers too late is reported FAILED.  One that rev-parse cannot name
\* has SUCCEEDED, without its id.
Commit ==
    /\ At("commit")
    /\ \/ /\ CanAdd /\ ToCommit /\ NoFault
          /\ repo' = Committed(repo)
          /\ seen' = [Effect EXCEPT !.commits = @ + 1]
          /\ Then("push")
       \/ /\ CanAdd /\ ~ToCommit /\ NoFault
          /\ repo' = Staged(repo) /\ seen' = seen
          /\ Finish("FAILED")
       \/ /\ ~CanAdd /\ NoFault
          /\ UNCHANGED <<repo, seen>>
          /\ Finish("FAILED")
       \/ /\ CanAdd /\ Fault
          /\ \/ repo' \in {repo, Staged(repo)} /\ seen' = seen
             \/ ToCommit /\ repo' = Committed(repo) /\ seen' = [Effect EXCEPT !.commits = @ + 1]
          /\ Finish("FAILED")
    /\ UNCHANGED <<host, snapshot, Kept>>

\* Mutant of Push: a failed push is a failed publication.
PushFailureIsFailure ==
    /\ At("push")
    /\ host' \in {host, [host EXCEPT !.topic = repo.refs["topic"]]}
    /\ Finish("FAILED")
    /\ UNCHANGED <<repo, snapshot, seen, Kept, faults>>

\* Mutant of Push: the return code is not looked at.
PushUnchecked ==
    /\ At("push")
    /\ host' \in {host, [host EXCEPT !.topic = repo.refs["topic"]]}
    /\ Then("create")
    /\ UNCHANGED <<repo, snapshot, seen, Kept, faults>>

\* git push origin <head_branch>: the branch of the plan, whichever is checked
\* out.  It fails where there is no such branch; a push that timed out may have
\* reached the host.
Push ==
    /\ At("push")
    /\ LET pushed == [host EXCEPT !.topic = repo.refs["topic"]] IN
       \/ /\ repo.refs["topic"] # "missing" /\ NoFault
          /\ host' = pushed
          /\ seen' = Effect
          /\ Then("create")
       \/ /\ repo.refs["topic"] = "missing" /\ NoFault
          /\ Finish("PARTIALLY_PUBLISHED") /\ UNCHANGED <<host, seen>>
       \/ /\ repo.refs["topic"] # "missing" /\ Fault
          /\ \/ host' = pushed /\ seen' = Effect
             \/ UNCHANGED <<host, seen>>
          /\ Finish("PARTIALLY_PUBLISHED")
    /\ UNCHANGED <<repo, snapshot, Kept>>

\* InMemoryGitHubAdapter.create_pull_request: a request the host refuses (there
\* is one open for this branch, nothing to merge) and a request that got lost
\* are receipted SUCCEEDED, like the one it accepts.  An adapter set up to fail
\* sends none.
CreatePullRequest ==
    /\ At("create")
    /\ \/ host' = [host EXCEPT !.prs = @ + 1] /\ seen' = Effect /\ Then("verify")
       \/ UNCHANGED <<host, seen>> /\ Then("verify")
       \/ UNCHANGED <<host, seen>> /\ Finish("PARTIALLY_PUBLISHED")
    /\ UNCHANGED <<repo, snapshot, Kept, faults>>

\* verify_pull_request looks at nothing but its configuration.
Verify ==
    /\ At("verify")
    /\ Finish("PUBLISHED") \/ Finish("PARTIALLY_PUBLISHED")
    /\ UNCHANGED <<repo, host, snapshot, seen, Kept, faults>>

-----------------------------------------------------------------------------
\* Outside a call: the demo copies its fixture over the file, a developer
\* checks a branch out or changes some other file.
CopyFixture ==
    /\ op = "idle" /\ calls < MaxCalls
    /\ repo' = [repo EXCEPT !.file = "defect"]
    /\ UNCHANGED <<host, step, seen, calls, faults>>

Checkout(b) ==
    /\ op = "idle" /\ calls < MaxCalls
    /\ CanCheckout(b)
    /\ repo' = CheckedOut(b)
    /\ UNCHANGED <<host, step, seen, calls, faults>>

Stray ==
    /\ op = "idle" /\ calls < MaxCalls
    /\ repo' = [repo EXCEPT !.stray = ~@]
    /\ UNCHANGED <<host, step, seen, calls, faults>>

\* The process dies; tree, index, branches and host stay.
Die ==
    /\ op # "idle" /\ Fault
    /\ Finish("none")
    /\ snapshot' = "none"
    /\ seen' = [seen EXCEPT !.excused = @ \/ op \in {"test", "rollback"}]
    /\ UNCHANGED <<repo, host, Kept>>

Next ==
    \/ \E c \in Calls : Start(c)
    \/ Expire \/ Check \/ PlanRefused \/ Preflight
    \/ Apply \/ Test \/ Rollback
    \/ Seed \/ DemoCommit
    \/ Commit \/ Push \/ CreatePullRequest \/ Verify
    \/ CopyFixture \/ Stray
    \/ \E b \in Branch : Checkout(b)
    \/ Die

Spec == Init /\ [][Next]_vars
=============================================================================
