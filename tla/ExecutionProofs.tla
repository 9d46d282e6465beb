----------------------------- MODULE ExecutionProofs -----------------------------
(***************************************************************************)
(* Theorems about the executors, for any number of calls and of faults.    *)
(* Each property is a conjunct of an invariant that says what the call has *)
(* already established at the operation it is at.                          *)
(***************************************************************************)
EXTENDS ExecutionProperties, TLAPS

Outside == CopyFixture \/ Stray \/ \E b \in Branch : Checkout(b)

USE DEF Content, Branch, Repositories, Hosts, Histories, Calls, Guarded, Ops

-----------------------------------------------------------------------------
(* Types *)

RepoOK == repo \in Repositories
HostOK == host \in Hosts
StepOK ==
    /\ call \in Calls /\ op \in Ops
    /\ checked \in BOOLEAN /\ live \in BOOLEAN
    /\ snapshot \in Content \cup {"none"}
    /\ status \in Results
BeforeOK == before \in [repo : Repositories, host : Hosts]
SeenOK   == seen \in Histories
CountsOK == calls \in 0 .. MaxCalls /\ faults \in 0 .. MaxFaults

LEMMA TypeParts == TypeOK <=> RepoOK /\ HostOK /\ StepOK /\ BeforeOK /\ SeenOK /\ CountsOK
  BY DEF TypeOK, RepoOK, HostOK, StepOK, BeforeOK, SeenOK, CountsOK

LEMMA InitType == Init => TypeOK
  <1> SUFFICES ASSUME Init PROVE TypeOK
    OBVIOUS
  <1>1. RepoOK
    BY DEF Init, RepoOK
  <1>2. HostOK
    BY DEF Init, HostOK
  <1>3. BeforeOK
    BY <1>1, <1>2 DEF Init, BeforeOK, RepoOK, HostOK
  <1>4. StepOK
    BY DEF Init, StepOK, Results
  <1>5. SeenOK
    BY DEF Init, SeenOK
  <1>6. CountsOK
    BY BoundAssumption DEF Init, CountsOK
  <1> QED BY <1>1, <1>2, <1>3, <1>4, <1>5, <1>6, TypeParts

\* What git add and git commit leave.
LEMMA StagedType ==
  ASSUME NEW r \in Repositories
  PROVE  /\ Staged(r) \in Repositories /\ Committed(r) \in Repositories
         /\ Staged(r).file = r.file /\ Committed(r).file = r.file
         /\ Staged(r).refs = r.refs
         /\ Committed(r).refs = [r.refs EXCEPT ![r.head] = r.file]
  <1>1. /\ r.file \in Content /\ r.head \in Branch
        /\ r.refs \in [Branch -> Content \cup {"missing"}]
    OBVIOUS
  <1>2. Staged(r) \in Repositories /\ Staged(r).refs = r.refs /\ Staged(r).file = r.file
    BY <1>1 DEF Staged
  <1>3. [r.refs EXCEPT ![r.head] = r.file] \in [Branch -> Content \cup {"missing"}]
    BY <1>1
  <1>4. Committed(r) = [Staged(r) EXCEPT !.refs = [r.refs EXCEPT ![r.head] = r.file]]
    BY <1>2 DEF Committed
  <1>5. /\ Committed(r) \in Repositories /\ Committed(r).file = r.file
        /\ Committed(r).refs = [r.refs EXCEPT ![r.head] = r.file]
    BY <1>2, <1>3, <1>4
  <1> QED BY <1>2, <1>5

\* A checkout puts no file on a branch, or in the tree, that was not there or on
\* the branch.
LEMMA CheckedOutType ==
  ASSUME RepoOK, NEW b \in Branch
  PROVE  /\ CheckedOut(b) \in Repositories /\ CheckedOut(b).head = b
         /\ CheckedOut(b).refs = [repo.refs EXCEPT ![b] = Target(b)]
         /\ CheckedOut(b).file \in {repo.file, Target(b)}
         /\ Target(b) \in {repo.refs[c] : c \in Branch}
  <1> DEFINE onto == [repo EXCEPT !.head = b, !.refs[b] = Target(b)]
  <1>1. /\ repo \in Repositories /\ repo.file \in Content /\ repo.head \in Branch
        /\ repo.refs \in [Branch -> Content \cup {"missing"}]
    BY DEF RepoOK
  <1>2. Target(b) \in {repo.refs[c] : c \in Branch}
    BY <1>1 DEF Target
  <1>3. Target(b) \in Content \cup {"missing"}
    BY <1>1, <1>2
  <1>4. [repo.refs EXCEPT ![b] = Target(b)] \in [Branch -> Content \cup {"missing"}]
    BY <1>1, <1>3
  <1>5. onto \in Repositories /\ onto.head = b /\ onto.file = repo.file
        /\ onto.refs = [repo.refs EXCEPT ![b] = Target(b)]
    BY <1>1, <1>4
  <1>6. CASE Carries(b)
    <2>1. CheckedOut(b) = onto
      BY <1>6 DEF CheckedOut
    <2> HIDE DEF onto
    <2> QED BY <2>1, <1>2, <1>5
  <1>7. CASE ~Carries(b)
    <2>1. CheckedOut(b) = [onto EXCEPT !.file = Target(b), !.index = Target(b)]
      BY <1>7 DEF CheckedOut
    <2> HIDE DEF onto
    <2>2. Target(b) \in Content
      BY <1>1, <1>3, <1>7 DEF Target, Carries
    <2> QED BY <2>1, <2>2, <1>2, <1>5
  <1> QED BY <1>6, <1>7

\* Only some steps change the repository, the host or the history.
LEMMA RepoStep == ASSUME TypeOK, [Next]_vars PROVE RepoOK'
  <1>1. RepoOK /\ repo.file \in Content /\ repo.index \in Content /\ repo.stray \in BOOLEAN
        /\ repo.head \in Branch /\ repo.refs[repo.head] \in Content \cup {"missing"}
        /\ snapshot \in Content \cup {"none"}
        /\ repo.refs \in [Branch -> Content \cup {"missing"}]
    BY DEF TypeOK, RepoOK
  <1>2. \A r \in Repositories : Staged(r) \in Repositories /\ Committed(r) \in Repositories
    BY StagedType
  <1>3. \A b \in Branch : CheckedOut(b) \in Repositories
    BY <1>1, CheckedOutType DEF RepoOK
  <1> USE <1>1 DEF RepoOK
  <1>4. CASE Apply \/ Rollback
    <2>1. CASE Apply
      BY <2>1 DEF Apply
    <2>2. CASE Rollback
      BY <2>2 DEF Rollback
    <2> QED BY <1>4, <2>1, <2>2
  <1>5. CASE Test
    BY <1>5 DEF Test, TestRun
  <1>6. CASE Seed
    <2>1. Committed(repo) \in Repositories
      BY <1>2
    <2> QED BY <1>6, <2>1 DEF Seed
  <1>7. CASE DemoCommit \/ Commit
    <2>1. CheckedOut("topic") \in Repositories
      BY <1>3
    <2>2. /\ Staged(repo) \in Repositories /\ Staged(CheckedOut("topic")) \in Repositories
          /\ Committed(repo) \in Repositories /\ Committed(CheckedOut("topic")) \in Repositories
      BY <1>2, <2>1
    <2>3. repo' \in {repo, Staged(repo), Committed(repo), Staged(CheckedOut("topic")),
                     Committed(CheckedOut("topic"))}
      BY <1>7 DEF DemoCommit, Commit
    <2> QED BY <2>2, <2>3
  <1>8. CASE \E b \in Branch : Checkout(b)
    BY <1>8, <1>3 DEF Checkout
  <1>9. CASE CopyFixture \/ Stray
    BY <1>9 DEF CopyFixture, Stray
  <1>10. CASE UNCHANGED repo
    BY <1>10
  <1> QED
    BY <1>4, <1>5, <1>6, <1>7, <1>8, <1>9, <1>10
       DEF Next, vars, Start, Expire, Check, PlanRefused, Preflight, Push,
           CreatePullRequest, Verify, Die

LEMMA HostStep == ASSUME TypeOK, [Next]_vars PROVE HostOK'
  <1> USE DEF HostOK, TypeOK
  <1>1. CASE Push
    BY <1>1 DEF Push
  <1>2. CASE CreatePullRequest
    BY <1>2 DEF CreatePullRequest
  <1>3. CASE UNCHANGED host
    BY <1>3
  <1> QED
    BY <1>1, <1>2, <1>3
       DEF Next, vars, Start, Expire, Check, PlanRefused, Preflight, Apply, Test, Rollback,
           Seed, DemoCommit, Commit, Verify, CopyFixture, Checkout, Stray, Die

LEMMA SeenStep == ASSUME TypeOK, [Next]_vars PROVE SeenOK'
  <1>1. SeenOK
    BY DEF TypeOK, SeenOK
  <1>2. Effect \in Histories
    BY <1>1 DEF Effect, SeenOK
  <1>3. \A result : Excused(result) \in Histories
    BY <1>1 DEF Excused, SeenOK
  <1> USE <1>1, <1>2, <1>3 DEF SeenOK
  <1>4. CASE \E c \in Calls : Start(c)
    BY <1>4 DEF Start
  <1>5. CASE Check \/ Apply
    BY <1>5 DEF Check, Apply
  <1>6. CASE Test \/ Rollback
    BY <1>6 DEF Test, Rollback
  <1>7. CASE Die
    BY <1>7 DEF Die
  <1>8. CASE Commit
    <2>1. [Effect EXCEPT !.commits = @ + 1] \in Histories
      BY <1>2
    <2>2. seen' \in {seen, [Effect EXCEPT !.commits = @ + 1]}
      BY <1>8 DEF Commit
    <2> QED BY <2>1, <2>2
  <1>9. CASE Push \/ CreatePullRequest
    BY <1>9 DEF Push, CreatePullRequest
  <1>10. CASE UNCHANGED seen
    BY <1>10
  <1> QED
    BY <1>4, <1>5, <1>6, <1>7, <1>8, <1>9, <1>10
       DEF Next, vars, Expire, PlanRefused, Preflight, Seed, DemoCommit, Verify, CopyFixture,
           Checkout, Stray

LEMMA BeforeStep == ASSUME TypeOK, [Next]_vars PROVE BeforeOK'
  <1> USE DEF BeforeOK, TypeOK
  <1>1. CASE \E c \in Calls : Start(c)
    BY <1>1 DEF Start
  <1>2. CASE UNCHANGED before
    BY <1>2
  <1> QED
    BY <1>1, <1>2
       DEF Next, vars, step, Kept, Expire, Check, PlanRefused, Preflight, Apply, Test,
           Rollback, Seed, DemoCommit, Commit, Push, CreatePullRequest, Verify, CopyFixture,
           Checkout, Stray, Die

LEMMA CountsStep == ASSUME TypeOK, [Next]_vars PROVE CountsOK'
  <1> USE BoundAssumption DEF CountsOK, TypeOK
  <1>1. CASE \E c \in Calls : Start(c)
    BY <1>1 DEF Start
  <1>2. CASE UNCHANGED calls /\ (Fault \/ UNCHANGED faults)
    BY <1>2 DEF Fault
  <1> QED
    BY <1>1, <1>2
       DEF Next, vars, step, Kept, NoFault, Expire, Check, PlanRefused, Preflight, Apply, Test,
           TestRun, Rollback, Seed, DemoCommit, Commit, Push, CreatePullRequest, Verify, CopyFixture,
           Checkout, Stray, Die

LEMMA StepStep == ASSUME TypeOK, [Next]_vars PROVE StepOK'
  <1> USE DEF StepOK, TypeOK, Results, Goto, Then, Finish, Kept, step
  <1>1. CASE \E c \in Calls : Start(c)
    BY <1>1 DEF Start
  <1>2. CASE Expire \/ Check
    <2>1. CASE Expire
      BY <2>1 DEF Expire
    <2>2. CASE Check /\ live
      BY <2>2 DEF Check
    <2>3. CASE Check /\ ~live
      <3>1. op' = "idle" /\ status' = Expired(op) /\ checked' \in BOOLEAN
        BY <2>3 DEF Check
      <3>2. Expired(op) \in Results
        BY <2>3 DEF Check, Expired
      <3>3. UNCHANGED <<call, live, snapshot>>
        BY <2>3 DEF Check
      <3> QED BY <3>1, <3>2, <3>3
    <2> QED BY <1>2, <2>1, <2>2, <2>3
  <1>3. CASE PlanRefused \/ Preflight
    BY <1>3 DEF PlanRefused, Preflight
  <1>4. CASE Apply \/ Test \/ Rollback
    <2>1. CASE Apply
      BY <2>1 DEF Apply
    <2>2. CASE Test
      BY <2>2 DEF Test
    <2>3. CASE Rollback
      BY <2>3 DEF Rollback
    <2> QED BY <1>4, <2>1, <2>2, <2>3
  <1>5. CASE Seed \/ DemoCommit
    BY <1>5 DEF Seed, DemoCommit
  <1>6. CASE Commit \/ Push
    BY <1>6 DEF Commit, Push
  <1>7. CASE CreatePullRequest \/ Verify
    BY <1>7 DEF CreatePullRequest, Verify
  <1>8. CASE Outside \/ UNCHANGED vars
    BY <1>8 DEF Outside, CopyFixture, Checkout, Stray, vars
  <1>9. CASE Die
    BY <1>9 DEF Die
  <1> QED
    BY <1>1, <1>2, <1>3, <1>4, <1>5, <1>6, <1>7, <1>8, <1>9 DEF Next, Outside

LEMMA TypeStep == TypeOK /\ [Next]_vars => TypeOK'
  <1> SUFFICES ASSUME TypeOK, [Next]_vars PROVE TypeOK'
    OBVIOUS
  <1>1. RepoOK' /\ HostOK' /\ StepOK' /\ BeforeOK' /\ SeenOK' /\ CountsOK'
    BY RepoStep, HostStep, StepStep, BeforeStep, SeenStep, CountsStep
  <1> QED
    BY <1>1 DEF TypeOK, RepoOK, HostOK, StepOK, BeforeOK, SeenOK, CountsOK

\* Every variable keeps its type, whatever calls, deaths and adapters do.
THEOREM TypeCorrect == Spec => []TypeOK
  BY InitType, TypeStep, PTL DEF Spec

-----------------------------------------------------------------------------
(* One late effect *)

LEMMA CommitEffect ==
  ASSUME SeenOK
  PROVE  LET done == [Effect EXCEPT !.commits = @ + 1]
         IN  /\ done.late = seen.late + (IF live THEN 0 ELSE 1)
             /\ done.commits = seen.commits + 1
  BY DEF SeenOK, Effect

\* A grant that is live has let nothing late through, and a check that passed
\* was made while it was live, the one before the tests for the rollback, too.
LateInv ==
    /\ AtMostOneLateEffect
    /\ live => seen.late = 0
    /\ op \in Guarded /\ checked => seen.late = 0
    /\ op = "rollback" => seen.late = 0

LEMMA LateStep ==
  ASSUME TypeOK, LateInv, [Next]_vars
  PROVE  LateInv'
  <1>1. seen \in Histories /\ live \in BOOLEAN /\ checked \in BOOLEAN
    BY DEF TypeOK
  <1> USE <1>1 DEF LateInv, AtMostOneLateEffect, Goto, Then, Finish, Kept, step
  <1>2. CASE \E c \in Calls : Start(c)
    BY <1>2 DEF Start
  <1>3. CASE Expire
    BY <1>3 DEF Expire
  <1>4. CASE Check
    BY <1>4 DEF Check, Excused
  <1>5. CASE PlanRefused \/ Preflight
    BY <1>5 DEF PlanRefused, Preflight, At
  <1>6. CASE Apply
    BY <1>6 DEF Apply, At, Effect
  <1>7. CASE Test \/ Rollback
    <2>1. CASE Test
      BY <2>1 DEF Test, At, Excused
    <2>2. CASE Rollback
      BY <2>2 DEF Rollback, At, Effect
    <2> QED BY <1>7, <2>1, <2>2
  <1>8. CASE Seed \/ DemoCommit
    BY <1>8 DEF Seed, DemoCommit, At
  <1>9. CASE Commit
    <2>1. seen.late = 0
      BY <1>9 DEF Commit, At
    <2>2. [Effect EXCEPT !.commits = @ + 1].late = (IF live THEN 0 ELSE 1)
      BY <2>1, <1>1, CommitEffect DEF SeenOK
    <2>3. live' = live /\ op' \in {"push", "idle"} /\ (op' = "push" => ~checked')
      BY <1>9 DEF Commit
    <2>4. seen' = seen \/ seen' = [Effect EXCEPT !.commits = @ + 1]
      BY <1>9 DEF Commit
    <2>5. seen'.late = 0 \/ seen'.late = (IF live THEN 0 ELSE 1)
      BY <2>1, <2>2, <2>4
    <2> QED BY <2>3, <2>5, <1>1
  <1>10. CASE Push
    BY <1>10 DEF Push, At, Effect
  <1>11. CASE CreatePullRequest \/ Verify
    BY <1>11 DEF CreatePullRequest, Verify, At, Effect
  <1>12. CASE Outside \/ UNCHANGED vars
    BY <1>12 DEF Outside, CopyFixture, Checkout, Stray, vars
  <1>13. CASE Die
    BY <1>13 DEF Die
  <1> QED
    BY <1>2, <1>3, <1>4, <1>5, <1>6, <1>7, <1>8, <1>9, <1>10, <1>11, <1>12, <1>13
       DEF Next, Outside

\* An expired grant lets through one operation of a call at most: the one whose
\* check it had passed.
THEOREM LateEffects == Spec => []AtMostOneLateEffect
  <1>1. Init => LateInv
    BY DEF Init, LateInv, AtMostOneLateEffect
  <1>2. LateInv => AtMostOneLateEffect
    BY DEF LateInv
  <1> QED BY <1>1, <1>2, TypeCorrect, LateStep, PTL DEF Spec

-----------------------------------------------------------------------------
(* Failures are local *)

\* Up to the commit a call has touched nothing but this machine, and it has no
\* result before it returns.
LocalInv ==
    /\ FailureIsLocal
    /\ op # "idle" => status = "none"
    /\ op \in {"seed", "preflight", "apply", "test", "rollback", "demoCommit", "commit"}
           => host = before.host

LEMMA LocalStep ==
  ASSUME TypeOK, LocalInv, [Next]_vars
  PROVE  LocalInv'
  <1>1. op \in Ops /\ host \in Hosts
    BY DEF TypeOK
  <1> USE <1>1 DEF LocalInv, FailureIsLocal, Goto, Then, Finish, Kept, step
  <1>2. CASE \E c \in Calls : Start(c)
    BY <1>2 DEF Start
  <1>3. CASE Expire \/ Check
    BY <1>3 DEF Expire, Check, Expired
  <1>4. CASE PlanRefused \/ Preflight
    BY <1>4 DEF PlanRefused, Preflight, At
  <1>5. CASE Apply \/ Test \/ Rollback
    BY <1>5 DEF Apply, Test, Rollback, At
  <1>6. CASE Seed \/ DemoCommit
    BY <1>6 DEF Seed, DemoCommit, At
  <1>7. CASE Commit
    BY <1>7 DEF Commit, At
  <1>8. CASE Push
    BY <1>8 DEF Push, At
  <1>9. CASE CreatePullRequest \/ Verify
    BY <1>9 DEF CreatePullRequest, Verify, At
  <1>10. CASE Outside \/ UNCHANGED vars
    BY <1>10 DEF Outside, CopyFixture, Checkout, Stray, vars
  <1>11. CASE Die
    BY <1>11 DEF Die
  <1> QED
    BY <1>2, <1>3, <1>4, <1>5, <1>6, <1>7, <1>8, <1>9, <1>10, <1>11 DEF Next, Outside

\* BLOCKED and FAILED never hide a push or a pull request.
THEOREM LocalFailures == Spec => []FailureIsLocal
  <1>1. Init => LocalInv
    BY DEF Init, LocalInv, FailureIsLocal
  <1>2. LocalInv => FailureIsLocal
    BY DEF LocalInv
  <1> QED BY <1>1, <1>2, TypeCorrect, LocalStep, PTL DEF Spec

-----------------------------------------------------------------------------
(* Pull requests *)

\* Between its commit and its pull request a publication is one commit ahead.
PrInv ==
    /\ OnePullRequestPerCommit
    /\ op \in {"push", "create"} => host.prs < seen.commits

LEMMA PrStep ==
  ASSUME TypeOK, PrInv, [Next]_vars
  PROVE  PrInv'
  <1>1. /\ seen \in Histories /\ seen.commits \in Nat
        /\ host \in Hosts /\ host.prs \in Nat /\ op \in Ops
    BY DEF TypeOK
  <1> USE <1>1 DEF PrInv, OnePullRequestPerCommit, Goto, Then, Finish, Kept, step
  <1>2. Effect.commits = seen.commits
    BY DEF Effect
  <1>3. CASE \E c \in Calls : Start(c)
    BY <1>3 DEF Start
  <1>4. CASE Expire \/ Check
    BY <1>4 DEF Expire, Check, Excused
  <1>5. CASE PlanRefused \/ Preflight
    BY <1>5 DEF PlanRefused, Preflight, At
  <1>6. CASE Apply \/ Test \/ Rollback
    BY <1>6, <1>2 DEF Apply, Test, Rollback, At, Excused
  <1>7. CASE Seed \/ DemoCommit
    BY <1>7 DEF Seed, DemoCommit, At
  <1>8. CASE Commit
    <2>1. [Effect EXCEPT !.commits = @ + 1].commits = seen.commits + 1
      BY CommitEffect DEF SeenOK
    <2>2. /\ host' = host
          /\ \/ op' = "push" /\ seen' = [Effect EXCEPT !.commits = @ + 1]
             \/ op' = "idle" /\ seen' \in {seen, [Effect EXCEPT !.commits = @ + 1]}
      BY <1>8 DEF Commit
    <2>3. seen'.commits \in {seen.commits, seen.commits + 1}
          /\ (op' = "push" => seen'.commits = seen.commits + 1)
          /\ op' \in {"push", "idle"}
      BY <2>1, <2>2
    <2> QED BY <2>2, <2>3
  <1>9. CASE Push
    BY <1>9, <1>2 DEF Push, At
  <1>10. CASE CreatePullRequest \/ Verify
    BY <1>10, <1>2 DEF CreatePullRequest, Verify, At
  <1>11. CASE Outside \/ UNCHANGED vars
    BY <1>11 DEF Outside, CopyFixture, Checkout, Stray, vars
  <1>12. CASE Die
    BY <1>12 DEF Die
  <1> QED
    BY <1>3, <1>4, <1>5, <1>6, <1>7, <1>8, <1>9, <1>10, <1>11, <1>12 DEF Next, Outside

\* However often a publication is retried, no commit has two pull requests.
THEOREM PullRequests == Spec => []OnePullRequestPerCommit
  <1>1. Init => PrInv
    BY DEF Init, PrInv, OnePullRequestPerCommit
  <1>2. PrInv => OnePullRequestPerCommit
    BY DEF PrInv
  <1> QED BY <1>1, <1>2, TypeCorrect, PrStep, PTL DEF Spec

-----------------------------------------------------------------------------
(* The file after a failure *)

\* Before the change and while publishing, the approved file is as the call found
\* it; while the change is in place the adapter's snapshot is.
FileInv ==
    /\ op \in {"seed", "preflight", "apply", "commit"} => repo.file = before.repo.file
    /\ op \in {"test", "rollback"} => snapshot = before.repo.file /\ snapshot # "none"

\* What FailureRestoresFile says of a call that returns.
Restored ==
    \/ repo'.file = before.repo.file
    \/ op = "rollback" /\ repo.file = "removed" /\ repo' = repo

LEMMA FileStep ==
  ASSUME TypeOK, FileInv, [Next]_vars
  PROVE  FileInv' /\ (Returns({"BLOCKED", "FAILED"}) => Restored)
  <1>1. /\ op \in Ops /\ repo \in Repositories /\ repo.file \in Content
        /\ checked \in BOOLEAN
    BY DEF TypeOK
  <1> USE <1>1 DEF FileInv, Restored, Returns, Goto, Then, Finish, Kept, step
  <1>2. CASE \E c \in Calls : Start(c)
    BY <1>2 DEF Start
  <1>3. CASE Expire \/ Check
    BY <1>3 DEF Expire, Check, Expired
  <1>4. CASE PlanRefused \/ Preflight
    BY <1>4 DEF PlanRefused, Preflight, At
  <1>5. CASE Apply
    BY <1>5 DEF Apply, At
  <1>6. CASE Test \/ Rollback
    <2>1. CASE Test
      BY <2>1 DEF Test, TestRun, At
    <2>2. CASE Rollback
      BY <2>2 DEF Rollback, At
    <2> QED BY <1>6, <2>1, <2>2
  <1>7. CASE Seed \/ DemoCommit
    <2>1. CASE Seed
      <3>1. Committed(repo).file = repo.file
        BY StagedType
      <3>2. [Committed(repo) EXCEPT !.stray = FALSE].file = Committed(repo).file
        BY StagedType
      <3> QED BY <2>1, <3>1, <3>2 DEF Seed, At
    <2>2. CASE DemoCommit
      BY <2>2 DEF DemoCommit, At
    <2> QED BY <1>7, <2>1, <2>2
  <1>8. CASE Commit
    <2>1. Staged(repo).file = repo.file /\ Committed(repo).file = repo.file
      BY StagedType
    <2>2. op = "commit" /\ op' \in {"push", "idle"}
          /\ repo' \in {repo, Staged(repo), Committed(repo)} /\ before' = before
      BY <1>8 DEF Commit, At
    <2> QED BY <2>1, <2>2
  <1>9. CASE Push
    BY <1>9 DEF Push, At
  <1>10. CASE CreatePullRequest \/ Verify
    BY <1>10 DEF CreatePullRequest, Verify, At
  <1>11. CASE Outside
    BY <1>11 DEF Outside, CopyFixture, Checkout, Stray
  <1>12. CASE Die
    BY <1>12 DEF Die
  <1>13. CASE UNCHANGED vars
    BY <1>13 DEF vars
  <1> QED
    BY <1>2, <1>3, <1>4, <1>5, <1>6, <1>7, <1>8, <1>9, <1>10, <1>11, <1>12, <1>13
       DEF Next, Outside

\* A call that ends FAILED or BLOCKED leaves the approved file as it found it,
\* unless its own test run deleted the file and the rollback was refused.
THEOREM FailuresRestoreFile == Spec => FailureRestoresFile
  <1>1. Init => FileInv
    BY DEF Init, FileInv
  <1>2. TypeOK /\ FileInv /\ [Next]_vars => FileInv'
    BY FileStep
  <1>3. TypeOK /\ FileInv /\ [Next]_vars
          => [Returns({"BLOCKED", "FAILED"})
                => \/ repo'.file = before.repo.file
                   \/ op = "rollback" /\ repo.file = "removed" /\ repo' = repo]_vars
    BY FileStep DEF Restored
  <1> QED BY <1>1, <1>2, <1>3, TypeCorrect, PTL DEF Spec, FailureRestoresFile

-----------------------------------------------------------------------------
(* Untested fixes *)

Excuse == seen.passed \/ seen.excused

\* Without an excuse the fix is nowhere but in the file under test, of which the
\* adapter still holds the defect.
Contained ==
    /\ repo.refs["main"] # "fixed" /\ repo.refs["topic"] # "fixed" /\ host.topic # "fixed"
    /\ op \in {"test", "rollback"} => snapshot = "defect"
    /\ op \notin {"test", "rollback"} => repo.file # "fixed"
    /\ op # "demoCommit"

FixInv == Excuse \/ Contained

\* An excuse is never taken back.
LEMMA ExcuseStays ==
  ASSUME SeenOK, [Next]_vars, Excuse
  PROVE  Excuse'
  <1>1. Effect.passed = seen.passed /\ Effect.excused = seen.excused
    BY DEF Effect, SeenOK
  <1> USE <1>1 DEF Excuse, SeenOK
  <1>2. CASE \E c \in Calls : Start(c)
    BY <1>2 DEF Start
  <1>3. CASE Check \/ Test \/ Die
    BY <1>3 DEF Check, Test, Die, Excused
  <1>4. CASE Apply \/ Rollback
    BY <1>4 DEF Apply, Rollback
  <1>5. CASE Commit
    <2>1. LET done == [Effect EXCEPT !.commits = @ + 1]
          IN  done.passed = seen.passed /\ done.excused = seen.excused
      BY DEF Effect
    <2> QED BY <1>5, <2>1 DEF Commit
  <1>6. CASE Push \/ CreatePullRequest
    BY <1>6 DEF Push, CreatePullRequest
  <1>7. CASE UNCHANGED seen
    BY <1>7
  <1> QED
    BY <1>2, <1>3, <1>4, <1>5, <1>6, <1>7
       DEF Next, vars, Expire, PlanRefused, Preflight, Seed, DemoCommit, Verify, CopyFixture,
           Checkout, Stray

LEMMA FixStep ==
  ASSUME TypeOK, FixInv, [Next]_vars
  PROVE  FixInv'
  <1>1. SeenOK
    BY DEF TypeOK, SeenOK
  <1>2. CASE Excuse
    BY <1>1, <1>2, ExcuseStays DEF FixInv
  <1>3. CASE Contained /\ ~Excuse
    <2>1. /\ repo \in Repositories /\ repo.file \in Content /\ repo.head \in Branch
          /\ repo.refs \in [Branch -> Content \cup {"missing"}]
          /\ host \in Hosts /\ op \in Ops /\ checked \in BOOLEAN
      BY DEF TypeOK
    <2>2. repo.refs[repo.head] # "fixed"
      BY <1>3, <2>1 DEF Contained
    <2> USE <1>1, <1>3, <2>1, <2>2 DEF Contained, Goto, Then, Finish, Kept, step
    <2>3. CASE \E c \in Calls : Start(c)
      <3>1. Contained'
        BY <2>3 DEF Start
      <3> QED BY <3>1 DEF FixInv
    <2>4. CASE Expire \/ PlanRefused \/ Preflight
      <3>1. Contained'
        BY <2>4 DEF Expire, PlanRefused, Preflight, At
      <3> QED BY <3>1 DEF FixInv
    <2>5. CASE Check
      <3>1. CASE op = "test" /\ ~live
        <4>1. seen'.excused
          BY <2>5, <3>1 DEF Check, Expired, Excused, SeenOK
        <4> QED BY <4>1 DEF FixInv, Excuse
      <3>2. CASE ~(op = "test" /\ ~live)
        <4>1. Contained'
          BY <2>5, <3>2 DEF Check
        <4> QED BY <4>1 DEF FixInv
      <3> QED BY <3>1, <3>2
    <2>6. CASE Apply
      <3>1. Contained'
        BY <2>6 DEF Apply, At
      <3> QED BY <3>1 DEF FixInv
    <2>7. CASE Test
      <3>1. op = "test" /\ repo'.refs = repo.refs /\ UNCHANGED <<host, snapshot>>
        BY <2>7 DEF Test, TestRun, At
      <3>2. op' = "rollback" \/ seen'.passed \/ seen'.excused
        BY <2>7 DEF Test, Excused, SeenOK
      <3>3. CASE op' = "rollback"
        <4>1. Contained'
          BY <3>1, <3>3
        <4> QED BY <4>1 DEF FixInv
      <3> QED BY <3>2, <3>3 DEF FixInv, Excuse
    <2>8. CASE Rollback
      <3>1. Contained'
        BY <2>8 DEF Rollback, At
      <3> QED BY <3>1 DEF FixInv
    <2>9. CASE Seed
      <3>1. /\ repo'.refs = [repo.refs EXCEPT ![repo.head] = repo.file]
            /\ repo'.file = repo.file /\ repo.file # "fixed"
        BY <2>9, StagedType DEF Seed, At
      <3>2. op' = "preflight" /\ host' = host
        BY <2>9 DEF Seed
      <3>3. Contained'
        BY <3>1, <3>2
      <3> QED BY <3>3 DEF FixInv
    <2>10. CASE DemoCommit
      BY <2>10 DEF DemoCommit, At
    <2>11. CASE Commit
      <3>1. repo.file # "fixed" /\ op' \in {"push", "idle"} /\ host' = host
        BY <2>11 DEF Commit, At
      <3>2. repo' \in {repo, Staged(repo), Committed(repo)}
        BY <2>11 DEF Commit
      <3>3. /\ repo'.file = repo.file
            /\ repo'.refs \in {repo.refs, [repo.refs EXCEPT ![repo.head] = repo.file]}
        <4>1. /\ Staged(repo).file = repo.file /\ Committed(repo).file = repo.file
              /\ Staged(repo).refs = repo.refs
              /\ Committed(repo).refs = [repo.refs EXCEPT ![repo.head] = repo.file]
          BY StagedType
        <4> QED BY <3>2, <4>1
      <3>4. Contained'
        BY <3>1, <3>3
      <3> QED BY <3>4 DEF FixInv
    <2>12. CASE Push \/ CreatePullRequest \/ Verify
      <3>1. Contained'
        BY <2>12 DEF Push, CreatePullRequest, Verify, At
      <3> QED BY <3>1 DEF FixInv
    <2>13. CASE Outside
      <3>1. CASE CopyFixture \/ Stray
        <4>1. Contained'
          BY <3>1 DEF CopyFixture, Stray
        <4> QED BY <4>1 DEF FixInv
      <3>2. ASSUME NEW b \in Branch, Checkout(b)
            PROVE  FixInv'
        <4>1. /\ repo'.refs = [repo.refs EXCEPT ![b] = Target(b)]
              /\ repo'.file \in {repo.file, Target(b)} /\ Target(b) # "fixed"
          BY <3>2, CheckedOutType DEF Checkout, RepoOK
        <4>2. op = "idle" /\ UNCHANGED <<host, op, snapshot>>
          BY <3>2 DEF Checkout
        <4>3. Contained'
          BY <4>1, <4>2
        <4> QED BY <4>3 DEF FixInv
      <3> QED BY <2>13, <3>1, <3>2 DEF Outside
    <2>14. CASE Die
      <3>1. CASE op \in {"test", "rollback"}
        <4>1. seen'.excused
          BY <2>14, <3>1 DEF Die, SeenOK
        <4> QED BY <4>1 DEF FixInv, Excuse
      <3>2. CASE op \notin {"test", "rollback"}
        <4>1. Contained'
          BY <2>14, <3>2 DEF Die
        <4> QED BY <4>1 DEF FixInv
      <3> QED BY <3>1, <3>2
    <2>15. CASE UNCHANGED vars
      <3>1. Contained'
        BY <2>15 DEF vars
      <3> QED BY <3>1 DEF FixInv
    <2> QED
      BY <2>3, <2>4, <2>5, <2>6, <2>7, <2>8, <2>9, <2>10, <2>11, <2>12, <2>13, <2>14, <2>15
         DEF Next, Outside
  <1> QED BY <1>2, <1>3 DEF FixInv

\* The fix reaches a branch only after passed tests, or with an excuse.
THEOREM UntestedFixes == Spec => []UntestedFixIsExcused
  <1>1. Init => FixInv
    BY DEF Init, FixInv, Contained
  <1>2. FixInv => UntestedFixIsExcused
    BY DEF FixInv, Excuse, Contained, UntestedFixIsExcused
  <1> QED BY <1>1, <1>2, TypeCorrect, FixStep, PTL DEF Spec

-----------------------------------------------------------------------------
(* What PUBLISHED means *)

\* Operations of a publication, and what it has established before each: nothing
\* has changed before the commit, the branch it is on has got a new commit after
\* it, and the host's branch is the local one after the push.
PublishInv ==
    /\ op \in {"commit", "push", "create", "verify"} => call = "publish"
    /\ op \in {"seed", "apply", "test", "rollback", "demoCommit"} => call # "publish"
    /\ call = "publish" /\ op \in {"preflight", "commit"} => repo = before.repo
    /\ op \in {"push", "create", "verify"} /\ before.repo.head = "topic"
           => repo.refs["topic"] # before.repo.refs["topic"]
    /\ op \in {"create", "verify"} => host.topic = repo.refs["topic"]

LEMMA PublishStep ==
  ASSUME TypeOK, PublishInv, [Next]_vars
  PROVE  /\ PublishInv'
         /\ Returns({"PUBLISHED"}) /\ before.repo.head = "topic"
                => /\ host'.topic = repo'.refs["topic"]
                   /\ host'.topic # before.repo.refs["topic"]
  <1>1. /\ repo \in Repositories /\ repo.file \in Content /\ repo.head \in Branch
        /\ repo.refs \in [Branch -> Content \cup {"missing"}]
        /\ host \in Hosts /\ op \in Ops /\ checked \in BOOLEAN /\ call \in Calls
    BY DEF TypeOK
  <1> USE <1>1 DEF PublishInv, Returns, Goto, Then, Finish, Kept, step
  <1>2. CASE \E c \in Calls : Start(c)
    BY <1>2 DEF Start
  <1>3. CASE Expire \/ Check
    BY <1>3 DEF Expire, Check, Expired
  <1>4. CASE PlanRefused \/ Preflight
    BY <1>4 DEF PlanRefused, Preflight, At
  <1>5. CASE Apply
    BY <1>5 DEF Apply, At
  <1>6. CASE Test \/ Rollback
    BY <1>6 DEF Test, Rollback, At
  <1>7. CASE Seed
    BY <1>7 DEF Seed, At
  <1>8. CASE DemoCommit
    BY <1>8 DEF DemoCommit, At
  <1>9. CASE Commit
    <2>1. /\ call' = call /\ before' = before /\ call = "publish" /\ repo = before.repo
          /\ \/ op' = "idle" /\ status' = "FAILED"
             \/ op' = "push" /\ status' = status
      BY <1>9 DEF Commit, At
    <2>2. CASE op' = "idle"
      BY <2>1, <2>2
    <2>3. CASE op' = "push"
      <3>1. repo' = Committed(repo) /\ repo.file # repo.refs[repo.head]
        BY <1>9, <2>3 DEF Commit, ToCommit
      <3>2. repo.head = "topic" => repo'.refs["topic"] = repo.file
        <4>1. Committed(repo).refs = [repo.refs EXCEPT ![repo.head] = repo.file]
          BY StagedType
        <4> QED BY <3>1, <4>1
      <3> QED BY <2>1, <2>3, <3>1, <3>2
    <2> QED BY <2>1, <2>2, <2>3
  <1>10. CASE Push
    BY <1>10 DEF Push, At
  <1>11. CASE CreatePullRequest \/ Verify
    BY <1>11 DEF CreatePullRequest, Verify, At
  <1>12. CASE Outside
    BY <1>12 DEF Outside, CopyFixture, Checkout, Stray
  <1>13. CASE Die
    BY <1>13 DEF Die
  <1>14. CASE UNCHANGED vars
    BY <1>14 DEF vars
  <1> QED
    BY <1>2, <1>3, <1>4, <1>5, <1>6, <1>7, <1>8, <1>9, <1>10, <1>11, <1>12, <1>13, <1>14
       DEF Next, Outside

\* A call that ends PUBLISHED on the branch of its plan has put a new commit
\* there and on the host.
THEOREM PublishedPushed == Spec => PublishedIsPushed
  <1>1. Init => PublishInv
    BY DEF Init, PublishInv
  <1>2. TypeOK /\ PublishInv /\ [Next]_vars => PublishInv'
    BY PublishStep
  <1>3. TypeOK /\ PublishInv /\ [Next]_vars
          => [Returns({"PUBLISHED"}) /\ before.repo.head = "topic"
                => /\ host'.topic = repo'.refs["topic"]
                   /\ host'.topic # before.repo.refs["topic"]]_vars
    BY PublishStep
  <1> QED BY <1>1, <1>2, <1>3, TypeCorrect, PTL DEF Spec, PublishedIsPushed
=============================================================================
