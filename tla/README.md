# A verification project for SupportMaster

SupportMaster takes a support issue, runs it through a graph of LLM agents and
deterministic safety gates, and publishes a pull request when every gate agrees.
Around that graph stands a durable runtime: a SQLite store with a task queue,
leases and run controls, human review with resume tokens, admission control, a
circuit breaker for integrations, a rolling archiver and a telemetry stream.
This directory holds TLA+ models of that runtime, the TLC configurations that
check them and the proofs that TLAPS checks. Paths below are relative to the
repository, `supportmaster/...`.

## 1. The system

| Part | State it keeps | Operations | What is hard |
|---|---|---|---|
| Durable task queue: `persistence/run_store.py`, `runtime/durable_worker.py` | `task_queue`, `run_controls`, `task_checkpoints` rows; per worker a claimed snapshot, a heartbeat thread, a cancellation event | enqueue, claim, heartbeat, checkpoint, complete, fail, defer, cancel, pause/resume/cancel a run | leases that lapse under a working worker, reads and writes in different transactions, operator calls at any moment, worker deaths |
| Run state: `run_store.py`, `workflow_state.py` | `runs` (state, version), `run_events` | create, load, save, append event, plan replay | lost updates between a driver, a reviewer and a resume |
| Human review: `run_store.py`, `models/human_review.py` | `review_tasks`, `pending_human_review` and `authorizations` in the run state | open, expire, decide, resume | two reviewers, an expiry racing a decision, two resumes, two copies of one task |
| Web driver: `web.py` | admission slot, one worker, resume threads | start a run, open a review or auto-approve, resume | one step per driver, cross-run claims, several threads on one run, session snapshots over what an approval saved |
| Gate workflow: `workflows/*`, `control_gates.py` | session state: last gate decision, grants, healing attempts | the nodes and gates of the graph | the healing loop, what a stop reports, which path may publish |
| Executors: `execution/*` | the repository, its branches, the host; receipts | implement, test, roll back, commit, push, open a pull request | a grant that expires half-way, effects that answer too late, retries over what the last attempt left |
| Circuit breaker and gateway: `operations/circuit_breaker.py`, `integrations/policy.py` | breaker state, failures, probe slot | execute one integration call | late answers, a probe slot taken and never given back |
| Admission and rate limit: `operations/admission.py`, `rate_limiter.py` | the set of active runs, token buckets | admit, release, consume | a slot on every way out of a driver |
| Fork/join: `orchestration/*` | branch results, deadline, cancellation | waves of branches, join, merge | timeouts racing results, conflicting writes |
| Archiver: `archival/archiver.py` | case folders, zip files, `case_archives`, `archived_cases` | save bundle, archive, prune | two archivers, a crash between steps |
| Discovery: `investigation/discovery.py` | call budget of one call | list, search, score | the budget |
| Telemetry: `telemetry/*` | counters | record, export | nothing beyond a lock around each counter |
| Adapters, intake, planning, memory, security, pipeline tables, agents, record types | none, or a table written once | pure translation | nothing a model checker would add to tests |

How they interact: an HTTP request admits a run, and the web driver creates the
`runs` row and one task, then runs **one** worker step, whose handler is the gate
workflow. The handler writes events, telemetry and checkpoints through the same
store. When the workflow stops at a gate the driver opens a review, or approves by
itself, which enqueues a second task and starts a thread with a worker of its own.
The decide endpoint would do the same for a review whose token its caller holds. All of this shares one SQLite file
between threads and processes; there is no other synchronisation between them
than SQLite's, and Python's `sqlite3` opens a transaction at the first write
only. Every "SELECT, check, UPDATE" in the store is therefore two steps that
others can come between, except `claim_next_task`, which begins with
`BEGIN IMMEDIATE`.

What makes each part correct is stated as properties where it is modelled; the
hazards of `PROJECT.json` name, line by line, what those properties are for.

## 2. The modules

| Module | What it is |
|---|---|
| `TaskLifecycle` | abstract specification: what the queue promises about one task |
| `DurableQueue` | `task_queue`, `run_controls`, `task_checkpoints`, `DurableTaskWorker` and `_LeaseHeartbeat` |
| `DurableQueueProperties` | its type invariant, properties, the refinement, fairness and liveness |
| `DurableQueueProofs` | type correctness, safety, refinement and action properties |
| `HumanReview`, `HumanReviewProperties`, `HumanReviewProofs` | `review_tasks` and the run row, the decide and chat endpoints, `resume_run` |
| `IntegrationGateway`, `...Properties`, `...Proofs` | `CircuitBreaker` and `IntegrationGateway.execute` |
| `GateWorkflow`, `...Properties`, `...Proofs` | the publishing graph up to the validation gate, with `control_gates.py` |
| `BoundedSlots` | abstract specification: what admission control promises |
| `RunDriver`, `...Properties`, `...Proofs` | `run_workflow`, its handler and the resume threads of automatic approvals, over queue, runs, sessions and admission |
| `Execution`, `...Properties`, `...Proofs` | the two executors, their adapters and the golden path |
| `CaseArchiver`, `...Properties`, `...Proofs` | `RollingCaseArchiver` and its two tables |
| `ForkJoin`, `...Properties`, `...Proofs` | `ForkJoinExecutor.run` |
| `MC...`, one for each of the seven | the instances TLC checks |

Definitions marked "Mutant" in a module are plausible bugs of the definition
below them. No specification uses them; they show that each property can fail.

### DurableQueue

The atomic step is the SQLite statement or transaction, not the Python method.
`complete_task`, `fail_task`, `defer_task` and `cancel_task` are a read
(`CompleteRead`, `FailRead`, ...) and a write (`CompleteWrite`, ...);
`checkpoint_task` is two reads and an insert; `claim_next_task` is the one action
`Claim`, which also carries its expiry of every lapsed lease. Between the read and
the write of one worker every other worker, heartbeat thread and operator may act.

- `pc` is the line of `run_once` a worker is at; `job`, `lease` and `nextSeq` are
  its locals, `seen` the run control `_finish` or `_fail` read, `path` says whether
  an exception goes to `_fail` or out of `run_once`.
- `complete_task` and `fail_task` fence their UPDATE by status and owner;
  `defer_task` and `cancel_task` write by `task_id` alone. The model keeps that
  difference: `CompleteFence` and `FailFence` against the unconditional
  `DeferWrite` and `CancelWrite`.
- Time is two flags per row. `LeaseLapses` may set `lapsed` on any RUNNING row at
  any moment, which covers slow workers, suspended processes and clock steps.
- Faults: `WorkerDies` (nothing is released), `StoreRaises` (a locked database),
  `HeartbeatRaises`, `HandlerInterrupted` (a `BaseException`).
- `WorkerId` is a constant so that two call sites can share an id, as the resume
  workers of `web.py:3370` do. See *Observations*.

`TaskLifecycle` states what callers may rely on: one claim at a time, one attempt
per claim, a result only for the attempt that is current when it is stored. Its
action `Overwritten` is what the two unfenced writes leave of that promise: a
worker that held a task once can put it back or cancel it later. It is in the
abstract module because the code does it, and `LeaseIsExclusive` shows why it matters.

### HumanReview

One run and its reviews. `create_review_task` is three steps (insert, load, save);
a request is up to nine, because `get_review_task`, `decide_review_task` and
`resume_run` each read the row again and save whole rows. `copy[q]` is the
`HumanReviewTask` a request holds, `held[p]` the run state a thread loaded and has
not saved. `SaveSession` is a worker's ADK snapshot that overwrites the run at any
time. The run keeps only what review and resume touch: terminal status, pending
review, grants and decision history. Tokens are abstracted: a wrong token has the
effect of looking, which a VIEW request has. The openers are callers of the store that
keep the token they are given; the web driver, which does not, is modelled in
`RunDriver`.

### IntegrationGateway

Every breaker method holds the lock and is one step. `execute` is
`Allow`/`Refuse`, then `PolicyBlocks`/`PolicyAllows`, then
`OperationReturns`/`OperationRaises`, so calls admitted in one circuit state
finish in another. `probes` and `admitted` are history variables.

### GateWorkflow

A pass is one `run_async`; `at` holds its scheduled nodes, two of them while the
read-only fork is open. The session (`out`, `flags`, `healing`, `history`, `stop`,
`grants`) outlives the pass, since retries and resumed runs reuse it. An agent may
give any answer of its schema, none, or raise; its answer is a record of the fields
that gates read. `DuplicateRoute`, `Hardened`, `ReviewPasses`, `PolicyAllows` and
`Validated` translate the functions of `control_gates.py`. A remediation plan names
discovered repositories, others, both or none (`Plan.declares` is a set), and
`OutOfScope` refuses it as the code does: only when none of several is discovered. A
grant carries the uuid of the record appended with it; the model keeps the history in
order and what was granted, not that link.

That ADK restarts the graph at START on each `run_async` with the session state
kept, that it schedules a node's successors when the node ends, and that an agent
may end without an output are assumptions about the library (`Finish`, external).

The model ends where `validation_testing_gate` raises (`ValidatedRaises`): line 142
reads `decision.status`, which `GateDecision` does not have, as soon as the gate
passes, so no pass reaches the publication nodes.

### RunDriver

The composition: every thread of the web server that works on a run, over the one
queue, the rows and sessions of all runs and the admission set. A thread is a driver
(one for each run, from admission to the end of its lease) or a resume thread, started
by a handler that approved its run itself. `pc[th]` is the line a thread is at,
`job[th]` the task its worker was given, and `RunOf(th)` the run its closure is bound
to: two different things, because `claim_next_task` hands out the oldest task of any run.

Nothing here decides a review. `check_safety_gates_and_handle_reviews` drops what
`create_review_task` returns (`web.py:2190`), the store keeps a hash of the token only,
and `decide_review_task` asks for the token, so a review that the driver opened stays
undecided. Opening one is the four steps others can come between: insert
(`InsertReview`), load (`LoadRun`) and unconditional save (`SavePaused`) of
`create_review_task`, then the handler's own save (`OwnSave`). An automatic approval is
three: the session (`AutoApprove`), the run (`AutoSave`), and the task with the thread
(`AutoEnqueue`).

The queue appears here at the grain of whole operations, since `DurableQueue` has
their steps, leases and heartbeats; a lease lapses here only if no thread is left to
renew it (`Orphans`), and the operator is left out. Of the graph only its end is kept
(`Graph`: it stopped for safety, or not), of a review that it was opened. `copy` is
the handler's own `SupportMasterState`, `loaded` the one `create_review_task` loads;
`session` is ADK's, which overwrites the run in `Snapshot`. `Raise` stands for every
exception, split by what the code does with it, and `Restart` for the server process.
An approval is taken to grant at least one scope. A thread looks at its own run through
`mark_run_completed` and nothing else, so run ids being fresh uuids, a run has one
driver.

`BoundedSlots` is what `RunAdmissionController` promises; the mapping sees drivers
only by where they are and not the controller's set, so that a slot kept or given up
at the wrong moment breaks it.

### Execution

One action per adapter call, preceded by a `Check` of the grant of its own: `live`
may become FALSE between the two. The repository is the content of the one approved
file in the tree, the index and both branches, the branch checked out, and whether
another file was touched; the host is the remote branch and a count of pull requests.
Adapters fail in the ways their code allows: before their effect, after it (a commit or
a push that timed out), and, for `create_pull_request`, by reporting success without
one. A commit that `rev-parse` cannot name has SUCCEEDED without its id, and the call
goes on to the push. The test command may delete the approved file: `apply` then
refuses, `git add` fails once the deletion is staged, and `rollback` does not write the
snapshot back. Rollback is the one mutating call without a check of the grant; it is
counted as an effect like the others.

Between calls a developer may check either branch out, touch another file or copy the
fixture back. `Carries` and `Replaces` are git's two-way merge of one path: a checkout
keeps tree and index where the branches agree or the index agrees with the target,
replaces them where nothing was changed, and is refused otherwise. The developer and
`commit_demo_fix` use the same operators, so the demo commit whose checkout is refused,
and a publication that begins on `main` while the topic branch exists, are reachable.
The operators were compared with git itself on all combinations of branch, index and
tree. Calls follow one another; nothing in the code runs two on one repository, and the
web application passes no executor to the graph, so this is the library and the demo.

### CaseArchiver

Every file system call and transaction of `create_archive_bundle` that others can see
is a step: name (from the records and the folders at that moment), copy folder by
folder, open the zip (which empties it), fill it, record, index, remove folder by
folder. A case is saved in two steps, `case.json` first. `Abandon` is an exception or a
death at any of them. Two archivers that write one zip at once are taken to leave the
content of the last. The driver's own archiving never happens (see *Observations*), so
the archivers that run are requests to `/api/v1/archives/create`.

### ForkJoin

The caller's graph is chosen in `Init`, all of them. The depth-first search of
`_assert_acyclic` runs call by call: `stack` holds the calls of `visit()` under way,
the names `visiting` has, and `Visit`, `Leave` and `Refuse` are a call, its return and
its exception, the dependencies in any order. A wave's futures are the handlers of its
tasks: `handler[t]` goes on after the collector has given `t` up, as the thread does
since `shutdown(wait=False)`. Time is `late` and `expired[t]`, which pass at any
moment; `wait()` returns by `Gather` (something is done) or `GiveUp` (it timed out).
Handlers are opaque: they output a value for each key, raise, or hang.
The join merges each key branch by branch (`MergeUpTo`).

## 3. What is checked

Times are for two workers. "Violation" runs check one statement of the repository
that the code does not keep; each has an entry under `findings`.

| Run | Instance | Distinct states | What it shows |
|---|---|---|---|
| `queue_one_task` | 1 task, 2 attempts, 2 workers, 1 operator call, 1 fault, fair | 180,184 (30 s) | a worker that lost its lease never completes or fails the task of its successor, the retry budget holds, the queue implements `TaskLifecycle`, no task is held for ever, stopped runs fall quiet |
| `queue_two_runs` | 2 tasks of 2 runs, 1 attempt, 2 workers, 2 operator calls, 1 checkpoint | 2,606,121 (115 s) | the refinement with several rows per step; cancelling one run leaves the other alone |
| `review` | 1 review, 2 requests, 2 scopes, 1 death | 465,195 (45 s) | every grant traces to a saved approval, a paused run to a review; no approval is left behind without a death |
| `gateway` | 3 callers, threshold 2, 6 failures | 10,879 (3 s) | the circuit counts, admits one probe per recovery, and follows what it finds |
| `gates` | 2 passes, answers of `SomeAnswers` | 1,252,868 (130 s) | no change of code without authorisation; every stop is explained; healing is bounded; every pass ends |
| `driver` | 3 runs, 1 resume thread, 2 slots, depth 1, 2 attempts, 1 fault | 930,522 (30 s) | no slot leaks, the depth overshoots by a known amount, a run is completed by its own threads, these take turns, a run under review rests, and grants are lost in one place only |
| `execution` | 5 calls, 2 faults | 1,378,102 (30 s) | what a result promises about tree, branches and host; one late effect per call; no second pull request |
| `archiver` | 3 cases of 2 days, 1 archiver, batches of 2, 3 calls, 2 faults | 1,940,951 (30 s) | no case is lost, a folder stays until the index has its case, and the index is true, though names are given out again |
| `forkjoin` | 3 tasks, all 512 graphs, limit 2, 1 key, 2 values, fair | 799,500 (55 s) | cycles are refused, handlers stay within the limit and behind dependencies that succeeded, a skip has a failure upstream, the join is fail-closed, the run ends |
| `driver_runs_not_isolated` | 2 runs | violation | a driver settles another run's task with its own work |
| `archives_lose_case` | 1 case, 2 archivers | violation | the second request empties the zip of the first after the folder is gone |
| `lease_taken_by_stale_release` | 1 task, 2 workers | violation | `cancel_task`/`defer_task` end a lease another worker holds |

**Properties worth reading first.** `Fenced` (a worker that still passes the lease
check works on the current attempt), `RetryBudget` (pauses and lapses together
never buy an attempt that no deferral paid for), `LeaseRespected` and the theorem
about `SettledStays` (what exactly the unfenced writes can do), `GrantsBacked` (a grant
traces to a saved approval of that review even when a rejection or an expiry
overwrites it), `OneProbePerRecovery` with late answers, `ChangesAreAuthorized`
(over passes, stale answers and a switch of auto-approve between two gates),
`HealingBounded` (changes of code against grants and directives, over passes),
`CompletedRunRan`, `HandlersTakeTurns` and `GrantsLostOnlyUntold` (what survives of a
run's isolation although its tasks do not), `ReviewedRunRests` (even where opening the
review failed half way), `DepthOvershootBounded` (what an unlocked check costs),
`FailureRestoresFile` (and the one case in which it cannot),
`UntestedFixIsExcused` (over deaths, retries and both executors), `IndexedIsZipped`
(over interrupted batches whose names are given out again), `SkippedBehindFailure`
(in an acyclic group the waves never get stuck), `JoinIsFailClosed`.

A run checks what needs a checker. Type correctness, `LeaseIffRunning`,
`ResultOfLatestAttempt`, `FailedOnlyWhenExhausted`, `SettledStays`, `ScopesBounded`,
`SettledReviewStays`, `OpenCircuitHolds` and `HighConfidenceIsEarned` are theorems
(section 4) for every value of the constants and are not checked again.

**Bounds.** Two workers suffice for every race of the queue, since each is between
one that holds a stale snapshot and one that holds the row; two attempts are the
least that let one lease lapse and another attempt run to its end; two operator
calls (`queue_two_runs`) allow pause-then-resume and pause-then-cancel during one
attempt, one (`queue_one_task`) is what liveness leaves time for. Checkpoints do not
touch the columns the safety properties read, so `queue_one_task` does without. Two requests and one review cover two deciders,
decide against expiry, and two resumes. Three callers with threshold two give a
probe, a rival and a late answer; six failures let the circuit open, reopen after a
failed probe and open once more. Two passes let every answer of the first be stale
in the second; `SomeAnswers` has a passing and a failing value of each field a gate
tells apart. Three runs and two slots let a driver be refused, two overlap
between the depth check and the enqueue, and one claim the task of another; the resume
thread makes two threads work on one run; the second attempt and the fault give an
orphaned task to a later driver. Five executor calls let
a fix be applied, left untested, found by the golden path, published and published again. Three
cases, a batch of two and three calls give a batch, a rest and an interrupted one that
is named again; two days make the name depend on the cases. Three tasks give chains,
diamonds' halves and cycles of every length up to three, and two of three make a second
wave. `MaxOperatorCalls`, `MaxFaults`, `MaxCheckpoints`, `MaxFailures`, `MaxPasses`,
`MaxCalls` and the number of automatic approvals (`Slot`, in `MayApprove`) are the only bounds
in guards; the code has none of them. All counters are bounded through them.

**Fairness.** *Queue*: the steps of a handler, of its checkpoints and of a release are
taken, and a lease that no thread renews lapses. Nothing is assumed of claims,
heartbeats or backoffs: no code of the repository polls the queue (a request claims
once, `web.py:3319`), so that a waiting task is ever taken again is not a property of
this code, and `LeasesEnd` says no more than that no task is held for ever. No fairness
for faults, enqueueing or the operator either. *Review*: a request or `create_review_task` that is under way goes on;
nobody has to ask. *Gateway*: time passes, callers keep calling and every call ends.
*Gates*: ADK runs what it scheduled and a model call
returns or raises. *Fork/join*: the collecting thread runs and the group's deadline
passes; handlers may hang for ever and no timeout need pass. No run needs strong
fairness. The driver, the executors and the archiver have safety properties only: no
loop of the code brings the next request. `CHECK_DEADLOCK FALSE` stands in their
configurations and in that of fork/join, whose requests, calls or group come to an
end; in the other models some operator, observer or toggle step is left.

## 4. What is proved

TLAPS checks the theorems below for every number of tasks, runs, workers,
reviews, requests, scopes, callers, answers, passes, drivers, approvals, limits,
calls and faults; for every dependency graph, and every set of keys, values, cases
and days.

| Theorems | Assume | Inductive invariant and why it is needed |
|---|---|---|
| `DurableQueueProofs!TypeCorrect` | the constants' assumptions | `TypeOK` with two clauses that tie `pc`, `job` and `hb` together: a write after the lease check needs a job |
| `LeaseTracksStatus`, `Fencing`, `ResultIsCurrent`, `BudgetKept`, `NoEarlyFailure` | `DistinctIds` | the five properties, `ClaimNotAhead` (a snapshot is never newer than its row), `DecisionFits` (what `fail_task` computed from its read is still right at its write, if the fence lets it write) and `Unborn` |
| `CancellationsStayInRun` | the constants' assumptions | type correctness alone: who writes CANCELLED to a waiting row, step by step |
| `Refinement`, `SettledTasksStay`, `LiveLeasesRespected` | `DistinctIds` | the same; each step is mapped, task by task, to a step of `TaskLifecycle` or a stutter. `CompleteWrite` needs `Fenced` for the result to be the current attempt's |
| `HumanReviewProofs`: `TypeCorrect`, `GrantsBounded`, `GrantsTraceable`, `PausesAnswerable`, `SettledReviewsStay` | the constants' assumptions | a decision travels row, copy, run, loaded run and back, so the invariant says of each place what the property says of the run: rows, copies and states are `Backed` |
| `IntegrationGatewayProofs`: `TypeCorrect`, `CircuitCounts`, `SingleProbe`, `CircuitHolds` | threshold at least one | `MarkCountsProbes`: the mark is set only while half open, where it counts the calls let through |
| `GateWorkflowProofs`: `TypeCorrect`, `ChangesAuthorized`, `ConfidenceEarned`, `StopsExplained`, `HealingIsBounded` | answers within their schemas | `Shape` (one node at a time except inside the fork, and nothing joined outside it), without which an agent could overwrite an answer after the gate read it; `Refused` (a pass at `safety_stop` has a refusal last in its history); `HealingBudget` (which nodes have spent the current attempt) |
| `RunDriverProofs`: `TypeCorrect`, `SlotsExact`, `SlotsRefinement` | finite sets, positive limits | `TypeOK` with the clause that a thread holds a task of the queue exactly inside the worker step, and that an approval under way has a run (`BoundRun`); the refinement needs `active = Inside` and its cardinality |
| `CompletedRan` | the same | `RanInv`: past `graph` a thread's run has run |
| `TakeTurns`, `ReviewRests` | the same | `ChainInv`: a resume thread that has not started belongs to no run, and of the threads of a run at most one is before its last save; once the review is inserted none is left before the approval. A task handed out again goes to a thread of another run or to none |
| `GrantsLost` | the same | `GrantInv`: between the snapshot and its last save a thread's copy, what it has loaded and the row agree about the grants, since by `TakeTurns` no other thread saves that run |
| `DepthOvershoot` | the same | `HeldInv` (a task is held by one thread, which keeps it RUNNING) and `DepthInv`: tasks that count, drivers that have read the depth and not enqueued, and those admitted besides them stay within the bound together; the property alone is not inductive, since a driver past the check still adds a task |
| `ExecutionProofs`: `TypeCorrect`, `LateEffects`, `LocalFailures`, `PullRequests`, `UntestedFixes`, `FailuresRestoreFile`, `PublishedPushed` | none beyond the bounds being numbers | per place in a call, what has happened since it began: the host is untouched before `push`, between `apply` and `rollback` the snapshot is the file as it was, a checkout puts no content in the tree that was on no branch (`CheckedOutType`), a late effect is spent only by an operation already checked, and a commit that was made and not yet used up pays for the pull request to come |
| `ForkJoinProofs`: `TypeCorrect`, `RefusesExactlyCycles` | at least one task, a positive limit | `SearchInv`: the calls under way are a path without repetition, disjoint from what is visited, and what is visited is closed under dependencies and has no circle in it. A refused group then has the circle from the task met again to the end of the path, and an accepted one, all of it visited, has none |
| `RunsBoundedConcurrency` | the same | `PoolInv`: the running handlers are of the wave while it is collected, and none runs outside a wave before the deadline, after which no wave starts; the bound alone is not inductive |
| `ResultsAreFinal`, `StartsAfterDependencies` | the same | `ResultInv`: the tasks of a wave have no result yet |
| `SkipsOnlyBehindFailures` | the same | the property with `SearchInv` and `ResultInv`. If no pending task is ready, the pending tasks upstream of one would be a circle unless one of them waits for a failure, and `_assert_acyclic` has excluded circles |
| `JoinsFailClosed` | the same | `ResultInv` (who succeeded has returned, so that no late handler has an output to change) and what the merge computes: after n branches a key is in conflict exactly if two of them disagree |
| `CaseArchiverProofs`: `TypeCorrect` | finitely many cases | who is about to index cases has a record, the last one of its own |
| `UnindexedCasesStay` | the same | a folder is removed only of a case that is in the index, which no archiver takes out again: with any number of archivers, a case is lost through its zip or not at all |
| `NoCaseIsLost`, `IndexTellsTruth`, `RecordsDoNotShareZips`, `IndexOnlyGrows` | `OneArchiver` | `Inv`: the number in a zip's name is the place of its record, or past the last one while it is written, so no zip the index relies on is opened again, whatever died before; and per step what the batch can rely on (its folders, its copy, its zip, its record) |

`DistinctIds` is an assumption the default uuid of `DurableTaskWorker` justifies and
the web driver's resume workers break. `OneArchiver` (requests to
`/api/v1/archives/create` come one after another) is nothing the server enforces, and
`archives_lose_case` shows that it is needed. The theorems name both in their
statement.

`PoolInv`, `SearchInv`, `ResultInv` and the archiver's `Inv` were checked by TLC on the
instances of section 3 before they were proved.

Some computations of the code go through data: the search visits a graph, the merge
folds branches, names take the first and the last of some days. The search is steps of
the specification, so its invariant is an ordinary one. The merge is a recursive
function over the branches; that it has a solution, and what the solution is, is proved
by a least counterexample (`BoundedInduction`, from the well-foundedness of the natural
numbers), as is that a finite set of days has a last one (`GreatestNumber`).

Only model-checked: all liveness (`LeasesEnd`, `StoppedRunsQuiesce`,
`NoApprovalLeftBehind`, `ProbeDecides`, `EveryPassEnds`, `RunEnds`), which is out of the
prover's reach, as are ENABLED and fairness. Every invariant and action property that a
passing run checks is a theorem.

## 5. Observations

Seen while modelling and not kept as runs of their own:

- A remediation plan passes the scope check as soon as one of the repositories it
  declares was discovered (`control_gates.py:163-168`); the function's docstring
  (`:133-138`) and `README.md:20-21` refuse plans that target others. `ChangesAreAuthorized`
  therefore says "not wholly outside", and mixed plans are in the model.
- The review a driver opens can never be decided: its token is dropped at
  `web.py:2190`, only a hash of it is stored, and deciding asks for it
  (`web.py:2854`, `run_store.py:1001`).
- `create_review_task` loads the run and saves it without comparing versions
  (`run_store.py:938-956`). A caller that keeps the token could have its review decided
  between the two, and the approval overwritten; in the driver this cannot happen.
- Rollback asks for no grant (`engineering.py:88`), though
  `docs/state-contract.md:139-141` speaks of every mutating boundary; and it is refused
  when the test run has deleted the file (`local_demo.py:120`), though the docstring
  (`:12`) promises it without condition.
- `README.md:354-356` says the deployment script deploys a durable worker;
  `scripts/deploy-cloudrun.ps1` deploys the web service only. A task left in RETRY_WAIT
  waits for the next request.
- `defer_task` says a deferral does not consume an attempt (`run_store.py:783`),
  and `claim_next_task` has counted it; `RetryBudget` states what holds instead.
- `complete_task` appends `TASK_COMPLETED` and reports success even when its fenced
  UPDATE matched no row (`run_store.py:736`).
- With one `worker_id` for two workers (`web.py:3370`) a late completion passes the
  fence and stores an old attempt's result under the new attempt.
- Two approvals of one review can both pass the check of `resume_run`
  (`run_store.py:1028`), so a run can be resumed, and re-enqueued, twice.
- Concurrent checkpoints of a stale and a current worker are numbered by insertion
  order, so the last one need not be the newest attempt's (`run_store.py:667`).
- When healing is exhausted the node appends a rollback receipt with a status
  outside its Literal (`publishing_gate_workflow.py:157`); no rollback is executed,
  and the state snapshot that follows (`web.py:3298`) does not validate.
- After an exception of the runner the web driver fabricates a finished run,
  "Pull Request Staged Successfully" (`web.py:3272`), and marks it COMPLETED.
- A task whose worker dies while its run is being cancelled goes back to RETRY_WAIT at
  the expiry (`run_store.py:601`), where no claim takes it and nothing cancels it; it
  counts in `active_queue_depth` for good.
- `resume_run` marks the review RESUMED in one transaction and saves the run in the
  next (`run_store.py:1043`): a death in between leaves a paused run without a review.
- A probe that the gateway's own policy refuses is never given back
  (`integrations/policy.py:74`); the circuit then stays half open and refuses all.
- The evidence fan-in looks for its inputs in the session (`orchestration_nodes.py:15`),
  so a branch that gives nothing in a later pass is not missed.
- A validation gate that passes raises `AttributeError`
  (`publishing_gate_workflow.py:142`).
- The driver marks a run COMPLETED even when it has opened a review for it, or approved
  it and enqueued a task "to continue execution automatically" (`web.py:3327`,
  `web.py:2171`); that task is not claimable from then on.
- `check_safety_gates_and_handle_reviews` means to write the review to the session, but
  calls a method the service does not have and swallows the error (`web.py:2202`); in
  the same way an automatic approval may miss the session, and the next snapshot then
  takes its grants away (`GrantsLostOnlyUntold`).
- The driver's archiving reads `state`, a local of its handler (`web.py:3346`); the
  `NameError` is swallowed and no completed run is ever saved as a case.
- `create_pull_request` answers SUCCEEDED with the number "1" when the host refuses
  (`execution/adapters.py:234`), so PUBLISHED does not mean that there is one.
- A publication that failed after its commit asks for RETRY_PUBLICATION
  (`execution/publication.py:186`), and every retry fails at the commit, which has
  nothing to commit.
- `commit` goes to the branch that is checked out and `push` sends the plan's branch
  (`execution/publication.py:116`); nothing compares them, which is why
  `PublishedIsPushed` speaks of calls that begin on the plan's branch.
- A golden path that dies between the change and its test leaves the fix in the tree,
  and the next one commits it as "Baseline demo fixture" (`local_demo.py:161`).
- `_main` copies the defective fixture over the branch the last run left checked out,
  so the next baseline commit puts the defect on the fix branch (`local_demo.py:295`).
- A case whose folder survives its prune, after a death between index and prune, is
  kept for ever: the index hides it (`archiver.py:135`).
- A case that is archived while its bundle is being written loses the artifacts still
  to come (`archiver.py:138`).
- A fork task that was given up stays among the futures waited for, with a timeout of
  zero, so the collector spins until the handler ends or the deadline passes
  (`fork_join.py:209`); the branch that would call it CANCELLED is never reached.
- Test results of an earlier attempt stay in the session, so a testing agent that
  gives no output leaves the gate to read the old verdict.

## 6. What is not modelled

`PROJECT.json` lists every component with the reason.

- Prompts (16,000 lines in `agents/`), record types, the HTML and JavaScript of
  `web.py`, HTTP adapters, scoring, configuration and text rules have no control flow
  for a model checker. They are most of the repository's lines, which is why the map
  covers a small share of them.
- The rate limiter is one expression under one lock; `telemetry/audit.py` computes a
  hash chain on export from the stored events, a pure function; discovery is one
  sequential call whose budget its workspace-wide searches do not spend.
- The version number of `runs`: no caller passes `expected_version`, so its check
  never refuses a save. `run_events` only grows and is read for display.
- The nodes of the graph after `READY_FOR_PUBLISH`, which no pass reaches;
  `implementation_gate_workflow.py` and `duplicate_gate_workflow.py`, earlier cuts of
  the same graph.
- Several tenants: every table, folder and session is divided by tenant.

What would come next: an abstract archive, in which a batch changes from folders to a
zip in one step, that one archiver implements; `RunDriver` over the steps of
`DurableQueue` instead of its operations, with the shared worker id of resume threads.
