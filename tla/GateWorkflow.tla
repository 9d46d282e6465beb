------------------------------ MODULE GateWorkflow ------------------------------
(***************************************************************************)
(* The graph of workflows/publishing_gate_workflow.py from START to the    *)
(* validation gate, with the deterministic gates of control_gates.py, run  *)
(* again and again on the same ADK session: each task attempt and each     *)
(* resumed run is a pass that starts at START and keeps the session state. *)
(*                                                                         *)
(* `at` holds the nodes ADK has scheduled and not finished: one node, or   *)
(* the two branches of the read-only fork.  An agent is a language model:  *)
(* it writes any value of its output schema under its output_key, returns  *)
(* without an output (orchestration_nodes.py allows for it), or raises.    *)
(* The nodes after READY_FOR_PUBLISH belong to Publication: validation_-   *)
(* testing_gate raises whenever the gate passes, so no pass reaches them.  *)
(***************************************************************************)
EXTENDS Naturals, Sequences, FiniteSets

CONSTANTS
    NoValue,    \* a state key that no agent has written
    Answers,    \* what each agent whose answer reaches a gate may answer
    MaxPasses   \* bound: passes over the graph

DuplicateStatus == {"NO_DUPLICATE_FOUND", "DUPLICATE_FOUND", "RELATED_WORK_FOUND",
                    "INSUFFICIENT_EVIDENCE"}
Verdict == {"PASSED", "FAILED"}

Cause  == [confidence : {"LOW", "MEDIUM", "HIGH"},
           class : {"CONFIRMED", "STRONGLY_SUPPORTED", "POSSIBLE", "REJECTED", "UNKNOWN"},
           determined : BOOLEAN, facts : BOOLEAN, unknowns : BOOLEAN]
\* The repositories a plan says it will touch: of those discovered, others, both.
Plan   == [ready : BOOLEAN, declares : SUBSET {"DISCOVERED", "OTHER"}]
Review == [approved : BOOLEAN, checked : BOOLEAN, high : BOOLEAN]

\* The agents' output keys, and the schema of each output.
Output == [duplicate   |-> DuplicateStatus,
           evidence    |-> {"PRODUCED"},
           repository  |-> {"IDENTIFIED", "UNIDENTIFIED"},
           root_cause  |-> Cause,
           remediation |-> Plan,
           review      |-> Review,
           validation  |-> Verdict,
           test_result |-> Verdict]

ASSUME AnswersAssumption ==
    /\ DOMAIN Answers = DOMAIN Output
    /\ \A k \in DOMAIN Output : Answers[k] \subseteq Output[k]
ASSUME PassesAssumption == MaxPasses \in Nat

VARIABLES
    at,        \* nodes scheduled and not finished
    joined,    \* node_input of the JoinNode: what each branch of the fork gave
    out,       \* session state: the agents' outputs
    flags,     \* session state: terminal_status and autonomous_best_effort
    healing,   \* session state: the self-healing loop
    history,   \* session state: gate_history; its last is last_gate_decision
    stop,      \* session state: the decision recorded in autonomous_stop
    grants,    \* session state: authorizations, counted by who gave them
    auto,      \* auto-approve is on (.supportmaster/auto_approve.flag)
    pass,      \* number of this pass
    outcome    \* how the pass stands

session == <<out, flags, healing, history, stop, grants>>
vars    == <<at, joined, session, auto, pass, outcome>>

Branch == {"evidence", "repository"}

Writer == DOMAIN Output \ Branch

\* The unconditional edges.
Then == [ticket         |-> "investigation",
         investigation  |-> "duplicate",
         duplicate      |-> "duplicate_work_gate",
         root_cause     |-> "confidence_check",
         remediation    |-> "review",
         review         |-> "review_gate",
         code_change    |-> "implementation",
         implementation |-> "validation",
         validation     |-> "test_result",
         test_result    |-> "validation_gate"]

Decision(gate, route) == [gate |-> gate, route |-> route]

NoInput == [b \in Branch |-> "WAITING"]

Init ==
    /\ at = {}
    /\ joined = NoInput
    /\ out = [k \in DOMAIN Output \cup {"discovery"} |-> NoValue]
    /\ flags = [terminal |-> "NONE", bestEffort |-> FALSE]
    /\ healing = [attempts |-> 0, directive |-> 0, changes |-> 0, rollbacks |-> 0]
    /\ history = <<>>
    /\ stop = Decision("NONE", "NONE")
    /\ grants = [policy |-> 0, approval |-> 0]
    /\ auto = FALSE
    /\ pass = 0
    /\ outcome = "QUEUED"

-----------------------------------------------------------------------------
(* Scheduling                                                              *)

Finish(n, next) ==
    /\ n \in at
    /\ at' = (at \ {n}) \cup next

GateFinishes(n, gate, route, next) ==
    /\ Finish(n, next)
    /\ history' = Append(history, Decision(gate, route))

\* runner.run_async: the graph starts over on the session as it is.
StartPass ==
    /\ outcome # "RUNNING"
    /\ pass < MaxPasses
    /\ at' = {"ticket"}
    /\ pass' = pass + 1
    /\ outcome' = "RUNNING"
    /\ UNCHANGED <<joined, session, auto>>

\* A node raises, or the run is cancelled and run_async is left.
PassBreaks ==
    /\ at # {}
    /\ at' = {}
    /\ joined' = NoInput
    /\ outcome' = "BROKEN"
    /\ UNCHANGED <<session, auto, pass>>

-----------------------------------------------------------------------------
(* Agents                                                                  *)

\* Agents whose answers reach no gate.
AgentRuns(n) ==
    /\ n \in {"ticket", "investigation", "implementation"}
    /\ Finish(n, {Then[n]})
    /\ UNCHANGED <<joined, session, auto, pass, outcome>>

AgentAnswers(n) ==
    /\ n \in Writer
    /\ Finish(n, {Then[n]})
    /\ \E answer \in Answers[n] \cup {out[n]} : out' = [out EXCEPT ![n] = answer]
    /\ UNCHANGED <<joined, flags, healing, history, stop, grants, auto, pass, outcome>>

CodeChange ==
    /\ Finish("code_change", {"implementation"})
    /\ healing' = [healing EXCEPT !.changes = @ + 1]
    /\ UNCHANGED <<joined, out, flags, history, stop, grants, auto, pass, outcome>>

\* repository_discovery_node: passes through when the feature is off, and
\* otherwise selects repositories of the case, or none (as if it never ran).
Discovery ==
    /\ Finish("discovery", {"repository"})
    /\ \E found \in {"SELECTED", NoValue, out["discovery"]} :
         out' = [out EXCEPT !["discovery"] = found]
    /\ UNCHANGED <<joined, flags, healing, history, stop, grants, auto, pass, outcome>>

\* A branch of the fork reaches the JoinNode, which waits for both.
BranchReaches(b, given) ==
    /\ joined' = [joined EXCEPT ![b] = given]
    /\ Finish(b, IF \A c \in Branch : joined'[c] # "WAITING" THEN {"fan_in"} ELSE {})
    /\ UNCHANGED <<flags, healing, history, stop, grants, auto, pass, outcome>>

BranchAnswers(b) ==
    /\ BranchReaches(b, "OUTPUT")
    /\ \E answer \in Answers[b] : out' = [out EXCEPT ![b] = answer]

\* Mutant: a branch without an output never reaches the join.
BranchLost(b) ==
    /\ b \in Branch
    /\ Finish(b, {})
    /\ UNCHANGED <<joined, session, auto, pass, outcome>>

BranchSilent(b) ==
    /\ BranchReaches(b, "EMPTY")
    /\ UNCHANGED out

-----------------------------------------------------------------------------
(* Gates                                                                   *)

\* evaluate_duplicate_gate
DuplicateRoute(status) ==
    IF status \in {"NO_DUPLICATE_FOUND", "INSUFFICIENT_EVIDENCE"} THEN "CONTINUE"
    ELSE "SAFETY_STOP"

DuplicateWorkGate ==
    /\ LET route == DuplicateRoute(out["duplicate"]) IN
         GateFinishes("duplicate_work_gate", "DUPLICATE_WORK", route,
             IF route = "CONTINUE" THEN {"evidence", "discovery"} ELSE {"safety_stop"})
    /\ flags' = [flags EXCEPT !.bestEffort = @ \/ out["duplicate"] = "INSUFFICIENT_EVIDENCE"]
    /\ UNCHANGED <<joined, out, healing, stop, grants, auto, pass, outcome>>

\* investigation_evidence_fan_in reads the session, not its node_input.
Missing == {b \in Branch : out[b] = NoValue}

FanIn ==
    /\ GateFinishes("fan_in", "ORCHESTRATION",
           IF Missing = {} THEN "CONTINUE" ELSE "SAFETY_STOP",
           IF Missing = {} THEN {"root_cause"} ELSE {"safety_stop"})
    /\ joined' = NoInput
    /\ UNCHANGED <<out, flags, healing, stop, grants, auto, pass, outcome>>

\* harden_root_cause_analysis
Supported(cause, available) ==
    cause.determined /\ cause.class = "CONFIRMED" /\ cause.facts /\ ~cause.unknowns /\ available

Hardened(cause, available) ==
    IF cause.confidence # "HIGH" \/ Supported(cause, available) THEN cause
    ELSE [cause EXCEPT
             !.confidence = IF cause.class = "STRONGLY_SUPPORTED" /\ cause.facts
                            THEN "MEDIUM" ELSE "LOW",
             !.class = IF @ \in {"POSSIBLE", "UNKNOWN", "REJECTED"} THEN @ ELSE "POSSIBLE",
             !.unknowns = @ \/ ~available]

ConfidenceCheck ==
    /\ Finish("confidence_check", {"remediation"})
    /\ out' = IF out["root_cause"] = NoValue THEN out
              ELSE [out EXCEPT !["root_cause"] =
                       Hardened(@, out["repository"] = "IDENTIFIED")]
    /\ UNCHANGED <<joined, flags, healing, history, stop, grants, auto, pass, outcome>>

\* evaluate_review_gate.  An agent that never answered has no status and no
\* findings.
Approved   == out["review"] # NoValue /\ out["review"].approved
AllChecked == out["review"] # NoValue /\ out["review"].checked
HighAction == out["review"] # NoValue /\ out["review"].high
PlanReady  == out["remediation"] # NoValue /\ out["remediation"].ready

ReviewPasses ==
    /\ ~HighAction
    /\ \/ auto /\ (Approved \/ PlanReady)
       \/ Approved /\ AllChecked

ReviewGate ==
    /\ GateFinishes("review_gate", "REVIEW",
           IF ReviewPasses THEN "READY_FOR_IMPLEMENTATION" ELSE "SAFETY_STOP",
           IF ReviewPasses THEN {"authorization_gate"} ELSE {"safety_stop"})
    /\ UNCHANGED <<joined, out, flags, healing, stop, grants, auto, pass, outcome>>

\* _discovery_scope_violation: the loop over what the plan declares returns at the
\* first item that names a discovered repository, whatever the others name.
OutOfScope ==
    /\ out["discovery"] = "SELECTED"
    /\ out["remediation"] # NoValue
    /\ out["remediation"].declares = {"OTHER"}

\* Mutant: the policy follows the duplicate gate.
PolicyAllowsBestEffort ==
    /\ DuplicateRoute(out["duplicate"]) = "CONTINUE"
    /\ ReviewPasses
    /\ ~OutOfScope

\* evaluate_action_policy("IMPLEMENTATION"): the review is evaluated again, with
\* auto-approve as it is now.
PolicyAllows == out["duplicate"] = "NO_DUPLICATE_FOUND" /\ ReviewPasses /\ ~OutOfScope

\* issue_authorization: a grant that carries the id of the gate's own decision.
PolicyGrant == [grants EXCEPT !.policy = @ + 1]

AuthorizationGate ==
    /\ GateFinishes("authorization_gate", "IMPLEMENTATION_AUTHORIZATION",
           IF PolicyAllows THEN "READY_FOR_IMPLEMENTATION" ELSE "SAFETY_STOP",
           IF PolicyAllows THEN {"code_change"} ELSE {"safety_stop"})
    /\ grants' = IF PolicyAllows THEN PolicyGrant ELSE grants
    /\ UNCHANGED <<joined, out, flags, healing, stop, auto, pass, outcome>>

\* evaluate_validation_gate
Validated == out["validation"] = "PASSED" /\ out["test_result"] = "PASSED"

MaxHealing == 3

\* Mutant: one attempt too many.
HealingLeftInclusive == healing.attempts <= MaxHealing

HealingLeft == healing.attempts < MaxHealing

\* The gate refuses and there are attempts left.
RetryImplementation ==
    /\ ~Validated
    /\ HealingLeft
    /\ GateFinishes("validation_gate", "VALIDATION", "SAFETY_STOP", {"failure_diagnosis"})
    /\ healing' = [healing EXCEPT !.attempts = @ + 1]
    /\ UNCHANGED <<joined, out, flags, stop, grants, auto, pass, outcome>>

\* The gate refuses and there are none: a rollback receipt is appended.
HealingExhausted ==
    /\ ~Validated
    /\ ~HealingLeft
    /\ GateFinishes("validation_gate", "VALIDATION", "SAFETY_STOP", {"safety_stop"})
    /\ healing' = [healing EXCEPT !.rollbacks = @ + 1]
    /\ UNCHANGED <<joined, out, flags, stop, grants, auto, pass, outcome>>

\* The gate passes: `decision.status` does not exist, and the node raises after
\* it appended its decision, which ADK may or may not have saved by then.
ValidatedRaises ==
    /\ Validated
    /\ "validation_gate" \in at
    /\ at' = {}
    /\ history' \in {history, Append(history, Decision("VALIDATION", "READY_FOR_PUBLISH"))}
    /\ outcome' = "BROKEN"
    /\ UNCHANGED <<joined, out, flags, healing, stop, grants, auto, pass>>

\* diagnose_validation_failure: a failure is recorded with every attempt, and
\* there is a strategy for each.
FailureDiagnosis ==
    /\ Finish("failure_diagnosis", {"code_change"})
    /\ healing' = [healing EXCEPT !.directive = healing.attempts]
    /\ UNCHANGED <<joined, out, flags, history, stop, grants, auto, pass, outcome>>

-----------------------------------------------------------------------------
(* The end of a pass                                                       *)

LastDecision == history[Len(history)]

\* Mutant: a stop recorded by an earlier pass is kept.
SafetyStopOnce ==
    /\ Finish("safety_stop", {})
    /\ stop' = IF stop.gate = "NONE" THEN LastDecision ELSE stop
    /\ flags' = [flags EXCEPT !.terminal = "SAFETY_STOP"]
    /\ outcome' = "STOPPED"
    /\ UNCHANGED <<joined, out, healing, history, grants, auto, pass>>

SafetyStop ==
    /\ Finish("safety_stop", {})
    /\ stop' = LastDecision
    /\ flags' = [flags EXCEPT !.terminal = "SAFETY_STOP"]
    /\ outcome' = "STOPPED"
    /\ UNCHANGED <<joined, out, healing, history, grants, auto, pass>>

ScopesOf(gate) == {"IMPLEMENTATION"} \cup
    IF gate = "IMPLEMENTATION_AUTHORIZATION" THEN {} ELSE {"PUBLISH"}

\* check_safety_gates_and_handle_reviews with auto-approve on: the grants and
\* the cleared status reach the session.  The receipt of a rollback has a
\* status outside its schema, so the snapshot before it raises.
AutoApprove ==
    /\ auto
    /\ outcome = "STOPPED"
    /\ healing.rollbacks = 0
    /\ flags.terminal = "SAFETY_STOP"
    /\ grants' = [grants EXCEPT !.approval = @ + Cardinality(ScopesOf(stop.gate))]
    /\ flags' = [flags EXCEPT !.terminal = "NONE"]
    /\ UNCHANGED <<at, joined, out, healing, history, stop, auto, pass, outcome>>

\* POST /api/settings/auto-approve, at any time.
ToggleAutoApprove ==
    /\ auto' = ~auto
    /\ UNCHANGED <<at, joined, session, pass, outcome>>

-----------------------------------------------------------------------------
NodeStep ==
    \/ PassBreaks
    \/ \E n \in DOMAIN Then : AgentRuns(n) \/ AgentAnswers(n)
    \/ \E b \in Branch : BranchAnswers(b) \/ BranchSilent(b)
    \/ CodeChange
    \/ Discovery
    \/ DuplicateWorkGate
    \/ FanIn
    \/ ConfidenceCheck
    \/ ReviewGate
    \/ AuthorizationGate
    \/ RetryImplementation
    \/ HealingExhausted
    \/ ValidatedRaises
    \/ FailureDiagnosis
    \/ SafetyStop

Next ==
    \/ StartPass
    \/ NodeStep
    \/ AutoApprove
    \/ ToggleAutoApprove

Spec == Init /\ [][Next]_vars

\* Every model call returns or raises, and ADK runs the nodes it scheduled.
FairSpec == Spec /\ WF_vars(NodeStep)
=============================================================================
