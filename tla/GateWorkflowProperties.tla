------------------------- MODULE GateWorkflowProperties -------------------------
(***************************************************************************)
(* What the gates guarantee over all the passes of a run.                  *)
(***************************************************************************)
EXTENDS GateWorkflow

Gate  == {"DUPLICATE_WORK", "ORCHESTRATION", "REVIEW", "IMPLEMENTATION_AUTHORIZATION",
          "VALIDATION"}
Route == {"CONTINUE", "SAFETY_STOP", "READY_FOR_IMPLEMENTATION", "READY_FOR_PUBLISH"}

\* Nodes that may change source code, and the loop around them.
Implementing == {"code_change", "implementation", "validation", "test_result",
                 "validation_gate", "failure_diagnosis"}

Node == DOMAIN Then \cup Branch \cup Implementing \cup
        {"duplicate_work_gate", "discovery", "fan_in", "confidence_check",
         "review_gate", "authorization_gate", "safety_stop"}

OutOK ==
    /\ DOMAIN out = DOMAIN Output \cup {"discovery"}
    /\ \A k \in DOMAIN Output : out[k] \in Output[k] \cup {NoValue}
    /\ out["discovery"] \in {NoValue, "SELECTED"}

\* The type of every variable.
TypeOK ==
    /\ at \subseteq Node
    /\ joined \in [Branch -> {"WAITING", "OUTPUT", "EMPTY"}]
    /\ OutOK
    /\ flags \in [terminal : {"NONE", "SAFETY_STOP"}, bestEffort : BOOLEAN]
    /\ healing \in [attempts : Nat, directive : Nat, changes : Nat, rollbacks : Nat]
    /\ history \in Seq([gate : Gate, route : Route])
    /\ stop \in [gate : Gate \cup {"NONE"}, route : Route \cup {"NONE"}]
    /\ grants \in [policy : Nat, approval : Nat]
    /\ auto \in BOOLEAN
    /\ pass \in Nat
    /\ outcome \in {"QUEUED", "RUNNING", "STOPPED", "BROKEN"}

-----------------------------------------------------------------------------
(* Safety *)

\* No pass gets to the agents that change code unless a verified search found no
\* duplicate, the review left no serious finding to act on and approved the
\* change (or, under auto-approve, the plan was ready), and the plan does not
\* name other repositories only when some were discovered: not in best-effort
\* mode, not by way of the healing loop, not on the answers of an earlier pass,
\* and not when auto-approve is switched between the two gates that read it.
\* One discovered repository is enough, although _discovery_scope_violation
\* announces that every one a plan declares must be.
ChangesAreAuthorized == at \cap Implementing # {} =>
    /\ out["duplicate"] = "NO_DUPLICATE_FOUND"
    /\ ~HighAction
    /\ PlanReady \/ Approved
    /\ ~OutOfScope

\* A pass that stopped names, as the reason, the decision it stopped on: the last
\* of the history, and a refusal, whatever an earlier pass recorded.
StopIsExplained == outcome = "STOPPED" =>
    /\ stop = history[Len(history)]
    /\ stop.route = "SAFETY_STOP"

\* Over all passes of a run code is changed once for each grant of the policy, of
\* which a pass gets one at most, and three times more, each time after a
\* diagnosis that asks for a stronger strategy than the one before.
HealingBounded ==
    /\ healing.changes <= grants.policy + healing.directive
    /\ grants.policy <= pass
    /\ healing.directive <= 3

\* Remediation and everything after it sees a HIGH confidence only if the root
\* cause was confirmed by facts with no questions left and the repository that
\* this run last identified is available.
Reading == {"remediation", "review", "review_gate", "authorization_gate"} \cup Implementing

HighConfidenceIsEarned == at \cap Reading # {} /\ out["root_cause"] # NoValue =>
    \/ out["root_cause"].confidence # "HIGH"
    \/ Supported(out["root_cause"], out["repository"] = "IDENTIFIED")

-----------------------------------------------------------------------------
(* Liveness *)

\* Every pass ends: the join does not wait for a branch that gave nothing, and
\* the healing loop is left.
EveryPassEnds == outcome = "RUNNING" ~> outcome # "RUNNING"
=============================================================================
