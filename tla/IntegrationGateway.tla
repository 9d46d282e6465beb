--------------------------- MODULE IntegrationGateway ---------------------------
(***************************************************************************)
(* Concurrent calls of IntegrationGateway.execute (integrations/policy.py) *)
(* through one shared CircuitBreaker (operations/circuit_breaker.py).      *)
(*                                                                         *)
(* Every method of the breaker runs under its lock, so it is one step; the *)
(* gateway asks the breaker first, applies its own policy next, and tells  *)
(* the breaker about the outcome only when the operation was called.       *)
(***************************************************************************)
EXTENDS Naturals

CONSTANTS
    Caller,      \* threads that call execute, again and again
    Threshold,   \* failure_threshold
    MaxFailures  \* bound: operations that raise

ASSUME ThresholdAssumption == Threshold \in Nat \ {0}
ASSUME FailuresAssumption == MaxFailures \in Nat

VARIABLES
    state,      \* _state
    failures,   \* _failures
    cooled,     \* recovery_seconds have passed since _opened_at
    probe,      \* _probe_in_flight
    pc,         \* where each call of execute is
    admitted,   \* the breaker's state when it admitted the call
    probes,     \* calls admitted since the circuit last became HALF_OPEN
    raised      \* operations that raised so far

vars == <<state, failures, cooled, probe, pc, admitted, probes, raised>>

Circuit == {"CLOSED", "OPEN", "HALF_OPEN"}

Init ==
    /\ state = "CLOSED"
    /\ failures = 0
    /\ cooled = FALSE
    /\ probe = FALSE
    /\ pc = [c \in Caller |-> "idle"]
    /\ admitted = [c \in Caller |-> "CLOSED"]
    /\ probes = 0
    /\ raised = 0

-----------------------------------------------------------------------------
(* CircuitBreaker                                                          *)

\* _transition_if_ready: a transition to HALF_OPEN is due.
Ready == state = "OPEN" /\ cooled

\* The `state` property only makes the transition.
Observe ==
    /\ Ready
    /\ state' = "HALF_OPEN"
    /\ probe' = FALSE
    /\ probes' = 0
    /\ UNCHANGED <<failures, cooled, pc, admitted, raised>>

AdmitClosed == state = "CLOSED" /\ UNCHANGED <<state, probe, probes>>

\* Mutant: the probe is not marked as in flight.
AdmitUnmarkedProbe ==
    /\ Ready \/ (state = "HALF_OPEN" /\ ~probe)
    /\ state' = "HALF_OPEN"
    /\ probe' = FALSE
    /\ probes' = IF Ready THEN 1 ELSE probes + 1

AdmitProbe ==
    /\ Ready \/ (state = "HALF_OPEN" /\ ~probe)
    /\ state' = "HALF_OPEN"
    /\ probe' = TRUE
    /\ probes' = IF Ready THEN 1 ELSE probes + 1

\* Mutants: failures are counted anew while half open; a success in that state
\* is not believed.
CountedAnew == IF state = "HALF_OPEN" THEN 1 ELSE failures + 1
CloseUnlessHalfOpen ==
    /\ failures' = 0
    /\ cooled' = FALSE
    /\ UNCHANGED <<state, probe>>

Counted == failures + 1

Close ==
    /\ state' = "CLOSED"
    /\ failures' = 0
    /\ cooled' = FALSE
    /\ probe' = FALSE

\* A failure at or above the threshold opens the circuit, or opens it anew.
CountFailure ==
    /\ failures' = Counted
    /\ IF Counted >= Threshold
         THEN state' = "OPEN" /\ cooled' = FALSE /\ probe' = FALSE
         ELSE UNCHANGED <<state, cooled, probe>>

-----------------------------------------------------------------------------
(* IntegrationGateway.execute                                              *)

CallerGoto(c, label) == pc' = [pc EXCEPT ![c] = label]

\* allow_request makes the transition that is due and admits the call.
Allow(c) ==
    /\ pc[c] = "idle"
    /\ AdmitClosed \/ AdmitProbe
    /\ admitted' = [admitted EXCEPT ![c] = state']
    /\ CallerGoto(c, "policy")
    /\ UNCHANGED <<failures, cooled, raised>>

\* A call that is not admitted returns a BLOCKED receipt.
Refuse(c) ==
    /\ pc[c] = "idle"
    /\ (state = "OPEN" /\ ~cooled) \/ (state = "HALF_OPEN" /\ probe)
    /\ UNCHANGED vars

\* The payload limit, the allow-list and the dry-run mode refuse the call: the
\* receipt is BLOCKED and the breaker hears nothing.
PolicyBlocks(c) ==
    /\ pc[c] = "policy"
    /\ CallerGoto(c, "idle")
    /\ UNCHANGED <<state, failures, cooled, probe, admitted, probes, raised>>

PolicyAllows(c) ==
    /\ pc[c] = "policy"
    /\ CallerGoto(c, "operate")
    /\ UNCHANGED <<state, failures, cooled, probe, admitted, probes, raised>>

\* A receipt that says FAILED is returned like any other.
OperationReturns(c) ==
    /\ pc[c] = "operate"
    /\ Close
    /\ CallerGoto(c, "idle")
    /\ UNCHANGED <<admitted, probes, raised>>

OperationRaises(c) ==
    /\ pc[c] = "operate"
    /\ raised < MaxFailures
    /\ raised' = raised + 1
    /\ CountFailure
    /\ CallerGoto(c, "idle")
    /\ UNCHANGED <<admitted, probes>>

CoolDown ==
    /\ state = "OPEN"
    /\ ~cooled
    /\ cooled' = TRUE
    /\ UNCHANGED <<state, failures, probe, pc, admitted, probes, raised>>

CallStep(c) ==
    PolicyBlocks(c) \/ PolicyAllows(c) \/ OperationReturns(c) \/ OperationRaises(c)

Next ==
    \/ Observe
    \/ CoolDown
    \/ \E c \in Caller : Allow(c) \/ Refuse(c) \/ CallStep(c)

Spec == Init /\ [][Next]_vars

\* Time passes, the integrations stay in use and every call of them ends.
FairSpec ==
    /\ Spec
    /\ WF_vars(CoolDown)
    /\ WF_vars(Observe)
    /\ \A c \in Caller : WF_vars(Allow(c)) /\ WF_vars(CallStep(c))
=============================================================================
