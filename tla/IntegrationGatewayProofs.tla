------------------------ MODULE IntegrationGatewayProofs ------------------------
(***************************************************************************)
(* Theorems about the circuit breaker for every number of callers and every*)
(* failure threshold.  Inv adds to the properties what the breaker's fields*)
(* say of each other: a probe is marked only while the circuit is half     *)
(* open, and then the mark counts the calls that were let through.         *)
(***************************************************************************)
EXTENDS IntegrationGatewayProperties, TLAPS

MarkCountsProbes ==
    /\ state # "HALF_OPEN" => ~probe
    /\ state = "HALF_OPEN" => cooled /\ probes = (IF probe THEN 1 ELSE 0)

Inv == TypeOK /\ CircuitMatchesFailures /\ MarkCountsProbes

LEMMA InitInv == Init => Inv
  <1> SUFFICES ASSUME Init PROVE Inv
    OBVIOUS
  <1>1. TypeOK
    BY DEF Init, TypeOK
  <1>2. CircuitMatchesFailures
    BY ThresholdAssumption DEF Init, CircuitMatchesFailures
  <1>3. MarkCountsProbes
    BY DEF Init, MarkCountsProbes
  <1> QED BY <1>1, <1>2, <1>3 DEF Inv

LEMMA AllowInv ==
  ASSUME Inv, NEW c \in Caller, Allow(c)
  PROVE  Inv'
  <1> USE DEF Inv
  <1>1. CASE AdmitClosed
    BY <1>1 DEF Allow, AdmitClosed, CallerGoto, TypeOK, CircuitMatchesFailures, MarkCountsProbes
  <1>2. CASE AdmitProbe
    <2>1. state' = "HALF_OPEN" /\ probe' = TRUE /\ failures' = failures /\ cooled' = cooled
      BY <1>2 DEF Allow, AdmitProbe
    <2>2. TypeOK'
      BY <1>2 DEF Allow, AdmitProbe, CallerGoto, TypeOK
    <2>3. CircuitMatchesFailures'
      BY <1>2, <2>1 DEF AdmitProbe, Ready, CircuitMatchesFailures
    <2>4. cooled /\ probes' = 1
      <3>1. CASE Ready
        BY <1>2, <3>1 DEF AdmitProbe, Ready
      <3>2. CASE ~Ready
        BY <1>2, <3>2 DEF AdmitProbe, MarkCountsProbes
      <3> QED BY <3>1, <3>2
    <2> QED BY <2>1, <2>2, <2>3, <2>4 DEF MarkCountsProbes
  <1> QED BY <1>1, <1>2 DEF Allow

LEMMA CallInv ==
  ASSUME Inv, NEW c \in Caller, CallStep(c)
  PROVE  Inv'
  <1> USE DEF Inv
  <1>1. CASE PolicyBlocks(c) \/ PolicyAllows(c)
    BY <1>1 DEF PolicyBlocks, PolicyAllows, CallerGoto, TypeOK, CircuitMatchesFailures,
                MarkCountsProbes
  <1>2. CASE OperationReturns(c)
    <2>1. /\ state' = "CLOSED" /\ failures' = 0 /\ probe' = FALSE
          /\ cooled' = FALSE
      BY <1>2 DEF OperationReturns, Close
    <2>2. TypeOK'
      BY <1>2, <2>1 DEF OperationReturns, CallerGoto, TypeOK
    <2>3. CircuitMatchesFailures'
      BY <2>1, ThresholdAssumption DEF CircuitMatchesFailures
    <2> QED BY <2>1, <2>2, <2>3 DEF MarkCountsProbes
  <1>3. CASE OperationRaises(c)
    <2>1. failures' = Counted /\ Counted = failures + 1 /\ failures \in Nat /\ Threshold \in Nat
      BY <1>3, ThresholdAssumption DEF OperationRaises, CountFailure, Counted, TypeOK
    <2>2. failures' \in Nat /\ raised' \in Nat
      BY <1>3, <2>1 DEF OperationRaises, TypeOK
    <2>3. CASE Counted >= Threshold
      <3>1. state' = "OPEN" /\ cooled' = FALSE /\ probe' = FALSE
        BY <1>3, <2>3 DEF OperationRaises, CountFailure
      <3>2. TypeOK'
        BY <1>3, <2>2, <3>1 DEF OperationRaises, CallerGoto, TypeOK
      <3>3. ~(failures' < Threshold)
        BY <2>1, <2>3
      <3> QED BY <3>1, <3>2, <3>3 DEF CircuitMatchesFailures, MarkCountsProbes
    <2>4. CASE ~(Counted >= Threshold)
      <3>1. state' = state /\ cooled' = cooled /\ probe' = probe /\ probes' = probes
        BY <1>3, <2>4 DEF OperationRaises, CountFailure
      <3>2. TypeOK'
        BY <1>3, <2>2, <3>1 DEF OperationRaises, CallerGoto, TypeOK
      <3>3. failures < Threshold /\ failures' < Threshold
        BY <2>1, <2>4
      <3> QED BY <3>1, <3>2, <3>3 DEF CircuitMatchesFailures, MarkCountsProbes
    <2> QED BY <2>3, <2>4
  <1> QED BY <1>1, <1>2, <1>3 DEF CallStep

LEMMA NextInv == Inv /\ [Next]_vars => Inv'
  <1> SUFFICES ASSUME Inv, [Next]_vars PROVE Inv'
    OBVIOUS
  <1>1. CASE Observe
    BY <1>1 DEF Observe, Ready, Inv, TypeOK, CircuitMatchesFailures, MarkCountsProbes
  <1>2. CASE CoolDown
    BY <1>2 DEF CoolDown, Inv, TypeOK, CircuitMatchesFailures, MarkCountsProbes
  <1>3. CASE UNCHANGED vars \/ \E c \in Caller : Refuse(c)
    BY <1>3 DEF vars, Refuse, Inv, TypeOK, CircuitMatchesFailures, MarkCountsProbes
  <1> QED BY <1>1, <1>2, <1>3, AllowInv, CallInv DEF Next

LEMMA SpecInv == Spec => []Inv
  BY InitInv, NextInv, PTL DEF Spec

-----------------------------------------------------------------------------
\* Every variable keeps its type in every reachable state.
THEOREM TypeCorrect == Spec => []TypeOK
  BY SpecInv, PTL DEF Inv

\* The circuit is closed exactly while the failures since the last success are
\* fewer than the threshold, whatever order concurrent outcomes arrive in.
THEOREM CircuitCounts == Spec => []CircuitMatchesFailures
  BY SpecInv, PTL DEF Inv

\* However many callers race for a circuit that has cooled down, one probes it.
THEOREM SingleProbe == Spec => []OneProbePerRecovery
  <1>1. Inv => OneProbePerRecovery
    BY DEF Inv, MarkCountsProbes, OneProbePerRecovery
  <1> QED BY <1>1, SpecInv, PTL

\* No call passes an open circuit before its cooldown ends, nor a half-open one
\* past the probe that is under way.
THEOREM CircuitHolds == Spec => OpenCircuitHolds
  <1>1. Inv /\ [Next]_vars =>
          [\A c \in Caller : pc[c] = "idle" /\ pc'[c] # "idle" =>
             \/ failures < Threshold
             \/ cooled /\ ~probe]_vars
    <2> SUFFICES ASSUME Inv, Next, NEW c \in Caller, pc[c] = "idle", pc'[c] # "idle"
                 PROVE  failures < Threshold \/ (cooled /\ ~probe)
      OBVIOUS
    <2>1. Allow(c)
      BY DEF Next, Observe, CoolDown, Allow, Refuse, CallStep, PolicyBlocks, PolicyAllows,
             OperationReturns, OperationRaises, CallerGoto, vars, Inv, TypeOK
    <2> QED BY <2>1 DEF Allow, AdmitClosed, AdmitProbe, Ready, Inv, CircuitMatchesFailures,
                        MarkCountsProbes
  <1> QED BY <1>1, SpecInv, PTL DEF Spec, OpenCircuitHolds
=============================================================================
