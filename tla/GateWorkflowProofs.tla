--------------------------- MODULE GateWorkflowProofs ---------------------------
(***************************************************************************)
(* Proofs about GateWorkflow: the types of its variables, the shape of a   *)
(* pass (one node at a time except in the fork), and from it what the      *)
(* gates guarantee, for every set of answers and every number of passes.   *)
(***************************************************************************)
EXTENDS GateWorkflowProperties, FiniteSetTheorems, TLAPS

Fork == Branch \cup {"discovery"}

\* The keys of the edge table and of the outputs.
LEMMA Tables ==
    /\ DOMAIN Then = {"ticket", "investigation", "duplicate", "root_cause", "remediation",
                      "review", "code_change", "implementation", "validation", "test_result"}
    /\ DOMAIN Output = {"duplicate", "evidence", "repository", "root_cause",
                        "remediation", "review", "validation", "test_result"}
    /\ Writer = {"duplicate", "root_cause", "remediation", "review", "validation",
                 "test_result"}
  BY DEF Then, Output, Writer, Branch

\* An unconditional edge leads to a node that is no part of the fork.
LEMMA Edges == \A n \in DOMAIN Then :
    /\ n \notin Fork \cup {"fan_in", "safety_stop"}
    /\ Then[n] \in Node \ (Fork \cup {"fan_in", "safety_stop"})
  BY Tables DEF Then, Node, Fork, Branch, Implementing

-----------------------------------------------------------------------------
(* Types.  The reason of a stop is the last decision of the history, which *)
(* has one by the time safety_stop runs.                                   *)

Record == [gate : Gate, route : Route]

TypeFlow ==
    /\ at \subseteq Node
    /\ joined \in [Branch -> {"WAITING", "OUTPUT", "EMPTY"}]
    /\ auto \in BOOLEAN
    /\ pass \in Nat
    /\ outcome \in {"QUEUED", "RUNNING", "STOPPED", "BROKEN"}

TypeData ==
    /\ OutOK
    /\ flags \in [terminal : {"NONE", "SAFETY_STOP"}, bestEffort : BOOLEAN]
    /\ healing \in [attempts : Nat, directive : Nat, changes : Nat, rollbacks : Nat]

TypeLog ==
    /\ history \in Seq(Record)
    /\ stop \in [gate : Gate \cup {"NONE"}, route : Route \cup {"NONE"}]
    /\ grants \in [policy : Nat, approval : Nat]

StopHasReason == "safety_stop" \in at => history # <<>>

TInv == TypeFlow /\ TypeData /\ TypeLog /\ StopHasReason

LEMMA InitTypes == Init => TInv
  <1> SUFFICES ASSUME Init PROVE TInv
    OBVIOUS
  <1>1. TypeFlow
    BY DEF Init, TypeFlow, NoInput
  <1>2. OutOK
    <2>1. out = [k \in DOMAIN Output \cup {"discovery"} |-> NoValue]
      BY DEF Init
    <2>2. QED BY <2>1 DEF OutOK
  <1>3. TypeData
    BY <1>2 DEF Init, TypeData
  <1>4. TypeLog
    BY DEF Init, TypeLog, Decision
  <1>5. StopHasReason
    BY DEF Init, StopHasReason
  <1> QED BY <1>1, <1>3, <1>4, <1>5 DEF TInv

\* A decision recorded at the end of a gate keeps the log typed.
LEMMA GateTypes ==
  ASSUME TInv, NEW n, NEW gate \in Gate, NEW route \in Route, NEW next \in SUBSET Node,
         GateFinishes(n, gate, route, next)
  PROVE  /\ at' \subseteq Node
         /\ history' \in Seq(Record)
         /\ history' # <<>>
         /\ Len(history') = Len(history) + 1
         /\ history'[Len(history')] = Decision(gate, route)
  <1>1. Decision(gate, route) \in Record
    BY DEF Decision, Record
  <1>2. history \in Seq(Record) /\ history' = Append(history, Decision(gate, route))
    BY DEF TInv, TypeLog, GateFinishes
  <1>3. at' \subseteq Node
    BY DEF TInv, TypeFlow, GateFinishes, Finish
  <1> QED BY <1>1, <1>2, <1>3

\* Values of the agents' answers have the types of their output keys.
LEMMA AnswerTypes ==
  ASSUME OutOK, NEW k \in DOMAIN Output, NEW v \in Output[k] \cup {NoValue},
         out' = [out EXCEPT ![k] = v]
  PROVE  OutOK'
  <1>1. "discovery" \notin DOMAIN Output
    BY Tables
  <1>2. out'["discovery"] = out["discovery"] /\ DOMAIN out' = DOMAIN out
    BY <1>1 DEF OutOK
  <1>3. \A j \in DOMAIN Output : out'[j] = IF j = k THEN v ELSE out[j]
    BY DEF OutOK
  <1>4. \A j \in DOMAIN Output : out'[j] \in Output[j] \cup {NoValue}
    BY <1>3 DEF OutOK
  <1> QED BY <1>2, <1>4 DEF OutOK

\* Hardening keeps a root cause a root cause.
LEMMA HardenedTypes ==
  ASSUME NEW cause \in Cause, NEW available \in BOOLEAN
  PROVE  Hardened(cause, available) \in Cause
  BY DEF Hardened, Cause

\* An approval gives one scope or two.
LEMMA ApprovalTypes ==
  ASSUME TypeLog, AutoApprove
  PROVE  /\ grants' \in [policy : Nat, approval : Nat]
         /\ grants'.policy = grants.policy
  <1>1. ScopesOf(stop.gate) = {"IMPLEMENTATION"} \/ ScopesOf(stop.gate) = {"IMPLEMENTATION", "PUBLISH"}
    BY DEF ScopesOf
  <1>2. Cardinality(ScopesOf(stop.gate)) \in Nat
    <2>1. CASE ScopesOf(stop.gate) = {"IMPLEMENTATION"}
      BY <2>1, FS_Singleton
    <2>2. CASE ScopesOf(stop.gate) = {"IMPLEMENTATION", "PUBLISH"}
      <3>1. IsFiniteSet({"IMPLEMENTATION"})
        BY FS_Singleton
      <3>2. IsFiniteSet({"IMPLEMENTATION"} \cup {"PUBLISH"})
        BY <3>1, FS_AddElement
      <3> QED BY <2>2, <3>2, FS_CardinalityType DEF ScopesOf
    <2> QED BY <1>1, <2>1, <2>2
  <1>3. grants \in [policy : Nat, approval : Nat]
        /\ grants' = [grants EXCEPT !.approval = @ + Cardinality(ScopesOf(stop.gate))]
    BY DEF TypeLog, AutoApprove
  <1> QED BY <1>2, <1>3

LEMMA NodeStepTypes ==
  ASSUME TInv, NodeStep
  PROVE  TInv'
  <1>1. CASE PassBreaks
    BY <1>1 DEF PassBreaks, session, NoInput, TInv, TypeFlow, TypeData, TypeLog, OutOK,
       StopHasReason
  <1>2. CASE \E n \in DOMAIN Then : AgentRuns(n)
    <2>1. PICK n \in DOMAIN Then : AgentRuns(n)
      BY <1>2
    <2>2. at' \subseteq Node /\ ("safety_stop" \in at' => "safety_stop" \in at)
      BY <2>1, Edges DEF AgentRuns, Finish, TInv, TypeFlow
    <2>3. QED
      BY <2>1, <2>2 DEF AgentRuns, session, TInv, TypeFlow, TypeData, TypeLog, OutOK,
         StopHasReason
  <1>3. CASE \E n \in DOMAIN Then : AgentAnswers(n)
    <2>1. PICK n \in DOMAIN Then : AgentAnswers(n)
      BY <1>3
    <2>2. at' \subseteq Node /\ ("safety_stop" \in at' => "safety_stop" \in at)
      BY <2>1, Edges DEF AgentAnswers, Finish, TInv, TypeFlow
    <2>3. n \in DOMAIN Output
      BY <2>1, Tables DEF AgentAnswers
    <2>4. OutOK'
      <3>1. PICK v \in Answers[n] \cup {out[n]} : out' = [out EXCEPT ![n] = v]
        BY <2>1 DEF AgentAnswers
      <3>2. v \in Output[n] \cup {NoValue}
        BY <2>3, <3>1, AnswersAssumption DEF TInv, TypeData, OutOK
      <3> QED BY <2>3, <3>1, <3>2, AnswerTypes DEF TInv, TypeData
    <2>5. QED
      BY <2>1, <2>2, <2>4 DEF AgentAnswers, TInv, TypeFlow, TypeData, TypeLog, StopHasReason
  <1>4. CASE \E b \in Branch : BranchAnswers(b) \/ BranchSilent(b)
    <2>1. PICK b \in Branch, given \in {"OUTPUT", "EMPTY"} :
            BranchReaches(b, given) /\ (BranchAnswers(b) \/ BranchSilent(b))
      BY <1>4 DEF BranchAnswers, BranchSilent
    <2>2. at' \subseteq Node /\ ("safety_stop" \in at' => "safety_stop" \in at)
      BY <2>1 DEF BranchReaches, Finish, TInv, TypeFlow, Node
    <2>3. joined' \in [Branch -> {"WAITING", "OUTPUT", "EMPTY"}]
      BY <2>1 DEF BranchReaches, TInv, TypeFlow
    <2>4. b \in DOMAIN Output
      BY Tables DEF Branch
    <2>5. OutOK'
      <3>1. CASE BranchAnswers(b)
        <4>1. PICK v \in Answers[b] : out' = [out EXCEPT ![b] = v]
          BY <3>1 DEF BranchAnswers
        <4>2. v \in Output[b] \cup {NoValue}
          BY <2>4, <4>1, AnswersAssumption
        <4> QED BY <2>4, <4>1, <4>2, AnswerTypes DEF TInv, TypeData
      <3>2. CASE BranchSilent(b)
        BY <3>2 DEF BranchSilent, TInv, TypeData, OutOK
      <3> QED BY <2>1, <3>1, <3>2
    <2>6. QED
      BY <2>1, <2>2, <2>3, <2>5 DEF BranchReaches, TInv, TypeFlow, TypeData, TypeLog,
         StopHasReason
  <1>5. CASE CodeChange
    <2>1. healing' \in [attempts : Nat, directive : Nat, changes : Nat, rollbacks : Nat]
      BY <1>5 DEF CodeChange, TInv, TypeData
    <2>2. at' \subseteq Node /\ ("safety_stop" \in at' => "safety_stop" \in at)
      BY <1>5 DEF CodeChange, Finish, Node, Implementing, TInv, TypeFlow
    <2>3. QED
      BY <1>5, <2>1, <2>2 DEF CodeChange, TInv, TypeFlow, TypeData, TypeLog, OutOK,
         StopHasReason
  <1>6. CASE Discovery
    <2>1. at' \subseteq Node /\ ("safety_stop" \in at' => "safety_stop" \in at)
      BY <1>6 DEF Discovery, Finish, TInv, TypeFlow, Node, Branch
    <2>2. OutOK'
      <3>1. PICK v \in {"SELECTED", NoValue, out["discovery"]} :
              out' = [out EXCEPT !["discovery"] = v]
        BY <1>6 DEF Discovery
      <3>2. "discovery" \notin DOMAIN Output
        BY Tables
      <3>3. DOMAIN out' = DOMAIN out /\ out'["discovery"] = v
            /\ \A k \in DOMAIN Output : out'[k] = out[k]
        BY <3>1, <3>2 DEF TInv, TypeData, OutOK
      <3> QED BY <3>3 DEF TInv, TypeData, OutOK
    <2>3. QED
      BY <1>6, <2>1, <2>2 DEF Discovery, TInv, TypeFlow, TypeData, TypeLog, StopHasReason
  <1>7. CASE DuplicateWorkGate
    <2> DEFINE route == DuplicateRoute(out["duplicate"])
               next == IF route = "CONTINUE" THEN {"evidence", "discovery"} ELSE {"safety_stop"}
    <2>1. route \in Route /\ "DUPLICATE_WORK" \in Gate /\ next \in SUBSET Node
      BY DEF DuplicateRoute, Route, Gate, Node, Branch
    <2>2. GateFinishes("duplicate_work_gate", "DUPLICATE_WORK", route, next)
      BY <1>7 DEF DuplicateWorkGate
    <2>3. at' \subseteq Node /\ history' \in Seq(Record) /\ history' # <<>>
      BY <2>1, <2>2, GateTypes
    <2>4. flags' \in [terminal : {"NONE", "SAFETY_STOP"}, bestEffort : BOOLEAN]
      BY <1>7 DEF DuplicateWorkGate, TInv, TypeData
    <2>5. QED
      BY <1>7, <2>3, <2>4 DEF DuplicateWorkGate, TInv, TypeFlow, TypeData, TypeLog, OutOK,
         StopHasReason
  <1>8. CASE FanIn
    <2> DEFINE route == IF Missing = {} THEN "CONTINUE" ELSE "SAFETY_STOP"
               next == IF Missing = {} THEN {"root_cause"} ELSE {"safety_stop"}
    <2>1. route \in Route /\ "ORCHESTRATION" \in Gate /\ next \in SUBSET Node
      BY Tables DEF Route, Gate, Node
    <2>2. GateFinishes("fan_in", "ORCHESTRATION", route, next)
      BY <1>8 DEF FanIn
    <2>3. at' \subseteq Node /\ history' \in Seq(Record) /\ history' # <<>>
      BY <2>1, <2>2, GateTypes
    <2>4. QED
      BY <1>8, <2>3 DEF FanIn, NoInput, TInv, TypeFlow, TypeData, TypeLog, OutOK, StopHasReason
  <1>9. CASE ConfidenceCheck
    <2>1. at' \subseteq Node /\ ("safety_stop" \in at' => "safety_stop" \in at)
      BY <1>9, Tables DEF ConfidenceCheck, Finish, TInv, TypeFlow, Node
    <2>2. OutOK'
      <3>1. CASE out["root_cause"] = NoValue
        BY <1>9, <3>1 DEF ConfidenceCheck, TInv, TypeData, OutOK
      <3>2. CASE out["root_cause"] # NoValue
        <4> DEFINE v == Hardened(out["root_cause"], out["repository"] = "IDENTIFIED")
        <4>1. "root_cause" \in DOMAIN Output /\ Output["root_cause"] = Cause
          BY Tables DEF Output
        <4>2. out["root_cause"] \in Cause
          BY <3>2, <4>1 DEF TInv, TypeData, OutOK
        <4>3. v \in Output["root_cause"] \cup {NoValue}
          BY <4>1, <4>2, HardenedTypes
        <4>4. out' = [out EXCEPT !["root_cause"] = v]
          BY <1>9, <3>2 DEF ConfidenceCheck
        <4> HIDE DEF v
        <4> QED BY <4>1, <4>3, <4>4, AnswerTypes DEF TInv, TypeData
      <3> QED BY <3>1, <3>2
    <2>3. QED
      BY <1>9, <2>1, <2>2 DEF ConfidenceCheck, TInv, TypeFlow, TypeData, TypeLog, StopHasReason
  <1>10. CASE ReviewGate
    <2> DEFINE route == IF ReviewPasses THEN "READY_FOR_IMPLEMENTATION" ELSE "SAFETY_STOP"
               next == IF ReviewPasses THEN {"authorization_gate"} ELSE {"safety_stop"}
    <2>1. route \in Route /\ "REVIEW" \in Gate /\ next \in SUBSET Node
      BY DEF Route, Gate, Node
    <2>2. GateFinishes("review_gate", "REVIEW", route, next)
      BY <1>10 DEF ReviewGate
    <2>3. at' \subseteq Node /\ history' \in Seq(Record) /\ history' # <<>>
      BY <2>1, <2>2, GateTypes
    <2>4. QED
      BY <1>10, <2>3 DEF ReviewGate, TInv, TypeFlow, TypeData, TypeLog, OutOK, StopHasReason
  <1>11. CASE AuthorizationGate
    <2> DEFINE route == IF PolicyAllows THEN "READY_FOR_IMPLEMENTATION" ELSE "SAFETY_STOP"
               next == IF PolicyAllows THEN {"code_change"} ELSE {"safety_stop"}
    <2>1. route \in Route /\ "IMPLEMENTATION_AUTHORIZATION" \in Gate /\ next \in SUBSET Node
      BY DEF Route, Gate, Node, Implementing
    <2>2. GateFinishes("authorization_gate", "IMPLEMENTATION_AUTHORIZATION", route, next)
      BY <1>11 DEF AuthorizationGate
    <2>3. at' \subseteq Node /\ history' \in Seq(Record) /\ history' # <<>>
      BY <2>1, <2>2, GateTypes
    <2>5. grants' \in [policy : Nat, approval : Nat]
      BY <1>11 DEF AuthorizationGate, PolicyGrant, TInv, TypeLog
    <2>6. QED
      BY <1>11, <2>3, <2>5 DEF AuthorizationGate, TInv, TypeFlow, TypeData, TypeLog, OutOK,
         StopHasReason
  <1>12. CASE RetryImplementation
    <2>1. "SAFETY_STOP" \in Route /\ "VALIDATION" \in Gate /\ {"failure_diagnosis"} \in SUBSET Node
      BY DEF Route, Gate, Node, Implementing
    <2>2. at' \subseteq Node /\ history' \in Seq(Record) /\ history' # <<>>
      BY <1>12, <2>1, GateTypes DEF RetryImplementation
    <2>3. healing' \in [attempts : Nat, directive : Nat, changes : Nat, rollbacks : Nat]
      BY <1>12 DEF RetryImplementation, TInv, TypeData
    <2>4. QED
      BY <1>12, <2>2, <2>3 DEF RetryImplementation, TInv, TypeFlow, TypeData, TypeLog, OutOK,
         StopHasReason
  <1>13. CASE HealingExhausted
    <2>1. "SAFETY_STOP" \in Route /\ "VALIDATION" \in Gate /\ {"safety_stop"} \in SUBSET Node
      BY DEF Route, Gate, Node
    <2>2. at' \subseteq Node /\ history' \in Seq(Record) /\ history' # <<>>
      BY <1>13, <2>1, GateTypes DEF HealingExhausted
    <2>3. healing' \in [attempts : Nat, directive : Nat, changes : Nat, rollbacks : Nat]
      BY <1>13 DEF HealingExhausted, TInv, TypeData
    <2>4. QED
      BY <1>13, <2>2, <2>3 DEF HealingExhausted, TInv, TypeFlow, TypeData, TypeLog, OutOK,
         StopHasReason
  <1>14. CASE ValidatedRaises
    <2>1. Decision("VALIDATION", "READY_FOR_PUBLISH") \in Record
      BY DEF Decision, Record, Gate, Route
    <2>2. history' \in Seq(Record)
      BY <1>14, <2>1 DEF ValidatedRaises, TInv, TypeLog
    <2>3. QED
      BY <1>14, <2>2 DEF ValidatedRaises, TInv, TypeFlow, TypeData, TypeLog, OutOK,
         StopHasReason
  <1>15. CASE FailureDiagnosis
    BY <1>15 DEF FailureDiagnosis, Finish, Node, Implementing, TInv, TypeFlow, TypeData,
       TypeLog, OutOK, StopHasReason
  <1>16. CASE SafetyStop
    <2>1. history \in Seq(Record) /\ history # <<>>
      BY <1>16 DEF SafetyStop, Finish, TInv, TypeLog, StopHasReason
    <2>2. LastDecision \in Record
      BY <2>1 DEF LastDecision
    <2>3. stop' \in [gate : Gate \cup {"NONE"}, route : Route \cup {"NONE"}]
      BY <1>16, <2>2 DEF SafetyStop, Record
    <2>4. at' \subseteq Node /\ "safety_stop" \notin at'
      BY <1>16 DEF SafetyStop, Finish, TInv, TypeFlow
    <2>5. QED
      BY <1>16, <2>3, <2>4 DEF SafetyStop, TInv, TypeFlow, TypeData, TypeLog, OutOK,
         StopHasReason
  <1> QED BY <1>1, <1>2, <1>3, <1>4, <1>5, <1>6, <1>7, <1>8, <1>9, <1>10, <1>11, <1>12,
             <1>13, <1>14, <1>15, <1>16 DEF NodeStep

LEMMA NextTypes ==
  ASSUME TInv, [Next]_vars
  PROVE  TInv'
  <1>1. CASE StartPass
    BY <1>1, Tables DEF StartPass, session, Node, TInv, TypeFlow, TypeData, TypeLog, OutOK,
       StopHasReason
  <1>2. CASE AutoApprove
    <2>1. grants' \in [policy : Nat, approval : Nat]
      BY <1>2, ApprovalTypes DEF TInv
    <2>2. QED
      BY <1>2, <2>1 DEF AutoApprove, TInv, TypeFlow, TypeData, TypeLog, OutOK, StopHasReason
  <1>3. CASE ToggleAutoApprove
    BY <1>3 DEF ToggleAutoApprove, session, TInv, TypeFlow, TypeData, TypeLog, OutOK,
       StopHasReason
  <1>4. CASE UNCHANGED vars
    BY <1>4 DEF vars, session, TInv, TypeFlow, TypeData, TypeLog, OutOK, StopHasReason
  <1> QED BY <1>1, <1>2, <1>3, <1>4, NodeStepTypes DEF Next

-----------------------------------------------------------------------------
(* The shape of a pass.  One node runs at a time, except in the fork, where*)
(* a branch is running exactly until the join has heard of it.             *)

Alone == \A n \in at \ Fork : at = {n}

ForkOpen == at \cap Fork # {} =>
    /\ "evidence" \in at <=> joined["evidence"] = "WAITING"
    /\ ("discovery" \in at \/ "repository" \in at) <=> joined["repository"] = "WAITING"
    /\ ~("discovery" \in at /\ "repository" \in at)

JoinEmpty == at \cap Fork = {} /\ "fan_in" \notin at => joined = NoInput

Idle == outcome # "RUNNING" => at = {}

Shape == Alone /\ ForkOpen /\ JoinEmpty /\ Idle

\* A step from one node outside the fork to at most one other.
LEMMA Moves ==
  ASSUME Shape, joined \in [Branch -> {"WAITING", "OUTPUT", "EMPTY"}],
         NEW n, n \notin Fork, NEW next, Finish(n, next),
         next = {} \/ \E k : k \notin Fork /\ next = {k},
         outcome' = outcome \/ next = {},
         joined' = NoInput \/ (joined' = joined /\ n # "fan_in")
  PROVE  Shape' /\ at = {n} /\ at' = next
  <1>1. at = {n}
    BY DEF Finish, Shape, Alone
  <1>2. at' = next
    BY <1>1 DEF Finish
  <1>3. joined' = NoInput
    BY <1>1 DEF Shape, JoinEmpty
  <1>4. outcome = "RUNNING"
    BY <1>1 DEF Shape, Idle
  <1>5. Alone' /\ ForkOpen' /\ JoinEmpty'
    BY <1>2, <1>3 DEF Alone, ForkOpen, JoinEmpty
  <1>6. Idle'
    BY <1>2, <1>4 DEF Idle
  <1> QED BY <1>1, <1>2, <1>5, <1>6 DEF Shape

LEMMA InitShape == Init => Shape
  BY DEF Init, Shape, Alone, ForkOpen, JoinEmpty, Idle

LEMMA BranchShape ==
  ASSUME Shape, joined \in [Branch -> {"WAITING", "OUTPUT", "EMPTY"}],
         NEW b \in Branch, NEW given \in {"OUTPUT", "EMPTY"}, BranchReaches(b, given)
  PROVE  Shape'
  <1>1. b \in at /\ at \subseteq Fork
    BY DEF BranchReaches, Finish, Shape, Alone, Fork
  <1>2. outcome = "RUNNING" /\ outcome' = "RUNNING"
    BY <1>1 DEF BranchReaches, Shape, Idle
  <1>3. joined' = [joined EXCEPT ![b] = given]
    BY DEF BranchReaches
  <1>4. /\ joined'[b] # "WAITING"
        /\ \A c \in Branch : c # b => joined'[c] = joined[c]
    BY <1>3
  <1>5. /\ "evidence" \in at <=> joined["evidence"] = "WAITING"
        /\ ("discovery" \in at \/ "repository" \in at) <=> joined["repository"] = "WAITING"
        /\ ~("discovery" \in at /\ "repository" \in at)
    BY <1>1 DEF Shape, ForkOpen, Fork
  <1>6. CASE \A c \in Branch : joined'[c] # "WAITING"
    <2>1. at' = (at \ {b}) \cup {"fan_in"}
      BY <1>6 DEF BranchReaches, Finish
    <2>2. at = {b}
      BY <1>1, <1>4, <1>5, <1>6 DEF Fork, Branch
    <2>3. at' = {"fan_in"}
      BY <2>1, <2>2
    <2>4. QED
      BY <1>2, <2>3 DEF Shape, Alone, ForkOpen, JoinEmpty, Idle, Fork, Branch
  <1>7. CASE ~\A c \in Branch : joined'[c] # "WAITING"
    <2>1. at' = at \ {b}
      BY <1>7 DEF BranchReaches, Finish
    <2>2. \E c \in at : c \in Fork /\ c # b
      BY <1>4, <1>5, <1>7 DEF Fork, Branch
    <2>3. at' # {} /\ at' \subseteq Fork
      BY <1>1, <2>1, <2>2
    <2>4. Alone' /\ JoinEmpty' /\ Idle'
      BY <1>2, <2>3 DEF Alone, JoinEmpty, Idle
    <2>5. ForkOpen'
      <3>1. CASE b = "evidence"
        BY <1>1, <1>4, <1>5, <2>1, <3>1 DEF ForkOpen, Branch
      <3>2. CASE b = "repository"
        BY <1>1, <1>4, <1>5, <2>1, <3>2 DEF ForkOpen, Branch
      <3> QED BY <3>1, <3>2 DEF Branch
    <2>6. QED BY <2>4, <2>5 DEF Shape
  <1> QED BY <1>6, <1>7

LEMMA NodeStepShape ==
  ASSUME Shape, TypeFlow, NodeStep
  PROVE  Shape'
  <1> USE DEF TypeFlow
  <1>1. CASE PassBreaks
    BY <1>1 DEF PassBreaks, Shape, Alone, ForkOpen, JoinEmpty, Idle
  <1>2. CASE \E n \in DOMAIN Then : AgentRuns(n) \/ AgentAnswers(n)
    <2>1. PICK n \in DOMAIN Then : AgentRuns(n) \/ AgentAnswers(n)
      BY <1>2
    <2>2. Finish(n, {Then[n]}) /\ joined' = joined /\ outcome' = outcome
      BY <2>1 DEF AgentRuns, AgentAnswers
    <2>3. n \notin Fork /\ n # "fan_in" /\ Then[n] \notin Fork
      BY Edges
    <2>4. QED
      BY <2>2, <2>3, Moves
  <1>3. CASE \E b \in Branch : BranchAnswers(b) \/ BranchSilent(b)
    BY <1>3, BranchShape DEF BranchAnswers, BranchSilent
  <1>4. CASE CodeChange
    <2>1. Finish("code_change", {"implementation"}) /\ joined' = joined /\ outcome' = outcome
      BY <1>4 DEF CodeChange
    <2>2. "code_change" \notin Fork /\ "implementation" \notin Fork
      BY DEF Fork, Branch
    <2>3. QED BY <2>1, <2>2, Moves
  <1>5. CASE Discovery
    <2>1. at' = (at \ {"discovery"}) \cup {"repository"} /\ "discovery" \in at
          /\ joined' = joined /\ outcome' = outcome
      BY <1>5 DEF Discovery, Finish
    <2>2. "discovery" \in Fork /\ "repository" \in Fork /\ at \subseteq Fork
      BY <2>1 DEF Shape, Alone, Fork, Branch
    <2>3. Alone' /\ JoinEmpty' /\ Idle'
      BY <2>1, <2>2 DEF Shape, Alone, JoinEmpty, Idle
    <2>4. ForkOpen'
      BY <2>1, <2>2 DEF Shape, ForkOpen
    <2>5. QED BY <2>3, <2>4 DEF Shape
  <1>6. CASE DuplicateWorkGate
    <2> DEFINE route == DuplicateRoute(out["duplicate"])
    <2>1. /\ Finish("duplicate_work_gate",
                IF route = "CONTINUE" THEN {"evidence", "discovery"} ELSE {"safety_stop"})
          /\ joined' = joined /\ outcome' = outcome
      BY <1>6 DEF DuplicateWorkGate, GateFinishes
    <2>2. "duplicate_work_gate" \notin Fork /\ "safety_stop" \notin Fork
      BY DEF Fork, Branch
    <2> HIDE DEF route
    <2>3. CASE route = "CONTINUE"
      <3>1. at = {"duplicate_work_gate"}
        BY <2>1, <2>2 DEF Finish, Shape, Alone
      <3>2. at' = {"evidence", "discovery"} /\ joined' = NoInput /\ outcome' = "RUNNING"
        BY <2>1, <2>2, <2>3, <3>1 DEF Finish, Shape, JoinEmpty, Idle
      <3>3. QED
        BY <3>2 DEF Shape, Alone, ForkOpen, JoinEmpty, Idle, Fork, Branch, NoInput
    <2>4. CASE route # "CONTINUE"
      BY <2>1, <2>2, <2>4, Moves
    <2> QED BY <2>3, <2>4
  <1>7. CASE FanIn
    <2>1. /\ Finish("fan_in", IF Missing = {} THEN {"root_cause"} ELSE {"safety_stop"})
          /\ joined' = NoInput /\ outcome' = outcome
      BY <1>7 DEF FanIn, GateFinishes
    <2>2. "fan_in" \notin Fork /\ "root_cause" \notin Fork /\ "safety_stop" \notin Fork
      BY DEF Fork, Branch
    <2>3. QED BY <2>1, <2>2, Moves
  <1>8. CASE ConfidenceCheck
    <2>1. /\ Finish("confidence_check", {"remediation"})
          /\ joined' = joined /\ outcome' = outcome
      BY <1>8 DEF ConfidenceCheck
    <2>2. "confidence_check" \notin Fork /\ "remediation" \notin Fork
      BY DEF Fork, Branch
    <2>3. QED BY <2>1, <2>2, Moves
  <1>9. CASE ReviewGate
    <2>1. /\ Finish("review_gate",
                IF ReviewPasses THEN {"authorization_gate"} ELSE {"safety_stop"})
          /\ joined' = joined /\ outcome' = outcome
      BY <1>9 DEF ReviewGate, GateFinishes
    <2>2. {"review_gate", "authorization_gate", "safety_stop"} \cap Fork = {}
      BY DEF Fork, Branch
    <2>3. QED BY <2>1, <2>2, Moves
  <1>10. CASE AuthorizationGate
    <2>1. /\ Finish("authorization_gate",
                IF PolicyAllows THEN {"code_change"} ELSE {"safety_stop"})
          /\ joined' = joined /\ outcome' = outcome
      BY <1>10 DEF AuthorizationGate, GateFinishes
    <2>2. {"authorization_gate", "code_change", "safety_stop"} \cap Fork = {}
      BY DEF Fork, Branch
    <2>3. QED BY <2>1, <2>2, Moves
  <1>11. CASE RetryImplementation \/ HealingExhausted
    <2>1. PICK k \in {"failure_diagnosis", "safety_stop"} :
            /\ Finish("validation_gate", {k})
            /\ joined' = joined /\ outcome' = outcome
      BY <1>11 DEF RetryImplementation, HealingExhausted, GateFinishes
    <2>2. "validation_gate" \notin Fork /\ k \notin Fork
      BY DEF Fork, Branch
    <2>3. QED BY <2>1, <2>2, Moves
  <1>12. CASE ValidatedRaises
    <2>1. "validation_gate" \in at /\ "validation_gate" \notin Fork /\ at' = {}
          /\ joined' = joined
      BY <1>12 DEF ValidatedRaises, Fork, Branch
    <2>2. at = {"validation_gate"}
      BY <2>1 DEF Shape, Alone
    <2>3. joined' = NoInput
      BY <2>1, <2>2 DEF Shape, JoinEmpty
    <2>4. QED BY <2>1, <2>3 DEF Shape, Alone, ForkOpen, JoinEmpty, Idle
  <1>13. CASE FailureDiagnosis
    <2>1. Finish("failure_diagnosis", {"code_change"}) /\ joined' = joined /\ outcome' = outcome
      BY <1>13 DEF FailureDiagnosis
    <2>2. "failure_diagnosis" \notin Fork /\ "code_change" \notin Fork
      BY DEF Fork, Branch
    <2>3. QED BY <2>1, <2>2, Moves
  <1>14. CASE SafetyStop
    <2>1. Finish("safety_stop", {}) /\ joined' = joined
      BY <1>14 DEF SafetyStop
    <2>2. "safety_stop" \notin Fork
      BY DEF Fork, Branch
    <2>3. QED BY <2>1, <2>2, Moves
  <1> QED BY <1>1, <1>2, <1>3, <1>4, <1>5, <1>6, <1>7, <1>8, <1>9, <1>10, <1>11, <1>12,
             <1>13, <1>14 DEF NodeStep

LEMMA NextShape ==
  ASSUME Shape, TypeFlow, [Next]_vars
  PROVE  Shape'
  <1>1. CASE StartPass
    <2>1. at = {} /\ at' = {"ticket"} /\ joined' = joined /\ outcome' = "RUNNING"
      BY <1>1 DEF StartPass, Shape, Idle
    <2>2. joined' = NoInput
      BY <2>1 DEF Shape, JoinEmpty
    <2>3. QED BY <2>1, <2>2 DEF Shape, Alone, ForkOpen, JoinEmpty, Idle, Fork, Branch
  <1>2. CASE AutoApprove
    BY <1>2 DEF AutoApprove, Shape, Alone, ForkOpen, JoinEmpty, Idle
  <1>3. CASE ToggleAutoApprove
    BY <1>3 DEF ToggleAutoApprove, Shape, Alone, ForkOpen, JoinEmpty, Idle
  <1>4. CASE UNCHANGED vars
    BY <1>4 DEF vars, Shape, Alone, ForkOpen, JoinEmpty, Idle
  <1> QED BY <1>1, <1>2, <1>3, <1>4, NodeStepShape DEF Next

LEMMA Single ==
  ASSUME Shape, NEW n, n \notin Fork, NEW next, Finish(n, next)
  PROVE  at = {n} /\ at' = next
  BY DEF Shape, Alone, Finish

\* The fork leads to the join.
LEMMA ForkStays ==
  ASSUME Shape,
         Discovery \/ (\E b \in Branch : BranchAnswers(b) \/ BranchSilent(b))
  PROVE  at' \subseteq Fork \cup {"fan_in"}
  <1>1. CASE Discovery
    BY <1>1 DEF Discovery, Finish, Shape, Alone, Fork, Branch
  <1>2. CASE \E b \in Branch : BranchAnswers(b) \/ BranchSilent(b)
    <2>1. PICK b \in Branch : BranchAnswers(b) \/ BranchSilent(b)
      BY <1>2
    <2>2. b \in at /\ at' \subseteq (at \ {b}) \cup {"fan_in"}
      BY <2>1 DEF BranchAnswers, BranchSilent, BranchReaches, Finish
    <2>3. at \subseteq Fork
      BY <2>2 DEF Shape, Alone, Fork
    <2>4. QED BY <2>2, <2>3
  <1> QED BY <1>1, <1>2

-----------------------------------------------------------------------------
(* What the gates let through.                                             *)

LEMMA Authorizing ==
  ASSUME PolicyAllows
  PROVE  /\ out["duplicate"] = "NO_DUPLICATE_FOUND" /\ ~HighAction
         /\ PlanReady \/ Approved
         /\ ~OutOfScope
  BY DEF PolicyAllows, ReviewPasses

\* What an authorisation rests on is four answers.
LEMMA SameAnswers ==
  ASSUME \A k \in {"duplicate", "review", "remediation", "discovery"} : out'[k] = out[k],
         out["duplicate"] = "NO_DUPLICATE_FOUND", ~HighAction, PlanReady \/ Approved, ~OutOfScope
  PROVE  /\ out'["duplicate"] = "NO_DUPLICATE_FOUND" /\ ~HighAction'
         /\ PlanReady' \/ Approved'
         /\ ~OutOfScope'
  <1>1. /\ out'["duplicate"] = out["duplicate"]
        /\ out'["review"] = out["review"]
        /\ out'["remediation"] = out["remediation"]
        /\ out'["discovery"] = out["discovery"]
    OBVIOUS
  <1> QED BY <1>1 DEF HighAction, PlanReady, Approved, OutOfScope

LEMMA AuthorizedStep ==
  ASSUME Shape, OutOK, ChangesAreAuthorized, [Next]_vars
  PROVE  ChangesAreAuthorized'
  <1> DEFINE Kept == \A k \in {"duplicate", "review", "remediation", "discovery"} :
                        out'[k] = out[k]
  <1> SUFFICES ASSUME at' \cap Implementing # {}
               PROVE  /\ out'["duplicate"] = "NO_DUPLICATE_FOUND" /\ ~HighAction'
                      /\ PlanReady' \/ Approved'
                      /\ ~OutOfScope'
    BY DEF ChangesAreAuthorized
  <1>1. CASE at \cap Implementing # {} /\ Kept
    BY <1>1, SameAnswers DEF ChangesAreAuthorized
  <1>2. CASE PolicyAllows /\ Kept
    BY <1>2, SameAnswers, Authorizing
  <1>3. CASE \E n \in DOMAIN Then : AgentRuns(n) \/ AgentAnswers(n)
    <2>1. PICK n \in DOMAIN Then : AgentRuns(n) \/ AgentAnswers(n)
      BY <1>3
    <2>2. Finish(n, {Then[n]}) /\ n \notin Fork
      BY <2>1, Edges DEF AgentRuns, AgentAnswers
    <2>3. at = {n} /\ at' = {Then[n]}
      BY <2>2, Single
    <2>4. n \in {"implementation", "validation", "test_result", "code_change"}
      BY <2>3, Tables DEF Then, Implementing
    <2>5. out' = out \/ \E v : out' = [out EXCEPT ![n] = v]
      BY <2>1 DEF AgentRuns, AgentAnswers, session
    <2>6. Kept
      BY <2>4, <2>5, Tables DEF OutOK
    <2>7. QED
      BY <1>1, <2>3, <2>4, <2>6 DEF Implementing
  <1>4. CASE Discovery \/ (\E b \in Branch : BranchAnswers(b) \/ BranchSilent(b))
    BY <1>4, ForkStays DEF Fork, Branch, Implementing
  <1>5. CASE CodeChange \/ FailureDiagnosis \/ RetryImplementation
    BY <1>1, <1>5 DEF CodeChange, FailureDiagnosis, RetryImplementation, GateFinishes, Finish,
       Implementing
  <1>6. CASE AuthorizationGate
    <2>1. at' = IF PolicyAllows THEN {"code_change"} ELSE {"safety_stop"}
      <3>1. Finish("authorization_gate",
                   IF PolicyAllows THEN {"code_change"} ELSE {"safety_stop"})
        BY <1>6 DEF AuthorizationGate, GateFinishes
      <3>2. "authorization_gate" \notin Fork
        BY DEF Fork, Branch
      <3> QED BY <3>1, <3>2, Single
    <2>2. PolicyAllows /\ out' = out
      BY <1>6, <2>1 DEF Implementing, AuthorizationGate
    <2>3. QED BY <1>2, <2>2
  <1>7. CASE PassBreaks \/ StartPass \/ ValidatedRaises
    BY <1>7 DEF PassBreaks, StartPass, ValidatedRaises, Implementing
  <1>8. CASE DuplicateWorkGate \/ FanIn \/ ConfidenceCheck \/ ReviewGate
             \/ HealingExhausted \/ SafetyStop
    <2>1. PICK n \in {"duplicate_work_gate", "fan_in", "confidence_check", "review_gate",
                      "validation_gate", "safety_stop"},
               next \in {{"evidence", "discovery"}, {"safety_stop"}, {"root_cause"},
                         {"remediation"}, {"authorization_gate"}, {}} : Finish(n, next)
      BY <1>8 DEF DuplicateWorkGate, FanIn, ConfidenceCheck, ReviewGate, HealingExhausted,
         SafetyStop, GateFinishes
    <2>2. at' = next
      BY <2>1, Single DEF Fork, Branch
    <2>3. QED BY <2>2 DEF Implementing
  <1>9. CASE AutoApprove \/ ToggleAutoApprove \/ UNCHANGED vars
    BY <1>1, <1>9 DEF AutoApprove, ToggleAutoApprove, vars, session
  <1> QED BY <1>3, <1>4, <1>5, <1>6, <1>7, <1>8, <1>9 DEF Next, NodeStep

\* harden_root_cause_analysis leaves HIGH to what the facts support.
LEMMA HardenedIsEarned ==
  ASSUME NEW cause \in Cause, NEW available \in BOOLEAN
  PROVE  \/ Hardened(cause, available).confidence # "HIGH"
         \/ Supported(Hardened(cause, available), available)
  BY DEF Hardened, Supported, Cause

LEMMA EarnedStep ==
  ASSUME Shape, OutOK, HighConfidenceIsEarned, [Next]_vars
  PROVE  HighConfidenceIsEarned'
  <1> DEFINE Kept == out'["root_cause"] = out["root_cause"]
                     /\ out'["repository"] = out["repository"]
  <1> SUFFICES ASSUME at' \cap Reading # {}, out'["root_cause"] # NoValue
               PROVE  \/ out'["root_cause"].confidence # "HIGH"
                      \/ Supported(out'["root_cause"], out'["repository"] = "IDENTIFIED")
    BY DEF HighConfidenceIsEarned
  <1>1. CASE at \cap Reading # {} /\ Kept
    BY <1>1 DEF HighConfidenceIsEarned
  <1>2. CASE \E n \in DOMAIN Then : AgentRuns(n) \/ AgentAnswers(n)
    <2>1. PICK n \in DOMAIN Then : AgentRuns(n) \/ AgentAnswers(n)
      BY <1>2
    <2>2. Finish(n, {Then[n]}) /\ n \notin Fork
      BY <2>1, Edges DEF AgentRuns, AgentAnswers
    <2>3. at = {n} /\ at' = {Then[n]}
      BY <2>2, Single
    <2>4. n \in {"remediation", "review", "implementation", "validation", "test_result",
                 "code_change"}
      BY <2>3, Tables DEF Then, Reading, Implementing
    <2>5. out' = out \/ \E v : out' = [out EXCEPT ![n] = v]
      BY <2>1 DEF AgentRuns, AgentAnswers, session
    <2>6. Kept
      BY <2>4, <2>5, Tables DEF OutOK
    <2>7. QED
      BY <1>1, <2>3, <2>4, <2>6 DEF Reading, Implementing
  <1>3. CASE Discovery \/ (\E b \in Branch : BranchAnswers(b) \/ BranchSilent(b))
    BY <1>3, ForkStays DEF Fork, Branch, Reading, Implementing
  <1>4. CASE CodeChange \/ FailureDiagnosis \/ RetryImplementation
    BY <1>1, <1>4 DEF CodeChange, FailureDiagnosis, RetryImplementation, GateFinishes, Finish,
       Reading, Implementing
  <1>5. CASE ConfidenceCheck
    <2> DEFINE available == out["repository"] = "IDENTIFIED"
    <2>1. CASE out["root_cause"] = NoValue
      BY <1>5, <2>1 DEF ConfidenceCheck
    <2>2. CASE out["root_cause"] # NoValue
      <3>1. out["root_cause"] \in Cause
        BY <2>2, Tables DEF OutOK, Output
      <3>2. out' = [out EXCEPT !["root_cause"] = Hardened(out["root_cause"], available)]
        BY <1>5, <2>2 DEF ConfidenceCheck
      <3>3. /\ out'["root_cause"] = Hardened(out["root_cause"], available)
            /\ out'["repository"] = out["repository"]
        <4> HIDE DEF available
        <4> QED BY <3>2, Tables DEF OutOK
      <3>4. available \in BOOLEAN
        OBVIOUS
      <3>5. \/ Hardened(out["root_cause"], available).confidence # "HIGH"
            \/ Supported(Hardened(out["root_cause"], available), available)
        <4> HIDE DEF available
        <4> QED BY <3>1, <3>4, HardenedIsEarned
      <3> QED BY <3>3, <3>5
    <2> QED BY <2>1, <2>2
  <1>6. CASE ReviewGate \/ AuthorizationGate
    <2>1. Kept
      BY <1>6 DEF ReviewGate, AuthorizationGate
    <2>2. "review_gate" \in at \/ "authorization_gate" \in at
      BY <1>6 DEF ReviewGate, AuthorizationGate, GateFinishes, Finish
    <2>3. QED BY <1>1, <2>1, <2>2 DEF Reading
  <1>7. CASE PassBreaks \/ StartPass \/ ValidatedRaises
    BY <1>7 DEF PassBreaks, StartPass, ValidatedRaises, Reading, Implementing
  <1>8. CASE DuplicateWorkGate \/ FanIn \/ HealingExhausted \/ SafetyStop
    <2>1. PICK n \in {"duplicate_work_gate", "fan_in", "validation_gate", "safety_stop"},
               next \in {{"evidence", "discovery"}, {"safety_stop"}, {"root_cause"}, {}} :
               Finish(n, next)
      BY <1>8 DEF DuplicateWorkGate, FanIn, HealingExhausted, SafetyStop, GateFinishes
    <2>2. at' = next
      BY <2>1, Single DEF Fork, Branch
    <2>3. QED BY <2>2 DEF Reading, Implementing
  <1>9. CASE AutoApprove \/ ToggleAutoApprove \/ UNCHANGED vars
    BY <1>1, <1>9 DEF AutoApprove, ToggleAutoApprove, vars, session
  <1> QED BY <1>2, <1>3, <1>4, <1>5, <1>6, <1>7, <1>8, <1>9 DEF Next, NodeStep

-----------------------------------------------------------------------------
(* What the log says of it.                                                *)

Refused == "safety_stop" \in at => LastDecision.route = "SAFETY_STOP"

LEMMA RefusedStep ==
  ASSUME TInv, Shape, Refused, [Next]_vars
  PROVE  Refused'
  <1> SUFFICES ASSUME "safety_stop" \in at' PROVE LastDecision'.route = "SAFETY_STOP"
    BY DEF Refused
  <1>1. CASE "safety_stop" \in at /\ history' = history
    BY <1>1 DEF Refused, LastDecision
  <1>2. ASSUME NEW n, NEW gate \in Gate, NEW next \in SUBSET Node,
               GateFinishes(n, gate, "SAFETY_STOP", next)
        PROVE  LastDecision'.route = "SAFETY_STOP"
    <2>1. history'[Len(history')] = Decision(gate, "SAFETY_STOP")
      BY <1>2, GateTypes DEF Route
    <2>2. QED BY <2>1 DEF LastDecision, Decision
  <1>3. CASE \E n \in DOMAIN Then : AgentRuns(n) \/ AgentAnswers(n)
    <2>1. PICK n \in DOMAIN Then : Finish(n, {Then[n]}) /\ history' = history
      BY <1>3 DEF AgentRuns, AgentAnswers, session
    <2>2. "safety_stop" \in at
      BY <2>1, Edges DEF Finish
    <2>3. QED BY <1>1, <2>1, <2>2
  <1>4. CASE Discovery \/ (\E b \in Branch : BranchAnswers(b) \/ BranchSilent(b))
    BY <1>4, ForkStays DEF Fork, Branch
  <1>5. CASE CodeChange \/ FailureDiagnosis \/ ConfidenceCheck
    <2>1. "safety_stop" \in at /\ history' = history
      BY <1>5 DEF CodeChange, FailureDiagnosis, ConfidenceCheck, Finish
    <2>2. QED BY <1>1, <2>1
  <1>6. CASE DuplicateWorkGate
    <2> DEFINE route == DuplicateRoute(out["duplicate"])
    <2>1. GateFinishes("duplicate_work_gate", "DUPLICATE_WORK", route,
             IF route = "CONTINUE" THEN {"evidence", "discovery"} ELSE {"safety_stop"})
      BY <1>6 DEF DuplicateWorkGate
    <2>2. route \in {"CONTINUE", "SAFETY_STOP"}
      BY DEF DuplicateRoute
    <2> HIDE DEF route
    <2>3. route = "SAFETY_STOP"
      <3>1. "duplicate_work_gate" \notin Fork
        BY DEF Fork, Branch
      <3>2. at' = IF route = "CONTINUE" THEN {"evidence", "discovery"} ELSE {"safety_stop"}
        BY <2>1, <3>1, Single DEF GateFinishes
      <3> QED BY <2>2, <3>2
    <2>4. "DUPLICATE_WORK" \in Gate /\ {"safety_stop"} \in SUBSET Node
      BY DEF Gate, Node
    <2>5. QED BY <1>2, <2>1, <2>3, <2>4
  <1>7. CASE FanIn
    <2>1. GateFinishes("fan_in", "ORCHESTRATION",
             IF Missing = {} THEN "CONTINUE" ELSE "SAFETY_STOP",
             IF Missing = {} THEN {"root_cause"} ELSE {"safety_stop"})
      BY <1>7 DEF FanIn
    <2>2. Missing # {}
      <3>1. "fan_in" \notin Fork
        BY DEF Fork, Branch
      <3>2. at' = IF Missing = {} THEN {"root_cause"} ELSE {"safety_stop"}
        BY <2>1, <3>1, Single DEF GateFinishes
      <3> QED BY <3>2
    <2>3. "ORCHESTRATION" \in Gate /\ {"safety_stop"} \in SUBSET Node
      BY DEF Gate, Node
    <2>4. GateFinishes("fan_in", "ORCHESTRATION", "SAFETY_STOP", {"safety_stop"})
      BY <2>1, <2>2
    <2>5. QED BY <1>2, <2>3, <2>4
  <1>8. CASE ReviewGate
    <2>1. GateFinishes("review_gate", "REVIEW",
             IF ReviewPasses THEN "READY_FOR_IMPLEMENTATION" ELSE "SAFETY_STOP",
             IF ReviewPasses THEN {"authorization_gate"} ELSE {"safety_stop"})
      BY <1>8 DEF ReviewGate
    <2>2. ~ReviewPasses
      <3>1. "review_gate" \notin Fork
        BY DEF Fork, Branch
      <3>2. at' = IF ReviewPasses THEN {"authorization_gate"} ELSE {"safety_stop"}
        BY <2>1, <3>1, Single DEF GateFinishes
      <3> QED BY <3>2
    <2>3. "REVIEW" \in Gate /\ {"safety_stop"} \in SUBSET Node
      BY DEF Gate, Node
    <2>4. GateFinishes("review_gate", "REVIEW", "SAFETY_STOP", {"safety_stop"})
      BY <2>1, <2>2
    <2>5. QED BY <1>2, <2>3, <2>4
  <1>9. CASE AuthorizationGate
    <2>1. GateFinishes("authorization_gate", "IMPLEMENTATION_AUTHORIZATION",
             IF PolicyAllows THEN "READY_FOR_IMPLEMENTATION" ELSE "SAFETY_STOP",
             IF PolicyAllows THEN {"code_change"} ELSE {"safety_stop"})
      BY <1>9 DEF AuthorizationGate
    <2>2. ~PolicyAllows
      <3>1. "authorization_gate" \notin Fork
        BY DEF Fork, Branch
      <3>2. at' = IF PolicyAllows THEN {"code_change"} ELSE {"safety_stop"}
        BY <2>1, <3>1, Single DEF GateFinishes
      <3> QED BY <3>2
    <2>3. "IMPLEMENTATION_AUTHORIZATION" \in Gate /\ {"safety_stop"} \in SUBSET Node
      BY DEF Gate, Node
    <2>4. GateFinishes("authorization_gate", "IMPLEMENTATION_AUTHORIZATION", "SAFETY_STOP",
             {"safety_stop"})
      BY <2>1, <2>2
    <2>5. QED BY <1>2, <2>3, <2>4
  <1>10. CASE RetryImplementation \/ HealingExhausted
    <2>1. "VALIDATION" \in Gate /\ {"safety_stop"} \in SUBSET Node
          /\ {"failure_diagnosis"} \in SUBSET Node
      BY DEF Gate, Node, Implementing
    <2>2. QED BY <1>2, <1>10, <2>1 DEF RetryImplementation, HealingExhausted
  <1>11. CASE PassBreaks \/ StartPass \/ ValidatedRaises \/ SafetyStop
    BY <1>11 DEF PassBreaks, StartPass, ValidatedRaises, SafetyStop, Finish
  <1>12. CASE AutoApprove \/ ToggleAutoApprove \/ UNCHANGED vars
    BY <1>1, <1>12 DEF AutoApprove, ToggleAutoApprove, vars, session
  <1> QED BY <1>3, <1>4, <1>5, <1>6, <1>7, <1>8, <1>9, <1>10, <1>11, <1>12 DEF Next, NodeStep

LEMMA StopStep ==
  ASSUME TInv, Shape, Refused, StopIsExplained, [Next]_vars
  PROVE  StopIsExplained'
  <1> SUFFICES ASSUME outcome' = "STOPPED"
               PROVE  stop' = history'[Len(history')] /\ stop'.route = "SAFETY_STOP"
    BY DEF StopIsExplained
  <1>1. CASE outcome = "STOPPED" /\ stop' = stop /\ history' = history
    BY <1>1 DEF StopIsExplained
  <1>2. CASE SafetyStop
    BY <1>2 DEF SafetyStop, Finish, Refused, LastDecision
  <1>3. CASE StartPass \/ PassBreaks \/ ValidatedRaises
    BY <1>3 DEF StartPass, PassBreaks, ValidatedRaises
  <1>4. CASE AutoApprove \/ ToggleAutoApprove \/ UNCHANGED vars
    BY <1>1, <1>4 DEF AutoApprove, ToggleAutoApprove, vars, session
  <1>5. CASE NodeStep /\ ~(SafetyStop \/ PassBreaks \/ ValidatedRaises)
    <2>1. at # {} /\ outcome' = outcome
      BY <1>5 DEF NodeStep, AgentRuns, AgentAnswers, BranchAnswers, BranchSilent,
         BranchReaches, CodeChange, Discovery, DuplicateWorkGate, FanIn, ConfidenceCheck,
         ReviewGate, AuthorizationGate, RetryImplementation, HealingExhausted,
         FailureDiagnosis, GateFinishes, Finish
    <2>2. QED BY <2>1 DEF Shape, Idle
  <1> QED BY <1>2, <1>3, <1>4, <1>5 DEF Next

\* Attempts before a diagnosis, a diagnosis or a grant before a change, a pass
\* before a grant.
Ungranted == Node \ {"code_change", "implementation", "validation", "test_result",
                     "validation_gate", "failure_diagnosis", "safety_stop"}

HealingBudget ==
    /\ healing.attempts <= 3
    /\ healing.directive <= healing.attempts
    /\ "failure_diagnosis" \in at => healing.directive < healing.attempts
    /\ healing.changes <= grants.policy + healing.directive
    /\ "code_change" \in at => healing.changes < grants.policy + healing.directive
    /\ grants.policy <= pass
    /\ at \cap Ungranted # {} => grants.policy < pass

LEMMA HealingStep ==
  ASSUME TInv, Shape, HealingBudget, [Next]_vars
  PROVE  HealingBudget'
  <1>1. /\ healing.attempts \in Nat /\ healing.directive \in Nat /\ healing.changes \in Nat
        /\ pass \in Nat /\ grants.policy \in Nat
        /\ healing \in [attempts : Nat, directive : Nat, changes : Nat, rollbacks : Nat]
        /\ grants \in [policy : Nat, approval : Nat]
    BY DEF TInv, TypeFlow, TypeData, TypeLog
  <1>2. CASE /\ healing' = healing /\ pass' = pass /\ grants'.policy = grants.policy
             /\ "failure_diagnosis" \in at' => "failure_diagnosis" \in at
             /\ "code_change" \in at' => "code_change" \in at
             /\ at' \cap Ungranted # {} => at \cap Ungranted # {}
    BY <1>2 DEF HealingBudget
  <1>3. CASE StartPass
    <2>1. /\ healing' = healing /\ grants' = grants /\ pass' = pass + 1
          /\ "failure_diagnosis" \notin at' /\ "code_change" \notin at'
      BY <1>3 DEF StartPass, session
    <2>2. QED BY <1>1, <2>1 DEF HealingBudget
  <1>4. CASE CodeChange
    <2>1. at = {"code_change"} /\ at' = {"implementation"}
      BY <1>4, Single DEF CodeChange, Fork, Branch
    <2>2. at' \cap Ungranted = {}
      BY <2>1 DEF Ungranted
    <2>3. /\ healing'.attempts = healing.attempts /\ healing'.directive = healing.directive
          /\ healing'.changes = healing.changes + 1 /\ pass' = pass /\ grants' = grants
      BY <1>1, <1>4 DEF CodeChange
    <2>4. QED BY <1>1, <2>1, <2>2, <2>3 DEF HealingBudget
  <1>5. CASE FailureDiagnosis
    <2>1. at = {"failure_diagnosis"} /\ at' = {"code_change"}
      BY <1>5, Single DEF FailureDiagnosis, Fork, Branch
    <2>2. /\ healing'.attempts = healing.attempts /\ healing'.directive = healing.attempts
          /\ healing'.changes = healing.changes /\ pass' = pass /\ grants' = grants
      BY <1>1, <1>5 DEF FailureDiagnosis
    <2>3. at' \cap Ungranted = {}
      BY <2>1 DEF Ungranted
    <2>4. QED BY <1>1, <2>1, <2>2, <2>3 DEF HealingBudget
  <1>6. CASE RetryImplementation
    <2>1. at' = {"failure_diagnosis"}
      BY <1>6, Single DEF RetryImplementation, GateFinishes, Fork, Branch
    <2>2. healing.attempts < 3
      BY <1>6 DEF RetryImplementation, HealingLeft, MaxHealing
    <2>3. /\ healing'.attempts = healing.attempts + 1 /\ healing'.directive = healing.directive
          /\ healing'.changes = healing.changes /\ pass' = pass /\ grants' = grants
      BY <1>1, <1>6 DEF RetryImplementation
    <2>4. at' \cap Ungranted = {}
      BY <2>1 DEF Ungranted
    <2>5. QED BY <1>1, <2>1, <2>2, <2>3, <2>4 DEF HealingBudget
  <1>7. CASE HealingExhausted
    <2>1. at' = {"safety_stop"}
      BY <1>7, Single DEF HealingExhausted, GateFinishes, Fork, Branch
    <2>2. /\ healing'.attempts = healing.attempts /\ healing'.directive = healing.directive
          /\ healing'.changes = healing.changes /\ pass' = pass /\ grants' = grants
      BY <1>1, <1>7 DEF HealingExhausted
    <2>3. at' \cap Ungranted = {}
      BY <2>1 DEF Ungranted
    <2>4. QED BY <1>1, <2>1, <2>2, <2>3 DEF HealingBudget
  <1>8. CASE \E n \in DOMAIN Then : AgentRuns(n) \/ AgentAnswers(n)
    <2>1. PICK n \in DOMAIN Then : AgentRuns(n) \/ AgentAnswers(n)
      BY <1>8
    <2>2. /\ Finish(n, {Then[n]}) /\ n \notin Fork
          /\ healing' = healing /\ pass' = pass /\ grants' = grants
      BY <2>1, Edges DEF AgentRuns, AgentAnswers, session
    <2>3. at = {n} /\ at' = {Then[n]}
      BY <2>2, Single
    <2>4. n # "code_change"
      BY <2>1, Tables DEF AgentRuns, AgentAnswers
    <2>5. /\ Then[n] \notin {"failure_diagnosis", "code_change"}
          /\ Then[n] \in Ungranted => n \in Ungranted
      BY <2>4, Tables DEF Then, Ungranted, Node
    <2>6. QED BY <1>2, <2>2, <2>3, <2>5
  <1>9. CASE Discovery \/ (\E b \in Branch : BranchAnswers(b) \/ BranchSilent(b))
    <2>1. at' \subseteq Fork \cup {"fan_in"}
      BY <1>9, ForkStays
    <2>2. at \cap Ungranted # {}
      BY <1>9 DEF Discovery, BranchAnswers, BranchSilent, BranchReaches, Finish, Ungranted,
         Node, Branch
    <2>3. healing' = healing /\ pass' = pass /\ grants' = grants
      BY <1>9 DEF Discovery, BranchAnswers, BranchSilent, BranchReaches
    <2>4. QED BY <1>2, <2>1, <2>2, <2>3 DEF Fork, Branch
  <1>10. CASE DuplicateWorkGate \/ FanIn \/ ConfidenceCheck \/ ReviewGate
    <2>1. PICK n \in {"duplicate_work_gate", "fan_in", "confidence_check", "review_gate"},
               next \in {{"evidence", "discovery"}, {"safety_stop"}, {"root_cause"},
                         {"remediation"}, {"authorization_gate"}} :
               Finish(n, next) /\ healing' = healing /\ pass' = pass /\ grants' = grants
      BY <1>10 DEF DuplicateWorkGate, FanIn, ConfidenceCheck, ReviewGate, GateFinishes
    <2>2. at = {n} /\ at' = next
      BY <2>1, Single DEF Fork, Branch
    <2>3. n \in Ungranted
      BY <2>1 DEF Ungranted, Node
    <2>4. QED BY <1>2, <2>1, <2>2, <2>3
  <1>11. CASE AuthorizationGate
    <2> DEFINE next == IF PolicyAllows THEN {"code_change"} ELSE {"safety_stop"}
    <2>1. at = {"authorization_gate"} /\ at' = next
      <3>1. Finish("authorization_gate", next)
        BY <1>11 DEF AuthorizationGate, GateFinishes
      <3> QED BY <3>1, Single DEF Fork, Branch
    <2>2. grants.policy < pass
      BY <2>1 DEF HealingBudget, Ungranted, Node
    <2>3. at' \cap Ungranted = {}
      BY <2>1 DEF Ungranted
    <2>4. /\ healing' = healing /\ pass' = pass
          /\ grants'.policy = grants.policy + (IF PolicyAllows THEN 1 ELSE 0)
      BY <1>1, <1>11 DEF AuthorizationGate, PolicyGrant
    <2>5. QED BY <1>1, <2>1, <2>2, <2>3, <2>4 DEF HealingBudget
  <1>12. CASE PassBreaks \/ ValidatedRaises \/ SafetyStop
    <2>1. healing' = healing /\ pass' = pass /\ grants' = grants /\ at' \subseteq at
      BY <1>12 DEF PassBreaks, ValidatedRaises, SafetyStop, Finish, session
    <2>2. QED BY <1>2, <2>1
  <1>13. CASE AutoApprove
    <2>1. grants'.policy = grants.policy
      BY <1>13, ApprovalTypes DEF TInv
    <2>2. QED BY <1>2, <1>13, <2>1 DEF AutoApprove
  <1>14. CASE ToggleAutoApprove \/ UNCHANGED vars
    BY <1>2, <1>14 DEF ToggleAutoApprove, vars, session
  <1> QED BY <1>3, <1>4, <1>5, <1>6, <1>7, <1>8, <1>9, <1>10, <1>11, <1>12, <1>13, <1>14
          DEF Next, NodeStep

-----------------------------------------------------------------------------
(* The inductive invariant and the theorems                                *)

Inv ==
    /\ TInv
    /\ Shape
    /\ ChangesAreAuthorized
    /\ HighConfidenceIsEarned
    /\ Refused
    /\ StopIsExplained
    /\ HealingBudget

LEMMA InitInv == Init => Inv
  <1> SUFFICES ASSUME Init PROVE Inv
    OBVIOUS
  <1>1. at = {} /\ outcome = "QUEUED" /\ grants = [policy |-> 0, approval |-> 0] /\ pass = 0
        /\ healing = [attempts |-> 0, directive |-> 0, changes |-> 0, rollbacks |-> 0]
    BY DEF Init
  <1>2. ChangesAreAuthorized /\ HighConfidenceIsEarned /\ Refused /\ StopIsExplained
    BY <1>1 DEF ChangesAreAuthorized, HighConfidenceIsEarned, Refused, StopIsExplained
  <1>3. HealingBudget
    BY <1>1 DEF HealingBudget
  <1> QED BY <1>2, <1>3, InitTypes, InitShape DEF Inv

LEMMA NextInv == Inv /\ [Next]_vars => Inv'
  <1> SUFFICES ASSUME Inv, [Next]_vars PROVE Inv'
    OBVIOUS
  <1>1. TInv'
    BY NextTypes DEF Inv
  <1>2. Shape'
    BY NextShape DEF Inv, TInv
  <1>3. ChangesAreAuthorized'
    BY AuthorizedStep DEF Inv, TInv, TypeData
  <1>4. HighConfidenceIsEarned'
    BY EarnedStep DEF Inv, TInv, TypeData
  <1>5. Refused'
    BY RefusedStep DEF Inv
  <1>6. StopIsExplained'
    BY StopStep DEF Inv
  <1>7. HealingBudget'
    BY HealingStep DEF Inv
  <1> QED BY <1>1, <1>2, <1>3, <1>4, <1>5, <1>6, <1>7 DEF Inv

LEMMA InvAlways == Spec => []Inv
  BY InitInv, NextInv, PTL DEF Spec

\* Every variable of the graph keeps its type, whatever the agents answer.
THEOREM TypeCorrect == Spec => []TypeOK
  <1>1. Inv => TypeOK
    BY DEF Inv, TInv, TypeFlow, TypeData, TypeLog, Record, TypeOK
  <1> QED BY <1>1, InvAlways, PTL

\* No pass reaches an agent that changes code but with the authorisation that
\* evaluate_action_policy asks for, still valid; of the repositories the plan
\* declares, that is one discovered repository at least.
THEOREM ChangesAuthorized == Spec => []ChangesAreAuthorized
  <1>1. Inv => ChangesAreAuthorized
    BY DEF Inv
  <1> QED BY <1>1, InvAlways, PTL

\* What plans and reviews a change sees HIGH confidence only if it was earned.
THEOREM ConfidenceEarned == Spec => []HighConfidenceIsEarned
  <1>1. Inv => HighConfidenceIsEarned
    BY DEF Inv
  <1> QED BY <1>1, InvAlways, PTL

\* A stopped pass names the refusal it stopped on.
THEOREM StopsExplained == Spec => []StopIsExplained
  <1>1. Inv => StopIsExplained
    BY DEF Inv
  <1> QED BY <1>1, InvAlways, PTL

\* Code is changed at most once for each grant, of which a pass gets one at most,
\* and three times more, over all passes.
THEOREM HealingIsBounded == Spec => []HealingBounded
  <1>1. ASSUME Inv PROVE HealingBounded
    <2>1. /\ healing.attempts <= 3 /\ healing.directive <= healing.attempts
          /\ healing.changes <= grants.policy + healing.directive /\ grants.policy <= pass
          /\ healing.attempts \in Nat /\ healing.directive \in Nat
      BY <1>1 DEF Inv, HealingBudget, TInv, TypeData
    <2>2. QED BY <2>1 DEF HealingBounded
  <1> QED BY <1>1, InvAlways, PTL
=============================================================================
