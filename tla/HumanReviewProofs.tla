--------------------------- MODULE HumanReviewProofs ---------------------------
(***************************************************************************)
(* Theorems about human review for every number of reviews, requests and   *)
(* scopes.  The invariant Inv says of every place a decision or a grant can*)
(* be in (the row, a request's copy, the run, a loaded run state) what the *)
(* properties say of the run alone.                                        *)
(***************************************************************************)
EXTENDS HumanReviewProperties, TLAPS

USE DEF Review, Kinds, Statuses, OPCs, RPCs, Looking

-----------------------------------------------------------------------------
(* Type correctness                                                        *)

LEMMA Typed ==
  /\ NoDecision \in Decision /\ Absent \in Row
  /\ \A t \in {"NONE", "SAFETY_STOP", "COMPLETED"} : SessionState(t) \in RunState
  BY DEF NoDecision, Absent, SessionState, Decision, Row, RunState

LEMMA InitTypeOK == Init => TypeOK
  BY Typed, FaultAssumption DEF Init, TypeOK, AsksOK, NoAsk

\* The places a request keeps its progress in.
RequestTypeOK ==
    /\ rpc \in [Request -> RPCs]
    /\ copy \in [Request -> Row]
    /\ AsksOK

LEMMA RequestType ==
  ASSUME TypeOK, NEW q \in Request, rpc[q] # "idle", ask' = ask,
         NEW l \in RPCs, RequestGoto(q, l), l \in Looking \/ ask[q].kind # "VIEW",
         NEW c \in Row, copy' = copy \/ copy' = [copy EXCEPT ![q] = c]
  PROVE  RequestTypeOK'
  BY DEF TypeOK, RequestTypeOK, AsksOK, RequestGoto

LEMMA OpenerType ==
  ASSUME TypeOK, NEW o \in Opener, OpenerStep(o) \/ OpenerDies(o)
  PROVE  TypeOK'
  <1>1. CASE OpenReview(o)
    <2>1. [status |-> "OPEN", decision |-> NoDecision] \in Row
      BY Typed DEF Row
    <2>2. row' \in [Review -> Row] /\ opc' \in [Opener -> OPCs]
      BY <1>1, <2>1 DEF OpenReview, TypeOK
    <2> QED BY <1>1, <2>2 DEF OpenReview, TypeOK, AsksOK
  <1>2. CASE OpenerLoads(o)
    BY <1>2 DEF OpenerLoads, TypeOK, AsksOK
  <1>3. CASE PauseRun(o)
    <2>1. held[o] \in RunState
      BY DEF TypeOK
    <2>2. run' \in RunState
      BY <1>3, <2>1 DEF PauseRun, Paused, RunState
    <2>3. held' \in [Opener \cup Request -> RunState] /\ opc' \in [Opener -> OPCs]
      BY <1>3, Typed DEF PauseRun, TypeOK
    <2> QED BY <1>3, <2>2, <2>3 DEF PauseRun, TypeOK, AsksOK
  <1>4. CASE OpenerDies(o)
    <2>1. held' \in [Opener \cup Request -> RunState] /\ opc' \in [Opener -> OPCs]
      BY <1>4, Typed DEF OpenerDies, TypeOK
    <2> QED BY <1>4, <2>1 DEF OpenerDies, TypeOK, AsksOK
  <1> QED BY <1>1, <1>2, <1>3, <1>4 DEF OpenerStep

LEMMA RequestStepType ==
  ASSUME TypeOK, NEW q \in Request, RequestStep(q) \/ RequestDies(q)
  PROVE  TypeOK'
  <1>1. rpc[q] # "idle" /\ ask' = ask /\ due' = due /\ opc' = opc
    BY DEF RequestStep, RequestDies, View, ViewClock, Decide, DecideFetch, Fetch, DecideClock,
           DecideSave, ResumeRead, ResumeLoad, ResumeTask, ResumeState, Reply
  <1>2. ask[q].review \in Review /\ ask[q].kind \in Kinds /\ ask[q].scopes \in SUBSET Scope
    <2>1. ask[q] \in [kind : Kinds, review : Review \cup {None}, scopes : SUBSET Scope]
      BY DEF TypeOK
    <2>2. AsksOK
      BY DEF TypeOK
    <2>3. ask[q].review \in Review
      BY <1>1, <2>2 DEF AsksOK
    <2> QED BY <2>1, <2>3
  <1>3. /\ copy[q] \in Row /\ row[ask[q].review] \in Row /\ Absent \in Row
        /\ Expired(q) \in Row /\ [copy[q] EXCEPT !.status = "RESUMED"] \in Row
        /\ rpc[q] \notin Looking => ask[q].kind # "VIEW" /\ Decided(q) \in Row
    <2>1. copy[q] \in Row /\ row[ask[q].review] \in Row /\ Absent \in Row
      BY <1>2, Typed DEF TypeOK
    <2>2. Expired(q) \in Row /\ [copy[q] EXCEPT !.status = "RESUMED"] \in Row
      BY <2>1 DEF Row, Expired
    <2>3. ask[q].kind # "VIEW" => DecisionOf(q) \in Decision
      BY <1>2 DEF DecisionOf, Decision
    <2>4. ask[q].kind # "VIEW" => Decided(q) \in Row
      BY <2>3 DEF Decided, Row
    <2>5. AsksOK
      BY DEF TypeOK
    <2> QED BY <2>1, <2>2, <2>4, <2>5 DEF AsksOK
  <1>4. \A r \in Review, t \in Row : [row EXCEPT ![r] = t] \in [Review -> Row]
    BY DEF TypeOK
  <1>5. RequestTypeOK'
    <2>1. CASE View(q)
      BY <1>1, <1>3, <2>1, RequestType DEF View, Fetch, AfterView
    <2>2. CASE ViewClock(q)
      BY <1>1, <1>3, <2>2, RequestType DEF ViewClock, AfterView
    <2>3. CASE Decide(q)
      BY <1>1, <1>3, <2>3, RequestType DEF Decide, DecideFetch, Fetch
    <2>4. CASE DecideClock(q)
      BY <1>1, <1>3, <2>4, RequestType DEF DecideClock, Done
    <2>5. CASE DecideSave(q)
      BY <1>1, <1>3, <2>5, RequestType DEF DecideSave, Done
    <2>6. CASE ResumeRead(q)
      BY <1>1, <1>3, <2>6, RequestType DEF ResumeRead, Done
    <2>7. CASE ResumeLoad(q)
      BY <1>1, <1>3, <2>7, RequestType DEF ResumeLoad
    <2>8. CASE ResumeTask(q)
      BY <1>1, <1>3, <2>8, RequestType DEF ResumeTask
    <2>9. CASE ResumeState(q)
      BY <1>1, <1>3, <2>9, RequestType DEF ResumeState
    <2>10. CASE Reply(q) \/ RequestDies(q)
      BY <1>1, <1>3, <2>10, RequestType DEF Reply, RequestDies, Done
    <2> QED BY <2>1, <2>2, <2>3, <2>4, <2>5, <2>6, <2>7, <2>8, <2>9, <2>10 DEF RequestStep
  <1>6. row' \in [Review -> Row]
    BY <1>1, <1>2, <1>3, <1>4
       DEF TypeOK, RequestStep, RequestDies, View, ViewClock, Decide, DecideFetch, Fetch,
           DecideClock, DecideSave, ResumeRead, ResumeLoad, ResumeTask, ResumeState, Reply,
           ExpireCopy
  <1>7. run' \in RunState
    <2>1. CASE ResumeState(q)
      <3>1. held[q] \in RunState /\ copy[q].decision \in Decision
        BY DEF TypeOK, Row
      <3>2. GrantsOf(ask[q].review, copy[q].decision) \subseteq Grant
        BY <1>2, <3>1 DEF GrantsOf, Grant, Decision
      <3>3. Append(held[q].history, copy[q].decision) \in Seq(Decision)
        BY <3>1 DEF RunState
      <3> QED BY <2>1, <3>1, <3>2, <3>3 DEF ResumeState, Resumed, RunState
    <2>2. CASE ~ResumeState(q)
      BY <2>2 DEF TypeOK, RequestStep, RequestDies, View, ViewClock, Decide, DecideFetch,
                  Fetch, DecideClock, DecideSave, ResumeRead, ResumeLoad, ResumeTask, Reply
    <2> QED BY <2>1, <2>2
  <1>8. held' \in [Opener \cup Request -> RunState]
    <2>1. held' \in {held, [held EXCEPT ![q] = run], [held EXCEPT ![q] = SessionState("NONE")]}
      BY DEF RequestStep, RequestDies, View, ViewClock, Decide, DecideFetch, Fetch, DecideClock,
             DecideSave, ResumeRead, ResumeLoad, ResumeTask, ResumeState, Reply
    <2> QED BY <2>1, Typed DEF TypeOK
  <1>9. saved' \subseteq Request /\ faults' \in Nat
    BY DEF TypeOK, RequestStep, RequestDies, View, ViewClock, Decide, DecideFetch, Fetch,
           DecideClock, DecideSave, ResumeRead, ResumeLoad, ResumeTask, ResumeState, Reply
  <1> QED BY <1>1, <1>5, <1>6, <1>7, <1>8, <1>9 DEF TypeOK, RequestTypeOK

LEMMA NextTypeOK == TypeOK /\ [Next]_vars => TypeOK'
  <1> SUFFICES ASSUME TypeOK, [Next]_vars PROVE TypeOK'
    OBVIOUS
  <1>1. ASSUME NEW q \in Request, Arrive(q) PROVE TypeOK'
    BY <1>1 DEF Arrive, RequestGoto, TypeOK, AsksOK
  <1>2. ASSUME NEW r \in Review, ReviewDue(r) PROVE TypeOK'
    BY <1>2 DEF ReviewDue, TypeOK, AsksOK
  <1>3. ASSUME NEW t \in {"NONE", "SAFETY_STOP", "COMPLETED"}, SaveSession(t) PROVE TypeOK'
    BY <1>3, Typed DEF SaveSession, TypeOK, AsksOK
  <1>4. CASE UNCHANGED vars
    BY <1>4 DEF vars, TypeOK, AsksOK
  <1> QED BY <1>1, <1>2, <1>3, <1>4, OpenerType, RequestStepType DEF Next

\* Every variable keeps its type in every reachable state.
THEOREM TypeCorrect == Spec => []TypeOK
  BY InitTypeOK, NextTypeOK, PTL DEF Spec

-----------------------------------------------------------------------------
(* The inductive invariant.  Its parts take the asks A, the requests S that*)
(* saved a decision and the openers' progress O as parameters, so that what*)
(* a step keeps of them is said without primes.                            *)

AsAsked(A, p) == [by |-> p, kind |-> A[p].kind, scopes |-> A[p].scopes]

\* A decision recorded for review r is the one that some request saved for it.
BackedRow(A, S, r, t) ==
    /\ t.decision # NoDecision =>
         /\ t.decision.by \in S
         /\ A[t.decision.by].review = r
         /\ t.decision = AsAsked(A, t.decision.by)
    /\ t.status \in {"APPROVED", "RESUMED"} => t.decision.kind = "APPROVE"

BackedGrants(A, S, grants) == \A g \in grants :
    /\ g.by \in S
    /\ A[g.by].kind = "APPROVE" /\ A[g.by].review = g.review
    /\ g.scope \in A[g.by].scopes

BackedHistory(A, S, history) == \A i \in 1..Len(history) :
    /\ history[i].by \in S
    /\ history[i] = AsAsked(A, history[i].by)
    /\ history[i].kind = "APPROVE"

WaitsForReview(O, s) ==
    s.terminal = "HUMAN_REVIEW_REQUIRED" => s.pending \in Review /\ O[s.pending] # "idle"

BackedState(A, S, O, s) ==
    /\ BackedGrants(A, S, s.grants)
    /\ BackedHistory(A, S, s.history)
    /\ WaitsForReview(O, s)

OpenersOK == \A r \in Review : opc[r] = "idle" <=> row[r].status = "NONE"

RowsOK == \A r \in Review : BackedRow(ask, saved, r, row[r])

StatesOK ==
    /\ BackedState(ask, saved, opc, run)
    /\ \A p \in Opener \cup Request : BackedState(ask, saved, opc, held[p])

\* What a request holds fits the place it has reached.
RequestOK(q) ==
    /\ rpc[q] # "idle" => opc[ask[q].review] # "idle"
    /\ rpc[q] = "idle" => copy[q] = Absent /\ q \notin saved
    /\ rpc[q] \in {"viewClock", "decideClock", "decideSave"} => copy[q].status = "OPEN"
    /\ rpc[q] \in {"resumeLoad", "resumeTask", "resumeState"} => copy[q].status = "APPROVED"
    /\ rpc[q] = "decideSave" \/ q \in saved => ScopesAccepted(q)
    /\ BackedRow(ask, saved, ask[q].review, copy[q])

RequestsOK == \A q \in Request : RequestOK(q)

Inv == TypeOK /\ OpenersOK /\ RowsOK /\ StatesOK /\ RequestsOK

LEMMA InitInv == Init => Inv
  <1> SUFFICES ASSUME Init PROVE Inv
    OBVIOUS
  <1>1. BackedState(ask, saved, opc, SessionState("NONE"))
    BY DEF SessionState, BackedState, BackedGrants, BackedHistory, WaitsForReview
  <1>2. \A r : BackedRow(ask, saved, r, Absent)
    BY DEF Absent, NoDecision, BackedRow
  <1>3. OpenersOK
    BY DEF Init, OpenersOK, Absent
  <1>4. RowsOK /\ StatesOK
    BY <1>1, <1>2 DEF Init, RowsOK, StatesOK
  <1>5. RequestsOK
    BY <1>2 DEF Init, RequestsOK, RequestOK
  <1> QED BY <1>3, <1>4, <1>5, InitTypeOK DEF Inv

\* What is backed stays backed: a saved decision's ask is never changed, and an
\* opener that has started never becomes idle again.
LEMMA BackedKept ==
  ASSUME NEW A, NEW B, NEW S, NEW T, NEW O, NEW P,
         S \subseteq T, \A p \in S : A[p] = B[p],
         \A r \in Review : O[r] # "idle" => P[r] # "idle"
  PROVE  /\ \A r, t : BackedRow(A, S, r, t) => BackedRow(B, T, r, t)
         /\ \A s : BackedState(A, S, O, s) => BackedState(B, T, P, s)
  <1>1. ASSUME NEW r, NEW t, BackedRow(A, S, r, t) PROVE BackedRow(B, T, r, t)
    BY <1>1 DEF BackedRow, AsAsked
  <1>2. ASSUME NEW s, BackedState(A, S, O, s) PROVE BackedState(B, T, P, s)
    <2>1. BackedGrants(B, T, s.grants)
      BY <1>2 DEF BackedState, BackedGrants
    <2>2. BackedHistory(B, T, s.history)
      BY <1>2 DEF BackedState, BackedHistory, AsAsked
    <2>3. WaitsForReview(P, s)
      BY <1>2 DEF BackedState, WaitsForReview
    <2> QED BY <2>1, <2>2, <2>3 DEF BackedState
  <1> QED BY <1>1, <1>2

LEMMA OpenerSafe ==
  ASSUME Inv, NEW o \in Opener, OpenerStep(o) \/ OpenerDies(o)
  PROVE  OpenersOK' /\ RowsOK' /\ StatesOK' /\ RequestsOK'
  <1> USE DEF Inv
  <1>1. /\ ask' = ask /\ saved' = saved /\ rpc' = rpc /\ copy' = copy
        /\ opc \in [Opener -> OPCs] /\ row \in [Review -> Row]
        /\ held \in [Opener \cup Request -> RunState]
        /\ opc' = [opc EXCEPT ![o] = opc'[o]] /\ opc'[o] # "idle"
    BY DEF TypeOK, OpenerStep, OpenerDies, OpenReview, OpenerLoads, PauseRun
  <1>2. \A r \in Review : opc[r] # "idle" => opc'[r] # "idle"
    BY <1>1
  <1>3. \/ row' = row /\ opc[o] # "idle"
        \/ row' = [row EXCEPT ![o] = [status |-> "OPEN", decision |-> NoDecision]]
    BY DEF OpenerStep, OpenerDies, OpenReview, OpenerLoads, PauseRun
  <1>4. OpenersOK'
    BY <1>1, <1>3 DEF OpenersOK
  <1>5. RowsOK'
    <2>1. \A r : BackedRow(ask, saved, r, [status |-> "OPEN", decision |-> NoDecision])
      BY DEF BackedRow
    <2> QED BY <1>1, <1>3, <2>1 DEF RowsOK
  <1>6. RequestsOK'
    <2>1. ASSUME NEW q \in Request PROVE RequestOK(q)'
      <3>1. RequestOK(q) /\ (rpc[q] # "idle" => ask[q].review \in Review)
        BY DEF RequestsOK, TypeOK, AsksOK
      <3> QED BY <1>1, <1>2, <3>1 DEF RequestOK, ScopesAccepted
    <2> QED BY <2>1 DEF RequestsOK
  <1>7. StatesOK'
    <2>1. \A s : BackedState(ask, saved, opc, s) => BackedState(ask', saved', opc', s)
      BY <1>1, <1>2, BackedKept
    <2>2. BackedState(ask', saved', opc', SessionState("NONE"))
      BY DEF SessionState, BackedState, BackedGrants, BackedHistory, WaitsForReview
    <2>3. /\ BackedState(ask', saved', opc', run)
          /\ \A p \in Opener \cup Request : BackedState(ask', saved', opc', held[p])
      BY <2>1 DEF StatesOK
    <2>4. BackedState(ask', saved', opc', run')
      <3>1. CASE PauseRun(o)
        <4>1. run' = [held[o] EXCEPT !.pending = o, !.terminal = "HUMAN_REVIEW_REQUIRED"]
          BY <3>1 DEF PauseRun, Paused
        <4>2. held[o] \in RunState
          BY <1>1
        <4>3. /\ run'.grants = held[o].grants /\ run'.history = held[o].history
              /\ run'.pending = o
          BY <4>1, <4>2 DEF RunState
        <4> QED BY <1>1, <2>3, <4>3 DEF BackedState, WaitsForReview
      <3>2. CASE ~PauseRun(o)
        BY <3>2, <2>3 DEF OpenerStep, OpenerDies, OpenReview, OpenerLoads
      <3> QED BY <3>1, <3>2
    <2>5. \A p \in Opener \cup Request : held'[p] \in {held[p], run, SessionState("NONE")}
      BY <1>1 DEF OpenerStep, OpenerDies, OpenReview, OpenerLoads, PauseRun
    <2> QED BY <2>2, <2>3, <2>4, <2>5 DEF StatesOK
  <1> QED BY <1>4, <1>5, <1>6, <1>7

LEMMA ArriveSafe ==
  ASSUME Inv, NEW q \in Request, Arrive(q)
  PROVE  OpenersOK' /\ RowsOK' /\ StatesOK' /\ RequestsOK'
  <1> USE DEF Inv
  <1>1. /\ run' = run /\ row' = row /\ opc' = opc /\ copy' = copy /\ held' = held
        /\ saved' = saved /\ rpc[q] = "idle" /\ rpc' = [rpc EXCEPT ![q] = "view"]
        /\ rpc \in [Request -> RPCs] /\ opc \in [Opener -> OPCs]
    BY DEF Arrive, RequestGoto, TypeOK
  <1>2. PICK r \in Review : row[r].status # "NONE" /\ ask'[q].review = r
    BY DEF Arrive, TypeOK
  <1>3. \A p \in Request : p # q => ask'[p] = ask[p]
    BY DEF Arrive, TypeOK
  <1>4. \A p \in saved : ask'[p] = ask[p]
    BY <1>1, <1>3 DEF RequestsOK, RequestOK, TypeOK
  <1>5. /\ \A x, t : BackedRow(ask, saved, x, t) => BackedRow(ask', saved', x, t)
        /\ \A s : BackedState(ask, saved, opc, s) => BackedState(ask', saved', opc', s)
    BY <1>1, <1>4, BackedKept
  <1>6. OpenersOK' /\ RowsOK' /\ StatesOK'
    BY <1>1, <1>5 DEF OpenersOK, RowsOK, StatesOK
  <1>7. ASSUME NEW p \in Request PROVE RequestOK(p)'
    <2>1. CASE p = q
      <3>1. copy[q] = Absent /\ q \notin saved
        BY <1>1 DEF RequestsOK, RequestOK
      <3>2. BackedRow(ask', saved', ask'[q].review, copy'[q])
        BY <1>1, <3>1 DEF BackedRow, Absent
      <3>3. opc'[ask'[q].review] # "idle"
        BY <1>1, <1>2 DEF OpenersOK
      <3> QED BY <1>1, <2>1, <3>1, <3>2, <3>3 DEF RequestOK
    <2>2. CASE p # q
      <3>1. RequestOK(p) /\ ask'[p] = ask[p] /\ rpc'[p] = rpc[p] /\ copy'[p] = copy[p]
        BY <1>1, <1>3, <2>2 DEF RequestsOK
      <3>2. ScopesAccepted(p)' <=> ScopesAccepted(p)
        BY <3>1 DEF ScopesAccepted
      <3> QED BY <1>1, <1>5, <3>1, <3>2 DEF RequestOK
    <2> QED BY <2>1, <2>2
  <1> QED BY <1>6, <1>7 DEF RequestsOK

\* What one step of a request does to the review it is about.
RowStep(q) ==
    \/ row' = row
    \/ /\ rpc[q] \in {"viewClock", "decideClock"}
       /\ row' = [row EXCEPT ![ask[q].review] = Expired(q)]
    \/ /\ DecideSave(q)
       /\ row' = [row EXCEPT ![ask[q].review] = Decided(q)]
    \/ /\ ResumeTask(q)
       /\ row' = [row EXCEPT ![ask[q].review] = [copy[q] EXCEPT !.status = "RESUMED"]]

LEMMA RequestFrame ==
  ASSUME TypeOK, NEW q \in Request, RequestStep(q) \/ RequestDies(q)
  PROVE  /\ ask' = ask /\ opc' = opc
         /\ rpc[q] # "idle" /\ rpc'[q] # "idle" /\ ask[q].review \in Review
         /\ copy[q] \in Row /\ ask[q].kind \in Kinds
         /\ rpc[q] \notin Looking => ask[q].kind # "VIEW"
         /\ \A p \in Request : p # q => rpc'[p] = rpc[p] /\ copy'[p] = copy[p]
         /\ saved' = saved \/ (DecideSave(q) /\ saved' = saved \cup {q})
         /\ RowStep(q)
  <1>1. ask' = ask /\ opc' = opc /\ rpc[q] # "idle"
    BY DEF RequestStep, RequestDies, View, ViewClock, Decide, DecideFetch,
           Fetch, DecideClock, DecideSave, ResumeRead, ResumeLoad, ResumeTask, ResumeState,
           Reply, Done, RequestGoto, ExpireCopy
  <1>2. rpc'[q] # "idle" /\ \A p \in Request : p # q => rpc'[p] = rpc[p] /\ copy'[p] = copy[p]
    BY DEF RequestStep, RequestDies, View, ViewClock, Decide, DecideFetch,
           Fetch, DecideClock, DecideSave, ResumeRead, ResumeLoad, ResumeTask, ResumeState,
           Reply, Done, RequestGoto, ExpireCopy, AfterView, TypeOK
  <1>3. saved' = saved \/ (DecideSave(q) /\ saved' = saved \cup {q})
    <2>1. DecideSave(q) => saved' = saved \cup {q}
      BY DEF DecideSave
    <2>2. ~DecideSave(q) => saved' = saved
      BY DEF RequestStep, RequestDies, View, ViewClock, Decide, DecideFetch, Fetch,
             DecideClock, ResumeRead, ResumeLoad, ResumeTask, ResumeState, Reply
    <2> QED BY <2>1, <2>2
  <1>4. RowStep(q)
    BY DEF RequestStep, RequestDies, View, ViewClock, Decide, DecideFetch,
           Fetch, DecideClock, DecideSave, ResumeRead, ResumeLoad, ResumeTask, ResumeState,
           Reply, Done, RequestGoto, ExpireCopy, RowStep
  <1>5. ask[q].review \in Review /\ (rpc[q] \notin Looking => ask[q].kind # "VIEW")
    <2>1. AsksOK
      BY DEF TypeOK
    <2> QED BY <1>1, <2>1 DEF AsksOK
  <1>6. copy[q] \in Row /\ ask[q].kind \in Kinds
    BY DEF TypeOK
  <1> QED BY <1>1, <1>2, <1>3, <1>4, <1>5, <1>6

\* A saved decision is backed, for every review the row may be saved to.
LEMMA DecidedBacked ==
  ASSUME NEW q \in Request, NEW S, q \in S
  PROVE  BackedRow(ask, S, ask[q].review, Decided(q)) /\ Decided(q).status # "NONE"
  BY DEF BackedRow, Decided, DecisionOf, AsAsked

LEMMA RequestRowsSafe ==
  ASSUME Inv, NEW q \in Request, RequestStep(q) \/ RequestDies(q)
  PROVE  OpenersOK' /\ RowsOK'
  <1> USE DEF Inv
  <1>1. /\ ask' = ask /\ opc' = opc /\ ask[q].review \in Review /\ RowStep(q)
        /\ rpc[q] # "idle" /\ copy[q] \in Row
        /\ saved' = saved \/ (DecideSave(q) /\ saved' = saved \cup {q})
    BY RequestFrame
  <1>2. RequestOK(q) /\ row \in [Review -> Row]
    BY DEF RequestsOK, TypeOK
  <1>3. \A x, t : BackedRow(ask, saved, x, t) => BackedRow(ask', saved', x, t)
    BY <1>1, BackedKept
  <1>4. ASSUME NEW t, row' = [row EXCEPT ![ask[q].review] = t], t.status # "NONE",
               BackedRow(ask', saved', ask[q].review, t)
        PROVE  OpenersOK' /\ RowsOK'
    <2>1. opc[ask[q].review] # "idle"
      BY <1>1, <1>2 DEF RequestOK
    <2>2. OpenersOK'
      BY <1>1, <1>2, <1>4, <2>1 DEF OpenersOK
    <2>3. RowsOK'
      BY <1>1, <1>2, <1>3, <1>4 DEF RowsOK
    <2> QED BY <2>2, <2>3
  <1>5. CASE row' = row
    BY <1>1, <1>3, <1>5 DEF OpenersOK, RowsOK
  <1>6. CASE rpc[q] \in {"viewClock", "decideClock"} /\ row' = [row EXCEPT ![ask[q].review] = Expired(q)]
    <2>1. Expired(q).status = "EXPIRED" /\ Expired(q).decision = copy[q].decision
      BY <1>1 DEF Expired, Row
    <2>2. BackedRow(ask', saved', ask[q].review, copy[q])
      BY <1>2, <1>3 DEF RequestOK
    <2>3. BackedRow(ask', saved', ask[q].review, Expired(q))
      BY <2>1, <2>2 DEF BackedRow
    <2> QED BY <1>4, <1>6, <2>1, <2>3
  <1>7. CASE DecideSave(q) /\ row' = [row EXCEPT ![ask[q].review] = Decided(q)]
    <2>1. q \in saved'
      BY <1>7 DEF DecideSave
    <2>2. BackedRow(ask, saved', ask[q].review, Decided(q)) /\ Decided(q).status # "NONE"
      BY <2>1, DecidedBacked
    <2>3. BackedRow(ask', saved', ask[q].review, Decided(q))
      BY <1>1, <2>2
    <2> QED BY <1>4, <1>7, <2>2, <2>3
  <1>8. CASE ResumeTask(q) /\ row' = [row EXCEPT ![ask[q].review] = [copy[q] EXCEPT !.status = "RESUMED"]]
    <2> DEFINE t == [copy[q] EXCEPT !.status = "RESUMED"]
    <2>1. t.status = "RESUMED" /\ t.decision = copy[q].decision
      BY <1>1 DEF Row
    <2>2. BackedRow(ask', saved', ask[q].review, copy[q]) /\ copy[q].status = "APPROVED"
      BY <1>2, <1>3, <1>8 DEF RequestOK, ResumeTask
    <2>3. BackedRow(ask', saved', ask[q].review, t)
      BY <2>1, <2>2 DEF BackedRow
    <2> QED BY <1>4, <1>8, <2>1, <2>3
  <1> QED BY <1>1, <1>5, <1>6, <1>7, <1>8 DEF RowStep

LEMMA RequestStatesSafe ==
  ASSUME Inv, NEW q \in Request, RequestStep(q) \/ RequestDies(q)
  PROVE  StatesOK'
  <1> USE DEF Inv
  <1>1. /\ ask' = ask /\ opc' = opc /\ copy[q] \in Row
        /\ saved' = saved \/ (DecideSave(q) /\ saved' = saved \cup {q})
    BY RequestFrame
  <1>2. \A s : BackedState(ask, saved, opc, s) => BackedState(ask', saved', opc', s)
    BY <1>1, BackedKept
  <1>3. BackedState(ask', saved', opc', SessionState("NONE"))
    BY DEF SessionState, BackedState, BackedGrants, BackedHistory, WaitsForReview
  <1>4. \A p \in Opener \cup Request : held'[p] \in {held[p], run, SessionState("NONE")}
    <2>1. held' \in {held, [held EXCEPT ![q] = run], [held EXCEPT ![q] = SessionState("NONE")]}
      BY DEF RequestStep, RequestDies, View, ViewClock, Decide, DecideFetch,
           Fetch, DecideClock, DecideSave, ResumeRead, ResumeLoad, ResumeTask, ResumeState,
           Reply, Done, RequestGoto, ExpireCopy
    <2> QED BY <2>1 DEF TypeOK
  <1>5. BackedState(ask', saved', opc', run')
    <2>1. CASE ResumeState(q)
      <3> DEFINE d == copy[q].decision
      <3>1. held[q] \in RunState /\ BackedState(ask, saved, opc, held[q]) /\ saved' = saved
        BY <2>1 DEF StatesOK, TypeOK, ResumeState
      <3>2. /\ run' = Resumed(held[q], ask[q].review, d)
            /\ run'.terminal = "NONE"
            /\ run'.grants = held[q].grants \cup GrantsOf(ask[q].review, d)
            /\ run'.history = Append(held[q].history, d)
        BY <2>1 DEF ResumeState, Resumed
      <3>3. d.kind = "APPROVE" /\ BackedRow(ask, saved, ask[q].review, copy[q])
        BY <2>1 DEF ResumeState, RequestsOK, RequestOK, BackedRow
      <3>4. d.by \in saved /\ ask[d.by].review = ask[q].review /\ d = AsAsked(ask, d.by)
        BY <3>3 DEF BackedRow, NoDecision
      <3>5. BackedGrants(ask, saved, GrantsOf(ask[q].review, d))
        BY <3>3, <3>4 DEF BackedGrants, GrantsOf, AsAsked
      <3>6. BackedGrants(ask, saved, run'.grants)
        BY <3>1, <3>2, <3>5 DEF BackedState, BackedGrants
      <3>7. BackedHistory(ask, saved, run'.history)
        <4>1. held[q].history \in Seq(Decision) /\ d \in Decision
          BY <1>1, <3>1 DEF RunState, Row
        <4>2. /\ Len(run'.history) = Len(held[q].history) + 1
              /\ run'.history[Len(held[q].history) + 1] = d
              /\ \A i \in 1..Len(held[q].history) : run'.history[i] = held[q].history[i]
          BY <3>2, <4>1
        <4>3. \A i \in 1..Len(run'.history) :
                 i \in 1..Len(held[q].history) \/ i = Len(held[q].history) + 1
          BY <4>1, <4>2
        <4>4. BackedHistory(ask, saved, held[q].history)
          BY <3>1 DEF BackedState
        <4> QED BY <3>3, <3>4, <4>2, <4>3, <4>4 DEF BackedHistory
      <3> QED BY <1>1, <3>1, <3>2, <3>6, <3>7 DEF BackedState, WaitsForReview
    <2>2. CASE ~ResumeState(q)
      <3>1. run' = run
        BY <2>2 DEF RequestStep, RequestDies, View, ViewClock, Decide, DecideFetch, Fetch,
                    DecideClock, DecideSave, ResumeRead, ResumeLoad, ResumeTask, Reply
      <3> QED BY <1>2, <3>1 DEF StatesOK
    <2> QED BY <2>1, <2>2
  <1> QED BY <1>2, <1>3, <1>4, <1>5 DEF StatesOK

LEMMA RequestCopiesSafe ==
  ASSUME Inv, NEW q \in Request, RequestStep(q) \/ RequestDies(q)
  PROVE  RequestsOK'
  <1> USE DEF Inv
  <1>1. /\ ask' = ask /\ opc' = opc /\ rpc[q] # "idle" /\ rpc'[q] # "idle"
        /\ ask[q].review \in Review
        /\ \A p \in Request : p # q => rpc'[p] = rpc[p] /\ copy'[p] = copy[p]
        /\ saved' = saved \/ (DecideSave(q) /\ saved' = saved \cup {q})
    BY RequestFrame
  <1>2. \A x, t : BackedRow(ask, saved, x, t) => BackedRow(ask', saved', x, t)
    BY <1>1, BackedKept
  <1>3. \A p \in Request : RequestOK(p) /\ (ScopesAccepted(p)' <=> ScopesAccepted(p))
    BY <1>1 DEF RequestsOK, ScopesAccepted
  <1>4. ASSUME NEW p \in Request, p # q PROVE RequestOK(p)'
    BY <1>1, <1>2, <1>3, <1>4 DEF RequestOK
  <1>5. /\ rpc'[q] \in {"viewClock", "decideClock", "decideSave"} => copy'[q].status = "OPEN"
        /\ rpc'[q] \in {"resumeLoad", "resumeTask", "resumeState"}
             => copy'[q].status = "APPROVED"
        /\ rpc'[q] = "decideSave" => ScopesAccepted(q)
    <2>1. RequestOK(q) /\ rpc \in [Request -> RPCs] /\ copy \in [Request -> Row]
      BY <1>3 DEF TypeOK
    <2>2. CASE View(q) \/ Decide(q)
      BY <2>1, <2>2 DEF View, Decide, DecideFetch, Fetch, RequestGoto, AfterView
    <2>3. CASE ViewClock(q)
      BY <2>1, <2>3 DEF ViewClock, RequestGoto, AfterView
    <2>4. CASE DecideClock(q)
      BY <2>1, <2>4 DEF DecideClock, RequestGoto, Done, RequestOK
    <2>5. CASE DecideSave(q)
      BY <2>1, <2>5 DEF DecideSave, RequestGoto, Done
    <2>6. CASE ResumeRead(q)
      BY <2>1, <2>6 DEF ResumeRead, Resumable, RequestGoto, Done
    <2>7. CASE ResumeLoad(q) \/ ResumeTask(q)
      BY <2>1, <2>7 DEF ResumeLoad, ResumeTask, RequestGoto, RequestOK
    <2>8. CASE ResumeState(q) \/ Reply(q) \/ RequestDies(q)
      BY <2>1, <2>8 DEF ResumeState, Reply, RequestDies, RequestGoto, Done
    <2> QED BY <2>2, <2>3, <2>4, <2>5, <2>6, <2>7, <2>8 DEF RequestStep
  <1>6. BackedRow(ask', saved', ask'[q].review, copy'[q])
    <2>1. copy'[q] \in {copy[q], Absent, row[ask[q].review]}
      BY DEF RequestStep, RequestDies, View, ViewClock, Decide, DecideFetch,
           Fetch, DecideClock, DecideSave, ResumeRead, ResumeLoad, ResumeTask, ResumeState,
           Reply, Done, RequestGoto, ExpireCopy, TypeOK
    <2>2. BackedRow(ask, saved, ask[q].review, Absent)
      BY DEF BackedRow, Absent
    <2>3. BackedRow(ask, saved, ask[q].review, copy[q])
      BY <1>3 DEF RequestOK
    <2>4. BackedRow(ask, saved, ask[q].review, row[ask[q].review])
      BY <1>1 DEF RowsOK
    <2> QED BY <1>1, <1>2, <2>1, <2>2, <2>3, <2>4
  <1>7. q \in saved' => ScopesAccepted(q)
    BY <1>1, <1>3 DEF RequestOK, DecideSave
  <1>8. opc'[ask'[q].review] # "idle"
    BY <1>1, <1>3 DEF RequestOK
  <1>9. RequestOK(q)'
    BY <1>1, <1>3, <1>5, <1>6, <1>7, <1>8 DEF RequestOK
  <1> QED BY <1>4, <1>9 DEF RequestsOK

LEMMA NextInv == Inv /\ [Next]_vars => Inv'
  <1> SUFFICES ASSUME Inv, [Next]_vars PROVE Inv'
    OBVIOUS
  <1>1. TypeOK'
    BY NextTypeOK DEF Inv
  <1>2. ASSUME NEW t \in {"NONE", "SAFETY_STOP", "COMPLETED"}, SaveSession(t)
        PROVE  OpenersOK' /\ RowsOK' /\ StatesOK' /\ RequestsOK'
    <2>1. BackedState(ask, saved, opc, SessionState(t))
      BY DEF SessionState, BackedState, BackedGrants, BackedHistory, WaitsForReview
    <2>2. /\ ask' = ask /\ saved' = saved /\ opc' = opc /\ row' = row /\ rpc' = rpc
          /\ copy' = copy /\ held' = held /\ run' = SessionState(t)
      BY <1>2 DEF SaveSession
    <2> QED BY <2>1, <2>2 DEF Inv, OpenersOK, RowsOK, StatesOK, RequestsOK, RequestOK,
                              ScopesAccepted
  <1>3. CASE UNCHANGED vars \/ \E r \in Review : ReviewDue(r)
    <2>1. /\ ask' = ask /\ saved' = saved /\ opc' = opc /\ row' = row /\ rpc' = rpc
          /\ copy' = copy /\ held' = held /\ run' = run
      BY <1>3 DEF vars, ReviewDue
    <2> QED BY <1>1, <2>1 DEF Inv, OpenersOK, RowsOK, StatesOK, RequestsOK, RequestOK,
                              ScopesAccepted
  <1> QED BY <1>1, <1>2, <1>3, OpenerSafe, ArriveSafe, RequestRowsSafe, RequestStatesSafe,
             RequestCopiesSafe DEF Next, Inv

LEMMA SpecInv == Spec => []Inv
  BY InitInv, NextInv, PTL DEF Spec

-----------------------------------------------------------------------------
(* What the invariant gives                                                *)

\* A run never holds a grant of a scope its review does not allow: resume_run
\* issues the scopes of a decision that decide_review_task had checked.
THEOREM GrantsBounded == Spec => []ScopesBounded
  <1>1. Inv => ScopesBounded
    BY DEF Inv, StatesOK, BackedState, BackedGrants, RequestsOK, RequestOK, ScopesAccepted,
           ScopesBounded, TypeOK
  <1> QED BY <1>1, SpecInv, PTL

\* Every grant and every decision of the history was saved as an approval of
\* that review, however decisions, expiries and resumes overwrite each other.
THEOREM GrantsTraceable == Spec => []GrantsBacked
  <1>1. Inv => GrantsBacked
    BY DEF Inv, StatesOK, BackedState, BackedGrants, BackedHistory, GrantsBacked, AsAsked,
           DecisionOf
  <1> QED BY <1>1, SpecInv, PTL

\* A run saved as waiting for a human names a review whose row exists.
THEOREM PausesAnswerable == Spec => []PausedHasReview
  <1>1. Inv => PausedHasReview
    BY NoneAssumption DEF Inv, StatesOK, BackedState, WaitsForReview, OpenersOK,
                          PausedHasReview
  <1> QED BY <1>1, SpecInv, PTL

\* A settled review changes only by a thread that had read it OPEN, or by one
\* that resumes the approval it read.
THEOREM SettledReviewsStay == Spec => SettledReviewStays
  <1>1. Inv /\ [Next]_vars =>
          [\A r \in Review :
             row[r].status \notin {"NONE", "OPEN"} /\ row'[r] # row[r] =>
               \E q \in Request :
                 /\ ask[q].review = r
                 /\ \/ copy[q].status = "OPEN"
                    \/ copy[q].status = "APPROVED" /\ row'[r].status = "RESUMED"]_vars
    <2> SUFFICES ASSUME Inv, Next, NEW r \in Review,
                        row[r].status \notin {"NONE", "OPEN"}, row'[r] # row[r]
                 PROVE  \E q \in Request :
                          /\ ask[q].review = r
                          /\ \/ copy[q].status = "OPEN"
                             \/ copy[q].status = "APPROVED" /\ row'[r].status = "RESUMED"
      OBVIOUS
    <2>1. row \in [Review -> Row] /\ TypeOK
      BY DEF Inv, TypeOK
    <2>2. ASSUME NEW o \in Opener, OpenerStep(o) \/ OpenerDies(o) PROVE FALSE
      <3>1. \/ row' = row
            \/ OpenReview(o) /\ row' = [row EXCEPT ![o] = row'[o]]
        BY <2>1, <2>2 DEF OpenerStep, OpenerDies, OpenReview, OpenerLoads, PauseRun
      <3>2. OpenReview(o) /\ r = o
        BY <2>1, <3>1
      <3> QED BY <3>2 DEF OpenReview, Inv, OpenersOK
    <2>3. PICK q \in Request : RequestStep(q) \/ RequestDies(q)
      BY <2>2 DEF Next, Arrive, ReviewDue, SaveSession
    <2>4. RequestOK(q) /\ RowStep(q) /\ copy[q] \in Row /\ ask[q].review \in Review
      BY <2>1, <2>3, RequestFrame DEF Inv, RequestsOK
    <2>5. ask[q].review = r
      BY <2>1, <2>4 DEF RowStep
    <2>6. copy[q].status = "OPEN" \/ ResumeTask(q)
      BY <2>4 DEF RowStep, DecideSave, RequestOK
    <2>7. CASE ResumeTask(q)
      <3>1. row'[r] = [copy[q] EXCEPT !.status = "RESUMED"] /\ copy[q].status = "APPROVED"
        BY <2>1, <2>4, <2>5, <2>7 DEF ResumeTask, RequestOK
      <3>2. row'[r].status = "RESUMED"
        BY <2>4, <3>1 DEF Row
      <3> QED BY <2>5, <3>1, <3>2
    <2> QED BY <2>5, <2>6, <2>7
  <1> QED BY <1>1, SpecInv, PTL DEF Spec, SettledReviewStays
=============================================================================
