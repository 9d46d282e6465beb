---------------------------- MODULE ForkJoinProofs ----------------------------
(***************************************************************************)
(* Theorems about the fork/join executor for every number of tasks, every  *)
(* dependency graph, every set of keys and values and every limit.         *)
(*                                                                         *)
(* Two parts of the code compute something by going through data: the      *)
(* depth-first search, whose calls are steps of the specification, and     *)
(* the merge, a recursive function.  What the merge computes is proved by  *)
(* a least counterexample, for which the library has the well-foundedness  *)
(* of Nat.                                                                 *)
(***************************************************************************)
EXTENDS ForkJoinProperties, FiniteSetTheorems, FunctionTheorems, WellFoundedInduction, TLAPS

-----------------------------------------------------------------------------
(* Least counterexamples and finite sets *)

LEMMA LeastNumber ==
  ASSUME NEW S \in SUBSET Nat, S # {}
  PROVE  \E n \in S : \A m \in S : n <= m
  <1> DEFINE less == OpToRel(<, Nat)
  <1>1. IsWellFoundedOn(less, Nat)
    BY NatLessThanWellFounded
  <1>2. PICK n \in S : \A m \in S : <<m, n>> \notin less
    <2> HIDE DEF less
    <2> QED BY <1>1, WFMin
  <1>3. \A m \in S : ~ (m < n)
    BY <1>2 DEF OpToRel
  <1> QED BY <1>3

\* A set of the numbers up to n that has 0 and is closed under successor has all.
LEMMA BoundedInduction ==
  ASSUME NEW n \in Nat, NEW S, 0 \in S,
         \A m \in 1 .. n : m - 1 \in S => m \in S
  PROVE  0 .. n \subseteq S
  <1> DEFINE bad == (0 .. n) \ S
  <1>1. SUFFICES ASSUME bad # {} PROVE FALSE
    OBVIOUS
  <1>2. bad \in SUBSET Nat
    OBVIOUS
  <1>3. PICK m \in bad : \A l \in bad : m <= l
    <2> HIDE DEF bad
    <2> QED BY <1>1, <1>2, LeastNumber
  <1>4. m \in 1 .. n /\ m - 1 \in 0 .. n /\ m - 1 \notin bad
    BY <1>3
  <1> QED BY <1>3, <1>4

LEMMA TasksFinite == IsFiniteSet(Task) /\ \A S \in SUBSET Task : IsFiniteSet(S)
  <1>1. IsFiniteSet(Task)
    BY TasksAssumption, FS_Interval DEF Task
  <1> QED BY <1>1, FS_Subset

-----------------------------------------------------------------------------
(* The merge *)

\* The recursion of MergeUpTo has a solution.
LEMMA MergeRecursion ==
  ASSUME NEW k
  PROVE  MergeUpTo(k) = [n \in 0 .. Tasks |->
             IF n = 0 THEN Nothing ELSE MergeBranch(MergeUpTo(k)[n - 1], n, k)]
  <1> DEFINE Solves(g, m) ==
          g = [n \in 0 .. m |-> IF n = 0 THEN Nothing ELSE MergeBranch(g[n - 1], n, k)]
  <1> DEFINE solved == {m \in 0 .. Tasks : \E g : Solves(g, m)}
  <1>1. 0 \in solved
    <2>1. Solves([n \in 0 .. 0 |-> Nothing], 0)
      OBVIOUS
    <2>2. \E g : Solves(g, 0)
      <3> HIDE DEF Solves
      <3> QED BY <2>1
    <2> QED BY <2>2, TasksAssumption
  <1>2. ASSUME NEW m \in 1 .. Tasks, m - 1 \in solved PROVE m \in solved
    <2>1. PICK g : Solves(g, m - 1)
      BY <1>2
    <2> DEFINE h == [n \in 0 .. m |->
            IF n = m THEN MergeBranch(g[m - 1], m, k) ELSE g[n]]
    <2>2. ASSUME NEW n \in 0 .. m
          PROVE  h[n] = IF n = 0 THEN Nothing ELSE MergeBranch(h[n - 1], n, k)
      <3>1. CASE n = m
        BY <3>1
      <3>2. CASE n # m
        <4>1. n \in 0 .. m - 1 /\ h[n] = g[n]
          BY <3>2
        <4>2. n # 0 => h[n - 1] = g[n - 1]
          BY <4>1
        <4> QED BY <2>1, <4>1, <4>2
      <3> QED BY <3>1, <3>2
    <2>3. Solves(h, m)
      <3> DEFINE f == [n \in 0 .. m |-> IF n = 0 THEN Nothing ELSE MergeBranch(h[n - 1], n, k)]
      <3>1. \A n \in 0 .. m : h[n] = f[n]
        BY <2>2
      <3> QED BY <3>1
    <2>4. \E f : Solves(f, m)
      <3> HIDE DEF Solves, h
      <3> QED BY <2>3
    <2> QED BY <2>4, TasksAssumption
  <1>3. \E g : Solves(g, Tasks)
    <2> HIDE DEF solved
    <2>1. 0 .. Tasks \subseteq solved
      BY <1>1, <1>2, TasksAssumption, BoundedInduction
    <2>2. Tasks \in solved
      BY <2>1, TasksAssumption
    <2> QED BY <2>2 DEF solved
  <1>4. MergeUpTo(k) = CHOOSE g : Solves(g, Tasks)
    BY DEF MergeUpTo
  <1>5. Solves(MergeUpTo(k), Tasks)
    <2> HIDE DEF Solves
    <2> QED BY <1>3, <1>4
  <1> QED BY <1>5

\* What the branches up to n offer for a key.
OfferedUpTo(k, n) == {output[t][k] : t \in {u \in Succeeded : u <= n}} \ {NoValue}

Merges == [value : Values \cup {NoValue}, conflict : BOOLEAN]

\* The merge of the branches up to n is a conflict if two of them disagree, and
\* the one value they offer, if any, otherwise.
MergeFits(acc, k, n) ==
    /\ acc \in Merges
    /\ acc.conflict => acc.value = NoValue /\ \E v, w \in OfferedUpTo(k, n) : v # w
    /\ ~acc.conflict => OfferedUpTo(k, n) = {acc.value} \ {NoValue}

LEMMA MergeBranchFits ==
  ASSUME NEW k \in Keys, NEW n \in Task, output[n] \in Outputs,
         NEW acc, MergeFits(acc, k, n - 1)
  PROVE  MergeFits(MergeBranch(acc, n, k), k, n)
  <1> DEFINE v == output[n][k]
             was == OfferedUpTo(k, n - 1)
             is  == OfferedUpTo(k, n)
  <1>1. v \in Values \cup {NoValue}
    BY DEF Outputs
  <1>2. acc \in Merges
    BY DEF MergeFits
  <1>3. \A u \in Succeeded : u <= n <=> (u <= n - 1 \/ u = n)
    BY TasksAssumption DEF Succeeded, Task
  <1>4. CASE results[n] # "SUCCEEDED" \/ v = NoValue
    <2>1. is = was
      BY <1>3, <1>4, TasksAssumption DEF OfferedUpTo, Succeeded, Task
    <2>2. MergeBranch(acc, n, k) = acc
      BY <1>4 DEF MergeBranch
    <2> QED BY <2>1, <2>2 DEF MergeFits
  <1>5. CASE results[n] = "SUCCEEDED" /\ v # NoValue
    <2>1. is = was \cup {v}
      BY <1>3, <1>5, TasksAssumption DEF OfferedUpTo, Succeeded, Task
    <2> HIDE DEF v, was, is
    <2>2. CASE acc.conflict
      <3>1. MergeBranch(acc, n, k) = acc
        BY <2>2 DEF MergeBranch
      <3> QED BY <2>1, <2>2, <3>1 DEF MergeFits, was, is
    <2>3. CASE ~acc.conflict /\ acc.value \notin {NoValue, v}
      <3>1. MergeBranch(acc, n, k) = [value |-> NoValue, conflict |-> TRUE]
        BY <1>5, <2>3 DEF MergeBranch, v
      <3>2. acc.value \in is /\ v \in is /\ acc.value # v
        BY <2>1, <2>3 DEF MergeFits, was
      <3> QED BY <3>1, <3>2 DEF MergeFits, Merges, is
    <2>4. CASE ~acc.conflict /\ acc.value \in {NoValue, v}
      <3>1. MergeBranch(acc, n, k) = [value |-> v, conflict |-> FALSE]
        BY <1>5, <2>4 DEF MergeBranch, v
      <3>2. is = {v} \ {NoValue}
        BY <1>5, <2>1, <2>4 DEF MergeFits, was
      <3> QED BY <1>1, <3>1, <3>2 DEF MergeFits, Merges, is
    <2> QED BY <1>2, <2>2, <2>3, <2>4 DEF Merges
  <1> QED BY <1>4, <1>5

LEMMA MergeUpToFits ==
  ASSUME NEW k \in Keys, \A t \in Task : output[t] \in Outputs
  PROVE  \A n \in 0 .. Tasks : MergeFits(MergeUpTo(k)[n], k, n)
  <1> DEFINE fits == {n \in 0 .. Tasks : MergeFits(MergeUpTo(k)[n], k, n)}
  <1>1. 0 \in fits
    <2>1. MergeUpTo(k)[0] = Nothing
      BY MergeRecursion, TasksAssumption
    <2>2. OfferedUpTo(k, 0) = {}
      BY TasksAssumption DEF OfferedUpTo, Succeeded, Task
    <2>3. Nothing \in Merges /\ Nothing.value = NoValue /\ ~Nothing.conflict
      BY DEF Nothing, Merges
    <2>4. MergeFits(MergeUpTo(k)[0], k, 0)
      BY <2>1, <2>2, <2>3 DEF MergeFits
    <2> QED BY <2>4, TasksAssumption
  <1>2. ASSUME NEW n \in 1 .. Tasks, n - 1 \in fits PROVE n \in fits
    <2>1. MergeUpTo(k)[n] = MergeBranch(MergeUpTo(k)[n - 1], n, k)
      BY MergeRecursion, TasksAssumption
    <2>2. MergeFits(MergeUpTo(k)[n - 1], k, n - 1)
      BY <1>2
    <2>3. MergeFits(MergeUpTo(k)[n], k, n)
      BY <2>1, <2>2, MergeBranchFits DEF Task
    <2> QED BY <2>3, TasksAssumption
  <1> HIDE DEF fits
  <1>3. 0 .. Tasks \subseteq fits
    BY <1>1, <1>2, TasksAssumption, BoundedInduction
  <1> QED BY <1>3 DEF fits

\* The merge of one key: a conflict exactly if two branches that succeeded
\* offer different values, and otherwise the value they agree on, if any.
LEMMA MergingFits ==
  ASSUME NEW k \in Keys, \A t \in Task : output[t] \in Outputs
  PROVE  /\ Merging(k) \in Merges
         /\ Merging(k).conflict <=> Cardinality(Offered(k)) > 1
         /\ Merging(k).value = IF Cardinality(Offered(k)) = 1
                               THEN CHOOSE v \in Offered(k) : TRUE ELSE NoValue
  <1> DEFINE acc == Merging(k)
  <1>1. MergeFits(acc, k, Tasks)
    BY MergeUpToFits, TasksAssumption DEF Merging
  <1>2. OfferedUpTo(k, Tasks) = Offered(k)
    BY TasksAssumption DEF OfferedUpTo, Offered, Succeeded, Task
  <1>3. IsFiniteSet(Offered(k))
    <2> DEFINE offer == [t \in Succeeded |-> output[t][k]]
               image == {output[t][k] : t \in Succeeded}
    <2>1. offer \in Surjection(Succeeded, image)
      BY DEF Surjection
    <2>2. IsFiniteSet(Succeeded)
      BY TasksFinite DEF Succeeded
    <2>3. IsFiniteSet(image)
      <3> HIDE DEF offer, image
      <3> QED BY <2>1, <2>2, FS_Surjection
    <2> QED BY <2>3, FS_Subset DEF Offered
  <1> HIDE DEF acc
  <1>4. CASE acc.conflict
    <2>1. PICK v \in Offered(k), w \in Offered(k) : v # w
      BY <1>1, <1>2, <1>4 DEF MergeFits
    <2>2. Cardinality({v, w}) = 2
      <3>1. IsFiniteSet({v}) /\ Cardinality({v}) = 1 /\ w \notin {v}
        BY <2>1, FS_Singleton
      <3>2. Cardinality({v} \cup {w}) = 2
        BY <3>1, FS_AddElement
      <3> QED BY <3>2, {v} \cup {w} = {v, w}
    <2>3. Cardinality(Offered(k)) > 1
      BY <1>3, <2>2, FS_Subset, FS_CardinalityType
    <2> QED BY <1>1, <1>4, <2>3 DEF acc, MergeFits
  <1>5. CASE ~acc.conflict /\ acc.value # NoValue
    <2>1. Offered(k) = {acc.value}
      BY <1>1, <1>2, <1>5 DEF MergeFits
    <2>2. Cardinality(Offered(k)) = 1
      BY <2>1, FS_Singleton
    <2> QED BY <1>1, <1>5, <2>1, <2>2 DEF acc, MergeFits
  <1>6. CASE ~acc.conflict /\ acc.value = NoValue
    <2>1. Cardinality(Offered(k)) = 0
      BY <1>1, <1>2, <1>6, FS_EmptySet DEF MergeFits
    <2> QED BY <1>1, <1>6, <2>1 DEF acc, MergeFits
  <1> QED BY <1>1, <1>4, <1>5, <1>6 DEF MergeFits, Merges

-----------------------------------------------------------------------------
(* Type correctness *)

SearchStep == Validate
WaveStep   == CancelPending \/ SkipPending \/ StartWave
WaitStep   == Gather \/ GiveUp \/ GiveUpAll \/ AllCollected
HandlerStep(t) == HandlerReturns(t) \/ HandlerRaises(t)
ClockStep  == CancelRequested \/ DeadlinePasses \/ \E t \in Task : TimeoutPasses(t)

LEMMA StepCases ==
  ASSUME [Next]_vars
  PROVE  \/ SearchStep \/ WaveStep \/ WaitStep \/ Settle \/ Join
         \/ (\E t \in Task : HandlerStep(t)) \/ ClockStep \/ UNCHANGED vars
  BY DEF Next, Collector, SearchStep, WaveStep, WaitStep, HandlerStep, ClockStep

LEMMA InitType == Init => TypeOK
  <1> SUFFICES ASSUME Init PROVE TypeOK
    OBVIOUS
  <1>1. Silent \in Outputs
    BY DEF Silent, Outputs
  <1>2. stack \in Seq(Task)
    BY DEF Init
  <1> QED
    BY <1>1, <1>2 DEF Init, TypeOK, Labels, Conclusions, BranchStatus, NotJoined

LEMMA InnermostTask ==
  ASSUME stack \in Seq(Task), stack # <<>>
  PROVE  Innermost \in Task /\ Len(stack) \in Nat \ {0}
  BY DEF Innermost

LEMMA SearchType == TypeOK /\ SearchStep => TypeOK'
  <1> SUFFICES ASSUME TypeOK, SearchStep PROVE TypeOK'
    OBVIOUS
  <1> USE DEF TypeOK, runVars, clock, Labels
  <1>1. ASSUME NEW t \in Task, Visit(t) PROVE TypeOK'
    BY <1>1 DEF Visit
  <1>2. CASE Leave
    <2>1. Innermost \in Task /\ SubSeq(stack, 1, Len(stack) - 1) \in Seq(Task)
      BY <1>2, InnermostTask DEF Leave
    <2> QED BY <1>2, <2>1 DEF Leave
  <1>3. CASE Refuse \/ Accept
    BY <1>3 DEF Refuse, Accept
  <1> QED BY <1>1, <1>2, <1>3 DEF SearchStep, Validate

LEMMA DecideType ==
  ASSUME TypeOK, NEW S, NEW status \in BranchStatus
  PROVE  Decide(S, status) \in [Task -> BranchStatus \cup {"none"}]
  BY DEF TypeOK, Decide

LEMMA WaveType == TypeOK /\ WaveStep => TypeOK'
  <1> SUFFICES ASSUME TypeOK, WaveStep PROVE TypeOK'
    OBVIOUS
  <1> USE DEF search, clock, Labels
  <1>1. /\ Decide(Pending, "CANCELLED") \in [Task -> BranchStatus \cup {"none"}]
        /\ Decide(Pending, "SKIPPED") \in [Task -> BranchStatus \cup {"none"}]
        /\ Decide(Blocked, "SKIPPED") \in [Task -> BranchStatus \cup {"none"}]
    BY DecideType DEF BranchStatus
  <1>2. CASE CancelPending \/ SkipPending
    BY <1>1, <1>2 DEF TypeOK, CancelPending, SkipPending
  <1>3. CASE StartWave
    <2>1. results' \in [Task -> BranchStatus \cup {"none"}]
      BY <1>1, <1>3 DEF StartWave, BranchStatus
    <2>2. handler' \in [Task -> {"idle", "running", "returned", "raised"}]
      BY <1>3 DEF StartWave, TypeOK
    <2>3. wave' \subseteq Task /\ collected' \subseteq wave' /\ timedOut' \subseteq wave'
      BY <1>3 DEF StartWave, TypeOK, Ready, Pending
    <2> QED BY <1>3, <2>1, <2>2, <2>3 DEF StartWave, TypeOK
  <1> QED BY <1>2, <1>3 DEF WaveStep

LEMMA JoinType == TypeOK /\ Join => TypeOK'
  <1> SUFFICES ASSUME TypeOK, Join PROVE TypeOK'
    OBVIOUS
  <1>1. \A k \in Keys : Merging(k) \in Merges
    BY MergingFits DEF TypeOK
  <1>2. [k \in Keys |-> Merging(k).value] \in Outputs
    BY <1>1 DEF Merges, Outputs
  <1>3. joined' \in [status : Conclusions, merged : Outputs, conflicts : SUBSET Keys]
    BY <1>2 DEF Join, JoinedStatus, Conclusions
  <1> QED BY <1>3 DEF Join, TypeOK, search, clock, Labels

LEMMA OtherType ==
  ASSUME TypeOK,
         WaitStep \/ Settle \/ (\E t \in Task : HandlerStep(t)) \/ ClockStep \/ UNCHANGED vars
  PROVE  TypeOK'
  <1> USE DEF TypeOK, search, clock, Labels
  <1>1. CASE WaitStep
    BY <1>1 DEF WaitStep, Gather, GiveUp, GiveUpAll, AllCollected, Uncollected
  <1>2. CASE Settle
    BY <1>2 DEF Settle, Outcome, BranchStatus
  <1>3. ASSUME NEW t \in Task, HandlerStep(t) PROVE TypeOK'
    BY <1>3 DEF HandlerStep, HandlerReturns, HandlerRaises
  <1>4. CASE ClockStep \/ UNCHANGED vars
    BY <1>4 DEF ClockStep, CancelRequested, DeadlinePasses, TimeoutPasses, vars
  <1> QED BY <1>1, <1>2, <1>3, <1>4

LEMMA NextType == TypeOK /\ [Next]_vars => TypeOK'
  BY StepCases, SearchType, WaveType, JoinType, OtherType

\* Every variable keeps its type, and futures exist for tasks of the wave only.
THEOREM TypeCorrect == Spec => []TypeOK
  BY InitType, NextType, PTL DEF Spec

-----------------------------------------------------------------------------
(* The depth-first search *)

\* Tasks that wait for one another in a circle.
Circular(S) == S # {} /\ \A t \in S : deps[t] \cap S # {}

\* The calls under way form a path: each task is a dependency of the one before.
StackIsPath == \A i \in 2 .. Len(stack) : stack[i] \in deps[stack[i - 1]]

\* A task is visited when all below it have been, and nothing visited is circular.
VisitedIsClosed ==
    /\ \A t \in visited : deps[t] \subseteq visited
    /\ \A S \in SUBSET visited : ~Circular(S)

StackIsNew == Visiting \cap visited = {}

NoRepetition == \A i, j \in DOMAIN stack : stack[i] = stack[j] => i = j

SearchInv ==
    /\ TypeOK
    /\ StackIsPath
    /\ NoRepetition
    /\ StackIsNew
    /\ VisitedIsClosed
    /\ RefusedIffCyclic

\* A call that meets a task being visited has found a circle.
LEMMA RefuseFindsCycle ==
  ASSUME TypeOK, StackIsPath, Refuse, \A S \in SUBSET visited : ~Circular(S)
  PROVE  Cycle
  <1>1. PICK j \in DOMAIN stack : stack[j] \in Callees
    BY DEF Refuse, Visiting
  <1>2. stack # <<>> /\ stack[j] \in deps[Innermost]
    BY <1>1 DEF TypeOK, Callees
  <1> DEFINE S == {stack[i] : i \in j .. Len(stack)}
  <1>3. j \in 1 .. Len(stack) /\ Len(stack) \in Nat
    BY <1>1 DEF TypeOK
  <1>4. S \in SUBSET Task /\ S # {}
    BY <1>3 DEF TypeOK
  <1>5. ASSUME NEW t \in S PROVE deps[t] \cap S # {}
    <2>1. PICK i \in j .. Len(stack) : t = stack[i]
      OBVIOUS
    <2>2. CASE i = Len(stack)
      BY <1>2, <1>3, <2>1, <2>2 DEF Innermost
    <2>3. CASE i < Len(stack)
      <3>1. i + 1 \in 2 .. Len(stack) /\ i + 1 \in j .. Len(stack) /\ (i + 1) - 1 = i
        BY <1>3, <2>3
      <3>2. stack[i + 1] \in deps[stack[i]]
        BY <3>1 DEF StackIsPath
      <3> QED BY <2>1, <3>1, <3>2
    <2> QED BY <1>3, <2>2, <2>3
  <1> HIDE DEF S
  <1> QED BY <1>4, <1>5 DEF Cycle

LEMMA VisitKeepsSearch ==
  ASSUME SearchInv, NEW t \in Task, Visit(t)
  PROVE  SearchInv'
  <1> USE DEF Visit, runVars
  <1>1. stack \in Seq(Task) /\ Len(stack) \in Nat
    BY DEF SearchInv, TypeOK
  <1>2. /\ Len(stack') = Len(stack) + 1
        /\ stack'[Len(stack) + 1] = t
        /\ \A i \in 1 .. Len(stack) : stack'[i] = stack[i]
    BY <1>1
  <1>3. t \notin Visiting /\ t \notin visited
    OBVIOUS
  <1>4. TypeOK'
    BY SearchType DEF SearchInv, SearchStep, Validate
  <1>5. StackIsPath'
    <2>1. ASSUME NEW i \in 2 .. Len(stack') PROVE stack'[i] \in deps[stack'[i - 1]]
      <3>1. CASE i = Len(stack) + 1
        <4>1. stack # <<>> /\ stack'[i - 1] = Innermost
          BY <1>1, <1>2, <2>1, <3>1 DEF Innermost
        <4> QED BY <1>2, <3>1, <4>1 DEF Callees
      <3>2. CASE i \in 2 .. Len(stack)
        <4>1. i - 1 \in 1 .. Len(stack) /\ i \in 1 .. Len(stack)
          BY <1>1, <3>2
        <4> QED BY <1>2, <3>2, <4>1 DEF SearchInv, StackIsPath
      <3> QED BY <1>1, <1>2, <3>1, <3>2
    <2> QED BY <2>1 DEF StackIsPath
  <1>6. NoRepetition'
    <2>1. \A i \in 1 .. Len(stack) : stack[i] # t
      BY <1>1, <1>3 DEF Visiting
    <2>2. DOMAIN stack' = 1 .. Len(stack) + 1
      BY <1>1, <1>2
    <2> QED BY <1>1, <1>2, <2>1, <2>2 DEF SearchInv, NoRepetition
  <1>7. StackIsNew'
    <2>1. Visiting' = Visiting \cup {t}
      BY <1>1, <1>2 DEF Visiting
    <2> QED BY <1>3, <2>1 DEF SearchInv, StackIsNew
  <1>8. VisitedIsClosed' /\ RefusedIffCyclic'
    BY DEF SearchInv, VisitedIsClosed, Circular, RefusedIffCyclic
  <1> QED BY <1>4, <1>5, <1>6, <1>7, <1>8 DEF SearchInv

\* A visited task that is added to those visited below it closes no circle.
LEMMA LeaveKeepsClosed ==
  ASSUME VisitedIsClosed, NEW t, deps[t] \subseteq visited, t \notin visited,
         NEW S \in SUBSET (visited \cup {t})
  PROVE  ~Circular(S)
  <1>1. SUFFICES ASSUME Circular(S) PROVE FALSE
    OBVIOUS
  <1>2. t \in S
    BY <1>1 DEF VisitedIsClosed
  <1> DEFINE rest == S \ {t}
  <1>3. rest \in SUBSET visited
    OBVIOUS
  <1>4. rest # {}
    BY <1>1, <1>2 DEF Circular
  <1>5. \A u \in rest : deps[u] \cap rest # {}
    BY <1>1, <1>3 DEF Circular, VisitedIsClosed
  <1> QED BY <1>3, <1>4, <1>5 DEF Circular, VisitedIsClosed

LEMMA LeaveKeepsSearch ==
  ASSUME SearchInv, Leave
  PROVE  SearchInv'
  <1> USE DEF Leave, runVars
  <1> DEFINE n == Len(stack) - 1
  <1>1. stack \in Seq(Task) /\ Innermost \in Task /\ n \in Nat /\ n + 1 = Len(stack)
    BY InnermostTask DEF SearchInv, TypeOK
  <1>2. Len(stack') = n /\ DOMAIN stack' = 1 .. n /\ \A i \in 1 .. n : stack'[i] = stack[i]
    BY <1>1
  <1>3. TypeOK'
    BY SearchType DEF SearchInv, SearchStep, Validate
  <1>4. StackIsPath'
    BY <1>1, <1>2 DEF SearchInv, StackIsPath
  <1>5. NoRepetition'
    BY <1>1, <1>2 DEF SearchInv, NoRepetition
  <1>6. Innermost \in Visiting /\ Innermost \notin Visiting'
    BY <1>1, <1>2 DEF SearchInv, NoRepetition, Visiting, Innermost
  <1>7. StackIsNew'
    <2>1. Visiting' \subseteq Visiting
      BY <1>1, <1>2 DEF Visiting
    <2> QED BY <1>6, <2>1 DEF SearchInv, StackIsNew
  <1>8. VisitedIsClosed'
    <2>1. Innermost \notin visited /\ deps[Innermost] \subseteq visited
      BY <1>6 DEF SearchInv, StackIsNew, Callees
    <2>2. \A S \in SUBSET visited' : ~Circular(S)
      BY <2>1, LeaveKeepsClosed DEF SearchInv
    <2> QED BY <2>1, <2>2 DEF SearchInv, VisitedIsClosed, Circular
  <1>9. RefusedIffCyclic'
    BY DEF RefusedIffCyclic
  <1> QED BY <1>3, <1>4, <1>5, <1>7, <1>8, <1>9 DEF SearchInv

LEMMA VerdictKeepsSearch ==
  ASSUME SearchInv, Refuse \/ Accept
  PROVE  SearchInv'
  <1> USE DEF runVars
  <1>1. TypeOK'
    BY SearchType DEF SearchInv, SearchStep, Validate
  <1>2. UNCHANGED <<stack, visited, deps>>
    BY DEF Refuse, Accept
  <1>3. StackIsPath' /\ NoRepetition' /\ StackIsNew' /\ VisitedIsClosed'
    BY <1>2 DEF SearchInv, StackIsPath, NoRepetition, StackIsNew, Visiting, VisitedIsClosed,
                Circular
  <1>4. CASE Refuse
    <2>1. Cycle'
      BY <1>2, <1>4, RefuseFindsCycle DEF SearchInv, VisitedIsClosed, Cycle
    <2> QED BY <1>1, <1>3, <1>4, <2>1 DEF Refuse, SearchInv, RefusedIffCyclic
  <1>5. CASE Accept
    <2>1. ~Cycle'
      BY <1>2, <1>5 DEF Accept, SearchInv, TypeOK, VisitedIsClosed, Circular, Cycle
    <2> QED BY <1>1, <1>3, <1>5, <2>1 DEF Accept, SearchInv, RefusedIffCyclic
  <1> QED BY <1>4, <1>5

\* After the search its variables stay, and pc never returns to it.
LEMMA RunKeepsSearch ==
  ASSUME SearchInv, [Next]_vars, ~SearchStep
  PROVE  SearchInv'
  <1> USE DEF search, clock
  <1>1. TypeOK'
    BY NextType DEF SearchInv
  <1>2. /\ UNCHANGED <<stack, visited, deps>>
        /\ pc' = pc \/ {pc, pc'} \cap {"validate", "refused"} = {}
    <2>1. CASE WaveStep \/ WaitStep
      BY <2>1 DEF WaveStep, CancelPending, SkipPending, StartWave, WaitStep, Gather, GiveUp,
                  GiveUpAll, AllCollected
    <2>2. CASE Settle \/ Join
      BY <2>2 DEF Settle, Join
    <2>3. CASE (\E t \in Task : HandlerStep(t)) \/ ClockStep \/ UNCHANGED vars
      BY <2>3 DEF HandlerStep, HandlerReturns, HandlerRaises, ClockStep, CancelRequested,
                  DeadlinePasses, TimeoutPasses, vars
    <2> QED BY <2>1, <2>2, <2>3, StepCases
  <1>3. StackIsPath' /\ NoRepetition'
    BY <1>2 DEF SearchInv, StackIsPath, NoRepetition
  <1>4. StackIsNew'
    BY <1>2 DEF SearchInv, StackIsNew, Visiting
  <1>5. VisitedIsClosed'
    BY <1>2 DEF SearchInv, VisitedIsClosed, Circular
  <1>6. RefusedIffCyclic'
    <2>1. Cycle' <=> Cycle
      BY <1>2 DEF Cycle
    <2> QED BY <1>2, <2>1 DEF SearchInv, RefusedIffCyclic
  <1> QED BY <1>1, <1>3, <1>4, <1>5, <1>6 DEF SearchInv

LEMMA InitSearch == Init => SearchInv
  <1> SUFFICES ASSUME Init PROVE SearchInv
    OBVIOUS
  <1>1. TypeOK
    BY InitType
  <1>2. stack = <<>> /\ Len(stack) = 0 /\ DOMAIN stack = {} /\ visited = {}
    BY DEF Init
  <1> QED
    BY <1>1, <1>2 DEF Init, SearchInv, StackIsPath, NoRepetition, StackIsNew, Visiting,
                      VisitedIsClosed, Circular, RefusedIffCyclic

LEMMA NextSearch == SearchInv /\ [Next]_vars => SearchInv'
  <1> SUFFICES ASSUME SearchInv, [Next]_vars PROVE SearchInv'
    OBVIOUS
  <1>1. CASE SearchStep
    BY <1>1, VisitKeepsSearch, LeaveKeepsSearch, VerdictKeepsSearch DEF SearchStep, Validate
  <1> QED BY <1>1, RunKeepsSearch

LEMMA SearchAlways == Spec => []SearchInv
  BY InitSearch, NextSearch, PTL DEF Spec

\* _assert_acyclic (fork_join.py) refuses a group exactly if some of its tasks
\* wait for one another in a circle, whatever the graph and the order of visits.
THEOREM RefusesExactlyCycles == Spec => []RefusedIffCyclic
  <1>1. SearchInv => RefusedIffCyclic
    BY DEF SearchInv
  <1> QED BY <1>1, SearchAlways, PTL
-----------------------------------------------------------------------------
(* Bounded concurrency *)

RunningTasks == {t \in Task : handler[t] = "running"}

\* While a wave is collected every running handler is one of the wave's.
\* Otherwise none runs, unless the deadline has passed and no wave can start.
RunningInWave == IF pc = "wait" THEN RunningTasks \subseteq wave
                 ELSE late \/ RunningTasks = {}

PoolInv ==
    /\ TypeOK
    /\ RunningInWave
    /\ collected \cap RunningTasks = {}
    /\ Cardinality(wave) <= Limit
    /\ Cardinality(RunningTasks) <= Limit

LEMMA RunningShrinks ==
  ASSUME TypeOK, Cardinality(RunningTasks) <= Limit, RunningTasks' \subseteq RunningTasks
  PROVE  Cardinality(RunningTasks') <= Limit
  <1>1. RunningTasks \in SUBSET Task
    BY DEF RunningTasks
  <1>2. IsFiniteSet(RunningTasks)
    BY <1>1, TasksFinite
  <1>3. /\ Cardinality(RunningTasks') <= Cardinality(RunningTasks)
        /\ Cardinality(RunningTasks') \in Nat /\ Cardinality(RunningTasks) \in Nat
    BY <1>2, FS_Subset, FS_CardinalityType
  <1> QED BY <1>3, TasksAssumption

LEMMA WaveKeepsPool ==
  ASSUME PoolInv, SearchStep \/ WaveStep
  PROVE  PoolInv'
  <1> USE DEF search, clock, runVars
  <1>1. TypeOK'
    BY SearchType, WaveType DEF PoolInv
  <1>2. CASE SearchStep \/ CancelPending \/ SkipPending
    <2>1. /\ UNCHANGED <<handler, wave, collected, late>>
          /\ pc # "wait" /\ pc' # "wait"
      BY <1>2 DEF SearchStep, Validate, Visit, Leave, Refuse, Accept, CancelPending, SkipPending
    <2> QED BY <1>1, <2>1 DEF PoolInv, RunningInWave, RunningTasks
  <1>3. CASE StartWave
    <2>1. PICK W \in SUBSET Ready :
            /\ Cardinality(W) = (IF Cardinality(Ready) < Limit THEN Cardinality(Ready) ELSE Limit)
            /\ late => UNCHANGED <<pc, handler, wave>>
            /\ ~late => /\ handler' = [t \in Task |-> IF t \in W THEN "running" ELSE handler[t]]
                        /\ wave' = W
                        /\ pc' = "wait"
      BY <1>3 DEF StartWave
    <2>2. collected' = {} /\ pc = "plan" /\ UNCHANGED late
      BY <1>3 DEF StartWave
    <2>3. CASE late
      BY <1>1, <2>1, <2>2, <2>3 DEF PoolInv, RunningInWave, RunningTasks
    <2>4. CASE ~late
      <3>1. RunningTasks = {}
        BY <2>2, <2>4 DEF PoolInv, RunningInWave
      <3>2. W \in SUBSET Task
        BY DEF Ready, Pending
      <3>3. RunningTasks' = W
        BY <2>1, <2>4, <3>1, <3>2 DEF RunningTasks
      <3>4. Cardinality(W) <= Limit
        <4>1. Cardinality(Ready) \in Nat
          BY TasksFinite, FS_CardinalityType DEF Ready, Pending
        <4> QED BY <2>1, <4>1, TasksAssumption
      <3> QED BY <1>1, <2>1, <2>2, <2>4, <3>3, <3>4 DEF PoolInv, RunningInWave
    <2> QED BY <2>3, <2>4
  <1> QED BY <1>2, <1>3 DEF WaveStep

LEMMA WaitKeepsPool ==
  ASSUME PoolInv, WaitStep
  PROVE  PoolInv'
  <1> USE DEF search, clock
  <1>1. TypeOK'
    BY OtherType DEF PoolInv
  <1>2. UNCHANGED <<handler, wave, late>>
    BY DEF WaitStep, Gather, GiveUp, GiveUpAll, AllCollected
  <1>3. RunningTasks' = RunningTasks
    BY <1>2 DEF RunningTasks
  <1>4. CASE Gather
    <2>1. (collected \cup (wave \cap Finished)) \cap RunningTasks = {}
      BY DEF PoolInv, RunningTasks, Finished
    <2>2. collected' = collected \cup (wave \cap Finished) /\ UNCHANGED pc
      BY <1>4 DEF Gather
    <2>3. collected' \cap RunningTasks' = {}
      BY <1>3, <2>1, <2>2
    <2> QED BY <1>1, <1>2, <1>3, <2>2, <2>3 DEF PoolInv, RunningInWave
  <1>5. CASE GiveUp \/ GiveUpAll
    <2>1. UNCHANGED collected /\ pc = "wait" /\ (pc' = "wait" \/ late)
      BY <1>5 DEF GiveUp, GiveUpAll
    <2> QED BY <1>1, <1>2, <1>3, <2>1 DEF PoolInv, RunningInWave
  <1>6. CASE AllCollected
    <2>1. UNCHANGED collected /\ pc = "wait" /\ pc' = "settle" /\ wave \subseteq collected
      BY <1>6 DEF AllCollected, Uncollected
    <2>2. RunningTasks = {}
      BY <2>1 DEF PoolInv, RunningInWave
    <2> QED BY <1>1, <1>2, <1>3, <2>1, <2>2 DEF PoolInv, RunningInWave
  <1> QED BY <1>4, <1>5, <1>6 DEF WaitStep

LEMMA RestKeepsPool ==
  ASSUME PoolInv,
         Settle \/ Join \/ (\E t \in Task : HandlerStep(t)) \/ ClockStep \/ UNCHANGED vars
  PROVE  PoolInv'
  <1> USE DEF search, clock
  <1>1. TypeOK'
    BY OtherType, JoinType DEF PoolInv
  <1>2. CASE Settle
    <2>1. wave' = {} /\ collected' = {} /\ UNCHANGED <<handler, late>>
          /\ pc = "settle" /\ pc' = "plan"
      BY <1>2 DEF Settle
    <2>2. Cardinality(wave') <= Limit
      BY <2>1, FS_EmptySet, TasksAssumption
    <2> QED BY <1>1, <2>1, <2>2 DEF PoolInv, RunningInWave, RunningTasks
  <1>3. CASE Join
    BY <1>1, <1>3 DEF Join, PoolInv, RunningInWave, RunningTasks
  <1>4. ASSUME NEW t \in Task, HandlerStep(t) PROVE PoolInv'
    <2>1. UNCHANGED <<pc, wave, collected, late>> /\ RunningTasks' \subseteq RunningTasks
      BY <1>4 DEF HandlerStep, HandlerReturns, HandlerRaises, RunningTasks, PoolInv, TypeOK
    <2>2. Cardinality(RunningTasks') <= Limit
      BY <2>1, RunningShrinks DEF PoolInv
    <2> QED BY <1>1, <2>1, <2>2 DEF PoolInv, RunningInWave
  <1>5. CASE ClockStep \/ UNCHANGED vars
    <2>1. UNCHANGED <<pc, wave, collected, handler>> /\ (late => late')
      BY <1>5 DEF ClockStep, CancelRequested, DeadlinePasses, TimeoutPasses, vars
    <2> QED BY <1>1, <2>1 DEF PoolInv, RunningInWave, RunningTasks
  <1> QED BY <1>2, <1>3, <1>4, <1>5

LEMMA InitPool == Init => PoolInv
  <1> SUFFICES ASSUME Init PROVE PoolInv
    OBVIOUS
  <1>1. RunningTasks = {} /\ wave = {} /\ collected = {}
    BY DEF Init, RunningTasks
  <1> QED BY <1>1, InitType, FS_EmptySet, TasksAssumption DEF PoolInv, RunningInWave

LEMMA NextPool == PoolInv /\ [Next]_vars => PoolInv'
  BY StepCases, WaveKeepsPool, WaitKeepsPool, RestKeepsPool

\* ForkJoinExecutor (fork_join.py) never has more handlers running than the
\* group and the executor allow, those it has given up included.
THEOREM RunsBoundedConcurrency == Spec => []ConcurrencyBounded
  <1>1. PoolInv => ConcurrencyBounded
    BY DEF PoolInv, ConcurrencyBounded, RunningTasks
  <1> QED BY <1>1, InitPool, NextPool, PTL DEF Spec

-----------------------------------------------------------------------------
(* Results *)

\* A result, once given, stays.
ResultsStay == \A t \in Task : results[t] # "none" => results'[t] = results[t]

\* The wave has no results yet, before its run there are none, and a task that
\* has succeeded has a handler that returned.
ResultInv ==
    /\ TypeOK
    /\ pc \in {"wait", "settle"} => wave \subseteq Pending
    /\ pc \in {"join", "done"} => Pending = {}
    /\ \A t \in Succeeded : handler[t] = "returned"
    /\ \A t \in timedOut \cup collected : t \in wave
    /\ collected \subseteq Finished

LEMMA WaveKeepsResults ==
  ASSUME ResultInv, WaveStep
  PROVE  ResultInv' /\ ResultsStay
  <1> USE DEF search, clock
  <1>1. TypeOK'
    BY WaveType DEF ResultInv
  <1>2. results \in [Task -> BranchStatus \cup {"none"}]
    BY DEF ResultInv, TypeOK
  <1>3. CASE CancelPending \/ SkipPending
    <2>1. PICK status \in {"CANCELLED", "SKIPPED"} : results' = Decide(Pending, status)
      BY <1>3 DEF CancelPending, SkipPending
    <2>2. Pending' = {} /\ Succeeded' = Succeeded /\ ResultsStay
      BY <1>2, <2>1 DEF Decide, Pending, Succeeded, ResultsStay
    <2>3. UNCHANGED <<handler, wave, timedOut, collected>> /\ pc' = "join"
      BY <1>3 DEF CancelPending, SkipPending
    <2>4. Finished' = Finished
      BY <2>3 DEF Finished
    <2> QED BY <1>1, <2>2, <2>3, <2>4 DEF ResultInv
  <1>4. CASE StartWave
    <2>1. PICK W \in SUBSET Ready :
             IF late
             THEN /\ results' = [t \in Task |-> IF t \in W THEN "TIMED_OUT"
                                                ELSE Decide(Blocked, "SKIPPED")[t]]
                  /\ UNCHANGED <<pc, handler, wave>>
             ELSE /\ results' = Decide(Blocked, "SKIPPED")
                  /\ handler' = [t \in Task |-> IF t \in W THEN "running" ELSE handler[t]]
                  /\ wave' = W
                  /\ pc' = "wait"
      BY <1>4 DEF StartWave
    <2>2. collected' = {} /\ timedOut' = {} /\ pc = "plan"
      BY <1>4 DEF StartWave
    <2>3. W \in SUBSET Pending /\ Ready \cap Blocked = {}
      BY DEF Ready, Blocked
    <2>4. ResultsStay /\ Succeeded' = Succeeded
      BY <1>2, <2>1, <2>3 DEF Decide, Pending, Blocked, Succeeded, ResultsStay
    <2>5. CASE late
      BY <1>1, <2>1, <2>2, <2>4, <2>5 DEF ResultInv
    <2>6. CASE ~late
      <3>1. wave' \subseteq Pending'
        BY <1>2, <2>1, <2>3, <2>6 DEF Decide, Pending
      <3>2. \A t \in Succeeded : handler'[t] = "returned"
        BY <2>1, <2>3, <2>6 DEF ResultInv, Succeeded, Pending
      <3> QED BY <1>1, <2>1, <2>2, <2>4, <2>6, <3>1, <3>2 DEF ResultInv
    <2> QED BY <2>5, <2>6
  <1> QED BY <1>3, <1>4 DEF WaveStep

LEMMA SettleKeepsResults ==
  ASSUME ResultInv, Settle
  PROVE  ResultInv' /\ ResultsStay
  <1>1. TypeOK'
    BY OtherType DEF ResultInv
  <1>2. /\ results' = [t \in Task |-> IF t \in wave THEN Outcome(t) ELSE results[t]]
        /\ collected' = {} /\ timedOut' = {} /\ pc' = "plan" /\ UNCHANGED handler
    BY DEF Settle
  <1>3. wave \subseteq Pending
    BY DEF Settle, ResultInv
  <1>4. ResultsStay
    BY <1>2, <1>3 DEF ResultsStay, Pending
  <1>5. \A t \in Succeeded' : handler'[t] = "returned"
    BY <1>2 DEF ResultInv, Succeeded, Outcome
  <1> QED BY <1>1, <1>2, <1>4, <1>5 DEF ResultInv

LEMMA RestKeepsResults ==
  ASSUME ResultInv,
         \/ SearchStep \/ WaitStep \/ Join
         \/ (\E t \in Task : HandlerStep(t)) \/ ClockStep \/ UNCHANGED vars
  PROVE  ResultInv' /\ ResultsStay
  <1> USE DEF search, clock, runVars
  <1>1. TypeOK'
    BY SearchType, OtherType, JoinType DEF ResultInv
  <1>2. CASE SearchStep
    BY <1>1, <1>2 DEF SearchStep, Validate, Visit, Leave, Refuse, Accept, ResultInv, Pending,
                      Succeeded, Finished, ResultsStay
  <1>3. CASE WaitStep
    <2>1. UNCHANGED <<results, handler, wave>> /\ pc = "wait" /\ pc' \in {"wait", "settle"}
          /\ collected' \cup timedOut' \subseteq collected \cup timedOut \cup wave
          /\ collected' \subseteq collected \cup Finished
      BY <1>3 DEF WaitStep, Gather, GiveUp, GiveUpAll, AllCollected, Uncollected
    <2>2. Pending' = Pending /\ Succeeded' = Succeeded /\ Finished' = Finished /\ ResultsStay
      BY <2>1 DEF Pending, Succeeded, Finished, ResultsStay
    <2> QED BY <1>1, <2>1, <2>2 DEF ResultInv
  <1>4. CASE Join
    <2>1. UNCHANGED <<results, handler, wave, collected, timedOut>> /\ pc = "join" /\ pc' = "done"
      BY <1>4 DEF Join
    <2>2. Pending' = Pending /\ Succeeded' = Succeeded /\ Finished' = Finished /\ ResultsStay
      BY <2>1 DEF Pending, Succeeded, Finished, ResultsStay
    <2> QED BY <1>1, <2>1, <2>2 DEF ResultInv
  <1>5. ASSUME NEW t \in Task, HandlerStep(t) PROVE ResultInv' /\ ResultsStay
    <2>1. /\ UNCHANGED <<results, wave, collected, timedOut, pc>>
          /\ handler[t] = "running"
          /\ \E h \in {"returned", "raised"} : handler' = [handler EXCEPT ![t] = h]
      BY <1>5 DEF HandlerStep, HandlerReturns, HandlerRaises
    <2>2. Pending' = Pending /\ Succeeded' = Succeeded /\ ResultsStay
      BY <2>1 DEF Pending, Succeeded, ResultsStay
    <2>3. Finished \subseteq Finished'
      BY <2>1 DEF Finished, ResultInv, TypeOK
    <2>4. \A u \in Succeeded : handler'[u] = "returned"
      BY <2>1 DEF ResultInv, TypeOK, Succeeded
    <2> QED BY <1>1, <2>1, <2>2, <2>3, <2>4 DEF ResultInv
  <1>6. CASE ClockStep \/ UNCHANGED vars
    <2>1. UNCHANGED <<results, handler, wave, collected, timedOut, pc>>
      BY <1>6 DEF ClockStep, CancelRequested, DeadlinePasses, TimeoutPasses, vars
    <2> QED BY <1>1, <2>1 DEF ResultInv, Pending, Succeeded, Finished, ResultsStay
  <1> QED BY <1>2, <1>3, <1>4, <1>5, <1>6

LEMMA InitResults == Init => ResultInv
  <1> SUFFICES ASSUME Init PROVE ResultInv
    OBVIOUS
  <1> QED BY InitType DEF Init, ResultInv, Succeeded

LEMMA NextResults == ResultInv /\ [Next]_vars => ResultInv' /\ ResultsStay
  BY StepCases, WaveKeepsResults, SettleKeepsResults, RestKeepsResults

LEMMA ResultsAlways == Spec => []ResultInv
  BY InitResults, NextResults, PTL DEF Spec

LEMMA DepsStay == [Next]_vars => UNCHANGED deps
  BY StepCases DEF SearchStep, Validate, Visit, Leave, Refuse, Accept, runVars, WaveStep,
       CancelPending, SkipPending, StartWave, WaitStep, Gather, GiveUp, GiveUpAll, AllCollected,
       Settle, Join, HandlerStep, HandlerReturns, HandlerRaises, ClockStep, CancelRequested,
       DeadlinePasses, TimeoutPasses, vars

\* A branch that has a result keeps it, whatever its handler does later: run()
\* (fork_join.py) never decides a task twice.
THEOREM ResultsAreFinal == Spec => [][ResultsStay]_vars
  BY NextResults, ResultsAlways, PTL DEF Spec

LEMMA NextStarted ==
  StartedAfterDependencies /\ ResultInv /\ [Next]_vars => StartedAfterDependencies'
  <1> SUFFICES ASSUME StartedAfterDependencies, ResultInv, [Next]_vars,
                      NEW t \in Task, handler'[t] # "idle"
               PROVE  \A d \in deps'[t] : results'[d] = "SUCCEEDED"
    BY DEF StartedAfterDependencies
  <1>1. ResultsStay /\ UNCHANGED deps /\ deps[t] \subseteq Task
    BY NextResults, DepsStay DEF ResultInv, TypeOK
  <1>2. \A d \in deps[t] : results[d] = "SUCCEEDED"
    <2>1. CASE handler[t] # "idle"
      BY <2>1 DEF StartedAfterDependencies
    <2>2. CASE handler[t] = "idle"
      <3>1. ~SearchStep /\ ~WaitStep /\ ~Settle /\ ~Join /\ ~ClockStep /\ ~UNCHANGED vars
        BY <2>2 DEF SearchStep, Validate, Visit, Leave, Refuse, Accept, runVars, WaitStep, Gather,
             GiveUp, GiveUpAll, AllCollected, Settle, Join, ClockStep, CancelRequested,
             DeadlinePasses, TimeoutPasses, vars
      <3>2. ~\E u \in Task : HandlerStep(u)
        BY <2>2 DEF HandlerStep, HandlerReturns, HandlerRaises, ResultInv, TypeOK
      <3>3. StartWave
        BY <2>2, <3>1, <3>2, StepCases DEF WaveStep, CancelPending, SkipPending
      <3>4. t \in Ready
        BY <2>2, <3>3 DEF StartWave
      <3> QED BY <3>4 DEF Ready
    <2> QED BY <2>1, <2>2
  <1> QED BY <1>1, <1>2 DEF ResultsStay

\* run() starts a handler only when every dependency of its task has SUCCEEDED,
\* and that is so for good.
THEOREM StartsAfterDependencies == Spec => []StartedAfterDependencies
  <1>1. Init => StartedAfterDependencies
    BY DEF Init, StartedAfterDependencies
  <1> QED BY <1>1, NextStarted, ResultsAlways, PTL DEF Spec

-----------------------------------------------------------------------------
(* Skipped tasks *)

Failed == {"FAILED", "TIMED_OUT", "CANCELLED"}

\* Upstream(t) has the dependencies of t and of whatever it has.
LEMMA UpstreamClosed ==
  ASSUME TypeOK, NEW t \in Task
  PROVE  /\ deps[t] \subseteq Upstream(t)
         /\ \A d \in Upstream(t) : deps[d] \subseteq Upstream(t)
         /\ \A d \in Upstream(t) : Upstream(d) \subseteq Upstream(t)
  <1>1. \A u \in Task : deps[u] \subseteq Task
    BY DEF TypeOK
  <1>2. deps[t] \subseteq Upstream(t)
    BY <1>1 DEF Upstream
  <1>3. ASSUME NEW d \in Upstream(t) PROVE deps[d] \subseteq Upstream(t)
    BY <1>1, <1>3 DEF Upstream
  <1>4. ASSUME NEW d \in Upstream(t), NEW u \in Upstream(d) PROVE u \in Upstream(t)
    BY <1>4 DEF Upstream
  <1> QED BY <1>2, <1>3, <1>4

\* A task with a dependency upstream that has failed or was skipped is behind a failure.
LEMMA BehindFailure ==
  ASSUME TypeOK, SkippedBehindFailure, NEW t \in Task, NEW d \in Upstream(t),
         results[d] \notin {"none", "SUCCEEDED"}
  PROVE  \E u \in Upstream(t) : results[u] \in Failed
  <1>1. d \in Task
    BY DEF Upstream
  <1>2. CASE results[d] = "SKIPPED"
    BY <1>1, <1>2, UpstreamClosed DEF SkippedBehindFailure, Failed
  <1>3. CASE results[d] # "SKIPPED"
    <2>1. results[d] \in Failed
      BY <1>1, <1>3 DEF TypeOK, BranchStatus, Failed
    <2> QED BY <2>1
  <1> QED BY <1>2, <1>3

\* When no pending task is ready, each is behind a failure: those upstream of it
\* that are pending would otherwise wait for one another in a circle.
LEMMA StuckBehindFailure ==
  ASSUME TypeOK, SkippedBehindFailure, ~Cycle, Ready = {}, NEW t \in Pending
  PROVE  \E u \in Upstream(t) : results[u] \in Failed
  <1> DEFINE U == {u \in Upstream(t) \cup {t} : results[u] = "none"}
  <1>1. t \in Task /\ t \in U
    BY DEF Pending
  <1>2. U \in SUBSET Task
    BY <1>1 DEF Upstream
  <1>3. PICK u \in U : deps[u] \cap U = {}
    <2> HIDE DEF U
    <2> QED BY <1>1, <1>2 DEF Cycle
  <1>4. deps[u] \subseteq Upstream(t) /\ u \in Task /\ results[u] = "none"
    BY <1>1, <1>2, UpstreamClosed
  <1>5. PICK d \in deps[u] : results[d] # "SUCCEEDED"
    BY <1>4 DEF Ready, Pending
  <1>6. d \in Upstream(t) /\ results[d] # "none"
    BY <1>3, <1>4
  <1> QED BY <1>1, <1>5, <1>6, BehindFailure

LEMMA ResultsKeepBehind ==
  ASSUME SkippedBehindFailure, ResultsStay, UNCHANGED deps,
         NEW t \in Task,
         \/ results[t] = "SKIPPED"
         \/ \E u \in Upstream(t) : results[u] \in Failed
  PROVE  (\E u \in Upstream(t) : results[u] \in Failed)'
  <1>1. PICK u \in Upstream(t) : results[u] \in Failed
    BY DEF SkippedBehindFailure, Failed
  <1>2. u \in Upstream(t)'
    BY DEF Upstream
  <1>3. results'[u] = results[u]
    BY <1>1 DEF ResultsStay, Upstream, Failed
  <1> QED BY <1>1, <1>2, <1>3

LEMMA NewlySkipped ==
  ASSUME TypeOK, SkippedBehindFailure, ~Cycle, WaveStep,
         NEW t \in Task, results'[t] = "SKIPPED", results[t] # "SKIPPED"
  PROVE  \E u \in Upstream(t) : results[u] \in Failed
  <1>1. CASE CancelPending
    BY <1>1 DEF CancelPending, Decide, TypeOK
  <1>2. CASE SkipPending
    <2>1. t \in Pending /\ Ready = {}
      BY <1>2 DEF SkipPending, Decide
    <2> QED BY <2>1, StuckBehindFailure
  <1>3. CASE StartWave
    <2>1. t \in Blocked
      BY <1>3 DEF StartWave, Decide
    <2>2. PICK d \in deps[t] : results[d] \notin {"none", "SUCCEEDED"}
      BY <2>1 DEF Blocked
    <2> QED BY <2>2, UpstreamClosed, BehindFailure
  <1> QED BY <1>1, <1>2, <1>3 DEF WaveStep

LEMMA OthersSkipNone ==
  ASSUME TypeOK, [Next]_vars, ~WaveStep, NEW t \in Task, results'[t] = "SKIPPED"
  PROVE  results[t] = "SKIPPED"
  <1> USE DEF search, clock, runVars
  <1>1. CASE SearchStep
    BY <1>1 DEF SearchStep, Validate, Visit, Leave, Refuse, Accept
  <1>2. CASE WaitStep
    BY <1>2 DEF WaitStep, Gather, GiveUp, GiveUpAll, AllCollected
  <1>3. CASE Settle
    BY <1>3 DEF Settle, Outcome
  <1>4. CASE Join
    BY <1>4 DEF Join
  <1>5. CASE (\E u \in Task : HandlerStep(u)) \/ ClockStep \/ UNCHANGED vars
    BY <1>5 DEF HandlerStep, HandlerReturns, HandlerRaises, ClockStep, CancelRequested,
                DeadlinePasses, TimeoutPasses, vars
  <1> QED BY <1>1, <1>2, <1>3, <1>4, <1>5, StepCases

LEMMA NextSkipped ==
  SkippedBehindFailure /\ SearchInv /\ ResultInv /\ [Next]_vars => SkippedBehindFailure'
  <1> SUFFICES ASSUME SkippedBehindFailure, SearchInv, ResultInv, [Next]_vars,
                      NEW t \in Task, results'[t] = "SKIPPED"
               PROVE  (\E u \in Upstream(t) : results[u] \in Failed)'
    BY DEF SkippedBehindFailure, Failed
  <1>1. ResultsStay /\ UNCHANGED deps /\ TypeOK
    BY NextResults, DepsStay DEF ResultInv
  <1>2. results[t] = "SKIPPED" \/ \E u \in Upstream(t) : results[u] \in Failed
    <2>1. CASE results[t] = "SKIPPED"
      BY <2>1
    <2>2. CASE results[t] # "SKIPPED"
      <3>1. WaveStep
        BY <1>1, <2>2, OthersSkipNone
      <3>2. ~Cycle
        BY <3>1 DEF WaveStep, CancelPending, SkipPending, StartWave, SearchInv, RefusedIffCyclic
      <3> QED BY <1>1, <2>2, <3>1, <3>2, NewlySkipped
    <2> QED BY <2>1, <2>2
  <1> QED BY <1>1, <1>2, ResultsKeepBehind

\* A branch of run() (fork_join.py) is SKIPPED only behind one that failed,
\* timed out or was cancelled: an accepted group is never skipped for being stuck.
THEOREM SkipsOnlyBehindFailures == Spec => []SkippedBehindFailure
  <1>1. Init => SkippedBehindFailure
    BY DEF Init, SkippedBehindFailure
  <1> QED BY <1>1, NextSkipped, SearchAlways, ResultsAlways, PTL DEF Spec

-----------------------------------------------------------------------------
(* The join *)

\* What run() returns is what the branches' results and outputs make it.
JoinedFits ==
    /\ joined.conflicts = {k \in Keys : Cardinality(Offered(k)) > 1}
    /\ \A k \in Keys : joined.merged[k] =
            IF Cardinality(Offered(k)) = 1 THEN CHOOSE v \in Offered(k) : TRUE ELSE NoValue
    /\ joined.status = "COMPLETED" => Succeeded = Task /\ joined.conflicts = {}

LEMMA JoinFits ==
  ASSUME TypeOK, Join
  PROVE  JoinedFits'
  <1>1. UNCHANGED <<results, output>>
    BY DEF Join
  <1>2. \A k \in Keys : Offered(k)' = Offered(k)
    BY <1>1 DEF Offered, Succeeded
  <1>3. Succeeded' = Succeeded
    BY <1>1 DEF Succeeded
  <1> DEFINE conflicts == {k \in Keys : Merging(k).conflict}
  <1>4. PICK required \in SUBSET Task :
          joined' = [status |-> JoinedStatus(required, conflicts),
                     merged |-> [k \in Keys |-> Merging(k).value],
                     conflicts |-> conflicts]
    BY DEF Join
  <1>5. \A k \in Keys :
          /\ Merging(k).conflict <=> Cardinality(Offered(k)) > 1
          /\ Merging(k).value = IF Cardinality(Offered(k)) = 1
                                THEN CHOOSE v \in Offered(k) : TRUE ELSE NoValue
    BY MergingFits DEF TypeOK
  <1>6. joined'.conflicts = {k \in Keys : Cardinality(Offered(k)) > 1}
    BY <1>4, <1>5
  <1>7. \A k \in Keys : joined'.merged[k] = Merging(k).value
    BY <1>4
  <1>8. joined'.status = "COMPLETED" => Succeeded = Task /\ joined'.conflicts = {}
    BY <1>4 DEF JoinedStatus, Unsuccessful, Succeeded
  <1> QED BY <1>2, <1>3, <1>5, <1>6, <1>7, <1>8 DEF JoinedFits

\* A handler that returns late is not one of a branch that succeeded.
LEMMA DoneKeepsOffered ==
  ASSUME ResultInv, [Next]_vars, pc = "done"
  PROVE  /\ UNCHANGED joined
         /\ Succeeded' = Succeeded
         /\ \A k \in Keys : Offered(k)' = Offered(k)
  <1> USE DEF search, clock
  <1>1. CASE \E t \in Task : HandlerStep(t)
    <2>1. PICK t \in Task : HandlerStep(t)
      BY <1>1
    <2>2. handler[t] = "running" /\ UNCHANGED <<results, joined>>
          /\ \A u \in Task \ {t} : output'[u] = output[u]
      BY <2>1 DEF HandlerStep, HandlerReturns, HandlerRaises, ResultInv, TypeOK
    <2>3. Succeeded' = Succeeded
      BY <2>2 DEF Succeeded
    <2>4. \A u \in Succeeded : output'[u] = output[u]
      BY <2>2 DEF ResultInv, Succeeded
    <2>5. ASSUME NEW k \in Keys PROVE Offered(k)' = Offered(k)
      BY <2>3, <2>4 DEF Offered
    <2> QED BY <2>2, <2>3, <2>5
  <1>2. CASE ~ \E t \in Task : HandlerStep(t)
    <2>1. UNCHANGED <<results, output, joined>>
      <3>1. ClockStep \/ UNCHANGED vars
        BY <1>2, StepCases DEF SearchStep, Validate, Visit, Leave, Refuse, Accept, WaveStep,
             CancelPending, SkipPending, StartWave, WaitStep, Gather, GiveUp, GiveUpAll,
             AllCollected, Settle, Join
      <3> QED BY <3>1 DEF ClockStep, CancelRequested, DeadlinePasses, TimeoutPasses, vars
    <2> QED BY <2>1 DEF Offered, Succeeded
  <1> QED BY <1>1, <1>2

LEMMA OnlyJoinFinishes ==
  ASSUME [Next]_vars, pc # "done", pc' = "done"
  PROVE  Join
  <1> USE DEF search, clock, runVars
  <1>1. ~SearchStep /\ ~WaveStep /\ ~WaitStep /\ ~Settle
    BY DEF SearchStep, Validate, Visit, Leave, Refuse, Accept, WaveStep, CancelPending,
           SkipPending, StartWave, WaitStep, Gather, GiveUp, GiveUpAll, AllCollected, Settle
  <1>2. ~ (\E t \in Task : HandlerStep(t)) /\ ~ClockStep /\ ~UNCHANGED vars
    BY DEF HandlerStep, HandlerReturns, HandlerRaises, ClockStep, CancelRequested,
           DeadlinePasses, TimeoutPasses, vars
  <1> QED BY <1>1, <1>2, StepCases

JoinInv == pc = "done" => JoinedFits

LEMMA NextJoin == JoinInv /\ ResultInv /\ [Next]_vars => JoinInv'
  <1> SUFFICES ASSUME JoinInv, ResultInv, [Next]_vars, pc' = "done" PROVE JoinedFits'
    BY DEF JoinInv
  <1>1. CASE pc = "done"
    BY <1>1, DoneKeepsOffered DEF JoinInv, JoinedFits
  <1>2. CASE pc # "done"
    BY <1>2, OnlyJoinFinishes, JoinFits DEF ResultInv
  <1> QED BY <1>1, <1>2

\* _join (fork_join.py) merges what the succeeded branches agree on and nothing
\* else, and is COMPLETED only if all succeeded; a handler that returns after it
\* was given up changes nothing of that.
THEOREM JoinsFailClosed == Spec => []JoinIsFailClosed
  <1>1. Init => JoinInv
    BY DEF Init, JoinInv
  <1>2. ResultInv /\ JoinInv => JoinIsFailClosed
    BY DEF ResultInv, JoinInv, JoinedFits, JoinIsFailClosed, Pending
  <1> QED BY <1>1, <1>2, NextJoin, ResultsAlways, PTL DEF Spec
=============================================================================
