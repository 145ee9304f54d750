---------------------------- MODULE Gateway_proofs ----------------------------
(***************************************************************************)
(* BoundedLateness of the scheduler by itself, for every table of tasks,   *)
(* every set of periods and every cost of a run; OnePressOneEvent of the   *)
(* buttons by themselves, for every number of buttons, every lockout and   *)
(* every time for which contacts may bounce, up to one period more than    *)
(* that; and the gateway implements its parts, so what is proved of the    *)
(* scheduler and of the buttons holds of them with the tasks, the jobs and *)
(* the interrupt around them.  ModeIsAsked of the gateway, for every line  *)
(* and every limit of the parser.                                          *)
(***************************************************************************)
EXTENDS Gateway, FiniteSetTheorems, WellFoundedInduction, TLAPS

-----------------------------------------------------------------------------
(* The scheduler.  The induction is on LatenessByPosition: lateness is     *)
(* bounded by the number of tasks the loop has passed since.               *)

LEMMA Constants ==
  /\ TaskCount \in Nat /\ TaskCount >= 1
  /\ MaxCost \in Nat
  /\ Nap \in Nat
  /\ \A t \in Tasks : t \in Nat /\ 1 <= t /\ t <= TaskCount /\ Period[t] \in Nat
  BY TaskCountAssumption, PeriodAssumption, MaxCostAssumption, NapAssumption DEF Tasks

\* The two products that occur, out of the way of linear arithmetic.
LEMMA OneMore == ASSUME NEW n \in Nat PROVE (n + 1) * MaxCost = n * MaxCost + MaxCost
  BY Constants, SMT

LEMMA Monotone ==
  ASSUME NEW m \in Nat, NEW n \in Nat, m <= n
  PROVE  m * MaxCost \in Nat /\ n * MaxCost \in Nat /\ m * MaxCost <= n * MaxCost
  <1> DEFINE d == n - m
  <1>1. d \in Nat /\ n = m + d
    BY SMT
  <1>2. n * MaxCost = m * MaxCost + d * MaxCost
    <2>1. (m + d) * MaxCost = m * MaxCost + d * MaxCost
      BY <1>1, Constants, SMT
    <2> QED
      BY <1>1, <2>1
  <1>3. m * MaxCost \in Nat /\ d * MaxCost \in Nat
    BY <1>1, Constants, SMT
  <1> QED
    BY <1>2, <1>3, SMT

LEMMA OverrunType ==
  ASSUME NEW t \in Tasks
  PROVE  Overrun(t) \in Nat /\ Period[t] - MaxCost >= -Overrun(t)
  BY Constants, SMT DEF Overrun

\* One turn of the loop passes exactly one task more, except for the task it looks at.
LEMMA PassedGrows ==
  ASSUME TypeOK, i \in Tasks, i' = i + 1, NEW t \in Tasks
  PROVE  /\ Passed(t) \in Nat
         /\ t # i => Passed(t)' = Passed(t) + 1 /\ (i' > t <=> i > t)
         /\ t = i => Passed(t)' = 0 /\ i' > t
  BY Constants, SMT DEF TypeOK, Passed, Tasks

\* What that does to the bound.
LEMMA BoundGrows ==
  ASSUME TypeOK, i \in Tasks, i' = i + 1, NEW t \in Tasks, t # i
  PROVE  LateBy(t) \in Int /\ LateBy(t)' = LateBy(t) + MaxCost
  <1> DEFINE m == Passed(t) * MaxCost
             nap == IF i > t THEN 0 ELSE Nap
  <1>1. Passed(t) \in Nat /\ Passed(t)' = Passed(t) + 1 /\ (i' > t <=> i > t)
    BY PassedGrows
  <1>2. (Passed(t) + 1) * MaxCost = m + MaxCost /\ m \in Nat
    BY <1>1, OneMore, Monotone
  <1>3. LateBy(t) = Overrun(t) + m + nap
    BY DEF LateBy
  <1>4. LateBy(t)' = Overrun(t) + (Passed(t) + 1) * MaxCost + nap
    BY <1>1 DEF LateBy, Overrun
  <1>5. nap \in Nat /\ Overrun(t) \in Nat /\ MaxCost \in Nat
    BY Constants, OverrunType
  <1> HIDE DEF m, nap
  <1> QED
    BY <1>2, <1>3, <1>4, <1>5, SMT

LEMMA BoundResets ==
  ASSUME TypeOK, i \in Tasks, i' = i + 1
  PROVE  LateBy(i) \in Int /\ \A t \in Tasks : t = i => LateBy(t)' = Overrun(t)
  <1>1. Passed(i) \in Nat /\ \A t \in Tasks : t = i => Passed(t)' = 0 /\ i' > t
    BY PassedGrows
  <1>2. Passed(i) * MaxCost \in Nat /\ 0 * MaxCost = 0
    BY <1>1, Monotone, Constants, SMT
  <1>3. LateBy(i) \in Int
    BY <1>2, OverrunType, Constants DEF LateBy
  <1>4. ASSUME NEW t \in Tasks, t = i PROVE LateBy(t)' = Overrun(t)
    <2>1. LateBy(t)' = Overrun(t) + 0 * MaxCost + 0
      BY <1>1, <1>4 DEF LateBy, Overrun
    <2> QED
      BY <1>2, <2>1, OverrunType, SMT
  <1> QED
    BY <1>3, <1>4

LEMMA InitIInv == ASSUME Init PROVE IInv
  <1>1. TypeOK
    BY Constants, PeriodAssumption DEF Init, TypeOK, Tasks
  <1>2. ASSUME NEW t \in Tasks PROVE left[t] >= -LateBy(t)
    <2>1. Passed(t) \in Nat /\ left[t] \in Nat
      BY Constants, SMT DEF Init, Passed, Tasks
    <2>2. Passed(t) * MaxCost \in Nat
      BY <2>1, Monotone
    <2>3. (IF i > t THEN 0 ELSE Nap) \in Nat
      BY Constants
    <2> QED
      BY <2>1, <2>2, <2>3, OverrunType, SMT DEF LateBy
  <1> QED
    BY <1>1, <1>2 DEF IInv, LatenessByPosition

LEMMA NextIInv == ASSUME IInv, [Next]_vars PROVE IInv'
  <1> USE DEF IInv
  <1>1. CASE Run
    <2>1. PICK cost \in 0..MaxCost : left' = Rearm(i, cost)
      BY <1>1 DEF Run
    <2>2. i \in Tasks /\ i' = i + 1
      BY <1>1 DEF Run
    <2>3. cost \in Int /\ 0 <= cost /\ cost <= MaxCost
      BY <2>1, Constants
    <2>4. \A t \in Tasks : left'[t] = (IF t = i THEN Period[t] ELSE left[t]) - cost
      BY <2>1 DEF Rearm
    <2>5. TypeOK'
      <3>1. left' \in [Tasks -> Int]
        BY <2>1, <2>3, Constants DEF Rearm, TypeOK
      <3> QED
        BY <1>1, <2>2, <3>1, Constants DEF Run, TypeOK, Tasks
    <2>6. ASSUME NEW t \in Tasks PROVE (left[t] >= -LateBy(t))'
      <3>1. CASE t = i
        <4>1. LateBy(t)' = Overrun(t)
          BY <2>2, <3>1, BoundResets
        <4>2. left'[t] = Period[t] - cost
          BY <2>4, <3>1
        <4> QED
          BY <2>3, <4>1, <4>2, OverrunType, Constants, SMT
      <3>2. CASE t # i
        <4>1. left'[t] = left[t] - cost /\ left[t] \in Int
          BY <2>4, <3>2 DEF TypeOK
        <4>3. LateBy(t)' = LateBy(t) + MaxCost /\ LateBy(t) \in Int
          BY <2>2, <3>2, BoundGrows
        <4>4. left[t] >= -LateBy(t)
          BY DEF LatenessByPosition
        <4> QED
          BY <2>3, <4>1, <4>3, <4>4, Constants, SMT
      <3> QED
        BY <3>1, <3>2
    <2> QED
      BY <2>5, <2>6 DEF LatenessByPosition
  <1>2. CASE Pass
    <2>1. i \in Tasks /\ i' = i + 1 /\ left' = left /\ ran' = ran /\ left[i] >= 0
      BY <1>2 DEF Pass, Due, TypeOK
    <2>2. TypeOK'
      BY <2>1, Constants DEF TypeOK, Tasks
    <2>3. ASSUME NEW t \in Tasks PROVE (left[t] >= -LateBy(t))'
      <3>1. CASE t = i
        <4>1. LateBy(t)' = Overrun(t)
          BY <2>1, <3>1, BoundResets
        <4>2. left'[t] >= 0 /\ left'[t] \in Int
          BY <2>1, <3>1 DEF TypeOK
        <4> QED
          BY <4>1, <4>2, OverrunType, SMT
      <3>2. CASE t # i
        <4>2. LateBy(t)' = LateBy(t) + MaxCost /\ LateBy(t) \in Int
          BY <2>1, <3>2, BoundGrows
        <4>3. left[t] >= -LateBy(t) /\ left[t] \in Int
          BY DEF LatenessByPosition, TypeOK
        <4> QED
          BY <2>1, <4>2, <4>3, Constants, SMT
      <3> QED
        BY <3>1, <3>2
    <2> QED
      BY <2>2, <2>3 DEF LatenessByPosition
  <1>3. CASE Sleep
    <2>1. i = TaskCount + 1 /\ i' = 1 /\ ran' = ran
      BY <1>3 DEF Sleep
    <2>2. \A t \in Tasks : left'[t] = left[t] - Nap /\ left[t] \in Int
      BY <1>3 DEF Sleep, TypeOK
    <2>3. TypeOK'
      <3>1. left' \in [Tasks -> Int]
        BY <1>3, Constants DEF Sleep, TypeOK
      <3> QED
        BY <2>1, <3>1, Constants DEF TypeOK
    <2>4. ASSUME NEW t \in Tasks PROVE (left[t] >= -LateBy(t))'
      <3>1. Passed(t)' = Passed(t) /\ Passed(t) \in Nat /\ i > t /\ ~(i' > t)
        BY <2>1, Constants, SMT DEF Passed
      <3>2. LateBy(t)' = LateBy(t) + Nap /\ LateBy(t) \in Int
        BY <3>1, Monotone, OverrunType, Constants, SMT DEF LateBy, Overrun
      <3>3. left[t] >= -LateBy(t)
        BY DEF LatenessByPosition
      <3> QED
        BY <2>2, <3>2, <3>3, Constants, SMT
    <2> QED
      BY <2>3, <2>4 DEF LatenessByPosition
  <1>4. CASE UNCHANGED vars
    BY <1>4 DEF vars, TypeOK, LatenessByPosition, LateBy, Passed
  <1> QED
    BY <1>1, <1>2, <1>3, <1>4 DEF Next

\* Lateness is bounded by the loop's position in every reachable state.
THEOREM Invariance == Safety => []IInv
  BY InitIInv, NextIInv, PTL DEF Safety

\* The best effort of kernel/task.h is bounded for every table of tasks: one run of every
\* other task, one nap and the task's own overrun.
THEOREM LatenessIsBounded == Safety => []BoundedLateness
  <1>1. ASSUME IInv PROVE BoundedLateness
    <2> SUFFICES ASSUME NEW t \in Tasks
                 PROVE  left[t] >= -(Overrun(t) + (TaskCount - 1) * MaxCost + Nap)
      BY DEF BoundedLateness
    <2>1. Passed(t) \in Nat /\ TaskCount - 1 \in Nat /\ Passed(t) <= TaskCount - 1
      BY <1>1, Constants, SMT DEF IInv, TypeOK, Passed
    <2>2. Passed(t) * MaxCost <= (TaskCount - 1) * MaxCost
      BY <2>1, Monotone
    <2>3. Passed(t) * MaxCost \in Nat /\ (TaskCount - 1) * MaxCost \in Nat
      BY <2>1, Monotone
    <2>4. left[t] >= -LateBy(t) /\ left[t] \in Int
      BY <1>1 DEF IInv, TypeOK, LatenessByPosition
    <2> QED
      BY <2>2, <2>3, <2>4, OverrunType, Constants, SMT DEF LateBy
  <1> QED
    BY <1>1, Invariance, PTL

-----------------------------------------------------------------------------
(* Folds.  tokenize() and parse_pipeline() are a fold over the words of a  *)
(* line, so what a fold is comes first: the recursive function of its      *)
(* definition exists, and has the value of its definition.                 *)

\* Induction, for a set of numbers in the place of a predicate.
LEMMA Induction == ASSUME NEW S, 0 \in S, \A n \in Nat : n \in S => n + 1 \in S PROVE \A n \in Nat : n \in S
<1> SUFFICES ASSUME NEW k \in Nat, k \notin S PROVE FALSE
  OBVIOUS
<1> DEFINE T == {n \in Nat : n \notin S}
<1>1. PICK n \in T : \A m \in T : ~(<<m, n>> \in OpToRel(<, Nat))
  BY WFMin, NatLessThanWellFounded
<1>2. \A m \in Nat : m < n => <<m, n>> \in OpToRel(<, Nat)
  BY <1>1 DEF OpToRel
<1>3. n \in Nat /\ n # 0 /\ n \notin S
  BY <1>1
<1>4. n - 1 \in Nat /\ n - 1 < n /\ n = (n - 1) + 1
  BY <1>3
<1>5. n - 1 \in S
  BY <1>1, <1>2, <1>4, Zenon
<1> QED
  BY <1>3, <1>4, <1>5

\* A bounded set of numbers has a maximum.
LEMMA MaxIs ==
  ASSUME NEW n \in Nat, NEW s \in SUBSET (1..n), s # {}
  PROVE  Max(s) \in s /\ \A m \in s : m <= Max(s)
<1> DEFINE Has == {k \in Nat : \A t \in SUBSET (1..k) : t # {} => \E x \in t : \A y \in t : x >= y}
<1>1. 0 \in Has
  <2>1. \A t \in SUBSET (1..0) : t = {}
    OBVIOUS
  <2> QED
    BY <2>1
<1>2. ASSUME NEW k \in Nat, k \in Has PROVE k + 1 \in Has
  <2> SUFFICES ASSUME NEW t \in SUBSET (1..(k + 1)), t # {} PROVE \E x \in t : \A y \in t : x >= y
    OBVIOUS
  <2>1. CASE k + 1 \in t
    BY <2>1
  <2>2. CASE k + 1 \notin t
    <3>1. t \in SUBSET (1..k)
      BY <2>2
    <3> QED
      BY <1>2, <3>1
  <2> QED
    BY <2>1, <2>2
<1>3. n \in Has
  <2> HIDE DEF Has
  <2> QED
    BY <1>1, <1>2, Induction
<1>4. \E x \in s : \A y \in s : x >= y
  BY <1>3
<1> QED
  BY <1>4 DEF Max

\* The two folds here: of the words of a line into a pipeline, and of values into a sequence.
FoldBase(parse) == IF parse THEN NoStages ELSE <<>>
FoldStep(parse, result, value) == IF parse THEN ParseWord(result, value) ELSE Append(result, value)
IsFold(parse, values, S, g) ==
  g = [s \in SUBSET S |-> IF s = {} THEN FoldBase(parse)
                          ELSE FoldStep(parse, g[s \ {Max(s)}], values[Max(s)])]

\* The recursive function exists: by induction on the greatest number it is defined for.
LEMMA FoldExists ==
  ASSUME NEW parse, NEW line, NEW n \in Nat, NEW S \in SUBSET (1..n)
  PROVE  \E g : IsFold(parse, line, S, g)
<1> DEFINE Below(k) == {s \in SUBSET S : s \subseteq 1..k}
           Value(g, s) == IF s = {} THEN FoldBase(parse)
                          ELSE FoldStep(parse, g[s \ {Max(s)}], line[Max(s)])
           Has == {k \in Nat : \E g : g = [s \in Below(k) |-> Value(g, s)]}
<1>1. 0 \in Has
  <2>1. [s \in Below(0) |-> FoldBase(parse)] = [s \in Below(0) |-> Value([t \in Below(0) |-> FoldBase(parse)], s)]
    OBVIOUS
  <2> QED
    BY <2>1
<1>2. ASSUME NEW k \in Nat, k \in Has PROVE k + 1 \in Has
  <2>1. PICK g : g = [s \in Below(k) |-> Value(g, s)]
    BY <1>2
  <2> DEFINE h == [s \in Below(k + 1) |-> Value(g, s)]
  <2>2. ASSUME NEW s \in Below(k + 1) PROVE Value(g, s) = Value(h, s)
    <3>1. CASE s = {}
      BY <3>1
    <3>2. CASE s # {}
      <4> DEFINE t == s \ {Max(s)}
      <4>1. Max(s) \in s /\ \A m \in s : m <= Max(s)
        <5>1. k + 1 \in Nat /\ s \in SUBSET (1..(k + 1))
          OBVIOUS
        <5> HIDE DEF Below
        <5> QED
          BY <3>2, <5>1, MaxIs
      <4>2. t \in Below(k) /\ t \in Below(k + 1)
        <5>1. ASSUME NEW m \in t PROVE m \in 1..k
          <6>1. m \in s /\ m # Max(s) /\ m <= Max(s) /\ m \in 1..(k + 1) /\ Max(s) \in 1..(k + 1)
            BY <4>1
          <6> HIDE DEF t
          <6> QED
            BY <6>1
        <5>2. \A m \in t : m \in 1..(k + 1)
          OBVIOUS
        <5>3. t \in SUBSET S
          OBVIOUS
        <5> HIDE DEF t
        <5> QED
          BY <5>1, <5>2, <5>3
      <4>3. g[t] = Value(g, t) /\ h[t] = Value(g, t)
        <5> HIDE DEF Value, Below, t
        <5> QED
          BY <2>1, <4>2
      <4>4. g[t] = h[t]
        <5> HIDE DEF h, Value, t
        <5> QED
          BY <4>3
      <4> HIDE DEF h
      <4> QED
        BY <3>2, <4>4
    <3> QED
      BY <3>1, <3>2
  <2>3. h = [s \in Below(k + 1) |-> Value(h, s)]
    <3> HIDE DEF Value, Below
    <3>1. \A s \in Below(k + 1) : Value(g, s) = Value(h, s)
      BY <2>2
    <3> QED
      BY <3>1
  <2>4. \E f : f = [s \in Below(k + 1) |-> Value(f, s)]
    <3> HIDE DEF Value, Below, h
    <3> QED
      BY <2>3
  <2> QED
    <3> HIDE DEF Value, Below
    <3> QED
      BY <2>4
<1>3. n \in Has
  <2> HIDE DEF Has
  <2> QED
    BY <1>1, <1>2, Induction
<1>4. PICK g : g = [s \in Below(n) |-> Value(g, s)]
  BY <1>3
<1>5. Below(n) = SUBSET S
  OBVIOUS
<1> QED
  BY <1>4, <1>5 DEF IsFold

\* What Parse and WordsOf choose is such a function.
LEMMA ParseIs ==
  ASSUME NEW line, NEW n \in Nat, DOMAIN line = 1..n
  PROVE  \E g : IsFold(TRUE, line, 1..n, g) /\ FoldLeft(ParseWord, NoStages, line) = g[1..n]
<1> DEFINE it == CHOOSE g : g = [s \in SUBSET DOMAIN line |-> IF s = {} THEN NoStages
                          ELSE ParseWord(g[s \ {Max(s)}], line[Max(s)])]
<1>1. FoldLeft(ParseWord, NoStages, line) = it[DOMAIN line]
  BY DEF FoldLeft, MapThenFoldSet
<1>2. \E g : IsFold(TRUE, line, 1..n, g)
  BY FoldExists
<1>3. \A g : IsFold(TRUE, line, 1..n, g) <=> g = [s \in SUBSET DOMAIN line |-> IF s = {} THEN NoStages
                          ELSE ParseWord(g[s \ {Max(s)}], line[Max(s)])]
  BY DEF IsFold, FoldBase, FoldStep
<1>4. IsFold(TRUE, line, 1..n, it)
  <2>1. \E g : g = [s \in SUBSET DOMAIN line |-> IF s = {} THEN NoStages
                          ELSE ParseWord(g[s \ {Max(s)}], line[Max(s)])]
    BY <1>2, <1>3
  <2>2. it = [s \in SUBSET DOMAIN line |-> IF s = {} THEN NoStages
                          ELSE ParseWord(it[s \ {Max(s)}], line[Max(s)])]
    BY <2>1
  <2> HIDE DEF it
  <2> QED
    BY <2>2, <1>3
<1> QED BY <1>1, <1>4

LEMMA InOrderIs ==
  ASSUME NEW f, NEW n \in Nat, NEW S \in SUBSET (1..n)
  PROVE  \E g : IsFold(FALSE, f, S, g) /\ InOrder(f, S) = g[S]
<1> DEFINE Of(g) == g = [s \in SUBSET S |-> IF s = {} THEN <<>> ELSE Append(g[s \ {Max(s)}], f[Max(s)])]
           it == CHOOSE g : Of(g)
<1>1. InOrder(f, S) = it[S]
  BY DEF InOrder, MapThenFoldSet
<1>2. \A g : IsFold(FALSE, f, S, g) <=> Of(g)
  BY DEF IsFold, FoldBase, FoldStep
<1>3. \E g : Of(g)
  <2>1. \E g : IsFold(FALSE, f, S, g)
    BY FoldExists
  <2> QED
    BY <1>2, <2>1
<1> HIDE DEF Of
<1>4. Of(it)
  BY <1>3
<1> QED
  BY <1>1, <1>2, <1>4

LEMMA WordsIs ==
  ASSUME NEW line, NEW k, Len(line) \in Nat
  PROVE  \E g : /\ IsFold(FALSE, KeptWords(line), Positions(line, k), g)
               /\ WordsOf(line, k) = g[Positions(line, k)]
<1>1. Positions(line, k) \in SUBSET (1..Len(line))
  BY DEF Positions
<1> QED
  BY <1>1, InOrderIs DEF WordsOf

-----------------------------------------------------------------------------
(* The lines.  What the words of a line make of a pipeline, one after the  *)
(* other: the redirection it waits for, its stages and its output are what *)
(* the line has so far.                                                    *)

\* The recursive function of IsPath exists, and so IsPath is what its definition says.
LEMMA PathExists ==
  ASSUME NEW line, NEW n \in Nat
  PROVE  \E f : f = [m \in 1..n |-> m > 1 /\ line[m - 1] \in Redirections /\ ~f[m - 1]]
<1> DEFINE Value(f, m) == m > 1 /\ line[m - 1] \in Redirections /\ ~f[m - 1]
           Has == {k \in Nat : \E f : f = [m \in 1..k |-> Value(f, m)]}
<1>1. 0 \in Has
  <2>1. [m \in 1..0 |-> TRUE] = [m \in 1..0 |-> Value([l \in 1..0 |-> TRUE], m)]
    OBVIOUS
  <2> QED
    BY <2>1
<1>2. ASSUME NEW k \in Nat, k \in Has PROVE k + 1 \in Has
  <2>1. PICK f : f = [m \in 1..k |-> Value(f, m)]
    BY <1>2
  <2> DEFINE h == [m \in 1..(k + 1) |-> Value(f, m)]
  <2>2. ASSUME NEW m \in 1..(k + 1) PROVE Value(f, m) = Value(h, m)
    <3>1. CASE m > 1
      <4>1. m - 1 \in 1..k /\ m - 1 \in 1..(k + 1)
        BY <3>1
      <4>2. f[m - 1] = Value(f, m - 1) /\ h[m - 1] = Value(f, m - 1)
        <5> HIDE DEF Value
        <5> QED
          BY <2>1, <4>1
      <4> HIDE DEF h
      <4> QED
        BY <4>2
    <3>2. CASE ~(m > 1)
      BY <3>2
    <3> QED
      BY <3>1, <3>2
  <2>3. h = [m \in 1..(k + 1) |-> Value(h, m)]
    <3> HIDE DEF Value
    <3>1. \A m \in 1..(k + 1) : Value(f, m) = Value(h, m)
      BY <2>2
    <3> QED
      BY <3>1
  <2>4. \E g : g = [m \in 1..(k + 1) |-> Value(g, m)]
    <3> HIDE DEF Value, h
    <3> QED
      BY <2>3
  <2> QED
    <3> HIDE DEF Value
    <3> QED
      BY <2>4
<1>3. n \in Has
  <2> HIDE DEF Has
  <2> QED
    BY <1>1, <1>2, Induction
<1> QED
  BY <1>3

LEMMA PathIs ==
  ASSUME NEW line, Len(line) \in Nat
  PROVE  /\ IsPath(line) \in [1..Len(line) -> BOOLEAN]
         /\ \A n \in 1..Len(line) :
              IsPath(line)[n] = (n > 1 /\ line[n - 1] \in Redirections /\ ~IsPath(line)[n - 1])
<1> DEFINE path == CHOOSE f : f = [m \in 1..Len(line) |-> m > 1 /\ line[m - 1] \in Redirections /\ ~f[m - 1]]
<1>1. IsPath(line) = path
  BY DEF IsPath
<1>2. path = [m \in 1..Len(line) |-> m > 1 /\ line[m - 1] \in Redirections /\ ~path[m - 1]]
  <2>1. \E f : f = [m \in 1..Len(line) |-> m > 1 /\ line[m - 1] \in Redirections /\ ~f[m - 1]]
    BY PathExists
  <2> QED
    BY <2>1
<1> HIDE DEF path
<1>3. /\ path \in [1..Len(line) -> BOOLEAN]
      /\ \A n \in 1..Len(line) : path[n] = (n > 1 /\ line[n - 1] \in Redirections /\ ~path[n - 1])
  BY <1>2
<1> QED
  BY <1>1, <1>3

\* A word further there is one bar more, if the word is one.
IsBar(line, n) == line[n] = "|" /\ ~IsPath(line)[n]

LEMMA BarsStep ==
  ASSUME NEW line, Len(line) \in Nat, NEW n \in 1..Len(line)
  PROVE  /\ Bars(line, 1) = {} /\ Cardinality(Bars(line, 1)) = 0
         /\ Cardinality(Bars(line, n)) \in Nat
         /\ Cardinality(Bars(line, n + 1)) = Cardinality(Bars(line, n)) + IF IsBar(line, n) THEN 1 ELSE 0
<1>1. Bars(line, 1) = {}
  BY DEF Bars
<1>2. IsFiniteSet(Bars(line, n))
  <2>1. IsFiniteSet(1..(n - 1))
    BY FS_Interval
  <2>2. Bars(line, n) \in SUBSET (1..(n - 1))
    BY DEF Bars
  <2> QED
    BY <2>1, <2>2, FS_Subset
<1>3. CASE IsBar(line, n)
  <2>1. Bars(line, n + 1) = Bars(line, n) \union {n} /\ n \notin Bars(line, n)
    BY <1>3 DEF Bars, IsBar
  <2> QED
    BY <1>1, <1>2, <1>3, <2>1, FS_AddElement, FS_EmptySet, FS_CardinalityType
<1>4. CASE ~IsBar(line, n)
  <2>1. Bars(line, n + 1) = Bars(line, n)
    BY <1>4 DEF Bars, IsBar
  <2> QED
    BY <1>1, <1>2, <1>4, <2>1, FS_EmptySet, FS_CardinalityType
<1> QED
  BY <1>3, <1>4

\* The words of a stage among the first n of the line.
WordsFold(line, k) ==
  CHOOSE g : /\ IsFold(FALSE, KeptWords(line), Positions(line, k), g)
             /\ WordsOf(line, k) = g[Positions(line, k)]
Taken(line, k, n) == WordsFold(line, k)[Positions(line, k) \intersect (1..n)]

\* A word further, the stage it belongs to has one word more.
LEMMA TakenStep ==
  ASSUME NEW line, NEW k, Len(line) \in Nat, NEW n \in Nat, n + 1 \in 1..Len(line)
  PROVE  Taken(line, k, n + 1) = IF n + 1 \in Positions(line, k)
                                 THEN Append(Taken(line, k, n), Kept(line[n + 1]))
                                 ELSE Taken(line, k, n)
<1> DEFINE S == Positions(line, k)
           s == S \intersect (1..(n + 1))
<1>1. IsFold(FALSE, KeptWords(line), S, WordsFold(line, k))
  BY WordsIs DEF WordsFold
<1>2. CASE n + 1 \in S
  <2>1. n + 1 \in s /\ s \in SUBSET (1..(n + 1)) /\ s # {} /\ n + 1 \in Nat
    BY <1>2
  <2>2. Max(s) \in s /\ n + 1 <= Max(s)
    <3> HIDE DEF s
    <3> QED
      BY <2>1, MaxIs
  <2>3. Max(s) = n + 1
    <3>1. Max(s) \in 1..(n + 1)
      BY <2>1, <2>2
    <3> HIDE DEF s
    <3> QED
      BY <2>2, <3>1
  <2>4. s \ {n + 1} = S \intersect (1..n)
    BY <1>2
  <2>5. s \in SUBSET S
    OBVIOUS
  <2>6. WordsFold(line, k)[s] = Append(WordsFold(line, k)[s \ {Max(s)}], Kept(line[Max(s)]))
    <3>1. KeptWords(line)[Max(s)] = Kept(line[Max(s)])
      BY <2>3 DEF KeptWords
    <3> HIDE DEF s, S
    <3> QED
      BY <1>1, <2>1, <2>5, <3>1 DEF IsFold, FoldStep
  <2> QED
    BY <1>2, <2>3, <2>4, <2>6 DEF Taken
<1>3. CASE n + 1 \notin S
  <2>1. s = S \intersect (1..n)
    BY <1>3
  <2> QED
    BY <1>3, <2>1 DEF Taken
<1> QED
  BY <1>2, <1>3

\* At the end of the line they are all its words.
LEMMA TakenEnds ==
  ASSUME NEW line, NEW k, Len(line) \in Nat
  PROVE  /\ Taken(line, k, 0) = <<>>
         /\ Taken(line, k, Len(line)) = WordsOf(line, k)
<1>1. /\ IsFold(FALSE, KeptWords(line), Positions(line, k), WordsFold(line, k))
      /\ WordsOf(line, k) = WordsFold(line, k)[Positions(line, k)]
  BY WordsIs DEF WordsFold
<1>2. Positions(line, k) \intersect (1..0) = {}
  OBVIOUS
<1>3. Positions(line, k) \intersect (1..Len(line)) = Positions(line, k)
  BY DEF Positions
<1>4. WordsFold(line, k)[{}] = <<>>
  BY <1>1 DEF IsFold, FoldBase
<1> QED
  BY <1>1, <1>2, <1>3, <1>4 DEF Taken

\* The parser one word further.
LEMMA ParseStep ==
  ASSUME NEW line, Len(line) \in Nat, NEW g, IsFold(TRUE, line, 1..Len(line), g)
  PROVE  /\ g[1..0] = NoStages
         /\ \A n \in 0..(Len(line) - 1) : g[1..(n + 1)] = ParseWord(g[1..n], line[n + 1])
<1>1. g[1..0] = NoStages
  BY DEF IsFold, FoldBase
<1>2. ASSUME NEW n \in 0..(Len(line) - 1) PROVE g[1..(n + 1)] = ParseWord(g[1..n], line[n + 1])
  <2> DEFINE s == 1..(n + 1)
  <2>0. n \in Nat /\ n + 1 <= Len(line)
    OBVIOUS
  <2>1. s \in SUBSET (1..Len(line)) /\ n + 1 \in s /\ s # {} /\ n + 1 \in Nat
    <3>1. \A m \in 1..(n + 1) : m \in 1..Len(line)
      BY <2>0
    <3>2. n + 1 \in 1..(n + 1)
      BY <2>0
    <3>3. s \in SUBSET (1..Len(line))
      BY <3>1
    <3>4. n + 1 \in s /\ s # {}
      BY <3>2
    <3> QED
      BY <2>0, <3>3, <3>4
  <2>2. Max(s) \in s /\ n + 1 <= Max(s)
    BY <2>1, MaxIs
  <2>3. Max(s) = n + 1
    BY <2>2
  <2>4. s \ {n + 1} = 1..n
    OBVIOUS
  <2>5. g[s] = ParseWord(g[s \ {Max(s)}], line[Max(s)])
    <3> HIDE DEF s
    <3> QED
      BY <2>1 DEF IsFold, FoldStep
  <2> QED
    BY <2>3, <2>4, <2>5
<1> QED
  BY <1>1, <1>2

\* A pipeline whose words are of K.
PipelinesOf(K) ==
  [stages : Seq(Seq(K)), in : K \union {NOWHERE}, out : K \union {NOWHERE}, background : BOOLEAN,
   after : Redirections \union {NOWHERE}, refused : BOOLEAN]

Paths(line, r, n) == {m \in 2..n : IsPath(line)[m] /\ line[m - 1] = r}
PathFor(v, r) == IF r = "<" THEN v.in ELSE v.out

\* What the first n words of a line have made of a pipeline that they do not refuse.
Pending(v, line, n) ==
  v.after = IF n >= 1 /\ line[n] \in Redirections /\ ~IsPath(line)[n] THEN line[n] ELSE NOWHERE
StagesParsed(v, line, n) ==
  /\ Len(v.stages) = 1 + Cardinality(Bars(line, n + 1)) /\ Len(v.stages) <= MaxStages
  /\ \A k \in 1..Len(v.stages) : v.stages[k] = Taken(line, k, n) /\ Len(v.stages[k]) <= MaxArgs
  /\ \A k \in Nat : k > Len(v.stages) => Taken(line, k, n) = <<>>
PathParsed(v, line, r, n) ==
  IF Paths(line, r, n) = {} THEN PathFor(v, r) = NOWHERE
  ELSE \E m \in Paths(line, r, n) : (\A o \in Paths(line, r, n) : o <= m) /\ PathFor(v, r) = Kept(line[m])
PathsParsed(v, line, n) == \A r \in Redirections : PathParsed(v, line, r, n)
ParsedAs(v, line, n) == Pending(v, line, n) /\ StagesParsed(v, line, n) /\ PathsParsed(v, line, n)

\* The cases of parse_pipeline()'s loop.
LEMMA ParseCases ==
  ASSUME NEW K, NEW v \in PipelinesOf(K), NEW word
  PROVE  /\ v.refused => ParseWord(v, word) = v
         /\ ~v.refused /\ v.after = "<" => ParseWord(v, word) = [v EXCEPT !.in = Kept(word), !.after = NOWHERE]
         /\ ~v.refused /\ v.after = ">" => ParseWord(v, word) = [v EXCEPT !.out = Kept(word), !.after = NOWHERE]
         /\ ~v.refused /\ v.after = NOWHERE =>
              /\ word = "|" => ParseWord(v, word) = AddStage(v)
              /\ word \in Redirections => ParseWord(v, word) = [v EXCEPT !.after = word]
              /\ word = "&" => ParseWord(v, word) = [v EXCEPT !.background = TRUE]
              /\ word \notin Operators => ParseWord(v, word) = AddArg(v, word)
<1> v.refused \in BOOLEAN
  BY DEF PipelinesOf
<1> NOWHERE \notin {"<", ">"}
  BY PipelineAssumption DEF Redirections
<1> QED
  BY DEF ParseWord, Redirections, Operators

LEMMA ParseIn ==
  ASSUME NEW K, NEW v \in PipelinesOf(K), NEW word, ~v.refused, v.after = "<"
  PROVE  ParseWord(v, word) = [v EXCEPT !.in = Kept(word), !.after = NOWHERE]
  BY ParseCases

LEMMA ParseOut ==
  ASSUME NEW K, NEW v \in PipelinesOf(K), NEW word, ~v.refused, v.after = ">"
  PROVE  ParseWord(v, word) = [v EXCEPT !.out = Kept(word), !.after = NOWHERE]
  BY ParseCases

\* A word leaves a pipeline a pipeline.
LEMMA AddStageType ==
  ASSUME NEW K, NEW v \in PipelinesOf(K), Len(v.stages) >= 1
  PROVE  AddStage(v) \in PipelinesOf(K) /\ Len(AddStage(v).stages) >= 1
<1>1. v.stages \in Seq(Seq(K)) /\ <<>> \in Seq(K)
  BY DEF PipelinesOf
<1>2. CASE AddStage(v) = [v EXCEPT !.refused = TRUE]
  BY <1>2 DEF PipelinesOf
<1>3. CASE AddStage(v) = [v EXCEPT !.stages = Append(v.stages, <<>>)]
  <2> DEFINE st == Append(v.stages, <<>>)
  <2>1. st \in Seq(Seq(K)) /\ Len(st) >= 1
    BY <1>1
  <2>2. AddStage(v) = [v EXCEPT !.stages = st]
    BY <1>3
  <2> HIDE DEF st
  <2> QED
    BY <2>1, <2>2 DEF PipelinesOf
<1> QED
  BY <1>2, <1>3 DEF AddStage

\* What an argument does to the stages.
LEMMA AddArgStages ==
  ASSUME NEW K, NEW st \in Seq(Seq(K)), Len(st) >= 1, NEW w \in K
  PROVE  /\ Len(st) \in 1..Len(st)
         /\ [st EXCEPT ![Len(st)] = Append(@, w)] \in Seq(Seq(K))
         /\ Len([st EXCEPT ![Len(st)] = Append(@, w)]) = Len(st)
<1>1. Len(st) \in 1..Len(st) /\ DOMAIN st = 1..Len(st)
  OBVIOUS
<1>2. st[Len(st)] \in Seq(K)
  BY <1>1
<1>3. Append(st[Len(st)], w) \in Seq(K)
  BY <1>2
<1> QED
  BY <1>1, <1>3

LEMMA AddArgType ==
  ASSUME NEW K, NEW v \in PipelinesOf(K), Len(v.stages) >= 1, NEW word, Kept(word) \in K
  PROVE  AddArg(v, word) \in PipelinesOf(K) /\ Len(AddArg(v, word).stages) >= 1
<1>1. v.stages \in Seq(Seq(K))
  BY DEF PipelinesOf
<1>2. CASE AddArg(v, word) = [v EXCEPT !.refused = TRUE]
  BY <1>2 DEF PipelinesOf
<1>3. CASE AddArg(v, word) = [v EXCEPT !.stages = [v.stages EXCEPT ![Len(v.stages)] = Append(@, Kept(word))]]
  <2> DEFINE st == [v.stages EXCEPT ![Len(v.stages)] = Append(@, Kept(word))]
  <2>1. st \in Seq(Seq(K)) /\ Len(st) >= 1
    BY <1>1, AddArgStages
  <2>2. AddArg(v, word) = [v EXCEPT !.stages = st]
    BY <1>3
  <2> HIDE DEF st
  <2> QED
    BY <2>1, <2>2 DEF PipelinesOf
<1> QED
  BY <1>2, <1>3 DEF AddArg

LEMMA ParseWordType ==
  ASSUME NEW K, NEW v \in PipelinesOf(K), Len(v.stages) >= 1, NEW word, Kept(word) \in K
  PROVE  ParseWord(v, word) \in PipelinesOf(K) /\ Len(ParseWord(v, word).stages) >= 1
<1>0. v.after \in Redirections \union {NOWHERE} /\ v.refused \in BOOLEAN
  BY DEF PipelinesOf
<1>1. CASE v.refused
  <2>1. ParseWord(v, word) = v
    BY <1>1, ParseCases
  <2> QED
    BY <2>1
<1>2. CASE ~v.refused /\ v.after = "<"
  <2>1. ParseWord(v, word) = [v EXCEPT !.in = Kept(word), !.after = NOWHERE]
    BY <1>2, ParseIn
  <2> QED
    BY <2>1 DEF PipelinesOf
<1>3. CASE ~v.refused /\ v.after = ">"
  <2>1. ParseWord(v, word) = [v EXCEPT !.out = Kept(word), !.after = NOWHERE]
    BY <1>3, ParseOut
  <2> QED
    BY <2>1 DEF PipelinesOf
<1>4. CASE ~v.refused /\ v.after = NOWHERE
  <2>1. CASE word = "|"
    <3>1. ParseWord(v, word) = AddStage(v)
      BY <1>4, <2>1, ParseCases
    <3> QED
      BY <3>1, AddStageType
  <2>2. CASE word \in Redirections
    <3>1. ParseWord(v, word) = [v EXCEPT !.after = word]
      BY <1>4, <2>2, ParseCases
    <3> QED
      BY <2>2, <3>1 DEF PipelinesOf
  <2>3. CASE word = "&"
    <3>1. ParseWord(v, word) = [v EXCEPT !.background = TRUE]
      BY <1>4, <2>3, ParseCases
    <3> QED
      BY <3>1 DEF PipelinesOf
  <2>4. CASE word \notin Operators
    <3>1. ParseWord(v, word) = AddArg(v, word)
      BY <1>4, <2>4, ParseCases
    <3> QED
      BY <3>1, AddArgType
  <2> QED
    BY <2>1, <2>2, <2>3, <2>4 DEF Operators
<1> QED
  BY <1>0, <1>1, <1>2, <1>3, <1>4 DEF Redirections

\* A word is a path exactly if a redirection waits for it.
LEMMA WaitsForPath ==
  ASSUME NEW line, Len(line) \in Nat, NEW n \in Nat, n + 1 \in 1..Len(line),
         NEW K, NEW v \in PipelinesOf(K), Pending(v, line, n)
  PROVE  /\ IsPath(line)[n + 1] <=> v.after # NOWHERE
         /\ IsPath(line)[n + 1] \in BOOLEAN
         /\ v.after # NOWHERE => n >= 1 /\ v.after = line[n]
<1>1. IsPath(line)[n + 1] = (n + 1 > 1 /\ line[n] \in Redirections /\ ~IsPath(line)[n])
  <2>1. IsPath(line)[n + 1] = (n + 1 > 1 /\ line[(n + 1) - 1] \in Redirections /\ ~IsPath(line)[(n + 1) - 1])
    BY PathIs
  <2>2. (n + 1) - 1 = n
    OBVIOUS
  <2> QED
    BY <2>1, <2>2
<1>2. n + 1 > 1 <=> n >= 1
  OBVIOUS
<1> QED
  BY <1>1, <1>2, PipelineAssumption, Zenon DEF Pending

\* The redirection that waits, one word further.
LEMMA PendingStep ==
  ASSUME NEW line, Len(line) \in Nat, NEW n \in Nat, n + 1 \in 1..Len(line),
         NEW K, NEW v \in PipelinesOf(K), ~v.refused, Pending(v, line, n),
         ~ParseWord(v, line[n + 1]).refused
  PROVE  Pending(ParseWord(v, line[n + 1]), line, n + 1)
<1> DEFINE w == line[n + 1]
<1>0. v.after \in Redirections \union {NOWHERE}
  BY DEF PipelinesOf
<1>1. CASE v.after \in Redirections
  <2>1. IsPath(line)[n + 1]
    BY <1>1, WaitsForPath, PipelineAssumption
  <2>2. ParseWord(v, w).after = NOWHERE
    <3>1. CASE v.after = "<"
      <4>1. ParseWord(v, w) = [v EXCEPT !.in = Kept(w), !.after = NOWHERE]
        BY <3>1, ParseIn
      <4> QED
        BY <4>1 DEF PipelinesOf
    <3>2. CASE v.after = ">"
      <4>1. ParseWord(v, w) = [v EXCEPT !.out = Kept(w), !.after = NOWHERE]
        BY <3>2, ParseOut
      <4> QED
        BY <4>1 DEF PipelinesOf
    <3> QED
      BY <1>1, <3>1, <3>2 DEF Redirections
  <2> QED
    BY <2>1, <2>2 DEF Pending
<1>2. CASE v.after = NOWHERE
  <2>1. ~IsPath(line)[n + 1]
    BY <1>2, WaitsForPath
  <2>2. CASE w = "|"
    <3>1. ParseWord(v, w) = AddStage(v)
      BY <1>2, <2>2, ParseCases
    <3>2. AddStage(v).after = NOWHERE
      BY <1>2 DEF AddStage, PipelinesOf
    <3> QED
      BY <2>2, <3>1, <3>2 DEF Pending, Redirections
  <2>3. CASE w \in Redirections
    <3>1. ParseWord(v, w) = [v EXCEPT !.after = w]
      BY <1>2, <2>3, ParseCases
    <3>2. ParseWord(v, w).after = w
      BY <3>1 DEF PipelinesOf
    <3> QED
      BY <2>1, <2>3, <3>2 DEF Pending
  <2>4. CASE w = "&"
    <3>1. ParseWord(v, w) = [v EXCEPT !.background = TRUE]
      BY <1>2, <2>4, ParseCases
    <3>2. ParseWord(v, w).after = NOWHERE
      BY <1>2, <3>1 DEF PipelinesOf
    <3> QED
      BY <2>4, <3>2 DEF Pending, Redirections
  <2>5. CASE w \notin Operators
    <3>1. ParseWord(v, w) = AddArg(v, w)
      BY <1>2, <2>5, ParseCases
    <3>2. AddArg(v, w).after = NOWHERE
      BY <1>2 DEF AddArg, PipelinesOf
    <3> QED
      BY <2>5, <3>1, <3>2 DEF Pending, Operators
  <2> QED
    BY <2>2, <2>3, <2>4, <2>5 DEF Operators
<1> QED
  BY <1>0, <1>1, <1>2

\* A word that is no word of a stage leaves the stages alone.
LEMMA SameStages ==
  ASSUME NEW line, Len(line) \in Nat, NEW n \in Nat, n + 1 \in 1..Len(line),
         NEW v, NEW u, StagesParsed(v, line, n), u.stages = v.stages,
         line[n + 1] \in Operators \/ IsPath(line)[n + 1], ~IsBar(line, n + 1)
  PROVE  StagesParsed(u, line, n + 1)
<1>1. Cardinality(Bars(line, (n + 1) + 1)) = Cardinality(Bars(line, n + 1))
  BY BarsStep
<1>2. \A k : Taken(line, k, n + 1) = Taken(line, k, n)
  <2>1. \A k : n + 1 \notin Positions(line, k)
    BY DEF Positions
  <2> QED
    BY <2>1, TakenStep
<1> QED
  BY <1>1, <1>2, Zenon DEF StagesParsed

\* A bar adds an empty stage, a word of a stage adds itself to the last.
LEMMA OneStageMore ==
  ASSUME NEW line, Len(line) \in Nat, NEW n \in Nat, n + 1 \in 1..Len(line),
         NEW K, NEW v \in PipelinesOf(K), StagesParsed(v, line, n),
         IsBar(line, n + 1), ~AddStage(v).refused
  PROVE  StagesParsed(AddStage(v), line, n + 1)
<1> DEFINE st == v.stages
<1>1. st \in Seq(Seq(K)) /\ Len(st) \in Nat
  BY DEF PipelinesOf
<1>2. Len(st) # MaxStages /\ AddStage(v).stages = Append(st, <<>>)
  BY DEF AddStage, PipelinesOf
<1>3. Cardinality(Bars(line, (n + 1) + 1)) = Cardinality(Bars(line, n + 1)) + 1
      /\ Cardinality(Bars(line, n + 1)) \in Nat
  BY BarsStep
<1>4. \A k : Taken(line, k, n + 1) = Taken(line, k, n)
  <2>1. \A k : n + 1 \notin Positions(line, k)
    BY DEF Positions, IsBar, Operators
  <2> QED
    BY <2>1, TakenStep
<1>5. /\ Len(st) = 1 + Cardinality(Bars(line, n + 1)) /\ Len(st) <= MaxStages
      /\ \A k \in 1..Len(st) : st[k] = Taken(line, k, n) /\ Len(st[k]) <= MaxArgs
      /\ \A k \in Nat : k > Len(st) => Taken(line, k, n) = <<>>
  BY DEF StagesParsed
<1> DEFINE more == Append(st, <<>>)
<1>6. Len(more) = Len(st) + 1 /\ more[Len(st) + 1] = <<>> /\ \A k \in 1..Len(st) : more[k] = st[k]
  BY <1>1
<1> HIDE DEF st, more
<1>7. Len(more) = 1 + Cardinality(Bars(line, (n + 1) + 1)) /\ Len(more) <= MaxStages
  BY <1>1, <1>2, <1>3, <1>5, <1>6, PipelineAssumption
<1>8. ASSUME NEW k \in 1..Len(more) PROVE more[k] = Taken(line, k, n + 1) /\ Len(more[k]) <= MaxArgs
  <2>1. CASE k = Len(st) + 1
    <3>1. k \in Nat /\ k > Len(st)
      BY <1>1, <2>1
    <3>2. more[k] = <<>> /\ Taken(line, k, n + 1) = <<>>
      BY <1>4, <1>5, <1>6, <2>1, <3>1
    <3> QED
      BY <3>2, PipelineAssumption
  <2>2. CASE k # Len(st) + 1
    <3>1. k \in 1..Len(st)
      BY <1>1, <1>6, <2>2
    <3> QED
      BY <1>4, <1>5, <1>6, <3>1
  <2> QED
    BY <2>1, <2>2
<1>9. ASSUME NEW k \in Nat, k > Len(more) PROVE Taken(line, k, n + 1) = <<>>
  <2>1. k > Len(st)
    BY <1>1, <1>6, <1>9
  <2> QED
    BY <1>4, <1>5, <2>1
<1>10. AddStage(v).stages = more
  BY <1>2 DEF more, st
<1> QED
  BY <1>7, <1>8, <1>9, <1>10, Zenon DEF StagesParsed

LEMMA OneArgMore ==
  ASSUME NEW line, Len(line) \in Nat, NEW n \in Nat, n + 1 \in 1..Len(line),
         NEW K, NEW v \in PipelinesOf(K), Kept(line[n + 1]) \in K, StagesParsed(v, line, n),
         line[n + 1] \notin Operators, ~IsPath(line)[n + 1], ~AddArg(v, line[n + 1]).refused
  PROVE  StagesParsed(AddArg(v, line[n + 1]), line, n + 1)
<1> DEFINE st == v.stages
           last == Len(st)
           w == Kept(line[n + 1])
           more == [st EXCEPT ![last] = Append(@, w)]
<1>1. st \in Seq(Seq(K)) /\ Len(st) \in Nat
  BY DEF PipelinesOf
<1>2. Len(Last(st)) # MaxArgs /\ AddArg(v, line[n + 1]).stages = more
  BY DEF AddArg, PipelinesOf
<1>3. Cardinality(Bars(line, (n + 1) + 1)) = Cardinality(Bars(line, n + 1))
      /\ Cardinality(Bars(line, n + 1)) \in Nat
  BY BarsStep DEF IsBar, Operators
<1>4. /\ last = 1 + Cardinality(Bars(line, n + 1)) /\ last <= MaxStages
      /\ \A k \in 1..last : st[k] = Taken(line, k, n) /\ Len(st[k]) <= MaxArgs
      /\ \A k \in Nat : k > last => Taken(line, k, n) = <<>>
  BY DEF StagesParsed
<1>5. last \in 1..last /\ last \in Nat
  BY <1>1, <1>3, <1>4
<1>6. ASSUME NEW k \in Nat
      PROVE  Taken(line, k, n + 1) = IF k = last THEN Append(Taken(line, k, n), w) ELSE Taken(line, k, n)
  <2>1. n + 1 \in Positions(line, k) <=> Cardinality(Bars(line, n + 1)) = k - 1
    BY DEF Positions
  <2>2. n + 1 \in Positions(line, k) <=> k = last
    <3> HIDE DEF last
    <3> QED
      BY <1>3, <1>4, <2>1
  <2> QED
    BY <2>2, TakenStep
<1>7. /\ Len(more) = last
      /\ more[last] = Append(st[last], w)
      /\ \A k \in 1..last : k # last => more[k] = st[k]
      /\ st[last] \in Seq(K) /\ Len(Append(st[last], w)) = Len(st[last]) + 1 /\ Len(st[last]) \in Nat
  <2>1. DOMAIN st = 1..last
    BY <1>1
  <2>2. st[last] \in Seq(K)
    BY <1>1, <1>5
  <2> QED
    BY <1>1, <1>5, <2>1, <2>2
<1>8. Len(st[last]) # MaxArgs
  BY <1>2 DEF Last
<1> HIDE DEF st, last, w, more
<1>9. ASSUME NEW k \in 1..last PROVE more[k] = Taken(line, k, n + 1) /\ Len(more[k]) <= MaxArgs
  <2>0. k \in Nat
    BY <1>5
  <2>1. CASE k = last
    <3>1. more[k] = Taken(line, k, n + 1)
      BY <1>4, <1>5, <1>6, <1>7, <2>0, <2>1
    <3>2. Len(st[last]) <= MaxArgs
      BY <1>4, <1>5
    <3>3. Len(more[k]) <= MaxArgs
      BY <1>7, <1>8, <2>1, <3>2, PipelineAssumption
    <3> QED
      BY <3>1, <3>3
  <2>2. CASE k # last
    BY <1>4, <1>6, <1>7, <2>0, <2>2
  <2> QED
    BY <2>1, <2>2
<1>10. ASSUME NEW k \in Nat, k > last PROVE Taken(line, k, n + 1) = <<>>
  BY <1>4, <1>5, <1>6, <1>10
<1> QED
  <2>1. AddArg(v, line[n + 1]).stages = more /\ Len(more) = last
    BY <1>2, <1>7
  <2>2. last = 1 + Cardinality(Bars(line, (n + 1) + 1)) /\ last <= MaxStages
    BY <1>3, <1>4
  <2> QED
    BY <1>9, <1>10, <2>1, <2>2, Zenon DEF StagesParsed

\* The stages, one word further.
LEMMA StagesStep ==
  ASSUME NEW line, Len(line) \in Nat, NEW n \in Nat, n + 1 \in 1..Len(line),
         NEW K, NEW v \in PipelinesOf(K), Kept(line[n + 1]) \in K, ~v.refused,
         Pending(v, line, n), StagesParsed(v, line, n), ~ParseWord(v, line[n + 1]).refused
  PROVE  StagesParsed(ParseWord(v, line[n + 1]), line, n + 1)
<1> DEFINE w == line[n + 1]
           u == ParseWord(v, w)
<1>0. v.after \in Redirections \union {NOWHERE}
  BY DEF PipelinesOf
<1>1. CASE v.after \in Redirections
  <2>1. IsPath(line)[n + 1] /\ ~IsBar(line, n + 1)
    BY <1>1, WaitsForPath, PipelineAssumption DEF IsBar
  <2>2. u.stages = v.stages
    <3>1. CASE v.after = "<"
      <4>1. u = [v EXCEPT !.in = Kept(w), !.after = NOWHERE]
        BY <3>1, ParseIn
      <4> QED
        BY <4>1 DEF PipelinesOf
    <3>2. CASE v.after = ">"
      <4>1. u = [v EXCEPT !.out = Kept(w), !.after = NOWHERE]
        BY <3>2, ParseOut
      <4> QED
        BY <4>1 DEF PipelinesOf
    <3> QED
      BY <1>1, <3>1, <3>2 DEF Redirections
  <2> HIDE DEF u
  <2>3. StagesParsed(u, line, n + 1)
    BY <2>1, <2>2, SameStages
  <2> QED
    BY <2>3 DEF u
<1>2. CASE v.after = NOWHERE
  <2>1. ~IsPath(line)[n + 1]
    BY <1>2, WaitsForPath
  <2>2. CASE w = "|"
    <3>1. u = AddStage(v)
      BY <1>2, <2>2, ParseCases
    <3> QED
      BY <2>1, <2>2, <3>1, OneStageMore DEF IsBar
  <2>3. CASE w \in {"<", ">", "&"}
    <3>1. u.stages = v.stages
      <4>1. CASE w \in Redirections
        <5>1. u = [v EXCEPT !.after = w]
          BY <1>2, <4>1, ParseCases
        <5> QED
          BY <5>1 DEF PipelinesOf
      <4>2. CASE w = "&"
        <5>1. u = [v EXCEPT !.background = TRUE]
          BY <1>2, <4>2, ParseCases
        <5> QED
          BY <5>1 DEF PipelinesOf
      <4> QED
        BY <2>3, <4>1, <4>2 DEF Redirections
    <3>2. w \in Operators /\ ~IsBar(line, n + 1)
      BY <2>3 DEF Operators, Redirections, IsBar
    <3> HIDE DEF u
    <3>3. StagesParsed(u, line, n + 1)
      BY <3>1, <3>2, SameStages
    <3> QED
      BY <3>3 DEF u
  <2>4. CASE w \notin Operators
    <3>1. u = AddArg(v, w)
      BY <1>2, <2>4, ParseCases
    <3> QED
      BY <2>1, <2>4, <3>1, OneArgMore
  <2> QED
    BY <2>2, <2>3, <2>4 DEF Operators, Redirections
<1> QED
  BY <1>0, <1>1, <1>2

\* The paths, one word further.
LEMMA PathStep ==
  ASSUME NEW line, Len(line) \in Nat, NEW n \in Nat, n + 1 \in 1..Len(line),
         NEW K, NEW v \in PipelinesOf(K), ~v.refused,
         NEW r \in Redirections,
         Pending(v, line, n), PathParsed(v, line, r, n), ~ParseWord(v, line[n + 1]).refused
  PROVE  PathParsed(ParseWord(v, line[n + 1]), line, r, n + 1)
<1> DEFINE w == line[n + 1]
           u == ParseWord(v, w)
<1>0. v.after \in Redirections \union {NOWHERE}
  BY DEF PipelinesOf
<1>1. CASE v.after = r
  <2>1. IsPath(line)[n + 1] /\ line[n] = r /\ n >= 1
    BY <1>1, WaitsForPath, PipelineAssumption DEF Redirections
  <2>2. PathFor(u, r) = Kept(w)
    <3>1. CASE r = "<"
      <4>0. v.after = "<"
        BY <1>1, <3>1
      <4>1. u = [v EXCEPT !.in = Kept(w), !.after = NOWHERE]
        BY <4>0, ParseIn
      <4> QED
        BY <3>1, <4>1 DEF PathFor, PipelinesOf
    <3>2. CASE r = ">"
      <4>1. u = [v EXCEPT !.out = Kept(w), !.after = NOWHERE]
        BY <1>1, <3>2, ParseOut
      <4> QED
        BY <3>2, <4>1 DEF PathFor, PipelinesOf
    <3> QED
      BY <3>1, <3>2 DEF Redirections
  <2>3. n + 1 \in Paths(line, r, n + 1) /\ \A o \in Paths(line, r, n + 1) : o <= n + 1
    BY <2>1 DEF Paths
  <2> QED
    BY <2>2, <2>3 DEF PathParsed
<1>2. CASE v.after # r
  <2>1. ~(IsPath(line)[n + 1] /\ line[n] = r)
    BY <1>2, WaitsForPath
  <2>2. Paths(line, r, n + 1) = Paths(line, r, n)
    <3>1. \A m : m \in 2..(n + 1) <=> m \in 2..n \/ (m = n + 1 /\ n >= 1)
      OBVIOUS
    <3>2. (n + 1) - 1 = n
      OBVIOUS
    <3> QED
      BY <2>1, <3>1, <3>2 DEF Paths
  <2>3. PathFor(u, r) = PathFor(v, r)
    <3>1. CASE v.after = "<"
      <4>1. u = [v EXCEPT !.in = Kept(w), !.after = NOWHERE] /\ r # "<"
        BY <1>2, <3>1, ParseIn
      <4> QED
        BY <4>1 DEF PathFor, PipelinesOf
    <3>3. CASE v.after = ">"
      <4>1. u = [v EXCEPT !.out = Kept(w), !.after = NOWHERE] /\ r = "<"
        BY <1>2, <3>3, ParseOut DEF Redirections
      <4> QED
        BY <4>1 DEF PathFor, PipelinesOf
    <3>2. CASE v.after = NOWHERE
      <4>1. CASE w = "|"
        <5>1. u = AddStage(v)
          BY <3>2, <4>1, ParseCases
        <5> QED
          BY <5>1 DEF PathFor, AddStage, PipelinesOf
      <4>2. CASE w \in Redirections
        <5>1. u = [v EXCEPT !.after = w]
          BY <3>2, <4>2, ParseCases
        <5> QED
          BY <5>1 DEF PathFor, PipelinesOf
      <4>3. CASE w = "&"
        <5>1. u = [v EXCEPT !.background = TRUE]
          BY <3>2, <4>3, ParseCases
        <5> QED
          BY <5>1 DEF PathFor, PipelinesOf
      <4>4. CASE w \notin Operators
        <5>1. u = AddArg(v, w)
          BY <3>2, <4>4, ParseCases
        <5> QED
          BY <5>1 DEF PathFor, AddArg, PipelinesOf
      <4> QED
        BY <4>1, <4>2, <4>3, <4>4 DEF Operators
    <3> QED
      BY <1>0, <3>1, <3>2, <3>3 DEF Redirections
  <2> QED
    BY <2>2, <2>3 DEF PathParsed
<1> QED
  BY <1>1, <1>2

\* What parse_pipeline() makes of any words, if it does not refuse them.
LEMMA ParsedWords ==
  ASSUME NEW line, Len(line) \in Nat, DOMAIN line = 1..Len(line),
         NEW K, \A n \in 1..Len(line) : Kept(line[n]) \in K
  PROVE  LET v == FoldLeft(ParseWord, NoStages, line)
         IN  v \in PipelinesOf(K) /\ (~v.refused => ParsedAs(v, line, Len(line)))
<1>1. PICK g : IsFold(TRUE, line, 1..Len(line), g) /\ FoldLeft(ParseWord, NoStages, line) = g[1..Len(line)]
  BY ParseIs
<1> DEFINE Good(n) == /\ g[1..n] \in PipelinesOf(K) /\ Len(g[1..n].stages) >= 1
                      /\ ~g[1..n].refused => ParsedAs(g[1..n], line, n)
           S == {n \in Nat : n <= Len(line) => Good(n)}
<1>2. 0 \in S
  <2>1. g[1..0] = NoStages
    BY <1>1, ParseStep
  <2>2. NoStages \in PipelinesOf(K) /\ Len(NoStages.stages) = 1 /\ NoStages.after = NOWHERE
        /\ NoStages.stages[1] = <<>> /\ NoStages.in = NOWHERE /\ NoStages.out = NOWHERE
    <3>1. <<<<>>>> \in Seq(Seq(K)) /\ Len(<<<<>>>>) = 1
      OBVIOUS
    <3> QED
      BY <3>1 DEF NoStages, PipelinesOf
  <2>3. Pending(NoStages, line, 0)
    BY <2>2 DEF Pending
  <2>4. StagesParsed(NoStages, line, 0)
    <3>1. Bars(line, 0 + 1) = {} /\ Cardinality(Bars(line, 0 + 1)) = 0
      <4>1. Bars(line, 0 + 1) = {}
        BY DEF Bars
      <4> QED
        BY <4>1, FS_EmptySet
    <3>2. \A k : Taken(line, k, 0) = <<>>
      BY TakenEnds
    <3> QED
      BY <2>2, <3>1, <3>2, PipelineAssumption DEF StagesParsed
  <2>5. PathsParsed(NoStages, line, 0)
    <3>1. \A r : Paths(line, r, 0) = {}
      BY DEF Paths
    <3> QED
      BY <2>2, <3>1 DEF PathsParsed, PathParsed, PathFor
  <2> QED
    BY <2>1, <2>2, <2>3, <2>4, <2>5 DEF ParsedAs
<1>3. ASSUME NEW n \in Nat, n \in S PROVE n + 1 \in S
  <2> SUFFICES ASSUME n + 1 <= Len(line) PROVE Good(n + 1)
    OBVIOUS
  <2> DEFINE v == g[1..n]
             w == line[n + 1]
  <2>1. n + 1 \in 1..Len(line) /\ n \in 0..(Len(line) - 1) /\ n <= Len(line)
    OBVIOUS
  <2>2. Good(n)
    BY <1>3, <2>1
  <2>3. g[1..(n + 1)] = ParseWord(v, w)
    BY <1>1, <2>1, ParseStep
  <2>4. v \in PipelinesOf(K) /\ Len(v.stages) >= 1 /\ Kept(w) \in K
    BY <2>1, <2>2
  <2>5. ParseWord(v, w) \in PipelinesOf(K) /\ Len(ParseWord(v, w).stages) >= 1
    BY <2>4, ParseWordType
  <2>6. ASSUME ~ParseWord(v, w).refused PROVE ParsedAs(ParseWord(v, w), line, n + 1)
    <3>1. ~v.refused
      <4> SUFFICES ASSUME v.refused PROVE ParseWord(v, w) = v
        BY <2>6
      <4> QED
        BY <2>4, ParseCases
    <3>2. Pending(v, line, n) /\ StagesParsed(v, line, n) /\ PathsParsed(v, line, n)
      BY <2>2, <3>1 DEF ParsedAs
    <3> HIDE DEF v
    <3>3. Pending(ParseWord(v, w), line, n + 1)
      BY <2>1, <2>4, <2>6, <3>1, <3>2, PendingStep
    <3>4. StagesParsed(ParseWord(v, w), line, n + 1)
      BY <2>1, <2>4, <2>6, <3>1, <3>2, StagesStep
    <3>5. PathsParsed(ParseWord(v, w), line, n + 1)
      BY <2>1, <2>4, <2>6, <3>1, <3>2, PathStep DEF PathsParsed
    <3> QED
      BY <3>3, <3>4, <3>5 DEF ParsedAs
  <2> HIDE DEF v, w
  <2> QED
    BY <2>3, <2>5, <2>6
<1>4. Good(Len(line))
  <2>1. Len(line) \in S
    <3> HIDE DEF S
    <3> QED
      BY <1>2, <1>3, Induction
  <2> HIDE DEF Good
  <2> QED
    BY <2>1
<1> QED
  BY <1>1, <1>4

\* What /dev/buttons says are paths of buttons.
LEMMA NamesType ==
  ASSUME NEW found \in SUBSET ButtonIds
  PROVE  InOrder(ButtonPath, found) \in Seq(Devices)
<1>1. ButtonCount \in Nat /\ ButtonIds = 1..ButtonCount
  BY ButtonAssumption DEF ButtonIds
<1>2. PICK it : IsFold(FALSE, ButtonPath, found, it) /\ InOrder(ButtonPath, found) = it[found]
  BY <1>1, InOrderIs
<1>3. it = [s \in SUBSET found |-> IF s = {} THEN <<>>
                          ELSE Append(it[s \ {Max(s)}], ButtonPath[Max(s)])]
  BY <1>2 DEF IsFold, FoldBase, FoldStep
<1> DEFINE S == {k \in Nat : \A s \in SUBSET found : s \subseteq 1..k => it[s] \in Seq(Devices)}
<1>4. 0 \in S
  <2>1. \A s \in SUBSET found : s \subseteq 1..0 => s = {}
    OBVIOUS
  <2>2. it[{}] = <<>> /\ <<>> \in Seq(Devices)
    BY <1>3
  <2> QED
    BY <2>1, <2>2
<1>5. ASSUME NEW k \in Nat, k \in S PROVE k + 1 \in S
  <2> SUFFICES ASSUME NEW s \in SUBSET found, s \subseteq 1..(k + 1) PROVE it[s] \in Seq(Devices)
    OBVIOUS
  <2>1. CASE s = {}
    BY <1>3, <2>1
  <2>2. CASE s # {}
    <3>1. Max(s) \in s /\ \A m \in s : m <= Max(s)
      <4>1. k + 1 \in Nat /\ s \in SUBSET (1..(k + 1))
        OBVIOUS
      <4> QED
        BY <2>2, <4>1, MaxIs
    <3>2. ASSUME NEW m \in s \ {Max(s)} PROVE m \in 1..k
      <4>1. m \in s /\ m # Max(s) /\ m <= Max(s) /\ m \in 1..(k + 1) /\ Max(s) \in 1..(k + 1)
        BY <3>1
      <4> QED
        BY <4>1
    <3>3. it[s \ {Max(s)}] \in Seq(Devices)
      BY <1>5, <3>2
    <3>4. ButtonPath[Max(s)] \in Devices
      BY <3>1 DEF Devices
    <3>5. it[s] = Append(it[s \ {Max(s)}], ButtonPath[Max(s)])
      BY <1>3, <2>2
    <3> HIDE DEF S
    <3> QED
      BY <3>3, <3>4, <3>5
  <2> QED
    BY <2>1, <2>2
<1>6. ButtonCount \in S
  <2> HIDE DEF S
  <2> QED
    BY <1>1, <1>4, <1>5, Induction
<1> QED
  BY <1>1, <1>2, <1>6

\* The words that are typed, as they are kept.
KeptSet == {Kept(word) : word \in Words}

\* tokenize() leaves words of the line.
LEMMA TokensType ==
  ASSUME NEW line \in Seq(Words)
  PROVE  /\ Tokens(line) \in Seq(Words) /\ Len(Tokens(line)) \in Nat
         /\ DOMAIN Tokens(line) = 1..Len(Tokens(line))
         /\ \A n \in 1..Len(Tokens(line)) : Kept(Tokens(line)[n]) \in KeptSet
<1>1. Tokens(line) \in Seq(Words)
  BY PipelineAssumption DEF Tokens
<1>2. \A n \in 1..Len(Tokens(line)) : Tokens(line)[n] \in Words
  BY <1>1
<1> QED
  BY <1>1, <1>2 DEF KeptSet

\* For every line and all limits: a line that parse_pipeline() accepts has no more stages and
\* arguments than there is room for, each stage has the words that stand between its bars and
\* belong to no redirection, whole and in their order, the input comes from the last path
\* that a `<' names, and the output goes to the last that a `>' names.
THEOREM ParsedLine ==
  ASSUME NEW line \in Lines, Accepted(Parse(line))
  PROVE  /\ Parse(line) \in PipelinesOf(KeptSet)
         /\ Len(Parse(line).stages) = 1 + Cardinality(Bars(Tokens(line), Len(Tokens(line)) + 1))
         /\ Len(Parse(line).stages) <= MaxStages
         /\ \A k \in 1..Len(Parse(line).stages) :
              /\ Parse(line).stages[k] = WordsOf(Tokens(line), k)
              /\ Len(Parse(line).stages[k]) <= MaxArgs
         /\ PathsParsed(Parse(line), Tokens(line), Len(Tokens(line)))
<1> DEFINE l == Tokens(line)
           v == Parse(line)
<1>1. /\ Len(l) \in Nat /\ DOMAIN l = 1..Len(l)
      /\ \A n \in 1..Len(l) : Kept(l[n]) \in KeptSet
  <2>1. line \in Seq(Words)
    BY WordsAssumption
  <2> QED
    BY <2>1, TokensType
<1>2. v = FoldLeft(ParseWord, NoStages, l)
  BY DEF Parse
<1>3. ~v.refused
  BY DEF Accepted
<1> HIDE DEF l, v
<1>4. v \in PipelinesOf(KeptSet) /\ ParsedAs(v, l, Len(l))
  BY <1>1, <1>2, <1>3, ParsedWords
<1>5. \A k : Taken(l, k, Len(l)) = WordsOf(l, k)
  BY <1>1, TakenEnds
<1>6. /\ Len(v.stages) = 1 + Cardinality(Bars(l, Len(l) + 1)) /\ Len(v.stages) <= MaxStages
      /\ \A k \in 1..Len(v.stages) : v.stages[k] = WordsOf(l, k) /\ Len(v.stages[k]) <= MaxArgs
      /\ PathsParsed(v, l, Len(l))
  BY <1>4, <1>5 DEF ParsedAs, StagesParsed
<1> QED
  BY <1>4, <1>6 DEF l, v

-----------------------------------------------------------------------------
(* The buttons.                                                            *)

USE ButtonAssumption DEF ButtonIds

ButtonsInv == ButtonsTypeOK /\ RestsBeforeUnlock

LEMMA InitButtons == ButtonsInit => ButtonsInv
  BY DEF ButtonsInit, No, Zero, ButtonsInv, ButtonsTypeOK, RestsBeforeUnlock

LEMMA TouchKeeps == ASSUME ButtonsInv, NEW b \in ButtonIds, Touch(b) PROVE ButtonsInv'
  <1> USE DEF ButtonsInv
  <1>1. ButtonsTypeOK'
    BY DEF Touch, ButtonsTypeOK
  <1>2. ASSUME NEW c \in ButtonIds, ~armed'[c]
        PROVE  /\ ~button_pressed'[c] => ~held'[c]
               /\ held'[c] = button_pressed'[c] => bouncing'[c] <= button_cnt'[c]
    <2>1. CASE c = b
      <3>1. held[b] /\ ~held'[b] /\ ~armed[b]
        BY <1>2, <2>1 DEF Touch, ButtonsTypeOK
      <3>2. button_pressed[b] /\ button_pressed'[b]
        BY <3>1 DEF Touch, RestsBeforeUnlock
      <3> QED
        BY <2>1, <3>1, <3>2 DEF ButtonsTypeOK
    <2>2. CASE c # b
      BY <1>2, <2>2 DEF Touch, ButtonsTypeOK, RestsBeforeUnlock
    <2> QED
      BY <2>1, <2>2
  <1> QED
    BY <1>1, <1>2 DEF RestsBeforeUnlock

\* What one interrupt does to one button.
LEMMA TimerStep ==
  ASSUME ButtonsInv, RepeatingTimerCallback
  PROVE  \E low \in Readings : \A b \in ButtonIds :
           /\ button_pressed'[b] = (Pressed(low, b) \/ (button_pressed[b] /\ ~Released(low, b)))
           /\ button_cnt'[b] = Count(low, b)
           /\ armed'[b] = (armed[b] /\ ~Pressed(low, b))
           /\ bouncing'[b] = IF bouncing[b] > 0 THEN bouncing[b] - 1 ELSE 0
           /\ held'[b] = held[b]
           /\ low[b] \in BOOLEAN
           /\ bouncing[b] = 0 => low[b] = held[b]
  <1>1. PICK low \in Readings :
          /\ button_pressed' = [b \in ButtonIds |-> Pressed(low, b) \/ (button_pressed[b] /\ ~Released(low, b))]
          /\ button_cnt' = [b \in ButtonIds |-> Count(low, b)]
          /\ armed' = [b \in ButtonIds |-> armed[b] /\ ~Pressed(low, b)]
    BY DEF RepeatingTimerCallback
  <1>2. \A b \in ButtonIds : low[b] \in BOOLEAN /\ (bouncing[b] = 0 => low[b] = held[b])
    BY DEF Readings
  <1>3. /\ bouncing' = [b \in ButtonIds |-> IF bouncing[b] > 0 THEN bouncing[b] - 1 ELSE 0]
        /\ held' = held
    BY DEF RepeatingTimerCallback
  <1>4. WITNESS low \in Readings
  <1> QED
    BY <1>1, <1>2, <1>3, Zenon

LEMMA TimerKeeps == ASSUME ButtonsInv, RepeatingTimerCallback PROVE ButtonsInv'
  <1> USE DEF ButtonsInv
  <1>1. ButtonsTypeOK'
    <2>1. /\ button_pressed' \in [ButtonIds -> BOOLEAN] /\ button' \in [ButtonIds -> BOOLEAN]
          /\ armed' \in [ButtonIds -> BOOLEAN]
      BY Zenon DEF RepeatingTimerCallback, ButtonsTypeOK
    <2>2. button_cnt' \in [ButtonIds -> 0..Debounce]
      <3>1. PICK low \in Readings : button_cnt' = [b \in ButtonIds |-> Count(low, b)]
        BY DEF RepeatingTimerCallback
      <3>2. ASSUME NEW b \in ButtonIds PROVE Count(low, b) \in 0..Debounce
        BY DEF Count, ButtonsTypeOK
      <3> QED
        BY <3>1, <3>2
    <2>3. /\ bouncing' \in [ButtonIds -> Nat]
          /\ \A b \in ButtonIds : bouncing'[b] <= Bounce[b]
      BY DEF RepeatingTimerCallback, ButtonsTypeOK
    <2> QED
      BY <2>1, <2>2, <2>3 DEF RepeatingTimerCallback, ButtonsTypeOK
  <1>2. PICK low \in Readings : \A b \in ButtonIds :
           /\ button_pressed'[b] = (Pressed(low, b) \/ (button_pressed[b] /\ ~Released(low, b)))
           /\ button_cnt'[b] = Count(low, b)
           /\ armed'[b] = (armed[b] /\ ~Pressed(low, b))
           /\ bouncing'[b] = IF bouncing[b] > 0 THEN bouncing[b] - 1 ELSE 0
           /\ held'[b] = held[b]
           /\ low[b] \in BOOLEAN
           /\ bouncing[b] = 0 => low[b] = held[b]
    BY TimerStep
  <1>3. ASSUME NEW b \in ButtonIds, ~armed'[b]
        PROVE  /\ ~button_pressed'[b] => ~held'[b]
               /\ held'[b] = button_pressed'[b] => bouncing'[b] <= button_cnt'[b]
    <2>1. /\ button_cnt[b] \in Nat /\ bouncing[b] \in Nat /\ bouncing[b] <= Debounce + 1
          /\ held[b] \in BOOLEAN /\ button_pressed[b] \in BOOLEAN /\ armed[b] \in BOOLEAN
      BY DEF ButtonsTypeOK
    <2>2. armed[b] \/ ((~button_pressed[b] => ~held[b])
                        /\ (held[b] = button_pressed[b] => bouncing[b] <= button_cnt[b]))
      BY DEF RestsBeforeUnlock
    <2>3. CASE Pressed(low, b)
      <3>1. button_pressed'[b] /\ button_cnt'[b] = Debounce
        BY <1>2, <2>3 DEF Count
      <3>2. bouncing'[b] <= Debounce
        BY <1>2, <2>1
      <3> QED
        BY <3>1, <3>2
    <2>4. CASE Released(low, b)
      <3>1. ~armed[b] /\ button_pressed[b] /\ button_cnt[b] = 0 /\ ~low[b]
        BY <1>2, <1>3, <2>4 DEF Released, Pressed
      <3>2. ~held[b]
        <4>1. held[b] => bouncing[b] = 0
          BY <2>1, <2>2, <3>1
        <4> QED
          BY <1>2, <3>1, <4>1
      <3>3. ~button_pressed'[b] /\ button_cnt'[b] = Debounce /\ held'[b] = held[b]
        BY <1>2, <2>4, <3>1 DEF Count, Pressed
      <3>4. bouncing'[b] <= Debounce
        BY <1>2, <2>1
      <3> QED
        BY <3>2, <3>3, <3>4
    <2>5. CASE ~Pressed(low, b) /\ ~Released(low, b)
      <3>1. /\ ~armed[b] /\ button_pressed'[b] = button_pressed[b] /\ held'[b] = held[b]
            /\ button_cnt'[b] = IF button_cnt[b] > 0 THEN button_cnt[b] - 1 ELSE 0
        BY <1>2, <1>3, <2>1, <2>5 DEF Count
      <3>2. bouncing[b] <= button_cnt[b] => bouncing'[b] <= button_cnt'[b]
        <4>1. bouncing'[b] = IF bouncing[b] > 0 THEN bouncing[b] - 1 ELSE 0
          BY <1>2
        <4> QED
          BY <2>1, <3>1, <4>1
      <3> QED
        BY <2>2, <3>1, <3>2, Zenon
    <2> QED
      BY <2>3, <2>4, <2>5
  <1> QED
    BY <1>1, <1>3 DEF RestsBeforeUnlock

LEMMA NextButtons == ButtonsInv /\ [ButtonsNext]_buttonVars => ButtonsInv'
  <1> SUFFICES ASSUME ButtonsInv, [ButtonsNext]_buttonVars PROVE ButtonsInv'
    OBVIOUS
  <1>1. ASSUME NEW b \in ButtonIds, NEW single \in BOOLEAN, Look(b, single) PROVE ButtonsInv'
    BY <1>1 DEF Look, contactVars, ButtonsInv, ButtonsTypeOK, RestsBeforeUnlock
  <1>2. CASE Clear
    BY <1>2 DEF Clear, contactVars, ButtonsInv, ButtonsTypeOK, RestsBeforeUnlock
  <1>3. CASE UNCHANGED buttonVars
    BY <1>3 DEF buttonVars, contactVars, ButtonsInv, ButtonsTypeOK, RestsBeforeUnlock
  <1> QED
    BY <1>1, <1>2, <1>3, TouchKeeps, TimerKeeps DEF ButtonsNext

THEOREM ButtonsInvariance == ButtonsSafety => []ButtonsInv
  BY InitButtons, NextButtons, PTL DEF ButtonsSafety

\* What the timer registers has not been registered before: with the press it belongs to
\* registered, the contacts are at rest whenever the lockout is over.
LEMMA RegistersArmed ==
  ASSUME ButtonsInv, [ButtonsNext]_buttonVars, NEW b \in ButtonIds,
         button_pressed'[b], ~button_pressed[b]
  PROVE  armed[b]
  <1>1. CASE RepeatingTimerCallback
    <2>1. PICK low \in Readings :
            /\ button_pressed'[b] = (Pressed(low, b) \/ (button_pressed[b] /\ ~Released(low, b)))
            /\ bouncing[b] = 0 => low[b] = held[b]
      BY <1>1, TimerStep
    <2>2. low[b] /\ button_cnt[b] = 0
      BY <2>1 DEF Pressed
    <2>3. SUFFICES ASSUME ~armed[b] PROVE FALSE
      BY DEF ButtonsInv, ButtonsTypeOK
    <2>4. ~held[b] /\ bouncing[b] <= button_cnt[b] /\ bouncing[b] \in Nat
      BY <2>3 DEF ButtonsInv, ButtonsTypeOK, RestsBeforeUnlock
    <2>5. bouncing[b] = 0
      BY <2>2, <2>4
    <2> QED
      BY <2>1, <2>2, <2>4, <2>5, Zenon
  <1>2. CASE ~RepeatingTimerCallback
    BY <1>2 DEF ButtonsNext, Touch, Look, Clear, buttonVars, contactVars
  <1> QED
    BY <1>1, <1>2

\* A press is registered at most once, for every lockout and all contacts it is long enough
\* for.
THEOREM Debounced == ButtonsSafety => OnePressOneEvent
  <1>1. ASSUME ButtonsInv, [ButtonsNext]_buttonVars
        PROVE  [\A b \in ButtonIds : button_pressed'[b] /\ ~button_pressed[b] => armed[b]]_buttonVars
    BY <1>1, RegistersArmed
  <1> QED
    BY <1>1, ButtonsInvariance, PTL DEF ButtonsSafety, OnePressOneEvent

-----------------------------------------------------------------------------
(* The gateway and its parts.                                              *)

\* Each step of the gateway is one step of the loop of task_run(), or none.
LEMMA StepOfScheduler == [GatewayNext]_gatewayVars => [Next]_vars
  <1>1. LoopStep => [Next]_vars
    BY DEF LoopStep, TaskRun, ScanStep, PipelineStep, DisplayStep, Next
  <1>2. TimerInterrupt => [Next]_vars
    BY DEF TimerInterrupt
  <1> QED
    BY <1>1, <1>2 DEF GatewayNext, gatewayVars

\* Whatever the tasks do, and whenever the timer interrupts them, the loop that runs them is
\* the loop of kernel/task.cpp.
THEOREM RefinesScheduler == GatewaySpec => Safety
  BY StepOfScheduler, PTL DEF GatewaySpec, GatewaySafety, GatewayInit, Safety

LEMMA ScanOfButtons ==
  ASSUME NEW first \in ButtonIds, NEW last \in ButtonIds, NEW single \in BOOLEAN,
         Scan(first, last, single)
  PROVE  scan' \in Scans
  BY ButtonAssumption DEF Scan, Scans, ButtonIds

\* What is being read is a range of the buttons.
LEMMA ScanType == GatewaySafety => []ScanTypeOK
  <1>1. GatewayInit => ScanTypeOK
    BY DEF GatewayInit, ButtonsInit, ScanTypeOK
  <1>2. ASSUME ScanTypeOK, [GatewayNext]_gatewayVars PROVE ScanTypeOK'
    <2>0. 1 \in ButtonIds /\ ButtonCount \in ButtonIds
      BY ButtonAssumption DEF ButtonIds
    <2>1. CASE ScanStep
      <3>1. scan \in Scans /\ scan.next \in ButtonIds /\ scan.next + 1 \in 1..(ButtonCount + 1)
        BY <1>2, <2>1, ButtonAssumption DEF ScanTypeOK, ScanStep, Scanned, Scans, ButtonIds
      <3>2. CASE Look(scan.next, scan.single) /\ UNCHANGED scan
        BY <3>1, <3>2 DEF Look, ScanTypeOK
      <3>3. CASE /\ Clear
                 /\ scan' = [scan EXCEPT !.next = @ + 1,
                       !.found = @ \union (IF looked.pressed THEN {looked.button} ELSE {})]
        <4>1. looked.button \in ButtonIds /\ looked' = NONE
          BY <1>2, <3>3 DEF Clear, ScanTypeOK
        <4>2. scan.found \union (IF looked.pressed THEN {looked.button} ELSE {}) \in SUBSET ButtonIds
          BY <3>1, <4>1 DEF Scans
        <4> QED
          BY <3>1, <3>3, <4>1, <4>2 DEF Scans, ScanTypeOK
      <3> QED
        BY <2>1, <3>2, <3>3 DEF ScanStep
    <2>2. CASE TaskRun
      <3>1. scan' = scan \/ Scan(1, ButtonCount, TRUE)
        BY <2>2 DEF TaskRun, RunSlot, TaskShell, TaskDisplay
      <3> QED
        BY <1>2, <2>0, <2>2, <3>1, ScanOfButtons DEF TaskRun, buttonVars, ScanTypeOK
    <2>3. CASE PipelineStep
      <3>1. \/ scan' = scan \/ scan' = Idle \/ Scan(1, ButtonCount, FALSE)
            \/ \E b \in ButtonIds : Scan(b, b, TRUE)
        BY <2>3 DEF PipelineStep, ReadDevice, RunProgram, WriteOut, ButtonsRead
      <3> QED
        BY <1>2, <2>0, <2>3, <3>1, ScanOfButtons DEF PipelineStep, buttonVars, ScanTypeOK
    <2>4. CASE DisplayStep
      BY <1>2, <2>4 DEF DisplayStep, buttonVars, ScanTypeOK
    <2>5. CASE UNCHANGED <<scan, looked>>
      BY <1>2, <2>5 DEF ScanTypeOK
    <2>6. TimerInterrupt \/ (\E b \in ButtonIds : Touch(b) /\ UNCHANGED <<vars, taskVars>>)
            => UNCHANGED <<scan, looked>>
      BY DEF TimerInterrupt, RepeatingTimerCallback, Touch, taskVars
    <2> QED
      BY <1>2, <2>1, <2>2, <2>3, <2>4, <2>5, <2>6
      DEF GatewayNext, LoopStep, gatewayVars, buttonVars, taskVars
  <1> QED
    BY <1>1, <1>2, PTL DEF GatewaySafety

\* The tasks get at the flags of the buttons only through their devices.
LEMMA StepOfButtons == ScanTypeOK /\ [GatewayNext]_gatewayVars => [ButtonsNext]_buttonVars
  <1> SUFFICES ASSUME ScanTypeOK, [GatewayNext]_gatewayVars PROVE [ButtonsNext]_buttonVars
    OBVIOUS
  <1>1. CASE ScanStep
    <2>1. CASE Clear
      BY <2>1 DEF ButtonsNext
    <2>2. CASE Look(scan.next, scan.single)
      <3>1. scan.next \in ButtonIds /\ scan.single \in BOOLEAN
        BY <1>1, ButtonAssumption DEF ScanTypeOK, ScanStep, Scanned, Scans, ButtonIds
      <3> QED
        BY <2>2, <3>1 DEF ButtonsNext
    <2> QED
      BY <1>1, <2>1, <2>2 DEF ScanStep
  <1>2. CASE ~ScanStep
    BY <1>2 DEF GatewayNext, gatewayVars, LoopStep, TaskRun, PipelineStep, DisplayStep,
                TimerInterrupt, ButtonsNext
  <1> QED
    BY <1>1, <1>2

\* With the display and any number of jobs reading the same flags, the interrupt and the
\* devices stay what they are by themselves.
THEOREM RefinesButtons == GatewaySpec => ButtonsSafety
  <1>1. GatewayInit => ButtonsInit
    BY DEF GatewayInit
  <1> QED
    BY <1>1, ScanType, StepOfButtons, PTL DEF GatewaySpec, GatewaySafety, ButtonsSafety

\* No task of the gateway is ever later than one run of each of the others, a nap and its own
\* overrun.
THEOREM GatewayLateness == GatewaySpec => []IInv /\ []BoundedLateness
  BY RefinesScheduler, Invariance, LatenessIsBounded, PTL

\* In the whole gateway, for every lockout and all contacts it is long enough for, a press is
\* registered at most once.
THEOREM GatewayDebounced == GatewaySpec => OnePressOneEvent
  BY RefinesButtons, Debounced, PTL

\* A press stays in its flag, out of the window of one_read(), until a read has returned it.
PressIsKept ==
  [][\A b \in ButtonIds : button[b] /\ ~InWindow(b) =>
       (button'[b] /\ ~InWindow(b)') \/ (scan' # Idle /\ b \in scan'.found)]_gatewayVars

\* A clear that takes a flag away belongs to a look that has found it set.
LEMMA ClearReports ==
  ASSUME scan \in Scans, scan.next \in ButtonIds, looked = NONE \/ looked.button \in ButtonIds,
         NEW b \in ButtonIds, button \in [ButtonIds -> BOOLEAN], button[b], ~InWindow(b), Clear,
         scan' = [scan EXCEPT !.next = @ + 1,
                              !.found = @ \union (IF looked.pressed THEN {looked.button} ELSE {})]
  PROVE  (button'[b] /\ ~InWindow(b)') \/ (scan' # Idle /\ b \in scan'.found)
<1>1. looked # NONE /\ looked' = NONE /\ button' = IF Clears THEN [button EXCEPT ![looked.button] = FALSE] ELSE button
  BY DEF Clear
<1>2. ~InWindow(b)'
  BY <1>1 DEF InWindow
<1>3. CASE button'[b]
  BY <1>2, <1>3
<1>4. CASE ~button'[b]
  <2>1. Clears /\ looked.button = b
    BY <1>1, <1>4
  <2>2. looked.pressed
    BY <1>1, <2>1 DEF Clears, InWindow
  <2>3. scan'.found = scan.found \union {b}
    BY <2>1, <2>2 DEF Scans
  <2>4. scan' \in Scans
    <3>1. scan.next + 1 \in 1..(ButtonCount + 1)
      BY ButtonAssumption DEF ButtonIds
    <3>2. scan.found \union (IF looked.pressed THEN {looked.button} ELSE {}) \in SUBSET ButtonIds
      BY <1>1 DEF Scans
    <3> QED
      BY <3>1, <3>2 DEF Scans
  <2>5. scan' # Idle
    BY <2>4, GatewayAssumption
  <2> QED
    BY <2>3, <2>5
<1> QED
  BY <1>3, <1>4

\* With any number of jobs and the display reading the same flags, a press that the timer has
\* registered is lost to no reader but a one_read() that has looked before it came.
THEOREM PressKept == GatewaySpec => PressIsKept
<1> DEFINE Keeps == \A b \in ButtonIds : button[b] /\ ~InWindow(b) =>
                      (button'[b] /\ ~InWindow(b)') \/ (scan' # Idle /\ b \in scan'.found)
<1>1. ASSUME ButtonsInv, ScanTypeOK, GatewayNext PROVE Keeps
  <2> SUFFICES ASSUME NEW b \in ButtonIds, button[b], ~InWindow(b)
               PROVE  (button'[b] /\ ~InWindow(b)') \/ (scan' # Idle /\ b \in scan'.found)
    OBVIOUS
  <2>0. button \in [ButtonIds -> BOOLEAN]
    BY <1>1 DEF ButtonsInv, ButtonsTypeOK
  <2>1. CASE UNCHANGED <<button, looked>>
    BY <2>1 DEF InWindow
  <2>2. CASE ScanStep
    <3>1. scan \in Scans /\ scan.next \in ButtonIds
      BY <1>1, <2>2, ButtonAssumption DEF ScanTypeOK, ScanStep, Scanned, Scans, ButtonIds
    <3>2. CASE Look(scan.next, scan.single)
      BY <2>0, <3>2 DEF Look, InWindow
    <3>3. CASE /\ Clear
               /\ scan' = [scan EXCEPT !.next = @ + 1,
                     !.found = @ \union (IF looked.pressed THEN {looked.button} ELSE {})]
      BY <1>1, <2>0, <3>1, <3>3, ClearReports DEF ScanTypeOK
    <3> QED
      BY <2>2, <3>2, <3>3 DEF ScanStep
  <2>3. CASE TimerInterrupt
    BY <2>3 DEF TimerInterrupt, RepeatingTimerCallback, InWindow
  <2>4. CASE \E c \in ButtonIds : Touch(c)
    BY <2>1, <2>4 DEF Touch
  <2>5. CASE TaskRun \/ PipelineStep \/ DisplayStep
    BY <2>1, <2>5 DEF TaskRun, PipelineStep, DisplayStep, buttonVars
  <2> QED
    BY <1>1, <2>1, <2>2, <2>3, <2>4, <2>5 DEF GatewayNext, LoopStep, buttonVars
<1>2. ButtonsInv /\ ScanTypeOK /\ [GatewayNext]_gatewayVars => [Keeps]_gatewayVars
  BY <1>1
<1>3. ButtonsSafety => []ButtonsInv
  BY ButtonsInvariance
<1> QED
  BY <1>2, <1>3, RefinesButtons, ScanType, PTL DEF GatewaySpec, GatewaySafety, PressIsKept

-----------------------------------------------------------------------------
(* The mode.  A text that begins with a mode was said in an earlier stage, *)
(* by an echo or by a field of the configuration, and passed on by cats    *)
(* alone, or is the mode that the display is in: no other program and no   *)
(* other device says what begins with "menu" or "banner".                  *)

\* What ModeWrite takes.
Modes == {"menu", "banner"}

\* A pipeline that dispatch() runs or copies into a slot.
IsJob(job) ==
  \E line \in Lines : job = [line |-> line, pipeline |-> Parse(line)] /\ Accepted(Parse(line))

SlotsOK == \A id \in JobIds : slots[id] = FREE \/ IsJob(slots[id])

\* The words of a stage, or `cat' for `<'.
Source(v, k) ==
  IF k > 0 THEN v.stages[k] ELSE IF v.in = NOWHERE THEN <<>> ELSE <<"cat", v.in>>

\* A text that says m and reaches stage `at' was said and then passed on.
Told(v, at, m) ==
  \E k \in 0..(at - 1) : /\ Says(Source(v, k), m)
                        /\ \A later \in (k + 1)..(at - 1) : v.stages[later] = <<"cat">>

\* The pipeline that is being run: its input and its stages so far have worked, and a mode
\* that its text begins with was said, by an echo or by a field as it is now, or is the present one.
ExecOK ==
  /\ DOMAIN exec = {"task", "job", "text", "at"}
  /\ IsJob(exec.job)
  /\ exec.at \in 0..(Len(p.stages) + 1)
  /\ exec.at = 0 => p.in # NOWHERE
  /\ exec.at # 0 /\ p.in # NOWHERE => p.in \in Devices
  /\ \A k \in 1..(exec.at - 1) : Works(p.stages[k])
  /\ \A m \in Modes : Begins(exec.text, m) => mode = m \/ Told(p, exec.at, m)
  /\ scan # Idle => Read # NOWHERE /\ Read \in Devices

\* The inductive invariant.
ModeInv ==
  /\ mode \in Modes
  /\ SlotsOK
  /\ exec = Idle => scan = Idle
  /\ exec # Idle /\ exec.task = "pipeline" => ExecOK

\* At the start no job is there and nothing runs.
LEMMA InitMode == GatewayInit => ModeInv
  BY DEF GatewayInit, JobsInit, ModeInv, SlotsOK, Modes

\* The stages of a job are sequences of words.
LEMMA JobType ==
  ASSUME NEW job, IsJob(job)
  PROVE  /\ job.pipeline \in PipelinesOf(KeptSet) /\ NOWHERE \notin KeptSet
         /\ Len(job.pipeline.stages) \in Nat
         /\ \A k \in 1..Len(job.pipeline.stages) : job.pipeline.stages[k] \in Seq(KeptSet)
<1>1. job.pipeline \in PipelinesOf(KeptSet)
  BY ParsedLine DEF IsJob
<1>2. job.pipeline.stages \in Seq(Seq(KeptSet))
  BY <1>1 DEF PipelinesOf
<1>3. NOWHERE \notin KeptSet
  BY WordsAssumption DEF KeptSet
<1> QED
  BY <1>1, <1>2, <1>3

\* What a run starts with.
LEMMA StartsOK ==
  ASSUME NEW job, IsJob(job), PipelineRunOnce(job), scan = Idle, scan' = scan
  PROVE  ExecOK'
<1> DEFINE at == IF job.pipeline.in = NOWHERE THEN 1 ELSE 0
<1>1. exec' = [task |-> "pipeline", job |-> job, text |-> <<>>, at |-> at]
  BY DEF PipelineRunOnce
<1>2. exec'.job = job /\ exec'.text = <<>> /\ exec'.at = at /\ p' = job.pipeline
  BY <1>1 DEF p
<1>3. at \in 0..1 /\ (at = 0 <=> job.pipeline.in # NOWHERE)
  OBVIOUS
<1>4. Len(job.pipeline.stages) \in Nat
  BY JobType
<1> HIDE DEF at
<1>5. at \in 0..(Len(job.pipeline.stages) + 1) /\ (1..(at - 1)) = {}
  BY <1>3, <1>4
<1> QED
  BY <1>1, <1>2, <1>3, <1>5 DEF ExecOK, Begins

\* A cat passes on what was said; an echo says it, and so does a field that is read.
LEMMA ToldOn ==
  ASSUME NEW v, NEW at \in Nat, at >= 1, NEW m, Told(v, at, m), v.stages[at] = <<"cat">>
  PROVE  Told(v, at + 1, m)
<1>1. PICK k \in 0..(at - 1) : /\ Says(Source(v, k), m)
                             /\ \A later \in (k + 1)..(at - 1) : v.stages[later] = <<"cat">>
  BY DEF Told
<1>2. k \in 0..((at + 1) - 1)
  OBVIOUS
<1>3. ASSUME NEW later \in (k + 1)..((at + 1) - 1) PROVE v.stages[later] = <<"cat">>
  <2>1. later = at \/ later \in (k + 1)..(at - 1)
    OBVIOUS
  <2> QED
    BY <1>1, <2>1
<1> QED
  BY <1>1, <1>2, <1>3 DEF Told

LEMMA ToldNow ==
  ASSUME NEW v, NEW at \in Nat, NEW m, Says(Source(v, at), m)
  PROVE  Told(v, at + 1, m)
<1>1. at \in 0..((at + 1) - 1) /\ \A later \in (at + 1)..((at + 1) - 1) : FALSE
  OBVIOUS
<1> QED
  BY <1>1 DEF Told

\* It is still said while the configuration stays as it is.
LEMMA StillTold ==
  ASSUME config' = config
  PROVE  \A v, at, m : Told(v, at, m)' <=> Told(v, at, m)
<1>1. \A words, m : Says(words, m)' <=> Says(words, m)
  BY DEF Says, Begins
<1>2. \A v, k : Source(v, k)' = Source(v, k)
  BY DEF Source
<1> QED
  BY <1>1, <1>2 DEF Told

\* What a stage that works leaves.
LEMMA YieldsOK ==
  ASSUME ExecOK, exec.at <= Len(p.stages), NEW text, Yields(text), scan' = Idle, mode' = mode,
         config' = config,
         exec.at >= 1 => Works(Stage), exec.at = 0 => p.in \in Devices,
         \A m \in Modes : Begins(text, m) => mode = m \/ Told(p, exec.at + 1, m)
  PROVE  ExecOK'
<1> DEFINE job == exec.job
           at == exec.at
           len == Len(job.pipeline.stages)
<1>1. DOMAIN exec = {"task", "job", "text", "at"} /\ IsJob(job)
  BY DEF ExecOK
<1>2. exec' = [exec EXCEPT !.at = @ + 1, !.text = text]
  BY DEF Yields
<1>3. /\ DOMAIN exec' = {"task", "job", "text", "at"}
      /\ exec'.job = job /\ exec'.text = text /\ exec'.at = at + 1
      /\ p' = p /\ p = job.pipeline
  BY <1>1, <1>2 DEF p
<1>4. len \in Nat /\ at \in 0..(len + 1) /\ at <= len
  BY <1>1, JobType DEF ExecOK, p
<1>5. /\ at + 1 \in 0..(len + 1) /\ at + 1 # 0
      /\ \A k \in 1..((at + 1) - 1) : k \in 1..(at - 1) \/ (k = at /\ at >= 1)
  <2>1. \A a \in Nat, l \in Nat :
          a <= l => /\ a + 1 \in 0..(l + 1) /\ a + 1 # 0
                    /\ \A k \in 1..((a + 1) - 1) : k \in 1..(a - 1) \/ (k = a /\ a >= 1)
    OBVIOUS
  <2>2. at \in Nat
    BY <1>4
  <2> HIDE DEF at, len
  <2> QED
    BY <1>4, <2>1, <2>2
<1>6. \A k \in 1..(at - 1) : Works(p.stages[k])
  BY DEF ExecOK
<1>7. at >= 1 => Works(p.stages[at])
  BY DEF Stage
<1>7a. p.in # NOWHERE => p.in \in Devices
  BY DEF ExecOK
<1> HIDE DEF job, at, len
<1>8. \A k \in 1..((at + 1) - 1) : Works(p.stages[k])
  BY <1>5, <1>6, <1>7
<1>9. at + 1 \in 0..(Len(p.stages) + 1)
  BY <1>3, <1>5 DEF len
<1>10. \A m \in Modes : Begins(text, m) => mode = m \/ Told(p, at + 1, m)
  BY DEF at
<1>11. \A m \in Modes : Begins(exec'.text, m) => mode' = m \/ Told(p, exec.at, m)'
  <2>1. \A m : Told(p, exec.at, m)' <=> Told(p, at + 1, m)
    BY <1>3 DEF Told, Says, Source, Begins
  <2> QED
    BY <1>3, <1>10, <2>1
<1> QED
  BY <1>1, <1>3, <1>5, <1>7a, <1>8, <1>9, <1>11 DEF ExecOK

\* What reads a device is `<' or a cat with its path.
LEMMA ReadWorks ==
  ASSUME ExecOK, Read # NOWHERE, Read \in Devices
  PROVE  /\ exec.at <= Len(p.stages) /\ exec.at \in Nat
         /\ exec.at >= 1 => Works(Stage)
         /\ exec.at = 0 => p.in \in Devices
         /\ \A m : Read \in ConfigPaths /\ Begins(config[Read], m) => Says(Source(p, exec.at), m)
<1>1. Len(p.stages) \in Nat /\ exec.at \in 0..(Len(p.stages) + 1)
  BY JobType DEF ExecOK, p
<1>2. CASE exec.at = 0
  <2>1. Read = p.in
    BY <1>2 DEF Read
  <2>2. Source(p, exec.at) = <<"cat", Read>>
    BY <1>2, <2>1 DEF Source
  <2>3. \A m : Read \in ConfigPaths /\ Begins(config[Read], m) => Says(<<"cat", Read>>, m)
    BY DEF Says
  <2>4. exec.at <= Len(p.stages) /\ exec.at \in Nat /\ ~(exec.at >= 1)
    BY <1>1, <1>2
  <2> QED
    BY <2>1, <2>2, <2>3, <2>4
<1>3. CASE exec.at # 0
  <2>1. exec.at <= Len(p.stages) /\ Len(Stage) > 1 /\ Stage[1] = "cat" /\ Read = Stage[2]
    BY <1>3 DEF Read
  <2>2. exec.at \in 1..Len(p.stages)
    BY <1>1, <1>3, <2>1
  <2>3. Stage \in Seq(KeptSet)
    BY <2>2, JobType DEF ExecOK, p, Stage
  <2>4. Stage # <<>>
    BY <2>1, <2>3
  <2>5. Source(p, exec.at) = Stage
    BY <2>2 DEF Source, Stage
  <2>6. \A m : Read \in ConfigPaths /\ Begins(config[Read], m) => Says(Stage, m)
    BY <2>1 DEF Says
  <2>7. Works(Stage)
    BY <2>1, <2>4 DEF Works, Programs
  <2> QED
    BY <1>3, <2>2, <2>1, <2>5, <2>6, <2>7
<1> QED
  BY <1>2, <1>3

\* What a device that is read yields: nothing that begins with a mode, the mode, or a field.
LEMMA DeviceYields ==
  ASSUME ExecOK, Read # NOWHERE, Read \in Devices, NEW text, Yields(text), scan' = Idle, mode' = mode,
         config' = config,
         \/ \A m \in Modes : Begins(text, m) => mode = m
         \/ Read \in ConfigPaths /\ text = config[Read]
  PROVE  ExecOK'
<1>1. /\ exec.at <= Len(p.stages) /\ exec.at \in Nat
      /\ exec.at >= 1 => Works(Stage)
      /\ exec.at = 0 => p.in \in Devices
      /\ \A m : Read \in ConfigPaths /\ Begins(config[Read], m) => Says(Source(p, exec.at), m)
  BY ReadWorks
<1>2. ASSUME NEW m \in Modes, Begins(text, m) PROVE mode = m \/ Told(p, exec.at + 1, m)
  BY <1>1, <1>2, ToldNow
<1> QED
  BY <1>1, <1>2, YieldsOK

\* What no other program and no other device says.
LEMMA NoMode ==
  ASSUME NEW text,
         text = <<>> \/ text[1] \in {"up", "down", "0", "1", "none", "ready", "starting"} \union Devices,
         NEW m \in Modes
  PROVE  ~Begins(text, m)
  BY ModesAssumption DEF Modes, Begins

LEMMA ModeItself == ASSUME mode \in Modes, NEW m \in Modes, Begins(<<mode>>, m) PROVE mode = m
<1>1. <<mode>>[1] = mode
  OBVIOUS
<1> QED
  BY <1>1, ModesAssumption DEF Modes, Begins

\* The three steps of pipeline_run_once() that go on to the next stage.
LEMMA ReadDeviceOK ==
  ASSUME ExecOK, mode \in Modes, scan = Idle, ReadDevice, exec' # Idle
  PROVE  ExecOK'
<1>0. mode' = mode /\ config' = config /\ Read # NOWHERE
  BY DEF ReadDevice
<1>1. CASE Read = ModePath /\ Yields(<<mode>>) /\ UNCHANGED scan
  <2>1. Read \in Devices
    BY <1>1 DEF Devices
  <2> QED
    BY <1>0, <1>1, <2>1, ModeItself, DeviceYields
<1>2. CASE Read = StatusPath /\ Yields(Status) /\ UNCHANGED scan
  <2>1. Read \in Devices
    BY <1>2 DEF Devices
  <2>2. Status[1] \in {"up", "down"}
    BY DEF Status
  <2> QED
    BY <1>0, <1>2, <2>1, <2>2, NoMode, DeviceYields
<1>3. CASE exec' = exec /\ Read \in Devices
  <2>1. p' = p /\ Read' = Read /\ Devices' = Devices
    BY <1>3 DEF p, Read, Stage, Devices
  <2>2. \A m : Told(p, exec.at, m)' <=> Told(p, exec.at, m)
    BY <1>0, <1>3, <2>1, StillTold
  <2> QED
    BY <1>0, <1>3, <2>1, <2>2 DEF ExecOK, ReadDevice
<1>4. CASE Read = AllButtons /\ Scan(1, ButtonCount, FALSE) /\ UNCHANGED exec
  BY <1>3, <1>4 DEF Devices
<1>5. CASE \E b \in ButtonIds : Read = ButtonPath[b] /\ Scan(b, b, TRUE) /\ UNCHANGED exec
  BY <1>3, <1>5 DEF Devices
<1>6. CASE Read \in ConfigPaths /\ Yields(config[Read]) /\ UNCHANGED scan
  <2>1. Read \in Devices
    BY <1>6 DEF Devices
  <2> QED
    BY <1>0, <1>6, <2>1, DeviceYields
<1> QED
  BY <1>1, <1>2, <1>4, <1>5, <1>6 DEF ReadDevice, Fails

LEMMA ButtonsReadOK ==
  ASSUME ExecOK, ScanTypeOK, scan # Idle, ButtonsRead
  PROVE  ExecOK'
<1> DEFINE text == IF scan.single THEN <<IF scan.found = {} THEN "0" ELSE "1">>
                   ELSE IF scan.found = {} THEN <<"none">>
                   ELSE InOrder(ButtonPath, scan.found)
<1>1. Yields(text) /\ scan' = Idle /\ mode' = mode /\ config' = config
  BY DEF ButtonsRead
<1>2. Read # NOWHERE /\ Read \in Devices
  BY DEF ExecOK
<1>3. scan.found \in SUBSET ButtonIds
  BY DEF ScanTypeOK, Scans
<1>4. InOrder(ButtonPath, scan.found) \in Seq(Devices)
  BY <1>3, NamesType
<1>5. text = <<>> \/ text[1] \in {"0", "1", "none"} \union Devices
  <2> DEFINE names == InOrder(ButtonPath, scan.found)
  <2> HIDE DEF names
  <2>1. names = <<>> \/ names[1] \in Devices
    BY <1>4 DEF names
  <2> QED
    BY <2>1 DEF names
<1> HIDE DEF text
<1> QED
  BY <1>1, <1>2, <1>5, NoMode, DeviceYields

\* Short sequences.
LEMMA OneIs == ASSUME NEW X, NEW s \in Seq(X), s # <<>>, ~(Len(s) > 1) PROVE s = <<s[1]>>
<1>1. Len(s) \in Nat /\ Len(s) # 0
  OBVIOUS
<1>2. \A n \in Nat : n # 0 /\ ~(n > 1) => n = 1
  OBVIOUS
<1>3. Len(s) = 1
  BY <1>1, <1>2, Zenon
<1> QED
  BY <1>3

LEMMA RunProgramOK ==
  ASSUME ExecOK, scan = Idle, RunProgram, exec' # Idle
  PROVE  ExecOK'
<1> DEFINE at == exec.at
<1>1. /\ Read = NOWHERE /\ at <= Len(p.stages) /\ mode' = mode /\ scan' = Idle /\ config' = config
      /\ Stage # <<>>
      /\ \/ Stage[1] = "cat" /\ Yields(exec.text)
         \/ Stage[1] = "echo" /\ Yields(Tail(Stage))
         \/ Stage[1] = "ls" /\ Yields(<<AllButtons>> \o ButtonPath \o <<StatusPath, ModePath>>)
         \/ Stage[1] = "display" /\ \E r \in {"ready", "starting"} : Yields(<<r>>)
  BY DEF RunProgram, Fails, NotFound, Cat, Echo, Ls, Display
<1>2. at \in 1..Len(p.stages) /\ Len(p.stages) \in Nat
  <2>1. Len(p.stages) \in Nat /\ at \in 0..(Len(p.stages) + 1)
    BY JobType DEF ExecOK, p
  <2>2. at # 0
    BY <1>1 DEF ExecOK, Read
  <2> QED
    BY <1>1, <2>1, <2>2
<1>3. Stage \in Seq(KeptSet) /\ NOWHERE \notin KeptSet
  BY <1>2, JobType DEF ExecOK, p, Stage
<1>4. Stage[1] = "cat" => Stage = <<"cat">>
  <2> SUFFICES ASSUME Stage[1] = "cat" PROVE Stage = <<"cat">>
    OBVIOUS
  <2>1. CASE Len(Stage) > 1
    <3>1. Read = Stage[2]
      BY <1>1, <1>2, <2>1 DEF Read
    <3>2. Stage[2] \in KeptSet
      BY <1>3, <2>1
    <3> QED
      BY <1>1, <1>3, <3>1, <3>2
  <2>2. CASE ~(Len(Stage) > 1)
    <3>1. Stage = <<Stage[1]>>
      BY <1>1, <1>3, <2>2, OneIs
    <3> QED
      BY <3>1, Zenon
  <2> QED
    BY <2>1, <2>2
<1>5. ASSUME Stage[1] \in {"echo", "ls", "display"} \/ Stage = <<"cat">> PROVE Works(Stage)
  BY <1>1, <1>3, <1>5 DEF Works, Programs
<1>6. at \in Nat /\ at >= 1 /\ p.stages[at] = Stage
  BY <1>2 DEF Stage
<1>7. CASE Stage[1] = "cat" /\ Yields(exec.text)
  <2>1. ASSUME NEW m \in Modes, Begins(exec.text, m)
        PROVE  mode = m \/ Told(p, at + 1, m)
    <3>1. mode = m \/ Told(p, at, m)
      BY <2>1 DEF ExecOK
    <3> HIDE DEF at
    <3> QED
      BY <1>4, <1>6, <1>7, <3>1, ToldOn
  <2> QED
    BY <1>1, <1>4, <1>5, <1>6, <1>7, <2>1, YieldsOK
<1>8. CASE Stage[1] = "echo" /\ Yields(Tail(Stage))
  <2>1. ASSUME NEW m \in Modes, Begins(Tail(Stage), m)
        PROVE  Told(p, at + 1, m)
    <3>1. Len(Stage) > 1 /\ Stage[2] \in Beginning[m]
      BY <1>1, <1>3, <2>1 DEF Begins
    <3>2. Source(p, at) = Stage
      BY <1>6 DEF Source
    <3>3. Says(Source(p, at), m)
      BY <1>8, <3>1, <3>2 DEF Says
    <3> HIDE DEF at
    <3> QED
      BY <1>6, <3>3, ToldNow
  <2> QED
    BY <1>1, <1>5, <1>6, <1>8, <2>1, YieldsOK
<1>9. CASE Stage[1] = "ls" /\ Yields(<<AllButtons>> \o ButtonPath \o <<StatusPath, ModePath>>)
  <2> DEFINE text == <<AllButtons>> \o ButtonPath \o <<StatusPath, ModePath>>
  <2>1. text[1] = AllButtons /\ AllButtons \in Devices
    <3>1. ButtonPath \in Seq(Devices) /\ Len(ButtonPath) \in Nat
      BY WordsAssumption
    <3>2. AllButtons \in Devices /\ StatusPath \in Devices /\ ModePath \in Devices
      BY DEF Devices
    <3> QED
      BY <3>1, <3>2
  <2> HIDE DEF text
  <2>2. \A m \in Modes : ~Begins(text, m)
    BY <2>1, NoMode
  <2>3. Works(Stage) /\ Yields(text)
    BY <1>5, <1>9 DEF text
  <2> HIDE DEF at
  <2> QED
    BY <1>1, <1>6, <2>2, <2>3, YieldsOK DEF at
<1>10. CASE Stage[1] = "display" /\ \E r \in {"ready", "starting"} : Yields(<<r>>)
  <2>1. PICK r \in {"ready", "starting"} : Yields(<<r>>)
    BY <1>10
  <2>2. <<r>>[1] = r
    OBVIOUS
  <2> QED
    BY <1>1, <1>5, <1>6, <1>10, <2>1, <2>2, NoMode, YieldsOK
<1> QED
  BY <1>1, <1>7, <1>8, <1>9, <1>10

\* Every step of the gateway preserves it.
LEMMA NextMode ==
  ASSUME ModeInv, ScanTypeOK, [GatewayNext]_gatewayVars
  PROVE  ModeInv'
<1>0. mode \in Modes /\ SlotsOK /\ (exec = Idle => scan = Idle) /\ (exec # Idle /\ exec.task = "pipeline" => ExecOK)
  BY DEF ModeInv
<1>1. CASE UNCHANGED <<exec, scan, slots, mode, config>>
  <2>1. p' = p /\ Read' = Read /\ Devices' = Devices
    BY <1>1 DEF p, Read, Stage, Devices
  <2>2. \A m : Told(p, exec.at, m)' <=> Told(p, exec.at, m)
    BY <1>1, <2>1, StillTold
  <2> QED
    BY <1>0, <1>1, <2>1, <2>2 DEF ModeInv, SlotsOK, ExecOK
<1>2. CASE TaskRun
  <2>1. exec = Idle /\ scan = Idle /\ mode' = mode
    BY <1>0, <1>2 DEF TaskRun
  <2>2. CASE RunSlot
    <3>1. scan' = scan /\ slots' = slots /\ i \in JobIds
      BY <2>2 DEF RunSlot
    <3>2. CASE slots[i] = FREE
      BY <1>0, <2>1, <2>2, <3>1, <3>2 DEF RunSlot, ModeInv, SlotsOK
    <3>3. CASE slots[i] # FREE
      <4>1. IsJob(slots[i]) /\ PipelineRunOnce(slots[i])
        BY <1>0, <2>2, <3>1, <3>3 DEF SlotsOK, RunSlot
      <4>2. ExecOK'
        BY <2>1, <3>1, <4>1, StartsOK
      <4> QED
        BY <1>0, <3>1, <4>2, <2>1 DEF ModeInv, SlotsOK
    <3> QED
      BY <3>2, <3>3
  <2>3. CASE TaskShell
    <3>1. scan' = scan
      BY <2>3 DEF TaskShell
    <3>2. CASE UNCHANGED <<exec, slots>>
      BY <1>0, <2>1, <3>1, <3>2 DEF ModeInv, SlotsOK
    <3>3. CASE \E id \in JobIds : JobKill(id) /\ UNCHANGED exec
      <4>1. SlotsOK'
        BY <1>0, <3>3 DEF SlotsOK, JobKill
      <4> QED
        BY <2>1, <3>1, <3>3, <4>1 DEF ModeInv
    <3>4. ASSUME NEW line \in Lines, Dispatch(line) PROVE ModeInv'
      <4> DEFINE job == [line |-> line, pipeline |-> Pipeline[line]]
      <4>1. CASE UNCHANGED <<exec, slots>>
        BY <3>2, <4>1
      <4>2. CASE ~UNCHANGED <<exec, slots>>
        <5>1. /\ Accepted(Pipeline[line])
              /\ \/ JobStart(job) /\ UNCHANGED exec
                 \/ PipelineRunOnce(job) /\ UNCHANGED slots
          BY <3>4, <4>2 DEF Dispatch
        <5>2. Pipeline[line] = Parse(line)
          BY DEF Pipeline
        <5>3. IsJob(job)
          BY <5>1, <5>2 DEF IsJob
        <5> HIDE DEF job
        <5>4. CASE JobStart(job) /\ UNCHANGED exec
          <6>1. SlotsOK'
            BY <1>0, <5>3, <5>4 DEF SlotsOK, JobStart
          <6> QED
            BY <2>1, <3>1, <5>4, <6>1 DEF ModeInv
        <5>5. CASE PipelineRunOnce(job) /\ UNCHANGED slots
          <6>1. ExecOK'
            BY <2>1, <3>1, <5>3, <5>5, StartsOK
          <6> QED
            BY <1>0, <2>1, <3>1, <5>5, <6>1 DEF ModeInv, SlotsOK
        <5> QED
          BY <5>1, <5>4, <5>5
      <4> QED
        BY <4>1, <4>2
    <3> QED
      BY <2>3, <3>2, <3>3, <3>4 DEF TaskShell
  <2>4. CASE TaskDisplay
    <3>1. slots' = slots /\ (exec' = [task |-> "display"] \/ UNCHANGED <<exec, scan>>)
      BY <2>4 DEF TaskDisplay
    <3>2. CASE exec' = [task |-> "display"]
      <4>1. exec'.task = "display" /\ exec' # Idle
        BY <3>2, GatewayAssumption
      <4> QED
        BY <1>0, <2>1, <3>1, <4>1 DEF ModeInv, SlotsOK
    <3>3. CASE UNCHANGED <<exec, scan>>
      BY <1>0, <2>1, <3>1, <3>3 DEF ModeInv, SlotsOK
    <3> QED
      BY <3>1, <3>2, <3>3
  <2> QED
    BY <1>2, <2>2, <2>3, <2>4 DEF TaskRun
<1>3. CASE PipelineStep
  <2>1. exec # Idle /\ ExecOK /\ slots' = slots
    BY <1>0, <1>3 DEF PipelineStep, ReadDevice, RunProgram, WriteOut, ButtonsRead
  <2>2. SlotsOK'
    BY <1>0, <2>1 DEF SlotsOK
  <2>3. exec' = Idle => scan' = Idle
    BY <2>1, <1>3 DEF PipelineStep, ReadDevice, RunProgram, WriteOut, ButtonsRead
  <2>5. mode' \in Modes
    BY <1>0, <1>3 DEF PipelineStep, ReadDevice, RunProgram, WriteOut, ButtonsRead, ModeWrite, Modes
  <2>4. exec' # Idle => ExecOK'
    <3>1. CASE scan = Idle
      BY <1>0, <1>3, <2>1, <3>1, ReadDeviceOK, RunProgramOK DEF PipelineStep, WriteOut, Scanned
    <3>2. CASE scan # Idle
      BY <1>3, <2>1, <3>2, ButtonsReadOK DEF PipelineStep
    <3> QED
      BY <3>1, <3>2
  <2> QED
    BY <2>2, <2>3, <2>4, <2>5 DEF ModeInv
<1>4. CASE DisplayStep
  BY <1>0, <1>4 DEF DisplayStep, ModeInv, SlotsOK, Modes
<1>5. CASE ScanStep
  <2>1. scan # Idle /\ UNCHANGED <<exec, slots, mode, config>> /\ exec # Idle
    BY <1>0, <1>5 DEF ScanStep
  <2>2. p' = p /\ Read' = Read /\ Devices' = Devices
    BY <2>1 DEF p, Read, Stage, Devices
  <2>3. \A m : Told(p, exec.at, m)' <=> Told(p, exec.at, m)
    BY <2>1, <2>2, StillTold
  <2> QED
    BY <1>0, <2>1, <2>2, <2>3 DEF ModeInv, SlotsOK, ExecOK
<1> QED
  BY <1>1, <1>2, <1>3, <1>4, <1>5
  DEF GatewayNext, LoopStep, TimerInterrupt, taskVars, gatewayVars

\* The last path of a redirection, if there is one.
LEMMA LastPath ==
  ASSUME NEW line, Len(line) \in Nat, NEW v, NEW r \in Redirections, PathParsed(v, line, r, Len(line))
  PROVE  IF Redirected(line, r) = {} THEN PathFor(v, r) = NOWHERE
         ELSE PathFor(v, r) = Kept(line[Max(Redirected(line, r))])
<1> DEFINE found == Redirected(line, r)
<1>1. Paths(line, r, Len(line)) = found /\ found \in SUBSET (1..Len(line))
  BY DEF Paths, Redirected
<1> HIDE DEF found
<1>2. CASE found = {}
  BY <1>1, <1>2 DEF PathParsed, found
<1>3. CASE found # {}
  <2>1. PICK n \in found : (\A o \in found : o <= n) /\ PathFor(v, r) = Kept(line[n])
    BY <1>1, <1>3 DEF PathParsed
  <2>2. Max(found) \in found /\ \A o \in found : o <= Max(found)
    BY <1>1, <1>3, MaxIs
  <2>3. n \in Int /\ Max(found) \in Int
    <3>1. \A o \in found : o \in 1..Len(line)
      BY <1>1
    <3> QED
      BY <2>1, <2>2, <3>1
  <2>4. Max(found) = n
    BY <2>1, <2>2, <2>3
  <2> QED
    BY <1>3, <2>1, <2>4 DEF found
<1> QED
  BY <1>2, <1>3

\* What the text that reaches the device of the mode says was asked for.
LEMMA ToldAsks ==
  ASSUME ExecOK, exec.at = Len(p.stages) + 1, p.out = ModePath, NEW m, Told(p, exec.at, m)
  PROVE  Asks(exec.job.line, m)
<1> DEFINE line == Tokens(exec.job.line)
           len == Len(p.stages)
           out == Redirected(line, ">")
<1>1. exec.job.line \in Lines /\ p = Parse(exec.job.line) /\ Accepted(p)
  BY DEF ExecOK, IsJob, p
<1>2. /\ len = 1 + Cardinality(Bars(line, Len(line) + 1)) /\ len <= MaxStages
      /\ \A k \in 1..len : p.stages[k] = WordsOf(line, k) /\ Len(p.stages[k]) <= MaxArgs
      /\ PathsParsed(p, line, Len(line))
  BY <1>1, ParsedLine, Zenon
<1>3. len \in Nat /\ \A k \in 1..len : p.stages[k] \in Seq(KeptSet)
  BY JobType DEF ExecOK, p
<1>4. NOWHERE # ModePath
  BY WordsAssumption DEF Devices
<1>4a. Len(line) \in Nat
  <2>1. exec.job.line \in Seq(Words)
    BY <1>1, WordsAssumption
  <2> QED
    BY <2>1, TokensType
<1>4b. \A r \in Redirections : IF Redirected(line, r) = {} THEN PathFor(p, r) = NOWHERE
                               ELSE PathFor(p, r) = Kept(line[Max(Redirected(line, r))])
  <2> HIDE DEF line
  <2> QED
    BY <1>2, <1>4a, LastPath DEF PathsParsed
<1>5. out # {} /\ Kept(line[Max(out)]) = ModePath
  <2>1. PathFor(p, ">") = ModePath
    BY DEF PathFor
  <2> HIDE DEF line
  <2> QED
    BY <1>4, <1>4b, <2>1 DEF Redirections
<1>5a. Source(p, 0) = SourceOf(line, 0)
  <2>1. PathFor(p, "<") = p.in
    BY DEF PathFor
  <2>2. \A word : word \in Words => Kept(word) # NOWHERE
    BY WordsAssumption
  <2>3. Redirected(line, "<") # {} => p.in # NOWHERE
    <3> SUFFICES ASSUME Redirected(line, "<") # {} PROVE p.in # NOWHERE
      OBVIOUS
    <3>1. Max(Redirected(line, "<")) \in 1..Len(line)
      <4>1. Redirected(line, "<") \in SUBSET (1..Len(line))
        BY DEF Redirected
      <4> HIDE DEF line
      <4> QED
        BY <1>4a, <4>1, MaxIs
    <3>2. Kept(line[Max(Redirected(line, "<"))]) \in KeptSet
      <4>1. exec.job.line \in Seq(Words)
        BY <1>1, WordsAssumption
      <4> QED
        BY <3>1, <4>1, TokensType
    <3>3. NOWHERE \notin KeptSet
      BY WordsAssumption DEF KeptSet
    <3>4. p.in = Kept(line[Max(Redirected(line, "<"))])
      <4> HIDE DEF line
      <4> QED
        BY <1>4b, <2>1 DEF Redirections
    <3> QED
      BY <3>2, <3>3, <3>4
  <2> HIDE DEF line
  <2> QED
    BY <1>4b, <2>1, <2>3 DEF Source, SourceOf, Redirections
<1>6. \A k \in 1..len : Works(p.stages[k])
  <2>1. \A k \in 1..(exec.at - 1) : Works(p.stages[k])
    BY DEF ExecOK
  <2> QED
    BY <1>3, <2>1
<1>6a. Source(p, 0) # <<>> => Works(Source(p, 0))
  <2> SUFFICES ASSUME Source(p, 0) # <<>> PROVE Works(Source(p, 0))
    OBVIOUS
  <2>1. p.in # NOWHERE /\ Source(p, 0) = <<"cat", p.in>>
    BY DEF Source
  <2>2. p.in \in Devices
    BY <1>3, <2>1 DEF ExecOK
  <2> QED
    BY <2>1, <2>2 DEF Works, Programs
<1>7. PICK k \in 0..len : /\ Says(Source(p, k), m)
                         /\ \A later \in (k + 1)..len : p.stages[later] = <<"cat">>
  <2>1. exec.at - 1 = len
    BY <1>3
  <2> QED
    BY <2>1 DEF Told
<1>8. Source(p, k) = SourceOf(line, k)
  <2>1. k = 0 \/ (k \in 1..len /\ k > 0)
    BY <1>3
  <2> HIDE DEF line, len
  <2> QED
    BY <1>2, <1>5a, <2>1 DEF Source, SourceOf
<1> HIDE DEF line, len, out
<1>10. \A later \in (k + 1)..len : WordsOf(line, later) = <<"cat">>
  <2>1. \A later \in (k + 1)..len : later \in 1..len
    BY <1>3
  <2> QED
    BY <1>2, <1>7, <2>1, Zenon
<1>11. \A j \in 1..len : Works(WordsOf(line, j)) /\ Len(WordsOf(line, j)) <= MaxArgs
  BY <1>2, <1>6
<1> QED
  BY <1>2, <1>5, <1>5a, <1>6a, <1>7, <1>8, <1>10, <1>11 DEF Asks, line, len, out

\* A step that changes the mode.
LEMMA ModeChanges ==
  ASSUME ModeInv, [GatewayNext]_gatewayVars, mode' # mode
  PROVE  \/ exec.task = "display" /\ scan.found # {} /\ mode' = "menu"
         \/ exec.task = "pipeline" /\ Asks(exec.job.line, mode')
<1>1. CASE DisplayStep
  BY <1>1 DEF DisplayStep
<1>2. CASE PipelineStep
  <2>1. exec # Idle /\ exec.task = "pipeline" /\ WriteOut /\ ExecOK
    BY <1>2 DEF PipelineStep, ReadDevice, RunProgram, ButtonsRead, ModeInv
  <2>2. p.out = ModePath /\ Begins(exec.text, mode') /\ mode' \in Modes
    BY <2>1 DEF WriteOut, ModeWrite, Modes
  <2>3. exec.at = Len(p.stages) + 1
    <3>1. Len(p.stages) \in Nat /\ exec.at \in 0..(Len(p.stages) + 1) /\ exec.at > Len(p.stages)
      BY <2>1, JobType DEF ExecOK, WriteOut, p
    <3> QED
      BY <3>1
  <2>4. Told(p, exec.at, mode')
    BY <2>1, <2>2 DEF ExecOK
  <2> QED
    BY <2>1, <2>2, <2>3, <2>4, ToldAsks
<1>3. CASE UNCHANGED mode
  BY <1>3
<1> QED
  BY <1>1, <1>2, <1>3
  DEF GatewayNext, LoopStep, TaskRun, ScanStep, TimerInterrupt, taskVars, gatewayVars

\* In every reachable state.
LEMMA ModeInvariance == GatewaySafety => []ModeInv
  BY ScanType, InitMode, NextMode, PTL DEF GatewaySafety

\* For every set of lines, however long, every limit of the parser and every number of jobs and
\* buttons, and whatever the fields of the configuration come to hold: the mode of the display
\* changes only if a button was pressed, or if a line was typed that says so, or that takes the
\* mode from a field that says so now, and that parse_pipeline() took and pipeline_run_once() ran
\* as it stands.
THEOREM ModeAsked == GatewaySpec => ModeIsAsked
<1> DEFINE Asked == mode' # mode =>
                      \/ exec.task = "display" /\ scan.found # {} /\ mode' = "menu"
                      \/ exec.task = "pipeline" /\ Asks(exec.job.line, mode')
<1>1. ModeInv /\ [GatewayNext]_gatewayVars => [Asked]_gatewayVars
  BY ModeChanges
<1>2. GatewaySafety => [][Asked]_gatewayVars
  BY <1>1, ModeInvariance, PTL DEF GatewaySafety
<1> QED
  BY <1>2, PTL DEF GatewaySpec, ModeIsAsked
=============================================================================
