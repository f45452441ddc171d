----------------------- MODULE CapacityEnvelopeProofs -----------------------
(***************************************************************************)
(* The laws of SumTo; what the operations of CapacityEnvelope preserve;    *)
(* what headroom guarantees.  The induction theorems of the library        *)
(* quantify over a predicate, so induction is stated here over a set of    *)
(* numbers.                                                                *)
(***************************************************************************)
EXTENDS CapacityEnvelope, Sums, WellFoundedInduction, TLAPS

\* A set that holds 0 and is closed under successor holds every number.
LEMMA SetInduction ==
  ASSUME NEW S, 0 \in S, \A n \in Nat : n \in S => n + 1 \in S
  PROVE  \A n \in Nat : n \in S
<1> DEFINE R == OpToRel(<, Nat)
           T == Nat \ S
<1>1. IsWellFoundedOn(R, Nat)
  BY NatLessThanWellFounded
<1>2. SUFFICES ASSUME T # {} PROVE FALSE
  OBVIOUS
<1>3. PICK x \in T : \A y \in T : ~ (<<y, x>> \in R)
  <2> HIDE DEF R
  <2> QED BY <1>1, <1>2, WFMin
<1>4. \A y \in T : ~ (y < x)
  BY <1>3 DEF OpToRel
<1>5. x # 0
  OBVIOUS
<1>6. x - 1 \in T
  BY <1>5
<1> QED BY <1>4, <1>6

\* p lists the partial sums of f up to m.
Partial(p, f, m) ==
  /\ p \in [0..m -> Int]
  /\ p[0] = 0
  /\ \A i \in 1..m : p[i] = p[i - 1] + f[i]

\* The partial sums exist.
LEMMA PartialExists ==
  ASSUME NEW n \in Nat, NEW f \in [1..n -> Int]
  PROVE  \E p : Partial(p, f, n)
<1> DEFINE S == {m \in Nat : m <= n => \E p : Partial(p, f, m)}
<1>1. 0 \in S
  <2>1. Partial([i \in 0..0 |-> 0], f, 0)
    BY DEF Partial
  <2> QED BY <2>1
<1>2. ASSUME NEW m \in Nat, m \in S PROVE m + 1 \in S
  <2> SUFFICES ASSUME m + 1 <= n PROVE \E p : Partial(p, f, m + 1)
    OBVIOUS
  <2>1. PICK p : Partial(p, f, m)
    BY <1>2
  <2> DEFINE q == [i \in 0..(m + 1) |-> IF i = m + 1 THEN p[m] + f[i] ELSE p[i]]
  <2>2. f[m + 1] \in Int /\ p[m] \in Int
    BY <2>1 DEF Partial
  <2>3. q \in [0..(m + 1) -> Int]
    BY <2>1, <2>2 DEF Partial
  <2>4. q[0] = 0
    BY <2>1 DEF Partial
  <2>5. ASSUME NEW i \in 1..(m + 1) PROVE q[i] = q[i - 1] + f[i]
    <3>1. CASE i = m + 1
      BY <3>1
    <3>2. CASE i # m + 1
      BY <2>1, <3>2 DEF Partial
    <3> QED BY <3>1, <3>2
  <2> QED BY <2>3, <2>4, <2>5 DEF Partial
<1>3. n \in S
  <2> HIDE DEF S
  <2> QED BY <1>1, <1>2, SetInduction
<1> QED BY <1>3

\* Any function that solves the recursion agrees with them.
LEMMA PartialUnique ==
  ASSUME NEW n \in Nat, NEW f, NEW p, NEW q, Partial(p, f, n),
         q = [i \in 0..n |-> IF i = 0 THEN 0 ELSE q[i - 1] + f[i]]
  PROVE  q[n] = p[n]
<1> DEFINE S == {m \in Nat : m <= n => q[m] = p[m]}
<1>1. 0 \in S
  BY DEF Partial
<1>2. ASSUME NEW m \in Nat, m \in S PROVE m + 1 \in S
  <2> SUFFICES ASSUME m + 1 <= n PROVE q[m + 1] = p[m + 1]
    OBVIOUS
  <2>1. q[m] = p[m]
    BY <1>2
  <2>2. q[m + 1] = q[m] + f[m + 1]
    <3>1. m + 1 \in 0..n /\ m + 1 # 0 /\ (m + 1) - 1 = m
      OBVIOUS
    <3> QED BY <3>1
  <2>3. p[m + 1] = p[m] + f[m + 1]
    <3>1. m + 1 \in 1..n /\ (m + 1) - 1 = m
      OBVIOUS
    <3> QED BY <3>1 DEF Partial
  <2> QED BY <2>1, <2>2, <2>3
<1>3. n \in S
  <2> HIDE DEF S
  <2> QED BY <1>1, <1>2, SetInduction
<1> QED BY <1>3

\* SumTo is the last partial sum.
LEMMA SumIsLast ==
  ASSUME NEW n \in Nat, NEW f \in [1..n -> Int]
  PROVE  \E p : Partial(p, f, n) /\ SumTo(f, n) = p[n]
<1>1. PICK p : Partial(p, f, n)
  BY PartialExists
<1> DEFINE Equation(q) == q = [i \in 0..n |-> IF i = 0 THEN 0 ELSE q[i - 1] + f[i]]
           chosen == CHOOSE q : Equation(q)
<1>2. Equation(p)
  <2> DEFINE r == [i \in 0..n |-> IF i = 0 THEN 0 ELSE p[i - 1] + f[i]]
  <2>1. p = [i \in 0..n |-> p[i]]
    BY <1>1 DEF Partial
  <2>2. \A i \in 0..n : p[i] = r[i]
    BY <1>1 DEF Partial
  <2> QED BY <2>1, <2>2
<1>3. Equation(chosen)
  BY <1>2
<1>4. chosen[n] = p[n]
  <2> HIDE DEF chosen
  <2> QED BY <1>1, <1>3, PartialUnique
<1>5. SumTo(f, n) = chosen[n]
  BY DEF SumTo
<1> QED BY <1>1, <1>4, <1>5

-----------------------------------------------------------------------------
\* A sum of integers is an integer.
LEMMA SumType ==
  ASSUME NEW n \in Nat, NEW f \in [1..n -> Int]
  PROVE  SumTo(f, n) \in Int
BY SumIsLast DEF Partial

\* A property of partial sums that starts at 0 and steps to n holds at n.
LEMMA PartialInduction ==
  ASSUME NEW n \in Nat, NEW S, 0 \in S,
         \A i \in 1..n : i - 1 \in S => i \in S
  PROVE  n \in S
<1> DEFINE U == {m \in Nat : m <= n => m \in S}
<1>1. 0 \in U
  OBVIOUS
<1>2. ASSUME NEW m \in Nat, m \in U PROVE m + 1 \in U
  <2> SUFFICES ASSUME m + 1 <= n PROVE m + 1 \in S
    OBVIOUS
  <2>1. m + 1 \in 1..n /\ (m + 1) - 1 = m /\ m \in S
    BY <1>2
  <2> QED BY <2>1
<1>3. n \in U
  <2> HIDE DEF U
  <2> QED BY <1>1, <1>2, SetInduction
<1> QED BY <1>3

\* The sum of zeros is zero.
LEMMA SumZero ==
  ASSUME NEW n \in Nat, NEW f \in [1..n -> Int], \A i \in 1..n : f[i] = 0
  PROVE  SumTo(f, n) = 0
<1>1. PICK p : Partial(p, f, n) /\ SumTo(f, n) = p[n]
  BY SumIsLast
<1> DEFINE S == {i \in 0..n : p[i] = 0}
<1>2. 0 \in S
  BY <1>1 DEF Partial
<1>3. ASSUME NEW i \in 1..n, i - 1 \in S PROVE i \in S
  BY <1>1, <1>3 DEF Partial
<1>4. n \in S
  <2> HIDE DEF S
  <2> QED BY <1>2, <1>3, PartialInduction
<1> QED BY <1>1, <1>4

\* A sum of naturals is a natural.
LEMMA SumNat ==
  ASSUME NEW n \in Nat, NEW f \in [1..n -> Nat]
  PROVE  SumTo(f, n) \in Nat
<1>0. f \in [1..n -> Int]
  OBVIOUS
<1>1. PICK p : Partial(p, f, n) /\ SumTo(f, n) = p[n]
  BY <1>0, SumIsLast
<1> DEFINE S == {i \in 0..n : p[i] >= 0}
<1>2. 0 \in S
  BY <1>1 DEF Partial
<1>3. ASSUME NEW i \in 1..n, i - 1 \in S PROVE i \in S
  <2>1. p[i] = p[i - 1] + f[i] /\ p[i - 1] >= 0 /\ p[i - 1] \in Int /\ f[i] \in Nat
    BY <1>1, <1>3 DEF Partial
  <2> QED BY <2>1
<1>4. n \in S
  <2> HIDE DEF S
  <2> QED BY <1>2, <1>3, PartialInduction
<1> QED BY <1>0, <1>1, <1>4, SumType

\* Sums are added term by term.
LEMMA SumAdd ==
  ASSUME NEW n \in Nat, NEW f \in [1..n -> Int], NEW g \in [1..n -> Int],
         NEW h \in [1..n -> Int], \A i \in 1..n : h[i] = f[i] + g[i]
  PROVE  SumTo(h, n) = SumTo(f, n) + SumTo(g, n)
<1>1. PICK p : Partial(p, f, n) /\ SumTo(f, n) = p[n]
  BY SumIsLast
<1>2. PICK q : Partial(q, g, n) /\ SumTo(g, n) = q[n]
  BY SumIsLast
<1>3. PICK r : Partial(r, h, n) /\ SumTo(h, n) = r[n]
  BY SumIsLast
<1> DEFINE S == {i \in 0..n : r[i] = p[i] + q[i]}
<1>4. 0 \in S
  BY <1>1, <1>2, <1>3 DEF Partial
<1>5. ASSUME NEW i \in 1..n, i - 1 \in S PROVE i \in S
  <2>1. p[i] = p[i - 1] + f[i] /\ p[i - 1] \in Int /\ f[i] \in Int
    BY <1>1 DEF Partial
  <2>2. q[i] = q[i - 1] + g[i] /\ q[i - 1] \in Int /\ g[i] \in Int
    BY <1>2 DEF Partial
  <2>3. r[i] = r[i - 1] + h[i]
    BY <1>3 DEF Partial
  <2>4. r[i - 1] = p[i - 1] + q[i - 1] /\ h[i] = f[i] + g[i]
    BY <1>5
  <2>5. r[i] = p[i] + q[i]
    BY <2>1, <2>2, <2>3, <2>4
  <2> QED BY <2>5
<1>6. n \in S
  <2> HIDE DEF S
  <2> QED BY <1>4, <1>5, PartialInduction
<1> QED BY <1>1, <1>2, <1>3, <1>6

\* The sum of a function that is zero but for one argument.
LEMMA SumPoint ==
  ASSUME NEW n \in Nat, NEW f \in [1..n -> Int], NEW k \in 1..n,
         \A i \in 1..n : i # k => f[i] = 0
  PROVE  SumTo(f, n) = f[k]
<1>1. PICK p : Partial(p, f, n) /\ SumTo(f, n) = p[n]
  BY SumIsLast
<1> DEFINE S == {i \in 0..n : p[i] = IF i < k THEN 0 ELSE f[k]}
<1>2. 0 \in S
  BY <1>1 DEF Partial
<1>3. ASSUME NEW i \in 1..n, i - 1 \in S PROVE i \in S
  <2>1. p[i] = p[i - 1] + f[i] /\ f[i] \in Int /\ f[k] \in Int
    BY <1>1 DEF Partial
  <2>2. p[i - 1] = IF i - 1 < k THEN 0 ELSE f[k]
    BY <1>3
  <2>3. CASE i < k
    <3>1. f[i] = 0 /\ i - 1 < k
      BY <2>3
    <3>2. p[i] = 0
      BY <2>1, <2>2, <3>1
    <3> QED BY <2>3, <3>2
  <2>4. CASE i = k
    BY <2>1, <2>2, <2>4
  <2>5. CASE k < i
    <3>1. f[i] = 0 /\ ~ (i - 1 < k)
      BY <2>5
    <3>2. p[i] = f[k]
      BY <2>1, <2>2, <3>1
    <3> QED BY <2>5, <3>2
  <2> QED BY <2>3, <2>4, <2>5
<1>4. n \in S
  <2> HIDE DEF S
  <2> QED BY <1>2, <1>3, PartialInduction
<1> QED BY <1>1, <1>4

\* Changing one term changes the sum by as much.
LEMMA SumUpdate ==
  ASSUME NEW n \in Nat, NEW f \in [1..n -> Int], NEW g \in [1..n -> Int],
         NEW k \in 1..n, \A i \in 1..n : i # k => g[i] = f[i]
  PROVE  SumTo(g, n) = SumTo(f, n) + g[k] - f[k]
<1> DEFINE d == [i \in 1..n |-> IF i = k THEN g[k] - f[k] ELSE 0]
<1>1. d \in [1..n -> Int]
  OBVIOUS
<1>2. SumTo(d, n) = g[k] - f[k]
  <2>1. d[k] = g[k] - f[k] /\ \A i \in 1..n : i # k => d[i] = 0
    OBVIOUS
  <2> HIDE DEF d
  <2> QED BY <1>1, <2>1, SumPoint
<1>3. \A i \in 1..n : g[i] = f[i] + d[i]
  OBVIOUS
<1>4. SumTo(g, n) = SumTo(f, n) + SumTo(d, n)
  <2> HIDE DEF d
  <2> QED BY <1>1, <1>3, SumAdd
<1> QED BY <1>2, <1>4, SumType

\* f is g on its first m arguments, then h.
Parts(f, g, m, h, n) ==
  /\ m \in Nat /\ n \in Nat
  /\ f \in [1..(m + n) -> Int] /\ g \in [1..m -> Int] /\ h \in [1..n -> Int]
  /\ \A i \in 1..m : f[i] = g[i]
  /\ \A i \in 1..n : f[m + i] = h[i]

\* The sum of a function is the sum of its parts.
LEMMA SumParts ==
  ASSUME NEW f, NEW g, NEW m, NEW h, NEW n, Parts(f, g, m, h, n)
  PROVE  SumTo(f, m + n) = SumTo(g, m) + SumTo(h, n)
<1> DEFINE k == m + n
<1>0. /\ m \in Nat /\ n \in Nat /\ k \in Nat /\ k = m + n
      /\ f \in [1..k -> Int] /\ g \in [1..m -> Int] /\ h \in [1..n -> Int]
      /\ \A i \in 1..m : f[i] = g[i]
      /\ \A i \in 1..n : f[m + i] = h[i]
  BY DEF Parts
<1> HIDE DEF k
<1>1. PICK p : Partial(p, f, k) /\ SumTo(f, k) = p[k]
  BY <1>0, SumIsLast
<1>2. PICK q : Partial(q, g, m) /\ SumTo(g, m) = q[m]
  BY <1>0, SumIsLast
<1>3. PICK r : Partial(r, h, n) /\ SumTo(h, n) = r[n]
  BY <1>0, SumIsLast
<1>4. p[m] = q[m]
  <2> DEFINE S == {i \in 0..m : p[i] = q[i]}
  <2>1. 0 \in S
    BY <1>0, <1>1, <1>2 DEF Partial
  <2>2. ASSUME NEW i \in 1..m, i - 1 \in S PROVE i \in S
    <3>1. p[i] = p[i - 1] + f[i]
      <4>1. i \in 1..k
        BY <1>0
      <4> QED BY <1>1, <4>1 DEF Partial
    <3>2. q[i] = q[i - 1] + g[i]
      BY <1>0, <1>2 DEF Partial
    <3>3. p[i - 1] = q[i - 1] /\ f[i] = g[i]
      BY <1>0, <2>2
    <3> QED BY <3>1, <3>2, <3>3
  <2>3. m \in S
    <3> HIDE DEF S
    <3> QED BY <1>0, <2>1, <2>2, PartialInduction
  <2> QED BY <2>3
<1>5. p[k] = q[m] + r[n]
  <2> DEFINE S == {i \in 0..n : p[m + i] = q[m] + r[i]}
  <2>1. 0 \in S
    BY <1>0, <1>2, <1>3, <1>4 DEF Partial
  <2>2. ASSUME NEW i \in 1..n, i - 1 \in S PROVE i \in S
    <3>1. p[m + i] = p[m + (i - 1)] + f[m + i]
      <4>1. m + i \in 1..k /\ (m + i) - 1 = m + (i - 1)
        BY <1>0
      <4> QED BY <1>1, <4>1 DEF Partial
    <3>2. r[i] = r[i - 1] + h[i] /\ r[i - 1] \in Int /\ h[i] \in Int
      BY <1>0, <1>3 DEF Partial
    <3>3. p[m + (i - 1)] = q[m] + r[i - 1] /\ f[m + i] = h[i]
      BY <1>0, <2>2
    <3>4. q[m] \in Int
      BY <1>0, <1>2 DEF Partial
    <3> QED BY <3>1, <3>2, <3>3, <3>4
  <2>3. n \in S
    <3> HIDE DEF S
    <3> QED BY <1>0, <2>1, <2>2, PartialInduction
  <2> QED BY <1>0, <2>3
<1> QED BY <1>1, <1>2, <1>3, <1>5 DEF k

-----------------------------------------------------------------------------
\* A least value on a set but one element gives a least value on the set.
LEMMA LeastOfMore ==
  ASSUME NEW f, NEW U, NEW k \in U, \A u \in U : f[u] \in Int,
         U \ {k} # {} => \E t \in U \ {k} : \A u \in U \ {k} : f[t] <= f[u]
  PROVE  \E t \in U : \A u \in U : f[t] <= f[u]
<1>1. CASE U \ {k} = {}
  <2>1. U = {k}
    BY <1>1
  <2> QED BY <2>1
<1>2. CASE U \ {k} # {}
  <2>1. PICK t \in U \ {k} : \A u \in U \ {k} : f[t] <= f[u]
    BY <1>2
  <2>2. CASE f[k] < f[t]
    <3>1. \A u \in U : f[k] <= f[u]
      BY <2>1, <2>2
    <3> QED BY <3>1
  <2>3. CASE ~ (f[k] < f[t])
    <3>1. \A u \in U : f[t] <= f[u]
      BY <2>1, <2>3
    <3> QED BY <3>1
  <2> QED BY <2>2, <2>3
<1> QED BY <1>1, <1>2

\* A function over Time has a least value on any set of instants.
LEMMA LeastInstant ==
  ASSUME NEW f \in [Time -> Int], NEW T \in SUBSET Time, T # {}
  PROVE  \E t \in T : \A u \in T : f[t] <= f[u]
<1> DEFINE HasLeast(U) == U # {} => \E t \in U : \A u \in U : f[t] <= f[u]
           S == {m \in Nat : \A U \in SUBSET Time :
                   (\A u \in U : u <= m) => HasLeast(U)}
<1>0. Time \subseteq Nat /\ \A u \in Time : u <= MaxTime
  BY EnvelopeAssumption DEF Time
<1>1. 0 \in S
  <2> SUFFICES ASSUME NEW U \in SUBSET Time, \A u \in U : u <= 0, U # {}
               PROVE  \E t \in U : \A u \in U : f[t] <= f[u]
    OBVIOUS
  <2>1. \A u \in U : u = 0
    BY <1>0
  <2>2. U = {0}
    BY <2>1
  <2>3. f[0] \in Int
    BY <2>2
  <2> QED BY <2>2, <2>3
<1>2. ASSUME NEW m \in Nat, m \in S PROVE m + 1 \in S
  <2> SUFFICES ASSUME NEW U \in SUBSET Time, \A u \in U : u <= m + 1
               PROVE  HasLeast(U)
    OBVIOUS
  <2>1. CASE m + 1 \notin U
    <3>1. \A u \in U : u <= m
      BY <1>0, <2>1
    <3> QED BY <1>2, <3>1
  <2>2. CASE m + 1 \in U
    <3> DEFINE V == U \ {m + 1}
    <3>1. V \in SUBSET Time /\ \A u \in V : u <= m
      BY <1>0
    <3>2. HasLeast(V)
      <4> HIDE DEF V, HasLeast
      <4> QED BY <1>2, <3>1
    <3>3. \A u \in U : f[u] \in Int
      OBVIOUS
    <3> QED BY <2>2, <3>2, <3>3, LeastOfMore
  <2> QED BY <2>1, <2>2
<1>3. \A n \in Nat : n \in S
  <2> HIDE DEF S
  <2> QED BY <1>1, <1>2, SetInduction
<1>4. HasLeast(T)
  <2>1. MaxTime \in S /\ \A u \in T : u <= MaxTime
    BY <1>0, <1>3, EnvelopeAssumption
  <2> HIDE DEF HasLeast
  <2> QED BY <2>1
<1> QED BY <1>4

\* What capacity is for soft claims is an integer.
LEMMA SoftLimitType ==
  ASSUME NEW e \in Envelope, NEW t \in Time
  PROVE  SoftLimit(e, t) \in Int
<1>1. e.cap[t] \in Int /\ e.ratio \in Int /\ NoLimit \in Int
  BY EnvelopeAssumption DEF Envelope
<1>2. PICK product \in Int : product = e.cap[t] * e.ratio
  BY <1>1
<1>3. product \div Unity \in Int
  BY <1>2 DEF Unity
<1>4. SoftLimit(e, t) = IF e.ratio = Unity THEN e.cap[t]
                        ELSE IF product > NoLimit THEN NoLimit ELSE product \div Unity
  BY <1>2 DEF SoftLimit, EffCapacity
<1> QED BY <1>1, <1>3, <1>4

\* Slack is an integer.
LEMMA SlackType ==
  ASSUME NEW e \in Envelope, NEW strength, NEW t \in Time
  PROVE  Slack(e, strength, t) \in Int
<1>1. /\ e.cap[t] \in Int /\ e.hard[t] \in Int /\ e.soft[t] \in Int
      /\ e.held[t] \in Int
  BY DEF Envelope
<1>2. SoftLimit(e, t) \in Int
  BY SoftLimitType
<1> QED BY <1>1, <1>2 DEF Slack, HardSlack, SoftSlack

\* Headroom over a window that has an instant in it is an integer, the slack of
\* one of its instants and no more than that of any other.
LEMMA HeadroomBound ==
  ASSUME NEW e \in Envelope, NEW strength, NEW w, NEW t \in CellsOf(e, w)
  PROVE  /\ Headroom(e, strength, w) \in Int
         /\ Headroom(e, strength, w) <= Slack(e, strength, t)
         /\ \E u \in CellsOf(e, w) : Headroom(e, strength, w) = Slack(e, strength, u)
<1> DEFINE f == [u \in Time |-> Slack(e, strength, u)]
           slacks == {Slack(e, strength, u) : u \in CellsOf(e, w)}
           Least(s) == s \in slacks /\ \A other \in slacks : s <= other
<1>1. f \in [Time -> Int]
  BY SlackType
<1>2. CellsOf(e, w) \in SUBSET Time
  BY DEF CellsOf, Span
<1>3. PICK u \in CellsOf(e, w) : \A v \in CellsOf(e, w) : f[u] <= f[v]
  <2> HIDE DEF f
  <2> QED BY <1>1, <1>2, LeastInstant
<1>4. Least(Slack(e, strength, u))
  <2>1. \A v \in CellsOf(e, w) : Slack(e, strength, u) <= Slack(e, strength, v)
    BY <1>2, <1>3
  <2> QED BY <2>1
<1>5. Least(CHOOSE s : Least(s))
  BY <1>4
<1>6. Headroom(e, strength, w) = CHOOSE s : Least(s)
  BY DEF Headroom
<1>7. slacks \subseteq Int
  BY <1>2, SlackType
<1> QED BY <1>5, <1>6, <1>7

\* A quantity passes against the headroom of a window when every instant the
\* envelope covers there has that much slack, and only then.
LEMMA HeadroomMeets ==
  ASSUME NEW e \in Envelope, NEW strength, NEW w, NEW d \in Int, d <= NoLimit
  PROVE  Headroom(e, strength, w) >= d
           <=> \A t \in CellsOf(e, w) : Slack(e, strength, t) >= d
<1>1. NoLimit \in Int /\ \A t \in CellsOf(e, w) : Slack(e, strength, t) \in Int
  BY EnvelopeAssumption, SlackType DEF CellsOf, Span
<1>2. CASE CellsOf(e, w) = {}
  <2>1. Headroom(e, strength, w) = NoLimit
    BY <1>2 DEF Headroom
  <2> QED BY <1>1, <1>2, <2>1
<1>3. CASE CellsOf(e, w) # {}
  <2>1. PICK h : h = Headroom(e, strength, w)
    OBVIOUS
  <2>2. h \in Int /\ \A t \in CellsOf(e, w) : h <= Slack(e, strength, t)
    BY <1>3, <2>1, HeadroomBound
  <2>3. \E u \in CellsOf(e, w) : h = Slack(e, strength, u)
    BY <1>3, <2>1, HeadroomBound
  <2> QED BY <1>1, <2>1, <2>2, <2>3
<1> QED BY <1>2, <1>3

-----------------------------------------------------------------------------
\* Adding to the committed columns gives an envelope over the same instants
\* with the same capacity, changed at the cells of the window only.
LEMMA AddCommittedLaw ==
  ASSUME NEW e \in Envelope, NEW strength, NEW w, NEW d \in Int
  PROVE  LET x == AddCommitted(e, strength, w, d) IN
         /\ x \in Envelope
         /\ Span(x) = Span(e) /\ x.cap = e.cap /\ x.held = e.held
         /\ x.ratio = e.ratio
         /\ \A t \in Time :
              /\ x.hard[t] = IF strength = "Hard" /\ t \in CellsOf(e, w)
                             THEN e.hard[t] + d ELSE e.hard[t]
              /\ x.soft[t] = IF strength # "Hard" /\ t \in CellsOf(e, w)
                             THEN e.soft[t] + d ELSE e.soft[t]
<1> DEFINE x == AddCommitted(e, strength, w, d)
<1>1. \A f \in [Time -> Int] : Raise(f, CellsOf(e, w), d) \in [Time -> Int]
  BY DEF Raise
<1>2. CASE strength = "Hard"
  <2>1. x = [e EXCEPT !.hard = Raise(e.hard, CellsOf(e, w), d)]
    BY <1>2 DEF AddCommitted
  <2>2. x \in Envelope
    BY <1>1, <2>1 DEF Envelope
  <2>3. /\ x.cap = e.cap /\ x.held = e.held /\ x.soft = e.soft
        /\ x.ratio = e.ratio /\ x.from = e.from
        /\ x.hard = Raise(e.hard, CellsOf(e, w), d)
    BY <2>1 DEF Envelope
  <2>4. Span(x) = Span(e)
    BY <2>3 DEF Span
  <2> QED BY <1>2, <2>2, <2>3, <2>4 DEF Raise
<1>3. CASE strength # "Hard"
  <2>1. x = [e EXCEPT !.soft = Raise(e.soft, CellsOf(e, w), d)]
    BY <1>3 DEF AddCommitted
  <2>2. x \in Envelope
    BY <1>1, <2>1 DEF Envelope
  <2>3. /\ x.cap = e.cap /\ x.held = e.held /\ x.hard = e.hard
        /\ x.ratio = e.ratio /\ x.from = e.from
        /\ x.soft = Raise(e.soft, CellsOf(e, w), d)
    BY <2>1 DEF Envelope
  <2>4. Span(x) = Span(e)
    BY <2>3 DEF Span
  <2> QED BY <1>3, <2>2, <2>3, <2>4 DEF Raise
<1> QED BY <1>2, <1>3

\* The same for the held column.
LEMMA AddHeldLaw ==
  ASSUME NEW e \in Envelope, NEW w, NEW d \in Int
  PROVE  LET x == AddHeld(e, w, d) IN
         /\ x \in Envelope
         /\ Span(x) = Span(e) /\ x.cap = e.cap
         /\ x.hard = e.hard /\ x.soft = e.soft /\ x.ratio = e.ratio
         /\ \A t \in Time :
              x.held[t] = IF t \in CellsOf(e, w) THEN e.held[t] + d
                          ELSE e.held[t]
<1> DEFINE x == AddHeld(e, w, d)
<1>1. Raise(e.held, CellsOf(e, w), d) \in [Time -> Int]
  BY DEF Raise, Envelope
<1>2. x = [e EXCEPT !.held = Raise(e.held, CellsOf(e, w), d)]
  BY DEF AddHeld
<1>3. x \in Envelope
  BY <1>1, <1>2 DEF Envelope
<1>4. /\ x.cap = e.cap /\ x.hard = e.hard /\ x.soft = e.soft
      /\ x.ratio = e.ratio /\ x.from = e.from
      /\ x.held = Raise(e.held, CellsOf(e, w), d)
  BY <1>2 DEF Envelope
<1>5. Span(x) = Span(e)
  BY <1>4 DEF Span
<1> QED BY <1>3, <1>4, <1>5 DEF Raise

\* A new envelope.
LEMMA NewEnvelopeLaw ==
  ASSUME NEW from \in Time, NEW ratio \in Nat, NEW capacity \in Int,
         NEW unavailable
  PROVE  LET x == NewEnvelope(from, ratio, capacity, unavailable) IN
         /\ x \in Envelope
         /\ \A t \in Time : x.hard[t] = 0 /\ x.soft[t] = 0 /\ x.held[t] = 0
         /\ capacity >= 0 => \A t \in Time : x.cap[t] >= 0
BY DEF NewEnvelope, Envelope

=============================================================================
