------------------------- MODULE IntervalTreapProofs -------------------------
(***************************************************************************)
(* The treap keeps its shape and answers as the columns would, for every   *)
(* horizon, window, quantity and priority.                                 *)
(*                                                                         *)
(* First the functions on treaps are shown to satisfy their equations:     *)
(* TreapsTo by induction on the height, the functions on a treap by        *)
(* induction on its height, merge by that of its two arguments.            *)
(*                                                                         *)
(* TreapShape is not inductive: split and merge are right only if the sums *)
(* of the parts are, and what a treap says of an instant depends on what   *)
(* waits above it.  Sound(n, lo, hi, p, K) says all of this of a subtree   *)
(* at once: its cells are a partition of [lo, hi), in heap order below     *)
(* priority p, and its sums are those of what it says of these instants,   *)
(* except on the paths to the keys K.  There a cut leaves two cells whose  *)
(* sums nobody computed; the split at the same key that follows computes   *)
(* them again, and returns parts with no key left.  TreapInv is Sound of   *)
(* the root without keys.  Each step also says what becomes of the values  *)
(* at every instant (Same, SaysUnder), and from that the columns follow.   *)
(***************************************************************************)
EXTENDS IntervalTreap, CapacityEnvelopeProofs

-----------------------------------------------------------------------------
(* Treaps.                                                                 *)

\* The treaps that are one level higher than those of Below.
OneHigher(Below) == {None} \cup Nodes(Below)

\* p lists the treaps by the length of their paths, up to m.
Heights(p, m) ==
  p = [k \in 0..m |-> IF k = 0 THEN {None} ELSE OneHigher(p[k - 1])]

\* There is such a list.
LEMMA HeightsExist == \E p : Heights(p, Horizon)
<1> DEFINE S == {m \in Nat : \E p : Heights(p, m)}
<1>1. 0 \in S
  <2> DEFINE p == [k \in 0..0 |-> {None}]
  <2>1. Heights(p, 0)
    BY DEF Heights
  <2> QED BY <2>1
<1>2. ASSUME NEW m \in Nat, m \in S PROVE m + 1 \in S
  <2>1. PICK p : Heights(p, m)
    BY <1>2
  <2> DEFINE q == [k \in 0..(m + 1) |->
                     IF k = m + 1 THEN OneHigher(p[m]) ELSE p[k]]
  <2>2. \A k \in 0..m : p[k] = IF k = 0 THEN {None} ELSE OneHigher(p[k - 1])
    BY <2>1 DEF Heights
  <2>3. /\ m + 1 \in 0..(m + 1) /\ m \in 0..(m + 1) /\ m # m + 1
        /\ \A k \in 0..m : k \in 0..(m + 1) /\ k # m + 1
        /\ \A k \in 0..(m + 1) : k = m + 1 \/ k \in 0..m
        /\ \A k \in 0..m : k = 0 \/ k - 1 \in 0..m
        /\ (m + 1) - 1 = m /\ m + 1 # 0
    OBVIOUS
  <2>4. q[m + 1] = OneHigher(q[m]) /\ q[0] = {None}
    BY <2>2, <2>3
  <2>5. \A k \in 0..m : q[k] = IF k = 0 THEN {None} ELSE OneHigher(q[k - 1])
    BY <2>2, <2>3
  <2>6. \A k \in 0..(m + 1) :
          q[k] = IF k = 0 THEN {None} ELSE OneHigher(q[k - 1])
    BY <2>3, <2>4, <2>5
  <2>7. q = [k \in 0..(m + 1) |-> q[k]]
    OBVIOUS
  <2> HIDE DEF q
  <2>8. Heights(q, m + 1)
    BY <2>6, <2>7 DEF Heights
  <2> QED BY <2>8
<1>3. \A m \in Nat : m \in S
  <2> HIDE DEF S
  <2> QED BY <1>1, <1>2, SetInduction
<1> QED BY <1>3, EnvelopeAssumption

\* TreapsTo solves its equation.
LEMMA TreapsByHeight ==
  /\ TreapsTo[0] = {None}
  /\ \A k \in 1..Horizon : TreapsTo[k] = {None} \cup Nodes(TreapsTo[k - 1])
<1>1. Heights(TreapsTo, Horizon)
  BY HeightsExist DEF Heights, TreapsTo, OneHigher
<1>2. \A k \in 0..Horizon :
        TreapsTo[k] = IF k = 0 THEN {None} ELSE OneHigher(TreapsTo[k - 1])
  BY <1>1 DEF Heights
<1>3. 0 \in 0..Horizon /\ \A k \in 1..Horizon : k \in 0..Horizon /\ k # 0
  BY EnvelopeAssumption
<1> QED BY <1>2, <1>3 DEF OneHigher

\* A node over fewer treaps is a node over more.
LEMMA NodesGrow ==
  ASSUME NEW A, NEW B, A \subseteq B
  PROVE  Nodes(A) \subseteq Nodes(B)
BY DEF Nodes

\* A higher bound admits more treaps.
LEMMA TreapsGrow ==
  ASSUME NEW i \in 0..Horizon, NEW j \in 0..Horizon, i <= j
  PROVE  TreapsTo[i] \subseteq TreapsTo[j]
<1> DEFINE S == {k \in Nat : k + 1 <= Horizon => TreapsTo[k] \subseteq TreapsTo[k + 1]}
<1>0. Horizon \in Nat /\ Horizon >= 1
  BY EnvelopeAssumption
<1>1. 0 \in S
  <2>1. 0 + 1 \in 1..Horizon
    BY <1>0
  <2> QED BY <2>1, TreapsByHeight
<1>2. ASSUME NEW k \in Nat, k \in S PROVE k + 1 \in S
  <2> SUFFICES ASSUME (k + 1) + 1 <= Horizon
               PROVE  TreapsTo[k + 1] \subseteq TreapsTo[(k + 1) + 1]
    OBVIOUS
  <2>1. /\ k + 1 \in 1..Horizon /\ (k + 1) + 1 \in 1..Horizon
        /\ (k + 1) - 1 = k /\ ((k + 1) + 1) - 1 = k + 1 /\ k + 1 <= Horizon
    BY <1>0
  <2>2. TreapsTo[k] \subseteq TreapsTo[k + 1]
    BY <1>2, <2>1
  <2>3. Nodes(TreapsTo[k]) \subseteq Nodes(TreapsTo[k + 1])
    BY <2>2, NodesGrow
  <2> QED BY <2>1, <2>3, TreapsByHeight
<1>3. \A k \in Nat : k \in S
  <2> HIDE DEF S
  <2> QED BY <1>1, <1>2, SetInduction
<1> DEFINE T == {d \in Nat : i + d <= Horizon => TreapsTo[i] \subseteq TreapsTo[i + d]}
<1>4. 0 \in T
  OBVIOUS
<1>5. ASSUME NEW d \in Nat, d \in T PROVE d + 1 \in T
  <2> SUFFICES ASSUME i + (d + 1) <= Horizon
               PROVE  TreapsTo[i] \subseteq TreapsTo[i + (d + 1)]
    OBVIOUS
  <2>1. i + d \in Nat /\ (i + d) + 1 <= Horizon /\ i + (d + 1) = (i + d) + 1
    BY <1>0
  <2>2. TreapsTo[i + d] \subseteq TreapsTo[(i + d) + 1]
    BY <1>3, <2>1
  <2>3. TreapsTo[i] \subseteq TreapsTo[i + d]
    BY <1>5, <1>0
  <2> QED BY <2>1, <2>2, <2>3
<1>6. \A d \in Nat : d \in T
  <2> HIDE DEF T
  <2> QED BY <1>4, <1>5, SetInduction
<1>7. j - i \in Nat /\ i + (j - i) = j
  OBVIOUS
<1> QED BY <1>6, <1>7

\* A treap that is not None is a node over treaps of smaller height.
LEMMA NodeBelow ==
  ASSUME NEW k \in 0..Horizon, NEW n \in TreapsTo[k], n # None
  PROVE  k \in 1..Horizon /\ n \in Nodes(TreapsTo[k - 1])
<1>1. k # 0
  BY TreapsByHeight
<1> QED BY <1>1, TreapsByHeight

\* And a node is a treap, which None is not.
LEMMA NodeIsTreap ==
  ASSUME NEW k \in 1..Horizon, NEW n \in Nodes(TreapsTo[k - 1])
  PROVE  n \in TreapsTo[k] /\ n # None
BY TreapsByHeight, TreapAssumption

LEMMA NoneIsTreap ==
  ASSUME NEW k \in 0..Horizon
  PROVE  None \in TreapsTo[k]
BY TreapsByHeight

-----------------------------------------------------------------------------
(* Nodes.                                                                  *)

\* What a node holds.
LEMMA NodeFields ==
  ASSUME NEW B, NEW n \in Nodes(B)
  PROVE  /\ n.start \in Int /\ n.end \in Int /\ n.prio \in Nat /\ n.capacity \in Int
         /\ n.own \in [Columns -> Int] /\ n.add \in [Columns -> Int]
         /\ n.min \in [Strengths -> Int] /\ n.peak \in [Strengths -> Int]
         /\ n.setCap \in Int \cup {None} /\ n.left \in B /\ n.right \in B
BY DEF Nodes

\* Weights and limits are integers.
LEMMA WeightType ==
  ASSUME NEW d \in [Columns -> Int], NEW s
  PROVE  Weight(d, s) \in Int
BY DEF Weight, Columns

LEMMA LimitType ==
  ASSUME NEW s, NEW v \in Int
  PROVE  Limit(s, v) \in Int
<1>1. Ratio \in Nat /\ NoLimit \in Nat
  BY TreapAssumption, EnvelopeAssumption
<1>2. v * Ratio \in Int
  BY <1>1
<1>3. (v * Ratio) \div Unity \in Int
  BY <1>2 DEF Unity
<1> QED BY <1>1, <1>3 DEF Limit, EffCapacity

LEMMA NothingType == Nothing \in [Columns -> Int]
BY DEF Nothing

\* Quantities are added column by column.
LEMMA PlusLaws ==
  ASSUME NEW f \in [Columns -> Int], NEW g \in [Columns -> Int]
  PROVE  /\ Plus(f, g) \in [Columns -> Int] /\ Plus(f, Nothing) = f
         /\ \A h \in [Columns -> Int] : Plus(Plus(f, g), h) = Plus(f, Plus(g, h))
         /\ \A s : Weight(Plus(f, g), s) = Weight(f, s) + Weight(g, s)
<1>1. Plus(f, g) \in [Columns -> Int] /\ Plus(f, Nothing) = f
  BY DEF Plus, Nothing
<1>2. ASSUME NEW h \in [Columns -> Int]
      PROVE  Plus(Plus(f, g), h) = Plus(f, Plus(g, h))
  BY DEF Plus
<1>3. \A s : Weight(Plus(f, g), s) = Weight(f, s) + Weight(g, s)
  BY DEF Plus, Weight, Columns
<1> QED BY <1>1, <1>2, <1>3

\* Adding to a node changes its values, sums and what is pending.
LEMMA ApplyAddFields ==
  ASSUME NEW B, NEW n \in Nodes(B), n # None, NEW d \in [Columns -> Int]
  PROVE  /\ ApplyAdd(n, d) \in Nodes(B)
         /\ ApplyAdd(n, d).start = n.start /\ ApplyAdd(n, d).end = n.end
         /\ ApplyAdd(n, d).prio = n.prio /\ ApplyAdd(n, d).capacity = n.capacity
         /\ ApplyAdd(n, d).setCap = n.setCap
         /\ ApplyAdd(n, d).left = n.left /\ ApplyAdd(n, d).right = n.right
         /\ ApplyAdd(n, d).own  = Plus(n.own, d)
         /\ ApplyAdd(n, d).add  = Plus(n.add, d)
         /\ \A s \in Strengths :
              /\ ApplyAdd(n, d).min[s] = n.min[s] - Weight(d, s)
              /\ ApplyAdd(n, d).peak[s] = n.peak[s] + Weight(d, s)
<1> DEFINE own  == Plus(n.own, d)
           add  == Plus(n.add, d)
           min  == [s \in Strengths |-> n.min[s] - Weight(d, s)]
           peak == [s \in Strengths |-> n.peak[s] + Weight(d, s)]
<1>1. /\ own \in [Columns -> Int] /\ add \in [Columns -> Int]
      /\ min \in [Strengths -> Int] /\ peak \in [Strengths -> Int]
  <2>1. \A s \in Strengths : Weight(d, s) \in Int
    BY WeightType
  <2> QED BY <2>1, NodeFields, PlusLaws
<1>2. ApplyAdd(n, d) =
        [n EXCEPT !.own = own, !.add = add, !.min = min, !.peak = peak]
  BY DEF ApplyAdd
<1> HIDE DEF own, add, min, peak
<1>3. /\ ApplyAdd(n, d) \in Nodes(B)
      /\ ApplyAdd(n, d).start = n.start /\ ApplyAdd(n, d).end = n.end
      /\ ApplyAdd(n, d).prio = n.prio /\ ApplyAdd(n, d).capacity = n.capacity
      /\ ApplyAdd(n, d).setCap = n.setCap
      /\ ApplyAdd(n, d).left = n.left /\ ApplyAdd(n, d).right = n.right
      /\ ApplyAdd(n, d).own = own /\ ApplyAdd(n, d).add = add
      /\ ApplyAdd(n, d).min = min /\ ApplyAdd(n, d).peak = peak
  BY <1>1, <1>2 DEF Nodes
<1> QED BY <1>3 DEF own, add, min, peak

\* Setting the capacity: the load it leaves alone tells the new least slack.
LEMMA ApplySetCapFields ==
  ASSUME NEW B, NEW n \in Nodes(B), n # None, NEW v \in Int
  PROVE  /\ ApplySetCap(n, v) \in Nodes(B)
         /\ ApplySetCap(n, v).start = n.start /\ ApplySetCap(n, v).end = n.end
         /\ ApplySetCap(n, v).prio = n.prio /\ ApplySetCap(n, v).own = n.own
         /\ ApplySetCap(n, v).add = n.add /\ ApplySetCap(n, v).peak = n.peak
         /\ ApplySetCap(n, v).left = n.left /\ ApplySetCap(n, v).right = n.right
         /\ ApplySetCap(n, v).capacity = v /\ ApplySetCap(n, v).setCap = v
         /\ \A s \in Strengths : ApplySetCap(n, v).min[s] = Limit(s, v) - n.peak[s]
<1> DEFINE min == [s \in Strengths |-> Limit(s, v) - n.peak[s]]
<1>1. min \in [Strengths -> Int]
  <2>1. \A s \in Strengths : Limit(s, v) \in Int
    BY LimitType
  <2> QED BY <2>1, NodeFields
<1>2. ApplySetCap(n, v) = [n EXCEPT !.capacity = v, !.setCap = v, !.min = min]
  BY DEF ApplySetCap
<1> HIDE DEF min
<1>3. /\ ApplySetCap(n, v) \in Nodes(B)
      /\ ApplySetCap(n, v).start = n.start /\ ApplySetCap(n, v).end = n.end
      /\ ApplySetCap(n, v).prio = n.prio /\ ApplySetCap(n, v).own = n.own
      /\ ApplySetCap(n, v).add = n.add /\ ApplySetCap(n, v).peak = n.peak
      /\ ApplySetCap(n, v).left = n.left /\ ApplySetCap(n, v).right = n.right
      /\ ApplySetCap(n, v).capacity = v /\ ApplySetCap(n, v).setCap = v
      /\ ApplySetCap(n, v).min = min
  BY <1>1, <1>2 DEF Nodes
<1> QED BY <1>3 DEF min

\* What waits at a node.
Waits(n) == n.setCap \in Int \cup {None} /\ n.add \in [Columns -> Int]

\* A child keeps its place and its children, and takes over what waits.
LEMMA InheritFields ==
  ASSUME NEW k \in 0..Horizon, NEW c \in TreapsTo[k], c # None,
         NEW n, Waits(n)
  PROVE  /\ Inherit(c, n) \in TreapsTo[k] /\ Inherit(c, n) # None
         /\ Inherit(c, n).start = c.start /\ Inherit(c, n).end = c.end
         /\ Inherit(c, n).prio = c.prio
         /\ Inherit(c, n).left = c.left /\ Inherit(c, n).right = c.right
         /\ Inherit(c, n).capacity = IF n.setCap = None THEN c.capacity ELSE n.setCap
         /\ Inherit(c, n).setCap = IF n.setCap = None THEN c.setCap ELSE n.setCap
         /\ Inherit(c, n).own = Plus(c.own, n.add)
         /\ Inherit(c, n).add = Plus(c.add, n.add)
         /\ \A s \in Strengths :
              /\ Inherit(c, n).peak[s] = c.peak[s] + Weight(n.add, s)
              /\ Inherit(c, n).min[s] =
                   (IF n.setCap = None THEN c.min[s]
                    ELSE Limit(s, n.setCap) - c.peak[s]) - Weight(n.add, s)
<1>1. /\ k \in 1..Horizon /\ c \in Nodes(TreapsTo[k - 1])
      /\ \A m \in Nodes(TreapsTo[k - 1]) : m \in TreapsTo[k] /\ m # None
  <2>1. k \in 1..Horizon /\ c \in Nodes(TreapsTo[k - 1])
    BY NodeBelow
  <2>2. \A m \in Nodes(TreapsTo[k - 1]) : m \in TreapsTo[k] /\ m # None
    BY <2>1, NodeIsTreap
  <2> QED BY <2>1, <2>2
<1>2. PICK m : m = IF n.setCap = None THEN c ELSE ApplySetCap(c, n.setCap)
  OBVIOUS
<1>3. /\ m \in Nodes(TreapsTo[k - 1]) /\ m # None
      /\ m.start = c.start /\ m.end = c.end /\ m.prio = c.prio /\ m.own = c.own
      /\ m.add = c.add /\ m.peak = c.peak /\ m.left = c.left /\ m.right = c.right
      /\ m.capacity = IF n.setCap = None THEN c.capacity ELSE n.setCap
      /\ m.setCap = IF n.setCap = None THEN c.setCap ELSE n.setCap
      /\ \A s \in Strengths : m.min[s] = IF n.setCap = None THEN c.min[s]
                                        ELSE Limit(s, n.setCap) - c.peak[s]
  <2>1. CASE n.setCap = None
    BY <1>1, <1>2, <2>1
  <2>2. CASE n.setCap # None
    <3>1. n.setCap \in Int /\ m = ApplySetCap(c, n.setCap)
      BY <1>2, <2>2 DEF Waits
    <3> QED BY <1>1, <2>2, <3>1, ApplySetCapFields
  <2> QED BY <2>1, <2>2
<1>4. Inherit(c, n) = ApplyAdd(m, n.add)
  BY <1>2 DEF Inherit
<1>5. /\ Inherit(c, n) \in Nodes(TreapsTo[k - 1])
      /\ Inherit(c, n).start = m.start /\ Inherit(c, n).end = m.end
      /\ Inherit(c, n).prio = m.prio /\ Inherit(c, n).capacity = m.capacity
      /\ Inherit(c, n).setCap = m.setCap
      /\ Inherit(c, n).left = m.left /\ Inherit(c, n).right = m.right
      /\ Inherit(c, n).own = Plus(m.own, n.add)
      /\ Inherit(c, n).add = Plus(m.add, n.add)
      /\ \A s \in Strengths :
           /\ Inherit(c, n).min[s] = m.min[s] - Weight(n.add, s)
           /\ Inherit(c, n).peak[s] = m.peak[s] + Weight(n.add, s)
  BY <1>3, <1>4, ApplyAddFields DEF Waits
<1> QED BY <1>1, <1>3, <1>5

LEMMA InheritNone == \A n : Inherit(None, n) = None
BY DEF Inherit, ApplyAdd, ApplySetCap

LEMMA InheritType ==
  ASSUME NEW k \in 0..Horizon, NEW c \in TreapsTo[k], NEW n, Waits(n)
  PROVE  Inherit(c, n) \in TreapsTo[k]
<1>1. CASE c = None
  BY <1>1, InheritNone
<1>2. CASE c # None
  BY <1>2, InheritFields
<1> QED BY <1>1, <1>2

\* A node that was pushed is the same node with nothing waiting.
LEMMA PushFields ==
  ASSUME NEW k \in 0..Horizon, NEW n \in Nodes(TreapsTo[k])
  PROVE  /\ Waits(n) /\ Push(n) \in Nodes(TreapsTo[k])
         /\ Push(n).start = n.start /\ Push(n).end = n.end /\ Push(n).prio = n.prio
         /\ Push(n).capacity = n.capacity /\ Push(n).own = n.own
         /\ Push(n).min = n.min /\ Push(n).peak = n.peak
         /\ Push(n).add = Nothing /\ Push(n).setCap = None
         /\ Push(n).left = Inherit(n.left, n) /\ Push(n).right = Inherit(n.right, n)
<1>1. PICK l, r : l = Inherit(n.left, n) /\ r = Inherit(n.right, n)
  OBVIOUS
<1>2. Waits(n) /\ l \in TreapsTo[k] /\ r \in TreapsTo[k]
  BY <1>1, NodeFields, InheritType DEF Waits
<1>3. Push(n) = [n EXCEPT !.left = l, !.right = r, !.add = Nothing, !.setCap = None]
  BY <1>1 DEF Push
<1>4. Push(n) \in Nodes(TreapsTo[k])
  BY <1>2, <1>3, NothingType DEF Nodes
<1>5. /\ Push(n).start = n.start /\ Push(n).end = n.end /\ Push(n).prio = n.prio
      /\ Push(n).capacity = n.capacity /\ Push(n).own = n.own
      /\ Push(n).min = n.min /\ Push(n).peak = n.peak
      /\ Push(n).add = Nothing /\ Push(n).setCap = None
      /\ Push(n).left = l /\ Push(n).right = r
  BY <1>3 DEF Nodes
<1> QED BY <1>1, <1>2, <1>4, <1>5

\* n with its children replaced and its sums computed from them.
Rebuilt(n, l, r) == Pull([n EXCEPT !.left = l, !.right = r])

\* The least slack and the highest load of a node over its children.
LeastOf(n, l, r, s) ==
  LeastWith(r, s, LeastWith(l, s, Limit(s, n.capacity) - Weight(n.own, s)))
PeakOf(n, l, r, s) == PeakWith(r, s, PeakWith(l, s, Weight(n.own, s)))

\* A sum with a child is an integer: it bounds both, and is one of them.
LEMMA WithChild ==
  ASSUME NEW k \in 0..Horizon, NEW c \in TreapsTo[k], NEW s \in Strengths,
         NEW x \in Int
  PROVE  /\ LeastWith(c, s, x) \in Int /\ LeastWith(c, s, x) <= x
         /\ c # None => c.min[s] \in Int /\ LeastWith(c, s, x) <= c.min[s]
         /\ LeastWith(c, s, x) = x \/ (c # None /\ LeastWith(c, s, x) = c.min[s])
         /\ PeakWith(c, s, x) \in Int /\ x <= PeakWith(c, s, x)
         /\ c # None => c.peak[s] \in Int /\ c.peak[s] <= PeakWith(c, s, x)
         /\ PeakWith(c, s, x) = x \/ (c # None /\ PeakWith(c, s, x) = c.peak[s])
<1>1. CASE c = None
  BY <1>1 DEF LeastWith, PeakWith
<1>2. CASE c # None
  <2>1. c.min[s] \in Int /\ c.peak[s] \in Int
    BY <1>2, NodeBelow, NodeFields
  <2> QED BY <1>2, <2>1 DEF LeastWith, PeakWith, Lower, Higher
<1> QED BY <1>1, <1>2

LEMMA SumsType ==
  ASSUME NEW k \in 0..Horizon, NEW B, NEW n \in Nodes(B),
         NEW l \in TreapsTo[k], NEW r \in TreapsTo[k], NEW s \in Strengths
  PROVE  /\ Limit(s, n.capacity) - Weight(n.own, s) \in Int
         /\ Weight(n.own, s) \in Int
         /\ LeastOf(n, l, r, s) \in Int /\ PeakOf(n, l, r, s) \in Int
<1>1. Limit(s, n.capacity) \in Int /\ Weight(n.own, s) \in Int
  BY NodeFields, LimitType, WeightType
<1>2. PICK x, y : x = Limit(s, n.capacity) - Weight(n.own, s) /\ y = Weight(n.own, s)
  OBVIOUS
<1>3. x \in Int /\ y \in Int
  BY <1>1, <1>2
<1>4. LeastWith(l, s, x) \in Int /\ PeakWith(l, s, y) \in Int
  BY <1>3, WithChild
<1>5. LeastWith(r, s, LeastWith(l, s, x)) \in Int /\ PeakWith(r, s, PeakWith(l, s, y)) \in Int
  BY <1>4, WithChild
<1> QED BY <1>2, <1>3, <1>5 DEF LeastOf, PeakOf

LEMMA RebuiltFields ==
  ASSUME NEW B, NEW n \in Nodes(B), NEW k \in 0..Horizon,
         NEW l \in TreapsTo[k], NEW r \in TreapsTo[k]
  PROVE  /\ Rebuilt(n, l, r) \in Nodes(TreapsTo[k])
         /\ Rebuilt(n, l, r).start = n.start /\ Rebuilt(n, l, r).end = n.end
         /\ Rebuilt(n, l, r).prio = n.prio
         /\ Rebuilt(n, l, r).capacity = n.capacity /\ Rebuilt(n, l, r).own = n.own
         /\ Rebuilt(n, l, r).add = n.add /\ Rebuilt(n, l, r).setCap = n.setCap
         /\ Rebuilt(n, l, r).left = l /\ Rebuilt(n, l, r).right = r
         /\ \A s \in Strengths : /\ Rebuilt(n, l, r).min[s] = LeastOf(n, l, r, s)
                                 /\ Rebuilt(n, l, r).peak[s] = PeakOf(n, l, r, s)
<1>1. PICK m : m = [n EXCEPT !.left = l, !.right = r]
  OBVIOUS
<1>2. /\ m.start = n.start /\ m.end = n.end /\ m.prio = n.prio
      /\ m.capacity = n.capacity /\ m.own = n.own
      /\ m.add = n.add /\ m.setCap = n.setCap
      /\ m.left = l /\ m.right = r /\ m \in Nodes(TreapsTo[k])
  BY <1>1 DEF Nodes
<1> DEFINE least == [s \in Strengths |-> LeastOf(n, l, r, s)]
           peak == [s \in Strengths |-> PeakOf(n, l, r, s)]
<1>3. least \in [Strengths -> Int] /\ peak \in [Strengths -> Int]
  BY SumsType
<1>4. Rebuilt(n, l, r) = [m EXCEPT !.min = least, !.peak = peak]
  BY <1>1, <1>2 DEF Rebuilt, Pull, LeastOf, PeakOf
<1> HIDE DEF least, peak
<1>5. /\ Rebuilt(n, l, r) \in Nodes(TreapsTo[k])
      /\ Rebuilt(n, l, r).start = m.start /\ Rebuilt(n, l, r).end = m.end
      /\ Rebuilt(n, l, r).prio = m.prio
      /\ Rebuilt(n, l, r).capacity = m.capacity /\ Rebuilt(n, l, r).own = m.own
      /\ Rebuilt(n, l, r).add = m.add /\ Rebuilt(n, l, r).setCap = m.setCap
      /\ Rebuilt(n, l, r).left = m.left /\ Rebuilt(n, l, r).right = m.right
      /\ Rebuilt(n, l, r).min = least /\ Rebuilt(n, l, r).peak = peak
  BY <1>2, <1>3, <1>4 DEF Nodes
<1> QED BY <1>2, <1>5 DEF least, peak

\* One child replaced.
LEMMA WithIsRebuilt ==
  ASSUME NEW B, NEW n \in Nodes(B), NEW c
  PROVE  /\ WithLeft(n, c) = Rebuilt(n, c, n.right)
         /\ WithRight(n, c) = Rebuilt(n, n.left, c)
<1>1. /\ [n EXCEPT !.left = c] = [n EXCEPT !.left = c, !.right = n.right]
      /\ [n EXCEPT !.right = c] = [n EXCEPT !.left = n.left, !.right = c]
  BY DEF Nodes
<1> QED BY <1>1 DEF WithLeft, WithRight, Rebuilt

-----------------------------------------------------------------------------
(* What a treap says of an instant.                                        *)

\* What the recursions say of n, given what f says of the treaps below it.
ValuesStep(f, n, t) ==
  IF n = None THEN [capacity |-> 0, own |-> Nothing]
  ELSE IF Covers(n, t) THEN [capacity |-> n.capacity, own |-> n.own]
  ELSE Under(n, f[IF t < n.start THEN n.left ELSE n.right])

SplitStep(f, m, key) ==
  IF m = None THEN [low |-> None, high |-> None]
  ELSE LET n == Push(m) IN
       IF n.start < key THEN KeepLow(n, f[n.right]) ELSE KeepHigh(n, f[n.left])

DetachStep(f, m) ==
  IF m = None THEN None
  ELSE LET n == Push(m) IN
       IF n.right = None THEN n.left ELSE WithRight(n, f[n.right])

LastStep(f, n) == IF n = None THEN None ELSE IF n.right = None THEN n ELSE f[n.right]

Step(what, f, n, x) ==
  IF what = "values" THEN ValuesStep(f, n, x)
  ELSE IF what = "split" THEN SplitStep(f, n, x)
  ELSE IF what = "detach" THEN DetachStep(f, n)
  ELSE LastStep(f, n)

\* A step looks no higher than the children.
LEMMA StepLooksBelow ==
  ASSUME NEW k \in 1..Horizon, NEW n \in TreapsTo[k], NEW what, NEW x,
         NEW f, NEW g, \A m \in TreapsTo[k - 1] : f[m] = g[m]
  PROVE  Step(what, f, n, x) = Step(what, g, n, x)
<1>1. CASE n = None
  BY <1>1 DEF Step, ValuesStep, SplitStep, DetachStep, LastStep
<1>2. CASE n # None
  <2>1. k \in 0..Horizon /\ k - 1 \in 0..Horizon
    BY EnvelopeAssumption
  <2>2. n \in Nodes(TreapsTo[k - 1])
    BY <1>2, <2>1, NodeBelow
  <2>3. PICK l, r : l = Push(n).left /\ r = Push(n).right
    OBVIOUS
  <2>4. /\ n.left \in TreapsTo[k - 1] /\ n.right \in TreapsTo[k - 1]
        /\ l \in TreapsTo[k - 1] /\ r \in TreapsTo[k - 1]
    BY <2>1, <2>2, <2>3, PushFields, NodeFields
  <2>5. /\ f[n.left] = g[n.left] /\ f[n.right] = g[n.right]
        /\ f[l] = g[l] /\ f[r] = g[r]
    BY <2>4
  <2> QED BY <2>3, <2>5 DEF Step, ValuesStep, SplitStep, DetachStep, LastStep
<1> QED BY <1>1, <1>2

\* So the functions the model defines by recursion are there.
LEMMA RecursionsExist ==
  ASSUME NEW what, NEW x
  PROVE  \E f : f = [n \in Treaps |-> Step(what, f, n, x)]
<1> DEFINE S == {k \in Nat : k <= Horizon =>
                   \E f : f = [n \in TreapsTo[k] |-> Step(what, f, n, x)]}
<1>0. Horizon \in Nat
  BY EnvelopeAssumption
<1>1. 0 \in S
  <2> DEFINE g == [n \in TreapsTo[0] |-> Step(what, <<>>, None, x)]
  <2>1. Step(what, g, None, x) = Step(what, <<>>, None, x)
    BY DEF Step, ValuesStep, SplitStep, DetachStep, LastStep
  <2>2. \A n \in TreapsTo[0] : n = None
    BY TreapsByHeight
  <2>3. g = [n \in TreapsTo[0] |-> Step(what, g, n, x)]
    BY <2>1, <2>2
  <2> QED BY <2>3
<1>2. ASSUME NEW k \in Nat, k \in S PROVE k + 1 \in S
  <2> SUFFICES ASSUME k + 1 <= Horizon
               PROVE  \E f : f = [n \in TreapsTo[k + 1] |-> Step(what, f, n, x)]
    OBVIOUS
  <2>1. PICK f : f = [n \in TreapsTo[k] |-> Step(what, f, n, x)]
    BY <1>0, <1>2
  <2>2. k \in 0..Horizon /\ k + 1 \in 1..Horizon /\ k + 1 \in 0..Horizon
        /\ (k + 1) - 1 = k /\ k <= k + 1
    BY <1>0
  <2>3. TreapsTo[k] \subseteq TreapsTo[k + 1]
    BY <2>2, TreapsGrow
  <2> DEFINE g == [n \in TreapsTo[k + 1] |-> Step(what, f, n, x)]
  <2>4. \A n \in TreapsTo[k] : g[n] = f[n]
    <3>1. \A n \in TreapsTo[k] : f[n] = Step(what, f, n, x)
      BY <2>1
    <3> QED BY <2>3, <3>1
  <2> HIDE DEF g
  <2>5. \A n \in TreapsTo[k + 1] : Step(what, f, n, x) = Step(what, g, n, x)
    BY <2>2, <2>4, StepLooksBelow
  <2>6. g = [n \in TreapsTo[k + 1] |-> Step(what, g, n, x)]
    BY <2>5 DEF g
  <2> QED BY <2>6
<1>3. Horizon \in S
  <2> HIDE DEF S
  <2> QED BY <1>0, <1>1, <1>2, SetInduction
<1> QED BY <1>0, <1>3 DEF Treaps

LEMMA ValuesLaw ==
  ASSUME NEW n \in Treaps, NEW t
  PROVE  /\ n = None => ValuesAt(n, t) = [capacity |-> 0, own |-> Nothing]
         /\ n # None /\ Covers(n, t) =>
              ValuesAt(n, t) = [capacity |-> n.capacity, own |-> n.own]
         /\ n # None /\ ~Covers(n, t) /\ t < n.start =>
              ValuesAt(n, t) = Under(n, ValuesAt(n.left, t))
         /\ n # None /\ ~Covers(n, t) /\ ~(t < n.start) =>
              ValuesAt(n, t) = Under(n, ValuesAt(n.right, t))
<1> DEFINE f == CHOOSE g : g = [m \in Treaps |-> ValuesStep(g, m, t)]
<1>1. f = [m \in Treaps |-> ValuesStep(f, m, t)]
  <2>1. \A g, m : Step("values", g, m, t) = ValuesStep(g, m, t)
    BY DEF Step
  <2>2. PICK g : g = [m \in Treaps |-> Step("values", g, m, t)]
    BY RecursionsExist
  <2>3. g = [m \in Treaps |-> ValuesStep(g, m, t)]
    BY <2>1, <2>2
  <2> QED BY <2>3
<1>2. \A m : ValuesAt(m, t) = f[m]
  BY DEF ValuesAt, ValuesStep
<1> HIDE DEF f
<1>3. ValuesAt(n, t) = ValuesStep(f, n, t)
  BY <1>1, <1>2
<1> QED BY <1>2, <1>3 DEF ValuesStep

Value == [capacity : Int, own : [Columns -> Int]]

LEMMA UnderType ==
  ASSUME NEW n, Waits(n), NEW v \in Value
  PROVE  Under(n, v) \in Value
<1>1. v.capacity \in Int /\ v.own \in [Columns -> Int]
  BY DEF Value
<1>2. Plus(v.own, n.add) \in [Columns -> Int]
  BY <1>1, PlusLaws DEF Waits
<1>3. (IF n.setCap = None THEN v.capacity ELSE n.setCap) \in Int
  BY <1>1 DEF Waits
<1> QED BY <1>2, <1>3 DEF Under, Value

LEMMA ValuesType ==
  ASSUME NEW n \in Treaps, NEW t
  PROVE  ValuesAt(n, t) \in Value
<1> DEFINE S == {k \in Nat : k <= Horizon =>
                   \A m \in TreapsTo[k] : ValuesAt(m, t) \in Value}
<1>0. Horizon \in Nat
  BY EnvelopeAssumption
<1>1. 0 \in S
  <2>1. \A m \in TreapsTo[0] : m = None /\ m \in Treaps
    BY <1>0, TreapsByHeight, NoneIsTreap DEF Treaps
  <2>2. \A m \in TreapsTo[0] : ValuesAt(m, t) = [capacity |-> 0, own |-> Nothing]
    BY <2>1, ValuesLaw
  <2> QED BY <2>2, NothingType DEF Value
<1>2. ASSUME NEW k \in Nat, k \in S PROVE k + 1 \in S
  <2> SUFFICES ASSUME k + 1 <= Horizon, NEW m \in TreapsTo[k + 1], m # None
               PROVE  ValuesAt(m, t) \in Value
    <3>1. None \in Treaps
      BY <1>0, NoneIsTreap DEF Treaps
    <3>2. ValuesAt(None, t) \in Value
      BY <3>1, ValuesLaw, NothingType DEF Value
    <3> QED BY <3>2
  <2>1. k + 1 \in 0..Horizon /\ k \in 0..Horizon /\ Horizon \in 0..Horizon /\ (k + 1) - 1 = k
    BY <1>0
  <2>2. m \in Treaps
    BY <2>1, TreapsGrow DEF Treaps
  <2>3. m \in Nodes(TreapsTo[k])
    BY <2>1, NodeBelow
  <2>4. ValuesAt(m.left, t) \in Value /\ ValuesAt(m.right, t) \in Value
    BY <1>0, <1>2, <2>3, NodeFields
  <2>5. Under(m, ValuesAt(m.left, t)) \in Value /\ Under(m, ValuesAt(m.right, t)) \in Value
    BY <2>3, <2>4, UnderType, NodeFields DEF Waits
  <2>6. [capacity |-> m.capacity, own |-> m.own] \in Value
    BY <2>3, NodeFields DEF Value
  <2> QED BY <2>2, <2>5, <2>6, ValuesLaw
<1>3. Horizon \in S
  <2> HIDE DEF S
  <2> QED BY <1>0, <1>1, <1>2, SetInduction
<1> QED BY <1>0, <1>3 DEF Treaps

LEMMA UnderNothing ==
  ASSUME NEW n, n.setCap = None, n.add = Nothing, NEW v \in Value
  PROVE  Under(n, v) = v
<1>1. v = [capacity |-> v.capacity, own |-> v.own] /\ v.own \in [Columns -> Int]
  BY DEF Value
<1>2. Plus(v.own, Nothing) = v.own
  BY <1>1, NothingType, PlusLaws
<1> QED BY <1>1, <1>2 DEF Under

\* A child that inherited what waits says what it said under its parent.
LEMMA InheritValues ==
  ASSUME NEW c \in Treaps, c # None, NEW n, Waits(n), NEW t
  PROVE  ValuesAt(Inherit(c, n), t) = Under(n, ValuesAt(c, t))
<1>1. PICK m : m = Inherit(c, n)
  OBVIOUS
<1>2. /\ m \in Treaps /\ m # None /\ m.start = c.start /\ m.end = c.end
      /\ m.left = c.left /\ m.right = c.right
      /\ m.capacity = IF n.setCap = None THEN c.capacity ELSE n.setCap
      /\ m.setCap = IF n.setCap = None THEN c.setCap ELSE n.setCap
      /\ m.own = Plus(c.own, n.add)
      /\ m.add = Plus(c.add, n.add)
  <2>1. Horizon \in 0..Horizon /\ c \in TreapsTo[Horizon]
    BY EnvelopeAssumption DEF Treaps
  <2> QED BY <1>1, <2>1, InheritFields DEF Treaps
<1>3. c.setCap \in Int \cup {None} /\ c.add \in [Columns -> Int]
      /\ c.left \in Treaps /\ c.right \in Treaps
  <2>1. Horizon \in 1..Horizon /\ Horizon - 1 \in 0..Horizon /\ Horizon - 1 <= Horizon
        /\ Horizon \in 0..Horizon
    BY EnvelopeAssumption
  <2>2. c \in Nodes(TreapsTo[Horizon - 1])
    BY <2>1, NodeBelow DEF Treaps
  <2>3. TreapsTo[Horizon - 1] \subseteq Treaps
    BY <2>1, TreapsGrow DEF Treaps
  <2> QED BY <2>2, <2>3, NodeFields
<1>4. ASSUME NEW v \in Value
      PROVE  Under(m, v) = Under(n, Under(c, v))
  <2>1. v.own \in [Columns -> Int] /\ n.add \in [Columns -> Int]
    BY DEF Value, Waits
  <2>2. PICK u : u = Under(c, v)
    OBVIOUS
  <2>3. /\ u.capacity = IF c.setCap = None THEN v.capacity ELSE c.setCap
        /\ u.own = Plus(v.own, c.add)
    BY <2>2 DEF Under
  <2>4. Plus(u.own, n.add) = Plus(v.own, m.add)
    BY <1>2, <1>3, <2>1, <2>3, PlusLaws
  <2>5. (IF n.setCap = None THEN u.capacity ELSE n.setCap) =
          IF m.setCap = None THEN v.capacity ELSE m.setCap
    BY <1>2, <2>3
  <2>6. Under(m, v) = Under(n, u)
    BY <2>4, <2>5 DEF Under
  <2> QED BY <2>2, <2>6
<1>5. CASE Covers(c, t)
  <2>1. ValuesAt(c, t) = [capacity |-> c.capacity, own |-> c.own]
    BY <1>5, ValuesLaw
  <2>2. ValuesAt(m, t) = [capacity |-> m.capacity, own |-> m.own]
    BY <1>2, <1>5, ValuesLaw DEF Covers
  <2> QED BY <1>1, <1>2, <2>1, <2>2 DEF Under
<1>6. CASE ~Covers(c, t) /\ t < c.start
  <2>1. ValuesAt(c, t) = Under(c, ValuesAt(c.left, t))
    BY <1>6, ValuesLaw
  <2>2. ValuesAt(m, t) = Under(m, ValuesAt(c.left, t))
    BY <1>2, <1>6, ValuesLaw DEF Covers
  <2>3. ValuesAt(c.left, t) \in Value
    BY <1>3, ValuesType
  <2> QED BY <1>1, <1>4, <2>1, <2>2, <2>3
<1>7. CASE ~Covers(c, t) /\ ~(t < c.start)
  <2>1. ValuesAt(c, t) = Under(c, ValuesAt(c.right, t))
    BY <1>7, ValuesLaw
  <2>2. ValuesAt(m, t) = Under(m, ValuesAt(c.right, t))
    BY <1>2, <1>7, ValuesLaw DEF Covers
  <2>3. ValuesAt(c.right, t) \in Value
    BY <1>3, ValuesType
  <2> QED BY <1>1, <1>4, <2>1, <2>2, <2>3
<1> QED BY <1>5, <1>6, <1>7

\* The load under what waits.
LEMMA UnderWeight ==
  ASSUME NEW n, Waits(n), NEW v \in Value, NEW s
  PROVE  /\ Weight(v.own, s) \in Int /\ Weight(n.add, s) \in Int
         /\ Weight(Under(n, v).own, s) = Weight(v.own, s) + Weight(n.add, s)
<1>1. v.own \in [Columns -> Int] /\ n.add \in [Columns -> Int]
  BY DEF Value, Waits
<1>2. Under(n, v).own = Plus(v.own, n.add)
  BY DEF Under
<1> QED BY <1>1, <1>2, WeightType, PlusLaws

-----------------------------------------------------------------------------
(* The operations on treaps, unfolded.                                     *)

\* Split solves its equation.
LEMMA SplitLaw ==
  ASSUME NEW m \in Treaps, NEW key
  PROVE  /\ m = None => Split(m, key) = [low |-> None, high |-> None]
         /\ m # None /\ Push(m).start < key =>
              Split(m, key) = KeepLow(Push(m), Split(Push(m).right, key))
         /\ m # None /\ ~(Push(m).start < key) =>
              Split(m, key) = KeepHigh(Push(m), Split(Push(m).left, key))
<1> DEFINE f == CHOOSE g : g = [n \in Treaps |-> SplitStep(g, n, key)]
<1>1. f = [n \in Treaps |-> SplitStep(f, n, key)]
  <2>1. \A g, n : Step("split", g, n, key) = SplitStep(g, n, key)
    BY DEF Step
  <2>2. PICK g : g = [n \in Treaps |-> Step("split", g, n, key)]
    BY RecursionsExist
  <2>3. g = [n \in Treaps |-> SplitStep(g, n, key)]
    BY <2>1, <2>2
  <2> QED BY <2>3
<1>2. \A n : Split(n, key) = f[n]
  BY DEF Split, SplitStep
<1> HIDE DEF f
<1>3. Split(m, key) = SplitStep(f, m, key)
  BY <1>1, <1>2
<1> QED BY <1>2, <1>3 DEF SplitStep

\* So do DetachMax
LEMMA DetachLaw ==
  ASSUME NEW m \in Treaps
  PROVE  /\ m # None /\ Push(m).right = None => DetachMax(m) = Push(m).left
         /\ m # None /\ Push(m).right # None =>
              DetachMax(m) = WithRight(Push(m), DetachMax(Push(m).right))
<1> DEFINE f == CHOOSE g : g = [n \in Treaps |-> DetachStep(g, n)]
<1>1. f = [n \in Treaps |-> DetachStep(f, n)]
  <2>1. \A g, n : Step("detach", g, n, None) = DetachStep(g, n)
    BY DEF Step
  <2>2. PICK g : g = [n \in Treaps |-> Step("detach", g, n, None)]
    BY RecursionsExist
  <2>3. g = [n \in Treaps |-> DetachStep(g, n)]
    BY <2>1, <2>2
  <2> QED BY <2>3
<1>2. \A n : DetachMax(n) = f[n]
  BY DEF DetachMax, DetachStep
<1> HIDE DEF f
<1>3. DetachMax(m) = DetachStep(f, m)
  BY <1>1, <1>2
<1> QED BY <1>2, <1>3 DEF DetachStep

\* and Rightmost.
LEMMA LastLaw ==
  ASSUME NEW m \in Treaps
  PROVE  /\ m # None /\ m.right = None => Rightmost(m) = m
         /\ m # None /\ m.right # None => Rightmost(m) = Rightmost(m.right)
<1> DEFINE f == CHOOSE g : g = [n \in Treaps |-> LastStep(g, n)]
<1>1. f = [n \in Treaps |-> LastStep(f, n)]
  <2>1. \A g, n : Step("last", g, n, None) = LastStep(g, n)
    BY DEF Step
  <2>2. PICK g : g = [n \in Treaps |-> Step("last", g, n, None)]
    BY RecursionsExist
  <2>3. g = [n \in Treaps |-> LastStep(g, n)]
    BY <2>1, <2>2
  <2> QED BY <2>3
<1>2. \A n : Rightmost(n) = f[n]
  BY DEF Rightmost, LastStep
<1> HIDE DEF f
<1>3. Rightmost(m) = LastStep(f, m)
  BY <1>1, <1>2
<1> QED BY <1>2, <1>3 DEF LastStep

MergeStep(f, p) ==
  IF p[1] = None THEN p[2] ELSE IF p[2] = None THEN p[1]
  ELSE IF p[1].prio > p[2].prio
  THEN LET n == Push(p[1]) IN WithRight(n, f[<<n.right, p[2]>>])
  ELSE LET n == Push(p[2]) IN WithLeft(n, f[<<p[1], n.left>>])

\* The pairs of treaps that are no higher than k in all.
Pairs(k) == {p \in Treaps \X Treaps :
               \E i \in 0..Horizon, j \in 0..Horizon :
                 i + j <= k /\ p[1] \in TreapsTo[i] /\ p[2] \in TreapsTo[j]}

LEMMA MergeLooksBelow ==
  ASSUME NEW k \in Nat, NEW p \in Pairs(k + 1),
         NEW f, NEW g, \A q \in Pairs(k) : f[q] = g[q]
  PROVE  MergeStep(f, p) = MergeStep(g, p)
<1>1. CASE p[1] = None \/ p[2] = None
  BY <1>1 DEF MergeStep
<1>2. CASE p[1] # None /\ p[2] # None
  <2>1. PICK a \in Treaps, b \in Treaps : a = p[1] /\ b = p[2]
    BY DEF Pairs
  <2>2. PICK i \in 0..Horizon, j \in 0..Horizon :
          i + j <= k + 1 /\ a \in TreapsTo[i] /\ b \in TreapsTo[j]
    BY <2>1 DEF Pairs
  <2>3. /\ i \in 1..Horizon /\ a \in Nodes(TreapsTo[i - 1])
        /\ j \in 1..Horizon /\ b \in Nodes(TreapsTo[j - 1])
    BY <1>2, <2>1, <2>2, NodeBelow
  <2>4. /\ i - 1 \in 0..Horizon /\ (i - 1) + j <= k /\ i - 1 <= Horizon
        /\ j - 1 \in 0..Horizon /\ i + (j - 1) <= k /\ j - 1 <= Horizon
        /\ Horizon \in 0..Horizon
    BY <2>2, <2>3, EnvelopeAssumption
  <2>5. PICK r, l : r = Push(a).right /\ l = Push(b).left
    OBVIOUS
  <2>6. r \in TreapsTo[i - 1] /\ l \in TreapsTo[j - 1]
    BY <2>3, <2>4, <2>5, PushFields, NodeFields
  <2>7. r \in Treaps /\ l \in Treaps
    BY <2>4, <2>6, TreapsGrow DEF Treaps
  <2>8. <<r, b>> \in Pairs(k) /\ <<a, l>> \in Pairs(k)
    BY <2>1, <2>2, <2>4, <2>6, <2>7 DEF Pairs
  <2>9. f[<<r, b>>] = g[<<r, b>>] /\ f[<<a, l>>] = g[<<a, l>>]
    BY <2>8
  <2> QED BY <2>1, <2>5, <2>9 DEF MergeStep
<1> QED BY <1>1, <1>2

LEMMA MergeExists ==
  \E f : f = [p \in Treaps \X Treaps |-> MergeStep(f, p)]
<1> DEFINE S == {k \in Nat : \E f : f = [p \in Pairs(k) |-> MergeStep(f, p)]}
<1>0. Horizon \in Nat
  BY EnvelopeAssumption
<1>1. 0 \in S
  <2> DEFINE g == [p \in Pairs(0) |-> MergeStep(<<>>, p)]
  <2>1. \A p \in Pairs(0) : p[1] = None /\ p[2] = None
    <3> SUFFICES ASSUME NEW p \in Pairs(0)
                 PROVE  p[1] = None /\ p[2] = None
      OBVIOUS
    <3>1. PICK i \in 0..Horizon, j \in 0..Horizon :
            i + j <= 0 /\ p[1] \in TreapsTo[i] /\ p[2] \in TreapsTo[j]
      BY DEF Pairs
    <3>2. i = 0 /\ j = 0
      BY <1>0, <3>1
    <3> QED BY <3>1, <3>2, TreapsByHeight
  <2>2. \A p \in Pairs(0) : MergeStep(<<>>, p) = MergeStep(g, p)
    BY <2>1 DEF MergeStep
  <2>3. g = [p \in Pairs(0) |-> MergeStep(g, p)]
    BY <2>2
  <2> QED BY <2>3
<1>2. ASSUME NEW k \in Nat, k \in S PROVE k + 1 \in S
  <2>1. PICK f : f = [p \in Pairs(k) |-> MergeStep(f, p)]
    BY <1>2
  <2> DEFINE g == [p \in Pairs(k + 1) |-> MergeStep(f, p)]
  <2>2. Pairs(k) \subseteq Pairs(k + 1)
    <3> SUFFICES ASSUME NEW p \in Pairs(k)
                 PROVE  p \in Pairs(k + 1)
      OBVIOUS
    <3>1. PICK i \in 0..Horizon, j \in 0..Horizon :
            i + j <= k /\ p[1] \in TreapsTo[i] /\ p[2] \in TreapsTo[j]
      BY DEF Pairs
    <3>2. i + j <= k + 1
      BY <1>0, <3>1
    <3> QED BY <3>1, <3>2 DEF Pairs
  <2>3. \A p \in Pairs(k) : g[p] = f[p]
    <3>1. \A p \in Pairs(k) : f[p] = MergeStep(f, p)
      BY <2>1
    <3> QED BY <2>2, <3>1
  <2> HIDE DEF g
  <2>4. \A p \in Pairs(k + 1) : MergeStep(f, p) = MergeStep(g, p)
    BY <2>3, MergeLooksBelow
  <2>5. g = [p \in Pairs(k + 1) |-> MergeStep(g, p)]
    BY <2>4 DEF g
  <2> QED BY <2>5
<1>3. Horizon + Horizon \in S
  <2> HIDE DEF S
  <2> QED BY <1>0, <1>1, <1>2, SetInduction
<1>4. Pairs(Horizon + Horizon) = Treaps \X Treaps
  BY <1>0 DEF Pairs, Treaps
<1> QED BY <1>3, <1>4

\* Merge solves its equation.
LEMMA MergeLaw ==
  ASSUME NEW a \in Treaps, NEW b \in Treaps
  PROVE  /\ a = None => Merge(a, b) = b
         /\ b = None => Merge(a, b) = a
         /\ a # None /\ b # None /\ a.prio > b.prio =>
              Merge(a, b) = WithRight(Push(a), Merge(Push(a).right, b))
         /\ a # None /\ b # None /\ ~(a.prio > b.prio) =>
              Merge(a, b) = WithLeft(Push(b), Merge(a, Push(b).left))
<1> DEFINE f == CHOOSE g : g = [p \in Treaps \X Treaps |-> MergeStep(g, p)]
<1>1. f = [p \in Treaps \X Treaps |-> MergeStep(f, p)]
  BY MergeExists
<1>2. \A x, y : Merge(x, y) = f[<<x, y>>]
  BY DEF Merge, MergeStep
<1> HIDE DEF f
<1>3. Merge(a, b) = MergeStep(f, <<a, b>>)
  BY <1>1, <1>2
<1> QED BY <1>2, <1>3 DEF MergeStep

-----------------------------------------------------------------------------
(* Sound treaps.                                                           *)

UpTo(K, x) == {k \in K : k <= x}
After(K, x) == {k \in K : k > x}

SlackIn(v, s) == Limit(s, v.capacity) - Weight(v.own, s)

\* The sums of n are those of what it says of the instants of [lo, hi).
SumsRight(n, lo, hi) ==
  \A s \in Strengths :
    /\ \A t \in lo..(hi - 1) : n.min[s] <= SlackIn(ValuesAt(n, t), s)
    /\ \E t \in lo..(hi - 1) : n.min[s] = SlackIn(ValuesAt(n, t), s)
    /\ \A t \in lo..(hi - 1) : Weight(ValuesAt(n, t).own, s) <= n.peak[s]
    /\ \E t \in lo..(hi - 1) : n.peak[s] = Weight(ValuesAt(n, t).own, s)

\* No key of K is inside the cell of n.
Clear(n, K) == \A k \in K : ~(n.start < k /\ k < n.end)

\* A node of priority at most p in a treap of [lo, hi).  The keys of K are
\* boundaries of cells, and the sums on the paths to them may be stale.
Placed(n, lo, hi, p, K) ==
  /\ n.start < n.end /\ n.prio <= p
  /\ Clear(n, K)
  /\ K = {} => SumsRight(n, lo, hi)

\* What is said of n, given that what S says is.
Supported(S, n, lo, hi, p, K) ==
  /\ lo \in Int /\ hi \in Int /\ hi - lo \in 0..Horizon /\ p \in Nat
  /\ K \in SUBSET Int /\ n \in TreapsTo[hi - lo]
  /\ n = None => lo = hi
  /\ n # None => /\ Placed(n, lo, hi, p, K)
                 /\ <<n.left, lo, n.start, n.prio, UpTo(K, n.start)>> \in S
                 /\ <<n.right, n.end, hi, n.prio, After(K, n.start)>> \in S

\* The cells of n are a partition of [lo, hi) in heap order, none of which
\* spans a key of K, and all sums are right but those on the way to K.  (A set
\* of such statements that supports itself: treaps are of finite height.)
Sound(n, lo, hi, p, K) ==
  \E S : /\ <<n, lo, hi, p, K>> \in S
         /\ \A m, x, y, q, J : <<m, x, y, q, J>> \in S => Supported(S, m, x, y, q, J)

\* J has the keys of K and others that are not inside [lo, hi).
Extends(J, K, lo, hi) ==
  /\ J \in SUBSET Int /\ K \subseteq J
  /\ \A k \in J : k \in K \/ k <= lo \/ hi <= k

\* So it is on either side of a cell.
LEMMA ExtendsBeside ==
  ASSUME NEW K, NEW J, NEW lo \in Int, NEW hi \in Int, Extends(J, K, lo, hi),
         NEW start \in Int, NEW end \in Int,
         lo <= start, start < end, end <= hi
  PROVE  /\ Extends(UpTo(J, start), UpTo(K, start), lo, start)
         /\ Extends(After(J, start), After(K, start), end, hi)
<1>1. /\ J \in SUBSET Int /\ K \subseteq J
      /\ \A k \in J : k \in K \/ k <= lo \/ hi <= k
  BY DEF Extends
<1>2. /\ UpTo(J, start) \in SUBSET Int /\ After(J, start) \in SUBSET Int
      /\ UpTo(K, start) \subseteq UpTo(J, start)
      /\ After(K, start) \subseteq After(J, start)
  BY <1>1 DEF UpTo, After
<1>3. ASSUME NEW k \in UpTo(J, start)
      PROVE  k \in UpTo(K, start) \/ k <= lo \/ start <= k
  <2>1. k \in J /\ k \in Int /\ k <= start
    BY <1>1 DEF UpTo
  <2>2. k \in K => k \in UpTo(K, start)
    BY <2>1 DEF UpTo
  <2>3. k \in K \/ k <= lo \/ hi <= k
    BY <1>1, <2>1
  <2> QED BY <2>1, <2>2, <2>3
<1>4. ASSUME NEW k \in After(J, start)
      PROVE  k \in After(K, start) \/ k <= end \/ hi <= k
  <2>1. k \in J /\ k \in Int /\ start < k
    BY <1>1 DEF After
  <2>2. k \in K => k \in After(K, start)
    BY <2>1 DEF After
  <2>3. k \in K \/ k <= lo \/ hi <= k
    BY <1>1, <2>1
  <2> QED BY <2>1, <2>2, <2>3
<1> QED BY <1>2, <1>3, <1>4 DEF Extends

\* What is sound is typed and supported.
LEMMA SoundType ==
  ASSUME NEW n, NEW lo, NEW hi, NEW p, NEW K, Sound(n, lo, hi, p, K)
  PROVE  /\ lo \in Int /\ hi \in Int /\ hi - lo \in 0..Horizon /\ p \in Nat
         /\ K \in SUBSET Int /\ n \in TreapsTo[hi - lo] /\ lo <= hi
         /\ n = None => lo = hi
<1>1. \E S : Supported(S, n, lo, hi, p, K)
  BY DEF Sound
<1>2. /\ lo \in Int /\ hi \in Int /\ hi - lo \in 0..Horizon /\ p \in Nat
      /\ K \in SUBSET Int /\ n \in TreapsTo[hi - lo]
      /\ n = None => lo = hi
  BY <1>1 DEF Supported
<1> QED BY <1>2, EnvelopeAssumption

LEMMA SoundNode ==
  ASSUME NEW n, NEW lo, NEW hi, NEW p, NEW K, Sound(n, lo, hi, p, K), n # None
  PROVE  /\ hi - lo \in 1..Horizon /\ n \in Nodes(TreapsTo[hi - lo - 1])
         /\ Placed(n, lo, hi, p, K)
         /\ Sound(n.left, lo, n.start, n.prio, UpTo(K, n.start))
         /\ Sound(n.right, n.end, hi, n.prio, After(K, n.start))
         /\ lo <= n.start /\ n.start < n.end /\ n.end <= hi
<1>1. PICK S : /\ <<n, lo, hi, p, K>> \in S
               /\ \A m, x, y, q, J : <<m, x, y, q, J>> \in S =>
                                       Supported(S, m, x, y, q, J)
  BY DEF Sound
<1>2. Supported(S, n, lo, hi, p, K)
  BY <1>1
<1>3. /\ <<n.left, lo, n.start, n.prio, UpTo(K, n.start)>> \in S
      /\ <<n.right, n.end, hi, n.prio, After(K, n.start)>> \in S
      /\ Placed(n, lo, hi, p, K)
  BY <1>2 DEF Supported
<1>4. /\ Sound(n.left, lo, n.start, n.prio, UpTo(K, n.start))
      /\ Sound(n.right, n.end, hi, n.prio, After(K, n.start))
  BY <1>1, <1>3 DEF Sound
<1>5. hi - lo \in 1..Horizon /\ n \in Nodes(TreapsTo[hi - lo - 1])
  BY SoundType, NodeBelow
<1>6. lo <= n.start /\ n.end <= hi
  BY <1>4, SoundType
<1> QED BY <1>3, <1>4, <1>5, <1>6 DEF Placed

\* None is sound over nothing.
LEMMA SoundNone ==
  ASSUME NEW x \in Int, NEW p \in Nat, NEW K \in SUBSET Int
  PROVE  Sound(None, x, x, p, K)
<1> DEFINE S == {<<None, x, x, p, K>>}
<1>1. x - x = 0 /\ 0 \in 0..Horizon
  BY EnvelopeAssumption
<1>2. Supported(S, None, x, x, p, K)
  BY <1>1, NoneIsTreap DEF Supported
<1>3. \A m, y, z, q, J : <<m, y, z, q, J>> \in S => Supported(S, m, y, z, q, J)
  BY <1>2
<1> HIDE DEF S
<1>4. <<None, x, x, p, K>> \in S
  BY DEF S
<1> QED BY <1>3, <1>4 DEF Sound

\* A node over two sound treaps.
LEMMA SoundOver ==
  ASSUME NEW lo \in Int, NEW hi \in Int, hi - lo <= Horizon,
         NEW p \in Nat, NEW K \in SUBSET Int, NEW B, NEW n \in Nodes(B),
         Placed(n, lo, hi, p, K),
         Sound(n.left, lo, n.start, n.prio, UpTo(K, n.start)),
         Sound(n.right, n.end, hi, n.prio, After(K, n.start))
  PROVE  Sound(n, lo, hi, p, K) /\ n # None
<1>1. PICK S1 : /\ <<n.left, lo, n.start, n.prio, UpTo(K, n.start)>> \in S1
                /\ \A m, x, y, q, J : <<m, x, y, q, J>> \in S1 =>
                                        Supported(S1, m, x, y, q, J)
  BY DEF Sound
<1>2. PICK S2 : /\ <<n.right, n.end, hi, n.prio, After(K, n.start)>> \in S2
                /\ \A m, x, y, q, J : <<m, x, y, q, J>> \in S2 =>
                                        Supported(S2, m, x, y, q, J)
  BY DEF Sound
<1> DEFINE S == (S1 \cup S2) \cup {<<n, lo, hi, p, K>>}
<1>3. /\ n.start \in Int /\ n.end \in Int /\ n.start < n.end
      /\ n.start - lo \in 0..Horizon /\ hi - n.end \in 0..Horizon
      /\ n.left \in TreapsTo[n.start - lo] /\ n.right \in TreapsTo[hi - n.end]
      /\ lo <= n.start /\ n.end <= hi
  BY SoundType, NodeFields DEF Placed
<1>4. hi - lo \in 1..Horizon /\ hi - lo - 1 \in 0..Horizon
      /\ n.start - lo <= hi - lo - 1 /\ hi - n.end <= hi - lo - 1
      /\ hi - lo \in 0..Horizon
  BY <1>3, EnvelopeAssumption
<1>5. n.left \in TreapsTo[hi - lo - 1] /\ n.right \in TreapsTo[hi - lo - 1]
  BY <1>3, <1>4, TreapsGrow
<1>6. n \in Nodes(TreapsTo[hi - lo - 1])
  BY <1>5 DEF Nodes
<1>7. n \in TreapsTo[hi - lo] /\ n # None
  BY <1>4, <1>6, NodeIsTreap
<1>8. Supported(S, n, lo, hi, p, K)
  BY <1>1, <1>2, <1>4, <1>7 DEF Supported
<1>9. ASSUME NEW m, NEW x, NEW y, NEW q, NEW J, <<m, x, y, q, J>> \in S
      PROVE  Supported(S, m, x, y, q, J)
  <2>1. CASE <<m, x, y, q, J>> \in S1
    BY <1>1, <2>1 DEF Supported
  <2>2. CASE <<m, x, y, q, J>> \in S2
    BY <1>2, <2>2 DEF Supported
  <2>3. CASE <<m, x, y, q, J>> = <<n, lo, hi, p, K>>
    <3>1. m = n /\ x = lo /\ y = hi /\ q = p /\ J = K
      BY <2>3
    <3> QED BY <1>8, <3>1
  <2> QED BY <1>9, <2>1, <2>2, <2>3
<1>10. <<n, lo, hi, p, K>> \in S
  OBVIOUS
<1> HIDE DEF S
<1>11. Sound(n, lo, hi, p, K)
  BY <1>9, <1>10 DEF Sound
<1> QED BY <1>7, <1>11

LEMMA SoundTreap ==
  ASSUME NEW n, NEW lo, NEW hi, NEW p, NEW K, Sound(n, lo, hi, p, K)
  PROVE  n \in Treaps /\ (n # None => n.left \in Treaps /\ n.right \in Treaps)
<1>1. ASSUME NEW m, NEW x, NEW y, NEW q, NEW J, Sound(m, x, y, q, J)
      PROVE  m \in Treaps
  <2>1. y - x \in 0..Horizon /\ m \in TreapsTo[y - x]
    BY <1>1, SoundType
  <2>2. Horizon \in 0..Horizon /\ y - x <= Horizon
    BY <2>1, EnvelopeAssumption
  <2> QED BY <2>1, <2>2, TreapsGrow DEF Treaps
<1>2. ASSUME n # None
      PROVE  n.left \in Treaps /\ n.right \in Treaps
  BY <1>1, <1>2, SoundNode
<1> QED BY <1>1, <1>2

\* Sound for more keys and a higher bound, the new keys not in the treap.
Widens(w) ==
  \A n, lo, hi, p, K, q, J :
    /\ Sound(n, lo, hi, p, K) /\ hi - lo <= w
    /\ q \in Nat /\ p <= q /\ Extends(J, K, lo, hi)
    => Sound(n, lo, hi, q, J)

LEMMA AllWiden == \A w \in Nat : Widens(w)
<1> DEFINE S == {w \in Nat : Widens(w)}
<1>1. ASSUME NEW w \in Nat, w # 0 => Widens(w - 1)
      PROVE  Widens(w)
  <2> SUFFICES ASSUME NEW n, NEW lo, NEW hi, NEW p, NEW K, NEW q, NEW J,
                      Sound(n, lo, hi, p, K), hi - lo <= w,
                      q \in Nat, p <= q, Extends(J, K, lo, hi)
               PROVE  Sound(n, lo, hi, q, J)
    BY DEF Widens
  <2>1. lo \in Int /\ hi \in Int /\ hi - lo \in 0..Horizon /\ (n = None => lo = hi)
        /\ p \in Nat /\ J \in SUBSET Int /\ K \subseteq J
        /\ \A k \in J : k \in K \/ k <= lo \/ hi <= k
    BY SoundType DEF Extends
  <2>2. CASE n = None
    BY <2>1, <2>2, SoundNone
  <2>3. CASE n # None
    <3>1. /\ hi - lo \in 1..Horizon /\ n \in Nodes(TreapsTo[hi - lo - 1])
          /\ Placed(n, lo, hi, p, K)
          /\ Sound(n.left, lo, n.start, n.prio, UpTo(K, n.start))
          /\ Sound(n.right, n.end, hi, n.prio, After(K, n.start))
          /\ lo <= n.start /\ n.start < n.end /\ n.end <= hi
      BY <2>3, SoundNode
    <3>2. /\ n.start \in Int /\ n.end \in Int /\ n.prio \in Nat
      BY <3>1, NodeFields
    <3>3. w # 0 /\ w - 1 \in Nat /\ n.start - lo <= w - 1 /\ hi - n.end <= w - 1
          /\ n.prio <= n.prio
      BY <2>1, <3>1, <3>2, EnvelopeAssumption
    <3>4. /\ Extends(UpTo(J, n.start), UpTo(K, n.start), lo, n.start)
          /\ Extends(After(J, n.start), After(K, n.start), n.end, hi)
      BY <2>1, <3>1, <3>2, ExtendsBeside
    <3>6. Sound(n.left, lo, n.start, n.prio, UpTo(J, n.start))
      BY <1>1, <3>1, <3>2, <3>3, <3>4 DEF Widens
    <3>7. Sound(n.right, n.end, hi, n.prio, After(J, n.start))
      BY <1>1, <3>1, <3>2, <3>3, <3>4 DEF Widens
    <3>8. Placed(n, lo, hi, q, J)
      <4>1. n.prio <= q
        BY <2>1, <3>1, <3>2 DEF Placed
      <4>2. Clear(n, J)
        BY <2>1, <3>1, <3>2 DEF Placed, Clear
      <4>3. J = {} => SumsRight(n, lo, hi)
        BY <2>1, <3>1 DEF Placed
      <4> QED BY <3>1, <4>1, <4>2, <4>3 DEF Placed
    <3> QED BY <2>1, <3>1, <3>6, <3>7, <3>8, SoundOver
  <2> QED BY <2>2, <2>3
<1>2. 0 \in S
  BY <1>1
<1>3. ASSUME NEW w \in Nat, w \in S PROVE w + 1 \in S
  BY <1>1, <1>3
<1> HIDE DEF S
<1>4. \A w \in Nat : w \in S
  BY <1>2, <1>3, SetInduction
<1> QED BY <1>4 DEF S

LEMMA Widen ==
  ASSUME NEW n, NEW lo, NEW hi, NEW p, NEW K, Sound(n, lo, hi, p, K),
         NEW q \in Nat, p <= q, NEW J, Extends(J, K, lo, hi)
  PROVE  Sound(n, lo, hi, q, J)
<1>1. hi - lo \in Nat
  BY SoundType, EnvelopeAssumption
<1>2. PICK w \in Nat : w = hi - lo
  BY <1>1
<1>3. Widens(w) /\ hi - lo <= w
  BY <1>2, AllWiden
<1> QED BY <1>3 DEF Widens

\* The sums of a child take over what waits as its values do.
LEMMA InheritSums ==
  ASSUME NEW c \in Treaps, c # None, NEW n, Waits(n), NEW lo \in Int, NEW hi \in Int,
         SumsRight(c, lo, hi)
  PROVE  SumsRight(Inherit(c, n), lo, hi)
<1> SUFFICES ASSUME NEW s \in Strengths
             PROVE  LET m == Inherit(c, n) IN
                    /\ \A t \in lo..(hi - 1) : m.min[s] <= SlackIn(ValuesAt(m, t), s)
                    /\ \E t \in lo..(hi - 1) : m.min[s] = SlackIn(ValuesAt(m, t), s)
                    /\ \A t \in lo..(hi - 1) : Weight(ValuesAt(m, t).own, s) <= m.peak[s]
                    /\ \E t \in lo..(hi - 1) : m.peak[s] = Weight(ValuesAt(m, t).own, s)
  BY DEF SumsRight
<1>1. PICK m : m = Inherit(c, n)
  OBVIOUS
<1>2. /\ m.peak[s] = c.peak[s] + Weight(n.add, s)
      /\ m.min[s] = (IF n.setCap = None THEN c.min[s]
                     ELSE Limit(s, n.setCap) - c.peak[s]) - Weight(n.add, s)
      /\ c.peak[s] \in Int /\ c.min[s] \in Int
  <2>1. Horizon \in 0..Horizon /\ c \in TreapsTo[Horizon]
    BY EnvelopeAssumption DEF Treaps
  <2>2. c.peak[s] \in Int /\ c.min[s] \in Int
    BY <2>1, NodeBelow, NodeFields
  <2> QED BY <1>1, <2>1, <2>2, InheritFields
<1>3. Weight(n.add, s) \in Int /\ (n.setCap # None => Limit(s, n.setCap) \in Int)
  BY WeightType, LimitType DEF Waits
<1>4. ASSUME NEW t
      PROVE  /\ Weight(ValuesAt(c, t).own, s) \in Int
             /\ SlackIn(ValuesAt(c, t), s) \in Int
             /\ Weight(ValuesAt(m, t).own, s) =
                  Weight(ValuesAt(c, t).own, s) + Weight(n.add, s)
             /\ SlackIn(ValuesAt(m, t), s) =
                  (IF n.setCap = None THEN SlackIn(ValuesAt(c, t), s)
                   ELSE Limit(s, n.setCap) - Weight(ValuesAt(c, t).own, s))
                  - Weight(n.add, s)
  <2>1. PICK v \in Value : v = ValuesAt(c, t)
    BY ValuesType
  <2>2. PICK u : u = ValuesAt(m, t)
    OBVIOUS
  <2>3. u = Under(n, v)
    BY <1>1, <2>1, <2>2, InheritValues
  <2>4. /\ Weight(v.own, s) \in Int
        /\ Weight(u.own, s) = Weight(v.own, s) + Weight(n.add, s)
    BY <2>3, UnderWeight
  <2>5. u.capacity = IF n.setCap = None THEN v.capacity ELSE n.setCap
    BY <2>3 DEF Under
  <2>6. Limit(s, v.capacity) \in Int
    BY LimitType DEF Value
  <2> QED BY <1>3, <2>1, <2>2, <2>4, <2>5, <2>6 DEF SlackIn
<1>5. /\ \A t \in lo..(hi - 1) : c.min[s] <= SlackIn(ValuesAt(c, t), s)
      /\ \E t \in lo..(hi - 1) : c.min[s] = SlackIn(ValuesAt(c, t), s)
      /\ \A t \in lo..(hi - 1) : Weight(ValuesAt(c, t).own, s) <= c.peak[s]
      /\ \E t \in lo..(hi - 1) : c.peak[s] = Weight(ValuesAt(c, t).own, s)
  BY DEF SumsRight
<1>6. /\ \A t \in lo..(hi - 1) : Weight(ValuesAt(m, t).own, s) <= m.peak[s]
      /\ \E t \in lo..(hi - 1) : m.peak[s] = Weight(ValuesAt(m, t).own, s)
  BY <1>2, <1>3, <1>4, <1>5
<1>7. /\ \A t \in lo..(hi - 1) : m.min[s] <= SlackIn(ValuesAt(m, t), s)
      /\ \E t \in lo..(hi - 1) : m.min[s] = SlackIn(ValuesAt(m, t), s)
  <2>1. CASE n.setCap = None
    BY <1>2, <1>3, <1>4, <1>5, <2>1
  <2>2. CASE n.setCap # None
    BY <1>2, <1>3, <1>4, <1>5, <2>2
  <2> QED BY <2>1, <2>2
<1> QED BY <1>1, <1>6, <1>7

\* What inherits stays sound.
LEMMA InheritSound ==
  ASSUME NEW c, NEW lo, NEW hi, NEW p, NEW K, Sound(c, lo, hi, p, K),
         NEW n, Waits(n)
  PROVE  /\ Sound(Inherit(c, n), lo, hi, p, K)
         /\ Inherit(c, n) = None <=> c = None
<1>1. CASE c = None
  BY <1>1, InheritNone
<1>2. CASE c # None
  <2>1. /\ hi - lo \in 1..Horizon /\ c \in Nodes(TreapsTo[hi - lo - 1])
        /\ Placed(c, lo, hi, p, K)
        /\ Sound(c.left, lo, c.start, c.prio, UpTo(K, c.start))
        /\ Sound(c.right, c.end, hi, c.prio, After(K, c.start))
    BY <1>2, SoundNode
  <2>2. /\ lo \in Int /\ hi \in Int /\ hi - lo \in 0..Horizon /\ p \in Nat
        /\ K \in SUBSET Int /\ c \in TreapsTo[hi - lo]
    BY SoundType
  <2>3. PICK m : m = Inherit(c, n)
    OBVIOUS
  <2>4. /\ m \in TreapsTo[hi - lo] /\ m # None /\ m.start = c.start /\ m.end = c.end
        /\ m.prio = c.prio /\ m.left = c.left /\ m.right = c.right
    BY <1>2, <2>2, <2>3, InheritFields
  <2>5. m \in Nodes(TreapsTo[hi - lo - 1])
    BY <2>2, <2>4, NodeBelow
  <2>6. SumsRight(c, lo, hi) => SumsRight(m, lo, hi)
    BY <1>2, <2>2, <2>3, SoundTreap, InheritSums
  <2>7. Placed(m, lo, hi, p, K)
    BY <2>1, <2>4, <2>6 DEF Placed, Clear
  <2>8. hi - lo <= Horizon
    BY <2>2, EnvelopeAssumption
  <2>9. Sound(m, lo, hi, p, K)
    BY <2>1, <2>2, <2>4, <2>5, <2>7, <2>8, SoundOver
  <2> QED BY <1>2, <2>3, <2>4, <2>9
<1> QED BY <1>1, <1>2

\* n and m say the same of the instants of [lo, hi).
Same(n, m, lo, hi) == \A t \in lo..(hi - 1) : ValuesAt(n, t) = ValuesAt(m, t)

\* What the treap n says is what its cell r says on [lo, hi).
SaysCell(n, r, lo, hi) ==
  \A t \in lo..(hi - 1) : ValuesAt(n, t) = [capacity |-> r.capacity, own |-> r.own]

\* A node with nothing waiting says what its cell and its children say.
LEMMA NodeValues ==
  ASSUME NEW n, NEW lo, NEW hi, NEW p, NEW K, Sound(n, lo, hi, p, K), n # None,
         NEW m \in Treaps, m # None, m.start = n.start, m.end = n.end
  PROVE  /\ \A t \in lo..(n.start - 1) : ValuesAt(m, t) = Under(m, ValuesAt(m.left, t))
         /\ SaysCell(m, m, n.start, n.end)
         /\ \A t \in n.end..(hi - 1) : ValuesAt(m, t) = Under(m, ValuesAt(m.right, t))
<1>1. /\ n.start \in Int /\ n.end \in Int /\ n.start < n.end
      /\ lo \in Int /\ hi \in Int
  BY SoundNode, SoundType, NodeFields
<1>2. ASSUME NEW t \in lo..(n.start - 1)
      PROVE  ValuesAt(m, t) = Under(m, ValuesAt(m.left, t))
  <2>1. t < m.start /\ ~Covers(m, t)
    BY <1>1 DEF Covers
  <2> QED BY <2>1, ValuesLaw
<1>3. ASSUME NEW t \in n.start..(n.end - 1)
      PROVE  ValuesAt(m, t) = [capacity |-> m.capacity, own |-> m.own]
  <2>1. Covers(m, t)
    BY <1>1 DEF Covers
  <2> QED BY <2>1, ValuesLaw
<1>4. ASSUME NEW t \in n.end..(hi - 1)
      PROVE  ValuesAt(m, t) = Under(m, ValuesAt(m.right, t))
  <2>1. ~(t < m.start) /\ ~Covers(m, t)
    BY <1>1 DEF Covers
  <2> QED BY <2>1, ValuesLaw
<1> QED BY <1>2, <1>3, <1>4 DEF SaysCell

\* A child that is None is a child of no instant.
LEMMA SoundInstant ==
  ASSUME NEW n, NEW lo, NEW hi, NEW p, NEW K, Sound(n, lo, hi, p, K),
         NEW t \in lo..(hi - 1)
  PROVE  n # None /\ n \in Treaps /\ ValuesAt(n, t) \in Value
<1>1. n # None
  BY SoundType
<1> QED BY <1>1, SoundTreap, ValuesType

\* Pushing changes nothing a treap says, and leaves sound children.
LEMMA PushSound ==
  ASSUME NEW n, NEW lo, NEW hi, NEW p, NEW K, Sound(n, lo, hi, p, K), n # None,
         NEW m, m = Push(n)
  PROVE  /\ hi - lo - 1 \in 0..Horizon /\ m \in Nodes(TreapsTo[hi - lo - 1])
         /\ m.start \in Int /\ m.end \in Int /\ m.prio \in Nat
         /\ lo <= m.start /\ m.start < m.end /\ m.end <= hi /\ m.prio <= p
         /\ m.start = n.start /\ m.end = n.end /\ m.prio = n.prio
         /\ m.capacity = n.capacity /\ m.own = n.own
         /\ m.add = Nothing /\ m.setCap = None
         /\ Clear(m, K)
         /\ Sound(m.left, lo, m.start, m.prio, UpTo(K, m.start))
         /\ Sound(m.right, m.end, hi, m.prio, After(K, m.start))
         /\ Same(n, m.left, lo, m.start)
         /\ SaysCell(n, m, m.start, m.end)
         /\ Same(n, m.right, m.end, hi)
<1>1. /\ hi - lo \in 1..Horizon /\ n \in Nodes(TreapsTo[hi - lo - 1])
      /\ Placed(n, lo, hi, p, K)
      /\ Sound(n.left, lo, n.start, n.prio, UpTo(K, n.start))
      /\ Sound(n.right, n.end, hi, n.prio, After(K, n.start))
      /\ lo <= n.start /\ n.start < n.end /\ n.end <= hi
  BY SoundNode
<1>2. hi - lo - 1 \in 0..Horizon
  BY <1>1, SoundType, EnvelopeAssumption
<1>3. /\ Waits(n) /\ m \in Nodes(TreapsTo[hi - lo - 1])
      /\ m.start = n.start /\ m.end = n.end /\ m.prio = n.prio
      /\ m.capacity = n.capacity /\ m.own = n.own
      /\ m.add = Nothing /\ m.setCap = None
      /\ m.left = Inherit(n.left, n) /\ m.right = Inherit(n.right, n)
  BY <1>1, <1>2, PushFields
<1>4. n.start \in Int /\ n.end \in Int /\ n.prio \in Nat
  BY <1>1, NodeFields
<1>5. /\ Sound(m.left, lo, m.start, m.prio, UpTo(K, m.start))
      /\ Sound(m.right, m.end, hi, m.prio, After(K, m.start))
  BY <1>1, <1>3, InheritSound
<1>6. n \in Treaps
  BY SoundTreap
<1>7. /\ \A t \in lo..(n.start - 1) : ValuesAt(n, t) = Under(n, ValuesAt(n.left, t))
      /\ SaysCell(n, n, n.start, n.end)
      /\ \A t \in n.end..(hi - 1) : ValuesAt(n, t) = Under(n, ValuesAt(n.right, t))
  BY <1>6, NodeValues
<1>8. ASSUME NEW t \in lo..(m.start - 1)
      PROVE  ValuesAt(n, t) = ValuesAt(m.left, t)
  <2>1. n.left # None /\ n.left \in Treaps
    BY <1>1, <1>3, <1>8, SoundInstant
  <2>2. ValuesAt(m.left, t) = Under(n, ValuesAt(n.left, t))
    BY <1>3, <2>1, InheritValues
  <2> QED BY <1>3, <1>7, <1>8, <2>2
<1>9. ASSUME NEW t \in m.end..(hi - 1)
      PROVE  ValuesAt(n, t) = ValuesAt(m.right, t)
  <2>1. n.right # None /\ n.right \in Treaps
    BY <1>1, <1>3, <1>9, SoundInstant
  <2>2. ValuesAt(m.right, t) = Under(n, ValuesAt(n.right, t))
    BY <1>3, <2>1, InheritValues
  <2> QED BY <1>3, <1>7, <1>9, <2>2
<1>10. SaysCell(n, m, m.start, m.end)
  BY <1>3, <1>7 DEF SaysCell
<1>11. m.prio <= p /\ Clear(m, K)
  <2>1. n.prio <= p /\ Clear(n, K)
    BY <1>1 DEF Placed
  <2> QED BY <1>3, <2>1 DEF Clear
<1>12. Same(n, m.left, lo, m.start) /\ Same(n, m.right, m.end, hi)
  BY <1>8, <1>9 DEF Same
<1> QED BY <1>1, <1>2, <1>3, <1>4, <1>5, <1>10, <1>11, <1>12

\* m is a node with nothing waiting, whose cell divides [lo, hi).
Rests(m, lo, hi) ==
  /\ m.start \in Int /\ m.end \in Int /\ lo <= m.start /\ m.start < m.end /\ m.end <= hi
  /\ m.add = Nothing /\ m.setCap = None

\* z says what l says, then its cell, then what r says.
SaysBoth(z, l, m, r, lo, hi) ==
  Same(z, l, lo, m.start) /\ SaysCell(z, m, m.start, m.end) /\ Same(z, r, m.end, hi)

\* The sums of a node over children whose sums are right are right.
LEMMA RebuiltSums ==
  ASSUME NEW k \in 0..Horizon, NEW B, NEW m \in Nodes(B), NEW l \in TreapsTo[k],
         NEW r \in TreapsTo[k], NEW lo \in Int, NEW hi \in Int, Rests(m, lo, hi),
         NEW z, SaysBoth(z, l, m, r, lo, hi),
         \A t \in lo..(hi - 1) : ValuesAt(z, t) \in Value,
         \A s \in Strengths : /\ z.min[s] = LeastOf(m, l, r, s)
                              /\ z.peak[s] = PeakOf(m, l, r, s),
         l = None => lo = m.start, r = None => m.end = hi,
         l # None => SumsRight(l, lo, m.start), r # None => SumsRight(r, m.end, hi)
  PROVE  SumsRight(z, lo, hi)
<1>1. /\ m.start \in Int /\ m.end \in Int
      /\ lo <= m.start /\ m.start < m.end /\ m.end <= hi
  BY DEF Rests
<1> SUFFICES ASSUME NEW s \in Strengths
             PROVE  /\ \A t \in lo..(hi - 1) : z.min[s] <= SlackIn(ValuesAt(z, t), s)
                    /\ \E t \in lo..(hi - 1) : z.min[s] = SlackIn(ValuesAt(z, t), s)
                    /\ \A t \in lo..(hi - 1) : Weight(ValuesAt(z, t).own, s) <= z.peak[s]
                    /\ \E t \in lo..(hi - 1) : z.peak[s] = Weight(ValuesAt(z, t).own, s)
  BY DEF SumsRight
<1>2. PICK x, y : x = Limit(s, m.capacity) - Weight(m.own, s) /\ y = Weight(m.own, s)
  OBVIOUS
<1>3. x \in Int /\ y \in Int
  BY <1>2, SumsType
<1>4. PICK x2, y2 : x2 = LeastWith(l, s, x) /\ y2 = PeakWith(l, s, y)
  OBVIOUS
<1>5. /\ x2 \in Int /\ x2 <= x /\ y2 \in Int /\ y <= y2
      /\ l # None => /\ l.min[s] \in Int /\ x2 <= l.min[s]
                     /\ l.peak[s] \in Int /\ l.peak[s] <= y2
      /\ x2 = x \/ (l # None /\ x2 = l.min[s])
      /\ y2 = y \/ (l # None /\ y2 = l.peak[s])
  BY <1>3, <1>4, WithChild
<1>6. PICK x3, y3 : x3 = z.min[s] /\ y3 = z.peak[s]
  OBVIOUS
<1>7. x3 = LeastWith(r, s, x2) /\ y3 = PeakWith(r, s, y2)
  BY <1>2, <1>4, <1>6 DEF LeastOf, PeakOf
<1>8. /\ x3 \in Int /\ x3 <= x2 /\ y3 \in Int /\ y2 <= y3
      /\ r # None => /\ r.min[s] \in Int /\ x3 <= r.min[s]
                     /\ r.peak[s] \in Int /\ r.peak[s] <= y3
      /\ x3 = x2 \/ (r # None /\ x3 = r.min[s])
      /\ y3 = y2 \/ (r # None /\ y3 = r.peak[s])
  BY <1>5, <1>7, WithChild
<1>9. /\ x3 <= x /\ y <= y3
      /\ l # None => x3 <= l.min[s] /\ l.peak[s] <= y3
      /\ x3 = x \/ (l # None /\ x3 = l.min[s]) \/ (r # None /\ x3 = r.min[s])
      /\ y3 = y \/ (l # None /\ y3 = l.peak[s]) \/ (r # None /\ y3 = r.peak[s])
  BY <1>3, <1>5, <1>8
<1> DEFINE least(t) == SlackIn(ValuesAt(z, t), s)
           load(t) == Weight(ValuesAt(z, t).own, s)
<1>10. \A t \in lo..(hi - 1) : least(t) \in Int /\ load(t) \in Int
  <2> SUFFICES ASSUME NEW t \in lo..(hi - 1)
               PROVE  least(t) \in Int /\ load(t) \in Int
    OBVIOUS
  <2>1. PICK v \in Value : v = ValuesAt(z, t)
    OBVIOUS
  <2>2. Limit(s, v.capacity) \in Int /\ Weight(v.own, s) \in Int
    BY LimitType, WeightType DEF Value
  <2> QED BY <2>1, <2>2 DEF SlackIn
<1>11. \A t \in m.start..(m.end - 1) : least(t) = x /\ load(t) = y
  BY <1>2 DEF SaysBoth, SaysCell, SlackIn
<1>12. l # None => /\ \A t \in lo..(m.start - 1) : l.min[s] <= least(t) /\ load(t) <= l.peak[s]
                   /\ \E t \in lo..(m.start - 1) : l.min[s] = least(t)
                   /\ \E t \in lo..(m.start - 1) : load(t) = l.peak[s]
  BY DEF SaysBoth, Same, SumsRight
<1>13. r # None => /\ \A t \in m.end..(hi - 1) : r.min[s] <= least(t) /\ load(t) <= r.peak[s]
                   /\ \E t \in m.end..(hi - 1) : r.min[s] = least(t)
                   /\ \E t \in m.end..(hi - 1) : load(t) = r.peak[s]
  BY DEF SaysBoth, Same, SumsRight
<1> HIDE DEF least, load
<1>14. \A t \in lo..(hi - 1) : \/ t \in lo..(m.start - 1) /\ l # None
                               \/ t \in m.start..(m.end - 1)
                               \/ t \in m.end..(hi - 1) /\ r # None
  BY <1>1
<1>15. /\ \A t \in lo..(m.start - 1) : t \in lo..(hi - 1)
       /\ \A t \in m.end..(hi - 1) : t \in lo..(hi - 1)
       /\ m.start \in m.start..(m.end - 1) /\ m.start \in lo..(hi - 1)
  BY <1>1
<1>16. \A t \in lo..(hi - 1) : x3 <= least(t) /\ load(t) <= y3
  <2> SUFFICES ASSUME NEW t \in lo..(hi - 1)
               PROVE  x3 <= least(t) /\ load(t) <= y3
    OBVIOUS
  <2>0. least(t) \in Int /\ load(t) \in Int
    BY <1>10
  <2>1. CASE t \in m.start..(m.end - 1)
    BY <1>9, <1>11, <2>1
  <2>2. CASE t \in lo..(m.start - 1) /\ l # None
    BY <1>5, <1>8, <1>9, <1>12, <2>0, <2>2
  <2>3. CASE t \in m.end..(hi - 1) /\ r # None
    BY <1>8, <1>13, <2>0, <2>3
  <2> QED BY <1>14, <2>1, <2>2, <2>3
<1>17. \E t \in lo..(hi - 1) : x3 = least(t)
  BY <1>9, <1>11, <1>12, <1>13, <1>15
<1>18. \E t \in lo..(hi - 1) : load(t) = y3
  BY <1>9, <1>11, <1>12, <1>13, <1>15
<1> QED BY <1>6, <1>16, <1>17, <1>18 DEF least, load

\* A node that rests over two sound treaps is sound.
LEMMA RebuiltSound ==
  ASSUME NEW lo \in Int, NEW hi \in Int, hi - lo <= Horizon,
         NEW p \in Nat, NEW K \in SUBSET Int, NEW B, NEW m \in Nodes(B),
         Rests(m, lo, hi), m.prio <= p, Clear(m, K),
         NEW l, Sound(l, lo, m.start, m.prio, UpTo(K, m.start)),
         NEW r, Sound(r, m.end, hi, m.prio, After(K, m.start)),
         NEW z, z = Rebuilt(m, l, r)
  PROVE  /\ Sound(z, lo, hi, p, K) /\ z # None
         /\ z.left = l /\ z.right = r /\ z.prio = m.prio
         /\ z.start = m.start /\ z.end = m.end
         /\ z.capacity = m.capacity /\ z.own = m.own
         /\ SaysBoth(z, l, m, r, lo, hi)
<1>1. /\ m.start \in Int /\ m.end \in Int
      /\ lo <= m.start /\ m.start < m.end /\ m.end <= hi
      /\ m.add = Nothing /\ m.setCap = None
  BY DEF Rests
<1>2. /\ m.start - lo \in 0..Horizon /\ hi - m.end \in 0..Horizon
      /\ m.start - lo <= hi - lo - 1 /\ hi - m.end <= hi - lo - 1
      /\ hi - lo - 1 \in 0..Horizon /\ hi - lo \in 1..Horizon
  BY <1>1, EnvelopeAssumption
<1>3. l \in TreapsTo[m.start - lo] /\ r \in TreapsTo[hi - m.end]
      /\ (l = None => lo = m.start) /\ (r = None => m.end = hi)
  BY SoundType
<1>4. l \in TreapsTo[hi - lo - 1] /\ r \in TreapsTo[hi - lo - 1]
  BY <1>2, <1>3, TreapsGrow
<1>5. /\ z \in Nodes(TreapsTo[hi - lo - 1])
      /\ z.start = m.start /\ z.end = m.end /\ z.prio = m.prio
      /\ z.capacity = m.capacity /\ z.own = m.own
      /\ z.add = m.add /\ z.setCap = m.setCap
      /\ z.left = l /\ z.right = r
      /\ \A s \in Strengths : /\ z.min[s] = LeastOf(m, l, r, s)
                              /\ z.peak[s] = PeakOf(m, l, r, s)
  BY <1>2, <1>4, RebuiltFields
<1>6. z # None /\ z \in Treaps
  <2>1. z \in TreapsTo[hi - lo] /\ z # None
    BY <1>2, <1>5, NodeIsTreap
  <2>2. hi - lo \in 0..Horizon /\ Horizon \in 0..Horizon
    BY <1>2, EnvelopeAssumption
  <2> QED BY <2>1, <2>2, TreapsGrow DEF Treaps
<1>7. SaysBoth(z, l, m, r, lo, hi)
  <2>1. ASSUME NEW t \in lo..(m.start - 1)
        PROVE  ValuesAt(z, t) = ValuesAt(l, t)
    <3>1. t < z.start /\ ~Covers(z, t)
      BY <1>1, <1>5 DEF Covers
    <3>2. ValuesAt(z, t) = Under(z, ValuesAt(l, t))
      BY <1>5, <1>6, <3>1, ValuesLaw
    <3> QED BY <1>1, <1>5, <3>2, SoundInstant, UnderNothing
  <2>2. ASSUME NEW t \in m.start..(m.end - 1)
        PROVE  ValuesAt(z, t) = [capacity |-> m.capacity, own |-> m.own]
    <3>1. Covers(z, t)
      BY <1>1, <1>5 DEF Covers
    <3> QED BY <1>5, <1>6, <3>1, ValuesLaw
  <2>3. ASSUME NEW t \in m.end..(hi - 1)
        PROVE  ValuesAt(z, t) = ValuesAt(r, t)
    <3>1. ~(t < z.start) /\ ~Covers(z, t)
      BY <1>1, <1>5 DEF Covers
    <3>2. ValuesAt(z, t) = Under(z, ValuesAt(r, t))
      BY <1>5, <1>6, <3>1, ValuesLaw
    <3> QED BY <1>1, <1>5, <3>2, SoundInstant, UnderNothing
  <2> QED BY <2>1, <2>2, <2>3 DEF SaysBoth, Same, SaysCell
<1>8. ASSUME K = {}
      PROVE  SumsRight(z, lo, hi)
  <2>1. UpTo(K, m.start) = {} /\ After(K, m.start) = {}
    BY <1>8 DEF UpTo, After
  <2>2. l # None => SumsRight(l, lo, m.start)
    BY <2>1, SoundNode DEF Placed
  <2>3. r # None => SumsRight(r, m.end, hi)
    BY <2>1, SoundNode DEF Placed
  <2>4. \A t \in lo..(hi - 1) : ValuesAt(z, t) \in Value
    BY <1>6, ValuesType
  <2> QED BY <1>2, <1>3, <1>4, <1>5, <1>7, <2>2, <2>3, <2>4, RebuiltSums
<1>9. Placed(z, lo, hi, p, K)
  BY <1>1, <1>5, <1>8 DEF Placed, Clear
<1>10. Sound(z, lo, hi, p, K)
  BY <1>5, <1>9, SoundOver
<1> QED BY <1>5, <1>6, <1>7, <1>10

\* The bound a treap needs is the priority of its root.
LEMMA SoundAtRoot ==
  ASSUME NEW n, NEW lo, NEW hi, NEW p, NEW K, Sound(n, lo, hi, p, K), n # None
  PROVE  Sound(n, lo, hi, n.prio, K) /\ n.prio \in Nat /\ n.prio <= p
<1>1. /\ hi - lo \in 1..Horizon /\ n \in Nodes(TreapsTo[hi - lo - 1])
      /\ Placed(n, lo, hi, p, K)
      /\ Sound(n.left, lo, n.start, n.prio, UpTo(K, n.start))
      /\ Sound(n.right, n.end, hi, n.prio, After(K, n.start))
  BY SoundNode
<1>2. /\ lo \in Int /\ hi \in Int /\ hi - lo <= Horizon /\ K \in SUBSET Int
  BY SoundType, EnvelopeAssumption
<1>3. n.prio \in Nat /\ n.prio <= n.prio /\ n.prio <= p
  BY <1>1, NodeFields DEF Placed
<1>4. Placed(n, lo, hi, n.prio, K)
  BY <1>1, <1>3 DEF Placed
<1> QED BY <1>1, <1>2, <1>3, <1>4, SoundOver

-----------------------------------------------------------------------------
(* Merge.                                                                  *)

\* z is sound and says what a says up to mid and what b says from there on.
Merged(z, a, b, lo, mid, hi, p, K) ==
  Sound(z, lo, hi, p, K) /\ Same(z, a, lo, mid) /\ Same(z, b, mid, hi)

\* The keys of K are not above mid, those of J not below it.
Aside(K, J, mid) == (\A k \in K : k <= mid) /\ \A k \in J : mid <= k

\* Two treaps of [lo, mid) and of [mid, hi), with their keys on their sides.
Adjoin(a, b, lo, mid, hi, p, K, J) ==
  /\ Sound(a, lo, mid, p, K) /\ Sound(b, mid, hi, p, J) /\ hi - lo <= Horizon
  /\ Aside(K, J, mid)

\* The keys beside a cell, when those of K are below it.
LEMMA KeysBesideRight ==
  ASSUME NEW K \in SUBSET Int, NEW J \in SUBSET Int, NEW mid \in Int,
         Aside(K, J, mid), NEW start \in Int, mid <= start
  PROVE  /\ UpTo(K \cup J, start) = K \cup UpTo(J, start)
         /\ After(K \cup J, start) = After(J, start)
<1> SUFFICES ASSUME NEW k \in K \cup J
             PROVE  /\ k <= start <=> k \in K \/ (k \in J /\ k <= start)
                    /\ k > start <=> k \in J /\ k > start
  BY DEF UpTo, After
<1>1. k \in Int /\ (k \in K => k <= start)
  BY DEF Aside
<1> QED BY <1>1

MergesUpTo(w) ==
  \A a, b, lo, mid, hi, p, K, J :
    Adjoin(a, b, lo, mid, hi, p, K, J) /\ hi - lo <= w
    => Merged(Merge(a, b), a, b, lo, mid, hi, p, K \cup J)

\* The root of the left treap stays one.
LEMMA MergeDownLeft ==
  ASSUME NEW a, NEW b, NEW lo, NEW mid, NEW hi, NEW p, NEW K, NEW J,
         Adjoin(a, b, lo, mid, hi, p, K, J), a # None, b # None, a.prio > b.prio,
         MergesUpTo(hi - lo - 1)
  PROVE  Merged(Merge(a, b), a, b, lo, mid, hi, p, K \cup J)
<1>1. /\ Sound(a, lo, mid, p, K) /\ Sound(b, mid, hi, p, J) /\ hi - lo <= Horizon
      /\ Aside(K, J, mid)
  BY DEF Adjoin
<1>2. /\ lo \in Int /\ mid \in Int /\ hi \in Int /\ p \in Nat /\ lo <= mid /\ mid <= hi
      /\ K \in SUBSET Int /\ J \in SUBSET Int
  BY <1>1, SoundType
<1>3. PICK n : n = Push(a)
  OBVIOUS
<1>4. /\ mid - lo - 1 \in 0..Horizon /\ n \in Nodes(TreapsTo[mid - lo - 1])
      /\ n.start \in Int /\ n.end \in Int /\ n.prio \in Nat
      /\ lo <= n.start /\ n.start < n.end /\ n.end <= mid /\ n.prio <= p
      /\ n.prio = a.prio /\ n.add = Nothing /\ n.setCap = None
      /\ Clear(n, K)
      /\ Sound(n.left, lo, n.start, n.prio, UpTo(K, n.start))
      /\ Sound(n.right, n.end, mid, n.prio, After(K, n.start))
      /\ Same(a, n.left, lo, n.start)
      /\ SaysCell(a, n, n.start, n.end)
      /\ Same(a, n.right, n.end, mid)
  BY <1>1, <1>3, PushSound
<1>5. Sound(b, mid, hi, n.prio, J)
  <2>1. Sound(b, mid, hi, b.prio, J) /\ b.prio \in Nat
    BY <1>1, SoundAtRoot
  <2>2. b.prio <= n.prio /\ Extends(J, J, mid, hi)
    BY <1>2, <1>4, <2>1 DEF Extends, Aside
  <2> QED BY <1>4, <2>1, <2>2, Widen
<1>6. PICK x : x = Merge(n.right, b)
  OBVIOUS
<1>7. Merged(x, n.right, b, n.end, mid, hi, n.prio, After(K, n.start) \cup J)
  <2>1. hi - n.end <= Horizon /\ hi - n.end <= hi - lo - 1
    BY <1>1, <1>2, <1>4, EnvelopeAssumption
  <2>2. Adjoin(n.right, b, n.end, mid, hi, n.prio, After(K, n.start), J)
    BY <1>1, <1>4, <1>5, <2>1 DEF Adjoin, Aside, After
  <2> QED BY <1>6, <2>1, <2>2 DEF MergesUpTo
<1>8. PICK z : z = Rebuilt(n, n.left, x)
  OBVIOUS
<1>9. Merge(a, b) = z
  <2>1. a \in Treaps /\ b \in Treaps
    BY <1>1, SoundTreap
  <2>2. Merge(a, b) = WithRight(n, x)
    BY <1>3, <1>6, <2>1, MergeLaw
  <2> QED BY <1>4, <1>8, <2>2, WithIsRebuilt
<1>10. Sound(z, lo, hi, p, K \cup J) /\ SaysBoth(z, n.left, n, x, lo, hi)
  <2>1. Rests(n, lo, hi)
    BY <1>2, <1>4 DEF Rests
  <2>2. Clear(n, K \cup J)
    <3>1. \A k \in K \cup J : k \in Int /\ (k \in K \/ mid <= k)
      BY <1>1, <1>2 DEF Aside
    <3>2. \A k \in K : ~(n.start < k /\ k < n.end)
      BY <1>4 DEF Clear
    <3>3. \A k \in Int : mid <= k => ~(k < n.end)
      BY <1>2, <1>4
    <3> QED BY <3>1, <3>2, <3>3 DEF Clear
  <2>3. /\ UpTo(K \cup J, n.start) = UpTo(K, n.start)
        /\ After(K \cup J, n.start) = After(K, n.start) \cup J
    <3>1. n.start < mid /\ n.start \in Int /\ mid \in Int
      BY <1>2, <1>4
    <3>2. K \in SUBSET Int /\ J \in SUBSET Int /\ Aside(K, J, mid)
      BY <1>1, <1>2
    <3>3. PICK s \in Int : s = n.start /\ s < mid
      BY <3>1
    <3>4. \A k \in K \cup J : /\ k <= s <=> k \in K /\ k <= s
                             /\ k > s <=> (k \in K /\ k > s) \/ k \in J
      <4> SUFFICES ASSUME NEW k \in K \cup J
                   PROVE  /\ k <= s <=> k \in K /\ k <= s
                          /\ k > s <=> (k \in K /\ k > s) \/ k \in J
        OBVIOUS
      <4>1. k \in Int /\ (k \in J => k > s)
        BY <1>2, <3>2, <3>3 DEF Aside
      <4> QED BY <4>1
    <3>5. /\ UpTo(K \cup J, s) = UpTo(K, s)
          /\ After(K \cup J, s) = After(K, s) \cup J
      BY <3>4 DEF UpTo, After
    <3> QED BY <3>3, <3>5
  <2>4. /\ Sound(n.left, lo, n.start, n.prio, UpTo(K \cup J, n.start))
        /\ Sound(x, n.end, hi, n.prio, After(K \cup J, n.start))
    BY <1>4, <1>7, <2>3 DEF Merged
  <2>5. K \cup J \in SUBSET Int
    BY <1>2
  <2> QED BY <1>1, <1>2, <1>4, <1>8, <2>1, <2>2, <2>4, <2>5, RebuiltSound
<1>11. Same(x, n.right, n.end, mid) /\ Same(x, b, mid, hi)
  BY <1>7 DEF Merged
<1>12. Same(z, n.left, lo, n.start) /\ SaysCell(z, n, n.start, n.end) /\ Same(z, x, n.end, hi)
  BY <1>10 DEF SaysBoth
<1>13. Same(z, a, lo, mid)
  <2> SUFFICES ASSUME NEW t \in lo..(mid - 1)
               PROVE  ValuesAt(z, t) = ValuesAt(a, t)
    BY DEF Same
  <2>1. CASE t \in lo..(n.start - 1)
    BY <1>4, <1>12, <2>1 DEF Same
  <2>2. CASE t \in n.start..(n.end - 1)
    BY <1>4, <1>12, <2>2 DEF SaysCell
  <2>3. CASE t \in n.end..(mid - 1)
    <3>1. t \in n.end..(hi - 1)
      BY <1>2, <1>4, <2>3
    <3> QED BY <1>4, <1>11, <1>12, <2>3, <3>1 DEF Same
  <2> QED BY <1>2, <1>4, <2>1, <2>2, <2>3
<1>14. Same(z, b, mid, hi)
  <2> SUFFICES ASSUME NEW t \in mid..(hi - 1)
               PROVE  ValuesAt(z, t) = ValuesAt(b, t)
    BY DEF Same
  <2>1. t \in n.end..(hi - 1)
    BY <1>2, <1>4
  <2> QED BY <1>11, <1>12, <2>1 DEF Same
<1> QED BY <1>9, <1>10, <1>13, <1>14 DEF Merged

\* The root of the right treap stays one.
LEMMA MergeDownRight ==
  ASSUME NEW a, NEW b, NEW lo, NEW mid, NEW hi, NEW p, NEW K, NEW J,
         Adjoin(a, b, lo, mid, hi, p, K, J), a # None, b # None, ~(a.prio > b.prio),
         MergesUpTo(hi - lo - 1)
  PROVE  Merged(Merge(a, b), a, b, lo, mid, hi, p, K \cup J)
<1>1. /\ Sound(a, lo, mid, p, K) /\ Sound(b, mid, hi, p, J) /\ hi - lo <= Horizon
      /\ Aside(K, J, mid)
  BY DEF Adjoin
<1>2. /\ lo \in Int /\ mid \in Int /\ hi \in Int /\ p \in Nat /\ lo <= mid /\ mid <= hi
      /\ K \in SUBSET Int /\ J \in SUBSET Int
  BY <1>1, SoundType
<1>3. PICK n : n = Push(b)
  OBVIOUS
<1>4. /\ hi - mid - 1 \in 0..Horizon /\ n \in Nodes(TreapsTo[hi - mid - 1])
      /\ n.start \in Int /\ n.end \in Int /\ n.prio \in Nat
      /\ mid <= n.start /\ n.start < n.end /\ n.end <= hi /\ n.prio <= p
      /\ n.prio = b.prio /\ n.add = Nothing /\ n.setCap = None
      /\ Clear(n, J)
      /\ Sound(n.left, mid, n.start, n.prio, UpTo(J, n.start))
      /\ Sound(n.right, n.end, hi, n.prio, After(J, n.start))
      /\ Same(b, n.left, mid, n.start)
      /\ SaysCell(b, n, n.start, n.end)
      /\ Same(b, n.right, n.end, hi)
  BY <1>1, <1>3, PushSound
<1>5. Sound(a, lo, mid, n.prio, K)
  <2>1. Sound(a, lo, mid, a.prio, K) /\ a.prio \in Nat
    BY <1>1, SoundAtRoot
  <2>2. a.prio <= n.prio /\ Extends(K, K, lo, mid)
    BY <1>2, <1>4, <2>1 DEF Extends, Aside
  <2> QED BY <1>4, <2>1, <2>2, Widen
<1>6. PICK x : x = Merge(a, n.left)
  OBVIOUS
<1>7. Merged(x, a, n.left, lo, mid, n.start, n.prio, K \cup UpTo(J, n.start))
  <2>1. n.start - lo <= Horizon /\ n.start - lo <= hi - lo - 1
    BY <1>1, <1>2, <1>4, EnvelopeAssumption
  <2>2. Adjoin(a, n.left, lo, mid, n.start, n.prio, K, UpTo(J, n.start))
    BY <1>1, <1>4, <1>5, <2>1 DEF Adjoin, Aside, UpTo
  <2> QED BY <1>6, <2>1, <2>2 DEF MergesUpTo
<1>8. PICK z : z = Rebuilt(n, x, n.right)
  OBVIOUS
<1>9. Merge(a, b) = z
  <2>1. a \in Treaps /\ b \in Treaps
    BY <1>1, SoundTreap
  <2>2. Merge(a, b) = WithLeft(n, x)
    BY <1>3, <1>6, <2>1, MergeLaw
  <2> QED BY <1>4, <1>8, <2>2, WithIsRebuilt
<1>10. Sound(z, lo, hi, p, K \cup J) /\ SaysBoth(z, x, n, n.right, lo, hi)
  <2>1. Rests(n, lo, hi)
    BY <1>2, <1>4 DEF Rests
  <2>2. Clear(n, K \cup J)
    <3>1. \A k \in K \cup J : k \in Int /\ (k \in J \/ k <= mid)
      BY <1>1, <1>2 DEF Aside
    <3> QED BY <1>2, <1>4, <3>1 DEF Clear
  <2>3. /\ UpTo(K \cup J, n.start) = K \cup UpTo(J, n.start)
        /\ After(K \cup J, n.start) = After(J, n.start)
    <3>1. mid <= n.start /\ n.start \in Int /\ mid \in Int
      BY <1>2, <1>4
    <3>2. K \in SUBSET Int /\ J \in SUBSET Int /\ Aside(K, J, mid)
      BY <1>1, <1>2
    <3> QED BY <3>1, <3>2, KeysBesideRight
  <2>4. /\ Sound(x, lo, n.start, n.prio, UpTo(K \cup J, n.start))
        /\ Sound(n.right, n.end, hi, n.prio, After(K \cup J, n.start))
    BY <1>4, <1>7, <2>3 DEF Merged
  <2>5. K \cup J \in SUBSET Int
    BY <1>2
  <2> QED BY <1>1, <1>2, <1>4, <1>8, <2>1, <2>2, <2>4, <2>5, RebuiltSound
<1>11. Same(x, a, lo, mid) /\ Same(x, n.left, mid, n.start)
  BY <1>7 DEF Merged
<1>12. Same(z, x, lo, n.start) /\ SaysCell(z, n, n.start, n.end) /\ Same(z, n.right, n.end, hi)
  BY <1>10 DEF SaysBoth
<1>13. Same(z, b, mid, hi)
  <2> SUFFICES ASSUME NEW t \in mid..(hi - 1)
               PROVE  ValuesAt(z, t) = ValuesAt(b, t)
    BY DEF Same
  <2>1. CASE t \in mid..(n.start - 1)
    <3>1. t \in lo..(n.start - 1)
      BY <1>2, <1>4, <2>1
    <3> QED BY <1>4, <1>11, <1>12, <2>1, <3>1 DEF Same
  <2>2. CASE t \in n.start..(n.end - 1)
    BY <1>4, <1>12, <2>2 DEF SaysCell
  <2>3. CASE t \in n.end..(hi - 1)
    BY <1>4, <1>12, <2>3 DEF Same
  <2> QED BY <1>2, <1>4, <2>1, <2>2, <2>3
<1>14. Same(z, a, lo, mid)
  <2> SUFFICES ASSUME NEW t \in lo..(mid - 1)
               PROVE  ValuesAt(z, t) = ValuesAt(a, t)
    BY DEF Same
  <2>1. t \in lo..(n.start - 1)
    BY <1>2, <1>4
  <2> QED BY <1>11, <1>12, <2>1 DEF Same
<1> QED BY <1>9, <1>10, <1>13, <1>14 DEF Merged

LEMMA AllMerge == \A w \in Nat : MergesUpTo(w)
<1> DEFINE S == {w \in Nat : MergesUpTo(w)}
<1>1. ASSUME NEW w \in Nat, w # 0 => MergesUpTo(w - 1)
      PROVE  MergesUpTo(w)
  <2> SUFFICES ASSUME NEW a, NEW b, NEW lo, NEW mid, NEW hi, NEW p, NEW K, NEW J,
                      Adjoin(a, b, lo, mid, hi, p, K, J), hi - lo <= w
               PROVE  Merged(Merge(a, b), a, b, lo, mid, hi, p, K \cup J)
    BY DEF MergesUpTo
  <2>1. /\ Sound(a, lo, mid, p, K) /\ Sound(b, mid, hi, p, J)
        /\ Aside(K, J, mid)
    BY DEF Adjoin
  <2>2. /\ lo \in Int /\ mid \in Int /\ hi \in Int /\ p \in Nat /\ lo <= mid /\ mid <= hi
        /\ K \in SUBSET Int /\ J \in SUBSET Int /\ p <= p
        /\ a \in Treaps /\ b \in Treaps
        /\ a = None => lo = mid
        /\ b = None => mid = hi
    BY <2>1, SoundType, SoundTreap
  <2>3. CASE a = None
    <3>1. Extends(K \cup J, J, mid, hi)
      BY <2>1, <2>2 DEF Extends, Aside
    <3>2. Sound(b, mid, hi, p, K \cup J)
      BY <2>1, <2>2, <3>1, Widen
    <3>3. Merge(a, b) = b /\ lo = mid
      BY <2>2, <2>3, MergeLaw
    <3> QED BY <2>2, <3>2, <3>3 DEF Merged, Same
  <2>4. CASE b = None
    <3>1. Extends(K \cup J, K, lo, mid)
      BY <2>1, <2>2, <2>4 DEF Extends, Aside
    <3>2. Sound(a, lo, mid, p, K \cup J)
      BY <2>1, <2>2, <3>1, Widen
    <3>3. Merge(a, b) = a /\ hi = mid
      BY <2>2, <2>4, MergeLaw
    <3> QED BY <2>2, <3>2, <3>3 DEF Merged, Same
  <2>5. CASE a # None /\ b # None
    <3>1. mid - lo \in 1..Horizon
      BY <2>1, <2>5, SoundNode
    <3>2. w - 1 \in Nat /\ w # 0 /\ hi - lo - 1 <= w - 1
      BY <2>2, <3>1
    <3>3. MergesUpTo(w - 1)
      BY <1>1, <3>2
    <3>4. MergesUpTo(hi - lo - 1)
      <4> SUFFICES ASSUME NEW c, NEW d, NEW x, NEW y, NEW z, NEW q, NEW L, NEW M,
                          Adjoin(c, d, x, y, z, q, L, M), z - x <= hi - lo - 1
                   PROVE  Merged(Merge(c, d), c, d, x, y, z, q, L \cup M)
        BY DEF MergesUpTo
      <4>1. x \in Int /\ z \in Int
        BY SoundType DEF Adjoin
      <4>2. z - x <= w - 1
        BY <2>2, <3>2, <4>1
      <4> QED BY <3>3, <4>2 DEF MergesUpTo
    <3> QED BY <2>5, <3>4, MergeDownLeft, MergeDownRight
  <2> QED BY <2>3, <2>4, <2>5
<1>2. 0 \in S
  BY <1>1
<1>3. ASSUME NEW w \in Nat, w \in S PROVE w + 1 \in S
  BY <1>1, <1>3
<1> HIDE DEF S
<1>4. \A w \in Nat : w \in S
  BY <1>2, <1>3, SetInduction
<1> QED BY <1>4 DEF S

\* Merging keeps what both treaps say.
LEMMA MergeSound ==
  ASSUME NEW a, NEW b, NEW lo, NEW mid, NEW hi, NEW p, NEW K, NEW J,
         Adjoin(a, b, lo, mid, hi, p, K, J)
  PROVE  Merged(Merge(a, b), a, b, lo, mid, hi, p, K \cup J)
<1>1. lo \in Int /\ mid \in Int /\ hi \in Int /\ lo <= mid /\ mid <= hi
  BY SoundType DEF Adjoin
<1>2. hi - lo \in Nat /\ hi - lo <= hi - lo
  BY <1>1
<1>3. MergesUpTo(hi - lo)
  BY <1>2, AllMerge
<1> QED BY <1>2, <1>3 DEF MergesUpTo

-----------------------------------------------------------------------------
(* Split.                                                                  *)

Before(K, x) == {k \in K : k < x}

\* r is the last cell of n, which spans no key.
LastCell(n, r, lo, hi, K) ==
  /\ r.start \in Int /\ r.end = hi /\ lo <= r.start /\ r.start < hi
  /\ r.capacity \in Int /\ r.own \in [Columns -> Int]
  /\ SaysCell(n, r, r.start, hi) /\ Clear(r, K)

\* Where a treap of [lo, hi) falls apart at a key that is one of its boundaries.
CutsAt(m, key, lo, hi) ==
  /\ key <= lo => m = lo
  /\ lo <= key /\ key <= hi => m = key
  /\ hi <= key => m = hi

\* The parts of n divide [lo, hi) at m, and the keys at key.
Divided(parts, n, key, lo, m, hi, p, K) ==
  /\ Sound(parts.low, lo, m, p, Before(K, key)) /\ Same(parts.low, n, lo, m)
  /\ Sound(parts.high, m, hi, p, After(K, key)) /\ Same(parts.high, n, m, hi)
  /\ m = hi \/ key <= m
  /\ key \in K => CutsAt(m, key, lo, hi)
  /\ parts.low # None =>
       LastCell(parts.low, Rightmost(parts.low), lo, m, K)
         /\ Rightmost(parts.low).start < key

SplitsUpTo(w, key) ==
  \A n, lo, hi, p, K :
    Sound(n, lo, hi, p, K) /\ hi - lo <= w
    => \E m \in Int : Divided(Split(n, key), n, key, lo, m, hi, p, K)

\* Keys on both sides of a cell, and of a key beside it.
LEMMA KeysOfParts ==
  ASSUME NEW K \in SUBSET Int, NEW key \in Int, NEW start \in Int
  PROVE  /\ start < key => /\ UpTo(Before(K, key), start) = UpTo(K, start)
                           /\ After(Before(K, key), start) = Before(After(K, start), key)
                           /\ After(After(K, start), key) = After(K, key)
         /\ key <= start => /\ Before(UpTo(K, start), key) = Before(K, key)
                            /\ UpTo(After(K, key), start) = After(UpTo(K, start), key)
                            /\ After(After(K, key), start) = After(K, start)
<1>1. ASSUME start < key
      PROVE  \A k \in Int : (k <= start => k < key) /\ (k > key => k > start)
  BY <1>1
<1>2. ASSUME key <= start
      PROVE  \A k \in Int : (k < key => k <= start) /\ (k > start => k > key)
  BY <1>2
<1>3. \A k \in K : k \in Int
  OBVIOUS
<1>4. ASSUME start < key
      PROVE  /\ UpTo(Before(K, key), start) = UpTo(K, start)
             /\ After(Before(K, key), start) = Before(After(K, start), key)
             /\ After(After(K, start), key) = After(K, key)
  BY <1>1, <1>3, <1>4 DEF UpTo, After, Before
<1>5. ASSUME key <= start
      PROVE  /\ Before(UpTo(K, start), key) = Before(K, key)
             /\ UpTo(After(K, key), start) = After(UpTo(K, start), key)
             /\ After(After(K, key), start) = After(K, start)
  BY <1>2, <1>3, <1>5 DEF UpTo, After, Before
<1> QED BY <1>4, <1>5

\* The root goes to the low part.
LEMMA SplitKeepsLow ==
  ASSUME NEW n, NEW lo, NEW hi, NEW p, NEW K, Sound(n, lo, hi, p, K), n # None,
         NEW key \in Int, Push(n).start < key, SplitsUpTo(hi - lo - 1, key)
  PROVE  \E m \in Int : Divided(Split(n, key), n, key, lo, m, hi, p, K)
<1>1. /\ lo \in Int /\ hi \in Int /\ hi - lo <= Horizon /\ p \in Nat
      /\ K \in SUBSET Int /\ n \in Treaps
  BY SoundType, SoundTreap, EnvelopeAssumption
<1>2. PICK a : a = Push(n)
  OBVIOUS
<1>3. /\ hi - lo - 1 \in 0..Horizon /\ a \in Nodes(TreapsTo[hi - lo - 1])
      /\ a.start \in Int /\ a.end \in Int /\ a.prio \in Nat
      /\ lo <= a.start /\ a.start < a.end /\ a.end <= hi /\ a.prio <= p
      /\ a.add = Nothing /\ a.setCap = None
      /\ Clear(a, K)
      /\ Sound(a.left, lo, a.start, a.prio, UpTo(K, a.start))
      /\ Sound(a.right, a.end, hi, a.prio, After(K, a.start))
      /\ Same(n, a.left, lo, a.start)
      /\ SaysCell(n, a, a.start, a.end)
      /\ Same(n, a.right, a.end, hi)
  BY <1>2, PushSound
<1>4. PICK parts : parts = Split(a.right, key)
  OBVIOUS
<1>5. PICK m \in Int : Divided(parts, a.right, key, a.end, m, hi, a.prio, After(K, a.start))
  <2>1. hi - a.end <= hi - lo - 1
    BY <1>1, <1>3
  <2> QED BY <1>3, <1>4, <2>1 DEF SplitsUpTo
<1>6. /\ UpTo(Before(K, key), a.start) = UpTo(K, a.start)
      /\ After(Before(K, key), a.start) = Before(After(K, a.start), key)
      /\ After(After(K, a.start), key) = After(K, key)
  BY <1>1, <1>2, <1>3, KeysOfParts
<1>7. /\ Sound(parts.low, a.end, m, a.prio, Before(After(K, a.start), key))
      /\ Same(parts.low, a.right, a.end, m)
      /\ Sound(parts.high, m, hi, a.prio, After(K, key))
      /\ Same(parts.high, a.right, m, hi)
      /\ m = hi \/ key <= m
      /\ key \in After(K, a.start) => CutsAt(m, key, a.end, hi)
      /\ parts.low # None =>
           LastCell(parts.low, Rightmost(parts.low), a.end, m, After(K, a.start))
             /\ Rightmost(parts.low).start < key
  BY <1>5, <1>6 DEF Divided
<1>8. a.end <= m /\ m <= hi /\ (parts.low = None => m = a.end)
  BY <1>7, SoundType
<1>9. PICK z : z = Rebuilt(a, a.left, parts.low)
  OBVIOUS
<1>10. Split(n, key).low = z /\ Split(n, key).high = parts.high
  <2>1. Split(n, key) = KeepLow(a, parts)
    BY <1>1, <1>2, <1>4, SplitLaw
  <2>2. WithRight(a, parts.low) = z
    BY <1>3, <1>9, WithIsRebuilt
  <2> QED BY <2>1, <2>2 DEF KeepLow
<1>11. /\ Sound(z, lo, m, p, Before(K, key)) /\ z # None /\ z \in Treaps
       /\ z.right = parts.low /\ z.start = a.start /\ z.end = a.end
       /\ z.capacity = a.capacity /\ z.own = a.own
       /\ SaysBoth(z, a.left, a, parts.low, lo, m)
  <2>1. Rests(a, lo, m) /\ m - lo <= Horizon
    BY <1>1, <1>3, <1>8, EnvelopeAssumption DEF Rests
  <2>2. Clear(a, Before(K, key)) /\ Before(K, key) \in SUBSET Int
    BY <1>1, <1>3 DEF Clear, Before
  <2>3. /\ Sound(a.left, lo, a.start, a.prio, UpTo(Before(K, key), a.start))
        /\ Sound(parts.low, a.end, m, a.prio, After(Before(K, key), a.start))
    BY <1>3, <1>6, <1>7
  <2> QED BY <1>1, <1>3, <1>9, <2>1, <2>2, <2>3, RebuiltSound, SoundTreap
<1>12. /\ Same(z, a.left, lo, a.start) /\ SaysCell(z, a, a.start, a.end)
       /\ Same(z, parts.low, a.end, m)
  BY <1>11 DEF SaysBoth
<1>13. Same(z, n, lo, m)
  <2> SUFFICES ASSUME NEW t \in lo..(m - 1)
               PROVE  ValuesAt(z, t) = ValuesAt(n, t)
    BY DEF Same
  <2>1. CASE t \in lo..(a.start - 1)
    BY <1>3, <1>12, <2>1 DEF Same
  <2>2. CASE t \in a.start..(a.end - 1)
    BY <1>3, <1>12, <2>2 DEF SaysCell
  <2>3. CASE t \in a.end..(m - 1)
    <3>1. t \in a.end..(hi - 1)
      BY <1>1, <1>3, <1>8, <2>3
    <3> QED BY <1>3, <1>7, <1>12, <2>3, <3>1 DEF Same
  <2> QED BY <1>1, <1>3, <1>8, <2>1, <2>2, <2>3
<1>14. Same(parts.high, n, m, hi)
  <2> SUFFICES ASSUME NEW t \in m..(hi - 1)
               PROVE  ValuesAt(parts.high, t) = ValuesAt(n, t)
    BY DEF Same
  <2>1. t \in a.end..(hi - 1)
    BY <1>1, <1>3, <1>8
  <2> QED BY <1>3, <1>7, <2>1 DEF Same
<1>15. Sound(parts.high, m, hi, p, After(K, key))
  <2>1. Extends(After(K, key), After(K, key), m, hi)
    BY <1>1 DEF Extends, After
  <2> QED BY <1>1, <1>3, <1>7, <2>1, Widen
<1>16. ASSUME key \in K
       PROVE  CutsAt(m, key, lo, hi)
  <2>1. a.end <= key /\ key \in After(K, a.start)
    BY <1>2, <1>3, <1>16 DEF Clear, After
  <2> QED BY <1>1, <1>3, <1>7, <2>1 DEF CutsAt
<1>17. LastCell(z, Rightmost(z), lo, m, K) /\ Rightmost(z).start < key
  <2>1. CASE parts.low = None
    <3>1. Rightmost(z) = z
      BY <1>11, <2>1, LastLaw
    <3>2. a.capacity \in Int /\ a.own \in [Columns -> Int]
      BY <1>3, NodeFields
    <3>3. Clear(z, K) /\ SaysCell(z, z, z.start, z.end)
      BY <1>3, <1>11, <1>12 DEF Clear, SaysCell
    <3>4. z.end = m /\ lo <= z.start /\ z.start < m /\ z.start < key /\ z.start \in Int
      BY <1>2, <1>3, <1>8, <1>11, <2>1
    <3> QED BY <1>11, <3>1, <3>2, <3>3, <3>4 DEF LastCell
  <2>2. CASE parts.low # None
    <3>1. PICK r : r = Rightmost(parts.low)
      OBVIOUS
    <3>2. Rightmost(z) = r
      BY <1>11, <2>2, <3>1, LastLaw
    <3>3. /\ r.start \in Int /\ r.end = m /\ a.end <= r.start /\ r.start < m
          /\ r.capacity \in Int /\ r.own \in [Columns -> Int]
          /\ SaysCell(parts.low, r, r.start, m) /\ Clear(r, After(K, a.start))
          /\ r.start < key
      BY <1>7, <2>2, <3>1 DEF LastCell
    <3>4. lo <= r.start
      BY <1>1, <1>3, <3>3
    <3>5. SaysCell(z, r, r.start, m)
      <4> SUFFICES ASSUME NEW t \in r.start..(m - 1)
                   PROVE  ValuesAt(z, t) = [capacity |-> r.capacity, own |-> r.own]
        BY DEF SaysCell
      <4>1. t \in a.end..(m - 1)
        BY <1>3, <3>3
      <4> QED BY <1>12, <3>3, <4>1 DEF Same, SaysCell
    <3>6. Clear(r, K)
      <4> SUFFICES ASSUME NEW k \in K, r.start < k, k < r.end
                   PROVE  FALSE
        BY DEF Clear
      <4>1. k \in Int /\ k > a.start
        BY <1>1, <1>3, <3>3
      <4> QED BY <3>3, <4>1 DEF Clear, After
    <3> QED BY <3>2, <3>3, <3>4, <3>5, <3>6 DEF LastCell
  <2> QED BY <2>1, <2>2
<1>18. Divided(Split(n, key), n, key, lo, m, hi, p, K)
  BY <1>7, <1>10, <1>11, <1>13, <1>14, <1>15, <1>16, <1>17 DEF Divided
<1> QED BY <1>18

\* The root goes to the high part.
LEMMA SplitKeepsHigh ==
  ASSUME NEW n, NEW lo, NEW hi, NEW p, NEW K, Sound(n, lo, hi, p, K), n # None,
         NEW key \in Int, ~(Push(n).start < key), SplitsUpTo(hi - lo - 1, key)
  PROVE  \E m \in Int : Divided(Split(n, key), n, key, lo, m, hi, p, K)
<1>1. /\ lo \in Int /\ hi \in Int /\ hi - lo <= Horizon /\ p \in Nat
      /\ K \in SUBSET Int /\ n \in Treaps
  BY SoundType, SoundTreap, EnvelopeAssumption
<1>2. PICK a : a = Push(n)
  OBVIOUS
<1>3. /\ hi - lo - 1 \in 0..Horizon /\ a \in Nodes(TreapsTo[hi - lo - 1])
      /\ a.start \in Int /\ a.end \in Int /\ a.prio \in Nat
      /\ lo <= a.start /\ a.start < a.end /\ a.end <= hi /\ a.prio <= p
      /\ a.add = Nothing /\ a.setCap = None
      /\ Clear(a, K)
      /\ Sound(a.left, lo, a.start, a.prio, UpTo(K, a.start))
      /\ Sound(a.right, a.end, hi, a.prio, After(K, a.start))
      /\ Same(n, a.left, lo, a.start)
      /\ SaysCell(n, a, a.start, a.end)
      /\ Same(n, a.right, a.end, hi)
      /\ key <= a.start
  <2>1. a.start \in Int
    BY <1>2, PushSound
  <2>2. key <= a.start
    BY <1>2, <2>1
  <2> QED BY <1>2, <2>2, PushSound
<1>4. PICK parts : parts = Split(a.left, key)
  OBVIOUS
<1>5. PICK m \in Int :
        Divided(parts, a.left, key, lo, m, a.start, a.prio, UpTo(K, a.start))
  <2>1. a.start - lo <= hi - lo - 1
    BY <1>1, <1>3
  <2> QED BY <1>3, <1>4, <2>1 DEF SplitsUpTo
<1>6. /\ Before(UpTo(K, a.start), key) = Before(K, key)
      /\ UpTo(After(K, key), a.start) = After(UpTo(K, a.start), key)
      /\ After(After(K, key), a.start) = After(K, a.start)
  BY <1>1, <1>3, KeysOfParts
<1>7. /\ Sound(parts.low, lo, m, a.prio, Before(K, key))
      /\ Same(parts.low, a.left, lo, m)
      /\ Sound(parts.high, m, a.start, a.prio, After(UpTo(K, a.start), key))
      /\ Same(parts.high, a.left, m, a.start)
      /\ m = a.start \/ key <= m
      /\ key \in UpTo(K, a.start) => CutsAt(m, key, lo, a.start)
      /\ parts.low # None =>
           LastCell(parts.low, Rightmost(parts.low), lo, m, UpTo(K, a.start))
             /\ Rightmost(parts.low).start < key
  BY <1>5, <1>6 DEF Divided
<1>8. lo <= m /\ m <= a.start /\ key <= m
  BY <1>3, <1>7, SoundType
<1>9. PICK z : z = Rebuilt(a, parts.high, a.right)
  OBVIOUS
<1>10. Split(n, key).high = z /\ Split(n, key).low = parts.low
  <2>1. Split(n, key) = KeepHigh(a, parts)
    BY <1>1, <1>2, <1>4, SplitLaw
  <2>2. WithLeft(a, parts.high) = z
    BY <1>3, <1>9, WithIsRebuilt
  <2> QED BY <2>1, <2>2 DEF KeepHigh
<1>11. /\ Sound(z, m, hi, p, After(K, key))
       /\ SaysBoth(z, parts.high, a, a.right, m, hi)
  <2>1. Rests(a, m, hi) /\ hi - m <= Horizon
    BY <1>1, <1>3, <1>8, EnvelopeAssumption DEF Rests
  <2>2. Clear(a, After(K, key)) /\ After(K, key) \in SUBSET Int
    BY <1>1, <1>3 DEF Clear, After
  <2>3. /\ Sound(parts.high, m, a.start, a.prio, UpTo(After(K, key), a.start))
        /\ Sound(a.right, a.end, hi, a.prio, After(After(K, key), a.start))
    BY <1>3, <1>6, <1>7
  <2> QED BY <1>1, <1>3, <1>9, <2>1, <2>2, <2>3, RebuiltSound
<1>12. /\ Same(z, parts.high, m, a.start) /\ SaysCell(z, a, a.start, a.end)
       /\ Same(z, a.right, a.end, hi)
  BY <1>11 DEF SaysBoth
<1>13. Same(z, n, m, hi)
  <2> SUFFICES ASSUME NEW t \in m..(hi - 1)
               PROVE  ValuesAt(z, t) = ValuesAt(n, t)
    BY DEF Same
  <2>1. CASE t \in m..(a.start - 1)
    <3>1. t \in lo..(a.start - 1)
      BY <1>1, <1>3, <1>8, <2>1
    <3> QED BY <1>3, <1>7, <1>12, <2>1, <3>1 DEF Same
  <2>2. CASE t \in a.start..(a.end - 1)
    BY <1>3, <1>12, <2>2 DEF SaysCell
  <2>3. CASE t \in a.end..(hi - 1)
    BY <1>3, <1>12, <2>3 DEF Same
  <2> QED BY <1>1, <1>3, <1>8, <2>1, <2>2, <2>3
<1>14. Same(parts.low, n, lo, m)
  <2> SUFFICES ASSUME NEW t \in lo..(m - 1)
               PROVE  ValuesAt(parts.low, t) = ValuesAt(n, t)
    BY DEF Same
  <2>1. t \in lo..(a.start - 1)
    BY <1>1, <1>3, <1>8
  <2> QED BY <1>3, <1>7, <2>1 DEF Same
<1>15. Sound(parts.low, lo, m, p, Before(K, key))
  <2>1. Extends(Before(K, key), Before(K, key), lo, m)
    BY <1>1 DEF Extends, Before
  <2> QED BY <1>1, <1>3, <1>7, <2>1, Widen
<1>16. ASSUME key \in K
       PROVE  CutsAt(m, key, lo, hi)
  <2>1. key \in UpTo(K, a.start)
    BY <1>3, <1>16 DEF UpTo
  <2> QED BY <1>1, <1>3, <1>7, <2>1 DEF CutsAt
<1>17. ASSUME parts.low # None
       PROVE  LastCell(parts.low, Rightmost(parts.low), lo, m, K)
  <2>1. PICK r : r = Rightmost(parts.low)
    OBVIOUS
  <2>2. LastCell(parts.low, r, lo, m, UpTo(K, a.start))
    BY <1>7, <1>17, <2>1
  <2>3. Clear(r, K)
    <3> SUFFICES ASSUME NEW k \in K, r.start < k, k < r.end
                 PROVE  FALSE
      BY DEF Clear
    <3>1. k \in Int /\ k <= a.start
      BY <1>1, <1>3, <1>8, <2>2 DEF LastCell
    <3> QED BY <2>2, <3>1 DEF LastCell, Clear, UpTo
  <2> QED BY <2>1, <2>2, <2>3 DEF LastCell
<1>18. Divided(Split(n, key), n, key, lo, m, hi, p, K)
  BY <1>7, <1>8, <1>10, <1>11, <1>13, <1>14, <1>15, <1>16, <1>17 DEF Divided
<1> QED BY <1>18

\* Splitting keeps what the treap says.
LEMMA SplitSound ==
  ASSUME NEW n, NEW lo, NEW hi, NEW p, NEW K, Sound(n, lo, hi, p, K), NEW key \in Int
  PROVE  \E m \in Int : /\ Divided(Split(n, key), n, key, lo, m, hi, p, K)
                        /\ lo <= m /\ m <= hi
<1> DEFINE S == {w \in Nat : SplitsUpTo(w, key)}
<1>1. ASSUME NEW w \in Nat, w # 0 => SplitsUpTo(w - 1, key)
      PROVE  SplitsUpTo(w, key)
  <2> SUFFICES ASSUME NEW c, NEW x, NEW y, NEW q, NEW J,
                      Sound(c, x, y, q, J), y - x <= w
               PROVE  \E m \in Int : Divided(Split(c, key), c, key, x, m, y, q, J)
    BY DEF SplitsUpTo
  <2>1. /\ x \in Int /\ y \in Int /\ q \in Nat /\ J \in SUBSET Int /\ c \in Treaps
        /\ c = None => x = y
    BY SoundType, SoundTreap
  <2>2. CASE c = None
    <3>1. Split(c, key).low = None /\ Split(c, key).high = None
      BY <2>1, <2>2, SplitLaw
    <3>2. Sound(None, x, x, q, Before(J, key)) /\ Sound(None, x, x, q, After(J, key))
      <4>1. Before(J, key) \in SUBSET Int /\ After(J, key) \in SUBSET Int
        BY <2>1 DEF Before, After
      <4> QED BY <2>1, <4>1, SoundNone
    <3>3. CutsAt(x, key, x, y)
      BY <2>1, <2>2 DEF CutsAt
    <3>4. Same(None, c, x, x)
      BY <2>2 DEF Same
    <3>5. Divided(Split(c, key), c, key, x, x, y, q, J)
      BY <2>1, <2>2, <3>1, <3>2, <3>3, <3>4 DEF Divided
    <3> QED BY <2>1, <3>5
  <2>3. CASE c # None
    <3>1. y - x \in 1..Horizon
      BY <2>3, SoundNode
    <3>2. w - 1 \in Nat /\ w # 0 /\ y - x - 1 <= w - 1
      BY <2>1, <3>1
    <3>3. SplitsUpTo(w - 1, key)
      BY <1>1, <3>2
    <3>4. SplitsUpTo(y - x - 1, key)
      <4> SUFFICES ASSUME NEW d, NEW u, NEW v, NEW r, NEW L,
                          Sound(d, u, v, r, L), v - u <= y - x - 1
                   PROVE  \E m \in Int : Divided(Split(d, key), d, key, u, m, v, r, L)
        BY DEF SplitsUpTo
      <4>1. u \in Int /\ v \in Int
        BY SoundType
      <4>2. v - u <= w - 1
        BY <2>1, <3>2, <4>1
      <4> QED BY <3>3, <4>2 DEF SplitsUpTo
    <3> QED BY <2>3, <3>4, SplitKeepsLow, SplitKeepsHigh
  <2> QED BY <2>2, <2>3
<1>2. 0 \in S
  BY <1>1
<1>3. ASSUME NEW w \in Nat, w \in S PROVE w + 1 \in S
  BY <1>1, <1>3
<1>4. \A w \in Nat : w \in S
  <2> HIDE DEF S
  <2> QED BY <1>2, <1>3, SetInduction
<1>5. hi - lo \in Nat /\ hi - lo <= hi - lo
  BY SoundType, EnvelopeAssumption
<1>6. PICK m \in Int : Divided(Split(n, key), n, key, lo, m, hi, p, K)
  BY <1>4, <1>5 DEF SplitsUpTo
<1>7. lo <= m /\ m <= hi
  <2>1. /\ Sound(Split(n, key).low, lo, m, p, Before(K, key))
        /\ Sound(Split(n, key).high, m, hi, p, After(K, key))
    BY <1>6 DEF Divided
  <2> QED BY <2>1, SoundType
<1> QED BY <1>6, <1>7

-----------------------------------------------------------------------------
(* Boundaries.                                                             *)

\* The start of the last cell does not depend on what waits above it.
LEMMA InheritLast ==
  ASSUME NEW c \in Treaps, c # None, NEW n, Waits(n)
  PROVE  Rightmost(Inherit(c, n)).start = Rightmost(c).start
<1>1. PICK m : m = Inherit(c, n)
  OBVIOUS
<1>2. m \in Treaps /\ m # None /\ m.start = c.start /\ m.right = c.right
  <2>1. Horizon \in 0..Horizon /\ c \in TreapsTo[Horizon]
    BY EnvelopeAssumption DEF Treaps
  <2> QED BY <1>1, <2>1, InheritFields DEF Treaps
<1>3. CASE c.right = None
  BY <1>1, <1>2, <1>3, LastLaw
<1>4. CASE c.right # None
  BY <1>1, <1>2, <1>4, LastLaw
<1> QED BY <1>3, <1>4

DetachesUpTo(w) ==
  \A n, lo, hi, p, K :
    Sound(n, lo, hi, p, K) /\ n # None /\ hi - lo <= w
    => /\ Rightmost(n).start \in Int
       /\ lo <= Rightmost(n).start /\ Rightmost(n).start < hi
       /\ Sound(DetachMax(n), lo, Rightmost(n).start, p, K)
       /\ Same(DetachMax(n), n, lo, Rightmost(n).start)

\* Without its last cell a treap says what it said before that cell.
LEMMA AllDetach == \A w \in Nat : DetachesUpTo(w)
<1> DEFINE S == {w \in Nat : DetachesUpTo(w)}
<1>1. ASSUME NEW w \in Nat, w # 0 => DetachesUpTo(w - 1)
      PROVE  DetachesUpTo(w)
  <2> SUFFICES ASSUME NEW n, NEW lo, NEW hi, NEW p, NEW K,
                      Sound(n, lo, hi, p, K), n # None, hi - lo <= w
               PROVE  /\ Rightmost(n).start \in Int
                      /\ lo <= Rightmost(n).start /\ Rightmost(n).start < hi
                      /\ Sound(DetachMax(n), lo, Rightmost(n).start, p, K)
                      /\ Same(DetachMax(n), n, lo, Rightmost(n).start)
    BY DEF DetachesUpTo
  <2>1. /\ lo \in Int /\ hi \in Int /\ hi - lo <= Horizon /\ p \in Nat
        /\ K \in SUBSET Int /\ n \in Treaps /\ n.right \in Treaps
    BY SoundType, SoundTreap, EnvelopeAssumption
  <2>2. PICK a : a = Push(n)
    OBVIOUS
  <2>3. /\ hi - lo - 1 \in 0..Horizon /\ a \in Nodes(TreapsTo[hi - lo - 1])
        /\ a.start \in Int /\ a.end \in Int /\ a.prio \in Nat
        /\ lo <= a.start /\ a.start < a.end /\ a.end <= hi /\ a.prio <= p
        /\ a.start = n.start /\ a.add = Nothing /\ a.setCap = None
        /\ Clear(a, K)
        /\ Sound(a.left, lo, a.start, a.prio, UpTo(K, a.start))
        /\ Sound(a.right, a.end, hi, a.prio, After(K, a.start))
        /\ Same(n, a.left, lo, a.start)
        /\ SaysCell(n, a, a.start, a.end)
        /\ Same(n, a.right, a.end, hi)
    BY <2>2, PushSound
  <2>4. Waits(n) /\ a.right = Inherit(n.right, n)
    BY <2>1, <2>2, <2>3, SoundNode, PushFields
  <2>5. CASE n.right = None
    <3>1. a.right = None /\ DetachMax(n) = a.left /\ Rightmost(n) = n
      BY <2>1, <2>2, <2>4, <2>5, InheritNone, DetachLaw, LastLaw
    <3>2. Extends(K, UpTo(K, a.start), lo, a.start)
      BY <2>1, <2>3 DEF Extends, UpTo
    <3>3. Sound(a.left, lo, a.start, p, K)
      BY <2>1, <2>3, <3>2, Widen
    <3>4. a.start < hi
      BY <2>1, <2>3
    <3> QED BY <2>3, <3>1, <3>3, <3>4 DEF Same
  <2>6. CASE n.right # None
    <3>1. a.right # None
      <4>1. Sound(n.right, n.end, hi, n.prio, After(K, n.start))
        BY SoundNode
      <4> QED BY <2>4, <2>6, <4>1, InheritSound
    <3>2. PICK s : s = Rightmost(n).start
      OBVIOUS
    <3>3. Rightmost(a.right).start = s
      BY <2>1, <2>4, <2>6, <3>2, LastLaw, InheritLast
    <3>4. PICK x : x = DetachMax(a.right)
      OBVIOUS
    <3>5. /\ s \in Int /\ a.end <= s /\ s < hi
          /\ Sound(x, a.end, s, a.prio, After(K, a.start)) /\ Same(x, a.right, a.end, s)
      <4>1. /\ w # 0 /\ w - 1 \in Nat /\ hi - a.end <= w - 1
        BY <2>1, <2>3
      <4> QED BY <1>1, <2>3, <3>1, <3>3, <3>4, <4>1 DEF DetachesUpTo
    <3>6. PICK z : z = Rebuilt(a, a.left, x)
      OBVIOUS
    <3>7. DetachMax(n) = z
      <4>1. DetachMax(n) = WithRight(a, x)
        BY <2>1, <2>2, <3>1, <3>4, DetachLaw
      <4> QED BY <2>3, <3>6, <4>1, WithIsRebuilt
    <3>8. Sound(z, lo, s, p, K) /\ SaysBoth(z, a.left, a, x, lo, s)
      <4>1. Rests(a, lo, s) /\ s - lo <= Horizon
        BY <2>1, <2>3, <3>5, EnvelopeAssumption DEF Rests
      <4> QED BY <2>1, <2>3, <3>5, <3>6, <4>1, RebuiltSound
    <3>9. /\ Same(z, a.left, lo, a.start) /\ SaysCell(z, a, a.start, a.end)
          /\ Same(z, x, a.end, s)
      BY <3>8 DEF SaysBoth
    <3>10. Same(z, n, lo, s)
      <4> SUFFICES ASSUME NEW t \in lo..(s - 1)
                   PROVE  ValuesAt(z, t) = ValuesAt(n, t)
        BY DEF Same
      <4>1. CASE t \in lo..(a.start - 1)
        BY <2>3, <3>9, <4>1 DEF Same
      <4>2. CASE t \in a.start..(a.end - 1)
        BY <2>3, <3>9, <4>2 DEF SaysCell
      <4>3. CASE t \in a.end..(s - 1)
        <5>1. t \in a.end..(hi - 1)
          BY <2>1, <2>3, <3>5, <4>3
        <5> QED BY <2>3, <3>5, <3>9, <4>3, <5>1 DEF Same
      <4> QED BY <2>1, <2>3, <3>5, <4>1, <4>2, <4>3
    <3>11. lo <= s
      BY <2>1, <2>3, <3>5
    <3> QED BY <3>2, <3>5, <3>7, <3>8, <3>10, <3>11
  <2> QED BY <2>5, <2>6
<1>2. 0 \in S
  BY <1>1
<1>3. ASSUME NEW w \in Nat, w \in S PROVE w + 1 \in S
  BY <1>1, <1>3
<1> HIDE DEF S
<1>4. \A w \in Nat : w \in S
  BY <1>2, <1>3, SetInduction
<1> QED BY <1>4 DEF S

LEMMA DetachSound ==
  ASSUME NEW n, NEW lo, NEW hi, NEW p, NEW K, Sound(n, lo, hi, p, K), n # None
  PROVE  /\ Rightmost(n).start \in Int
         /\ lo <= Rightmost(n).start /\ Rightmost(n).start < hi
         /\ Sound(DetachMax(n), lo, Rightmost(n).start, p, K)
         /\ Same(DetachMax(n), n, lo, Rightmost(n).start)
<1>1. hi - lo \in Nat /\ hi - lo <= hi - lo
  BY SoundType, EnvelopeAssumption
<1>2. DetachesUpTo(hi - lo)
  BY <1>1, AllDetach
<1> QED BY <1>1, <1>2 DEF DetachesUpTo

\* A new cell is sound for a key at one of its ends: its sums are stale.
LEMMA CellSound ==
  ASSUME NEW start \in Int, NEW end \in Int, start < end, end - start <= Horizon,
         NEW r, r.capacity \in Int, r.own \in [Columns -> Int],
         prio[start] \in Nat, NEW p \in Nat, prio[start] <= p,
         NEW t \in Int, t = start \/ t = end,
         NEW c, c = Cell(start, end, r.capacity, r.own)
  PROVE  Sound(c, start, end, p, {t}) /\ SaysCell(c, r, start, end)
<1>1. c = Cell(start, end, r.capacity, r.own)
  OBVIOUS
<1>2. /\ c.start = start /\ c.end = end /\ c.prio = prio[start]
      /\ c.capacity = r.capacity /\ c.own = r.own /\ c.left = None /\ c.right = None
  BY <1>1 DEF Cell
<1>3. c \in Nodes(TreapsTo[0])
  <2>1. None \in TreapsTo[0]
    BY TreapsByHeight
  <2>2. /\ [s \in Strengths |-> 0] \in [Strengths -> Int]
        /\ Nothing \in [Columns -> Int] /\ None \in Int \cup {None}
    BY NothingType
  <2> QED BY <1>1, <2>1, <2>2 DEF Cell, Nodes
<1>4. /\ Sound(c.left, start, c.start, c.prio, UpTo({t}, c.start))
      /\ Sound(c.right, c.end, end, c.prio, After({t}, c.start))
  <2>1. UpTo({t}, c.start) \in SUBSET Int /\ After({t}, c.start) \in SUBSET Int
    BY DEF UpTo, After
  <2> QED BY <1>2, <2>1, SoundNone
<1>5. Placed(c, start, end, p, {t})
  <2>1. Clear(c, {t})
    BY <1>2 DEF Clear
  <2> QED BY <1>2, <2>1 DEF Placed
<1>6. Sound(c, start, end, p, {t}) /\ c # None
  BY <1>3, <1>4, <1>5, SoundOver
<1>7. ASSUME NEW x \in start..(end - 1)
      PROVE  ValuesAt(c, x) = [capacity |-> r.capacity, own |-> r.own]
  <2>1. Covers(c, x)
    BY <1>2 DEF Covers
  <2> QED BY <1>2, <1>6, <2>1, SoundTreap, ValuesLaw
<1> QED BY <1>6, <1>7 DEF SaysCell

\* The starts of cells in [lo, hi) have priorities.
Ranked(lo, hi) == \A t \in lo..(hi - 1) : prio[t] \in Nat

\* The last cell of the low part becomes two, with a boundary at t.
LEMMA CutSound ==
  ASSUME NEW low, NEW lo, NEW m, NEW p, NEW K \in SUBSET Int, NEW t \in Int,
         Sound(low, lo, m, p, Before(K, t)), low # None,
         NEW r, r = Rightmost(low), LastCell(low, r, lo, m, K), r.start < t, t < m,
         Ranked(lo, m)
  PROVE  /\ Aside(Before(K, t) \cup {t}, After(K, t), m)
         /\ \E q \in Nat :
              /\ p <= q
              /\ Sound(CutLast(low, r, t), lo, m, q, Before(K, t) \cup {t})
              /\ Same(CutLast(low, r, t), low, lo, m)
<1>1. /\ r.start \in Int /\ r.end = m /\ lo <= r.start /\ r.start < m
      /\ r.capacity \in Int /\ r.own \in [Columns -> Int]
      /\ SaysCell(low, r, r.start, m) /\ Clear(r, K)
      /\ lo \in Int /\ m \in Int /\ p \in Nat /\ m - lo <= Horizon
  BY SoundType, EnvelopeAssumption DEF LastCell
<1>2. prio[r.start] \in Nat /\ prio[t] \in Nat
  BY <1>1 DEF Ranked
<1>3. PICK q \in Nat : p <= q /\ prio[r.start] <= q /\ prio[t] <= q
  <2>1. /\ p + prio[r.start] + prio[t] \in Nat /\ p <= p + prio[r.start] + prio[t]
        /\ prio[r.start] <= p + prio[r.start] + prio[t]
        /\ prio[t] <= p + prio[r.start] + prio[t]
    BY <1>1, <1>2
  <2> QED BY <2>1
<1>4. /\ \A k \in Before(K, t) : k \in Int /\ k < t /\ k <= r.start
      /\ \A k \in After(K, t) : k \in Int /\ m <= k
  BY <1>1 DEF Before, After, Clear
<1>5. PICK d, c1, c2 : /\ d = DetachMax(low)
                       /\ c1 = Cell(r.start, t, r.capacity, r.own)
                       /\ c2 = Cell(t, m, r.capacity, r.own)
  OBVIOUS
<1>6. Sound(d, lo, r.start, q, Before(K, t)) /\ Same(d, low, lo, r.start)
  <2>1. Sound(d, lo, r.start, p, Before(K, t)) /\ Same(d, low, lo, r.start)
    BY <1>5, DetachSound
  <2>2. Extends(Before(K, t), Before(K, t), lo, r.start)
    BY <1>4 DEF Extends
  <2> QED BY <1>3, <2>1, <2>2, Widen
<1>7. Sound(c1, r.start, t, q, {t}) /\ SaysCell(c1, r, r.start, t)
  <2>1. PICK x \in Int : x = r.start
    BY <1>1
  <2>2. t - x <= Horizon /\ x < t /\ prio[x] \in Nat /\ prio[x] <= q
    BY <1>1, <1>2, <1>3, <2>1, EnvelopeAssumption
  <2>3. c1 = Cell(x, t, r.capacity, r.own)
    BY <1>5, <2>1
  <2>4. Sound(c1, x, t, q, {t}) /\ SaysCell(c1, r, x, t)
    BY <1>1, <2>2, <2>3, CellSound
  <2> QED BY <2>1, <2>4
<1>8. Sound(c2, t, m, q, {t}) /\ SaysCell(c2, r, t, m)
  <2>1. PICK x \in Int : x = m
    BY <1>1
  <2>2. x - t <= Horizon /\ t < x /\ prio[t] \in Nat /\ prio[t] <= q
    BY <1>1, <1>2, <1>3, <2>1, EnvelopeAssumption
  <2>3. c2 = Cell(t, x, r.capacity, r.own)
    BY <1>5, <2>1
  <2>4. Sound(c2, t, x, q, {t}) /\ SaysCell(c2, r, t, x)
    BY <1>1, <2>2, <2>3, CellSound
  <2> QED BY <2>1, <2>4
<1>9. PICK a : a = Merge(d, c1)
  OBVIOUS
<1>10. Merged(a, d, c1, lo, r.start, t, q, Before(K, t) \cup {t})
  <2>1. t - lo <= Horizon /\ Aside(Before(K, t), {t}, r.start)
    BY <1>1, <1>4, EnvelopeAssumption DEF Aside
  <2>2. Adjoin(d, c1, lo, r.start, t, q, Before(K, t), {t})
    BY <1>6, <1>7, <2>1 DEF Adjoin
  <2> QED BY <1>9, <2>2, MergeSound
<1>11. PICK b : b = Merge(a, c2)
  OBVIOUS
<1>12. Merged(b, a, c2, lo, t, m, q, Before(K, t) \cup {t})
  <2>1. Aside(Before(K, t) \cup {t}, {t}, t)
    BY <1>4 DEF Aside
  <2>2. Adjoin(a, c2, lo, t, m, q, Before(K, t) \cup {t}, {t})
    BY <1>1, <1>8, <1>10, <2>1 DEF Adjoin, Merged
  <2>3. (Before(K, t) \cup {t}) \cup {t} = Before(K, t) \cup {t}
    OBVIOUS
  <2>4. Merged(b, a, c2, lo, t, m, q, (Before(K, t) \cup {t}) \cup {t})
    BY <1>11, <2>2, MergeSound
  <2> QED BY <2>3, <2>4
<1>13. CutLast(low, r, t) = b
  BY <1>1, <1>5, <1>9, <1>11 DEF CutLast
<1>14. Same(b, low, lo, m)
  <2> SUFFICES ASSUME NEW x \in lo..(m - 1)
               PROVE  ValuesAt(b, x) = ValuesAt(low, x)
    BY DEF Same
  <2>1. Same(b, a, lo, t) /\ Same(b, c2, t, m) /\ Same(a, d, lo, r.start) /\ Same(a, c1, r.start, t)
    BY <1>10, <1>12 DEF Merged
  <2>2. CASE x \in lo..(r.start - 1)
    <3>1. x \in lo..(t - 1)
      BY <1>1, <2>2
    <3> QED BY <1>6, <2>1, <2>2, <3>1 DEF Same
  <2>3. CASE x \in r.start..(t - 1)
    <3>1. x \in lo..(t - 1) /\ x \in r.start..(m - 1)
      BY <1>1, <2>3
    <3> QED BY <1>1, <1>7, <2>1, <2>3, <3>1 DEF Same, SaysCell
  <2>4. CASE x \in t..(m - 1)
    <3>1. x \in r.start..(m - 1)
      BY <1>1, <2>4
    <3> QED BY <1>1, <1>8, <2>1, <2>4, <3>1 DEF Same, SaysCell
  <2> QED BY <1>1, <2>2, <2>3, <2>4
<1>15. Aside(Before(K, t) \cup {t}, After(K, t), m)
  BY <1>1, <1>4 DEF Aside
<1>16. Sound(b, lo, m, q, Before(K, t) \cup {t})
  BY <1>12 DEF Merged
<1> QED BY <1>3, <1>13, <1>14, <1>15, <1>16

\* z is sound and says what n says.
Kept(z, n, lo, hi, K) == (\E p : Sound(z, lo, hi, p, K)) /\ Same(z, n, lo, hi)

\* A boundary at t changes nothing a treap says.
LEMMA BoundarySound ==
  ASSUME NEW n, NEW lo, NEW hi, NEW p, NEW K, Sound(n, lo, hi, p, K), NEW t \in Int,
         Ranked(lo, hi)
  PROVE  Kept(EnsureBoundary(n, t), n, lo, hi, K \cup {t})
<1>1. /\ lo \in Int /\ hi \in Int /\ p \in Nat /\ hi - lo <= Horizon /\ K \in SUBSET Int
      /\ p <= p /\ K \cup {t} \in SUBSET Int
  BY SoundType, EnvelopeAssumption
<1>2. PICK parts : parts = Split(n, t)
  OBVIOUS
<1>3. PICK m \in Int : Divided(parts, n, t, lo, m, hi, p, K) /\ lo <= m /\ m <= hi
  BY <1>2, SplitSound
<1>4. /\ Sound(parts.low, lo, m, p, Before(K, t)) /\ Same(parts.low, n, lo, m)
      /\ Sound(parts.high, m, hi, p, After(K, t)) /\ Same(parts.high, n, m, hi)
      /\ m = hi \/ t <= m
      /\ parts.low # None =>
           LastCell(parts.low, Rightmost(parts.low), lo, m, K)
             /\ Rightmost(parts.low).start < t
      /\ parts.low \in Treaps /\ parts.high \in Treaps
      /\ parts.low = None => lo = m
      /\ parts.high = None => m = hi
  BY <1>3, SoundType, SoundTreap DEF Divided
<1>5. EnsureBoundary(n, t) = CutAt(parts, t)
  BY <1>2 DEF EnsureBoundary
<1>6. \A k \in K : k \in Int /\ (k \in Before(K, t) \/ k = t \/ k \in After(K, t))
  BY <1>1 DEF Before, After
<1>7. /\ Before(K, t) \subseteq K /\ After(K, t) \subseteq K
      /\ \A k \in Before(K, t) : k < t
      /\ \A k \in After(K, t) : t < k
  BY <1>1 DEF Before, After
<1>8. CASE parts.low = None
  <2>1. EnsureBoundary(n, t) = parts.high
    BY <1>5, <1>8 DEF CutAt
  <2>2. Extends(K \cup {t}, After(K, t), lo, hi)
    BY <1>1, <1>3, <1>4, <1>6, <1>7, <1>8 DEF Extends
  <2>3. Sound(parts.high, lo, hi, p, K \cup {t})
    BY <1>1, <1>4, <1>8, <2>2, Widen
  <2> QED BY <1>4, <1>8, <2>1, <2>3 DEF Kept
<1>9. CASE parts.low # None
  <2>1. PICK r : r = Rightmost(parts.low)
    OBVIOUS
  <2>2. PICK c : c = CutLast(parts.low, r, t)
    OBVIOUS
  <2>3. EnsureBoundary(n, t) = Merge(c, parts.high)
    BY <1>5, <1>9, <2>1, <2>2 DEF CutAt
  <2>4. LastCell(parts.low, r, lo, m, K) /\ r.start < t /\ r.end = m /\ r.start \in Int
    BY <1>4, <1>9, <2>1 DEF LastCell
  <2>5. CASE m = hi /\ hi < t
    <3>1. c = parts.low
      BY <1>1, <2>2, <2>4, <2>5 DEF CutLast
    <3>2. parts.high = None
      BY <1>4, <2>5, SoundNode
    <3>3. EnsureBoundary(n, t) = parts.low
      BY <1>4, <2>3, <3>1, <3>2, MergeLaw
    <3>4. Extends(K \cup {t}, Before(K, t), lo, hi)
      BY <1>1, <1>6, <1>7, <2>5 DEF Extends
    <3>5. Sound(parts.low, lo, hi, p, K \cup {t})
      BY <1>1, <1>4, <2>5, <3>4, Widen
    <3> QED BY <1>4, <2>5, <3>3, <3>5 DEF Kept
  <2>6. CASE ~(m = hi /\ hi < t)
    <3>1. t <= m
      BY <1>1, <1>3, <1>4, <2>6
    <3>2. \E q \in Nat : /\ p <= q /\ Sound(c, lo, m, q, Before(K, t) \cup {t})
                         /\ Same(c, parts.low, lo, m)
                         /\ Aside(Before(K, t) \cup {t}, After(K, t), m)
      <4>1. CASE t = m
        <5>1. c = parts.low
          BY <2>2, <2>4, <4>1 DEF CutLast
        <5>2. Extends(Before(K, t) \cup {t}, Before(K, t), lo, m)
          <6>1. \A k \in Before(K, t) : k \in Int
            BY <1>1, <1>7
          <6>2. Before(K, t) \cup {t} \in SUBSET Int
            BY <6>1
          <6>3. m <= t
            BY <1>1, <4>1
          <6>4. \A k \in Before(K, t) \cup {t} : k \in Before(K, t) \/ m <= k
            BY <6>3
          <6> QED BY <6>2, <6>4 DEF Extends
        <5>3. Sound(c, lo, m, p, Before(K, t) \cup {t})
          BY <1>1, <1>4, <5>1, <5>2, Widen
        <5>4. Aside(Before(K, t) \cup {t}, After(K, t), m)
          <6>1. \A k \in Before(K, t) : k \in Int /\ k < m
            BY <1>1, <1>7, <4>1
          <6>2. \A k \in After(K, t) : k \in Int /\ m < k
            BY <1>1, <1>7, <4>1
          <6> QED BY <4>1, <6>1, <6>2 DEF Aside
        <5> QED BY <1>1, <5>1, <5>3, <5>4 DEF Same
      <4>2. CASE t # m
        <5>1. t < m
          BY <3>1, <4>2
        <5>2. Ranked(lo, m)
          BY <1>1, <1>3 DEF Ranked
        <5> QED BY <1>1, <1>4, <1>9, <2>1, <2>2, <2>4, <5>1, <5>2, CutSound
      <4> QED BY <4>1, <4>2
    <3>3. PICK q \in Nat : /\ p <= q /\ Sound(c, lo, m, q, Before(K, t) \cup {t})
                           /\ Same(c, parts.low, lo, m)
                           /\ Aside(Before(K, t) \cup {t}, After(K, t), m)
      BY <3>2
    <3>4. Sound(parts.high, m, hi, q, After(K, t))
      <4>1. Extends(After(K, t), After(K, t), m, hi)
        BY <1>1, <1>7 DEF Extends
      <4> QED BY <1>4, <3>3, <4>1, Widen
    <3>5. PICK z : z = Merge(c, parts.high)
      OBVIOUS
    <3>6. Merged(z, c, parts.high, lo, m, hi, q, (Before(K, t) \cup {t}) \cup After(K, t))
      <4>1. Adjoin(c, parts.high, lo, m, hi, q, Before(K, t) \cup {t}, After(K, t))
        BY <1>1, <3>3, <3>4 DEF Adjoin
      <4> QED BY <3>5, <4>1, MergeSound
    <3>7. (Before(K, t) \cup {t}) \cup After(K, t) = K \cup {t}
      BY <1>6, <1>7
    <3>8. Sound(z, lo, hi, q, K \cup {t}) /\ Same(z, c, lo, m) /\ Same(z, parts.high, m, hi)
      BY <3>6, <3>7 DEF Merged
    <3>9. Same(z, n, lo, hi)
      <4> SUFFICES ASSUME NEW x \in lo..(hi - 1)
                   PROVE  ValuesAt(z, x) = ValuesAt(n, x)
        BY DEF Same
      <4>1. CASE x \in lo..(m - 1)
        BY <1>4, <3>3, <3>8, <4>1 DEF Same
      <4>2. CASE x \in m..(hi - 1)
        BY <1>4, <3>8, <4>2 DEF Same
      <4> QED BY <1>1, <1>3, <4>1, <4>2
    <3> QED BY <2>3, <3>5, <3>8, <3>9 DEF Kept
  <2> QED BY <2>5, <2>6
<1> QED BY <1>8, <1>9

-----------------------------------------------------------------------------
(* Windows.                                                                *)

\* Two parts of n, without stale sums, around a third that is z.
Framed(before, z, after, n, lo, x, y, hi, q) ==
  /\ Sound(before, lo, x, q, {}) /\ Same(before, n, lo, x)
  /\ Sound(z, x, y, q, {})
  /\ Sound(after, y, hi, q, {}) /\ Same(after, n, y, hi)

\* What is cut out at the ends of a window has no stale sums left.
LEMMA IsolateSound ==
  ASSUME NEW n, NEW lo, NEW hi, NEW p, Sound(n, lo, hi, p, {}), Ranked(lo, hi),
         NEW w, w.start \in Int, w.end \in Int, w.start < w.end,
         NEW z, z = Isolate(n, w)
  PROVE  \E x \in Int, y \in Int, q \in Nat :
           /\ lo <= x /\ x <= y /\ y <= hi
           /\ CutsAt(x, w.start, lo, hi) /\ CutsAt(y, w.end, lo, hi)
           /\ Framed(z.before, z.middle, z.after, n, lo, x, y, hi, q)
           /\ Same(z.middle, n, x, y)
<1>1. PICK start \in Int, end \in Int : start = w.start /\ end = w.end /\ start < end
  OBVIOUS
<1>2. PICK n1, n2 : n1 = EnsureBoundary(n, start) /\ n2 = EnsureBoundary(n1, end)
  OBVIOUS
<1>3. lo \in Int /\ hi \in Int /\ lo <= hi
  BY SoundType
<1>4. Kept(n1, n, lo, hi, {start})
  <2>1. Kept(n1, n, lo, hi, {} \cup {start})
    BY <1>1, <1>2, BoundarySound
  <2>2. {} \cup {start} = {start}
    OBVIOUS
  <2> QED BY <2>1, <2>2
<1>5. PICK p1 : Sound(n1, lo, hi, p1, {start})
  BY <1>4 DEF Kept
<1>6. Kept(n2, n1, lo, hi, {start} \cup {end})
  BY <1>1, <1>2, <1>5, BoundarySound
<1>7. PICK q : Sound(n2, lo, hi, q, {start} \cup {end})
  BY <1>6 DEF Kept
<1>8. q \in Nat
  BY <1>7, SoundType
<1>9. PICK upper : upper = Split(n2, end)
  OBVIOUS
<1>10. PICK y \in Int : /\ Divided(upper, n2, end, lo, y, hi, q, {start} \cup {end})
                        /\ lo <= y /\ y <= hi
  BY <1>1, <1>7, <1>9, SplitSound
<1>11. Before({start} \cup {end}, end) = {start} /\ After({start} \cup {end}, end) = {}
  BY <1>1 DEF Before, After
<1>12. /\ Sound(upper.low, lo, y, q, {start}) /\ Same(upper.low, n2, lo, y)
       /\ Sound(upper.high, y, hi, q, {}) /\ Same(upper.high, n2, y, hi)
       /\ CutsAt(y, end, lo, hi)
  BY <1>10, <1>11 DEF Divided
<1>13. PICK lower : lower = Split(upper.low, start)
  OBVIOUS
<1>14. PICK x \in Int : /\ Divided(lower, upper.low, start, lo, x, y, q, {start})
                        /\ lo <= x /\ x <= y
  BY <1>1, <1>12, <1>13, SplitSound
<1>15. Before({start}, start) = {} /\ After({start}, start) = {}
  BY <1>1 DEF Before, After
<1>16. /\ Sound(lower.low, lo, x, q, {}) /\ Same(lower.low, upper.low, lo, x)
       /\ Sound(lower.high, x, y, q, {}) /\ Same(lower.high, upper.low, x, y)
       /\ CutsAt(x, start, lo, y)
  BY <1>14, <1>15 DEF Divided
<1>17. z.before = lower.low /\ z.middle = lower.high /\ z.after = upper.high
  BY <1>1, <1>2, <1>9, <1>13 DEF Isolate, SplitFrom, Three
<1>18. CutsAt(x, start, lo, hi)
  BY <1>1, <1>3, <1>10, <1>12, <1>14, <1>16 DEF CutsAt
<1>19. Same(n2, n, lo, hi)
  BY <1>4, <1>6 DEF Kept, Same
<1>20. /\ \A t \in lo..(x - 1) : t \in lo..(y - 1) /\ t \in lo..(hi - 1)
       /\ \A t \in x..(y - 1) : t \in lo..(y - 1) /\ t \in lo..(hi - 1)
       /\ \A t \in y..(hi - 1) : t \in lo..(hi - 1)
  BY <1>3, <1>10, <1>14
<1>21. Same(lower.low, n, lo, x) /\ Same(lower.high, n, x, y) /\ Same(upper.high, n, y, hi)
  BY <1>12, <1>16, <1>19, <1>20 DEF Same
<1>22. Framed(z.before, z.middle, z.after, n, lo, x, y, hi, q) /\ Same(z.middle, n, x, y)
  BY <1>12, <1>16, <1>17, <1>21 DEF Framed
<1> QED BY <1>1, <1>8, <1>10, <1>12, <1>14, <1>18, <1>22

\* Joined again, the parts say what they said.
LEMMA JoinSound ==
  ASSUME NEW parts, NEW n, NEW lo \in Int, NEW x \in Int, NEW y \in Int, NEW hi \in Int,
         NEW q, lo <= x, x <= y, y <= hi, hi - lo <= Horizon,
         Framed(parts.before, parts.middle, parts.after, n, lo, x, y, hi, q),
         NEW z, z = Join(parts)
  PROVE  /\ Sound(z, lo, hi, q, {})
         /\ Same(z, n, lo, x) /\ Same(z, parts.middle, x, y) /\ Same(z, n, y, hi)
<1>1. PICK b, m, a : b = parts.before /\ m = parts.middle /\ a = parts.after
  OBVIOUS
<1>2. /\ Sound(b, lo, x, q, {}) /\ Same(b, n, lo, x)
      /\ Sound(m, x, y, q, {})
      /\ Sound(a, y, hi, q, {}) /\ Same(a, n, y, hi)
  BY <1>1 DEF Framed
<1>3. PICK c : c = Merge(b, m)
  OBVIOUS
<1>4. Merged(c, b, m, lo, x, y, q, {})
  <2>1. y - lo <= Horizon
    BY EnvelopeAssumption
  <2>2. Adjoin(b, m, lo, x, y, q, {}, {})
    BY <1>2, <2>1 DEF Adjoin, Aside
  <2>3. Merged(c, b, m, lo, x, y, q, {} \cup {}) /\ {} \cup {} = {}
    BY <1>3, <2>2, MergeSound
  <2> QED BY <2>3
<1>5. z = Merge(c, a)
  BY <1>1, <1>3 DEF Join
<1>6. Merged(z, c, a, lo, y, hi, q, {})
  <2>1. Adjoin(c, a, lo, y, hi, q, {}, {})
    BY <1>2, <1>4 DEF Adjoin, Aside, Merged
  <2>2. Merged(z, c, a, lo, y, hi, q, {} \cup {}) /\ {} \cup {} = {}
    BY <1>5, <2>1, MergeSound
  <2> QED BY <2>2
<1>7. /\ Sound(z, lo, hi, q, {}) /\ Same(z, c, lo, y) /\ Same(z, a, y, hi)
      /\ Same(c, b, lo, x) /\ Same(c, m, x, y)
  BY <1>4, <1>6 DEF Merged
<1>8. /\ \A t \in lo..(x - 1) : t \in lo..(y - 1)
      /\ \A t \in x..(y - 1) : t \in lo..(y - 1)
  OBVIOUS
<1>9. Same(z, n, lo, x) /\ Same(z, m, x, y) /\ Same(z, n, y, hi)
  BY <1>2, <1>7, <1>8 DEF Same
<1> QED BY <1>1, <1>7, <1>9

\* The instants of [x, y) are those of [lo, hi) in the window.
Within(w, lo, x, y, hi) ==
  \A t \in lo..(hi - 1) : /\ t \in x..(y - 1) <=> Covers(w, t)
                          /\ ~Covers(w, t) => t \in lo..(x - 1) \/ t \in y..(hi - 1)

LEMMA InWindow ==
  ASSUME NEW lo \in Int, NEW hi \in Int, NEW x \in Int, NEW y \in Int, NEW w,
         w.start \in Int, w.end \in Int, w.start < w.end, lo <= x, x <= y, y <= hi,
         CutsAt(x, w.start, lo, hi), CutsAt(y, w.end, lo, hi)
  PROVE  Within(w, lo, x, y, hi)
<1> SUFFICES ASSUME NEW t \in lo..(hi - 1)
             PROVE  t \in x..(y - 1) <=> Covers(w, t)
  BY DEF Within
<1>1. PICK start \in Int, end \in Int : start = w.start /\ end = w.end /\ start < end
  OBVIOUS
<1>2. t \in Int /\ lo <= t /\ t < hi
  OBVIOUS
<1>3. x <= t <=> start <= t
  BY <1>1, <1>2 DEF CutsAt
<1>4. t < y <=> t < end
  BY <1>1, <1>2 DEF CutsAt
<1> QED BY <1>1, <1>2, <1>3, <1>4 DEF Covers

\* z says what n says, but under wait in the window.
SaysUnder(z, n, wait, w, lo, hi) ==
  \A t \in lo..(hi - 1) :
    ValuesAt(z, t) = IF Covers(w, t) THEN Under(wait, ValuesAt(n, t)) ELSE ValuesAt(n, t)

\* An update reaches the instants of its window, and no others.
LEMMA UpdateSound ==
  ASSUME NEW n, NEW lo, NEW hi, NEW p, Sound(n, lo, hi, p, {}), Ranked(lo, hi),
         NEW w, w.start \in Int, w.end \in Int, w.start < w.end,
         NEW wait, Waits(wait),
         NEW parts, parts.before = Isolate(n, w).before,
         parts.middle = Inherit(Isolate(n, w).middle, wait),
         parts.after = Isolate(n, w).after,
         NEW z, z = Join(parts)
  PROVE  (\E q : Sound(z, lo, hi, q, {})) /\ SaysUnder(z, n, wait, w, lo, hi)
<1>1. PICK c : c = Isolate(n, w)
  OBVIOUS
<1>2. PICK x \in Int, y \in Int, q \in Nat :
        /\ lo <= x /\ x <= y /\ y <= hi
        /\ CutsAt(x, w.start, lo, hi) /\ CutsAt(y, w.end, lo, hi)
        /\ Framed(c.before, c.middle, c.after, n, lo, x, y, hi, q)
        /\ Same(c.middle, n, x, y)
  BY <1>1, IsolateSound
<1>3. lo \in Int /\ hi \in Int /\ hi - lo <= Horizon
  BY SoundType, EnvelopeAssumption
<1>4. Framed(parts.before, parts.middle, parts.after, n, lo, x, y, hi, q)
  BY <1>1, <1>2, InheritSound DEF Framed
<1>5. /\ Sound(z, lo, hi, q, {})
      /\ Same(z, n, lo, x) /\ Same(z, parts.middle, x, y) /\ Same(z, n, y, hi)
  BY <1>2, <1>3, <1>4, JoinSound
<1>6. Within(w, lo, x, y, hi)
  BY <1>2, <1>3, InWindow
<1>7. ASSUME NEW t \in x..(y - 1)
      PROVE  ValuesAt(z, t) = Under(wait, ValuesAt(n, t))
  <2>1. Sound(c.middle, x, y, q, {})
    BY <1>2 DEF Framed
  <2>2. c.middle # None /\ c.middle \in Treaps
    BY <2>1, SoundInstant
  <2>3. ValuesAt(parts.middle, t) = Under(wait, ValuesAt(c.middle, t))
    BY <1>1, <2>2, InheritValues
  <2> QED BY <1>2, <1>5, <2>3 DEF Same
<1>8. SaysUnder(z, n, wait, w, lo, hi)
  BY <1>5, <1>6, <1>7 DEF SaysUnder, Same, Within
<1> QED BY <1>5, <1>8

\* A question changes nothing the treap says, and finds the sums of its window.
LEMMA QuestionSound ==
  ASSUME NEW n, NEW lo, NEW hi, NEW p, Sound(n, lo, hi, p, {}), Ranked(lo, hi),
         NEW w, w.start \in Int, w.end \in Int, w.start < w.end,
         NEW parts, parts = Isolate(n, w), NEW z, z = Join(parts)
  PROVE  /\ Kept(z, n, lo, hi, {})
         /\ parts.middle = None => \A t \in lo..(hi - 1) : ~Covers(w, t)
         /\ parts.middle # None =>
              \E x \in Int, y \in Int :
                /\ Within(w, lo, x, y, hi)
                /\ lo <= x /\ y <= hi
                /\ parts.middle \in Treaps /\ SumsRight(parts.middle, x, y)
                /\ Same(parts.middle, n, x, y)
<1>1. PICK x \in Int, y \in Int, q \in Nat :
        /\ lo <= x /\ x <= y /\ y <= hi
        /\ CutsAt(x, w.start, lo, hi) /\ CutsAt(y, w.end, lo, hi)
        /\ Framed(parts.before, parts.middle, parts.after, n, lo, x, y, hi, q)
        /\ Same(parts.middle, n, x, y)
  BY IsolateSound
<1>2. lo \in Int /\ hi \in Int /\ hi - lo <= Horizon
  BY SoundType, EnvelopeAssumption
<1>3. /\ Sound(z, lo, hi, q, {})
      /\ Same(z, n, lo, x) /\ Same(z, parts.middle, x, y) /\ Same(z, n, y, hi)
  BY <1>1, <1>2, JoinSound
<1>4. Within(w, lo, x, y, hi)
  BY <1>1, <1>2, InWindow
<1>5. Same(z, n, lo, hi)
  BY <1>1, <1>3, <1>4 DEF Same, Within
<1>6. Kept(z, n, lo, hi, {})
  BY <1>3, <1>5 DEF Kept
<1>7. Sound(parts.middle, x, y, q, {})
  BY <1>1 DEF Framed
<1>8. CASE parts.middle = None
  <2>1. x = y
    BY <1>7, <1>8, SoundType
  <2>2. \A t : t \notin x..(y - 1)
    BY <2>1
  <2> QED BY <1>4, <1>6, <1>8, <2>2 DEF Within
<1>9. CASE parts.middle # None
  <2>1. SumsRight(parts.middle, x, y)
    BY <1>7, <1>9, SoundNode DEF Placed
  <2> QED BY <1>1, <1>4, <1>6, <1>7, <1>9, <2>1, SoundTreap
<1> QED BY <1>8, <1>9

-----------------------------------------------------------------------------
(* The shape.                                                              *)

\* The recursion of IsTreap.
SpanStep(f, q) ==
  LET n == q[1] lo == q[2] hi == q[3] IN
  IF n = None THEN lo = hi
  ELSE /\ n.start < n.end
       /\ \A child \in {n.left, n.right} \ {None} : child.prio <= n.prio
       /\ f[<<n.left, lo, n.start>>] /\ f[<<n.right, n.end, hi>>]

LEMMA SpanLooksBelow ==
  ASSUME NEW k \in 1..Horizon, NEW q \in TreapsTo[k] \X Int \X Int,
         NEW f, NEW g, \A u \in TreapsTo[k - 1] \X Int \X Int : f[u] = g[u]
  PROVE  SpanStep(f, q) = SpanStep(g, q)
<1>1. CASE q[1] = None
  BY <1>1 DEF SpanStep
<1>2. CASE q[1] # None
  <2>1. k \in 0..Horizon /\ k - 1 \in 0..Horizon
    BY EnvelopeAssumption
  <2>2. PICK n \in TreapsTo[k], lo \in Int, hi \in Int : q = <<n, lo, hi>>
    OBVIOUS
  <2>3. n \in Nodes(TreapsTo[k - 1])
    BY <1>2, <2>1, <2>2, NodeBelow
  <2>4. /\ n.left \in TreapsTo[k - 1] /\ n.right \in TreapsTo[k - 1]
        /\ n.start \in Int /\ n.end \in Int
    BY <2>3, NodeFields
  <2>5. /\ <<n.left, lo, n.start>> \in TreapsTo[k - 1] \X Int \X Int
        /\ <<n.right, n.end, hi>> \in TreapsTo[k - 1] \X Int \X Int
    BY <2>2, <2>4
  <2>6. /\ f[<<n.left, lo, n.start>>] = g[<<n.left, lo, n.start>>]
        /\ f[<<n.right, n.end, hi>>] = g[<<n.right, n.end, hi>>]
    BY <2>5
  <2>7. n = q[1] /\ lo = q[2] /\ hi = q[3]
    BY <2>2
  <2> QED BY <2>6, <2>7 DEF SpanStep
<1> QED BY <1>1, <1>2

LEMMA SpansExist ==
  \E f : f = [q \in Treaps \X Int \X Int |-> SpanStep(f, q)]
<1> DEFINE S == {k \in Nat : k <= Horizon =>
                   \E f : f = [q \in TreapsTo[k] \X Int \X Int |-> SpanStep(f, q)]}
<1>0. Horizon \in Nat
  BY EnvelopeAssumption
<1>1. 0 \in S
  <2> DEFINE g == [q \in TreapsTo[0] \X Int \X Int |-> SpanStep(<<>>, q)]
  <2>1. \A q \in TreapsTo[0] \X Int \X Int : q[1] = None
    BY TreapsByHeight
  <2>2. \A q \in TreapsTo[0] \X Int \X Int : SpanStep(<<>>, q) = SpanStep(g, q)
    BY <2>1 DEF SpanStep
  <2>3. g = [q \in TreapsTo[0] \X Int \X Int |-> SpanStep(g, q)]
    BY <2>2
  <2> QED BY <2>3
<1>2. ASSUME NEW k \in Nat, k \in S PROVE k + 1 \in S
  <2> SUFFICES ASSUME k + 1 <= Horizon
               PROVE  \E f : f = [q \in TreapsTo[k + 1] \X Int \X Int |-> SpanStep(f, q)]
    OBVIOUS
  <2>0. k <= Horizon
    BY <1>0
  <2>1. PICK f : f = [q \in TreapsTo[k] \X Int \X Int |-> SpanStep(f, q)]
    BY <1>2, <2>0, Zenon
  <2>2. k \in 0..Horizon /\ k + 1 \in 1..Horizon /\ k + 1 \in 0..Horizon
        /\ (k + 1) - 1 = k /\ k <= k + 1
    BY <1>0
  <2>3. TreapsTo[k] \subseteq TreapsTo[k + 1]
    BY <2>2, TreapsGrow
  <2> DEFINE g == [q \in TreapsTo[k + 1] \X Int \X Int |-> SpanStep(f, q)]
  <2>4. \A q \in TreapsTo[k] \X Int \X Int : g[q] = f[q]
    <3>1. \A q \in TreapsTo[k] \X Int \X Int : f[q] = SpanStep(f, q)
      BY <2>1
    <3>2. \A q \in TreapsTo[k] \X Int \X Int : q \in TreapsTo[k + 1] \X Int \X Int
      BY <2>3
    <3> QED BY <3>1, <3>2
  <2> HIDE DEF g
  <2>5. \A q \in TreapsTo[k + 1] \X Int \X Int : SpanStep(f, q) = SpanStep(g, q)
    BY <2>2, <2>4, SpanLooksBelow
  <2>6. g = [q \in TreapsTo[k + 1] \X Int \X Int |-> SpanStep(g, q)]
    BY <2>5 DEF g
  <2> QED BY <2>6
<1>3. Horizon \in S
  <2> HIDE DEF S
  <2> QED BY <1>0, <1>1, <1>2, SetInduction
<1> QED BY <1>0, <1>3 DEF Treaps

\* IsTreap solves its equation.
LEMMA SpansLaw ==
  ASSUME NEW n \in Treaps, NEW lo \in Int, NEW hi \in Int
  PROVE  IsTreap(n, lo, hi) =
           IF n = None THEN lo = hi
           ELSE /\ n.start < n.end
                /\ \A child \in {n.left, n.right} \ {None} : child.prio <= n.prio
                /\ IsTreap(n.left, lo, n.start) /\ IsTreap(n.right, n.end, hi)
<1> DEFINE f == CHOOSE g : g = [q \in Treaps \X Int \X Int |-> SpanStep(g, q)]
<1>1. f = [q \in Treaps \X Int \X Int |-> SpanStep(f, q)]
  BY SpansExist
<1>2. \A x, y, z : IsTreap(x, y, z) = f[<<x, y, z>>]
  BY DEF IsTreap, SpanStep
<1> HIDE DEF f
<1>3. IsTreap(n, lo, hi) = SpanStep(f, <<n, lo, hi>>)
  BY <1>1, <1>2
<1> QED BY <1>2, <1>3 DEF SpanStep

\* What is sound is a treap.
LEMMA SoundShape ==
  ASSUME NEW n, NEW lo, NEW hi, NEW p, NEW K, Sound(n, lo, hi, p, K)
  PROVE  IsTreap(n, lo, hi)
<1> DEFINE Shaped(w) == \A c, x, y, q, J : Sound(c, x, y, q, J) /\ y - x <= w => IsTreap(c, x, y)
           S == {w \in Nat : Shaped(w)}
<1>1. ASSUME NEW w \in Nat, w # 0 => Shaped(w - 1)
      PROVE  Shaped(w)
  <2> SUFFICES ASSUME NEW c, NEW x, NEW y, NEW q, NEW J, Sound(c, x, y, q, J), y - x <= w
               PROVE  IsTreap(c, x, y)
    OBVIOUS
  <2>1. x \in Int /\ y \in Int /\ c \in Treaps /\ (c = None => x = y)
    BY SoundType, SoundTreap
  <2>2. CASE c = None
    BY <2>1, <2>2, SpansLaw
  <2>3. CASE c # None
    <3>1. /\ y - x \in 1..Horizon /\ c \in Nodes(TreapsTo[y - x - 1])
          /\ Sound(c.left, x, c.start, c.prio, UpTo(J, c.start))
          /\ Sound(c.right, c.end, y, c.prio, After(J, c.start))
          /\ x <= c.start /\ c.start < c.end /\ c.end <= y
      BY <2>3, SoundNode
    <3>2. c.start \in Int /\ c.end \in Int
      BY <3>1, NodeFields
    <3>3. w # 0 /\ c.start - x <= w - 1 /\ y - c.end <= w - 1
      BY <2>1, <3>1, <3>2
    <3>4. IsTreap(c.left, x, c.start) /\ IsTreap(c.right, c.end, y)
      BY <1>1, <3>1, <3>3
    <3>5. \A child \in {c.left, c.right} \ {None} : child.prio <= c.prio
      BY <3>1, SoundAtRoot
    <3> QED BY <2>1, <2>3, <3>1, <3>4, <3>5, SpansLaw
  <2> QED BY <2>2, <2>3
<1> HIDE DEF Shaped
<1>2. 0 \in S
  BY <1>1
<1>3. ASSUME NEW w \in Nat, w \in S PROVE w + 1 \in S
  BY <1>1, <1>3
<1>4. \A w \in Nat : w \in S
  <2> HIDE DEF S
  <2> QED BY <1>2, <1>3, SetInduction
<1>5. hi - lo \in Nat /\ hi - lo <= hi - lo
  BY SoundType, EnvelopeAssumption
<1> QED BY <1>4, <1>5 DEF Shaped

-----------------------------------------------------------------------------
(* Operations.                                                             *)

\* What an update applies to the part that is cut out.
Adding(column, delta) == [setCap |-> None, add |-> [Nothing EXCEPT ![column] = delta]]
Setting(v) == [setCap |-> v, add |-> Nothing]

LEMMA AddingWaits ==
  ASSUME NEW column \in Columns, NEW delta \in Int
  PROVE  /\ Waits(Adding(column, delta))
         /\ \A c : ApplyAdd(c, [Nothing EXCEPT ![column] = delta]) =
                     Inherit(c, Adding(column, delta))
<1>1. [Nothing EXCEPT ![column] = delta] \in [Columns -> Int]
  BY NothingType
<1>2. PICK d \in [Columns -> Int] : d = [Nothing EXCEPT ![column] = delta]
  BY <1>1
<1>3. Adding(column, delta).setCap = None /\ Adding(column, delta).add = d
  BY <1>2 DEF Adding
<1>4. Waits(Adding(column, delta))
  BY <1>3 DEF Waits
<1>5. \A c : Inherit(c, Adding(column, delta)) = ApplyAdd(c, d)
  BY <1>3 DEF Inherit
<1> QED BY <1>2, <1>4, <1>5

LEMMA SettingWaits ==
  ASSUME NEW v \in Int
  PROVE  /\ Waits(Setting(v))
         /\ \A c \in Treaps : ApplySetCap(c, v) = Inherit(c, Setting(v))
<1>1. Setting(v).setCap = v /\ Setting(v).add = Nothing /\ v # None
  BY TreapAssumption DEF Setting
<1>2. Waits(Setting(v))
  BY <1>1, NothingType DEF Waits
<1>3. ASSUME NEW c \in Treaps, c # None
      PROVE  ApplySetCap(c, v) = Inherit(c, Setting(v))
  <2>1. PICK m : m = ApplySetCap(c, v)
    OBVIOUS
  <2>2. Horizon \in 0..Horizon /\ Horizon - 1 \in 0..Horizon
    BY EnvelopeAssumption
  <2>3. c \in Nodes(TreapsTo[Horizon - 1])
    BY <1>3, <2>2, NodeBelow DEF Treaps
  <2>4. m \in Nodes(TreapsTo[Horizon - 1])
    BY <1>3, <2>1, <2>3, ApplySetCapFields
  <2>5. Horizon \in 1..Horizon
    BY EnvelopeAssumption
  <2>6. m # None
    BY <2>4, <2>5, NodeIsTreap
  <2>7. Plus(m.own, Nothing) = m.own /\ Plus(m.add, Nothing) = m.add
    BY <2>4, NodeFields, NothingType, PlusLaws
  <2>8. \A s : Weight(Nothing, s) = 0
    BY DEF Weight, Nothing, Columns
  <2>9. m.min \in [Strengths -> Int] /\ m.peak \in [Strengths -> Int]
    BY <2>4, NodeFields
  <2>10. /\ [s \in Strengths |-> m.min[s] - Weight(Nothing, s)] = m.min
         /\ [s \in Strengths |-> m.peak[s] + Weight(Nothing, s)] = m.peak
    BY <2>8, <2>9
  <2>11. ApplyAdd(m, Nothing) = [m EXCEPT !.own = m.own, !.add = m.add,
                                          !.min = m.min, !.peak = m.peak]
    BY <2>6, <2>7, <2>10 DEF ApplyAdd
  <2>12. ApplyAdd(m, Nothing) = m
    BY <2>4, <2>11 DEF Nodes
  <2>13. Inherit(c, Setting(v)) = ApplyAdd(m, Nothing)
    BY <1>1, <2>1 DEF Inherit
  <2> QED BY <2>1, <2>12, <2>13
<1>4. ApplySetCap(None, v) = Inherit(None, Setting(v))
  BY InheritNone DEF ApplySetCap
<1> QED BY <1>2, <1>3, <1>4

-----------------------------------------------------------------------------
(* The invariant.                                                          *)

Final == Origin + Horizon

\* The treap is sound over the horizon, with no sum stale.
TreapInv ==
  prio \in [Cells -> Nat] /\ \E p : Sound(root, Origin, Final, p, {})

LEMMA HorizonFacts ==
  /\ Origin \in Int /\ Final \in Int /\ Origin < Final /\ Final - Origin <= Horizon
  /\ Cells = Origin..(Final - 1)
  /\ \A w \in Windows : w.start \in Int /\ w.end \in Int
  /\ \A w \in Windows : IsEmpty(w) \/ w.start < w.end
  /\ \A w \in Windows : IsEmpty(w) => \A t \in Int : ~Covers(w, t)
<1>1. Origin \in Nat /\ Horizon \in Nat \ {0}
  BY TreapAssumption, EnvelopeAssumption
<1>2. /\ Origin \in Int /\ Final \in Int /\ Origin < Final /\ Final - Origin <= Horizon
      /\ Cells = Origin..(Final - 1)
  BY <1>1 DEF Final, Cells
<1>3. \A w \in Windows : w.start \in Nat /\ w.end \in Nat
  BY TreapAssumption
<1> QED BY <1>2, <1>3 DEF IsEmpty, Covers

LEMMA CellsRanked ==
  ASSUME TreapInv
  PROVE  Ranked(Origin, Final)
BY HorizonFacts DEF TreapInv, Ranked

\* The parts are a record of three treaps.
LEMMA IsolatedParts ==
  ASSUME TreapInv, NEW w \in Windows, ~IsEmpty(w), NEW c
  PROVE  LET parts == Isolate(root, w)
             changed == [parts EXCEPT !.middle = c]
         IN  /\ changed.before = parts.before /\ changed.middle = c
             /\ changed.after = parts.after /\ parts.middle \in Treaps
<1>1. PICK parts : parts = Isolate(root, w)
  OBVIOUS
<1>2. PICK changed : changed = [parts EXCEPT !.middle = c]
  OBVIOUS
<1>3. /\ changed.before = parts.before /\ changed.middle = c
      /\ changed.after = parts.after
  BY <1>1, <1>2 DEF Isolate, SplitFrom, Three
<1>4. PICK p : Sound(root, Origin, Final, p, {})
  BY DEF TreapInv
<1>5. w.start \in Int /\ w.end \in Int /\ w.start < w.end
  BY HorizonFacts
<1>6. \E x \in Int, y \in Int, q \in Nat :
        Framed(parts.before, parts.middle, parts.after, root, Origin, x, y, Final, q)
  BY <1>1, <1>4, <1>5, CellsRanked, IsolateSound
<1>7. parts.middle \in Treaps
  BY <1>6, SoundTreap DEF Framed
<1> QED BY <1>1, <1>2, <1>3, <1>7

\* Over an empty window nothing waits.
LEMMA EmptyUnder ==
  ASSUME NEW w \in Windows, IsEmpty(w), NEW n, NEW wait
  PROVE  SaysUnder(n, n, wait, w, Origin, Final)
<1>1. \A t \in Origin..(Final - 1) : t \in Int
  BY HorizonFacts
<1> QED BY <1>1, HorizonFacts DEF SaysUnder

LEMMA RangeAddStep ==
  ASSUME TreapInv, NEW w \in Windows, NEW column \in Columns, NEW delta \in Deltas,
         RangeAdd(w, column, delta)
  PROVE  /\ TreapInv'
         /\ SaysUnder(root', root, Adding(column, delta), w, Origin, Final)
<1>1. delta \in Int /\ prio' = prio
  BY TreapAssumption DEF RangeAdd, CountUpdate
<1>2. PICK p : Sound(root, Origin, Final, p, {})
  BY DEF TreapInv
<1>3. CASE IsEmpty(w)
  <2>1. root' = root
    BY <1>3 DEF RangeAdd
  <2> QED BY <1>1, <1>3, <2>1, EmptyUnder DEF TreapInv
<1>4. CASE ~IsEmpty(w)
  <2>1. PICK parts : parts = Isolate(root, w)
    OBVIOUS
  <2>2. PICK c : c = ApplyAdd(parts.middle, [Nothing EXCEPT ![column] = delta])
    OBVIOUS
  <2>3. PICK changed : changed = [parts EXCEPT !.middle = c]
    OBVIOUS
  <2>4. root' = Join(changed)
    BY <1>4, <2>1, <2>2, <2>3 DEF RangeAdd
  <2>5. /\ changed.before = parts.before /\ changed.middle = c
        /\ changed.after = parts.after
    BY <1>4, <2>1, <2>3, IsolatedParts
  <2>6. Waits(Adding(column, delta)) /\ c = Inherit(parts.middle, Adding(column, delta))
    BY <1>1, <2>2, AddingWaits
  <2>7. w.start \in Int /\ w.end \in Int /\ w.start < w.end
    BY <1>4, HorizonFacts
  <2>8. /\ \E q : Sound(root', Origin, Final, q, {})
        /\ SaysUnder(root', root, Adding(column, delta), w, Origin, Final)
    BY <1>2, <2>1, <2>4, <2>5, <2>6, <2>7, CellsRanked, UpdateSound
  <2> QED BY <1>1, <2>8 DEF TreapInv
<1> QED BY <1>3, <1>4

LEMMA RangeSetStep ==
  ASSUME TreapInv, NEW w \in Windows, NEW v \in Capacities, RangeSet(w, v)
  PROVE  TreapInv' /\ SaysUnder(root', root, Setting(v), w, Origin, Final)
<1>1. v \in Int /\ prio' = prio
  BY TreapAssumption DEF RangeSet, CountUpdate
<1>2. PICK p : Sound(root, Origin, Final, p, {})
  BY DEF TreapInv
<1>3. CASE IsEmpty(w)
  <2>1. root' = root
    BY <1>3 DEF RangeSet
  <2> QED BY <1>1, <1>3, <2>1, EmptyUnder DEF TreapInv
<1>4. CASE ~IsEmpty(w)
  <2>1. PICK parts : parts = Isolate(root, w)
    OBVIOUS
  <2>2. PICK c : c = ApplySetCap(parts.middle, v)
    OBVIOUS
  <2>3. PICK changed : changed = [parts EXCEPT !.middle = c]
    OBVIOUS
  <2>4. root' = Join(changed)
    BY <1>4, <2>1, <2>2, <2>3 DEF RangeSet
  <2>5. /\ changed.before = parts.before /\ changed.middle = c
        /\ changed.after = parts.after /\ parts.middle \in Treaps
    BY <1>4, <2>1, <2>3, IsolatedParts
  <2>6. Waits(Setting(v)) /\ c = Inherit(parts.middle, Setting(v))
    BY <1>1, <2>2, <2>5, SettingWaits
  <2>7. w.start \in Int /\ w.end \in Int /\ w.start < w.end
    BY <1>4, HorizonFacts
  <2>8. /\ \E q : Sound(root', Origin, Final, q, {})
        /\ SaysUnder(root', root, Setting(v), w, Origin, Final)
    BY <1>2, <2>1, <2>4, <2>5, <2>6, <2>7, CellsRanked, UpdateSound
  <2> QED BY <1>1, <2>8 DEF TreapInv
<1> QED BY <1>3, <1>4

\* m is None when no instant of the window is covered, and otherwise has the
\* sums over those that are.
HasSums(m, n, w) ==
  /\ m = None => \A t \in Cells : ~Covers(w, t)
  /\ m # None => m \in Treaps /\ \A s \in Strengths :
       /\ \A t \in Cells : Covers(w, t) => m.min[s] <= SlackIn(ValuesAt(n, t), s)
       /\ \E t \in Cells : Covers(w, t) /\ m.min[s] = SlackIn(ValuesAt(n, t), s)
       /\ \A t \in Cells : Covers(w, t) => Weight(ValuesAt(n, t).own, s) <= m.peak[s]
       /\ \E t \in Cells : Covers(w, t) /\ m.peak[s] = Weight(ValuesAt(n, t).own, s)

LEMMA QuestionStep ==
  ASSUME TreapInv, NEW w \in Windows, prio' = prio,
         NEW parts, parts = Isolate(root, w),
         root' = IF IsEmpty(w) THEN root ELSE Join(parts)
  PROVE  /\ TreapInv' /\ Same(root', root, Origin, Final)
         /\ IsEmpty(w) \/ HasSums(parts.middle, root, w)
<1>1. PICK p : Sound(root, Origin, Final, p, {})
  BY DEF TreapInv
<1>2. CASE IsEmpty(w)
  BY <1>2 DEF TreapInv, Same
<1>3. CASE ~IsEmpty(w)
  <2>1. w.start \in Int /\ w.end \in Int /\ w.start < w.end
    BY <1>3, HorizonFacts
  <2>2. /\ Kept(root', root, Origin, Final, {})
        /\ parts.middle = None => \A t \in Origin..(Final - 1) : ~Covers(w, t)
        /\ parts.middle # None =>
             \E x \in Int, y \in Int :
               /\ Within(w, Origin, x, y, Final)
               /\ Origin <= x /\ y <= Final
               /\ parts.middle \in Treaps /\ SumsRight(parts.middle, x, y)
               /\ Same(parts.middle, root, x, y)
    BY <1>1, <1>3, <2>1, CellsRanked, QuestionSound
  <2>3. TreapInv' /\ Same(root', root, Origin, Final)
    BY <2>2 DEF TreapInv, Kept
  <2>4. CASE parts.middle = None
    BY <2>2, <2>3, <2>4, HorizonFacts DEF HasSums
  <2>5. CASE parts.middle # None
    <3>1. PICK m : m = parts.middle
      OBVIOUS
    <3>2. PICK x \in Int, y \in Int :
            /\ Within(w, Origin, x, y, Final)
            /\ Origin <= x /\ y <= Final
            /\ m \in Treaps /\ SumsRight(m, x, y) /\ Same(m, root, x, y)
      BY <2>2, <2>5, <3>1
    <3>3. /\ \A t \in Cells : Covers(w, t) => t \in x..(y - 1)
          /\ \A t \in x..(y - 1) : t \in Cells /\ Covers(w, t)
      <4>1. \A t \in x..(y - 1) : t \in Origin..(Final - 1)
        BY <3>2, HorizonFacts
      <4> QED BY <3>2, <4>1, HorizonFacts DEF Within
    <3>4. HasSums(m, root, w)
      <4> SUFFICES ASSUME NEW s \in Strengths
                   PROVE  /\ \A t \in Cells : Covers(w, t) =>
                               m.min[s] <= SlackIn(ValuesAt(root, t), s)
                          /\ \E t \in Cells : /\ Covers(w, t)
                                              /\ m.min[s] = SlackIn(ValuesAt(root, t), s)
                          /\ \A t \in Cells : Covers(w, t) =>
                               Weight(ValuesAt(root, t).own, s) <= m.peak[s]
                          /\ \E t \in Cells : /\ Covers(w, t)
                                              /\ m.peak[s] = Weight(ValuesAt(root, t).own, s)
        BY <2>5, <3>1, <3>2 DEF HasSums
      <4>1. /\ \A t \in x..(y - 1) : m.min[s] <= SlackIn(ValuesAt(root, t), s)
            /\ \E t \in x..(y - 1) : m.min[s] = SlackIn(ValuesAt(root, t), s)
            /\ \A t \in x..(y - 1) : Weight(ValuesAt(root, t).own, s) <= m.peak[s]
            /\ \E t \in x..(y - 1) : m.peak[s] = Weight(ValuesAt(root, t).own, s)
        BY <3>2 DEF SumsRight, Same
      <4> QED BY <3>3, <4>1
    <3> QED BY <2>3, <3>1, <3>4
  <2> QED BY <2>4, <2>5
<1> QED BY <1>2, <1>3

\* At first there is one cell over the horizon.
LEMMA TreapStart ==
  ASSUME TreapInit
  PROVE  /\ TreapInv
         /\ \A t \in Cells : ValuesAt(root, t) = [capacity |-> Capacity, own |-> Nothing]
<1>1. PICK c : c = Cell(Origin, Final, Capacity, Nothing)
  OBVIOUS
<1>2. /\ prio \in [Cells -> Nat] /\ Capacity \in Int
      /\ root = Pull(c)
  BY <1>1, TreapAssumption DEF TreapInit, Final
<1>3. prio[Origin] \in Nat
  BY <1>2, HorizonFacts
<1>4. /\ c.start = Origin /\ c.end = Final /\ c.prio = prio[Origin]
      /\ c.capacity = Capacity /\ c.own = Nothing /\ c.left = None /\ c.right = None
      /\ c.add = Nothing /\ c.setCap = None
  BY <1>1 DEF Cell
<1>5. c \in Nodes(TreapsTo[0])
  <2>1. None \in TreapsTo[0]
    BY TreapsByHeight
  <2>2. /\ [s \in Strengths |-> 0] \in [Strengths -> Int]
        /\ Nothing \in [Columns -> Int] /\ None \in Int \cup {None}
    BY NothingType
  <2> QED BY <1>1, <1>2, <1>3, <2>1, <2>2, HorizonFacts DEF Cell, Nodes
<1>6. root = Rebuilt(c, None, None)
  <2>1. [c EXCEPT !.left = None, !.right = None] = c
    BY <1>4, <1>5 DEF Nodes
  <2> QED BY <1>2, <2>1 DEF Rebuilt
<1>7. /\ Rests(c, Origin, Final) /\ Clear(c, {}) /\ c.prio <= c.prio /\ c.prio \in Nat
  BY <1>3, <1>4, HorizonFacts DEF Rests, Clear
<1>8. /\ Sound(None, Origin, c.start, c.prio, UpTo({}, c.start))
      /\ Sound(None, c.end, Final, c.prio, After({}, c.start))
  <2>1. UpTo({}, c.start) \in SUBSET Int /\ After({}, c.start) \in SUBSET Int
    BY DEF UpTo, After
  <2> QED BY <1>4, <1>7, <2>1, HorizonFacts, SoundNone
<1>9. Sound(root, Origin, Final, c.prio, {}) /\ SaysBoth(root, None, c, None, Origin, Final)
  <2>1. {} \in SUBSET Int
    OBVIOUS
  <2> QED BY <1>5, <1>6, <1>7, <1>8, <2>1, HorizonFacts, RebuiltSound
<1>10. \A t \in Cells : ValuesAt(root, t) = [capacity |-> Capacity, own |-> Nothing]
  BY <1>4, <1>9, HorizonFacts DEF SaysBoth, SaysCell
<1> QED BY <1>2, <1>9, <1>10 DEF TreapInv

LEMMA TreapInvStep ==
  ASSUME TreapInv, [TreapNext]_treapVars
  PROVE  TreapInv'
<1>1. ASSUME NEW w \in Windows, NEW column \in Columns, NEW delta \in Deltas,
             RangeAdd(w, column, delta)
      PROVE  TreapInv'
  BY <1>1, RangeAddStep
<1>2. ASSUME NEW w \in Windows, NEW v \in Capacities, RangeSet(w, v)
      PROVE  TreapInv'
  BY <1>2, RangeSetStep
<1>3. ASSUME NEW w \in Windows, MinSlack(w)
      PROVE  TreapInv'
  BY <1>3, QuestionStep DEF MinSlack
<1>4. ASSUME NEW w \in Windows, MaxContrib(w)
      PROVE  TreapInv'
  BY <1>4, QuestionStep DEF MaxContrib
<1>5. CASE UNCHANGED treapVars
  BY <1>5 DEF TreapInv, treapVars
<1> QED BY <1>1, <1>2, <1>3, <1>4, <1>5 DEF TreapNext

LEMMA TreapInvHolds == TreapSpec => []TreapInv
<1>1. TreapInit => TreapInv
  BY TreapStart
<1>2. TreapInv /\ [TreapNext]_treapVars => TreapInv'
  BY TreapInvStep
<1> QED BY <1>1, <1>2, PTL DEF TreapSpec

\* The cells of the treap cover the horizon in order, without gap, overlap or
\* empty cell, and no child has a higher priority than its parent: split, merge
\* and the cuts at the ends of windows keep that (split, merge and
\* ensureBoundary, interval.hpp).
THEOREM TreapKeepsShape == TreapSpec => []TreapShape
<1>1. TreapInv => TreapShape
  BY SoundShape DEF TreapInv, TreapShape, Final
<1> QED BY <1>1, TreapInvHolds, PTL

-----------------------------------------------------------------------------
(* The columns the treap stands for.                                       *)

CapColumn(n) ==
  [t \in Time |-> IF t \in Cells THEN ValuesAt(n, t).capacity ELSE Capacity]
OwnColumn(n, c) ==
  [t \in Time |-> IF t \in Cells THEN ValuesAt(n, t).own[c] ELSE 0]

Image(n) ==
  [from |-> Origin, ratio |-> Ratio, cap |-> CapColumn(n),
   hard |-> OwnColumn(n, "hard"), soft |-> OwnColumn(n, "soft"),
   held |-> OwnColumn(n, "held")]

\* The cells an operation over w touches.
Touched(w) == {t \in Cells : Covers(w, t)}

LEMMA RepresentedIsImage ==
  Represented = Image(root) /\ Represented' = Image(root')
<1>1. /\ \A c : [t \in Time |-> IF t \in Cells
                                 THEN [u \in Cells |-> ValuesAt(root, u)][t].own[c]
                                 ELSE 0] = OwnColumn(root, c)
      /\ [t \in Time |-> IF t \in Cells
                           THEN [u \in Cells |-> ValuesAt(root, u)][t].capacity
                           ELSE Capacity] = CapColumn(root)
  BY DEF OwnColumn, CapColumn
<1>2. /\ \A c : [t \in Time |-> IF t \in Cells
                                 THEN [u \in Cells |-> ValuesAt(root', u)][t].own[c]
                                 ELSE 0] = OwnColumn(root', c)
      /\ [t \in Time |-> IF t \in Cells
                           THEN [u \in Cells |-> ValuesAt(root', u)][t].capacity
                           ELSE Capacity] = CapColumn(root')
  BY DEF OwnColumn, CapColumn
<1>3. Represented = Image(root)
  BY <1>1 DEF Represented, Image
<1>4. Represented' = Image(root')
  BY <1>2 DEF Represented, Image
<1> QED BY <1>3, <1>4

LEMMA ImageCells ==
  ASSUME NEW n, NEW w
  PROVE  Span(Image(n)) = Cells /\ CellsOf(Image(n), w) = Touched(w)
<1>1. Image(n).from = Origin
  BY DEF Image
<1>2. \A t \in Time : Origin <= t /\ t < Origin + Horizon <=> t \in Cells
  BY TreapAssumption, EnvelopeAssumption DEF Time, Cells
<1>3. Cells \subseteq Time
  BY TreapAssumption
<1>4. Span(Image(n)) = Cells
  BY <1>1, <1>2, <1>3 DEF Span
<1> QED BY <1>4 DEF CellsOf, Touched

\* What the treap says at an instant of the horizon, column by column.
LEMMA ColumnsType ==
  ASSUME NEW n \in Treaps
  PROVE  /\ \A t : ValuesAt(n, t) \in Value
         /\ \A t : ValuesAt(n, t).capacity \in Int
         /\ \A t : \A c \in Columns : ValuesAt(n, t).own[c] \in Int
         /\ CapColumn(n) \in [Time -> Int]
         /\ \A c \in Columns : OwnColumn(n, c) \in [Time -> Int]
<1>1. \A t : ValuesAt(n, t) \in Value
  BY ValuesType
<1>2. \A v \in Value : v.capacity \in Int /\ \A c \in Columns : v.own[c] \in Int
  BY DEF Value
<1>3. Capacity \in Int
  BY TreapAssumption
<1> QED BY <1>1, <1>2, <1>3 DEF CapColumn, OwnColumn

\* Adding to a column raises it where the window is.
LEMMA ImageAdd ==
  ASSUME NEW n \in Treaps, NEW z, NEW w, NEW column \in Columns, NEW delta \in Int,
         SaysUnder(z, n, Adding(column, delta), w, Origin, Final)
  PROVE  /\ CapColumn(z) = CapColumn(n)
         /\ OwnColumn(z, column) = Raise(OwnColumn(n, column), Touched(w), delta)
         /\ \A c \in Columns \ {column} : OwnColumn(z, c) = OwnColumn(n, c)
<1>1. PICK add : add = [Nothing EXCEPT ![column] = delta]
  OBVIOUS
<1>2. /\ Adding(column, delta).setCap = None /\ Adding(column, delta).add = add
      /\ add[column] = delta
      /\ \A c \in Columns \ {column} : add[c] = 0
  BY <1>1 DEF Adding, Nothing
<1>3. \A t : /\ ValuesAt(n, t).capacity \in Int
             /\ \A c \in Columns : ValuesAt(n, t).own[c] \in Int
  BY ColumnsType
<1>4. ASSUME NEW t \in Cells
      PROVE  /\ ValuesAt(z, t).capacity = ValuesAt(n, t).capacity
             /\ ValuesAt(z, t).own[column] = IF t \in Touched(w)
                                             THEN ValuesAt(n, t).own[column] + delta
                                             ELSE ValuesAt(n, t).own[column]
             /\ \A c \in Columns \ {column} :
                  ValuesAt(z, t).own[c] = ValuesAt(n, t).own[c]
  <2>1. PICK u, v : u = ValuesAt(z, t) /\ v = ValuesAt(n, t)
    OBVIOUS
  <2>2. u = IF t \in Touched(w) THEN Under(Adding(column, delta), v) ELSE v
    BY <2>1, HorizonFacts DEF SaysUnder, Touched
  <2>3. CASE t \in Touched(w)
    <3>1. u.capacity = v.capacity /\ u.own = Plus(v.own, add)
      BY <1>2, <2>2, <2>3 DEF Under
    <3>2. \A c \in Columns : u.own[c] = v.own[c] + add[c]
      BY <3>1 DEF Plus
    <3>3. \A c \in Columns : v.own[c] \in Int
      BY <1>3, <2>1
    <3>4. \A c \in Columns \ {column} : u.own[c] = v.own[c]
      BY <1>2, <3>2, <3>3
    <3> QED BY <1>2, <2>1, <2>3, <3>1, <3>2, <3>4
  <2>4. CASE t \notin Touched(w)
    BY <2>1, <2>2, <2>4
  <2> QED BY <2>3, <2>4
<1>5. Touched(w) \subseteq Cells /\ Cells \subseteq Time
  BY TreapAssumption DEF Touched
<1>6. CapColumn(z) = CapColumn(n)
  BY <1>4 DEF CapColumn
<1>7. OwnColumn(z, column) = Raise(OwnColumn(n, column), Touched(w), delta)
  BY <1>4, <1>5 DEF OwnColumn, Raise
<1>8. \A c \in Columns \ {column} : OwnColumn(z, c) = OwnColumn(n, c)
  BY <1>4 DEF OwnColumn
<1> QED BY <1>6, <1>7, <1>8

\* Setting the capacity replaces it where the window is.
LEMMA ImageSet ==
  ASSUME NEW n \in Treaps, NEW z, NEW w, NEW v \in Int,
         SaysUnder(z, n, Setting(v), w, Origin, Final)
  PROVE  /\ CapColumn(z) = [t \in Time |-> IF t \in Touched(w) THEN v ELSE CapColumn(n)[t]]
         /\ \A c \in Columns : OwnColumn(z, c) = OwnColumn(n, c)
<1>1. Setting(v).setCap = v /\ Setting(v).add = Nothing /\ v # None
  BY TreapAssumption DEF Setting
<1>2. \A t : ValuesAt(n, t) \in Value
  BY ColumnsType
<1>3. ASSUME NEW t \in Cells
      PROVE  /\ ValuesAt(z, t).capacity = IF t \in Touched(w) THEN v
                                          ELSE ValuesAt(n, t).capacity
             /\ ValuesAt(z, t).own = ValuesAt(n, t).own
  <2>1. PICK u, x : u = ValuesAt(z, t) /\ x = ValuesAt(n, t)
    OBVIOUS
  <2>2. u = IF t \in Touched(w) THEN Under(Setting(v), x) ELSE x
    BY <2>1, HorizonFacts DEF SaysUnder, Touched
  <2>3. Plus(x.own, Nothing) = x.own
    BY <1>2, <2>1, NothingType, PlusLaws DEF Value
  <2> QED BY <1>1, <2>1, <2>2, <2>3 DEF Under
<1>4. Touched(w) \subseteq Cells /\ Cells \subseteq Time
  BY TreapAssumption DEF Touched
<1>5. CapColumn(z) = [t \in Time |-> IF t \in Touched(w) THEN v ELSE CapColumn(n)[t]]
  BY <1>3, <1>4 DEF CapColumn
<1>6. \A c \in Columns : OwnColumn(z, c) = OwnColumn(n, c)
  BY <1>3 DEF OwnColumn
<1> QED BY <1>5, <1>6

\* The operations of the columns, field by field.
LEMMA ImageOperations ==
  ASSUME NEW n, NEW w, NEW d
  PROVE  /\ AddCommitted(Image(n), "Hard", w, d) =
              [from |-> Origin, ratio |-> Ratio, cap |-> CapColumn(n),
               hard |-> Raise(OwnColumn(n, "hard"), Touched(w), d),
               soft |-> OwnColumn(n, "soft"), held |-> OwnColumn(n, "held")]
         /\ AddCommitted(Image(n), "Soft", w, d) =
              [from |-> Origin, ratio |-> Ratio, cap |-> CapColumn(n),
               hard |-> OwnColumn(n, "hard"),
               soft |-> Raise(OwnColumn(n, "soft"), Touched(w), d),
               held |-> OwnColumn(n, "held")]
         /\ AddHeld(Image(n), w, d) =
              [from |-> Origin, ratio |-> Ratio, cap |-> CapColumn(n),
               hard |-> OwnColumn(n, "hard"), soft |-> OwnColumn(n, "soft"),
               held |-> Raise(OwnColumn(n, "held"), Touched(w), d)]
         /\ Index!SetCapacity(Image(n), w, d) =
              [from |-> Origin, ratio |-> Ratio,
               cap |-> [t \in Time |-> IF t \in Touched(w) THEN d ELSE CapColumn(n)[t]],
               hard |-> OwnColumn(n, "hard"), soft |-> OwnColumn(n, "soft"),
               held |-> OwnColumn(n, "held")]
<1>1. PICK e : e = Image(n)
  OBVIOUS
<1>2. PICK a, h, s, l : /\ a = CapColumn(n) /\ h = OwnColumn(n, "hard")
                        /\ s = OwnColumn(n, "soft") /\ l = OwnColumn(n, "held")
  OBVIOUS
<1>3. e = [from |-> Origin, ratio |-> Ratio, cap |-> a, hard |-> h, soft |-> s, held |-> l]
  BY <1>1, <1>2 DEF Image
<1>4. e.cap = a /\ e.hard = h /\ e.soft = s /\ e.held = l
  BY <1>3
<1>5. ASSUME NEW x
      PROVE  /\ [e EXCEPT !.hard = x] = [from |-> Origin, ratio |-> Ratio, cap |-> a,
                                         hard |-> x, soft |-> s, held |-> l]
             /\ [e EXCEPT !.soft = x] = [from |-> Origin, ratio |-> Ratio, cap |-> a,
                                         hard |-> h, soft |-> x, held |-> l]
             /\ [e EXCEPT !.held = x] = [from |-> Origin, ratio |-> Ratio, cap |-> a,
                                         hard |-> h, soft |-> s, held |-> x]
             /\ [e EXCEPT !.cap = x] = [from |-> Origin, ratio |-> Ratio, cap |-> x,
                                        hard |-> h, soft |-> s, held |-> l]
  BY <1>3
<1>6. CellsOf(e, w) = Touched(w)
  BY <1>1, ImageCells
<1>7. Index!SetCapacity(e, w, d) =
        [e EXCEPT !.cap = [t \in Time |-> IF t \in CellsOf(e, w) THEN d ELSE e.cap[t]]]
  BY DEF Index!SetCapacity, Index!CellsOf, CellsOf, Index!Span, Span, Index!Time, Time,
         Index!Covers, Covers
<1>8. /\ AddCommitted(e, "Hard", w, d) = [e EXCEPT !.hard = Raise(h, Touched(w), d)]
      /\ AddCommitted(e, "Soft", w, d) = [e EXCEPT !.soft = Raise(s, Touched(w), d)]
      /\ AddHeld(e, w, d) = [e EXCEPT !.held = Raise(l, Touched(w), d)]
      /\ Index!SetCapacity(e, w, d) =
           [e EXCEPT !.cap = [t \in Time |-> IF t \in Touched(w) THEN d ELSE a[t]]]
  BY <1>4, <1>6, <1>7 DEF AddCommitted, AddHeld
<1>9. /\ AddCommitted(e, "Hard", w, d) =
           [from |-> Origin, ratio |-> Ratio, cap |-> a,
            hard |-> Raise(h, Touched(w), d), soft |-> s, held |-> l]
      /\ AddCommitted(e, "Soft", w, d) =
           [from |-> Origin, ratio |-> Ratio, cap |-> a,
            hard |-> h, soft |-> Raise(s, Touched(w), d), held |-> l]
      /\ AddHeld(e, w, d) =
           [from |-> Origin, ratio |-> Ratio, cap |-> a,
            hard |-> h, soft |-> s, held |-> Raise(l, Touched(w), d)]
  BY <1>5, <1>8
<1>10. Index!SetCapacity(e, w, d) =
         [from |-> Origin, ratio |-> Ratio,
          cap |-> [t \in Time |-> IF t \in Touched(w) THEN d ELSE a[t]],
          hard |-> h, soft |-> s, held |-> l]
  BY <1>5, <1>8
<1> QED BY <1>1, <1>2, <1>9, <1>10

\* Index has the definitions of the envelope.
LEMMA IndexSame ==
  /\ \A e, s, w, d : Index!AddCommitted(e, s, w, d) = AddCommitted(e, s, w, d)
  /\ \A e, w, d : Index!AddHeld(e, w, d) = AddHeld(e, w, d)
  /\ \A e, s, t : Index!Slack(e, s, t) = Slack(e, s, t)
  /\ \A e, w : Index!CellsOf(e, w) = CellsOf(e, w)
  /\ Index!Strengths = Strengths
  /\ \A f, r, c, u : Index!NewEnvelope(f, r, c, u) = NewEnvelope(f, r, c, u)
<1> USE DEF Index!CellsOf, CellsOf, Index!Span, Span, Index!Time, Time, Index!Covers, Covers
<1>1. \A e, w : Index!CellsOf(e, w) = CellsOf(e, w)
  OBVIOUS
<1>2. \A f, S, d : Index!Raise(f, S, d) = Raise(f, S, d)
  BY DEF Index!Raise, Raise
<1>3. \A e, s, t : Index!Slack(e, s, t) = Slack(e, s, t)
  BY DEF Index!Slack, Slack, Index!HardSlack, HardSlack, Index!SoftSlack, SoftSlack,
         Index!SoftLimit, SoftLimit, Index!EffCapacity, EffCapacity, Index!Unity, Unity
<1>4. \A f, r, c, u : Index!NewEnvelope(f, r, c, u) = NewEnvelope(f, r, c, u)
  BY DEF Index!NewEnvelope, NewEnvelope
<1> HIDE DEF Index!CellsOf, CellsOf, Index!Span, Span, Index!Time, Time, Index!Covers, Covers
<1>6. /\ \A e, s, w, d : Index!AddCommitted(e, s, w, d) = AddCommitted(e, s, w, d)
      /\ \A e, w, d : Index!AddHeld(e, w, d) = AddHeld(e, w, d)
  BY <1>1, <1>2 DEF Index!AddCommitted, AddCommitted, Index!AddHeld, AddHeld
<1>7. Index!Strengths = Strengths
  BY DEF Index!Strengths, Strengths
<1> QED BY <1>1, <1>3, <1>4, <1>6, <1>7

\* The answer of the columns is the least slack, or the highest load, when an
\* instant of the window has it.
LEMMA IndexHeadroom ==
  ASSUME NEW e, NEW s, NEW w,
         \A t \in CellsOf(e, w) : Slack(e, s, t) \in Int
  PROVE  /\ CellsOf(e, w) = {} => Index!Headroom(e, s, w) = NoLimit
         /\ \A x \in Int : /\ \A t \in CellsOf(e, w) : x <= Slack(e, s, t)
                           /\ \E t \in CellsOf(e, w) : x = Slack(e, s, t)
                           => Index!Headroom(e, s, w) = x
<1> DEFINE slacks == {Index!Slack(e, s, t) : t \in Index!CellsOf(e, w)}
           Least(x) == x \in slacks /\ \A other \in slacks : x <= other
<1>1. slacks = {Slack(e, s, t) : t \in CellsOf(e, w)}
  BY IndexSame
<1>2. Index!Headroom(e, s, w) = IF slacks = {} THEN NoLimit ELSE CHOOSE x : Least(x)
  BY DEF Index!Headroom
<1>3. slacks \subseteq Int
  BY <1>1
<1>4. CellsOf(e, w) = {} => slacks = {}
  BY <1>1
<1>5. ASSUME NEW x \in Int,
             \A t \in CellsOf(e, w) : x <= Slack(e, s, t),
             \E t \in CellsOf(e, w) : x = Slack(e, s, t)
      PROVE  Index!Headroom(e, s, w) = x
  <2>1. Least(x) /\ slacks # {}
    BY <1>1, <1>5
  <2>2. \A y : Least(y) => y = x
    BY <1>3, <2>1
  <2> HIDE DEF slacks, Least
  <2> QED BY <1>2, <2>1, <2>2
<1> QED BY <1>2, <1>4, <1>5

LEMMA IndexPeak ==
  ASSUME NEW e, NEW s, NEW w,
         \A t \in CellsOf(e, w) : Index!Load(e, s, t) \in Int
  PROVE  /\ CellsOf(e, w) = {} => Index!Peak(e, s, w) = 0
         /\ \A x \in Int : /\ \A t \in CellsOf(e, w) : Index!Load(e, s, t) <= x
                           /\ \E t \in CellsOf(e, w) : x = Index!Load(e, s, t)
                           => Index!Peak(e, s, w) = x
<1> DEFINE loads == {Index!Load(e, s, t) : t \in Index!CellsOf(e, w)}
           Most(x) == x \in loads /\ \A other \in loads : other <= x
<1>1. loads = {Index!Load(e, s, t) : t \in CellsOf(e, w)}
  BY IndexSame
<1>2. Index!Peak(e, s, w) = IF loads = {} THEN 0 ELSE CHOOSE x : Most(x)
  BY DEF Index!Peak
<1>3. loads \subseteq Int
  BY <1>1
<1>4. CellsOf(e, w) = {} => loads = {}
  BY <1>1
<1>5. ASSUME NEW x \in Int,
             \A t \in CellsOf(e, w) : Index!Load(e, s, t) <= x,
             \E t \in CellsOf(e, w) : x = Index!Load(e, s, t)
      PROVE  Index!Peak(e, s, w) = x
  <2>1. Most(x) /\ loads # {}
    BY <1>1, <1>5
  <2>2. \A y : Most(y) => y = x
    BY <1>3, <2>1
  <2> HIDE DEF loads, Most
  <2> QED BY <1>2, <2>1, <2>2
<1> QED BY <1>2, <1>4, <1>5

\* Slack and load of the columns are those of what the treap says.
LEMMA ImageSlack ==
  ASSUME NEW n \in Treaps, NEW s \in Strengths, NEW t \in Cells
  PROVE  /\ Slack(Image(n), s, t) = SlackIn(ValuesAt(n, t), s)
         /\ Index!Load(Image(n), s, t) = Weight(ValuesAt(n, t).own, s)
         /\ SlackIn(ValuesAt(n, t), s) \in Int /\ Weight(ValuesAt(n, t).own, s) \in Int
<1>1. t \in Time /\ s \in {"Hard", "Soft"}
  BY TreapAssumption DEF Strengths
<1>2. PICK v \in Value : v = ValuesAt(n, t)
  BY ColumnsType
<1>3. /\ v.capacity \in Int
      /\ v.own["hard"] \in Int /\ v.own["soft"] \in Int /\ v.own["held"] \in Int
      /\ v.own \in [Columns -> Int]
  BY DEF Value, Columns
<1>4. PICK e : e = Image(n)
  OBVIOUS
<1>5. /\ e.cap = CapColumn(n) /\ e.hard = OwnColumn(n, "hard")
      /\ e.soft = OwnColumn(n, "soft") /\ e.held = OwnColumn(n, "held")
      /\ e.ratio = Ratio
  BY <1>4 DEF Image
<1>6. /\ e.cap[t] = v.capacity /\ e.hard[t] = v.own["hard"]
      /\ e.soft[t] = v.own["soft"] /\ e.held[t] = v.own["held"]
  BY <1>1, <1>2, <1>5 DEF CapColumn, OwnColumn
<1>7. Limit("Soft", v.capacity) \in Int /\ Limit(s, v.capacity) \in Int
      /\ Weight(v.own, s) \in Int
  BY <1>3, LimitType, WeightType
<1>8. Index!Load(e, s, t) = Weight(v.own, s)
  BY <1>1, <1>3, <1>6 DEF Index!Load, Weight
<1>9. CASE s = "Hard"
  <2>1. Slack(e, s, t) = v.capacity - v.own["hard"] - v.own["held"]
    BY <1>6, <1>9 DEF Slack, HardSlack
  <2>2. SlackIn(v, s) = v.capacity - (v.own["hard"] + v.own["held"] + 0)
    BY <1>9 DEF SlackIn, Limit, Weight
  <2> QED BY <1>2, <1>3, <1>4, <1>7, <1>8, <2>1, <2>2 DEF SlackIn
<1>10. CASE s = "Soft"
  <2>1. PICK x \in Int : x = Limit("Soft", v.capacity) /\ x = EffCapacity(Ratio, v.capacity)
    BY <1>7 DEF Limit
  <2>2. Slack(e, s, t) = x - v.own["hard"] - v.own["soft"] - v.own["held"]
    BY <1>5, <1>6, <1>10, <2>1 DEF Slack, SoftSlack, SoftLimit
  <2>3. SlackIn(v, s) = x - (v.own["hard"] + v.own["held"] + v.own["soft"])
    BY <1>10, <2>1 DEF SlackIn, Weight
  <2> QED BY <1>2, <1>3, <1>4, <1>8, <1>10, <2>1, <2>2, <2>3, <1>7
<1> QED BY <1>1, <1>9, <1>10


-----------------------------------------------------------------------------
(* The treap implements the columns.                                       *)

\* What a question over w that cuts out m answers is what the columns answer.
LEMMA ImageAnswers ==
  ASSUME NEW n \in Treaps, NEW w \in Windows, NEW m, IsEmpty(w) \/ HasSums(m, n, w)
  PROVE  /\ [s \in Strengths |-> Index!Headroom(Image(n), s, w)] =
              IF IsEmpty(w) \/ m = None THEN [s \in Strengths |-> NoLimit] ELSE m.min
         /\ [s \in Strengths |-> Index!Peak(Image(n), s, w)] =
              IF IsEmpty(w) \/ m = None THEN [s \in Strengths |-> 0] ELSE m.peak
<1>1. PICK e : e = Image(n)
  OBVIOUS
<1>2. CellsOf(e, w) = Touched(w) /\ Touched(w) \subseteq Cells
  BY <1>1, ImageCells DEF Touched
<1>3. \A s \in Strengths : \A t \in Cells :
        /\ Slack(e, s, t) = SlackIn(ValuesAt(n, t), s)
        /\ Index!Load(e, s, t) = Weight(ValuesAt(n, t).own, s)
        /\ SlackIn(ValuesAt(n, t), s) \in Int /\ Weight(ValuesAt(n, t).own, s) \in Int
  BY <1>1, ImageSlack
<1>4. ASSUME NEW s \in Strengths
      PROVE  /\ \A t \in CellsOf(e, w) : Slack(e, s, t) \in Int
             /\ \A t \in CellsOf(e, w) : Index!Load(e, s, t) \in Int
  BY <1>2, <1>3
<1>5. CASE IsEmpty(w) \/ m = None
  <2>1. \A t \in Cells : ~Covers(w, t)
    <3>1. \A t \in Cells : t \in Int
      BY HorizonFacts
    <3> QED BY <1>5, <3>1, HorizonFacts DEF HasSums
  <2>2. CellsOf(e, w) = {}
    BY <1>2, <2>1 DEF Touched
  <2>3. \A s \in Strengths : Index!Headroom(e, s, w) = NoLimit /\ Index!Peak(e, s, w) = 0
    BY <1>4, <2>2, IndexHeadroom, IndexPeak
  <2> QED BY <1>1, <1>5, <2>3
<1>6. CASE ~(IsEmpty(w) \/ m = None)
  <2>1. m \in Treaps /\ HasSums(m, n, w)
    BY <1>6 DEF HasSums
  <2>2. m.min \in [Strengths -> Int] /\ m.peak \in [Strengths -> Int]
    <3>1. Horizon \in 0..Horizon /\ m \in TreapsTo[Horizon]
      BY <2>1, EnvelopeAssumption DEF Treaps
    <3> QED BY <1>6, <3>1, NodeBelow, NodeFields
  <2>3. ASSUME NEW s \in Strengths
        PROVE  Index!Headroom(e, s, w) = m.min[s] /\ Index!Peak(e, s, w) = m.peak[s]
    <3>1. /\ \A t \in Cells : Covers(w, t) => m.min[s] <= SlackIn(ValuesAt(n, t), s)
          /\ \E t \in Cells : Covers(w, t) /\ m.min[s] = SlackIn(ValuesAt(n, t), s)
          /\ \A t \in Cells : Covers(w, t) => Weight(ValuesAt(n, t).own, s) <= m.peak[s]
          /\ \E t \in Cells : Covers(w, t) /\ m.peak[s] = Weight(ValuesAt(n, t).own, s)
      BY <1>6, <2>1 DEF HasSums
    <3>2. /\ \A t \in CellsOf(e, w) : m.min[s] <= Slack(e, s, t)
          /\ \E t \in CellsOf(e, w) : m.min[s] = Slack(e, s, t)
      BY <1>2, <1>3, <3>1 DEF Touched
    <3>3. /\ \A t \in CellsOf(e, w) : Index!Load(e, s, t) <= m.peak[s]
          /\ \E t \in CellsOf(e, w) : m.peak[s] = Index!Load(e, s, t)
      BY <1>2, <1>3, <3>1 DEF Touched
    <3>4. m.min[s] \in Int /\ m.peak[s] \in Int
      BY <2>2
    <3>5. Index!Headroom(e, s, w) = m.min[s]
      BY <1>4, <3>2, <3>4, IndexHeadroom
    <3>6. Index!Peak(e, s, w) = m.peak[s]
      BY <1>4, <3>3, <3>4, IndexPeak
    <3> QED BY <3>5, <3>6
  <2>4. /\ m.min = [s \in Strengths |-> m.min[s]]
        /\ m.peak = [s \in Strengths |-> m.peak[s]]
    BY <2>2
  <2> QED BY <1>1, <1>6, <2>3, <2>4
<1> QED BY <1>5, <1>6

LEMMA TreapIsSound ==
  ASSUME TreapInv
  PROVE  root \in Treaps
<1>1. PICK p : Sound(root, Origin, Final, p, {})
  BY DEF TreapInv
<1> QED BY <1>1, SoundTreap

\* At first the columns are those of a new envelope.
LEMMA TreapStartsIndex ==
  ASSUME TreapInit
  PROVE  Index!IndexInit
<1>1. PICK e : e = NewEnvelope(Origin, Ratio, Capacity, {})
  OBVIOUS
<1>2. \A t \in Cells : ValuesAt(root, t) = [capacity |-> Capacity, own |-> Nothing]
  BY TreapStart
<1>3. \A t \in Cells : /\ ValuesAt(root, t).capacity = Capacity
                       /\ ValuesAt(root, t).own["hard"] = 0
                       /\ ValuesAt(root, t).own["soft"] = 0
                       /\ ValuesAt(root, t).own["held"] = 0
  BY <1>2 DEF Nothing, Columns
<1>4. CapColumn(root) = [t \in Time |-> Capacity]
  BY <1>3 DEF CapColumn
<1>5. /\ OwnColumn(root, "hard") = [t \in Time |-> 0]
      /\ OwnColumn(root, "soft") = [t \in Time |-> 0]
      /\ OwnColumn(root, "held") = [t \in Time |-> 0]
  BY <1>3 DEF OwnColumn
<1>6. Represented = e
  BY <1>1, <1>4, <1>5, RepresentedIsImage DEF Image, NewEnvelope
<1>7. Index!NewEnvelope(Origin, Ratio, Capacity, {}) = e
  BY <1>1, IndexSame
<1> QED BY <1>6, <1>7 DEF Index!IndexInit, TreapInit

LEMMA RangeAddImplements ==
  ASSUME TreapInv, NEW w \in Windows, NEW column \in Columns, NEW delta \in Deltas,
         RangeAdd(w, column, delta)
  PROVE  Index!AddTo(column, w, delta)
<1>1. PICK n : n = root
  OBVIOUS
<1>2. PICK z : z = root'
  OBVIOUS
<1>3. n \in Treaps /\ delta \in Int
  BY <1>1, TreapIsSound, TreapAssumption
<1>4. SaysUnder(z, n, Adding(column, delta), w, Origin, Final)
  BY <1>1, <1>2, RangeAddStep
<1>5. /\ CapColumn(z) = CapColumn(n)
      /\ OwnColumn(z, column) = Raise(OwnColumn(n, column), Touched(w), delta)
      /\ \A c \in Columns \ {column} : OwnColumn(z, c) = OwnColumn(n, c)
  BY <1>3, <1>4, ImageAdd
<1>6. Represented = Image(n) /\ Represented' = Image(z)
  BY <1>1, <1>2, RepresentedIsImage
<1>7. CASE column = "hard"
  <2>0. OwnColumn(z, "soft") = OwnColumn(n, "soft") /\ OwnColumn(z, "held") = OwnColumn(n, "held")
    BY <1>5, <1>7 DEF Columns
  <2>1. Image(z) = AddCommitted(Image(n), "Hard", w, delta)
    <3>1. Image(z) = [from |-> Origin, ratio |-> Ratio, cap |-> CapColumn(n),
                      hard |-> Raise(OwnColumn(n, "hard"), Touched(w), delta),
                      soft |-> OwnColumn(n, "soft"),
                      held |-> OwnColumn(n, "held")]
      BY <1>5, <1>7, <2>0 DEF Image
    <3> QED BY <3>1, ImageOperations
  <2>2. Image(z) = Index!AddCommitted(Image(n), "Hard", w, delta)
    BY <2>1, IndexSame
  <2> QED BY <1>6, <1>7, <2>2 DEF Index!AddTo, RangeAdd
<1>8. CASE column = "soft"
  <2>0. OwnColumn(z, "hard") = OwnColumn(n, "hard") /\ OwnColumn(z, "held") = OwnColumn(n, "held")
    BY <1>5, <1>8 DEF Columns
  <2>1. Image(z) = AddCommitted(Image(n), "Soft", w, delta)
    <3>1. Image(z) = [from |-> Origin, ratio |-> Ratio, cap |-> CapColumn(n),
                      hard |-> OwnColumn(n, "hard"),
                      soft |-> Raise(OwnColumn(n, "soft"), Touched(w), delta),
                      held |-> OwnColumn(n, "held")]
      BY <1>5, <1>8, <2>0 DEF Image
    <3> QED BY <3>1, ImageOperations
  <2>2. Image(z) = Index!AddCommitted(Image(n), "Soft", w, delta)
    BY <2>1, IndexSame
  <2> QED BY <1>6, <1>8, <2>2 DEF Index!AddTo, RangeAdd
<1>9. CASE column = "held"
  <2>0. OwnColumn(z, "hard") = OwnColumn(n, "hard") /\ OwnColumn(z, "soft") = OwnColumn(n, "soft")
    BY <1>5, <1>9 DEF Columns
  <2>1. Image(z) = AddHeld(Image(n), w, delta)
    <3>1. Image(z) = [from |-> Origin, ratio |-> Ratio, cap |-> CapColumn(n),
                      hard |-> OwnColumn(n, "hard"),
                      soft |-> OwnColumn(n, "soft"),
                      held |-> Raise(OwnColumn(n, "held"), Touched(w), delta)]
      BY <1>5, <1>9, <2>0 DEF Image
    <3> QED BY <3>1, ImageOperations
  <2>2. Image(z) = Index!AddHeld(Image(n), w, delta)
    BY <2>1, IndexSame
  <2> QED BY <1>6, <1>9, <2>2 DEF Index!AddTo, RangeAdd
<1> QED BY <1>7, <1>8, <1>9 DEF Columns

LEMMA RangeSetImplements ==
  ASSUME TreapInv, NEW w \in Windows, NEW v \in Capacities, RangeSet(w, v)
  PROVE  Index!SetTo(w, v)
<1>1. PICK n : n = root
  OBVIOUS
<1>2. PICK z : z = root'
  OBVIOUS
<1>3. n \in Treaps /\ v \in Int
  BY <1>1, TreapIsSound, TreapAssumption
<1>4. SaysUnder(z, n, Setting(v), w, Origin, Final)
  BY <1>1, <1>2, RangeSetStep
<1>5. /\ CapColumn(z) = [t \in Time |-> IF t \in Touched(w) THEN v ELSE CapColumn(n)[t]]
      /\ \A c \in Columns : OwnColumn(z, c) = OwnColumn(n, c)
  BY <1>3, <1>4, ImageSet
<1>6. Represented = Image(n) /\ Represented' = Image(z)
  BY <1>1, <1>2, RepresentedIsImage
<1>7. Image(z) = Index!SetCapacity(Image(n), w, v)
  <2>1. /\ OwnColumn(z, "hard") = OwnColumn(n, "hard")
        /\ OwnColumn(z, "soft") = OwnColumn(n, "soft")
        /\ OwnColumn(z, "held") = OwnColumn(n, "held")
    BY <1>5 DEF Columns
  <2>2. Image(z) = [from |-> Origin, ratio |-> Ratio,
                    cap |-> [t \in Time |-> IF t \in Touched(w) THEN v ELSE CapColumn(n)[t]],
                    hard |-> OwnColumn(n, "hard"), soft |-> OwnColumn(n, "soft"),
                    held |-> OwnColumn(n, "held")]
    BY <1>5, <2>1 DEF Image
  <2> QED BY <2>2, ImageOperations
<1> QED BY <1>6, <1>7 DEF Index!SetTo, RangeSet

\* A question leaves the columns alone.
LEMMA SameImage ==
  ASSUME NEW n, NEW z, Same(z, n, Origin, Final)
  PROVE  Image(z) = Image(n)
<1>1. \A t \in Cells : ValuesAt(z, t) = ValuesAt(n, t)
  BY HorizonFacts DEF Same
<1>2. CapColumn(z) = CapColumn(n)
  BY <1>1 DEF CapColumn
<1>3. \A c : OwnColumn(z, c) = OwnColumn(n, c)
  BY <1>1 DEF OwnColumn
<1> QED BY <1>2, <1>3 DEF Image

LEMMA QuestionImplements ==
  ASSUME TreapInv, NEW w \in Windows, MinSlack(w) \/ MaxContrib(w)
  PROVE  Index!LeastSlack(w) \/ Index!HighestLoad(w)
<1>1. PICK n : n = root
  OBVIOUS
<1>2. PICK z : z = root'
  OBVIOUS
<1>3. PICK parts : parts = Isolate(root, w)
  OBVIOUS
<1>4. PICK m : m = parts.middle
  OBVIOUS
<1>5. prio' = prio /\ root' = IF IsEmpty(w) THEN root ELSE Join(parts)
  BY <1>3 DEF MinSlack, MaxContrib
<1>6. Same(z, n, Origin, Final) /\ (IsEmpty(w) \/ HasSums(m, n, w))
  BY <1>1, <1>2, <1>3, <1>4, <1>5, QuestionStep
<1>7. n \in Treaps
  BY <1>1, TreapIsSound
<1>8. Represented = Image(n) /\ Represented' = Image(n)
  BY <1>1, <1>2, <1>6, RepresentedIsImage, SameImage
<1>9. CASE MinSlack(w)
  <2>1. call' = <<"MinSlack", w, IF IsEmpty(w) \/ m = None
                                   THEN [s \in Strengths |-> NoLimit] ELSE m.min>>
    BY <1>3, <1>4, <1>9 DEF MinSlack
  <2>2. call' = <<"MinSlack", w, [s \in Strengths |-> Index!Headroom(Image(n), s, w)]>>
    BY <1>6, <1>7, <2>1, ImageAnswers
  <2> QED BY <1>8, <2>2, IndexSame DEF Index!LeastSlack
<1>10. CASE MaxContrib(w)
  <2>1. call' = <<"MaxContrib", w, IF IsEmpty(w) \/ m = None
                                   THEN [s \in Strengths |-> 0] ELSE m.peak>>
    BY <1>3, <1>4, <1>10 DEF MaxContrib
  <2>2. call' = <<"MaxContrib", w, [s \in Strengths |-> Index!Peak(Image(n), s, w)]>>
    BY <1>6, <1>7, <2>1, ImageAnswers
  <2> QED BY <1>8, <2>2, IndexSame DEF Index!HighestLoad
<1> QED BY <1>9, <1>10

LEMMA TreapStepImplements ==
  ASSUME TreapInv, [TreapNext]_treapVars
  PROVE  [Index!IndexNext]_(Index!indexVars)
<1>1. ASSUME NEW w \in Windows, NEW column \in Columns, NEW delta \in Deltas,
             RangeAdd(w, column, delta)
      PROVE  Index!AddTo(column, w, delta)
  BY <1>1, RangeAddImplements
<1>2. ASSUME NEW w \in Windows, NEW v \in Capacities, RangeSet(w, v)
      PROVE  Index!SetTo(w, v)
  BY <1>2, RangeSetImplements
<1>3. ASSUME NEW w \in Windows, MinSlack(w) \/ MaxContrib(w)
      PROVE  Index!LeastSlack(w) \/ Index!HighestLoad(w)
  BY <1>3, QuestionImplements
<1>4. CASE UNCHANGED treapVars
  <2>1. root' = root /\ call' = call
    BY <1>4 DEF treapVars
  <2>2. Represented' = Represented
    BY <2>1, RepresentedIsImage
  <2> QED BY <2>1, <2>2 DEF Index!indexVars
<1>5. ASSUME TreapNext
      PROVE  Index!IndexNext
  <2>1. PICK w \in Windows :
          \/ \E column \in Columns, delta \in Deltas : RangeAdd(w, column, delta)
          \/ \E v \in Capacities : RangeSet(w, v)
          \/ MinSlack(w) \/ MaxContrib(w)
    BY <1>5 DEF TreapNext
  <2>2. CASE \E column \in Columns, delta \in Deltas : RangeAdd(w, column, delta)
    BY <1>1, <2>2 DEF Index!IndexNext, Columns
  <2>3. CASE \E v \in Capacities : RangeSet(w, v)
    BY <1>2, <2>3 DEF Index!IndexNext
  <2>4. CASE MinSlack(w) \/ MaxContrib(w)
    BY <1>3, <2>4 DEF Index!IndexNext
  <2> QED BY <2>1, <2>2, <2>3, <2>4
<1> QED BY <1>4, <1>5

\* Through every sequence of updates and questions the treap implements the
\* columns of CapacityIndex, call by call and window by window: what waits at a node reaches what is cut out of it
\* once, the sums nobody computed for a new cell are never read, and a question
\* changes no value (range_add, range_set_cap, min_slack and max_contrib,
\* interval.hpp).
THEOREM TreapAnswersAsColumns == TreapSpec => AnswersAsColumns
<1>1. TreapInit => Index!IndexInit
  BY TreapStartsIndex
<1>2. TreapInv /\ [TreapNext]_treapVars => [Index!IndexNext]_(Index!indexVars)
  BY TreapStepImplements
<1> QED BY <1>1, <1>2, TreapInvHolds, PTL DEF TreapSpec, AnswersAsColumns, Index!IndexSpec

=============================================================================
