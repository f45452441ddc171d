---------------------------- MODULE IntervalTreap ----------------------------
(***************************************************************************)
(* The lazy treap behind a capacity envelope.  A node is a cell [start,    *)
(* end) with uniform values; it also carries the least slack and the       *)
(* highest load of its subtree, and what has been applied to the subtree   *)
(* as a whole and not yet been pushed to the children.  Every operation    *)
(* cuts the cells at the ends of its window, splits the treap there, works *)
(* on the middle alone and merges the parts again.                         *)
(*                                                                         *)
(* A treap is None or a node that holds its subtrees; the pool of nodes    *)
(* and its indices are left out.  What the code does by recursion is a     *)
(* recursive function on the treaps that Horizon cells can make.           *)
(***************************************************************************)
EXTENDS CapacityEnvelope

CONSTANTS
  None,
  Origin, Ratio, Capacity,
  Windows, Deltas, Capacities,
  Priorities,      \* what det_prio may make of the starts of cells
  MaxUpdates       \* bound: updates

VARIABLES
  prio,        \* start of a cell -> its priority
  root,
  call,        \* the last call: operation, arguments and answer
  updates      \* updates so far

treapVars == <<prio, root, call, updates>>

Cells == Origin..(Origin + Horizon - 1)

Columns == {"hard", "soft", "held"}
Strengths == {"Hard", "Soft"}

\* The nodes whose subtrees are in Below.
Nodes(Below) ==
  [start : Int, end : Int, prio : Nat, capacity : Int, own : [Columns -> Int],
   min : [Strengths -> Int], peak : [Strengths -> Int],
   add : [Columns -> Int], setCap : Int \cup {None}, left : Below, right : Below]

\* The treaps with at most k nodes on a path.
TreapsTo[k \in 0..Horizon] ==
  IF k = 0 THEN {None}
  ELSE LET below == TreapsTo[k - 1] IN {None} \cup Nodes(below)

Treaps == TreapsTo[Horizon]

ASSUME TreapAssumption ==
  /\ Origin \in Nat /\ Cells \subseteq Time
  /\ Ratio \in Nat /\ Capacity \in Nat
  /\ Windows \subseteq [start : Nat, end : Nat]
  /\ Deltas \subseteq Int \ {0} /\ Capacities \subseteq Nat
  /\ Priorities \subseteq [Cells -> Nat]
  /\ MaxUpdates \in Nat
  /\ None \notin Int
  /\ \A k \in 1..Horizon : None \notin Nodes(TreapsTo[k - 1])

Nothing == [c \in Columns |-> 0]

Plus(f, g) == [c \in Columns |-> f[c] + g[c]]

Lower(x, y) == IF x <= y THEN x ELSE y
Higher(x, y) == IF x <= y THEN y ELSE x

\* What of the columns counts against a claim of strength s.
Weight(d, s) == d["hard"] + d["held"] + IF s = "Soft" THEN d["soft"] ELSE 0

\* What capacity cap is for claims of strength s.
Limit(s, cap) == IF s = "Hard" THEN cap ELSE EffCapacity(Ratio, cap)

-----------------------------------------------------------------------------
(* Nodes.                                                                  *)

\* The sums of a new cell are not computed: a split past it has to do so
\* before anything is asked.
Cell(start, end, capacity, own) ==
  [start |-> start, end |-> end, prio |-> prio[start],
   capacity |-> capacity, own |-> own,
   min |-> [s \in Strengths |-> 0], peak |-> [s \in Strengths |-> 0],
   add |-> Nothing, setCap |-> None, left |-> None, right |-> None]

ApplyAdd(n, d) ==
  IF n = None THEN None
  ELSE [n EXCEPT !.own  = Plus(n.own, d),
                 !.add  = Plus(n.add, d),
                 !.min  = [s \in Strengths |-> n.min[s] - Weight(d, s)],
                 !.peak = [s \in Strengths |-> n.peak[s] + Weight(d, s)]]

\* A mutant of ApplySetCap: the least slack is taken from the node alone.
ApplySetCapHere(n, v) ==
  IF n = None THEN None
  ELSE [n EXCEPT !.capacity = v, !.setCap = v,
                 !.min = [s \in Strengths |-> Limit(s, v) - Weight(n.own, s)]]

\* Over one capacity the least slack is where the load is highest.
ApplySetCap(n, v) ==
  IF n = None THEN None
  ELSE [n EXCEPT !.capacity = v, !.setCap = v,
                 !.min = [s \in Strengths |-> Limit(s, v) - n.peak[s]]]

\* What a child takes over: the capacity first, then the quantities.
Inherit(child, n) ==
  ApplyAdd(IF n.setCap = None THEN child ELSE ApplySetCap(child, n.setCap),
           n.add)

Push(n) == [n EXCEPT !.left = Inherit(n.left, n), !.right = Inherit(n.right, n),
                     !.add = Nothing, !.setCap = None]

\* x, or the sum of a child that is there when it is lower (higher).
LeastWith(child, s, x) == IF child = None THEN x ELSE Lower(x, child.min[s])
PeakWith(child, s, x) == IF child = None THEN x ELSE Higher(x, child.peak[s])

Pull(n) ==
  [n EXCEPT
     !.min = [s \in Strengths |->
                LeastWith(n.right, s,
                  LeastWith(n.left, s, Limit(s, n.capacity) - Weight(n.own, s)))],
     !.peak = [s \in Strengths |->
                 PeakWith(n.right, s, PeakWith(n.left, s, Weight(n.own, s)))]]

WithLeft(n, child) == Pull([n EXCEPT !.left = child])
WithRight(n, child) == Pull([n EXCEPT !.right = child])

-----------------------------------------------------------------------------
(* Treaps.                                                                 *)

\* The higher of the two roots stays one.
Merge(a, b) ==
  LET merge[p \in Treaps \X Treaps] ==
        IF p[1] = None THEN p[2] ELSE IF p[2] = None THEN p[1]
        ELSE IF p[1].prio > p[2].prio
        THEN LET n == Push(p[1]) IN WithRight(n, merge[<<n.right, p[2]>>])
        ELSE LET n == Push(p[2]) IN WithLeft(n, merge[<<p[1], n.left>>])
  IN  merge[<<a, b>>]

KeepLow(n, parts) ==
  [low |-> WithRight(n, parts.low), high |-> parts.high]
KeepHigh(n, parts) ==
  [low |-> parts.low, high |-> WithLeft(n, parts.high)]

\* The cells that start before key, and the others.
Split(treap, key) ==
  LET split[m \in Treaps] ==
        IF m = None THEN [low |-> None, high |-> None]
        ELSE LET n == Push(m) IN
             IF n.start < key THEN KeepLow(n, split[n.right])
             ELSE KeepHigh(n, split[n.left])
  IN  split[treap]

\* A mutant of DetachMax: the cell that is cut stays.
KeepMax(treap) == treap

\* The treap without its last cell.
DetachMax(treap) ==
  LET detach[m \in Treaps] ==
        IF m = None THEN None
        ELSE LET n == Push(m) IN
             IF n.right = None THEN n.left ELSE WithRight(n, detach[n.right])
  IN  detach[treap]

Rightmost(treap) ==
  LET last[n \in Treaps] ==
        IF n = None THEN None ELSE IF n.right = None THEN n ELSE last[n.right]
  IN  last[treap]

\* The cell of low that spans t becomes two.
CutLast(low, last, t) ==
  IF last.end <= t THEN low
  ELSE Merge(Merge(DetachMax(low),
                   Cell(last.start, t, last.capacity, last.own)),
             Cell(t, last.end, last.capacity, last.own))

CutAt(parts, t) ==
  IF parts.low = None THEN parts.high
  ELSE Merge(CutLast(parts.low, Rightmost(parts.low), t), parts.high)

EnsureBoundary(n, t) == CutAt(Split(n, t), t)

\* The treap before, in and after a window, its cells cut at both ends.
Three(lower, after) ==
  [before |-> lower.low, middle |-> lower.high, after |-> after]
SplitFrom(upper, key) == Three(Split(upper.low, key), upper.high)

Isolate(n, w) ==
  SplitFrom(Split(EnsureBoundary(EnsureBoundary(n, w.start), w.end), w.end),
            w.start)

Join(p) == Merge(Merge(p.before, p.middle), p.after)

-----------------------------------------------------------------------------
(* Operations.                                                             *)

IsEmpty(w) == w.end <= w.start

TreapInit ==
  /\ prio \in Priorities
  /\ root = Pull(Cell(Origin, Origin + Horizon, Capacity, Nothing))
  /\ call = None
  /\ updates = 0

CountUpdate ==
  /\ updates < MaxUpdates
  /\ updates' = updates + 1
  /\ UNCHANGED prio

RangeAdd(w, column, delta) ==
  /\ CountUpdate
  /\ \E p \in {Isolate(root, w)} :
       root' = IF IsEmpty(w) THEN root
               ELSE Join([p EXCEPT !.middle =
                            ApplyAdd(@, [Nothing EXCEPT ![column] = delta])])
  /\ call' = <<"RangeAdd", column, w, delta>>

RangeSet(w, v) ==
  /\ CountUpdate
  /\ \E p \in {Isolate(root, w)} :
       root' = IF IsEmpty(w) THEN root
               ELSE Join([p EXCEPT !.middle = ApplySetCap(@, v)])
  /\ call' = <<"RangeSet", w, v>>

\* A question cuts and joins the treap like an update.  Its answer is given
\* for both strengths, of which a call returns one.
MinSlack(w) ==
  /\ UNCHANGED <<prio, updates>>
  /\ \E p \in {Isolate(root, w)} :
         /\ root' = IF IsEmpty(w) THEN root ELSE Join(p)
         /\ call' = <<"MinSlack", w,
                      IF IsEmpty(w) \/ p.middle = None
                      THEN [s \in Strengths |-> NoLimit] ELSE p.middle.min>>

MaxContrib(w) ==
  /\ UNCHANGED <<prio, updates>>
  /\ \E p \in {Isolate(root, w)} :
         /\ root' = IF IsEmpty(w) THEN root ELSE Join(p)
         /\ call' = <<"MaxContrib", w,
                      IF IsEmpty(w) \/ p.middle = None
                      THEN [s \in Strengths |-> 0] ELSE p.middle.peak>>

TreapNext ==
  \E w \in Windows :
    \/ \E column \in Columns, delta \in Deltas : RangeAdd(w, column, delta)
    \/ \E v \in Capacities : RangeSet(w, v)
    \/ MinSlack(w) \/ MaxContrib(w)

TreapSpec == TreapInit /\ [][TreapNext]_treapVars

-----------------------------------------------------------------------------
(* What the treap stands for.                                              *)

\* What v becomes under what waits at n.
Under(n, v) ==
  [capacity |-> IF n.setCap = None THEN v.capacity ELSE n.setCap,
   own |-> Plus(v.own, n.add)]

\* The values at instant t, what waits at the nodes above included.
ValuesAt(treap, t) ==
  LET values[n \in Treaps] ==
        IF n = None THEN [capacity |-> 0, own |-> Nothing]
        ELSE IF Covers(n, t) THEN [capacity |-> n.capacity, own |-> n.own]
        ELSE Under(n, values[IF t < n.start THEN n.left ELSE n.right])
  IN  values[treap]

Represented ==
  LET at == [t \in Cells |-> ValuesAt(root, t)]
      Column(c) == [t \in Time |-> IF t \in Cells THEN at[t].own[c] ELSE 0]
  IN  [from |-> Origin, ratio |-> Ratio,
       cap |-> [t \in Time |-> IF t \in Cells THEN at[t].capacity ELSE Capacity],
       hard |-> Column("hard"), soft |-> Column("soft"), held |-> Column("held")]

Index == INSTANCE CapacityIndex WITH envelope <- Represented

\* Through every sequence of updates and questions, and whatever the
\* priorities make of its shape, the treap answers each question about a window
\* as the columns would there, and an update reaches its window only: what
\* is pending at a node reaches what is cut out of it once, the sums nobody
\* computed for a new cell are never seen, and a question changes no value.
AnswersAsColumns == Index!IndexSpec

\* Whether the cells of n cover [lo, hi) in order, without gap, overlap or an
\* empty cell, and a parent has no lower priority than its children.
IsTreap(treap, from, to) ==
  LET spans[q \in Treaps \X Int \X Int] ==
        LET n == q[1] lo == q[2] hi == q[3] IN
        IF n = None THEN lo = hi
        ELSE /\ n.start < n.end
             /\ \A child \in {n.left, n.right} \ {None} : child.prio <= n.prio
             /\ spans[<<n.left, lo, n.start>>] /\ spans[<<n.right, n.end, hi>>]
  IN  spans[<<treap, from, to>>]

\* The cells cover the horizon, and higher priorities are nearer the root,
\* which is what keeps the paths short.
TreapShape == IsTreap(root, Origin, Origin + Horizon)

=============================================================================
