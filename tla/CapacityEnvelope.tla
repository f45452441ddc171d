-------------------------- MODULE CapacityEnvelope --------------------------
(***************************************************************************)
(* The capacity envelope of one resource, instant by instant.  The code    *)
(* keeps it as a treap of cells with constant values; here it is the       *)
(* function the treap represents.  An envelope covers the instants         *)
(* from, ..., from + Horizon - 1 and nothing outside them.                 *)
(***************************************************************************)
EXTENDS Integers

CONSTANTS
  Horizon,  \* instants an envelope covers
  MaxTime,  \* last instant of the model
  NoLimit   \* INT64_MAX: what a query over no cell answers

ASSUME EnvelopeAssumption ==
  /\ Horizon \in Nat \ {0}
  /\ MaxTime \in Nat
  /\ NoLimit \in Nat \ {0}

Time == 0..MaxTime

\* Basis points of a ratio of one.
Unity == 10000

Envelope ==
  [from: Time, ratio: Nat, cap: [Time -> Int],
   hard: [Time -> Int], soft: [Time -> Int], held: [Time -> Int]]

\* A half-open interval [start, end).
Covers(w, t) == w.start <= t /\ t < w.end

\* The instants envelope e covers, and those an operation over w touches.
Span(e) == {t \in Time : e.from <= t /\ t < e.from + Horizon}

CellsOf(e, w) == {t \in Span(e) : Covers(w, t)}

NewEnvelope(from, ratio, capacity, unavailable) ==
  [from |-> from, ratio |-> ratio,
   cap  |-> [t \in Time |-> IF t \in unavailable THEN 0 ELSE capacity],
   hard |-> [t \in Time |-> 0],
   soft |-> [t \in Time |-> 0],
   held |-> [t \in Time |-> 0]]

\* f with d added in the cells of S.
Raise(f, S, d) == [t \in Time |-> IF t \in S THEN f[t] + d ELSE f[t]]

AddCommitted(e, strength, w, d) ==
  IF strength = "Hard"
  THEN [e EXCEPT !.hard = Raise(e.hard, CellsOf(e, w), d)]
  ELSE [e EXCEPT !.soft = Raise(e.soft, CellsOf(e, w), d)]

AddHeld(e, w, d) == [e EXCEPT !.held = Raise(e.held, CellsOf(e, w), d)]

\* A mutant of HardSlack: holds are forgotten.
SlackOverHolds(e, t) == e.cap[t] - e.hard[t]

HardSlack(e, t) == e.cap[t] - e.hard[t] - e.held[t]

\* What capacity cap is for soft claims.  A product that does not fit answers
\* the largest number.
EffCapacity(ratio, cap) ==
  IF ratio = Unity THEN cap
  ELSE IF cap * ratio > NoLimit THEN NoLimit
  ELSE (cap * ratio) \div Unity

SoftLimit(e, t) == EffCapacity(e.ratio, e.cap[t])

SoftSlack(e, t) == SoftLimit(e, t) - e.hard[t] - e.soft[t] - e.held[t]

Slack(e, strength, t) ==
  IF strength = "Hard" THEN HardSlack(e, t) ELSE SoftSlack(e, t)

\* The least slack over a window, unlimited when no cell lies in it.
Headroom(e, strength, w) ==
  LET slacks == {Slack(e, strength, t) : t \in CellsOf(e, w)}
  IN  IF slacks = {} THEN NoLimit
      ELSE CHOOSE s \in slacks : \A other \in slacks : s <= other

=============================================================================
