---------------------------- MODULE CapacityIndex ----------------------------
(***************************************************************************)
(* What an envelope promises its callers: quantities are added over        *)
(* windows, the capacity is set over windows, and a question about a       *)
(* window is answered by the columns as they stand there.  There is no     *)
(* structure here to go wrong.                                             *)
(***************************************************************************)
EXTENDS CapacityEnvelope

CONSTANTS
  None,
  Origin, Ratio, Capacity,  \* of the envelope
  Windows, Deltas,          \* inputs of the operations
  Capacities

VARIABLES
  envelope,
  call    \* the last call: its operation, its arguments and what it answered

indexVars == <<envelope, call>>

Strengths == {"Hard", "Soft"}

\* What counts against the capacity at instant t.
Load(e, strength, t) ==
  IF strength = "Hard" THEN e.hard[t] + e.held[t]
  ELSE e.hard[t] + e.soft[t] + e.held[t]

\* The highest load over a window, zero when no cell lies in it.
Peak(e, strength, w) ==
  LET loads == {Load(e, strength, t) : t \in CellsOf(e, w)}
  IN  IF loads = {} THEN 0
      ELSE CHOOSE p \in loads : \A other \in loads : other <= p

IndexInit ==
  /\ envelope = NewEnvelope(Origin, Ratio, Capacity, {})
  /\ call = None

SetCapacity(e, w, v) ==
  [e EXCEPT !.cap = [t \in Time |-> IF t \in CellsOf(e, w) THEN v ELSE e.cap[t]]]

AddTo(column, w, d) ==
  /\ call' = <<"RangeAdd", column, w, d>>
  /\ \/ column = "hard" /\ envelope' = AddCommitted(envelope, "Hard", w, d)
     \/ column = "soft" /\ envelope' = AddCommitted(envelope, "Soft", w, d)
     \/ column = "held" /\ envelope' = AddHeld(envelope, w, d)

SetTo(w, v) ==
  /\ call' = <<"RangeSet", w, v>>
  /\ envelope' = SetCapacity(envelope, w, v)

\* A question is answered for either strength.
LeastSlack(w) ==
  /\ call' = <<"MinSlack", w, [s \in Strengths |-> Headroom(envelope, s, w)]>>
  /\ UNCHANGED envelope

HighestLoad(w) ==
  /\ call' = <<"MaxContrib", w, [s \in Strengths |-> Peak(envelope, s, w)]>>
  /\ UNCHANGED envelope

IndexNext ==
  \E w \in Windows :
    \/ \E column \in {"hard", "soft", "held"}, d \in Deltas : AddTo(column, w, d)
    \/ \E v \in Capacities : SetTo(w, v)
    \/ LeastSlack(w) \/ HighestLoad(w)

IndexSpec == IndexInit /\ [][IndexNext]_indexVars

=============================================================================
