--------------------------- MODULE RuntimeLedger ---------------------------
(***************************************************************************)
(* The runtime, called with discipline, implements CapacityLedger: the     *)
(* reservations and the holds are the claimants, and what is done for good *)
(* is what no longer holds capacity.                                       *)
(***************************************************************************)
EXTENDS ReservationRuntime

OpenedCapacity(e) ==
  [status |-> "open", span |-> Span(e),
   hard |-> e.cap,
   soft |-> [t \in Time |-> SoftLimit(e, t)]]

LiveClaim(r, strength, resource) ==
  [status |-> "live", resource |-> resource, strength |-> strength,
   window |-> r.window, quantity |-> r.quantity]

ReservationClaim(id) ==
  CASE ~Exists(id)       -> [status |-> "unused"]
    [] HoldsCapacity(id) -> LiveClaim(reservations[id], reservations[id].strength,
                                      reservations[id].resource)
    [] OTHER             -> [status |-> "done"]

HoldClaim(h) ==
  CASE holds[h] = None             -> [status |-> "unused"]
    [] holds[h] # None /\ holds[h].state = "Acquired" ->
         LiveClaim(holds[h], "Hard", holds[h].resource)
    [] OTHER                       -> [status |-> "done"]

\* Reservation ids come first, then the hold ids.
LedgerClaims ==
  [c \in 1..(LastReservationId + LastHoldId) |->
     IF c <= LastReservationId THEN ReservationClaim(c)
     ELSE HoldClaim(c - LastReservationId)]

LedgerCapacity ==
  [r \in ResourceId |-> IF envelopes[r] = None THEN [status |-> "closed"]
                        ELSE OpenedCapacity(envelopes[r])]

Ledger == INSTANCE CapacityLedger WITH
  Claimants <- LastReservationId + LastHoldId,
  capacity  <- LedgerCapacity,
  claims    <- LedgerClaims

\* The registry of reservations and holds behaves as a capacity ledger: no
\* claim is admitted beyond the limits, a claim's demand is fixed while it is
\* live, and a reservation or hold that gave its capacity back (released,
\* cancelled, expired, committed) never takes it again (README: a released
\* reservation no longer reduces capacity).
ImplementsLedger == Ledger!LedgerSpec

=============================================================================
