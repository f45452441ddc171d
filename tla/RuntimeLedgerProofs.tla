------------------------ MODULE RuntimeLedgerProofs ------------------------
(***************************************************************************)
(* The runtime, called with discipline, implements the capacity ledger.    *)
(*                                                                         *)
(* The inductive invariant is IInv of ReservationRuntimeProofs.  Under it  *)
(* the demand the ledger adds up is the load the envelopes record, so that *)
(* what admission compares is what the ledger asks of a claim.  A step     *)
(* then opens a resource, makes one claim, or gives up a set of claims,    *)
(* which may be empty: a step that changes no claim gives nothing up.      *)
(***************************************************************************)
EXTENDS RuntimeLedger, ReservationRuntimeProofs

USE RuntimeAssumption

\* The operators of the ledger's own copies of Sums and CapacityEnvelope.
LEMMA SameOperators ==
  /\ \A f, n : Ledger!SumTo(f, n) = SumTo(f, n)
  /\ \A w, t : Ledger!Covers(w, t) <=> Covers(w, t)
BY DEF Ledger!SumTo, SumTo, Ledger!Covers, Covers

\* Which claimant each reservation and each hold is.
Named ==
  /\ DOMAIN LedgerClaims = Ledger!Claimant
  /\ \A id \in ReservationId : /\ id \in Ledger!Claimant
                               /\ LedgerClaims[id] = ReservationClaim(id)
  /\ \A h \in HoldId :
       /\ LastReservationId + h \in Ledger!Claimant
       /\ LedgerClaims[LastReservationId + h] = HoldClaim(h)
  /\ \A c \in Ledger!Claimant :
       \/ c \in ReservationId
       \/ c - LastReservationId \in HoldId
       \/ LedgerClaims[c] = [status |-> "unused"]

\* Every claimant is a reservation, a hold, or never used.
LEMMA Naming == Named
<1>1. \A id \in ReservationId : id \in Ledger!Claimant /\ id <= LastReservationId
  BY DEF ReservationId, Ledger!Claimant
<1>2. \A h \in HoldId : /\ LastReservationId + h \in Ledger!Claimant
                        /\ ~ (LastReservationId + h <= LastReservationId)
                        /\ (LastReservationId + h) - LastReservationId = h
  BY DEF HoldId, Ledger!Claimant
<1>3. ASSUME NEW c \in Ledger!Claimant, c \notin ReservationId,
             c - LastReservationId \notin HoldId
      PROVE  LedgerClaims[c] = [status |-> "unused"]
  <2>1. c <= LastReservationId
    BY <1>3 DEF HoldId, Ledger!Claimant
  <2>2. ~Exists(c)
    BY <1>3 DEF Exists
  <2>3. ReservationClaim(c) = [status |-> "unused"]
    BY <2>2 DEF ReservationClaim, HoldsCapacity
  <2> QED BY <2>1, <2>3 DEF LedgerClaims, Ledger!Claimant
<1> QED BY <1>1, <1>2, <1>3 DEF Named, LedgerClaims, Ledger!Claimant

\* It is so after a step.
LEMMA NamingNext == Named'
BY Naming, PTL

\* The three shapes of a claim.
Shapes ==
  /\ \A id :
       /\ ~Exists(id) => ReservationClaim(id) = [status |-> "unused"]
       /\ HoldsCapacity(id) =>
            ReservationClaim(id) =
              LiveClaim(reservations[id], reservations[id].strength,
                        reservations[id].resource)
       /\ Exists(id) /\ ~HoldsCapacity(id) =>
            ReservationClaim(id) = [status |-> "done"]
  /\ \A h :
       /\ holds[h] = None => HoldClaim(h) = [status |-> "unused"]
       /\ holds[h] # None /\ holds[h].state = "Acquired" =>
            HoldClaim(h) = LiveClaim(holds[h], "Hard", holds[h].resource)
       /\ holds[h] # None /\ holds[h].state # "Acquired" =>
            HoldClaim(h) = [status |-> "done"]

\* What a claim looks like.
LEMMA ClaimShapes == Shapes
BY DEF Shapes, ReservationClaim, HoldClaim, HoldsCapacity

\* And after a step.
LEMMA ClaimShapesNext == Shapes'
BY ClaimShapes, PTL

-----------------------------------------------------------------------------
\* The demands the ledger adds up are the loads of the registry.
DemandsAreLoads ==
  \A r, t :
    /\ Ledger!TotalDemand(r, {"Hard"}, t) =
         LoadAt(Commitments(r), "Hard", t) + HeldAt(LiveHolds(r), t)
    /\ Ledger!TotalDemand(r, {"Hard", "Soft"}, t) =
         LoadAt(Commitments(r), "Hard", t) + LoadAt(Commitments(r), "Soft", t)
           + HeldAt(LiveHolds(r), t)

\* The demand of one reservation.
LEMMA ReservationDemand ==
  ASSUME TypeInv, NEW id \in 1..LastReservationId, NEW r, NEW t
  PROVE  /\ Ledger!Demand(id, r, {"Hard"}, t) = Claim(id, r, "Hard", t)
         /\ Ledger!Demand(id, r, {"Hard", "Soft"}, t) =
              Claim(id, r, "Hard", t) + Claim(id, r, "Soft", t)
<1>1. id \in Ledger!Claimant /\ LedgerClaims[id] = ReservationClaim(id)
  BY DEF Ledger!Claimant, LedgerClaims
<1>2. CASE HoldsCapacity(id)
  <2>1. /\ id \in ReservationId
        /\ reservations[id] \in Reservation
    BY <1>2, CurrentReservation DEF HoldsCapacity, Exists
  <2>2. reservations[id].strength \in {"Hard", "Soft"} /\ reservations[id].quantity \in Nat
    BY <2>1 DEF Reservation, Strengths
  <2>3. ReservationClaim(id) =
          LiveClaim(reservations[id], reservations[id].strength,
                    reservations[id].resource)
    BY <1>2, ClaimShapes DEF Shapes
  <2>4. \A strength :
          Claim(id, r, strength, t) =
            IF /\ reservations[id].resource = r
               /\ reservations[id].strength = strength
               /\ Covers(reservations[id].window, t)
            THEN reservations[id].quantity ELSE 0
    BY <1>2, <2>1 DEF Claim, Share, Commitments
  <2>5. \A strengths :
          Ledger!Demand(id, r, strengths, t) =
            IF /\ reservations[id].resource = r
               /\ reservations[id].strength \in strengths
               /\ Covers(reservations[id].window, t)
            THEN reservations[id].quantity ELSE 0
    BY <1>1, <2>3, SameOperators DEF Ledger!Demand, Ledger!Status, LiveClaim
  <2> QED BY <2>2, <2>4, <2>5
<1>3. CASE ~HoldsCapacity(id)
  <2>1. \A strength : Claim(id, r, strength, t) = 0
    BY <1>3 DEF Claim, Share, Commitments
  <2>2. ReservationClaim(id).status \in {"unused", "done"}
    BY <1>3, ClaimShapes DEF Shapes
  <2>3. \A strengths : Ledger!Demand(id, r, strengths, t) = 0
    BY <1>1, <2>2 DEF Ledger!Demand, Ledger!Status
  <2> QED BY <2>1, <2>3
<1> QED BY <1>2, <1>3

\* The demand of one hold.
LEMMA HoldDemand ==
  ASSUME NEW h \in HoldId, NEW r, NEW t, NEW strengths, "Hard" \in strengths
  PROVE  Ledger!Demand(LastReservationId + h, r, strengths, t) =
           HeldClaim(h, r, t)
<1>1. LedgerClaims[LastReservationId + h] = HoldClaim(h)
  BY Naming DEF Named
<1>2. CASE holds[h] # None /\ holds[h].state = "Acquired"
  <2>1. HoldClaim(h) = LiveClaim(holds[h], "Hard", holds[h].resource)
    BY <1>2, ClaimShapes DEF Shapes
  <2>2. HeldClaim(h, r, t) =
          IF holds[h].resource = r /\ Covers(holds[h].window, t)
          THEN holds[h].quantity ELSE 0
    BY <1>2 DEF HeldClaim, HoldShare, LiveHolds
  <2> QED BY <1>1, <2>1, <2>2, SameOperators
          DEF Ledger!Demand, Ledger!Status, LiveClaim
<1>3. CASE ~ (holds[h] # None /\ holds[h].state = "Acquired")
  <2>1. HoldClaim(h).status \in {"unused", "done"}
    BY <1>3, ClaimShapes DEF Shapes
  <2>2. HeldClaim(h, r, t) = 0
    BY <1>3 DEF HeldClaim, HoldShare, LiveHolds
  <2> QED BY <1>1, <2>1, <2>2 DEF Ledger!Demand, Ledger!Status
<1> QED BY <1>2, <1>3

\* The ledger adds up the reservations first, then the holds.
LEMMA Demands == TypeInv => DemandsAreLoads
<1> SUFFICES ASSUME TypeInv, NEW r, NEW t
             PROVE  /\ Ledger!TotalDemand(r, {"Hard"}, t) =
                         LoadAt(Commitments(r), "Hard", t)
                           + HeldAt(LiveHolds(r), t)
                    /\ Ledger!TotalDemand(r, {"Hard", "Soft"}, t) =
                         LoadAt(Commitments(r), "Hard", t)
                           + LoadAt(Commitments(r), "Soft", t)
                           + HeldAt(LiveHolds(r), t)
  BY DEF DemandsAreLoads
<1> DEFINE m == LastReservationId
           n == LastHoldId
           hard == [id \in 1..m |-> Claim(id, r, "Hard", t)]
           soft == [id \in 1..m |-> Claim(id, r, "Soft", t)]
           both == [id \in 1..m |-> Claim(id, r, "Hard", t) + Claim(id, r, "Soft", t)]
           held == [h \in 1..n |-> HeldClaim(h, r, t)]
           all(strengths) ==
             [c \in 1..(m + n) |-> Ledger!Demand(c, r, strengths, t)]
<1>1. \A strengths : Ledger!TotalDemand(r, strengths, t) = SumTo(all(strengths), m + n)
  BY SameOperators DEF Ledger!TotalDemand, Ledger!Claimant
<1>2. /\ hard \in [1..m -> Nat] /\ LoadAt(Commitments(r), "Hard", t) = SumTo(hard, m)
      /\ soft \in [1..m -> Nat] /\ LoadAt(Commitments(r), "Soft", t) = SumTo(soft, m)
      /\ held \in [1..n -> Nat] /\ HeldAt(LiveHolds(r), t) = SumTo(held, n)
  <2>1. LoadTyped(r, "Hard", t) /\ LoadTyped(r, "Soft", t) /\ HeldTyped(r, t)
    BY ClaimTypes DEF ClaimsTyped
  <2> QED BY <2>1 DEF LoadTyped, HeldTyped
<1>3. /\ \A id \in 1..m : /\ hard[id] \in Nat /\ soft[id] \in Nat
                          /\ hard[id] = Claim(id, r, "Hard", t)
                          /\ soft[id] = Claim(id, r, "Soft", t)
      /\ \A h \in 1..n : held[h] \in Nat /\ held[h] = HeldClaim(h, r, t)
  <2>1. /\ \A id \in 1..m : hard[id] = Claim(id, r, "Hard", t)
                            /\ soft[id] = Claim(id, r, "Soft", t)
        /\ \A h \in 1..n : held[h] = HeldClaim(h, r, t)
    OBVIOUS
  <2> HIDE DEF hard, soft, held
  <2> QED BY <1>2, <2>1
<1>4. /\ both \in [1..m -> Int]
      /\ \A id \in 1..m : both[id] = hard[id] + soft[id]
  BY <1>3
<1>5. ASSUME NEW strengths \in {{"Hard"}, {"Hard", "Soft"}}
      PROVE  /\ all(strengths) \in [1..(m + n) -> Int]
             /\ \A id \in 1..m : all(strengths)[id] =
                  IF strengths = {"Hard"} THEN hard[id] ELSE both[id]
             /\ \A h \in 1..n : all(strengths)[m + h] = held[h]
  <2>1. ASSUME NEW c \in 1..(m + n)
        PROVE  /\ c \in 1..m \/ c - m \in 1..n
               /\ c - m \in 1..n => m + (c - m) = c
    OBVIOUS
  <2>2. ASSUME NEW id \in 1..m
        PROVE  Ledger!Demand(id, r, strengths, t) =
                 IF strengths = {"Hard"} THEN hard[id] ELSE both[id]
    <3>1. /\ Ledger!Demand(id, r, {"Hard"}, t) = hard[id]
          /\ Ledger!Demand(id, r, {"Hard", "Soft"}, t) = both[id]
      BY <1>3, <1>4, ReservationDemand
    <3>2. {"Hard"} # {"Hard", "Soft"}
      OBVIOUS
    <3> HIDE DEF hard, both
    <3> QED BY <3>1, <3>2
  <2>3. ASSUME NEW h \in 1..n
        PROVE  Ledger!Demand(m + h, r, strengths, t) = held[h]
    BY <1>3, HoldDemand DEF HoldId
  <2>4. /\ \A id \in 1..m : id \in 1..(m + n)
        /\ \A h \in 1..n : m + h \in 1..(m + n)
    OBVIOUS
  <2>5. ASSUME NEW c \in 1..(m + n) PROVE Ledger!Demand(c, r, strengths, t) \in Int
    <3>1. CASE c \in 1..m
      BY <1>3, <1>4, <2>2, <3>1
    <3>2. CASE c - m \in 1..n
      <4>1. Ledger!Demand(m + (c - m), r, strengths, t) = held[c - m]
        BY <2>3, <3>2
      <4> QED BY <1>3, <2>1, <3>2, <4>1
    <3> QED BY <2>1, <3>1, <3>2
  <2> QED BY <2>2, <2>3, <2>4, <2>5
<1>6. SumTo(both, m) = SumTo(hard, m) + SumTo(soft, m)
  <2>1. hard \in [1..m -> Int] /\ soft \in [1..m -> Int]
    BY <1>2
  <2> HIDE DEF hard, soft, both
  <2> QED BY <1>4, <2>1, SumAdd
<1>7. ASSUME NEW strengths \in {{"Hard"}, {"Hard", "Soft"}},
             NEW first \in [1..m -> Int],
             \A id \in 1..m : all(strengths)[id] = first[id]
      PROVE  SumTo(all(strengths), m + n) = SumTo(first, m) + SumTo(held, n)
  <2>1. held \in [1..n -> Int] /\ m \in Nat /\ n \in Nat
    BY <1>2
  <2>2. Parts(all(strengths), first, m, held, n)
    <3> HIDE DEF all, held
    <3> QED BY <1>5, <1>7, <2>1 DEF Parts
  <2> HIDE DEF held, all
  <2> QED BY <2>2, SumParts
<1>8. /\ SumTo(all({"Hard"}), m + n) = SumTo(hard, m) + SumTo(held, n)
      /\ SumTo(all({"Hard", "Soft"}), m + n) = SumTo(both, m) + SumTo(held, n)
  <2>1. {"Hard", "Soft"} # {"Hard"}
    OBVIOUS
  <2>2. /\ \A id \in 1..m : all({"Hard"})[id] = hard[id]
        /\ \A id \in 1..m : all({"Hard", "Soft"})[id] = both[id]
    BY <1>5, <2>1
  <2>3. both \in [1..m -> Int] /\ hard \in [1..m -> Int]
    BY <1>2, <1>4
  <2> HIDE DEF hard, both, held, all
  <2> QED BY <1>7, <2>2, <2>3
<1> HIDE DEF hard, soft, both, held, all
<1> QED BY <1>1, <1>2, <1>6, <1>8

\* And after a step.
LEMMA DemandsNext == TypeInv' => DemandsAreLoads'
BY Demands, PTL

-----------------------------------------------------------------------------
\* What an opened resource, and one not opened, is in the ledger.
Opened ==
  \A r \in ResourceId :
    /\ Ledger!IsOpen(r) <=> envelopes[r] # None
    /\ envelopes[r] # None =>
         /\ LedgerCapacity[r].span = Span(envelopes[r])
         /\ LedgerCapacity[r].hard = envelopes[r].cap
         /\ \A t \in Span(envelopes[r]) :
              LedgerCapacity[r].soft[t] = SoftLimit(envelopes[r], t)

\* A resource is open once it has an envelope.
LEMMA Opening == Opened
<1>1. ASSUME NEW r \in ResourceId, envelopes[r] = None
      PROVE  ~Ledger!IsOpen(r)
  BY <1>1 DEF LedgerCapacity, Ledger!IsOpen
<1>2. ASSUME NEW r \in ResourceId, envelopes[r] # None
      PROVE  /\ Ledger!IsOpen(r)
             /\ LedgerCapacity[r].span = Span(envelopes[r])
             /\ LedgerCapacity[r].hard = envelopes[r].cap
             /\ \A t \in Span(envelopes[r]) :
                  LedgerCapacity[r].soft[t] = SoftLimit(envelopes[r], t)
  <2>1. LedgerCapacity[r] = OpenedCapacity(envelopes[r])
    BY <1>2 DEF LedgerCapacity
  <2>2. Span(envelopes[r]) \subseteq Time
    BY DEF Span
  <2> QED BY <2>1, <2>2 DEF OpenedCapacity, Ledger!IsOpen
<1> QED BY <1>1, <1>2 DEF Opened

\* And after a step.
LEMMA OpeningNext == Opened'
BY Opening, PTL

\* The invariant makes the ledger solvent.
LEMMA InvariantSolvent == IInv => Ledger!Solvent
<1> SUFFICES ASSUME IInv PROVE Ledger!Solvent
  OBVIOUS
<1>1. ASSUME NEW r \in ResourceId, envelopes[r] # None,
             NEW t \in Span(envelopes[r])
      PROVE  Ledger!TotalDemand(r, {"Hard"}, t) <= envelopes[r].cap[t]
  <2>1. Ledger!TotalDemand(r, {"Hard"}, t) =
          LoadAt(Commitments(r), "Hard", t) + HeldAt(LiveHolds(r), t)
    BY Demands DEF IInv, DemandsAreLoads
  <2>2. Exact(r)
    BY DEF IInv, Exactness
  <2>3. /\ envelopes[r].hard[t] = LoadAt(Commitments(r), "Hard", t)
        /\ envelopes[r].held[t] = HeldAt(LiveHolds(r), t)
        /\ envelopes[r].hard[t] + envelopes[r].held[t] <= envelopes[r].cap[t]
    BY <1>1, <2>2 DEF Exact
  <2> QED BY <2>1, <2>3
<1>2. \A r \in ResourceId : Ledger!IsOpen(r) =>
        /\ envelopes[r] # None
        /\ LedgerCapacity[r].span = Span(envelopes[r])
        /\ LedgerCapacity[r].hard = envelopes[r].cap
  BY Opening DEF Opened
<1> QED BY <1>1, <1>2 DEF Ledger!Solvent

\* And after a step.
LEMMA InvariantSolventNext == IInv' => Ledger!Solvent'
BY InvariantSolvent, PTL

\* An envelope keeps the limits it was made with.
LimitsKept ==
  \A r \in ResourceId :
    /\ envelopes'[r] = None <=> envelopes[r] = None
    /\ envelopes[r] # None =>
         /\ envelopes'[r].cap = envelopes[r].cap
         /\ envelopes'[r].ratio = envelopes[r].ratio
         /\ Span(envelopes'[r]) = Span(envelopes[r])

\* The ledger then keeps the capacity on record.
LEMMA CapacityKept == LimitsKept => LedgerCapacity' = LedgerCapacity
BY DEF LimitsKept, LedgerCapacity, OpenedCapacity, SoftLimit

\* A reservation that claims what it did is the same claimant.
LEMMA SameReservation ==
  ASSUME NEW id \in ReservationId, SameClaim(id)
  PROVE  ReservationClaim(id)' = ReservationClaim(id)
<1>1. /\ Exists(id)' <=> Exists(id)
      /\ HoldsCapacity(id)' <=> HoldsCapacity(id)
      /\ Exists(id) => SameTerms(reservations'[id], reservations[id])
  BY DEF SameClaim, HoldsCapacity
<1>2. CASE ~Exists(id)
  BY <1>1, <1>2, ClaimShapes, ClaimShapesNext DEF Shapes
<1>3. CASE Exists(id) /\ ~HoldsCapacity(id)
  BY <1>1, <1>3, ClaimShapes, ClaimShapesNext DEF Shapes
<1>4. CASE HoldsCapacity(id)
  <2>1. /\ ReservationClaim(id) = LiveClaim(reservations[id],
             reservations[id].strength, reservations[id].resource)
        /\ ReservationClaim(id)' = LiveClaim(reservations'[id],
             reservations'[id].strength, reservations'[id].resource)
    BY <1>1, <1>4, ClaimShapes, ClaimShapesNext DEF Shapes, LiveClaim
  <2>2. SameTerms(reservations'[id], reservations[id])
    BY <1>1, <1>4 DEF HoldsCapacity
  <2> QED BY <2>1, <2>2 DEF LiveClaim, SameTerms
<1> QED BY <1>2, <1>3, <1>4

\* A reservation that was rewritten to nothing but itself is the same claimant.
LEMMA UntouchedReservation ==
  ASSUME NEW id \in ReservationId, reservations'[id] = reservations[id]
  PROVE  ReservationClaim(id)' = ReservationClaim(id)
BY SameReservation DEF SameClaim, SameTerms, Exists

\* So is a hold.
LEMMA UntouchedHold ==
  ASSUME NEW h \in HoldId, holds'[h] = holds[h]
  PROVE  HoldClaim(h)' = HoldClaim(h)
<1>1. CASE holds[h] = None
  BY <1>1, ClaimShapes, ClaimShapesNext DEF Shapes
<1>2. CASE holds[h] # None /\ holds[h].state # "Acquired"
  BY <1>2, ClaimShapes, ClaimShapesNext DEF Shapes
<1>3. CASE holds[h] # None /\ holds[h].state = "Acquired"
  <2>1. /\ HoldClaim(h) = LiveClaim(holds[h], "Hard", holds[h].resource)
        /\ HoldClaim(h)' = LiveClaim(holds'[h], "Hard", holds'[h].resource)
    BY <1>3, ClaimShapes, ClaimShapesNext DEF Shapes, LiveClaim
  <2> QED BY <2>1
<1> QED BY <1>1, <1>2, <1>3

-----------------------------------------------------------------------------
\* The reservations of S and the holds of T are given up.
GivesUp(S, T) ==
  /\ LimitsKept
  /\ \A id \in S : HoldsCapacity(id) /\ Exists(id)' /\ ~HoldsCapacity(id)'
  /\ \A id \in ReservationId \ S : ReservationClaim(id)' = ReservationClaim(id)
  /\ \A h \in T : /\ holds[h] # None /\ holds[h].state = "Acquired"
                  /\ holds'[h] # None /\ holds'[h].state # "Acquired"
  /\ \A h \in HoldId \ T : HoldClaim(h)' = HoldClaim(h)

\* It is a step of the ledger.
LEMMA GivingUpIsGiveUp ==
  ASSUME NEW S \in SUBSET ReservationId, NEW T \in SUBSET HoldId, GivesUp(S, T)
  PROVE  Ledger!LedgerNext
<1> DEFINE U == {c \in Ledger!Claimant : c \in S \/ c - LastReservationId \in T}
<1>1. ASSUME NEW id \in ReservationId
      PROVE  /\ id \in U <=> id \in S
             /\ id \in S => /\ LedgerClaims[id].status = "live"
                            /\ LedgerClaims'[id] = [status |-> "done"]
             /\ id \notin S => LedgerClaims'[id] = LedgerClaims[id]
  <2>1. id \in Ledger!Claimant /\ id - LastReservationId \notin HoldId
    <3>1. id - LastReservationId \notin HoldId
      BY DEF ReservationId, HoldId
    <3> QED BY <3>1, Naming DEF Named
  <2>2. LedgerClaims[id] = ReservationClaim(id) /\ LedgerClaims'[id] = ReservationClaim(id)'
    BY Naming, NamingNext DEF Named
  <2>3. id \in S => /\ ReservationClaim(id).status = "live"
                    /\ ReservationClaim(id)' = [status |-> "done"]
    BY ClaimShapes, ClaimShapesNext DEF GivesUp, Shapes, LiveClaim
  <2> QED BY <2>1, <2>2, <2>3 DEF GivesUp
<1>2. ASSUME NEW h \in HoldId
      PROVE  /\ LastReservationId + h \in U <=> h \in T
             /\ h \in T => /\ LedgerClaims[LastReservationId + h].status = "live"
                           /\ LedgerClaims'[LastReservationId + h] = [status |-> "done"]
             /\ h \notin T => LedgerClaims'[LastReservationId + h] =
                                LedgerClaims[LastReservationId + h]
  <2>1. /\ LastReservationId + h \in Ledger!Claimant
        /\ LastReservationId + h \notin ReservationId
        /\ (LastReservationId + h) - LastReservationId = h
    <3>1. /\ LastReservationId + h \notin ReservationId
          /\ (LastReservationId + h) - LastReservationId = h
      BY DEF ReservationId, HoldId
    <3> QED BY <3>1, Naming DEF Named
  <2>2. /\ LedgerClaims[LastReservationId + h] = HoldClaim(h)
        /\ LedgerClaims'[LastReservationId + h] = HoldClaim(h)'
    BY Naming, NamingNext DEF Named
  <2>3. h \in T => /\ HoldClaim(h).status = "live"
                   /\ HoldClaim(h)' = [status |-> "done"]
    BY ClaimShapes, ClaimShapesNext DEF GivesUp, Shapes, LiveClaim
  <2> QED BY <2>1, <2>2, <2>3 DEF GivesUp
<1>3. ASSUME NEW c \in Ledger!Claimant
      PROVE  /\ c \in U => LedgerClaims[c].status = "live"
             /\ LedgerClaims'[c] = IF c \in U THEN [status |-> "done"]
                                   ELSE LedgerClaims[c]
  <2>1. CASE c \in ReservationId
    <3> HIDE DEF U
    <3> QED BY <1>1, <2>1
  <2>2. CASE c - LastReservationId \in HoldId
    <3>1. LastReservationId + (c - LastReservationId) = c
      BY DEF Ledger!Claimant
    <3> HIDE DEF U
    <3> QED BY <1>2, <2>2, <3>1
  <2>3. CASE c \notin ReservationId /\ c - LastReservationId \notin HoldId
    <3>1. c \notin U
      BY <2>3
    <3>2. /\ LedgerClaims[c] = [status |-> "unused"]
          /\ LedgerClaims'[c] = [status |-> "unused"]
      BY <2>3, Naming, NamingNext DEF Named
    <3> QED BY <3>1, <3>2
  <2> QED BY <2>1, <2>2, <2>3
<1>4. LedgerClaims' = [c \in Ledger!Claimant |-> IF c \in U THEN Ledger!Done
                                                 ELSE LedgerClaims[c]]
  <2> DEFINE f == [c \in Ledger!Claimant |-> IF c \in U THEN Ledger!Done
                                             ELSE LedgerClaims[c]]
  <2>1. DOMAIN LedgerClaims' = Ledger!Claimant
        /\ LedgerClaims' = [c \in Ledger!Claimant |-> LedgerClaims'[c]]
    BY DEF LedgerClaims, Ledger!Claimant
  <2>2. \A c \in Ledger!Claimant : LedgerClaims'[c] = f[c]
    <3> HIDE DEF U
    <3> QED BY <1>3 DEF Ledger!Done
  <2> HIDE DEF U
  <2> QED BY <2>1, <2>2
<1>5. U \in SUBSET Ledger!Claimant
  OBVIOUS
<1>6. Ledger!GiveUp(U)
  <2>1. LedgerCapacity' = LedgerCapacity
    BY CapacityKept DEF GivesUp
  <2> HIDE DEF U
  <2> QED BY <1>3, <1>4, <1>5, <2>1 DEF Ledger!GiveUp, Ledger!Status
<1> HIDE DEF U
<1> QED BY <1>5, <1>6 DEF Ledger!LedgerNext

\* A step that leaves every claim and every limit alone gives nothing up.
LEMMA NothingGivenUp ==
  ASSUME LimitsKept, SameClaims, holds' = holds
  PROVE  Ledger!LedgerNext
<1>1. GivesUp({}, {})
  BY SameReservation, UntouchedHold DEF GivesUp, SameClaims
<1> QED BY <1>1, GivingUpIsGiveUp

\* The claimant c claims capacity that was not claimed before, in the place of
\* those in S.
MakesClaim(c, S) ==
  /\ LimitsKept
  /\ LedgerClaims[c].status = "unused"
  /\ LedgerClaims'[c].status = "live"
  /\ Ledger!IsOpen(LedgerClaims'[c].resource)
  /\ \A other \in S :
       /\ LedgerClaims[other].status = "live"
       /\ LedgerClaims[other].resource = LedgerClaims'[c].resource
       /\ LedgerClaims'[other] = [status |-> "done"]
  /\ \A other \in Ledger!Claimant : other # c /\ other \notin S =>
       LedgerClaims'[other] = LedgerClaims[other]
  /\ Ledger!Solvent'
  /\ LedgerClaims'[c].strength = "Soft" => Ledger!WithinSoftLimit(c)'

\* It is a step of the ledger.
LEMMA ClaimingIsClaim ==
  ASSUME NEW c \in Ledger!Claimant, NEW S, c \notin S,
         S = {} \/ \E other \in Ledger!Claimant : S = {other},
         MakesClaim(c, S)
  PROVE  Ledger!LedgerNext
<1> DEFINE f == [other \in Ledger!Claimant |->
                   IF other \in S THEN Ledger!Done
                   ELSE IF other = c THEN LedgerClaims'[c] ELSE LedgerClaims[other]]
<1>1. LedgerClaims' = f
  <2>1. LedgerClaims' = [other \in Ledger!Claimant |-> LedgerClaims'[other]]
    BY DEF LedgerClaims, Ledger!Claimant
  <2>2. \A other \in Ledger!Claimant : LedgerClaims'[other] = f[other]
    BY DEF MakesClaim, Ledger!Done
  <2> QED BY <2>1, <2>2
<1>2. LedgerCapacity' = LedgerCapacity
  BY CapacityKept DEF MakesClaim
<1>3. Ledger!Claim(c, S)
  BY <1>1, <1>2 DEF MakesClaim, Ledger!Claim, Ledger!Status
<1>4. CASE S = {}
  BY <1>3, <1>4 DEF Ledger!LedgerNext
<1>5. ASSUME NEW other \in Ledger!Claimant, S = {other} PROVE Ledger!LedgerNext
  <2>1. other \in Ledger!Claimant \ {c}
    BY <1>5
  <2> QED BY <1>3, <1>5, <2>1 DEF Ledger!LedgerNext
<1> QED BY <1>4, <1>5

-----------------------------------------------------------------------------
\* A step that changes no claim and no envelope.
LEMMA QuietStep ==
  ASSUME SameClaims, UNCHANGED <<envelopes, holds>>
  PROVE  Ledger!LedgerNext
<1>1. LimitsKept
  BY DEF LimitsKept
<1> QED BY <1>1, NothingGivenUp

\* Rewriting one envelope within its limits.
LEMMA OneEnvelope ==
  ASSUME TypeInv, NEW home \in ResourceId, envelopes[home] # None,
         NEW f \in Envelope, envelopes' = [envelopes EXCEPT ![home] = f],
         f.cap = envelopes[home].cap, f.ratio = envelopes[home].ratio,
         Span(f) = Span(envelopes[home])
  PROVE  LimitsKept
<1>1. /\ envelopes'[home] = f /\ f # None
      /\ \A r \in ResourceId : r # home => envelopes'[r] = envelopes[r]
  BY DEF TypeInv, TypeOK
<1> HIDE DEF Span
<1> QED BY <1>1 DEF LimitsKept

\* A withdrawal keeps the limits.
LEMMA WithdrawalLimits ==
  ASSUME TypeInv, NEW id \in ReservationId, Exists(id),
         envelopes' = EnvelopesWithout(id)
  PROVE  LimitsKept
<1> DEFINE old == reservations[id]
           e   == envelopes[old.resource]
           f   == Withdraw(e, old)
<1>1. /\ old \in Reservation /\ old.resource \in ResourceId
      /\ e \in Envelope /\ e # None
  BY CurrentReservation DEF Reservation
<1>2. envelopes' = [envelopes EXCEPT ![old.resource] = f]
  BY DEF EnvelopesWithout
<1>3. f \in Envelope /\ f.cap = e.cap /\ f.ratio = e.ratio /\ Span(f) = Span(e)
  <2> HIDE DEF old, e
  <2> QED BY <1>1, WithdrawLaw
<1> HIDE DEF f, old
<1> QED BY <1>1, <1>2, <1>3, OneEnvelope

\* Ending one reservation gives it up, if it still held capacity.
LEMMA ReservationEnds ==
  ASSUME IInv, NEW id \in ReservationId, Exists(id), NEW x \in Reservation,
         reservations' = [reservations EXCEPT ![id] = x],
         x.lifecycle \notin CapacityHolding,
         envelopes' = EnvelopesWithout(id), holds' = holds
  PROVE  Ledger!LedgerNext
<1>1. LimitsKept
  BY WithdrawalLimits DEF IInv
<1>2. /\ reservations'[id] = x /\ x # None
      /\ \A k \in ReservationId : k # id => reservations'[k] = reservations[k]
  BY DEF IInv, TypeInv, TypeOK
<1>3. Exists(id)' /\ ~HoldsCapacity(id)'
  BY <1>2 DEF Exists, HoldsCapacity
<1>4. CASE HoldsCapacity(id)
  <2>1. GivesUp({id}, {})
    BY <1>1, <1>2, <1>3, <1>4, UntouchedReservation, UntouchedHold DEF GivesUp
  <2> QED BY <2>1, GivingUpIsGiveUp
<1>5. CASE ~HoldsCapacity(id)
  <2>1. ReservationClaim(id)' = ReservationClaim(id)
    BY <1>3, <1>5, ClaimShapes, ClaimShapesNext DEF Shapes
  <2>2. GivesUp({}, {})
    BY <1>1, <1>2, <2>1, UntouchedReservation, UntouchedHold DEF GivesUp
  <2> QED BY <2>2, GivingUpIsGiveUp
<1> QED BY <1>4, <1>5

\* Release.
LEMMA ReleaseStep ==
  ASSUME IInv, NEW id \in ReservationId, NEW g, NEW ev \in Evidence,
         Release(id, g, ev)
  PROVE  Ledger!LedgerNext
<1> DEFINE d == Disengage(reservations[id], "Released")
           x == [d EXCEPT !.releaseGeneration = ev.generation]
<1>1. /\ Exists(id) /\ reservations' = [reservations EXCEPT ![id] = x]
      /\ envelopes' = EnvelopesWithout(id) /\ holds' = holds
  BY DEF Release, Current
<1>2. d \in Reservation /\ d.lifecycle = "Released"
  <2>1. reservations[id] \in Reservation
    BY <1>1, CurrentReservation DEF IInv
  <2> QED BY <2>1, LifecycleNames, DisengageLaw
<1>3. x \in Reservation /\ x.lifecycle \notin CapacityHolding
  <2> HIDE DEF d
  <2> QED BY <1>2, EvidenceFields, LifecycleNames DEF Reservation
<1> HIDE DEF x
<1> QED BY <1>1, <1>3, ReservationEnds

\* Cancellation.
LEMMA CancelStep ==
  ASSUME IInv, NEW id \in ReservationId, NEW g, Cancel(id, g)
  PROVE  Ledger!LedgerNext
<1> DEFINE x == Disengage(reservations[id], "Cancelled")
<1>1. /\ Exists(id) /\ reservations' = [reservations EXCEPT ![id] = x]
      /\ envelopes' = EnvelopesWithout(id) /\ holds' = holds
  BY DEF Cancel, Current
<1>2. x \in Reservation /\ x.lifecycle \notin CapacityHolding
  <2>1. reservations[id] \in Reservation
    BY <1>1, CurrentReservation DEF IInv
  <2>2. x \in Reservation /\ x.lifecycle = "Cancelled"
    BY <2>1, LifecycleNames, DisengageLaw
  <2> HIDE DEF x
  <2> QED BY <2>2, LifecycleNames
<1> HIDE DEF x
<1> QED BY <1>1, <1>2, ReservationEnds

\* The expiry of reservations gives up what is due, in one step.
LEMMA ExpireDueStep ==
  ASSUME IInv, NEW now, ExpireDue(now)
  PROVE  Ledger!LedgerNext
<1> DEFINE due == Due(now)
           leaving(r) == {id \in due : /\ reservations[id].resource = r
                                       /\ reservations[id].contributesEnvelope}
<1>1. \A id \in due : /\ id \in ReservationId /\ HoldsCapacity(id) /\ Exists(id)
                      /\ reservations'[id] # None
                      /\ reservations'[id].lifecycle \notin CapacityHolding
  BY ExpiryEnds
<1>2. \A id \in ReservationId : id \notin due => reservations'[id] = reservations[id]
  BY ExpiryEnds
<1>3. /\ holds' = holds
      /\ \A r \in ResourceId : envelopes'[r] =
           IF envelopes[r] = None THEN None
           ELSE AddAll(envelopes[r], leaving(r), -1)
  BY DEF ExpireDue
<1> HIDE DEF due
<1>4. LimitsKept
  <2>1. ASSUME NEW r \in ResourceId, envelopes[r] # None
        PROVE  /\ envelopes'[r] # None
               /\ envelopes'[r].cap = envelopes[r].cap
               /\ envelopes'[r].ratio = envelopes[r].ratio
               /\ Span(envelopes'[r]) = Span(envelopes[r])
    <3> DEFINE e == envelopes[r]
               f == AddAll(e, leaving(r), -1)
    <3>1. leaving(r) \subseteq {id \in ReservationId : Exists(id)}
      BY <1>1
    <3>2. TypeOK /\ e \in Envelope
      BY <2>1 DEF IInv, TypeInv, TypeOK
    <3>3. /\ f \in Envelope /\ f.cap = e.cap /\ f.ratio = e.ratio
          /\ Span(f) = Span(e)
      <4> HIDE DEF leaving, e
      <4> QED BY <3>1, <3>2, AddAllLaw
    <3>4. envelopes'[r] = f /\ f # None
      BY <1>3, <2>1, <3>3
    <3> HIDE DEF f
    <3> QED BY <3>3, <3>4
  <2> QED BY <1>3, <2>1 DEF LimitsKept
<1>5. GivesUp(due, {})
  BY <1>1, <1>2, <1>3, <1>4, UntouchedReservation, UntouchedHold
     DEF GivesUp, Exists, HoldsCapacity
<1>6. due \in SUBSET ReservationId
  BY <1>1
<1> QED BY <1>5, <1>6, GivingUpIsGiveUp

-----------------------------------------------------------------------------
\* The release of a hold gives it up, unless it was committed already.
LEMMA ReleaseHoldStep ==
  ASSUME IInv, NEW h \in HoldId, NEW g, ReleaseHold(h, g)
  PROVE  Ledger!LedgerNext
<1> DEFINE old == holds[h]
           x   == GivenUp(old, "Released")
           e   == envelopes[old.resource]
           f   == Unheld(e, old)
<1>0. TypeInv /\ TypeOK /\ Anchored
  BY DEF IInv, TypeInv
<1>1. /\ reservations' = reservations
      /\ holds' = [holds EXCEPT ![h] = x]
      /\ envelopes' = [envelopes EXCEPT ![old.resource] = f]
      /\ old # None
  BY DEF ReleaseHold
<1>2. old \in Hold /\ old.resource \in ResourceId
  BY <1>1, HoldClaimOf DEF Hold
<1>3. e \in Envelope /\ e # None
  BY <1>0, <1>1, <1>2 DEF Anchored, TypeOK
<1>4. x \in Hold /\ x.state = "Released"
  <2>1. "Released" \in HoldStates
    BY DEF HoldStates
  <2> HIDE DEF old
  <2> QED BY <1>2, <2>1, GivenUpLaw
<1>5. LimitsKept
  <2>1. f \in Envelope /\ f.cap = e.cap /\ f.ratio = e.ratio /\ Span(f) = Span(e)
    <3> HIDE DEF old, e
    <3> QED BY <1>2, <1>3, UnheldLaw
  <2> HIDE DEF f, old
  <2> QED BY <1>0, <1>1, <1>2, <1>3, <2>1, OneEnvelope
<1> HIDE DEF x
<1>6. /\ holds'[h] = x /\ x # None /\ x.state # "Acquired"
      /\ \A k \in HoldId : k # h => holds'[k] = holds[k]
  BY <1>0, <1>1, <1>4 DEF TypeOK
<1>7. CASE old.state = "Acquired"
  <2>1. GivesUp({}, {h})
    BY <1>1, <1>5, <1>6, <1>7, UntouchedReservation, UntouchedHold DEF GivesUp
  <2> QED BY <2>1, GivingUpIsGiveUp
<1>8. CASE old.state # "Acquired"
  <2>1. HoldClaim(h)' = HoldClaim(h)
    BY <1>1, <1>6, <1>8, ClaimShapes, ClaimShapesNext DEF Shapes
  <2>2. GivesUp({}, {})
    BY <1>1, <1>5, <1>6, <2>1, UntouchedReservation, UntouchedHold DEF GivesUp
  <2> QED BY <2>2, GivingUpIsGiveUp
<1> QED BY <1>7, <1>8

\* The expiry of holds gives up what expired, in one step.
LEMMA ExpireHoldsStep ==
  ASSUME IInv, TypeInv', NEW now, ExpireHolds(now)
  PROVE  Ledger!LedgerNext
<1> DEFINE gone == ExpiredHolds(now)
<1>1. /\ \A h \in gone : /\ h \in HoldId /\ holds[h] # None
                         /\ holds[h].state = "Acquired"
                         /\ holds'[h] # None /\ holds'[h].state # "Acquired"
      /\ \A h \in HoldId : h \notin gone => holds'[h] = holds[h]
  BY HoldExpiryEnds
<1> HIDE DEF gone
<1>2. LimitsKept
  <2>1. ASSUME NEW r \in ResourceId, envelopes[r] # None
        PROVE  /\ envelopes'[r] # None
               /\ envelopes'[r].cap = envelopes[r].cap
               /\ envelopes'[r].ratio = envelopes[r].ratio
               /\ Span(envelopes'[r]) = Span(envelopes[r])
    <3>1. PICK col : envelopes'[r] = [envelopes[r] EXCEPT !.held = col]
      BY <2>1 DEF ExpireHolds
    <3>2. envelopes[r] \in Envelope
      BY <2>1 DEF IInv, TypeInv, TypeOK
    <3>3. /\ envelopes'[r].cap = envelopes[r].cap
          /\ envelopes'[r].ratio = envelopes[r].ratio
          /\ envelopes'[r].from = envelopes[r].from
      BY <3>1, <3>2 DEF Envelope
    <3>4. envelopes'[r] # None
      <4>1. resources' = resources
        BY DEF ExpireHolds
      <4> QED BY <2>1, <4>1 DEF IInv, TypeInv, Anchored
    <3> QED BY <3>3, <3>4 DEF Span
  <2>2. \A r \in ResourceId : envelopes[r] = None => envelopes'[r] = None
    BY DEF ExpireHolds
  <2> QED BY <2>1, <2>2 DEF LimitsKept
<1>3. reservations' = reservations
  BY DEF ExpireHolds
<1>4. GivesUp({}, gone)
  BY <1>1, <1>2, <1>3, UntouchedReservation, UntouchedHold DEF GivesUp
<1>5. gone \in SUBSET HoldId
  BY <1>1
<1> QED BY <1>4, <1>5, GivingUpIsGiveUp

-----------------------------------------------------------------------------
\* A first publication opens its resource.
LEMMA FirstPublicationStep ==
  ASSUME IInv, TypeInv', NEW p \in Publications, PublishResource(p),
         resources[p.id] = None
  PROVE  Ledger!LedgerNext
<1> DEFINE f == AddAll(NewEnvelope(p.availableFrom, p.overbookRatio,
                                   p.totalCapacity, p.unavailable), {}, 1)
           r == p.id
<1>1. /\ r \in ResourceId
      /\ envelopes' = [envelopes EXCEPT ![r] = f]
      /\ reservations' = reservations /\ holds' = holds
  BY FirstPublication DEF IInv
<1> HIDE DEF f
<1>2. /\ envelopes[r] = None /\ envelopes'[r] # None
      /\ \A s \in ResourceId : s # r => envelopes'[s] = envelopes[s]
  <2>1. resources'[r] # None
    <3>1. resources' = [resources EXCEPT ![r] =
            [generation |-> p.generation, resourceClass |-> p.resourceClass,
             totalCapacity |-> p.totalCapacity, owner |-> p.worker,
             ownerBoot |-> p.workerBoot, available |-> TRUE]]
      BY DEF PublishResource, OldNews, Install
    <3>2. p.totalCapacity > 0 /\ p.totalCapacity \in Int
      BY FirstPublication, PublicationFields DEF IInv
    <3>3. [generation |-> p.generation, resourceClass |-> p.resourceClass,
           totalCapacity |-> p.totalCapacity, owner |-> p.worker,
           ownerBoot |-> p.workerBoot, available |-> TRUE] \in Resource
      BY <3>2, PublicationFields DEF Resource
    <3> QED BY <1>1, <3>1, <3>3 DEF IInv, TypeInv, TypeOK
  <2> QED BY <1>1, <2>1 DEF IInv, TypeInv, TypeOK, Anchored
<1>3. LedgerClaims' = LedgerClaims
  BY <1>1 DEF LedgerClaims, ReservationClaim, HoldClaim, HoldsCapacity, Exists
<1>4. ~Ledger!IsOpen(r) /\ Ledger!IsOpen(r)'
  BY <1>1, <1>2, Opening, OpeningNext DEF Opened
<1>5. LedgerCapacity' = [LedgerCapacity EXCEPT ![r] = LedgerCapacity'[r]]
  <2>1. \A s \in ResourceId : s # r => LedgerCapacity'[s] = LedgerCapacity[s]
    BY <1>2 DEF LedgerCapacity
  <2>2. /\ LedgerCapacity = [s \in ResourceId |-> LedgerCapacity[s]]
        /\ LedgerCapacity' = [s \in ResourceId |-> LedgerCapacity'[s]]
    BY DEF LedgerCapacity
  <2> QED BY <1>1, <2>1, <2>2
<1>6. Ledger!Open(r)
  BY <1>3, <1>4, <1>5 DEF Ledger!Open
<1> QED BY <1>1, <1>6 DEF Ledger!LedgerNext

\* A publication that is no news changes no claim.
LEMMA OldNewsStep ==
  ASSUME NEW p \in Publications, PublishResource(p), OldNews(p)
  PROVE  Ledger!LedgerNext
<1>1. UNCHANGED <<envelopes, reservations, holds>>
  BY DEF PublishResource
<1>2. SameClaims
  BY <1>1 DEF SameClaims, SameClaim, SameTerms, Exists
<1> QED BY <1>1, <1>2, QuietStep

\* A new hold is a hard claim that fits.
LEMMA CreateHoldStep ==
  ASSUME IInv, IInv', NEW spec \in HoldSpec, NEW home \in ResourceId,
         NEW now \in HoldClock, CreateHold(spec, home, now),
         holds[spec.holdId] = None
  PROVE  Ledger!LedgerNext
<1> DEFINE h == spec.holdId
           c == LastReservationId + h
<1>0. TypeInv /\ TypeOK /\ Anchored
  BY DEF IInv, TypeInv
<1>1. /\ h \in HoldId
      /\ reservations' = reservations
      /\ envelopes' = [envelopes EXCEPT ![home] =
                         AddHeld(@, spec.window, spec.quantity)]
      /\ resources[home] # None
      /\ holds'[h] # None /\ holds'[h].state = "Acquired"
      /\ holds'[h].resource = home
      /\ \A k \in HoldId : k # h => holds'[k] = holds[k]
  BY HoldMakes
<1>2. holds[h] = None /\ spec.quantity \in Int
  BY SpecFields
<1> HIDE DEF h
<1>3. envelopes[home] \in Envelope /\ envelopes[home] # None
  BY <1>0, <1>1 DEF Anchored, TypeOK
<1>4. LimitsKept
  <2> DEFINE e == envelopes[home]
             f == AddHeld(e, spec.window, spec.quantity)
  <2>1. f \in Envelope /\ f.cap = e.cap /\ f.ratio = e.ratio /\ Span(f) = Span(e)
    <3>1. e \in Envelope
      BY <1>3
    <3> HIDE DEF e
    <3> QED BY <1>2, <3>1, AddHeldLaw
  <2>2. envelopes' = [envelopes EXCEPT ![home] = f]
    BY <1>1
  <2> HIDE DEF f
  <2> QED BY <1>0, <1>3, <2>1, <2>2, OneEnvelope
<1>5. /\ c \in Ledger!Claimant
      /\ LedgerClaims[c] = [status |-> "unused"]
      /\ LedgerClaims'[c] = LiveClaim(holds'[h], "Hard", home)
  <2>1. /\ c \in Ledger!Claimant /\ LedgerClaims[c] = HoldClaim(h)
        /\ LedgerClaims'[c] = HoldClaim(h)'
    BY <1>1, Naming, NamingNext DEF Named
  <2>2. HoldClaim(h) = [status |-> "unused"]
    BY <1>2, ClaimShapes DEF Shapes
  <2>3. HoldClaim(h)' = LiveClaim(holds'[h], "Hard", holds'[h].resource)
    BY <1>1, ClaimShapesNext DEF Shapes, LiveClaim
  <2> QED BY <1>1, <2>1, <2>2, <2>3
<1>6. ASSUME NEW other \in Ledger!Claimant, other # c
      PROVE  LedgerClaims'[other] = LedgerClaims[other]
  <2>1. CASE other \in ReservationId
    BY <1>1, <2>1, UntouchedReservation, Naming, NamingNext DEF Named
  <2>2. CASE other - LastReservationId \in HoldId
    <3> DEFINE k == other - LastReservationId
    <3>1. k # h /\ LastReservationId + k = other /\ k \in HoldId
      BY <1>6, <2>2 DEF Ledger!Claimant, HoldId
    <3> HIDE DEF k, c
    <3>2. holds'[k] = holds[k]
      BY <1>1, <3>1
    <3>3. HoldClaim(k)' = HoldClaim(k)
      BY <3>1, <3>2, UntouchedHold
    <3>4. /\ LedgerClaims[LastReservationId + k] = HoldClaim(k)
          /\ LedgerClaims'[LastReservationId + k] = HoldClaim(k)'
      BY <3>1, Naming, NamingNext DEF Named
    <3> QED BY <3>1, <3>3, <3>4
  <2>3. CASE other \notin ReservationId /\ other - LastReservationId \notin HoldId
    BY <2>3, Naming, NamingNext DEF Named
  <2> QED BY <2>1, <2>2, <2>3
<1>7. /\ LedgerClaims[c].status = "unused" /\ LedgerClaims'[c].status = "live"
      /\ LedgerClaims'[c].strength = "Hard" /\ LedgerClaims'[c].resource = home
  BY <1>5 DEF LiveClaim
<1>8. Ledger!IsOpen(home)
  BY <1>3, Opening DEF Opened
<1>9. Ledger!Solvent'
  BY InvariantSolventNext
<1> HIDE DEF c
<1>10. MakesClaim(c, {})
  BY <1>4, <1>6, <1>7, <1>8, <1>9 DEF MakesClaim
<1> QED BY <1>5, <1>10, ClaimingIsClaim

-----------------------------------------------------------------------------
\* What the headroom of a soft admission leaves at every instant it covers.
LEMMA AdmittedFitsSoftly ==
  ASSUME NEW e \in Envelope, NEW w, NEW d \in Int,
         Headroom(e, "Soft", w) >= d, NEW t \in Span(e), Covers(w, t)
  PROVE  e.hard[t] + e.soft[t] + e.held[t] + d <= SoftLimit(e, t)
<1> DEFINE limit == SoftLimit(e, t)
<1>1. t \in CellsOf(e, w)
  BY DEF CellsOf
<1>2. /\ Headroom(e, "Soft", w) \in Int
      /\ Headroom(e, "Soft", w) <= Slack(e, "Soft", t)
  BY <1>1, HeadroomBound
<1>3. Slack(e, "Soft", t) = limit - e.hard[t] - e.soft[t] - e.held[t]
  BY DEF Slack, SoftSlack
<1>4. limit \in Int
  BY SoftLimitType DEF Span
<1> HIDE DEF limit
<1>5. e.hard[t] + e.soft[t] + e.held[t] + d <= limit
  BY <1>2, <1>3, <1>4, Columns
<1> QED BY <1>5 DEF limit

\* The envelope a commitment leaves: its old limits, and no more load at any
\* instant than the request adds.
LEMMA CommittedEnvelope ==
  ASSUME IInv, NEW q \in Request, NEW home \in ResourceId,
         NEW h \in HoldId \cup {None}, NEW id \in ReservationId,
         CommitsAs(q, home, h, id)
  PROVE  LET e == envelopes[home]
             f == envelopes'[home]
         IN  /\ e \in Envelope /\ f \in Envelope
             /\ envelopes' = [envelopes EXCEPT ![home] = f]
             /\ f.cap = e.cap /\ f.ratio = e.ratio /\ Span(f) = Span(e)
             /\ \A t \in Span(e) :
                  f.hard[t] + f.soft[t] + f.held[t] <=
                    e.hard[t] + e.soft[t] + e.held[t] + q.quantity
<1> DEFINE e == envelopes[home]
           f == envelopes'[home]
           loaded == AddCommitted(e, q.strength, q.window, q.quantity)
<1>0. TypeInv /\ TypeOK /\ Anchored
  BY DEF IInv, TypeInv
<1>1. e \in Envelope
  <2>1. resources[home] # None
    BY DEF CommitsAs
  <2> QED BY <1>0, <2>1 DEF Anchored, TypeOK
<1>2. q.quantity \in Nat
  <2>1. q.quantity > 0
    BY DEF CommitsAs
  <2> QED BY <2>1, RequestFields
<1>3. /\ loaded \in Envelope
      /\ Span(loaded) = Span(e) /\ loaded.cap = e.cap /\ loaded.ratio = e.ratio
      /\ loaded.held = e.held
      /\ \A t \in Span(e) :
           loaded.hard[t] + loaded.soft[t] <= e.hard[t] + e.soft[t] + q.quantity
  <2>1. /\ loaded \in Envelope
        /\ Span(loaded) = Span(e) /\ loaded.cap = e.cap /\ loaded.ratio = e.ratio
        /\ loaded.held = e.held
        /\ \A t \in Time :
             /\ loaded.hard[t] = IF q.strength = "Hard" /\ t \in CellsOf(e, q.window)
                                 THEN e.hard[t] + q.quantity ELSE e.hard[t]
             /\ loaded.soft[t] = IF q.strength # "Hard" /\ t \in CellsOf(e, q.window)
                                 THEN e.soft[t] + q.quantity ELSE e.soft[t]
    <3> HIDE DEF e
    <3> QED BY <1>1, <1>2, AddCommittedLaw
  <2>2. ASSUME NEW t \in Span(e)
        PROVE  loaded.hard[t] + loaded.soft[t] <= e.hard[t] + e.soft[t] + q.quantity
    <3>1. t \in Time /\ e.hard[t] \in Int /\ e.soft[t] \in Int
      BY <1>1, Columns
    <3> HIDE DEF e, loaded
    <3> QED BY <1>2, <2>1, <3>1
  <2> QED BY <2>1, <2>2
<1>4. CASE h = None
  <2>1. envelopes' = [envelopes EXCEPT ![home] = loaded]
    BY <1>4 DEF CommitsAs
  <2>2. f = loaded
    BY <1>0, <2>1 DEF TypeOK
  <2>3. ASSUME NEW t \in Span(e)
        PROVE  f.hard[t] + f.soft[t] + f.held[t] <=
                 e.hard[t] + e.soft[t] + e.held[t] + q.quantity
    <3>1. /\ e.held[t] \in Int /\ e.hard[t] \in Int /\ e.soft[t] \in Int
      BY <1>1, Columns
    <3>2. loaded.hard[t] \in Int /\ loaded.soft[t] \in Int
      <4> HIDE DEF loaded
      <4> QED BY <1>3, Columns
    <3> HIDE DEF f, e, loaded
    <3> QED BY <1>2, <1>3, <2>2, <3>1, <3>2
  <2> QED BY <1>1, <1>3, <2>1, <2>2, <2>3
<1>5. CASE h # None
  <2> DEFINE back == AddHeld(loaded, holds[h].window, -holds[h].quantity)
  <2>1. /\ envelopes' = [envelopes EXCEPT ![home] = back]
        /\ holds[h].quantity \in Nat
    BY <1>5 DEF CommitsAs
  <2>2. f = back
    BY <1>0, <2>1 DEF TypeOK
  <2>3. /\ back \in Envelope
        /\ Span(back) = Span(loaded) /\ back.cap = loaded.cap
        /\ back.hard = loaded.hard /\ back.soft = loaded.soft
        /\ back.ratio = loaded.ratio
        /\ \A t \in Time :
             back.held[t] = IF t \in CellsOf(loaded, holds[h].window)
                            THEN loaded.held[t] + (-holds[h].quantity)
                            ELSE loaded.held[t]
    <3>1. -holds[h].quantity \in Int
      BY <2>1
    <3> HIDE DEF loaded
    <3> QED BY <1>3, <3>1, AddHeldLaw
  <2>4. ASSUME NEW t \in Span(e)
        PROVE  f.hard[t] + f.soft[t] + f.held[t] <=
                 e.hard[t] + e.soft[t] + e.held[t] + q.quantity
    <3>1. /\ t \in Time
          /\ e.held[t] \in Int /\ e.hard[t] \in Int /\ e.soft[t] \in Int
      BY <1>1, Columns
    <3>2. loaded.hard[t] \in Int /\ loaded.soft[t] \in Int
      <4> HIDE DEF loaded
      <4> QED BY <1>3, Columns
    <3>3. back.held[t] <= e.held[t] /\ back.held[t] \in Int
      <4> HIDE DEF back, loaded, e
      <4> QED BY <1>3, <2>1, <2>3, <3>1
    <3> HIDE DEF f, e, loaded, back
    <3> QED BY <1>2, <1>3, <2>2, <2>3, <3>1, <3>2, <3>3
  <2> HIDE DEF back
  <2> QED BY <1>1, <1>3, <2>1, <2>2, <2>3, <2>4
<1> QED BY <1>4, <1>5

\* A commitment within the soft limit of its admission is within that of the
\* ledger.
LEMMA CommitFitsSoftly ==
  ASSUME IInv, IInv', NEW q \in Request, NEW home \in ResourceId,
         NEW h \in HoldId \cup {None}, NEW id \in ReservationId,
         CommitsAs(q, home, h, id), q.strength = "Soft"
  PROVE  \A t \in Span(envelopes[home]) : Covers(q.window, t) =>
           Ledger!TotalDemand(home, {"Hard", "Soft"}, t)' <= SoftLimit(envelopes[home], t)
<1> SUFFICES ASSUME NEW t \in Span(envelopes[home]), Covers(q.window, t)
             PROVE  Ledger!TotalDemand(home, {"Hard", "Soft"}, t)' <=
                      SoftLimit(envelopes[home], t)
  OBVIOUS
<1> DEFINE e == envelopes[home]
           f == envelopes'[home]
           limit == SoftLimit(e, t)
<1>1. /\ e \in Envelope /\ f \in Envelope /\ Span(f) = Span(e)
      /\ f.hard[t] + f.soft[t] + f.held[t] <=
           e.hard[t] + e.soft[t] + e.held[t] + q.quantity
  BY CommittedEnvelope
<1>2. e.hard[t] + e.soft[t] + e.held[t] + q.quantity <= limit
  <2>1. Headroom(e, "Soft", q.window) >= q.quantity /\ q.quantity \in Int
    BY RequestFields DEF CommitsAs, HeadroomOn
  <2> HIDE DEF e
  <2> QED BY <1>1, <2>1, AdmittedFitsSoftly DEF e
<1>3. Ledger!TotalDemand(home, {"Hard", "Soft"}, t)' =
        LoadAt(Commitments(home), "Hard", t)' + LoadAt(Commitments(home), "Soft", t)'
          + HeldAt(LiveHolds(home), t)'
  BY DemandsNext DEF IInv, DemandsAreLoads
<1>4. /\ f.hard[t] = LoadAt(Commitments(home), "Hard", t)'
      /\ f.soft[t] = LoadAt(Commitments(home), "Soft", t)'
      /\ f.held[t] = HeldAt(LiveHolds(home), t)'
  <2>1. Exact(home)'
    BY DEF IInv, Exactness
  <2> QED BY <1>1, <2>1 DEF Exact
<1>5. /\ f.hard[t] \in Int /\ f.soft[t] \in Int /\ f.held[t] \in Int
      /\ e.hard[t] \in Int /\ e.soft[t] \in Int /\ e.held[t] \in Int
      /\ limit \in Int /\ q.quantity \in Int
  <2>1. /\ f.hard[t] \in Int /\ f.soft[t] \in Int /\ f.held[t] \in Int
        /\ e.hard[t] \in Int /\ e.soft[t] \in Int /\ e.held[t] \in Int
        /\ q.quantity \in Int
    BY <1>1, Columns, RequestFields
  <2>2. limit \in Int
    BY <1>1, SoftLimitType DEF Span
  <2> QED BY <2>1, <2>2
<1> HIDE DEF e, f, limit
<1>6. Ledger!TotalDemand(home, {"Hard", "Soft"}, t)' <= limit
  BY <1>1, <1>2, <1>3, <1>4, <1>5
<1> QED BY <1>6 DEF limit, e

-----------------------------------------------------------------------------
\* A commitment is a claim that fits, in the place of the hold it uses up.
LEMMA CommitStep ==
  ASSUME IInv, IInv', NEW q \in Request, NEW home \in ResourceId,
         NEW h \in HoldId \cup {None}, Commit(q, home, h), ~q.partialAllowed
  PROVE  Ledger!LedgerNext
<1>a. PICK id \in ReservationId : CommitsAs(q, home, h, id)
  BY CommitMakes DEF IInv
<1> DEFINE used == LastReservationId + h
           S == IF h = None THEN {} ELSE {used}
<1>0. TypeInv /\ TypeOK /\ Anchored
  BY DEF IInv, TypeInv
<1>1. /\ reservations[id] = None /\ resources[home] # None
      /\ Exists(id)' /\ HoldsCapacity(id)'
      /\ reservations'[id].resource = home
      /\ reservations'[id].strength = q.strength
      /\ reservations'[id].window = q.window
      /\ \A k \in ReservationId : k # id => reservations'[k] = reservations[k]
  BY <1>a DEF CommitsAs, Exists, HoldsCapacity
<1>2. LimitsKept /\ envelopes[home] # None
  <2>1. envelopes[home] # None
    BY <1>0, <1>1 DEF Anchored
  <2> QED BY <1>0, <1>a, <2>1, CommittedEnvelope, OneEnvelope
<1>3. /\ id \in Ledger!Claimant
      /\ LedgerClaims[id].status = "unused"
      /\ LedgerClaims'[id].status = "live"
      /\ LedgerClaims'[id].resource = home
      /\ LedgerClaims'[id].strength = q.strength
      /\ LedgerClaims'[id].window = q.window
  <2>1. /\ id \in Ledger!Claimant /\ LedgerClaims[id] = ReservationClaim(id)
        /\ LedgerClaims'[id] = ReservationClaim(id)'
    BY Naming, NamingNext DEF Named
  <2>2. ReservationClaim(id) = [status |-> "unused"]
    BY <1>1, ClaimShapes DEF Shapes, Exists
  <2>3. ReservationClaim(id)' =
          LiveClaim(reservations'[id], reservations'[id].strength,
                    reservations'[id].resource)
    BY <1>1, ClaimShapesNext DEF Shapes, LiveClaim
  <2> QED BY <1>1, <2>1, <2>2, <2>3 DEF LiveClaim
<1>4. \A k \in HoldId : k # h => holds'[k] = holds[k]
  BY <1>a DEF CommitsAs
<1>5. ASSUME h # None
      PROVE  /\ h \in HoldId /\ used \in Ledger!Claimant /\ used # id
             /\ LedgerClaims[used].status = "live"
             /\ LedgerClaims[used].resource = home
             /\ LedgerClaims'[used] = [status |-> "done"]
  <2>1. /\ h \in HoldId /\ holds[h] # None /\ holds[h].resource = home
        /\ holds[h].state = "Acquired"
        /\ holds'[h] # None /\ holds'[h].state # "Acquired"
    BY <1>5, <1>a DEF CommitsAs
  <2>2. /\ used \in Ledger!Claimant /\ LedgerClaims[used] = HoldClaim(h)
        /\ LedgerClaims'[used] = HoldClaim(h)'
    BY <2>1, Naming, NamingNext DEF Named
  <2>3. used # id
    BY <2>1 DEF HoldId, ReservationId
  <2>4. /\ HoldClaim(h) = LiveClaim(holds[h], "Hard", holds[h].resource)
        /\ HoldClaim(h)' = [status |-> "done"]
    BY <2>1, ClaimShapes, ClaimShapesNext DEF Shapes
  <2> QED BY <2>1, <2>2, <2>3, <2>4 DEF LiveClaim
<1>6. ASSUME NEW other \in Ledger!Claimant, other # id, other \notin S
      PROVE  LedgerClaims'[other] = LedgerClaims[other]
  <2>1. CASE other \in ReservationId
    BY <1>1, <1>6, <2>1, UntouchedReservation, Naming, NamingNext DEF Named
  <2>2. CASE other - LastReservationId \in HoldId
    <3> DEFINE k == other - LastReservationId
    <3>1. LastReservationId + k = other /\ k \in HoldId
      BY <2>2 DEF Ledger!Claimant
    <3>2. k # h
      <4>1. h # None => other # used
        BY <1>6
      <4>2. k # None
        BY <3>1
      <4> HIDE DEF k
      <4> QED BY <3>1, <4>1, <4>2
    <3> HIDE DEF k
    <3>3. HoldClaim(k)' = HoldClaim(k)
      BY <1>4, <3>1, <3>2, UntouchedHold
    <3>4. /\ LedgerClaims[LastReservationId + k] = HoldClaim(k)
          /\ LedgerClaims'[LastReservationId + k] = HoldClaim(k)'
      BY <3>1, Naming, NamingNext DEF Named
    <3> QED BY <3>1, <3>3, <3>4
  <2>3. CASE other \notin ReservationId /\ other - LastReservationId \notin HoldId
    BY <2>3, Naming, NamingNext DEF Named
  <2> QED BY <2>1, <2>2, <2>3
<1>7. ASSUME LedgerClaims'[id].strength = "Soft"
      PROVE  Ledger!WithinSoftLimit(id)'
  <2> DEFINE e == envelopes[home]
             f == envelopes'[home]
  <2>1. /\ f # None /\ Span(f) = Span(e) /\ f.cap = e.cap /\ f.ratio = e.ratio
    BY <1>2 DEF LimitsKept
  <2>2. /\ LedgerCapacity'[home].span = Span(f)
        /\ \A t \in Span(f) :
             LedgerCapacity'[home].soft[t] = SoftLimit(f, t)
    BY <2>1, OpeningNext DEF Opened
  <2>3. \A t \in Span(e) : Covers(q.window, t) =>
          Ledger!TotalDemand(home, {"Hard", "Soft"}, t)' <= SoftLimit(e, t)
    BY <1>3, <1>7, <1>a, CommitFitsSoftly
  <2>4. \A t : Ledger!Covers(q.window, t) <=> Covers(q.window, t)
    BY SameOperators
  <2>5. \A t : SoftLimit(f, t) = SoftLimit(e, t)
    BY <2>1 DEF SoftLimit
  <2> HIDE DEF e, f
  <2>6. \A t \in LedgerCapacity'[home].span : Ledger!Covers(q.window, t) =>
          Ledger!TotalDemand(home, {"Hard", "Soft"}, t)' <=
            LedgerCapacity'[home].soft[t]
    BY <2>1, <2>2, <2>3, <2>4, <2>5
  <2> QED BY <1>3, <2>6 DEF Ledger!WithinSoftLimit
<1>8. Ledger!IsOpen(home) /\ Ledger!Solvent'
  BY <1>2, Opening, InvariantSolventNext DEF Opened
<1>9. \A other \in S : /\ other \in Ledger!Claimant /\ other # id
                       /\ LedgerClaims[other].status = "live"
                       /\ LedgerClaims[other].resource = home
                       /\ LedgerClaims'[other] = [status |-> "done"]
  <2> HIDE DEF used
  <2> QED BY <1>5
<1>10. S = {} \/ \E other \in Ledger!Claimant : S = {other}
  <2> HIDE DEF used
  <2> QED BY <1>5
<1> HIDE DEF S, used
<1>11. MakesClaim(id, S)
  BY <1>2, <1>3, <1>6, <1>7, <1>8, <1>9 DEF MakesClaim
<1> QED BY <1>3, <1>9, <1>10, <1>11, ClaimingIsClaim

-----------------------------------------------------------------------------
\* The first state is an empty ledger.
LEMMA RefinementInit == Init => Ledger!LedgerInit
<1> SUFFICES ASSUME Init PROVE Ledger!LedgerInit
  OBVIOUS
<1>1. LedgerCapacity = [r \in ResourceId |-> Ledger!Closed]
  BY DEF Init, LedgerCapacity, Ledger!Closed
<1>2. LedgerClaims = [c \in Ledger!Claimant |-> Ledger!Unused]
  <2>1. ASSUME NEW c \in Ledger!Claimant
        PROVE  LedgerClaims[c] = [status |-> "unused"]
    <3>1. CASE c \in ReservationId
      <4>1. ~Exists(c)
        BY <3>1 DEF Init, Exists
      <4> QED BY <3>1, <4>1, Naming, ClaimShapes DEF Named, Shapes
    <3>2. CASE c - LastReservationId \in HoldId
      <4> DEFINE h == c - LastReservationId
      <4>1. LastReservationId + h = c /\ h \in HoldId
        BY <3>2 DEF Ledger!Claimant
      <4> HIDE DEF h
      <4>2. HoldClaim(h) = [status |-> "unused"]
        BY <4>1, ClaimShapes DEF Init, Shapes
      <4>3. LedgerClaims[LastReservationId + h] = HoldClaim(h)
        BY <4>1, Naming DEF Named
      <4> QED BY <4>1, <4>2, <4>3
    <3> QED BY <3>1, <3>2, Naming DEF Named
  <2>2. LedgerClaims = [c \in Ledger!Claimant |-> LedgerClaims[c]]
    BY DEF LedgerClaims, Ledger!Claimant
  <2> QED BY <2>1, <2>2 DEF Ledger!Unused
<1> QED BY <1>1, <1>2 DEF Ledger!LedgerInit

\* The operations that admit nothing and give nothing back are silent.
LEMMA EverydayStep ==
  ASSUME IInv, TypeInv', Everyday
  PROVE  Ledger!LedgerNext
<1>1. ASSUME \/ \E e \in 1..MaxAuthority : SetCoordinatorEpoch(e)
             \/ \E r \in ResourceId : InvalidateResource(r)
             \/ \E r \in ResourceId, g \in ResourceGenerations,
                   available \in BOOLEAN :
                  AdvanceResourceGeneration(r, g, available)
      PROVE  Ledger!LedgerNext
  <2>1. UNCHANGED <<envelopes, holds>>
    BY <1>1 DEF SetCoordinatorEpoch, InvalidateResource, AdvanceResourceGeneration
  <2>2. SameClaims
    BY <1>1, FencingKeeps
  <2> QED BY <2>1, <2>2, QuietStep
<1>2. ASSUME NEW p \in Publications, RevalidateResource(p)
      PROVE  Ledger!LedgerNext
  <2>1. UNCHANGED <<envelopes, holds>>
    BY <1>2 DEF RevalidateResource
  <2> QED BY <1>2, <2>1, RevalidateResourceKeeps, QuietStep
<1>3. ASSUME NEW id \in ReservationId, NEW g, NEW ev \in Evidence, NEW at,
             Activate(id, g, ev, at)
      PROVE  Ledger!LedgerNext
  <2>1. UNCHANGED <<envelopes, holds>>
    BY <1>3 DEF Activate, OnlyReservationsChange
  <2> QED BY <1>3, <2>1, ActivateKeeps, QuietStep
<1>4. ASSUME NEW id \in ReservationId, NEW g, NEW amount \in ConsumeAmounts,
             NEW ev \in Evidence, Consume(id, g, amount, ev)
      PROVE  Ledger!LedgerNext
  <2>1. UNCHANGED <<envelopes, holds>>
    BY <1>4 DEF Consume, OnlyReservationsChange
  <2> QED BY <1>4, <2>1, ConsumeKeeps, QuietStep
<1>5. ASSUME \/ \E h \in HoldId, spec \in HoldSpecs :
                  ReleaseHold(h, spec.holdGeneration)
             \/ \E now \in Instant : ExpireHolds(now)
             \/ \E id \in ReservationId, g \in Generations, ev \in Evidence :
                  Release(id, g, ev)
             \/ \E id \in ReservationId, g \in Generations : Cancel(id, g)
             \/ \E now \in Instant : ExpireDue(now)
      PROVE  Ledger!LedgerNext
  BY <1>5, ReleaseHoldStep, ExpireHoldsStep, ReleaseStep, CancelStep, ExpireDueStep
<1> QED BY <1>1, <1>2, <1>3, <1>4, <1>5 DEF Everyday

\* Every step of a disciplined caller is a step of the ledger, or silent.
LEMMA RefinementNext ==
  IInv /\ [DisciplinedNext]_vars => [Ledger!LedgerNext]_Ledger!ledgerVars
<1>1. ASSUME UNCHANGED vars PROVE UNCHANGED Ledger!ledgerVars
  <2>1. UNCHANGED <<envelopes, holds, reservations>>
    BY <1>1 DEF vars
  <2>2. UNCHANGED LedgerCapacity
    BY <2>1 DEF LedgerCapacity
  <2>3. UNCHANGED LedgerClaims
    BY <2>1 DEF LedgerClaims, ReservationClaim, HoldClaim, HoldsCapacity, Exists
  <2> QED BY <2>2, <2>3 DEF Ledger!ledgerVars
<1> SUFFICES ASSUME IInv, DisciplinedNext PROVE Ledger!LedgerNext
  BY <1>1
<1>2. IInv' /\ TypeInv'
  BY InvariantNext DEF IInv
<1>3. HoldSpecs \subseteq HoldSpec /\ Requests \subseteq Request
  OBVIOUS
<1>4. CASE Everyday
  BY <1>2, <1>4, EverydayStep
<1>5. ASSUME NEW p \in Publications, resources[p.id] = None \/ OldNews(p),
             PublishResource(p)
      PROVE  Ledger!LedgerNext
  BY <1>2, <1>5, FirstPublicationStep, OldNewsStep
<1>6. ASSUME NEW spec \in HoldSpecs, NEW r \in ResourceId, NEW now \in HoldClock,
             holds[spec.holdId] = None, CreateHold(spec, r, now)
      PROVE  Ledger!LedgerNext
  BY <1>2, <1>3, <1>6, CreateHoldStep
<1>7. ASSUME NEW q \in Requests, NEW r \in ResourceId, NEW h \in HoldId \cup {None},
             ~q.partialAllowed, Commit(q, r, h)
      PROVE  Ledger!LedgerNext
  BY <1>2, <1>3, <1>7, CommitStep
<1>8. ASSUME NEW id \in ReservationId, NEW g \in Generations, HoldsCapacity(id),
             ActivateStale(id, g)
      PROVE  Ledger!LedgerNext
  <2>1. UNCHANGED <<envelopes, holds>>
    BY <1>8 DEF ActivateStale, OnlyReservationsChange
  <2> QED BY <1>2, <1>8, <2>1, ActivateStaleKeeps, QuietStep
<1>9. ASSUME NEW id \in ReservationId, NEW g \in Generations, NEW owner \in NewOwners,
             NEW ev \in Evidence, HoldsCapacity(id), Transfer(id, g, owner, ev)
      PROVE  Ledger!LedgerNext
  <2>1. UNCHANGED <<envelopes, holds>>
    BY <1>9 DEF Transfer, OnlyGenerationsChange
  <2> QED BY <1>2, <1>9, <2>1, TransferKeeps, QuietStep
<1> QED BY <1>4, <1>5, <1>6, <1>7, <1>8, <1>9 DEF DisciplinedNext

\* The registry of reservations and holds implements a capacity ledger, on any
\* number of resources, reservations and holds: nothing is admitted beyond the
\* limits, a live claim's demand is fixed, and what gave its capacity back
\* never takes it again.
THEOREM ImplementsCapacityLedger == DisciplinedSpec => ImplementsLedger
BY InvariantInit, InvariantNext, RefinementInit, RefinementNext, PTL
   DEF DisciplinedSpec, ImplementsLedger, Ledger!LedgerSpec

=============================================================================
