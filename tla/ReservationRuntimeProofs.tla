---------------------- MODULE ReservationRuntimeProofs ----------------------
(***************************************************************************)
(* Typing and accounting of the runtime.                                   *)
(*                                                                         *)
(* Every operation, called by anyone with any input, keeps every variable  *)
(* in its type and every reservation, hold and envelope on a published     *)
(* resource (TypeInv).  One lemma per operation; LEMMA NextTypes puts them *)
(* together.                                                               *)
(*                                                                         *)
(* Under the disciplined callers the accounting is exact.  NeverOverbooked *)
(* alone is not inductive: admission compares the request with the         *)
(* envelope, not with the registry, so the envelope has to mirror the      *)
(* registry; it goes on doing so only if the flag of each record says      *)
(* whether its share is in the envelope; and a commitment must not take an *)
(* id that is in use.  IInv joins these to the types.  Each operation then *)
(* either leaves every claim alone (ClaimsKept), or changes the claim of   *)
(* one reservation or hold (LoadUpdate, HeldUpdate), or removes a set of   *)
(* them (LoadSplit, HeldSplit), and changes the envelope by the same.      *)
(***************************************************************************)
EXTENDS ReservationRuntime, CapacityEnvelopeProofs

\* The lifecycles the operations set, and which of them hold capacity.
LEMMA LifecycleNames ==
  /\ {"Committed", "PendingActivation", "Active", "PartiallyConsumed",
      "Consumed", "RevalidationRequired", "Released", "Expired", "Cancelled"}
       \subseteq Lifecycles
  /\ {"Committed", "PendingActivation", "Active", "PartiallyConsumed",
      "Consumed", "RevalidationRequired"} \subseteq CapacityHolding
  /\ {"Released", "Expired", "Cancelled"} \cap CapacityHolding = {}
  /\ Activatable \subseteq CapacityHolding
  /\ InUse \subseteq CapacityHolding
BY DEF Lifecycles, CapacityHolding, InUse, Activatable

\* Setting the lifecycle keeps a reservation a reservation, on its terms.
LEMMA LifecycleUpdate ==
  ASSUME NEW r \in Reservation, NEW l \in Lifecycles
  PROVE  LET x == [r EXCEPT !.lifecycle = l] IN
         /\ x \in Reservation
         /\ x.lifecycle = l
         /\ x.resource = r.resource /\ x.strength = r.strength
         /\ x.window = r.window /\ x.quantity = r.quantity
         /\ x.contributesEnvelope = r.contributesEnvelope
BY DEF Reservation

-----------------------------------------------------------------------------
(* Types.                                                                  *)

TypeInv == TypeOK /\ Anchored

USE RuntimeAssumption

\* The sums over the registry are integers.
LEMMA LoadType ==
  ASSUME TypeOK, NEW S, S \subseteq {id \in ReservationId : Exists(id)},
         NEW strength, NEW t
  PROVE  /\ [id \in 1..LastReservationId |-> Share(id, S, strength, t)]
              \in [1..LastReservationId -> Nat]
         /\ LoadAt(S, strength, t) \in Nat
<1> DEFINE f == [id \in 1..LastReservationId |-> Share(id, S, strength, t)]
<1>1. ASSUME NEW id \in 1..LastReservationId
      PROVE  Share(id, S, strength, t) \in Nat
  <2>1. CASE id \in S
    <3>1. reservations[id] \in Reservation
      BY <2>1 DEF TypeOK, Exists
    <3>2. reservations[id].quantity \in Nat
      BY <3>1 DEF Reservation
    <3> QED BY <3>2 DEF Share
  <2>2. CASE id \notin S
    BY <2>2 DEF Share
  <2> QED BY <2>1, <2>2
<1>2. f \in [1..LastReservationId -> Nat]
  BY <1>1
<1>3. SumTo(f, LastReservationId) \in Nat
  <2> HIDE DEF f
  <2> QED BY <1>2, SumNat
<1> QED BY <1>2, <1>3 DEF LoadAt

\* The held quantities are naturals.
LEMMA HeldType ==
  ASSUME TypeOK, NEW S, S \subseteq {h \in HoldId : holds[h] # None}, NEW t
  PROVE  /\ [h \in 1..LastHoldId |-> HoldShare(h, S, t)] \in [1..LastHoldId -> Nat]
         /\ HeldAt(S, t) \in Nat
<1> DEFINE f == [h \in 1..LastHoldId |-> HoldShare(h, S, t)]
<1>1. ASSUME NEW h \in 1..LastHoldId PROVE HoldShare(h, S, t) \in Nat
  <2>1. CASE h \in S
    <3>1. holds[h] \in Hold
      BY <2>1 DEF TypeOK
    <3>2. holds[h].quantity \in Nat
      BY <3>1 DEF Hold
    <3> QED BY <3>2 DEF HoldShare
  <2>2. CASE h \notin S
    BY <2>2 DEF HoldShare
  <2> QED BY <2>1, <2>2
<1>2. f \in [1..LastHoldId -> Nat]
  BY <1>1
<1>3. SumTo(f, LastHoldId) \in Nat
  <2> HIDE DEF f
  <2> QED BY <1>2, SumNat
<1> QED BY <1>2, <1>3 DEF HeldAt

\* x claims what r claims.
SameTerms(x, r) ==
  /\ x.resource = r.resource /\ x.strength = r.strength
  /\ x.window = r.window /\ x.quantity = r.quantity

\* AddAll changes the committed columns by the loads, and nothing else.
LEMMA AddAllLaw ==
  ASSUME TypeOK, NEW S, S \subseteq {id \in ReservationId : Exists(id)},
         NEW e \in Envelope, NEW sign \in {-1, 1}
  PROVE  LET x == AddAll(e, S, sign) IN
         /\ x \in Envelope
         /\ Span(x) = Span(e) /\ x.cap = e.cap /\ x.held = e.held
         /\ x.ratio = e.ratio
         /\ \A t \in Span(e) :
              /\ x.hard[t] = e.hard[t] + sign * LoadAt(S, "Hard", t)
              /\ x.soft[t] = e.soft[t] + sign * LoadAt(S, "Soft", t)
<1> DEFINE moved(f, strength) ==
             [t \in Time |-> IF t \in Span(e)
                             THEN f[t] + sign * LoadAt(S, strength, t) ELSE f[t]]
           x == AddAll(e, S, sign)
<1>1. \A strength, t : LoadAt(S, strength, t) \in Int
  BY LoadType
<1>2. \A strength : \A f \in [Time -> Int] : moved(f, strength) \in [Time -> Int]
  BY <1>1
<1>3. x = [e EXCEPT !.hard = moved(e.hard, "Hard"), !.soft = moved(e.soft, "Soft")]
  BY DEF AddAll
<1>4. e.hard \in [Time -> Int] /\ e.soft \in [Time -> Int] /\ Span(e) \subseteq Time
  BY DEF Envelope, Span
<1>5. moved(e.hard, "Hard") \in [Time -> Int] /\ moved(e.soft, "Soft") \in [Time -> Int]
  BY <1>2, <1>4
<1>6. /\ x \in Envelope
      /\ x.cap = e.cap /\ x.held = e.held /\ x.from = e.from
      /\ x.ratio = e.ratio
      /\ x.hard = moved(e.hard, "Hard") /\ x.soft = moved(e.soft, "Soft")
  <2> HIDE DEF moved, x
  <2> QED BY <1>3, <1>5 DEF Envelope
<1>7. Span(x) = Span(e)
  BY <1>6 DEF Span
<1>8. \A t \in Span(e) :
        /\ moved(e.hard, "Hard")[t] = e.hard[t] + sign * LoadAt(S, "Hard", t)
        /\ moved(e.soft, "Soft")[t] = e.soft[t] + sign * LoadAt(S, "Soft", t)
  BY <1>4
<1> QED BY <1>6, <1>7, <1>8

\* WithLifecycle changes lifecycles only: no terms, no flag.
LEMMA WithLifecycleLaw ==
  ASSUME TypeOK, NEW S, S \subseteq {id \in ReservationId : Exists(id)},
         NEW l \in Lifecycles
  PROVE  LET x == WithLifecycle(S, l) IN
         /\ x \in [ReservationId -> Reservation \cup {None}]
         /\ \A id \in ReservationId :
              /\ x[id] = None <=> reservations[id] = None
              /\ reservations[id] # None =>
                   /\ SameTerms(x[id], reservations[id])
                   /\ x[id].contributesEnvelope = reservations[id].contributesEnvelope
                   /\ x[id].lifecycle = IF id \in S THEN l
                                        ELSE reservations[id].lifecycle
<1> DEFINE x == WithLifecycle(S, l)
<1>1. ASSUME NEW id \in ReservationId
      PROVE  /\ x[id] \in Reservation \cup {None}
             /\ x[id] = None <=> reservations[id] = None
             /\ reservations[id] # None =>
                  /\ SameTerms(x[id], reservations[id])
                  /\ x[id].contributesEnvelope = reservations[id].contributesEnvelope
                  /\ x[id].lifecycle = IF id \in S THEN l
                                       ELSE reservations[id].lifecycle
  <2>1. CASE id \in S
    <3>1. reservations[id] \in Reservation /\ reservations[id] # None
      BY <2>1 DEF TypeOK, Exists
    <3>2. x[id] = [reservations[id] EXCEPT !.lifecycle = l]
      BY <2>1 DEF WithLifecycle
    <3>3. x[id] \in Reservation
      BY <3>1, <3>2, LifecycleUpdate
    <3>4. x[id] # None
      BY <3>3
    <3> QED BY <2>1, <3>1, <3>2, <3>3, <3>4, LifecycleUpdate DEF SameTerms
  <2>2. CASE id \notin S
    <3>1. x[id] = reservations[id]
      BY <2>2 DEF WithLifecycle
    <3> QED BY <2>2, <3>1 DEF TypeOK, SameTerms
  <2> QED BY <2>1, <2>2
<1>2. x = [id \in ReservationId |-> x[id]]
  BY DEF WithLifecycle
<1> QED BY <1>1, <1>2

-----------------------------------------------------------------------------
(* Each operation preserves TypeInv.                                       *)

\* Resource references stay good while resources stay known.
LEMMA AnchorsKept ==
  ASSUME TypeInv,
         \A r \in ResourceId : resources[r] # None => resources'[r] # None,
         \A r \in ResourceId : resources'[r] = None <=> envelopes'[r] = None,
         \A id \in ReservationId : reservations'[id] # None =>
           \/ reservations[id] # None /\ reservations'[id].resource = reservations[id].resource
           \/ reservations'[id].resource \in ResourceId /\ resources[reservations'[id].resource] # None,
         \A h \in HoldId : holds'[h] # None =>
           \/ holds[h] # None /\ holds'[h].resource = holds[h].resource
           \/ holds'[h].resource \in ResourceId /\ resources[holds'[h].resource] # None
  PROVE  Anchored'
<1>1. ASSUME NEW id \in ReservationId, reservations'[id] # None
      PROVE  resources'[reservations'[id].resource] # None
  <2>1. ASSUME reservations[id] # None
        PROVE  /\ reservations[id].resource \in ResourceId
               /\ resources[reservations[id].resource] # None
    <3>1. reservations[id] \in Reservation
      BY <2>1 DEF TypeInv, TypeOK
    <3>2. reservations[id].resource \in ResourceId
      BY <3>1 DEF Reservation
    <3> QED BY <2>1, <3>2 DEF TypeInv, Anchored, Exists, ResourceOf
  <2> QED BY <1>1, <2>1
<1>2. ASSUME NEW h \in HoldId, holds'[h] # None
      PROVE  resources'[holds'[h].resource] # None
  <2>1. ASSUME holds[h] # None
        PROVE  /\ holds[h].resource \in ResourceId
               /\ resources[holds[h].resource] # None
    <3>1. holds[h] \in Hold
      BY <2>1 DEF TypeInv, TypeOK
    <3>2. holds[h].resource \in ResourceId
      BY <3>1 DEF Hold
    <3> QED BY <2>1, <3>2 DEF TypeInv, Anchored
  <2> QED BY <1>2, <2>1
<1> QED BY <1>1, <1>2 DEF Anchored, Exists, ResourceOf

\* The types hold at first.
LEMMA TypeInit == Init => TypeInv
<1> SUFFICES ASSUME Init PROVE TypeInv
  OBVIOUS
<1>1. \A id \in ReservationId : <<>> \in Seq(Reservation)
  OBVIOUS
<1> QED BY <1>1 DEF Init, TypeInv, TypeOK, Anchored, Exists

\* setCoordinatorEpoch keeps the types.
LEMMA SetCoordinatorEpochTypes ==
  ASSUME TypeInv, NEW e \in 1..MaxAuthority, SetCoordinatorEpoch(e)
  PROVE  TypeInv'
<1>1. epoch' \in Nat /\ authority' \in Nat
  BY DEF SetCoordinatorEpoch, TypeInv, TypeOK
<1>2. UNCHANGED <<resources, envelopes, workerBoots, requestToReservation,
                  reservations, currentGen, history, holds, nextReservationId>>
  BY DEF SetCoordinatorEpoch
<1> QED BY <1>1, <1>2 DEF TypeInv, TypeOK, Anchored, Exists, ResourceOf

\* The fields of a publication.
LEMMA PublicationFields ==
  ASSUME NEW p \in Publications
  PROVE  /\ p \in Publication
         /\ p.id \in ResourceId /\ p.generation \in Nat /\ p.worker \in Worker
         /\ p.workerBoot \in Nat /\ p.resourceClass \in ResourceClass
         /\ p.totalCapacity \in Int /\ p.overbookRatio \in Nat
         /\ p.availableFrom \in Time
<1>1. p \in Publication
  OBVIOUS
<1> QED BY <1>1 DEF Publication

\* publishResource keeps the types: the envelope it installs is one.
LEMMA PublishResourceTypes ==
  ASSUME TypeInv, NEW p \in Publications, PublishResource(p)
  PROVE  TypeInv'
<1>0. TypeOK
  BY DEF TypeInv
<1>1. workerBoots' \in [Worker -> Nat]
  BY <1>0, PublicationFields DEF PublishResource, TypeOK
<1>2. UNCHANGED <<epoch, authority, requestToReservation, currentGen, history,
                  holds, nextReservationId>>
  BY DEF PublishResource
<1>3. CASE OldNews(p)
  <2>1. UNCHANGED <<resources, envelopes, reservations>>
    BY <1>3 DEF PublishResource
  <2> QED BY <1>1, <1>2, <2>1 DEF TypeInv, TypeOK, Anchored, Exists, ResourceOf
<1>4. CASE ~ OldNews(p)
  <2> DEFINE lost == {id \in Commitments(p.id) : ~reservations[id].contributesEnvelope}
             new  == NewEnvelope(p.availableFrom, p.overbookRatio,
                                 p.totalCapacity, p.unavailable)
             record == [generation |-> p.generation,
                        resourceClass |-> p.resourceClass,
                        totalCapacity |-> p.totalCapacity, owner |-> p.worker,
                        ownerBoot |-> p.workerBoot, available |-> TRUE]
             flagged == WithLifecycle(InUseOn(p.id), "RevalidationRequired")
  <2>1. Install(p)
    BY <1>4 DEF PublishResource
  <2>2. /\ resources' = [resources EXCEPT ![p.id] = record]
        /\ envelopes' = [envelopes EXCEPT ![p.id] = AddAll(new, lost, 1)]
        /\ reservations' = [id \in ReservationId |->
             IF id \in lost THEN [flagged[id] EXCEPT !.contributesEnvelope = TRUE]
             ELSE flagged[id]]
    BY <2>1 DEF Install
  <2>3. record \in Resource
    <3>1. p.totalCapacity \in Nat
      BY PublicationFields DEF PublishResource
    <3> QED BY <3>1, PublicationFields DEF Resource
  <2>4. new \in Envelope
    BY PublicationFields, NewEnvelopeLaw
  <2>5. lost \subseteq {id \in ReservationId : Exists(id)}
    BY DEF Commitments, HoldsCapacity
  <2>6. AddAll(new, lost, 1) \in Envelope
    <3> HIDE DEF new, lost
    <3> QED BY <1>0, <2>4, <2>5, AddAllLaw
  <2>7. InUseOn(p.id) \subseteq {id \in ReservationId : Exists(id)}
    BY DEF InUseOn, Commitments, HoldsCapacity
  <2>8. /\ flagged \in [ReservationId -> Reservation \cup {None}]
        /\ \A id \in ReservationId :
             /\ flagged[id] = None <=> reservations[id] = None
             /\ reservations[id] # None =>
                  flagged[id].resource = reservations[id].resource
    <3> HIDE DEF flagged
    <3>1. flagged = WithLifecycle(InUseOn(p.id), "RevalidationRequired")
      BY DEF flagged
    <3> QED BY <1>0, <2>7, <3>1, LifecycleNames, WithLifecycleLaw DEF SameTerms
  <2>9. ASSUME NEW id \in ReservationId
        PROVE  /\ reservations'[id] \in Reservation \cup {None}
               /\ reservations'[id] = None <=> reservations[id] = None
               /\ reservations[id] # None =>
                    reservations'[id].resource = reservations[id].resource
    <3>1. CASE id \in lost
      <4>1. flagged[id] \in Reservation
        BY <2>5, <2>8, <3>1 DEF Exists
      <4>2. reservations'[id] = [flagged[id] EXCEPT !.contributesEnvelope = TRUE]
        BY <2>2, <3>1
      <4>3. reservations'[id] \in Reservation
            /\ reservations'[id].resource = flagged[id].resource
        <5> HIDE DEF flagged
        <5> QED BY <4>1, <4>2 DEF Reservation
      <4> QED BY <2>5, <2>8, <3>1, <4>3 DEF Exists
    <3>2. CASE id \notin lost
      BY <2>2, <2>8, <3>2
    <3> QED BY <3>1, <3>2
  <2>10. /\ resources' \in [ResourceId -> Resource \cup {None}]
         /\ envelopes' \in [ResourceId -> Envelope \cup {None}]
         /\ reservations' \in [ReservationId -> Reservation \cup {None}]
    <3>1. reservations' = [id \in ReservationId |-> reservations'[id]]
      BY <2>2
    <3> HIDE DEF record, new, lost, flagged
    <3> QED BY <1>0, <2>2, <2>3, <2>6, <2>9, <3>1, PublicationFields DEF TypeOK
  <2>11. TypeOK'
    BY <1>0, <1>1, <1>2, <2>10 DEF TypeOK
  <2>12. \A r \in ResourceId :
           /\ resources[r] # None => resources'[r] # None
           /\ resources'[r] = None <=> envelopes'[r] = None
    <3> HIDE DEF record, new, lost
    <3>1. record # None /\ AddAll(new, lost, 1) # None
      BY <2>3, <2>6
    <3> QED BY <1>0, <2>2, <3>1, PublicationFields DEF TypeInv, TypeOK, Anchored
  <2>13. Anchored'
    BY <1>2, <2>9, <2>12, AnchorsKept
  <2> QED BY <2>11, <2>13 DEF TypeInv
<1> QED BY <1>3, <1>4

\* invalidateResource keeps the types.
LEMMA InvalidateResourceTypes ==
  ASSUME TypeInv, NEW r \in ResourceId, InvalidateResource(r)
  PROVE  TypeInv'
<1>0. TypeOK /\ Anchored
  BY DEF TypeInv
<1>1. UNCHANGED <<epoch, authority, envelopes, workerBoots,
                  requestToReservation, currentGen, history, holds,
                  nextReservationId>>
  BY DEF InvalidateResource
<1>2. Commitments(r) \subseteq {id \in ReservationId : Exists(id)}
  BY DEF Commitments, HoldsCapacity
<1>3. /\ reservations' \in [ReservationId -> Reservation \cup {None}]
      /\ \A id \in ReservationId : reservations'[id] # None =>
           /\ reservations[id] # None
           /\ reservations'[id].resource = reservations[id].resource
  <2>1. reservations' = WithLifecycle(Commitments(r), "RevalidationRequired")
    BY DEF InvalidateResource
  <2> DEFINE x == WithLifecycle(Commitments(r), "RevalidationRequired")
  <2>2. /\ x \in [ReservationId -> Reservation \cup {None}]
        /\ \A id \in ReservationId :
             /\ x[id] = None <=> reservations[id] = None
             /\ reservations[id] # None => SameTerms(x[id], reservations[id])
    BY <1>0, <1>2, LifecycleNames, WithLifecycleLaw
  <2> HIDE DEF x
  <2> QED BY <2>1, <2>2 DEF SameTerms, x
<1>4. /\ resources' \in [ResourceId -> Resource \cup {None}]
      /\ \A x \in ResourceId : resources'[x] = None <=> resources[x] = None
  <2>1. resources' = [resources EXCEPT ![r] = [resources[r] EXCEPT !.available = FALSE]]
        /\ resources[r] # None
    BY DEF InvalidateResource
  <2>2. resources[r] \in Resource
    BY <1>0, <2>1 DEF TypeOK
  <2>3. [resources[r] EXCEPT !.available = FALSE] \in Resource
    BY <2>2 DEF Resource
  <2> QED BY <1>0, <2>1, <2>3 DEF TypeOK
<1>5. TypeOK'
  BY <1>0, <1>1, <1>3, <1>4 DEF TypeOK
<1>6. Anchored'
  <2>1. \A x \in ResourceId : resources'[x] = None <=> envelopes'[x] = None
    BY <1>0, <1>1, <1>4 DEF Anchored
  <2> QED BY <1>1, <1>3, <1>4, <2>1, AnchorsKept
<1> QED BY <1>5, <1>6 DEF TypeInv

\* advanceResourceGeneration keeps the types.
LEMMA AdvanceResourceGenerationTypes ==
  ASSUME TypeInv, NEW r \in ResourceId, NEW g \in ResourceGenerations,
         NEW available \in BOOLEAN, AdvanceResourceGeneration(r, g, available)
  PROVE  TypeInv'
<1>0. TypeOK /\ Anchored /\ g \in Nat
  BY DEF TypeInv
<1>1. UNCHANGED <<epoch, authority, envelopes, workerBoots,
                  requestToReservation, currentGen, history, holds,
                  nextReservationId>>
  BY DEF AdvanceResourceGeneration
<1>2. InUseOn(r) \subseteq {id \in ReservationId : Exists(id)}
  BY DEF InUseOn, Commitments, HoldsCapacity
<1>3. /\ reservations' \in [ReservationId -> Reservation \cup {None}]
      /\ \A id \in ReservationId : reservations'[id] # None =>
           /\ reservations[id] # None
           /\ reservations'[id].resource = reservations[id].resource
  <2>1. reservations' = WithLifecycle(InUseOn(r), "RevalidationRequired")
    BY DEF AdvanceResourceGeneration
  <2> DEFINE x == WithLifecycle(InUseOn(r), "RevalidationRequired")
  <2>2. /\ x \in [ReservationId -> Reservation \cup {None}]
        /\ \A id \in ReservationId :
             /\ x[id] = None <=> reservations[id] = None
             /\ reservations[id] # None => SameTerms(x[id], reservations[id])
    BY <1>0, <1>2, LifecycleNames, WithLifecycleLaw
  <2> HIDE DEF x
  <2> QED BY <2>1, <2>2 DEF SameTerms, x
<1>4. /\ resources' \in [ResourceId -> Resource \cup {None}]
      /\ \A x \in ResourceId : resources'[x] = None <=> resources[x] = None
  <2> DEFINE record == [resources[r] EXCEPT !.generation = g, !.available = available]
  <2>1. resources' = [resources EXCEPT ![r] = record] /\ resources[r] # None
    BY DEF AdvanceResourceGeneration
  <2>2. resources[r] \in Resource
    BY <1>0, <2>1 DEF TypeOK
  <2>3. record \in Resource
    BY <1>0, <2>2 DEF Resource
  <2> HIDE DEF record
  <2> QED BY <1>0, <2>1, <2>3 DEF TypeOK
<1>5. TypeOK'
  BY <1>0, <1>1, <1>3, <1>4 DEF TypeOK
<1>6. Anchored'
  <2>1. \A x \in ResourceId : resources'[x] = None <=> envelopes'[x] = None
    BY <1>0, <1>1, <1>4 DEF Anchored
  <2> QED BY <1>1, <1>3, <1>4, <2>1, AnchorsKept
<1> QED BY <1>5, <1>6 DEF TypeInv

\* revalidateResource keeps the types.
LEMMA RevalidateResourceTypes ==
  ASSUME TypeInv, NEW p \in Publications, RevalidateResource(p)
  PROVE  TypeInv'
<1>0. TypeOK /\ Anchored
  BY DEF TypeInv
<1>1. UNCHANGED <<epoch, authority, envelopes, requestToReservation,
                  currentGen, history, holds, nextReservationId>>
  BY DEF RevalidateResource
<1>2. workerBoots' \in [Worker -> Nat]
  BY <1>0, PublicationFields DEF RevalidateResource, TypeOK
<1>3. /\ reservations' \in [ReservationId -> Reservation \cup {None}]
      /\ \A id \in ReservationId : reservations'[id] # None =>
           /\ reservations[id] # None
           /\ reservations'[id].resource = reservations[id].resource
  <2>1. reservations' = [id \in ReservationId |->
          IF id \in AwaitingRevalidation(p.id)
          THEN [reservations[id] EXCEPT !.lifecycle = "PendingActivation",
                   !.boundResourceGeneration = p.generation]
          ELSE reservations[id]]
    BY DEF RevalidateResource
  <2>2. ASSUME NEW id \in ReservationId
        PROVE  /\ reservations'[id] \in Reservation \cup {None}
               /\ reservations'[id] # None =>
                    /\ reservations[id] # None
                    /\ reservations'[id].resource = reservations[id].resource
    <3>1. CASE id \in AwaitingRevalidation(p.id)
      <4>1. reservations[id] \in Reservation /\ reservations[id] # None
        BY <1>0, <3>1 DEF AwaitingRevalidation, Commitments, HoldsCapacity, Exists, TypeOK
      <4>2. reservations'[id] = [reservations[id] EXCEPT
                !.lifecycle = "PendingActivation",
                !.boundResourceGeneration = p.generation]
        BY <2>1, <3>1
      <4>3. "PendingActivation" \in Lifecycles
        BY LifecycleNames
      <4> QED BY <4>1, <4>2, <4>3, PublicationFields DEF Reservation
    <3>2. CASE id \notin AwaitingRevalidation(p.id)
      BY <1>0, <2>1, <3>2 DEF TypeOK
    <3> QED BY <3>1, <3>2
  <2>3. reservations' = [id \in ReservationId |-> reservations'[id]]
    BY <2>1
  <2> QED BY <2>2, <2>3
<1>4. /\ resources' \in [ResourceId -> Resource \cup {None}]
      /\ \A x \in ResourceId : resources'[x] = None <=> resources[x] = None
  <2> DEFINE record == [resources[p.id] EXCEPT !.generation = p.generation,
                          !.owner = p.worker, !.ownerBoot = p.workerBoot,
                          !.available = TRUE]
  <2>1. resources' = [resources EXCEPT ![p.id] = record] /\ resources[p.id] # None
    BY DEF RevalidateResource
  <2>2. resources[p.id] \in Resource
    BY <1>0, <2>1, PublicationFields DEF TypeOK
  <2>3. record \in Resource
    BY <2>2, PublicationFields DEF Resource
  <2> HIDE DEF record
  <2> QED BY <1>0, <2>1, <2>3, PublicationFields DEF TypeOK
<1>5. TypeOK'
  BY <1>0, <1>1, <1>2, <1>3, <1>4 DEF TypeOK
<1>6. Anchored'
  <2>1. \A x \in ResourceId : resources'[x] = None <=> envelopes'[x] = None
    BY <1>0, <1>1, <1>4 DEF Anchored
  <2> QED BY <1>1, <1>3, <1>4, <2>1, AnchorsKept
<1> QED BY <1>5, <1>6 DEF TypeInv

\* The fields of a hold specification.
LEMMA SpecFields ==
  ASSUME NEW spec \in HoldSpec
  PROVE  /\ spec.holdId \in HoldId /\ spec.holdGeneration \in Nat
         /\ spec.quantity \in Int /\ spec.window \in Window
         /\ spec.commitAuthority \in BOOLEAN
<1>1. spec \in HoldSpec
  OBVIOUS
<1> QED BY <1>1 DEF HoldSpec

\* createHold keeps the types: a hold is on a published resource.
LEMMA CreateHoldTypes ==
  ASSUME TypeInv, NEW spec \in HoldSpec, NEW r \in ResourceId,
         NEW now \in HoldClock, CreateHold(spec, r, now)
  PROVE  TypeInv'
<1>0. TypeOK /\ Anchored /\ now \in Nat
  BY DEF TypeInv
<1>1. UNCHANGED <<epoch, authority, resources, workerBoots,
                  requestToReservation, reservations, currentGen, history,
                  nextReservationId>>
  BY DEF CreateHold
<1> DEFINE hold == [holdGeneration |-> spec.holdGeneration,
              quantity |-> spec.quantity, window |-> spec.window,
              commitAuthority |-> spec.commitAuthority, state |-> "Acquired",
              resource |-> r, expiry |-> now + HoldLease,
              appliedToEnvelope |-> TRUE]
<1>2. /\ holds' = [holds EXCEPT ![spec.holdId] = hold]
      /\ envelopes' = [envelopes EXCEPT ![r] =
                         AddHeld(envelopes[r], spec.window, spec.quantity)]
      /\ spec.quantity > 0
      /\ resources[r] # None
  BY DEF CreateHold, Holdable, Chosen, Matching
<1>3. hold \in Hold
  BY <1>0, <1>2, SpecFields DEF Hold, HoldStates
<1>4. envelopes[r] \in Envelope
  BY <1>0, <1>2 DEF Anchored, TypeOK
<1>5. AddHeld(envelopes[r], spec.window, spec.quantity) \in Envelope
  BY <1>4, SpecFields, AddHeldLaw
<1>6. TypeOK'
  <2> HIDE DEF hold
  <2> QED BY <1>0, <1>1, <1>2, <1>3, <1>5, SpecFields DEF TypeOK
<1>7. Anchored'
  <2>1. \A h \in HoldId : holds'[h] # None =>
          \/ holds[h] # None /\ holds'[h].resource = holds[h].resource
          \/ holds'[h].resource \in ResourceId /\ resources[holds'[h].resource] # None
    BY <1>0, <1>2, SpecFields DEF TypeOK
  <2>2. \A x \in ResourceId : resources'[x] = None <=> envelopes'[x] = None
    <3>1. AddHeld(envelopes[r], spec.window, spec.quantity) # None
      BY <1>5
    <3> QED BY <1>0, <1>1, <1>2, <3>1 DEF TypeOK, Anchored
  <2> QED BY <1>1, <2>1, <2>2, AnchorsKept
<1> QED BY <1>6, <1>7 DEF TypeInv

\* Giving a hold up changes its state and its flag only.
LEMMA GivenUpLaw ==
  ASSUME NEW hold \in Hold, NEW state \in HoldStates
  PROVE  LET x == GivenUp(hold, state) IN
         /\ x \in Hold
         /\ x.state = state /\ x.appliedToEnvelope = FALSE
         /\ x.resource = hold.resource /\ x.quantity = hold.quantity
         /\ x.window = hold.window
BY DEF GivenUp, Hold

\* Taking a hold out lowers the held column over its window, if applied.
LEMMA UnheldLaw ==
  ASSUME NEW e \in Envelope, NEW hold \in Hold
  PROVE  LET x == Unheld(e, hold) IN
         /\ x \in Envelope
         /\ Span(x) = Span(e) /\ x.cap = e.cap /\ x.hard = e.hard /\ x.soft = e.soft
         /\ x.ratio = e.ratio
         /\ \A t \in Span(e) :
              x.held[t] = IF hold.appliedToEnvelope /\ Covers(hold.window, t)
                          THEN e.held[t] - hold.quantity ELSE e.held[t]
<1>1. -hold.quantity \in Int /\ hold.quantity \in Int /\ hold.appliedToEnvelope \in BOOLEAN
  BY DEF Hold
<1>2. CASE hold.appliedToEnvelope
  <2> DEFINE x == AddHeld(e, hold.window, -hold.quantity)
  <2>1. Unheld(e, hold) = x
    BY <1>2 DEF Unheld
  <2>2. /\ x \in Envelope
        /\ Span(x) = Span(e) /\ x.cap = e.cap /\ x.hard = e.hard /\ x.soft = e.soft
        /\ x.ratio = e.ratio
        /\ \A t \in Time :
             x.held[t] = IF t \in CellsOf(e, hold.window)
                         THEN e.held[t] + (-hold.quantity) ELSE e.held[t]
    <3> HIDE DEF x
    <3>1. x = AddHeld(e, hold.window, -hold.quantity)
      BY DEF x
    <3> QED BY <1>1, <3>1, AddHeldLaw
  <2>3. e.held \in [Time -> Int]
    BY DEF Envelope
  <2>4. \A t \in Span(e) : t \in Time /\ (t \in CellsOf(e, hold.window) <=> Covers(hold.window, t))
    BY DEF CellsOf, Span
  <2> HIDE DEF x
  <2> QED BY <1>1, <1>2, <2>1, <2>2, <2>3, <2>4
<1>3. CASE ~ hold.appliedToEnvelope
  BY <1>3 DEF Unheld
<1> QED BY <1>1, <1>2, <1>3

\* releaseHold keeps the types.
LEMMA ReleaseHoldTypes ==
  ASSUME TypeInv, NEW h \in HoldId, NEW g, ReleaseHold(h, g)
  PROVE  TypeInv'
<1>0. TypeOK /\ Anchored
  BY DEF TypeInv
<1>1. UNCHANGED <<epoch, authority, resources, workerBoots,
                  requestToReservation, reservations, currentGen, history,
                  nextReservationId>>
  BY DEF ReleaseHold
<1> DEFINE r == holds[h].resource
<1>2. /\ holds' = [holds EXCEPT ![h] = GivenUp(holds[h], "Released")]
      /\ envelopes' = [envelopes EXCEPT ![r] = Unheld(envelopes[r], holds[h])]
      /\ holds[h] # None
  BY DEF ReleaseHold
<1>3. holds[h] \in Hold
  BY <1>0, <1>2 DEF TypeOK
<1>4. r \in ResourceId
  BY <1>3 DEF Hold
<1>5. envelopes[r] \in Envelope
  BY <1>0, <1>2, <1>4 DEF Anchored, TypeOK
<1>6. Unheld(envelopes[r], holds[h]) \in Envelope
  <2> HIDE DEF r
  <2> QED BY <1>3, <1>5, UnheldLaw
<1>7. GivenUp(holds[h], "Released") \in Hold /\ GivenUp(holds[h], "Released").resource = r
  <2>1. "Released" \in HoldStates
    BY DEF HoldStates
  <2> QED BY <1>3, <2>1, GivenUpLaw
<1> HIDE DEF r
<1>8. TypeOK'
  BY <1>0, <1>1, <1>2, <1>4, <1>6, <1>7 DEF TypeOK
<1>9. Anchored'
  <2>1. \A x \in HoldId : holds'[x] # None =>
          holds[x] # None /\ holds'[x].resource = holds[x].resource
    BY <1>0, <1>2, <1>7 DEF TypeOK, r
  <2>2. \A x \in ResourceId : resources'[x] = None <=> envelopes'[x] = None
    <3>1. Unheld(envelopes[r], holds[h]) # None /\ envelopes[r] # None
      BY <1>5, <1>6
    <3> QED BY <1>0, <1>1, <1>2, <1>4, <3>1 DEF TypeOK, Anchored
  <2> QED BY <1>1, <2>1, <2>2, AnchorsKept
<1> QED BY <1>8, <1>9 DEF TypeInv

\* expireHolds keeps the types.
LEMMA ExpireHoldsTypes ==
  ASSUME TypeInv, NEW now, ExpireHolds(now)
  PROVE  TypeInv'
<1>0. TypeOK /\ Anchored
  BY DEF TypeInv
<1>1. UNCHANGED <<epoch, authority, resources, workerBoots,
                  requestToReservation, reservations, currentGen, history,
                  nextReservationId>>
  BY DEF ExpireHolds
<1> DEFINE gone == ExpiredHolds(now)
           without(r) == {h \in gone : holds[h].resource = r /\ holds[h].appliedToEnvelope}
<1>2. ASSUME NEW h \in HoldId
      PROVE  /\ holds'[h] \in Hold \cup {None}
             /\ holds'[h] # None =>
                  holds[h] # None /\ holds'[h].resource = holds[h].resource
  <2>1. holds'[h] = IF h \in gone THEN GivenUp(holds[h], "Expired") ELSE holds[h]
    BY DEF ExpireHolds
  <2>2. CASE h \in gone
    <3>1. holds[h] \in Hold /\ holds[h] # None
      BY <1>0, <2>2 DEF ExpiredHolds, TypeOK
    <3>2. "Expired" \in HoldStates
      BY DEF HoldStates
    <3>3. GivenUp(holds[h], "Expired") \in Hold
          /\ GivenUp(holds[h], "Expired").resource = holds[h].resource
      BY <3>1, <3>2, GivenUpLaw
    <3> HIDE DEF gone
    <3> QED BY <2>1, <2>2, <3>1, <3>3
  <2>3. CASE h \notin gone
    BY <1>0, <2>1, <2>3 DEF TypeOK
  <2> QED BY <2>2, <2>3
<1>3. holds' \in [HoldId -> Hold \cup {None}]
  <2>1. holds' = [h \in HoldId |-> holds'[h]]
    BY DEF ExpireHolds
  <2> QED BY <1>2, <2>1
<1>4. ASSUME NEW r \in ResourceId
      PROVE  /\ envelopes'[r] \in Envelope \cup {None}
             /\ envelopes'[r] = None <=> envelopes[r] = None
  <2>1. envelopes'[r] =
          IF envelopes[r] = None THEN None
          ELSE [envelopes[r] EXCEPT !.held =
                  [t \in Time |-> IF t \in Span(envelopes[r])
                                  THEN envelopes[r].held[t] - HeldAt(without(r), t)
                                  ELSE envelopes[r].held[t]]]
    BY DEF ExpireHolds
  <2>2. CASE envelopes[r] = None
    BY <2>1, <2>2
  <2>3. CASE envelopes[r] # None
    <3>1. envelopes[r] \in Envelope
      BY <1>0, <2>3 DEF TypeOK
    <3>2. without(r) \subseteq {h \in HoldId : holds[h] # None}
      BY DEF ExpiredHolds
    <3>3. \A t \in Time : HeldAt(without(r), t) \in Nat
      <4> HIDE DEF without
      <4> QED BY <1>0, <3>2, HeldType
    <3> DEFINE col == [t \in Time |-> IF t \in Span(envelopes[r])
                                  THEN envelopes[r].held[t] - HeldAt(without(r), t)
                                  ELSE envelopes[r].held[t]]
    <3>4. envelopes[r].held \in [Time -> Int]
      BY <3>1 DEF Envelope
    <3>5. col \in [Time -> Int]
      BY <3>3, <3>4
    <3>6. envelopes'[r] = [envelopes[r] EXCEPT !.held = col]
      BY <2>1, <2>3
    <3> HIDE DEF col
    <3>7. envelopes'[r] \in Envelope
      BY <3>1, <3>5, <3>6 DEF Envelope
    <3> QED BY <2>3, <3>7
  <2> QED BY <2>2, <2>3
<1>5. envelopes' \in [ResourceId -> Envelope \cup {None}]
  <2>1. envelopes' = [r \in ResourceId |-> envelopes'[r]]
    BY DEF ExpireHolds
  <2> QED BY <1>4, <2>1
<1>6. TypeOK'
  BY <1>0, <1>1, <1>3, <1>5 DEF TypeOK
<1>7. Anchored'
  <2>1. \A x \in ResourceId : resources'[x] = None <=> envelopes'[x] = None
    BY <1>0, <1>1, <1>4 DEF Anchored
  <2> QED BY <1>1, <1>2, <2>1, AnchorsKept
<1> QED BY <1>6, <1>7 DEF TypeInv

\* The fields of a request.
LEMMA RequestFields ==
  ASSUME NEW q \in Request
  PROVE  /\ q.requestId \in RequestId /\ q.quantity \in Int
         /\ q.window \in Window /\ q.strength \in Strengths
         /\ q.owner \in Owner /\ q.policyGeneration \in Nat
         /\ q.transferAllowed \in BOOLEAN /\ q.partialAllowed \in BOOLEAN
         /\ q.minAcceptable \in Int
BY DEF Request

\* The reservation made from an admissible request.
LEMMA NewReservationLaw ==
  ASSUME NEW q \in Request, NEW r \in ResourceId, NEW g \in Nat \ {0},
         resources[r] \in Resource, q.quantity > 0
  PROVE  LET x == NewReservation(q, r, g) IN
         /\ x \in Reservation
         /\ x.resource = r /\ x.strength = q.strength /\ x.window = q.window
         /\ x.quantity = q.quantity /\ x.lifecycle = "Committed"
         /\ x.contributesEnvelope = TRUE /\ x.generation = g
<1>1. resources[r].generation \in Nat
  BY DEF Resource
<1>2. "Committed" \in Lifecycles
  BY LifecycleNames
<1>3. q.quantity \in Nat \ {0}
  BY RequestFields
<1> QED BY <1>1, <1>2, <1>3, RequestFields DEF NewReservation, Reservation

\* commit keeps the types, with a hold and without.
LEMMA CommitTypes ==
  ASSUME TypeInv, NEW q \in Request, NEW r \in ResourceId,
         NEW h \in HoldId \cup {None}, Commit(q, r, h)
  PROVE  TypeInv'
<1>0. TypeOK /\ Anchored
  BY DEF TypeInv
<1> DEFINE id == nextReservationId + 1
           loaded == AddCommitted(envelopes[r], q.strength, q.window, q.quantity)
           new == NewReservation(q, r, currentGen[id] + 1)
<1>1. UNCHANGED <<epoch, authority, resources, workerBoots, history>>
  BY DEF Commit
<1>2. /\ id \in ReservationId /\ id \in Nat \ {0}
  BY <1>0 DEF Commit, ReservationId, TypeOK
<1>3. resources[r] \in Resource /\ q.quantity > 0
  BY <1>0 DEF Commit, Admissible, ValidRequest, Chosen, Matching, TypeOK
<1>4. currentGen[id] + 1 \in Nat \ {0}
  <2>1. currentGen[id] \in Nat
    <3> HIDE DEF id
    <3> QED BY <1>0, <1>2 DEF TypeOK
  <2> HIDE DEF id
  <2> QED BY <2>1
<1>5. new \in Reservation /\ new.resource = r
  <2> DEFINE g == currentGen[id] + 1
  <2>1. g \in Nat \ {0}
    BY <1>4
  <2> HIDE DEF g
  <2>2. NewReservation(q, r, g) \in Reservation /\ NewReservation(q, r, g).resource = r
    BY <1>3, <2>1, NewReservationLaw
  <2> QED BY <2>2 DEF g
<1>6. envelopes[r] \in Envelope
  BY <1>0, <1>3 DEF Anchored, TypeOK
<1>7. loaded \in Envelope
  BY <1>6, RequestFields, AddCommittedLaw
<1>8. /\ nextReservationId' = id
      /\ currentGen' = [currentGen EXCEPT ![id] = currentGen[id] + 1]
      /\ reservations' = [reservations EXCEPT ![id] = new]
      /\ requestToReservation' =
           IF requestToReservation[q.requestId] = None
           THEN [requestToReservation EXCEPT ![q.requestId] = id]
           ELSE requestToReservation
  BY DEF Commit
<1>9. /\ holds' \in [HoldId -> Hold \cup {None}]
      /\ envelopes' \in [ResourceId -> Envelope \cup {None}]
      /\ \A x \in ResourceId : envelopes'[x] = None <=> envelopes[x] = None
      /\ \A x \in HoldId : holds'[x] # None =>
           holds[x] # None /\ holds'[x].resource = holds[x].resource
  <2> HIDE DEF id, new
  <2>1. CASE h = None
    <3>1. envelopes' = [envelopes EXCEPT ![r] = loaded] /\ holds' = holds
      BY <2>1 DEF Commit
    <3> HIDE DEF loaded
    <3> QED BY <1>0, <1>6, <1>7, <3>1 DEF TypeOK
  <2>2. CASE h # None
    <3>1. /\ envelopes' = [envelopes EXCEPT ![r] =
               AddHeld(loaded, holds[h].window, -holds[h].quantity)]
          /\ holds' = [holds EXCEPT ![h] = GivenUp(holds[h], "Committed")]
          /\ holds[h] # None /\ h \in HoldId
      BY <2>2 DEF Commit, Redeemable
    <3>2. holds[h] \in Hold
      BY <1>0, <3>1 DEF TypeOK
    <3>3. GivenUp(holds[h], "Committed") \in Hold
          /\ GivenUp(holds[h], "Committed").resource = holds[h].resource
      <4>1. "Committed" \in HoldStates
        BY DEF HoldStates
      <4> QED BY <3>2, <4>1, GivenUpLaw
    <3>4. -holds[h].quantity \in Int
      BY <3>2 DEF Hold
    <3>5. AddHeld(loaded, holds[h].window, -holds[h].quantity) \in Envelope
      <4> HIDE DEF loaded
      <4> QED BY <1>7, <3>4, AddHeldLaw
    <3> HIDE DEF loaded
    <3> QED BY <1>0, <1>6, <3>1, <3>3, <3>5 DEF TypeOK
  <2> QED BY <2>1, <2>2
<1> HIDE DEF id, loaded, new
<1>10. TypeOK'
  BY <1>0, <1>1, <1>2, <1>4, <1>5, <1>8, <1>9, RequestFields DEF TypeOK
<1>11. Anchored'
  <2>1. \A x \in ReservationId : reservations'[x] # None =>
          \/ reservations[x] # None /\ reservations'[x].resource = reservations[x].resource
          \/ reservations'[x].resource \in ResourceId
             /\ resources[reservations'[x].resource] # None
    <3>1. resources[r] # None
      BY <1>3
    <3> QED BY <1>0, <1>2, <1>5, <1>8, <3>1 DEF TypeOK
  <2>2. \A x \in ResourceId : resources'[x] = None <=> envelopes'[x] = None
    BY <1>0, <1>1, <1>9 DEF Anchored
  <2> QED BY <1>1, <1>9, <2>1, <2>2, AnchorsKept
<1> QED BY <1>10, <1>11 DEF TypeInv

\* An operation that rewrites one reservation in place, on the same resource.
LEMMA OneReservation ==
  ASSUME TypeInv, NEW id \in ReservationId, Exists(id), NEW x \in Reservation,
         x.resource = reservations[id].resource,
         reservations' = [reservations EXCEPT ![id] = x],
         \/ envelopes' = envelopes
         \/ \E e \in Envelope :
              envelopes' = [envelopes EXCEPT ![reservations[id].resource] = e],
         UNCHANGED <<epoch, authority, resources, workerBoots,
                     requestToReservation, holds, nextReservationId>>,
         \/ UNCHANGED <<currentGen, history>>
         \/ /\ currentGen' = [currentGen EXCEPT ![id] = currentGen[id] + 1]
            /\ history' \in [ReservationId -> Seq(Reservation)]
  PROVE  TypeInv'
<1>0. TypeOK /\ Anchored
  BY DEF TypeInv
<1>1. reservations[id] \in Reservation /\ reservations[id] # None
  BY <1>0 DEF TypeOK, Exists
<1>2. reservations[id].resource \in ResourceId
  BY <1>1 DEF Reservation
<1>3. envelopes[reservations[id].resource] # None
  BY <1>0, <1>2 DEF Anchored, ResourceOf
<1>4. /\ envelopes' \in [ResourceId -> Envelope \cup {None}]
      /\ \A r \in ResourceId : envelopes'[r] = None <=> envelopes[r] = None
  <2>1. CASE envelopes' = envelopes
    BY <1>0, <2>1 DEF TypeOK
  <2>2. CASE \E e \in Envelope :
               envelopes' = [envelopes EXCEPT ![reservations[id].resource] = e]
    <3>1. PICK e \in Envelope :
               envelopes' = [envelopes EXCEPT ![reservations[id].resource] = e]
      BY <2>2
    <3>2. e # None
      OBVIOUS
    <3> QED BY <1>0, <1>2, <1>3, <3>1, <3>2 DEF TypeOK
  <2> QED BY <2>1, <2>2
<1>5. reservations' \in [ReservationId -> Reservation \cup {None}]
  BY <1>0 DEF TypeOK
<1>6. currentGen' \in [ReservationId -> Nat] /\ history' \in [ReservationId -> Seq(Reservation)]
  BY <1>0 DEF TypeOK
<1>7. TypeOK'
  BY <1>0, <1>4, <1>5, <1>6 DEF TypeOK
<1>8. Anchored'
  <2>1. \A y \in ReservationId : reservations'[y] # None =>
          reservations[y] # None /\ reservations'[y].resource = reservations[y].resource
    BY <1>0, <1>1 DEF TypeOK
  <2>2. \A r \in ResourceId : resources'[r] = None <=> envelopes'[r] = None
    BY <1>0, <1>4 DEF Anchored
  <2> QED BY <2>1, <2>2, AnchorsKept
<1> QED BY <1>7, <1>8 DEF TypeInv

\* A reservation that exists is typed and anchored.
LEMMA CurrentReservation ==
  ASSUME TypeInv, NEW id, Exists(id)
  PROVE  /\ id \in ReservationId /\ reservations[id] \in Reservation
         /\ reservations[id].resource \in ResourceId
         /\ envelopes[reservations[id].resource] \in Envelope
         /\ reservations[id].quantity \in Nat \ {0}
         /\ reservations[id].consumed \in Nat
<1>1. id \in ReservationId /\ reservations[id] \in Reservation
  BY DEF TypeInv, TypeOK, Exists
<1>2. reservations[id].resource \in ResourceId
  BY <1>1 DEF Reservation
<1>3. envelopes[reservations[id].resource] # None
  BY <1>1, <1>2 DEF TypeInv, Anchored, ResourceOf
<1>4. envelopes[reservations[id].resource] \in Envelope
  BY <1>2, <1>3 DEF TypeInv, TypeOK
<1> QED BY <1>1, <1>2, <1>4 DEF Reservation

\* The generation of activation, consumption or release evidence.
LEMMA EvidenceFields ==
  ASSUME NEW ev \in Evidence PROVE ev.generation \in Nat
BY DEF Evidence

\* activate on stale evidence keeps the types.
LEMMA ActivateStaleTypes ==
  ASSUME TypeInv, NEW id \in ReservationId, NEW g, ActivateStale(id, g)
  PROVE  TypeInv'
<1> DEFINE x == [reservations[id] EXCEPT !.lifecycle = "RevalidationRequired"]
<1>1. Exists(id) /\ reservations' = [reservations EXCEPT ![id] = x]
  BY DEF ActivateStale, Current
<1>2. x \in Reservation /\ x.resource = reservations[id].resource
  BY <1>1, CurrentReservation, LifecycleNames, LifecycleUpdate
<1>3. UNCHANGED <<epoch, authority, resources, envelopes, workerBoots,
                  requestToReservation, currentGen, history, holds,
                  nextReservationId>>
  BY DEF ActivateStale, OnlyReservationsChange
<1> HIDE DEF x
<1> QED BY <1>1, <1>2, <1>3, OneReservation

\* activate keeps the types.
LEMMA ActivateTypes ==
  ASSUME TypeInv, NEW id \in ReservationId, NEW g, NEW ev \in Evidence, NEW at,
         Activate(id, g, ev, at)
  PROVE  TypeInv'
<1> DEFINE x == [reservations[id] EXCEPT !.lifecycle = "Active",
                                         !.activationGeneration = ev.generation]
<1>1. Exists(id) /\ reservations' = [reservations EXCEPT ![id] = x]
  BY DEF Activate, Current
<1>2. x \in Reservation /\ x.resource = reservations[id].resource
  <2>1. "Active" \in Lifecycles /\ reservations[id] \in Reservation
    BY <1>1, CurrentReservation, LifecycleNames
  <2> QED BY <2>1, EvidenceFields DEF Reservation
<1>3. UNCHANGED <<epoch, authority, resources, envelopes, workerBoots,
                  requestToReservation, currentGen, history, holds,
                  nextReservationId>>
  BY DEF Activate, OnlyReservationsChange
<1> HIDE DEF x
<1> QED BY <1>1, <1>2, <1>3, OneReservation

\* consume keeps the types.
LEMMA ConsumeTypes ==
  ASSUME TypeInv, NEW id \in ReservationId, NEW g, NEW amount \in ConsumeAmounts,
         NEW ev \in Evidence, Consume(id, g, amount, ev)
  PROVE  TypeInv'
<1> DEFINE r == reservations[id]
           l == IF r.consumed + amount = r.quantity THEN "Consumed" ELSE "PartiallyConsumed"
           x == [r EXCEPT !.consumed = r.consumed + amount,
                          !.consumptionGeneration = ev.generation,
                          !.lifecycle = l]
<1>1. Exists(id) /\ reservations' = [reservations EXCEPT ![id] = x] /\ amount > 0
  BY DEF Consume, Current
<1>2. x \in Reservation /\ x.resource = reservations[id].resource
  <2>1. l \in Lifecycles /\ r \in Reservation /\ r.consumed \in Nat
    BY <1>1, CurrentReservation, LifecycleNames
  <2>2. r.consumed + amount \in Nat
    BY <1>1, <2>1
  <2> DEFINE c == r.consumed + amount
             k == ev.generation
  <2>3. c \in Nat /\ k \in Nat
    BY <2>2, EvidenceFields
  <2> HIDE DEF l, r, c, k
  <2>4. LET y == [r EXCEPT !.consumed = c, !.consumptionGeneration = k,
                           !.lifecycle = l]
        IN  y \in Reservation /\ y.resource = r.resource
    BY <2>1, <2>3 DEF Reservation
  <2> QED BY <2>4 DEF r, c, k, l
<1>3. UNCHANGED <<epoch, authority, resources, envelopes, workerBoots,
                  requestToReservation, currentGen, history, holds,
                  nextReservationId>>
  BY DEF Consume, OnlyReservationsChange
<1> HIDE DEF x
<1> QED BY <1>1, <1>2, <1>3, OneReservation


\* Withdrawing takes the quantity out of the column of its strength, over the
\* window, when the reservation is applied.
LEMMA WithdrawLaw ==
  ASSUME NEW e \in Envelope, NEW r \in Reservation
  PROVE  LET x == Withdraw(e, r) IN
         /\ x \in Envelope
         /\ Span(x) = Span(e) /\ x.cap = e.cap /\ x.held = e.held
         /\ x.ratio = e.ratio
         /\ \A t \in Span(e) :
              LET part == IF r.contributesEnvelope /\ Covers(r.window, t)
                          THEN r.quantity ELSE 0
              IN  /\ x.hard[t] = e.hard[t] -
                       (IF r.strength = "Hard" THEN part ELSE 0)
                  /\ x.soft[t] = e.soft[t] -
                       (IF r.strength # "Hard" THEN part ELSE 0)
<1>1. /\ -r.quantity \in Int /\ r.quantity \in Int
      /\ r.contributesEnvelope \in BOOLEAN
  BY DEF Reservation
<1>2. /\ e.hard \in [Time -> Int] /\ e.soft \in [Time -> Int]
      /\ \A t \in Span(e) : t \in Time
      /\ \A t \in Span(e) : t \in CellsOf(e, r.window) <=> Covers(r.window, t)
  BY DEF Envelope, CellsOf, Span
<1>3. CASE r.contributesEnvelope
  <2> DEFINE x == AddCommitted(e, r.strength, r.window, -r.quantity)
  <2>1. Withdraw(e, r) = x
    BY <1>3 DEF Withdraw
  <2>2. /\ x \in Envelope
        /\ Span(x) = Span(e) /\ x.cap = e.cap /\ x.held = e.held
        /\ x.ratio = e.ratio
        /\ \A t \in Time :
             /\ x.hard[t] = IF r.strength = "Hard" /\ t \in CellsOf(e, r.window)
                            THEN e.hard[t] + (-r.quantity) ELSE e.hard[t]
             /\ x.soft[t] = IF r.strength # "Hard" /\ t \in CellsOf(e, r.window)
                            THEN e.soft[t] + (-r.quantity) ELSE e.soft[t]
    <3> HIDE DEF x
    <3>1. x = AddCommitted(e, r.strength, r.window, -r.quantity)
      BY DEF x
    <3> QED BY <1>1, <3>1, AddCommittedLaw
  <2> HIDE DEF x
  <2> QED BY <1>1, <1>2, <1>3, <2>1, <2>2
<1>4. CASE ~ r.contributesEnvelope
  <2>1. Withdraw(e, r) = e
    BY <1>4 DEF Withdraw
  <2> QED BY <1>2, <1>4, <2>1
<1> QED BY <1>1, <1>3, <1>4

\* Disengaging keeps the terms and takes the reservation out of its envelope.
LEMMA DisengageLaw ==
  ASSUME NEW r \in Reservation, NEW l \in Lifecycles
  PROVE  LET x == Disengage(r, l) IN
         /\ x \in Reservation
         /\ x.lifecycle = l /\ x.contributesEnvelope = FALSE
         /\ SameTerms(x, r)
BY DEF Disengage, Reservation, SameTerms

\* Release keeps the types.
LEMMA ReleaseTypes ==
  ASSUME TypeInv, NEW id \in ReservationId, NEW g, NEW ev \in Evidence,
         Release(id, g, ev)
  PROVE  TypeInv'
<1> DEFINE r == reservations[id]
           x == [Disengage(r, "Released") EXCEPT !.releaseGeneration = ev.generation]
           e == Withdraw(envelopes[r.resource], r)
<1>1. /\ Exists(id) /\ reservations' = [reservations EXCEPT ![id] = x]
      /\ envelopes' = [envelopes EXCEPT ![r.resource] = e]
  BY DEF Release, Current, EnvelopesWithout
<1>2. e \in Envelope
  BY <1>1, CurrentReservation, WithdrawLaw
<1>3. x \in Reservation /\ x.resource = r.resource
  <2> DEFINE d == Disengage(r, "Released")
  <2>1. d \in Reservation /\ d.resource = r.resource
    BY <1>1, CurrentReservation, LifecycleNames, DisengageLaw DEF SameTerms
  <2>2. x = [d EXCEPT !.releaseGeneration = ev.generation]
    OBVIOUS
  <2> HIDE DEF d, x, r
  <2> QED BY <2>1, <2>2, EvidenceFields DEF Reservation
<1>4. UNCHANGED <<epoch, authority, resources, workerBoots,
                  requestToReservation, currentGen, history, holds,
                  nextReservationId>>
  BY DEF Release
<1> HIDE DEF x, e
<1> QED BY <1>1, <1>2, <1>3, <1>4, OneReservation

\* Cancel keeps the types.
LEMMA CancelTypes ==
  ASSUME TypeInv, NEW id \in ReservationId, NEW g, Cancel(id, g)
  PROVE  TypeInv'
<1> DEFINE r == reservations[id]
           x == Disengage(r, "Cancelled")
           e == Withdraw(envelopes[r.resource], r)
<1>1. /\ Exists(id) /\ reservations' = [reservations EXCEPT ![id] = x]
      /\ envelopes' = [envelopes EXCEPT ![r.resource] = e]
  BY DEF Cancel, Current, EnvelopesWithout
<1>2. e \in Envelope
  BY <1>1, CurrentReservation, WithdrawLaw
<1>3. x \in Reservation /\ x.resource = r.resource
  BY <1>1, CurrentReservation, LifecycleNames, DisengageLaw DEF SameTerms
<1>4. UNCHANGED <<epoch, authority, resources, workerBoots,
                  requestToReservation, currentGen, history, holds,
                  nextReservationId>>
  BY DEF Cancel
<1> HIDE DEF x, e
<1> QED BY <1>1, <1>2, <1>3, <1>4, OneReservation

\* ExpireDue keeps the types.
LEMMA ExpireDueTypes ==
  ASSUME TypeInv, NEW now, ExpireDue(now)
  PROVE  TypeInv'
<1>0. TypeOK /\ Anchored
  BY DEF TypeInv
<1>1. UNCHANGED <<epoch, authority, resources, workerBoots,
                  requestToReservation, currentGen, history, holds,
                  nextReservationId>>
  BY DEF ExpireDue
<1> DEFINE due == Due(now)
           leaving(r) == {id \in due : /\ reservations[id].resource = r
                                       /\ reservations[id].contributesEnvelope}
<1>2. due \subseteq {id \in ReservationId : Exists(id)}
  BY DEF Due, HoldsCapacity
<1>3. ASSUME NEW id \in ReservationId
      PROVE  /\ reservations'[id] \in Reservation \cup {None}
             /\ reservations'[id] # None =>
                  /\ reservations[id] # None
                  /\ reservations'[id].resource = reservations[id].resource
  <2>1. reservations'[id] = IF id \in due
                            THEN Disengage(reservations[id], "Expired")
                            ELSE reservations[id]
    BY DEF ExpireDue
  <2>2. CASE id \in due
    <3>1. reservations[id] \in Reservation /\ reservations[id] # None
      BY <1>0, <1>2, <2>2 DEF TypeOK, Exists
    <3>2. /\ Disengage(reservations[id], "Expired") \in Reservation
          /\ Disengage(reservations[id], "Expired").resource
               = reservations[id].resource
      BY <3>1, LifecycleNames, DisengageLaw DEF SameTerms
    <3> HIDE DEF due
    <3> QED BY <2>1, <2>2, <3>1, <3>2
  <2>3. CASE id \notin due
    BY <1>0, <2>1, <2>3 DEF TypeOK
  <2> QED BY <2>2, <2>3
<1>4. reservations' \in [ReservationId -> Reservation \cup {None}]
  <2>1. reservations' = [id \in ReservationId |-> reservations'[id]]
    BY DEF ExpireDue
  <2> QED BY <1>3, <2>1
<1>5. ASSUME NEW r \in ResourceId
      PROVE  /\ envelopes'[r] \in Envelope \cup {None}
             /\ envelopes'[r] = None <=> envelopes[r] = None
  <2>1. envelopes'[r] = IF envelopes[r] = None THEN None
                        ELSE AddAll(envelopes[r], leaving(r), -1)
    BY DEF ExpireDue
  <2>2. CASE envelopes[r] = None
    BY <2>1, <2>2
  <2>3. CASE envelopes[r] # None
    <3>1. envelopes[r] \in Envelope
      BY <1>0, <2>3 DEF TypeOK
    <3>2. leaving(r) \subseteq {id \in ReservationId : Exists(id)}
      BY <1>2
    <3>3. AddAll(envelopes[r], leaving(r), -1) \in Envelope
      <4> HIDE DEF leaving
      <4> QED BY <1>0, <3>1, <3>2, AddAllLaw
    <3> HIDE DEF leaving
    <3> QED BY <2>1, <2>3, <3>3
  <2> QED BY <2>2, <2>3
<1>6. envelopes' \in [ResourceId -> Envelope \cup {None}]
  <2>1. envelopes' = [r \in ResourceId |-> envelopes'[r]]
    BY DEF ExpireDue
  <2> QED BY <1>5, <2>1
<1>7. TypeOK'
  BY <1>0, <1>1, <1>4, <1>6 DEF TypeOK
<1>8. Anchored'
  <2>1. \A x \in ResourceId : resources'[x] = None <=> envelopes'[x] = None
    BY <1>0, <1>1, <1>5 DEF Anchored
  <2> QED BY <1>1, <1>3, <2>1, AnchorsKept
<1> QED BY <1>7, <1>8 DEF TypeInv


\* The archive of a reservation is a sequence of reservations.
LEMMA ArchiveType ==
  ASSUME TypeInv, NEW id, Exists(id)
  PROVE  Archive(id) \in Seq(Reservation)
<1> DEFINE last == [reservations[id] EXCEPT !.contributesEnvelope = FALSE]
           longer == Append(history[id], last)
<1>1. reservations[id] \in Reservation /\ id \in ReservationId
  BY CurrentReservation
<1>2. last \in Reservation
  BY <1>1 DEF Reservation
<1>3. history[id] \in Seq(Reservation)
  BY <1>1 DEF TypeInv, TypeOK
<1>4. Archive(id) = IF Len(longer) > MaxHistory THEN Tail(longer) ELSE longer
  BY DEF Archive
<1> HIDE DEF last
<1>5. longer \in Seq(Reservation) /\ longer # <<>>
  BY <1>2, <1>3
<1> HIDE DEF longer
<1> QED BY <1>4, <1>5

\* Superseding keeps the types, given the envelopes do.
LEMMA SupersedeTypes ==
  ASSUME TypeInv, NEW id \in ReservationId, Exists(id), NEW r \in Reservation,
         r.resource = reservations[id].resource, Supersede(id, r),
         OnlyGenerationsChange,
         \/ envelopes' = envelopes
         \/ \E e \in Envelope :
              envelopes' = [envelopes EXCEPT ![reservations[id].resource] = e]
  PROVE  TypeInv'
<1> DEFINE x == [r EXCEPT !.generation = currentGen[id] + 1,
                          !.lifecycle = "Committed",
                          !.activationGeneration = 0]
<1>1. /\ reservations' = [reservations EXCEPT ![id] = x]
      /\ currentGen' = [currentGen EXCEPT ![id] = currentGen[id] + 1]
      /\ history' = [history EXCEPT ![id] = Archive(id)]
  BY DEF Supersede
<1>2. currentGen[id] + 1 \in Nat \ {0}
  BY DEF TypeInv, TypeOK
<1>3. x \in Reservation /\ x.resource = reservations[id].resource
  <2>1. "Committed" \in Lifecycles
    BY LifecycleNames
  <2> QED BY <1>2, <2>1 DEF Reservation
<1>4. history' \in [ReservationId -> Seq(Reservation)]
  BY <1>1, ArchiveType DEF TypeInv, TypeOK
<1>5. UNCHANGED <<epoch, authority, resources, workerBoots,
                  requestToReservation, holds, nextReservationId>>
  BY DEF OnlyGenerationsChange
<1> HIDE DEF x
<1> QED BY <1>1, <1>3, <1>4, <1>5, OneReservation

\* Resize and renew keep the types, applied or refused.
LEMMA ModifyTypes ==
  ASSUME TypeInv, NEW id \in ReservationId, Exists(id), NEW r \in Reservation,
         r.resource = reservations[id].resource, NEW w, Modify(id, r, w),
         OnlyGenerationsChange
  PROVE  TypeInv'
<1> DEFINE old  == reservations[id]
           home == old.resource
           bare == Withdraw(envelopes[home], old)
           back == AddCommitted(bare, old.strength, old.window, old.quantity)
<1>1. bare \in Envelope
  BY CurrentReservation, WithdrawLaw
<1>2. CASE Headroom(bare, old.strength, w) < r.quantity
  <2> DEFINE x == [old EXCEPT !.contributesEnvelope = TRUE]
  <2>1. /\ envelopes' = [envelopes EXCEPT ![home] = back]
        /\ reservations' = [reservations EXCEPT ![id] = x]
        /\ UNCHANGED <<currentGen, history>>
    BY <1>2 DEF Modify
  <2>2. back \in Envelope
    <3>1. old.quantity \in Int
      BY CurrentReservation
    <3> HIDE DEF bare
    <3> QED BY <1>1, <3>1, AddCommittedLaw
  <2>3. x \in Reservation /\ x.resource = home
    <3>1. old \in Reservation
      BY CurrentReservation
    <3> QED BY <3>1 DEF Reservation
  <2>4. UNCHANGED <<epoch, authority, resources, workerBoots,
                    requestToReservation, holds, nextReservationId>>
    BY DEF OnlyGenerationsChange
  <2> HIDE DEF x, back
  <2> QED BY <2>1, <2>2, <2>3, <2>4, OneReservation
<1>3. CASE ~ (Headroom(bare, old.strength, w) < r.quantity)
  <2> DEFINE x == [r EXCEPT !.contributesEnvelope = TRUE]
  <2>1. envelopes' = [envelopes EXCEPT ![home] = bare] /\ Supersede(id, x)
    BY <1>3 DEF Modify
  <2>2. x \in Reservation /\ x.resource = r.resource
    BY DEF Reservation
  <2> HIDE DEF x, bare
  <2> QED BY <1>1, <2>1, <2>2, SupersedeTypes
<1> QED BY <1>2, <1>3

\* Resize keeps the types.
LEMMA ResizeTypes ==
  ASSUME TypeInv, NEW id \in ReservationId, NEW g,
         NEW quantity \in NewQuantities, NEW policy \in PolicyGenerations,
         Resize(id, g, quantity, policy)
  PROVE  TypeInv'
<1> DEFINE r == [reservations[id] EXCEPT !.quantity = quantity,
                                         !.policyGeneration = policy,
                                         !.consumed = 0]
<1>1. /\ Exists(id) /\ quantity > 0 /\ OnlyGenerationsChange
      /\ Modify(id, r, reservations[id].window)
  BY DEF Resize, Current
<1>2. r \in Reservation /\ r.resource = reservations[id].resource
  <2>1. reservations[id] \in Reservation
    BY <1>1, CurrentReservation
  <2>2. quantity \in Nat \ {0} /\ policy \in Nat
    BY <1>1
  <2> QED BY <2>1, <2>2 DEF Reservation
<1> HIDE DEF r
<1> QED BY <1>1, <1>2, ModifyTypes

\* Renew keeps the types.
LEMMA RenewTypes ==
  ASSUME TypeInv, NEW id \in ReservationId, NEW g, NEW w \in NewWindows,
         NEW policy \in PolicyGenerations, Renew(id, g, w, policy)
  PROVE  TypeInv'
<1> DEFINE r == [reservations[id] EXCEPT !.window = w,
                                         !.policyGeneration = policy]
<1>1. Exists(id) /\ OnlyGenerationsChange /\ Modify(id, r, w)
  BY DEF Renew, Current
<1>2. r \in Reservation /\ r.resource = reservations[id].resource
  <2>1. reservations[id] \in Reservation
    BY <1>1, CurrentReservation
  <2>2. w \in Window /\ policy \in Nat
    OBVIOUS
  <2> QED BY <2>1, <2>2 DEF Reservation
<1> HIDE DEF r
<1> QED BY <1>1, <1>2, ModifyTypes

\* Transfer keeps the types.
LEMMA TransferTypes ==
  ASSUME TypeInv, NEW id \in ReservationId, NEW g, NEW owner \in NewOwners,
         NEW ev \in Evidence, Transfer(id, g, owner, ev)
  PROVE  TypeInv'
<1> DEFINE r == [reservations[id] EXCEPT !.owner = owner]
<1>1. /\ Exists(id) /\ OnlyGenerationsChange /\ Supersede(id, r)
      /\ envelopes' = envelopes
  BY DEF Transfer, Current
<1>2. r \in Reservation /\ r.resource = reservations[id].resource
  <2>1. reservations[id] \in Reservation
    BY <1>1, CurrentReservation
  <2>2. owner \in Owner
    OBVIOUS
  <2> QED BY <2>1, <2>2 DEF Reservation
<1> HIDE DEF r
<1> QED BY <1>1, <1>2, SupersedeTypes

\* A stuttering step keeps everything.
LEMMA StutterTypes == TypeInv /\ UNCHANGED vars => TypeInv'
BY DEF vars, TypeInv, TypeOK, Anchored, Exists, ResourceOf

\* Every operation keeps the types, whoever calls it.
LEMMA NextTypes == TypeInv /\ [Next]_vars => TypeInv'
<1> SUFFICES ASSUME TypeInv, Next PROVE TypeInv'
  BY StutterTypes
<1>1. CASE Everyday
  BY <1>1, SetCoordinatorEpochTypes, RevalidateResourceTypes,
     InvalidateResourceTypes, AdvanceResourceGenerationTypes,
     ReleaseHoldTypes, ExpireHoldsTypes, ActivateTypes, ConsumeTypes,
     ReleaseTypes, CancelTypes, ExpireDueTypes DEF Everyday
<1>2. CASE ~Everyday
  <2>1. HoldSpecs \subseteq HoldSpec /\ Requests \subseteq Request
    OBVIOUS
  <2> QED BY <1>2, <2>1, PublishResourceTypes, CreateHoldTypes, CommitTypes,
             ActivateStaleTypes, ResizeTypes, RenewTypes, TransferTypes
          DEF Next
<1> QED BY <1>1, <1>2

\* Every variable keeps its type and every reservation, hold and envelope its
\* resource, under any caller: no operation stores a reservation or a hold
\* against a resource that was never published.
THEOREM Typing == Spec => []TypeOK
<1>1. TypeInv => TypeOK
  BY DEF TypeInv
<1> QED BY TypeInit, NextTypes, <1>1, PTL DEF Spec

\* The disciplined callers are callers.
LEMMA DisciplinedIsNext == DisciplinedNext => Next
BY DEF DisciplinedNext, Next

-----------------------------------------------------------------------------
(* Accounting.                                                             *)

USE RuntimeAssumption

\* What the reservation id, or the hold h, takes from resource r at t.
Claim(id, r, strength, t) == Share(id, Commitments(r), strength, t)

HeldClaim(h, r, t) == HoldShare(h, LiveHolds(r), t)

\* The envelope of r says what the registry says, and nothing is overbooked.
Exact(r) ==
  envelopes[r] # None => \A t \in Span(envelopes[r]) :
    /\ envelopes[r].hard[t] = LoadAt(Commitments(r), "Hard", t)
    /\ envelopes[r].soft[t] = LoadAt(Commitments(r), "Soft", t)
    /\ envelopes[r].held[t] = HeldAt(LiveHolds(r), t)
    /\ envelopes[r].hard[t] + envelopes[r].held[t] <= envelopes[r].cap[t]

Exactness == \A r \in ResourceId : Exact(r)

IInv == TypeInv /\ IdsFresh /\ FlagsFollowClaims /\ Exactness

\* The invariant is the accounting invariant of the model.
LEMMA InvariantParts == IInv <=> TypeOK /\ AccountingInvariant
BY DEF IInv, TypeInv, AccountingInvariant, Exactness, Exact,
       EnvelopeMirrorsRegistry, NeverOverbooked

\* The claims are naturals, and the loads are their sums.
LoadTyped(r, strength, t) ==
  LET f == [id \in 1..LastReservationId |-> Claim(id, r, strength, t)] IN
  /\ f \in [1..LastReservationId -> Nat]
  /\ LoadAt(Commitments(r), strength, t) = SumTo(f, LastReservationId)
  /\ LoadAt(Commitments(r), strength, t) \in Nat

HeldTyped(r, t) ==
  LET f == [h \in 1..LastHoldId |-> HeldClaim(h, r, t)] IN
  /\ f \in [1..LastHoldId -> Nat]
  /\ HeldAt(LiveHolds(r), t) = SumTo(f, LastHoldId)
  /\ HeldAt(LiveHolds(r), t) \in Nat

ClaimsTyped ==
  \A r, strength, t : LoadTyped(r, strength, t) /\ HeldTyped(r, t)

\* Typed variables give typed claims and loads.
LEMMA ClaimTypes == TypeInv => ClaimsTyped
<1> SUFFICES ASSUME TypeInv PROVE ClaimsTyped
  OBVIOUS
<1>1. \A r : Commitments(r) \subseteq {id \in ReservationId : Exists(id)}
  BY DEF Commitments, HoldsCapacity
<1>2. \A r : LiveHolds(r) \subseteq {h \in HoldId : holds[h] # None}
  BY DEF LiveHolds
<1> QED BY <1>1, <1>2, LoadType, HeldType
        DEF TypeInv, ClaimsTyped, LoadTyped, HeldTyped, Claim, HeldClaim,
            LoadAt, HeldAt

\* So they do after a step.
LEMMA ClaimTypesNext == TypeInv' => ClaimsTyped'
BY ClaimTypes, PTL

\* When the claim of one reservation changes, the load changes by as much.
LEMMA LoadUpdate ==
  ASSUME TypeInv, TypeInv', NEW r, NEW strength, NEW t,
         NEW k \in ReservationId,
         \A id \in ReservationId : id # k =>
           Claim(id, r, strength, t)' = Claim(id, r, strength, t)
  PROVE  LoadAt(Commitments(r), strength, t)' =
           LoadAt(Commitments(r), strength, t)
             + Claim(k, r, strength, t)' - Claim(k, r, strength, t)
<1> DEFINE f == [id \in 1..LastReservationId |-> Claim(id, r, strength, t)]
           g == [id \in 1..LastReservationId |-> Claim(id, r, strength, t)']
<1>1. /\ f \in [1..LastReservationId -> Nat]
      /\ LoadAt(Commitments(r), strength, t) = SumTo(f, LastReservationId)
  <2>1. LoadTyped(r, strength, t)
    BY ClaimTypes DEF ClaimsTyped
  <2> QED BY <2>1 DEF LoadTyped
<1>2. /\ g \in [1..LastReservationId -> Nat]
      /\ LoadAt(Commitments(r), strength, t)' = SumTo(g, LastReservationId)
  <2>1. LoadTyped(r, strength, t)'
    BY ClaimTypesNext DEF ClaimsTyped
  <2> QED BY <2>1 DEF LoadTyped
<1>3. \A id \in 1..LastReservationId : id \notin ReservationId =>
        Claim(id, r, strength, t) = 0 /\ Claim(id, r, strength, t)' = 0
  BY DEF Claim, Share, Commitments
<1>4. k \in 1..LastReservationId
  BY DEF ReservationId
<1>5. \A id \in 1..LastReservationId : id # k => g[id] = f[id]
  BY <1>3
<1>6. f[k] = Claim(k, r, strength, t) /\ g[k] = Claim(k, r, strength, t)'
  BY <1>4
<1> HIDE DEF f, g
<1>7. SumTo(g, LastReservationId) = SumTo(f, LastReservationId) + g[k] - f[k]
  <2>1. f \in [1..LastReservationId -> Int] /\ g \in [1..LastReservationId -> Int]
    BY <1>1, <1>2
  <2> QED BY <1>4, <1>5, <2>1, SumUpdate
<1> QED BY <1>1, <1>2, <1>6, <1>7

\* When the claim of one hold changes, the held quantity changes by as much.
LEMMA HeldUpdate ==
  ASSUME TypeInv, TypeInv', NEW r, NEW t, NEW k \in HoldId,
         \A h \in HoldId : h # k => HeldClaim(h, r, t)' = HeldClaim(h, r, t)
  PROVE  HeldAt(LiveHolds(r), t)' =
           HeldAt(LiveHolds(r), t) + HeldClaim(k, r, t)' - HeldClaim(k, r, t)
<1> DEFINE f == [h \in 1..LastHoldId |-> HeldClaim(h, r, t)]
           g == [h \in 1..LastHoldId |-> HeldClaim(h, r, t)']
<1>1. /\ f \in [1..LastHoldId -> Nat]
      /\ HeldAt(LiveHolds(r), t) = SumTo(f, LastHoldId)
  <2>1. HeldTyped(r, t)
    BY ClaimTypes DEF ClaimsTyped
  <2> QED BY <2>1 DEF HeldTyped
<1>2. /\ g \in [1..LastHoldId -> Nat]
      /\ HeldAt(LiveHolds(r), t)' = SumTo(g, LastHoldId)
  <2>1. HeldTyped(r, t)'
    BY ClaimTypesNext DEF ClaimsTyped
  <2> QED BY <2>1 DEF HeldTyped
<1>4. k \in 1..LastHoldId
  BY DEF HoldId
<1>5. \A h \in 1..LastHoldId : h # k => g[h] = f[h]
  BY DEF HoldId
<1>6. f[k] = HeldClaim(k, r, t) /\ g[k] = HeldClaim(k, r, t)'
  BY <1>4
<1> HIDE DEF f, g
<1>7. SumTo(g, LastHoldId) = SumTo(f, LastHoldId) + g[k] - f[k]
  <2>1. f \in [1..LastHoldId -> Int] /\ g \in [1..LastHoldId -> Int]
    BY <1>1, <1>2
  <2> QED BY <1>4, <1>5, <2>1, SumUpdate
<1> QED BY <1>1, <1>2, <1>6, <1>7

\* Equal claims, equal loads.
LEMMA LoadSame ==
  ASSUME NEW r, NEW strength, NEW t,
         \A id \in ReservationId :
           Claim(id, r, strength, t)' = Claim(id, r, strength, t)
  PROVE  LoadAt(Commitments(r), strength, t)' =
           LoadAt(Commitments(r), strength, t)
<1>1. \A id \in 1..LastReservationId : id \notin ReservationId =>
        Claim(id, r, strength, t) = 0 /\ Claim(id, r, strength, t)' = 0
  BY DEF Claim, Share, Commitments
<1>2. [id \in 1..LastReservationId |-> Claim(id, r, strength, t)]
       = [id \in 1..LastReservationId |-> Claim(id, r, strength, t)']
  BY <1>1
<1> QED BY <1>2 DEF LoadAt, Claim

\* Unchanged holds, the same held quantity.
LEMMA HeldSame ==
  ASSUME holds' = holds, NEW r, NEW t
  PROVE  HeldAt(LiveHolds(r), t)' = HeldAt(LiveHolds(r), t)
BY DEF HeldAt, HoldShare, LiveHolds

\* id claims after the step what it claimed before.
SameClaim(id) ==
  /\ Exists(id)' <=> Exists(id)
  /\ Exists(id) =>
       /\ SameTerms(reservations'[id], reservations[id])
       /\ reservations'[id].lifecycle \in CapacityHolding <=>
            reservations[id].lifecycle \in CapacityHolding

\* No reservation claims more, less or something else than it did.
SameClaims == \A id \in ReservationId : SameClaim(id)

\* A reservation on the same terms, on the same side of CapacityHolding, claims
\* the same.
LEMMA ClaimSame ==
  ASSUME NEW id \in ReservationId, SameClaim(id)
  PROVE  \A r, strength, t :
           Claim(id, r, strength, t)' = Claim(id, r, strength, t)
BY DEF SameClaim, SameTerms, Claim, Share, Commitments, HoldsCapacity, Exists

\* A step that leaves every claim and every envelope alone leaves the
\* accounting exact.
LEMMA ClaimsKept ==
  ASSUME IInv, TypeInv', UNCHANGED <<envelopes, holds, nextReservationId>>,
         \A id \in ReservationId :
           /\ SameClaim(id)
           /\ Exists(id) => reservations'[id].contributesEnvelope =
                              reservations[id].contributesEnvelope
  PROVE  IInv'
<1>1. IdsFresh'
  BY DEF IInv, IdsFresh, SameClaim
<1>2. FlagsFollowClaims'
  BY DEF IInv, FlagsFollowClaims, SameClaim, HoldsCapacity
<1>3. ASSUME NEW r \in ResourceId PROVE Exact(r)'
  <2>1. \A strength, t : LoadAt(Commitments(r), strength, t)' =
                           LoadAt(Commitments(r), strength, t)
    BY ClaimSame, LoadSame
  <2>2. \A t : HeldAt(LiveHolds(r), t)' = HeldAt(LiveHolds(r), t)
    BY HeldSame
  <2> QED BY <2>1, <2>2 DEF IInv, Exactness, Exact
<1> QED BY <1>1, <1>2, <1>3 DEF IInv, Exactness


\* Rewriting a reservation that holds capacity, so that it still does.
LEMMA OneClaimKept ==
  ASSUME IInv, TypeInv', NEW id \in ReservationId, HoldsCapacity(id),
         NEW x \in Reservation, reservations' = [reservations EXCEPT ![id] = x],
         SameTerms(x, reservations[id]), x.lifecycle \in CapacityHolding,
         x.contributesEnvelope = reservations[id].contributesEnvelope,
         UNCHANGED <<envelopes, holds, nextReservationId>>
  PROVE  IInv' /\ SameClaims
<1>1. reservations \in [ReservationId -> Reservation \cup {None}] /\ x # None
  BY DEF IInv, TypeInv, TypeOK
<1>2. ASSUME NEW k \in ReservationId
      PROVE  /\ SameClaim(k)
             /\ Exists(k) => reservations'[k].contributesEnvelope =
                               reservations[k].contributesEnvelope
  <2>1. CASE k = id
    BY <1>1, <2>1 DEF SameClaim, HoldsCapacity, Exists
  <2>2. CASE k # id
    BY <1>1, <2>2 DEF SameClaim, SameTerms, Exists
  <2> QED BY <2>1, <2>2
<1> QED BY <1>2, ClaimsKept DEF SameClaims

\* Setting the lifecycle of reservations that hold capacity, so that they
\* still do.
LEMMA LifecyclesKept ==
  ASSUME IInv, TypeInv', NEW S, S \subseteq {id \in ReservationId : HoldsCapacity(id)},
         NEW l \in CapacityHolding, reservations' = WithLifecycle(S, l),
         UNCHANGED <<envelopes, holds, nextReservationId>>
  PROVE  IInv' /\ SameClaims
<1>1. TypeOK /\ S \subseteq {id \in ReservationId : Exists(id)} /\ l \in Lifecycles
  BY DEF IInv, TypeInv, HoldsCapacity, CapacityHolding
<1>2. \A id \in ReservationId :
        /\ reservations'[id] = None <=> reservations[id] = None
        /\ reservations[id] # None =>
             /\ SameTerms(reservations'[id], reservations[id])
             /\ reservations'[id].contributesEnvelope =
                  reservations[id].contributesEnvelope
             /\ reservations'[id].lifecycle = IF id \in S THEN l
                                              ELSE reservations[id].lifecycle
  <2> DEFINE x == WithLifecycle(S, l)
  <2>1. \A id \in ReservationId :
          /\ x[id] = None <=> reservations[id] = None
          /\ reservations[id] # None =>
               /\ SameTerms(x[id], reservations[id])
               /\ x[id].contributesEnvelope =
                    reservations[id].contributesEnvelope
               /\ x[id].lifecycle = IF id \in S THEN l
                                    ELSE reservations[id].lifecycle
    <3>1. /\ TypeOK /\ S \subseteq {id \in ReservationId : Exists(id)}
          /\ l \in Lifecycles /\ x = WithLifecycle(S, l)
      BY <1>1
    <3> HIDE DEF x
    <3> QED BY <3>1, WithLifecycleLaw, Z3
  <2>2. reservations' = x
    OBVIOUS
  <2> HIDE DEF x
  <2> QED BY <2>1, <2>2
<1>3. \A id \in ReservationId : SameClaim(id)
  BY <1>2 DEF SameClaim, HoldsCapacity, Exists
<1> QED BY <1>2, <1>3, ClaimsKept DEF Exists, SameClaims

\* Revalidation leaves every claim alone.
LEMMA RevalidateResourceKeeps ==
  ASSUME IInv, TypeInv', NEW p \in Publications, RevalidateResource(p)
  PROVE  IInv' /\ SameClaims
<1>1. /\ UNCHANGED <<envelopes, holds, nextReservationId>>
      /\ reservations' = [id \in ReservationId |->
           IF id \in AwaitingRevalidation(p.id)
           THEN [reservations[id] EXCEPT !.lifecycle = "PendingActivation",
                    !.boundResourceGeneration = p.generation]
           ELSE reservations[id]]
  BY DEF RevalidateResource
<1>2. ASSUME NEW id \in ReservationId
      PROVE  /\ SameClaim(id)
             /\ Exists(id) => reservations'[id].contributesEnvelope =
                                reservations[id].contributesEnvelope
  <2>1. CASE id \in AwaitingRevalidation(p.id)
    <3>1. /\ reservations[id] \in Reservation /\ Exists(id)
          /\ reservations[id].lifecycle \in CapacityHolding
      BY <2>1 DEF AwaitingRevalidation, Commitments, HoldsCapacity, Exists,
                  IInv, TypeInv, TypeOK
    <3> DEFINE x == [reservations[id] EXCEPT !.lifecycle = "PendingActivation",
                       !.boundResourceGeneration = p.generation]
    <3>2. reservations'[id] = x
      BY <1>1, <2>1
    <3>3. /\ x \in Reservation /\ SameTerms(x, reservations[id])
          /\ x.lifecycle \in CapacityHolding
          /\ x.contributesEnvelope = reservations[id].contributesEnvelope
      BY <3>1, PublicationFields, LifecycleNames DEF Reservation, SameTerms
    <3> HIDE DEF x
    <3> QED BY <3>1, <3>2, <3>3 DEF SameClaim, Exists
  <2>2. CASE id \notin AwaitingRevalidation(p.id)
    BY <1>1, <2>2 DEF SameClaim, SameTerms, Exists
  <2> QED BY <2>1, <2>2
<1> QED BY <1>1, <1>2, ClaimsKept DEF SameClaims

\* Activation leaves every claim alone: what activates holds capacity already.
LEMMA ActivateKeeps ==
  ASSUME IInv, TypeInv', NEW id \in ReservationId, NEW g, NEW ev \in Evidence,
         NEW at, Activate(id, g, ev, at)
  PROVE  IInv' /\ SameClaims
<1> DEFINE x == [reservations[id] EXCEPT !.lifecycle = "Active",
                                         !.activationGeneration = ev.generation]
<1>1. /\ HoldsCapacity(id) /\ reservations' = [reservations EXCEPT ![id] = x]
      /\ UNCHANGED <<envelopes, holds, nextReservationId>>
  BY LifecycleNames DEF Activate, Current, HoldsCapacity, OnlyReservationsChange
<1>2. reservations[id] \in Reservation
  BY <1>1, CurrentReservation DEF HoldsCapacity, IInv
<1>3. /\ x \in Reservation /\ SameTerms(x, reservations[id])
      /\ x.lifecycle \in CapacityHolding
      /\ x.contributesEnvelope = reservations[id].contributesEnvelope
  BY <1>2, EvidenceFields, LifecycleNames DEF Reservation, SameTerms
<1> HIDE DEF x
<1> QED BY <1>1, <1>3, OneClaimKept

\* Stale activation suspends a reservation that holds capacity: it claims on.
LEMMA ActivateStaleKeeps ==
  ASSUME IInv, TypeInv', NEW id \in ReservationId, NEW g, ActivateStale(id, g),
         HoldsCapacity(id)
  PROVE  IInv' /\ SameClaims
<1> DEFINE x == [reservations[id] EXCEPT !.lifecycle = "RevalidationRequired"]
<1>1. /\ reservations' = [reservations EXCEPT ![id] = x]
      /\ UNCHANGED <<envelopes, holds, nextReservationId>>
  BY DEF ActivateStale, OnlyReservationsChange
<1>2. reservations[id] \in Reservation
  BY CurrentReservation DEF HoldsCapacity, IInv
<1>3. /\ x \in Reservation /\ SameTerms(x, reservations[id])
      /\ x.lifecycle \in CapacityHolding
      /\ x.contributesEnvelope = reservations[id].contributesEnvelope
  BY <1>2, LifecycleNames DEF Reservation, SameTerms
<1> HIDE DEF x
<1> QED BY <1>1, <1>3, OneClaimKept

\* Consumption leaves every claim alone: consumed units stay promised.
LEMMA ConsumeKeeps ==
  ASSUME IInv, TypeInv', NEW id \in ReservationId, NEW g,
         NEW amount \in ConsumeAmounts, NEW ev \in Evidence,
         Consume(id, g, amount, ev)
  PROVE  IInv' /\ SameClaims
<1> DEFINE r == reservations[id]
           l == IF r.consumed + amount = r.quantity THEN "Consumed" ELSE "PartiallyConsumed"
           c == r.consumed + amount
           x == [r EXCEPT !.consumed = c, !.consumptionGeneration = ev.generation,
                          !.lifecycle = l]
<1>1. /\ HoldsCapacity(id) /\ reservations' = [reservations EXCEPT ![id] = x]
      /\ amount > 0 /\ UNCHANGED <<envelopes, holds, nextReservationId>>
  BY LifecycleNames DEF Consume, Current, HoldsCapacity, OnlyReservationsChange
<1>2. r \in Reservation /\ r.consumed \in Nat
  BY <1>1, CurrentReservation DEF HoldsCapacity, IInv
<1>3. /\ x \in Reservation /\ SameTerms(x, r)
      /\ x.lifecycle \in CapacityHolding
      /\ x.contributesEnvelope = r.contributesEnvelope
  <2>1. l \in CapacityHolding /\ l \in Lifecycles /\ c \in Nat
    BY <1>1, <1>2, LifecycleNames
  <2> HIDE DEF r, l, c
  <2> QED BY <1>2, <2>1, EvidenceFields DEF Reservation, SameTerms
<1> HIDE DEF x
<1> QED BY <1>1, <1>3, OneClaimKept

\* The transfer of a reservation that holds capacity leaves its claim alone.
LEMMA TransferKeeps ==
  ASSUME IInv, TypeInv', NEW id \in ReservationId, NEW g, NEW owner \in NewOwners,
         NEW ev \in Evidence, Transfer(id, g, owner, ev), HoldsCapacity(id)
  PROVE  IInv' /\ SameClaims
<1> DEFINE r == reservations[id]
           y == [r EXCEPT !.owner = owner]
           x == [y EXCEPT !.generation = currentGen[id] + 1,
                          !.lifecycle = "Committed",
                          !.activationGeneration = 0]
<1>1. /\ reservations' = [reservations EXCEPT ![id] = x]
      /\ UNCHANGED <<envelopes, holds, nextReservationId>>
  BY DEF Transfer, Supersede, OnlyGenerationsChange
<1>2. r \in Reservation /\ currentGen[id] + 1 \in Nat \ {0}
  BY CurrentReservation DEF HoldsCapacity, IInv, TypeInv, TypeOK
<1>3. /\ y \in Reservation /\ SameTerms(y, r)
      /\ y.contributesEnvelope = r.contributesEnvelope
  <2>1. owner \in Owner
    OBVIOUS
  <2> HIDE DEF r
  <2> QED BY <1>2, <2>1 DEF Reservation, SameTerms
<1>4. /\ x \in Reservation /\ SameTerms(x, r)
      /\ x.lifecycle \in CapacityHolding
      /\ x.contributesEnvelope = r.contributesEnvelope
  <2> HIDE DEF y, r
  <2> QED BY <1>2, <1>3, LifecycleNames DEF Reservation, SameTerms
<1> HIDE DEF x
<1> QED BY <1>1, <1>4, OneClaimKept

\* What a reservation that follows its flag claims.
LEMMA ClaimOf ==
  ASSUME IInv, NEW id \in ReservationId, Exists(id)
  PROVE  \A r, strength, t :
           Claim(id, r, strength, t) =
             IF /\ reservations[id].contributesEnvelope
                /\ reservations[id].resource = r
                /\ reservations[id].strength = strength
                /\ Covers(reservations[id].window, t)
             THEN reservations[id].quantity ELSE 0
BY DEF IInv, FlagsFollowClaims, Claim, Share, Commitments, HoldsCapacity, Exists

\* The columns of an envelope hold integers.
LEMMA Columns ==
  ASSUME NEW e \in Envelope, NEW t \in Span(e)
  PROVE  /\ t \in Time
         /\ e.hard[t] \in Int /\ e.soft[t] \in Int
         /\ e.held[t] \in Int /\ e.cap[t] \in Int
BY DEF Envelope, Span

\* Withdrawing a reservation for good takes exactly its claim out of the
\* envelope.
LEMMA ClaimRemoved ==
  ASSUME IInv, TypeInv', NEW id \in ReservationId, Exists(id),
         NEW x \in Reservation, reservations' = [reservations EXCEPT ![id] = x],
         x.contributesEnvelope = FALSE, x.lifecycle \notin CapacityHolding,
         envelopes' = EnvelopesWithout(id),
         UNCHANGED <<holds, nextReservationId>>
  PROVE  IInv'
<1> DEFINE old == reservations[id]
<1>0. /\ TypeInv /\ reservations \in [ReservationId -> Reservation \cup {None}]
      /\ x # None
  BY DEF IInv, TypeInv, TypeOK
<1>1. /\ old \in Reservation /\ old.resource \in ResourceId
      /\ old.strength \in Strengths
      /\ envelopes[old.resource] \in Envelope /\ old.quantity \in Nat
  BY <1>0, CurrentReservation DEF Reservation
<1>2. IdsFresh'
  BY <1>0 DEF IInv, IdsFresh, Exists
<1>3. FlagsFollowClaims'
  BY <1>0 DEF IInv, FlagsFollowClaims, HoldsCapacity, Exists
<1>4. ASSUME NEW k \in ReservationId, k # id
      PROVE  \A r, strength, t :
               Claim(k, r, strength, t)' = Claim(k, r, strength, t)
  <2>1. SameClaim(k)
    BY <1>0, <1>4 DEF SameClaim, SameTerms, Exists
  <2> QED BY <2>1, ClaimSame
<1>5. \A r, strength, t : Claim(id, r, strength, t)' = 0
  BY <1>0 DEF Claim, Share, Commitments, HoldsCapacity
<1>6. \A r, strength, t :
        LoadAt(Commitments(r), strength, t)' =
          LoadAt(Commitments(r), strength, t) - Claim(id, r, strength, t)
  <2> SUFFICES ASSUME NEW r, NEW strength, NEW t
               PROVE  LoadAt(Commitments(r), strength, t)' =
                        LoadAt(Commitments(r), strength, t)
                          - Claim(id, r, strength, t)
    OBVIOUS
  <2>1. LoadAt(Commitments(r), strength, t)' =
          LoadAt(Commitments(r), strength, t)
            + Claim(id, r, strength, t)' - Claim(id, r, strength, t)
    BY <1>0, <1>4, LoadUpdate
  <2>2. LoadAt(Commitments(r), strength, t) \in Nat
    BY <1>0, ClaimTypes DEF ClaimsTyped, LoadTyped
  <2>3. Claim(id, r, strength, t) \in Nat
    BY <1>1, ClaimOf
  <2> QED BY <1>5, <2>1, <2>2, <2>3
<1>7. \A r, t : HeldAt(LiveHolds(r), t)' = HeldAt(LiveHolds(r), t)
  BY HeldSame
<1>8. ASSUME NEW r \in ResourceId PROVE Exact(r)'
  <2> SUFFICES ASSUME envelopes'[r] # None, NEW t \in Span(envelopes'[r])
               PROVE  /\ envelopes'[r].hard[t] = LoadAt(Commitments(r), "Hard", t)'
                      /\ envelopes'[r].soft[t] = LoadAt(Commitments(r), "Soft", t)'
                      /\ envelopes'[r].held[t] = HeldAt(LiveHolds(r), t)'
                      /\ envelopes'[r].hard[t] + envelopes'[r].held[t]
                           <= envelopes'[r].cap[t]
    BY DEF Exact
  <2>1. CASE r = old.resource
    <3> DEFINE e == envelopes[r]
               f == Withdraw(e, old)
    <3>1. envelopes'[r] = f
      BY <1>0, <2>1 DEF EnvelopesWithout, TypeInv, TypeOK
    <3>2. e \in Envelope /\ e # None
      BY <1>1, <2>1
    <3>3. /\ f \in Envelope
          /\ Span(f) = Span(e) /\ f.cap = e.cap /\ f.held = e.held
          /\ \A u \in Span(e) :
              LET part == IF old.contributesEnvelope /\ Covers(old.window, u)
                          THEN old.quantity ELSE 0
              IN  /\ f.hard[u] = e.hard[u] -
                       (IF old.strength = "Hard" THEN part ELSE 0)
                  /\ f.soft[u] = e.soft[u] -
                       (IF old.strength # "Hard" THEN part ELSE 0)
      <4> HIDE DEF old, e
      <4> QED BY <1>1, <3>2, WithdrawLaw
    <3>4. t \in Span(e)
      BY <3>1, <3>3
    <3>5. /\ e.hard[t] = LoadAt(Commitments(r), "Hard", t)
          /\ e.soft[t] = LoadAt(Commitments(r), "Soft", t)
          /\ e.held[t] = HeldAt(LiveHolds(r), t)
          /\ e.hard[t] + e.held[t] <= e.cap[t]
      BY <3>2, <3>4 DEF IInv, Exactness, Exact
    <3>6. /\ Claim(id, r, "Hard", t) = IF old.strength = "Hard"
               THEN (IF old.contributesEnvelope /\ Covers(old.window, t)
                     THEN old.quantity ELSE 0) ELSE 0
          /\ Claim(id, r, "Soft", t) = IF old.strength # "Hard"
               THEN (IF old.contributesEnvelope /\ Covers(old.window, t)
                     THEN old.quantity ELSE 0) ELSE 0
      BY <1>1, <2>1, ClaimOf DEF Strengths
    <3>7. /\ e.hard[t] \in Int /\ e.soft[t] \in Int /\ e.held[t] \in Int
          /\ e.cap[t] \in Int
      BY <3>2, <3>4, Columns
    <3> HIDE DEF e, f, old
    <3> QED BY <1>1, <1>6, <1>7, <3>1, <3>3, <3>4, <3>5, <3>6, <3>7
  <2>2. CASE r # old.resource
    <3>1. envelopes'[r] = envelopes[r]
      BY <1>0, <2>2 DEF EnvelopesWithout, TypeInv, TypeOK
    <3>2. \A strength : Claim(id, r, strength, t) = 0
      BY <2>2, ClaimOf
    <3>3. \A strength : LoadAt(Commitments(r), strength, t) \in Nat
      BY <1>0, ClaimTypes DEF ClaimsTyped, LoadTyped
    <3> QED BY <1>6, <1>7, <3>1, <3>2, <3>3 DEF IInv, Exactness, Exact
  <2> QED BY <2>1, <2>2
<1> QED BY <1>2, <1>3, <1>8 DEF IInv, Exactness

\* Release takes out exactly what the reservation claimed.
LEMMA ReleaseKeeps ==
  ASSUME IInv, TypeInv', NEW id \in ReservationId, NEW g, NEW ev \in Evidence,
         Release(id, g, ev)
  PROVE  IInv'
<1> DEFINE r == reservations[id]
           d == Disengage(r, "Released")
           x == [d EXCEPT !.releaseGeneration = ev.generation]
<1>1. /\ Exists(id) /\ reservations' = [reservations EXCEPT ![id] = x]
      /\ envelopes' = EnvelopesWithout(id)
      /\ UNCHANGED <<holds, nextReservationId>>
  BY DEF Release, Current
<1>2. d \in Reservation /\ d.lifecycle = "Released" /\ d.contributesEnvelope = FALSE
  <2>1. r \in Reservation
    BY <1>1, CurrentReservation DEF IInv
  <2> QED BY <2>1, LifecycleNames, DisengageLaw
<1>3. /\ x \in Reservation /\ x.contributesEnvelope = FALSE
      /\ x.lifecycle \notin CapacityHolding
  <2> HIDE DEF d
  <2> QED BY <1>2, EvidenceFields, LifecycleNames DEF Reservation
<1> HIDE DEF x
<1> QED BY <1>1, <1>3, ClaimRemoved

\* So does cancellation.
LEMMA CancelKeeps ==
  ASSUME IInv, TypeInv', NEW id \in ReservationId, NEW g, Cancel(id, g)
  PROVE  IInv'
<1> DEFINE r == reservations[id]
           x == Disengage(r, "Cancelled")
<1>1. /\ Exists(id) /\ reservations' = [reservations EXCEPT ![id] = x]
      /\ envelopes' = EnvelopesWithout(id)
      /\ UNCHANGED <<holds, nextReservationId>>
  BY DEF Cancel, Current
<1>2. x \in Reservation /\ x.lifecycle = "Cancelled" /\ x.contributesEnvelope = FALSE
  <2>1. r \in Reservation
    BY <1>1, CurrentReservation DEF IInv
  <2> QED BY <2>1, LifecycleNames, DisengageLaw
<1> HIDE DEF x
<1> QED BY <1>1, <1>2, LifecycleNames, ClaimRemoved


\* When every claim splits into what is left and what leaves, so does the load.
LEMMA LoadSplit ==
  ASSUME TypeInv, TypeInv', NEW r, NEW strength, NEW t,
         NEW S, S \subseteq {id \in ReservationId : Exists(id)},
         \A id \in ReservationId :
           Claim(id, r, strength, t) =
             Claim(id, r, strength, t)' + Share(id, S, strength, t)
  PROVE  LoadAt(Commitments(r), strength, t)' =
           LoadAt(Commitments(r), strength, t) - LoadAt(S, strength, t)
<1> DEFINE f == [id \in 1..LastReservationId |-> Claim(id, r, strength, t)]
           g == [id \in 1..LastReservationId |-> Claim(id, r, strength, t)']
           s == [id \in 1..LastReservationId |-> Share(id, S, strength, t)]
<1>1. /\ f \in [1..LastReservationId -> Nat]
      /\ LoadAt(Commitments(r), strength, t) = SumTo(f, LastReservationId)
  <2>1. LoadTyped(r, strength, t)
    BY ClaimTypes DEF ClaimsTyped
  <2> QED BY <2>1 DEF LoadTyped
<1>2. /\ g \in [1..LastReservationId -> Nat]
      /\ LoadAt(Commitments(r), strength, t)' = SumTo(g, LastReservationId)
  <2>1. LoadTyped(r, strength, t)'
    BY ClaimTypesNext DEF ClaimsTyped
  <2> QED BY <2>1 DEF LoadTyped
<1>3. /\ s \in [1..LastReservationId -> Nat]
      /\ LoadAt(S, strength, t) = SumTo(s, LastReservationId)
  <2>1. s \in [1..LastReservationId -> Nat]
    BY LoadType, Z3 DEF TypeInv
  <2>2. LoadAt(S, strength, t) = SumTo(s, LastReservationId)
    BY DEF LoadAt
  <2> QED BY <2>1, <2>2
<1>4. \A id \in 1..LastReservationId : id \notin ReservationId =>
        /\ Claim(id, r, strength, t) = 0 /\ Claim(id, r, strength, t)' = 0
        /\ Share(id, S, strength, t) = 0
  BY DEF Claim, Share, Commitments
<1>5. \A id \in 1..LastReservationId : f[id] = g[id] + s[id]
  BY <1>4
<1> HIDE DEF f, g, s
<1>6. /\ f \in [1..LastReservationId -> Int]
      /\ g \in [1..LastReservationId -> Int]
      /\ s \in [1..LastReservationId -> Int]
  BY <1>1, <1>2, <1>3
<1>7. SumTo(f, LastReservationId) = SumTo(g, LastReservationId) + SumTo(s, LastReservationId)
  BY <1>5, <1>6, SumAdd
<1>8. SumTo(g, LastReservationId) \in Int /\ SumTo(s, LastReservationId) \in Int
  BY <1>6, SumType
<1> QED BY <1>1, <1>2, <1>3, <1>7, <1>8

\* The same for holds.
LEMMA HeldSplit ==
  ASSUME TypeInv, TypeInv', NEW r, NEW t,
         NEW S, S \subseteq {h \in HoldId : holds[h] # None},
         \A h \in HoldId :
           HeldClaim(h, r, t) = HeldClaim(h, r, t)' + HoldShare(h, S, t)
  PROVE  HeldAt(LiveHolds(r), t)' = HeldAt(LiveHolds(r), t) - HeldAt(S, t)
<1> DEFINE f == [h \in 1..LastHoldId |-> HeldClaim(h, r, t)]
           g == [h \in 1..LastHoldId |-> HeldClaim(h, r, t)']
           s == [h \in 1..LastHoldId |-> HoldShare(h, S, t)]
<1>1. /\ f \in [1..LastHoldId -> Nat]
      /\ HeldAt(LiveHolds(r), t) = SumTo(f, LastHoldId)
  <2>1. HeldTyped(r, t)
    BY ClaimTypes DEF ClaimsTyped
  <2> QED BY <2>1 DEF HeldTyped
<1>2. /\ g \in [1..LastHoldId -> Nat]
      /\ HeldAt(LiveHolds(r), t)' = SumTo(g, LastHoldId)
  <2>1. HeldTyped(r, t)'
    BY ClaimTypesNext DEF ClaimsTyped
  <2> QED BY <2>1 DEF HeldTyped
<1>3. /\ s \in [1..LastHoldId -> Nat]
      /\ HeldAt(S, t) = SumTo(s, LastHoldId)
  BY HeldType DEF TypeInv, HeldAt
<1>5. \A h \in 1..LastHoldId : f[h] = g[h] + s[h]
  BY DEF HoldId
<1> HIDE DEF f, g, s
<1>6. /\ f \in [1..LastHoldId -> Int]
      /\ g \in [1..LastHoldId -> Int]
      /\ s \in [1..LastHoldId -> Int]
  BY <1>1, <1>2, <1>3
<1>7. SumTo(f, LastHoldId) = SumTo(g, LastHoldId) + SumTo(s, LastHoldId)
  BY <1>5, <1>6, SumAdd
<1>8. SumTo(g, LastHoldId) \in Int /\ SumTo(s, LastHoldId) \in Int
  BY <1>6, SumType
<1> QED BY <1>1, <1>2, <1>3, <1>7, <1>8

\* Unchanged reservations, the same load.
LEMMA LoadUnchanged ==
  ASSUME reservations' = reservations, NEW r, NEW strength, NEW t
  PROVE  LoadAt(Commitments(r), strength, t)' =
           LoadAt(Commitments(r), strength, t)
BY DEF LoadAt, Share, Commitments, HoldsCapacity, Exists

\* Expiry ends the reservations that are due and no other.
LEMMA ExpiryEnds ==
  ASSUME IInv, NEW now, ExpireDue(now)
  PROVE  /\ \A id \in Due(now) :
              /\ id \in ReservationId /\ HoldsCapacity(id) /\ Exists(id)
              /\ reservations[id].contributesEnvelope
              /\ reservations'[id] # None
              /\ reservations'[id].lifecycle \notin CapacityHolding
              /\ reservations'[id].contributesEnvelope = FALSE
         /\ \A id \in ReservationId : id \notin Due(now) =>
              reservations'[id] = reservations[id]
<1> DEFINE due == Due(now)
<1>0. TypeInv
  BY DEF IInv
<1>1. \A id \in ReservationId : reservations'[id] =
           IF id \in due THEN Disengage(reservations[id], "Expired")
           ELSE reservations[id]
  BY DEF ExpireDue
<1>2. \A id \in due : /\ id \in ReservationId /\ HoldsCapacity(id) /\ Exists(id)
                      /\ reservations[id].contributesEnvelope
  BY DEF Due, HoldsCapacity, IInv, FlagsFollowClaims
<1>3. ASSUME NEW id \in due
      PROVE  /\ reservations'[id] # None
             /\ reservations'[id].lifecycle \notin CapacityHolding
             /\ reservations'[id].contributesEnvelope = FALSE
  <2>1. reservations[id] \in Reservation
    BY <1>0, <1>2, CurrentReservation
  <2> DEFINE x == Disengage(reservations[id], "Expired")
  <2>2. x \in Reservation /\ x.lifecycle = "Expired" /\ x.contributesEnvelope = FALSE
    BY <2>1, LifecycleNames, DisengageLaw
  <2>3. reservations'[id] = x
    BY <1>1, <1>2
  <2> HIDE DEF x
  <2> QED BY <2>2, <2>3, LifecycleNames
<1>4. \A id \in ReservationId : id \notin due => reservations'[id] = reservations[id]
  BY <1>1
<1> QED BY <1>2, <1>3, <1>4

\* Expiry takes out exactly what the expired reservations claimed.
LEMMA ExpireDueKeeps ==
  ASSUME IInv, TypeInv', NEW now, ExpireDue(now)
  PROVE  IInv'
<1> DEFINE due == Due(now)
           leaving(r) == {id \in due : /\ reservations[id].resource = r
                                       /\ reservations[id].contributesEnvelope}
<1>0. TypeInv /\ TypeOK
  BY DEF IInv, TypeInv
<1>1. /\ UNCHANGED <<holds, nextReservationId>>
      /\ \A id \in ReservationId : reservations'[id] =
           IF id \in due THEN Disengage(reservations[id], "Expired")
           ELSE reservations[id]
      /\ \A r \in ResourceId : envelopes'[r] =
           IF envelopes[r] = None THEN None
           ELSE AddAll(envelopes[r], leaving(r), -1)
  BY DEF ExpireDue
<1>2. \A id \in due : /\ id \in ReservationId /\ HoldsCapacity(id) /\ Exists(id)
                      /\ reservations[id].contributesEnvelope
  BY ExpiryEnds
<1>3. \A id \in due : /\ reservations'[id] # None
                      /\ reservations'[id].lifecycle \notin CapacityHolding
                      /\ reservations'[id].contributesEnvelope = FALSE
  BY ExpiryEnds
<1>4. \A id \in ReservationId : id \notin due => reservations'[id] = reservations[id]
  BY ExpiryEnds
<1> HIDE DEF due
<1>5. IdsFresh'
  BY <1>1, <1>2, <1>4 DEF IInv, IdsFresh, Exists
<1>6. FlagsFollowClaims'
  BY <1>1, <1>3, <1>4 DEF IInv, FlagsFollowClaims, HoldsCapacity, Exists
<1>7. ASSUME NEW r \in ResourceId PROVE Exact(r)'
  <2>1. leaving(r) \subseteq {id \in ReservationId : Exists(id)}
    BY <1>2
  <2>2. ASSUME NEW strength, NEW t
        PROVE  LoadAt(Commitments(r), strength, t)' =
                 LoadAt(Commitments(r), strength, t) - LoadAt(leaving(r), strength, t)
    <3>1. ASSUME NEW id \in ReservationId
          PROVE  Claim(id, r, strength, t) =
                   Claim(id, r, strength, t)' + Share(id, leaving(r), strength, t)
      <4>1. CASE id \in due
        <5>1. Claim(id, r, strength, t)' = 0
          BY <1>3, <4>1 DEF Claim, Share, Commitments, HoldsCapacity
        <5>2. Claim(id, r, strength, t) = Share(id, leaving(r), strength, t)
          BY <1>2, <4>1 DEF Claim, Share, Commitments
        <5>3. Claim(id, r, strength, t) \in Nat
          BY <1>0, <1>2, <4>1, ClaimOf, CurrentReservation
        <5> QED BY <5>1, <5>2, <5>3
      <4>2. CASE id \notin due
        <5>1. SameClaim(id)
          BY <1>4, <4>2 DEF SameClaim, SameTerms, Exists
        <5>2. Claim(id, r, strength, t)' = Claim(id, r, strength, t)
          BY <5>1, ClaimSame
        <5>3. Share(id, leaving(r), strength, t) = 0
          BY <4>2 DEF Share
        <5>4. Claim(id, r, strength, t) \in Nat
          <6>1. LoadTyped(r, strength, t) /\ id \in 1..LastReservationId
            BY <1>0, ClaimTypes DEF ClaimsTyped, ReservationId
          <6> QED BY <6>1 DEF LoadTyped
        <5> QED BY <5>2, <5>3, <5>4
      <4> QED BY <4>1, <4>2
    <3> HIDE DEF leaving
    <3> QED BY <1>0, <2>1, <3>1, LoadSplit
  <2>3. \A t : HeldAt(LiveHolds(r), t)' = HeldAt(LiveHolds(r), t)
    BY <1>1, HeldSame
  <2> SUFFICES ASSUME envelopes'[r] # None, NEW t \in Span(envelopes'[r])
               PROVE  /\ envelopes'[r].hard[t] = LoadAt(Commitments(r), "Hard", t)'
                      /\ envelopes'[r].soft[t] = LoadAt(Commitments(r), "Soft", t)'
                      /\ envelopes'[r].held[t] = HeldAt(LiveHolds(r), t)'
                      /\ envelopes'[r].hard[t] + envelopes'[r].held[t]
                           <= envelopes'[r].cap[t]
    BY DEF Exact
  <2> DEFINE e == envelopes[r]
             f == AddAll(e, leaving(r), -1)
  <2>4. envelopes'[r] = f /\ e # None /\ e \in Envelope
    BY <1>0, <1>1 DEF TypeOK
  <2>5. /\ Span(f) = Span(e) /\ f.cap = e.cap /\ f.held = e.held
        /\ \A u \in Span(e) :
             /\ f.hard[u] = e.hard[u] + (-1) * LoadAt(leaving(r), "Hard", u)
             /\ f.soft[u] = e.soft[u] + (-1) * LoadAt(leaving(r), "Soft", u)
    <3> HIDE DEF leaving, e
    <3> QED BY <1>0, <2>1, <2>4, AddAllLaw
  <2>6. t \in Span(e)
    BY <2>4, <2>5
  <2>7. /\ e.hard[t] = LoadAt(Commitments(r), "Hard", t)
        /\ e.soft[t] = LoadAt(Commitments(r), "Soft", t)
        /\ e.held[t] = HeldAt(LiveHolds(r), t)
        /\ e.hard[t] + e.held[t] <= e.cap[t]
    BY <2>4, <2>6 DEF IInv, Exactness, Exact
  <2>8. \A strength : LoadAt(leaving(r), strength, t) \in Nat
    <3> HIDE DEF leaving
    <3> QED BY <1>0, <2>1, LoadType
  <2>9. /\ e.hard[t] \in Int /\ e.soft[t] \in Int /\ e.held[t] \in Int
        /\ e.cap[t] \in Int
    BY <2>4, <2>6, Columns
  <2> HIDE DEF e, f, leaving
  <2> QED BY <2>2, <2>3, <2>4, <2>5, <2>6, <2>7, <2>8, <2>9
<1> QED BY <1>5, <1>6, <1>7 DEF IInv, Exactness


\* What a hold that follows its flag claims.
LEMMA HoldClaimOf ==
  ASSUME IInv, NEW h \in HoldId, holds[h] # None
  PROVE  /\ \A r, t :
              HeldClaim(h, r, t) =
                IF /\ holds[h].appliedToEnvelope
                   /\ holds[h].resource = r
                   /\ Covers(holds[h].window, t)
                THEN holds[h].quantity ELSE 0
         /\ holds[h] \in Hold /\ holds[h].quantity \in Nat
<1>1. holds[h] \in Hold
  BY DEF IInv, TypeInv, TypeOK
<1>2. holds[h].quantity \in Nat
  BY <1>1 DEF Hold
<1>3. holds[h].appliedToEnvelope <=> holds[h].state = "Acquired"
  BY DEF IInv, FlagsFollowClaims
<1>4. \A r : h \in LiveHolds(r) <=> /\ holds[h].appliedToEnvelope
                                    /\ holds[h].resource = r
  BY <1>3 DEF LiveHolds
<1> QED BY <1>1, <1>2, <1>4 DEF HeldClaim, HoldShare

\* A hold that has not changed claims what it did.
LEMMA HoldClaimSame ==
  ASSUME NEW h \in HoldId, holds'[h] = holds[h], NEW r, NEW t
  PROVE  HeldClaim(h, r, t)' = HeldClaim(h, r, t)
BY DEF HeldClaim, HoldShare, LiveHolds

\* A hold that has been given up claims nothing.
LEMMA GivenUpClaimsNothing ==
  ASSUME NEW h \in HoldId, holds'[h].state # "Acquired", NEW r, NEW t
  PROVE  HeldClaim(h, r, t)' = 0
BY DEF HeldClaim, HoldShare, LiveHolds

\* Releasing a hold takes out exactly what it claimed.
LEMMA ReleaseHoldKeeps ==
  ASSUME IInv, TypeInv', NEW h \in HoldId, NEW g, ReleaseHold(h, g)
  PROVE  IInv'
<1> DEFINE old == holds[h]
           x   == GivenUp(old, "Released")
<1>0. TypeInv /\ TypeOK /\ Anchored
  BY DEF IInv, TypeInv
<1>1. /\ UNCHANGED <<reservations, nextReservationId>>
      /\ holds' = [holds EXCEPT ![h] = x]
      /\ envelopes' = [envelopes EXCEPT ![old.resource] = Unheld(@, old)]
      /\ old # None
  BY DEF ReleaseHold
<1>2. old \in Hold /\ old.quantity \in Nat /\ old.resource \in ResourceId
  BY <1>1, HoldClaimOf DEF Hold
<1>3. x \in Hold /\ x.state = "Released" /\ x.appliedToEnvelope = FALSE
  <2>1. "Released" \in HoldStates
    BY DEF HoldStates
  <2> HIDE DEF old
  <2> QED BY <1>2, <2>1, GivenUpLaw
<1> HIDE DEF x
<1>4. holds'[h] = x /\ \A k \in HoldId : k # h => holds'[k] = holds[k]
  BY <1>0, <1>1 DEF TypeOK
<1>5. IdsFresh'
  BY <1>1 DEF IInv, IdsFresh, Exists
<1>6. FlagsFollowClaims'
  BY <1>1, <1>3, <1>4 DEF IInv, FlagsFollowClaims, HoldsCapacity, Exists
<1>7. \A r, t : HeldAt(LiveHolds(r), t)' = HeldAt(LiveHolds(r), t) - HeldClaim(h, r, t)
  <2> SUFFICES ASSUME NEW r, NEW t
               PROVE  HeldAt(LiveHolds(r), t)' =
                        HeldAt(LiveHolds(r), t) - HeldClaim(h, r, t)
    OBVIOUS
  <2>1. \A k \in HoldId : k # h => HeldClaim(k, r, t)' = HeldClaim(k, r, t)
    BY <1>4, HoldClaimSame
  <2>2. HeldAt(LiveHolds(r), t)' =
          HeldAt(LiveHolds(r), t) + HeldClaim(h, r, t)' - HeldClaim(h, r, t)
    BY <1>0, <2>1, HeldUpdate
  <2>3. HeldClaim(h, r, t)' = 0
    BY <1>3, <1>4, GivenUpClaimsNothing
  <2>4. HeldAt(LiveHolds(r), t) \in Nat
    BY <1>0, ClaimTypes DEF ClaimsTyped, HeldTyped
  <2>5. HeldClaim(h, r, t) \in Nat
    BY <1>1, <1>2, HoldClaimOf
  <2> QED BY <2>2, <2>3, <2>4, <2>5
<1>8. \A r, strength, t : LoadAt(Commitments(r), strength, t)' =
                            LoadAt(Commitments(r), strength, t)
  BY <1>1, LoadUnchanged
<1>9. ASSUME NEW r \in ResourceId PROVE Exact(r)'
  <2> SUFFICES ASSUME envelopes'[r] # None, NEW t \in Span(envelopes'[r])
               PROVE  /\ envelopes'[r].hard[t] = LoadAt(Commitments(r), "Hard", t)'
                      /\ envelopes'[r].soft[t] = LoadAt(Commitments(r), "Soft", t)'
                      /\ envelopes'[r].held[t] = HeldAt(LiveHolds(r), t)'
                      /\ envelopes'[r].hard[t] + envelopes'[r].held[t]
                           <= envelopes'[r].cap[t]
    BY DEF Exact
  <2>1. CASE r = old.resource
    <3> DEFINE e == envelopes[r]
               f == Unheld(e, old)
    <3>1. envelopes'[r] = f
      BY <1>0, <1>1, <2>1 DEF TypeOK
    <3>2. e \in Envelope /\ e # None
      <4>1. resources[old.resource] # None
        BY <1>0, <1>1 DEF Anchored
      <4> QED BY <1>0, <1>2, <2>1, <4>1 DEF Anchored, TypeOK
    <3>3. /\ Span(f) = Span(e) /\ f.cap = e.cap /\ f.hard = e.hard
          /\ f.soft = e.soft
          /\ \A u \in Span(e) :
               f.held[u] = IF old.appliedToEnvelope /\ Covers(old.window, u)
                           THEN e.held[u] - old.quantity ELSE e.held[u]
      <4> HIDE DEF old, e
      <4> QED BY <1>2, <3>2, UnheldLaw
    <3>4. t \in Span(e)
      BY <3>1, <3>3
    <3>5. /\ e.hard[t] = LoadAt(Commitments(r), "Hard", t)
          /\ e.soft[t] = LoadAt(Commitments(r), "Soft", t)
          /\ e.held[t] = HeldAt(LiveHolds(r), t)
          /\ e.hard[t] + e.held[t] <= e.cap[t]
      BY <3>2, <3>4 DEF IInv, Exactness, Exact
    <3>6. HeldClaim(h, r, t) = IF old.appliedToEnvelope /\ Covers(old.window, t)
                               THEN old.quantity ELSE 0
      BY <1>1, <2>1, HoldClaimOf
    <3>7. /\ e.hard[t] \in Int /\ e.soft[t] \in Int /\ e.held[t] \in Int
          /\ e.cap[t] \in Int
      BY <3>2, <3>4, Columns
    <3> HIDE DEF e, f, old
    <3> QED BY <1>2, <1>7, <1>8, <3>1, <3>3, <3>4, <3>5, <3>6, <3>7
  <2>2. CASE r # old.resource
    <3>1. envelopes'[r] = envelopes[r]
      BY <1>0, <1>1, <2>2 DEF TypeOK
    <3>2. HeldClaim(h, r, t) = 0
      BY <1>1, <2>2, HoldClaimOf
    <3>3. HeldAt(LiveHolds(r), t) \in Nat
      BY <1>0, ClaimTypes DEF ClaimsTyped, HeldTyped
    <3> QED BY <1>7, <1>8, <3>1, <3>2, <3>3 DEF IInv, Exactness, Exact
  <2> QED BY <2>1, <2>2
<1> QED BY <1>5, <1>6, <1>9 DEF IInv, Exactness


\* Expiry gives up the expired holds and no other.
LEMMA HoldExpiryEnds ==
  ASSUME IInv, NEW now, ExpireHolds(now)
  PROVE  /\ \A h \in ExpiredHolds(now) :
              /\ h \in HoldId /\ holds[h] # None
              /\ holds[h].state = "Acquired" /\ holds[h].appliedToEnvelope
              /\ holds'[h] # None /\ holds'[h].state # "Acquired"
              /\ holds'[h].appliedToEnvelope = FALSE
         /\ \A h \in HoldId : h \notin ExpiredHolds(now) => holds'[h] = holds[h]
<1> DEFINE gone == ExpiredHolds(now)
<1>1. \A h \in HoldId : holds'[h] =
           IF h \in gone THEN GivenUp(holds[h], "Expired") ELSE holds[h]
  BY DEF ExpireHolds
<1>2. \A h \in gone : /\ h \in HoldId /\ holds[h] # None
                      /\ holds[h].state = "Acquired"
                      /\ holds[h].appliedToEnvelope
  BY DEF ExpiredHolds, IInv, FlagsFollowClaims
<1>3. ASSUME NEW h \in gone
      PROVE  /\ holds'[h] # None
             /\ holds'[h].state # "Acquired"
             /\ holds'[h].appliedToEnvelope = FALSE
  <2>1. holds[h] \in Hold /\ "Expired" \in HoldStates
    BY <1>2, HoldClaimOf DEF HoldStates
  <2> DEFINE x == GivenUp(holds[h], "Expired")
  <2>2. x \in Hold /\ x.state = "Expired" /\ x.appliedToEnvelope = FALSE
    BY <2>1, GivenUpLaw
  <2>3. holds'[h] = x
    BY <1>1, <1>2
  <2> HIDE DEF x
  <2> QED BY <2>2, <2>3
<1>4. \A h \in HoldId : h \notin gone => holds'[h] = holds[h]
  BY <1>1
<1> QED BY <1>2, <1>3, <1>4

\* Expiry of holds takes out exactly what they claimed.
LEMMA ExpireHoldsKeeps ==
  ASSUME IInv, TypeInv', NEW now, ExpireHolds(now)
  PROVE  IInv'
<1> DEFINE gone == ExpiredHolds(now)
           without(r) == {h \in gone : /\ holds[h].resource = r
                                       /\ holds[h].appliedToEnvelope}
<1>0. TypeInv /\ TypeOK
  BY DEF IInv, TypeInv
<1>1. /\ UNCHANGED <<reservations, nextReservationId>>
      /\ \A h \in HoldId : holds'[h] =
           IF h \in gone THEN GivenUp(holds[h], "Expired") ELSE holds[h]
      /\ \A r \in ResourceId : envelopes'[r] =
           IF envelopes[r] = None THEN None
           ELSE [envelopes[r] EXCEPT !.held =
                   [t \in Time |-> IF t \in Span(envelopes[r])
                                   THEN envelopes[r].held[t] - HeldAt(without(r), t)
                                   ELSE envelopes[r].held[t]]]
  BY DEF ExpireHolds
<1>2. \A h \in gone : /\ h \in HoldId /\ holds[h] # None
                      /\ holds[h].state = "Acquired"
                      /\ holds[h].appliedToEnvelope
  BY HoldExpiryEnds
<1>3. \A h \in gone : /\ holds'[h] # None
                      /\ holds'[h].state # "Acquired"
                      /\ holds'[h].appliedToEnvelope = FALSE
  BY HoldExpiryEnds
<1>4. \A h \in HoldId : h \notin gone => holds'[h] = holds[h]
  BY HoldExpiryEnds
<1> HIDE DEF gone
<1>5. IdsFresh'
  BY <1>1 DEF IInv, IdsFresh, Exists
<1>6. FlagsFollowClaims'
  BY <1>1, <1>3, <1>4 DEF IInv, FlagsFollowClaims, HoldsCapacity, Exists
<1>7. ASSUME NEW r \in ResourceId PROVE Exact(r)'
  <2>1. without(r) \subseteq {h \in HoldId : holds[h] # None}
    BY <1>2
  <2>2. ASSUME NEW t
        PROVE  HeldAt(LiveHolds(r), t)' =
                 HeldAt(LiveHolds(r), t) - HeldAt(without(r), t)
    <3>1. ASSUME NEW h \in HoldId
          PROVE  HeldClaim(h, r, t) = HeldClaim(h, r, t)' + HoldShare(h, without(r), t)
      <4>0. HeldClaim(h, r, t) \in Nat
        <5>1. HeldTyped(r, t) /\ h \in 1..LastHoldId
          BY <1>0, ClaimTypes DEF ClaimsTyped, HoldId
        <5> QED BY <5>1 DEF HeldTyped
      <4>1. CASE h \in gone
        <5>1. HeldClaim(h, r, t)' = 0
          BY <1>3, <4>1, GivenUpClaimsNothing
        <5>2. h \in LiveHolds(r) <=> h \in without(r)
          BY <1>2, <4>1 DEF LiveHolds
        <5>3. HeldClaim(h, r, t) = HoldShare(h, without(r), t)
          BY <5>2 DEF HeldClaim, HoldShare
        <5> QED BY <4>0, <5>1, <5>3
      <4>2. CASE h \notin gone
        <5>1. HeldClaim(h, r, t)' = HeldClaim(h, r, t)
          BY <1>4, <4>2, HoldClaimSame
        <5>2. HoldShare(h, without(r), t) = 0
          BY <4>2 DEF HoldShare
        <5> QED BY <4>0, <5>1, <5>2
      <4> QED BY <4>1, <4>2
    <3> HIDE DEF without
    <3> QED BY <1>0, <2>1, <3>1, HeldSplit
  <2>3. \A strength, t : LoadAt(Commitments(r), strength, t)' =
                           LoadAt(Commitments(r), strength, t)
    BY <1>1, LoadUnchanged
  <2> SUFFICES ASSUME envelopes'[r] # None, NEW t \in Span(envelopes'[r])
               PROVE  /\ envelopes'[r].hard[t] = LoadAt(Commitments(r), "Hard", t)'
                      /\ envelopes'[r].soft[t] = LoadAt(Commitments(r), "Soft", t)'
                      /\ envelopes'[r].held[t] = HeldAt(LiveHolds(r), t)'
                      /\ envelopes'[r].hard[t] + envelopes'[r].held[t]
                           <= envelopes'[r].cap[t]
    BY DEF Exact
  <2> DEFINE e == envelopes[r]
             col == [u \in Time |-> IF u \in Span(e)
                                    THEN e.held[u] - HeldAt(without(r), u)
                                    ELSE e.held[u]]
             f == [e EXCEPT !.held = col]
  <2>4. envelopes'[r] = f /\ e # None /\ e \in Envelope
    BY <1>0, <1>1 DEF TypeOK
  <2>5. /\ f.cap = e.cap /\ f.hard = e.hard /\ f.soft = e.soft
        /\ f.from = e.from /\ f.held = col
    <3> HIDE DEF e, col
    <3> QED BY <2>4 DEF Envelope
  <2>6. Span(f) = Span(e)
    <3> HIDE DEF f, e
    <3> QED BY <2>5 DEF Span
  <2>7. t \in Span(e) /\ t \in Time
    BY <2>4, <2>6 DEF Span
  <2>8. /\ e.hard[t] = LoadAt(Commitments(r), "Hard", t)
        /\ e.soft[t] = LoadAt(Commitments(r), "Soft", t)
        /\ e.held[t] = HeldAt(LiveHolds(r), t)
        /\ e.hard[t] + e.held[t] <= e.cap[t]
    BY <2>4, <2>7 DEF IInv, Exactness, Exact
  <2>9. HeldAt(without(r), t) \in Nat
    <3> HIDE DEF without
    <3> QED BY <1>0, <2>1, HeldType
  <2>10. /\ e.hard[t] \in Int /\ e.soft[t] \in Int /\ e.held[t] \in Int
         /\ e.cap[t] \in Int
    BY <2>4, <2>7, Columns
  <2>11. col[t] = e.held[t] - HeldAt(without(r), t)
    BY <2>7
  <2> HIDE DEF e, f, col, without
  <2> QED BY <2>2, <2>3, <2>4, <2>5, <2>8, <2>9, <2>10, <2>11
<1> QED BY <1>5, <1>6, <1>7 DEF IInv, Exactness

\* What the headroom of an admission leaves at every instant it covers.
LEMMA AdmittedFits ==
  ASSUME NEW e \in Envelope, NEW strength, NEW w, NEW d \in Int,
         Headroom(e, strength, w) >= d, NEW t \in Span(e), Covers(w, t)
  PROVE  strength = "Hard" => e.hard[t] + e.held[t] + d <= e.cap[t]
<1>1. t \in CellsOf(e, w)
  BY DEF CellsOf
<1>2. /\ Headroom(e, strength, w) \in Int
      /\ Headroom(e, strength, w) <= Slack(e, strength, t)
  BY <1>1, HeadroomBound
<1>3. strength = "Hard" => Slack(e, strength, t) = e.cap[t] - e.hard[t] - e.held[t]
  BY DEF Slack, HardSlack
<1> QED BY <1>2, <1>3, Columns

\* createHold makes an acquired hold that fits.
LEMMA HoldMakes ==
  ASSUME IInv, NEW spec \in HoldSpec, NEW home \in ResourceId,
         NEW now \in HoldClock, CreateHold(spec, home, now)
  PROVE  LET h == spec.holdId IN
         /\ h \in HoldId
         /\ UNCHANGED <<reservations, nextReservationId>>
         /\ envelopes' = [envelopes EXCEPT ![home] =
                            AddHeld(@, spec.window, spec.quantity)]
         /\ HeadroomOn(home, "Hard", spec.window) >= spec.quantity
         /\ spec.quantity > 0
         /\ resources[home] # None
         /\ holds'[h] # None /\ holds'[h].state = "Acquired"
         /\ holds'[h].resource = home /\ holds'[h].window = spec.window
         /\ holds'[h].quantity = spec.quantity
         /\ holds'[h].appliedToEnvelope = TRUE
         /\ holds'[h].holdGeneration = spec.holdGeneration
         /\ \A k \in HoldId : k # h => holds'[k] = holds[k]
<1> DEFINE h == spec.holdId
<1>0. TypeInv /\ TypeOK /\ Anchored /\ h \in HoldId
  BY SpecFields DEF IInv, TypeInv
<1>1. /\ UNCHANGED <<reservations, nextReservationId>>
      /\ envelopes' = [envelopes EXCEPT ![home] =
                         AddHeld(@, spec.window, spec.quantity)]
      /\ HeadroomOn(home, "Hard", spec.window) >= spec.quantity
      /\ spec.quantity > 0
      /\ resources[home] # None
  BY DEF CreateHold, Holdable, Chosen, Matching
<1>2. /\ holds'[h] # None /\ holds'[h].state = "Acquired"
      /\ holds'[h].resource = home /\ holds'[h].window = spec.window
      /\ holds'[h].quantity = spec.quantity
      /\ holds'[h].appliedToEnvelope = TRUE
      /\ holds'[h].holdGeneration = spec.holdGeneration
      /\ \A k \in HoldId : k # h => holds'[k] = holds[k]
  <2> DEFINE x == [holdGeneration |-> spec.holdGeneration,
              quantity |-> spec.quantity, window |-> spec.window,
              commitAuthority |-> spec.commitAuthority, state |-> "Acquired",
              resource |-> home, expiry |-> now + HoldLease,
              appliedToEnvelope |-> TRUE]
  <2>1. holds' = [holds EXCEPT ![h] = x]
    BY DEF CreateHold
  <2>2. holds'[h] = x /\ \A k \in HoldId : k # h => holds'[k] = holds[k]
    <3> HIDE DEF x, h
    <3> QED BY <1>0, <2>1 DEF TypeOK
  <2>3. /\ holds'[h].appliedToEnvelope = TRUE
        /\ holds'[h].holdGeneration = spec.holdGeneration
    BY <2>2
  <2>4. holds'[h] # None
    <3>1. holds'[h] \in Hold
      <4>1. spec.quantity \in Nat \ {0} /\ now + HoldLease \in Nat
        BY <1>1, SpecFields
      <4> QED BY <2>2, <4>1, SpecFields DEF Hold, HoldStates
    <3> QED BY <3>1
  <2> QED BY <2>2, <2>3, <2>4
<1> QED BY <1>0, <1>1, <1>2

\* A new hold adds exactly its quantity, which fits.
LEMMA CreateHoldKeeps ==
  ASSUME IInv, TypeInv', NEW spec \in HoldSpec, NEW home \in ResourceId,
         NEW now \in HoldClock, CreateHold(spec, home, now),
         holds[spec.holdId] = None
  PROVE  IInv'
<1> DEFINE h == spec.holdId
<1>0. TypeInv /\ TypeOK /\ Anchored /\ h \in HoldId
  BY SpecFields DEF IInv, TypeInv
<1>1. /\ UNCHANGED <<reservations, nextReservationId>>
      /\ envelopes' = [envelopes EXCEPT ![home] =
                         AddHeld(@, spec.window, spec.quantity)]
      /\ HeadroomOn(home, "Hard", spec.window) >= spec.quantity
      /\ spec.quantity > 0
      /\ resources[home] # None
  BY HoldMakes
<1>2. /\ holds'[h] # None /\ holds'[h].state = "Acquired"
      /\ holds'[h].resource = home /\ holds'[h].window = spec.window
      /\ holds'[h].quantity = spec.quantity
      /\ holds'[h].appliedToEnvelope = TRUE
      /\ \A k \in HoldId : k # h => holds'[k] = holds[k]
  BY HoldMakes
<1>3. holds[h] = None /\ spec.quantity \in Nat
  BY <1>1, SpecFields
<1> HIDE DEF h
<1>4. IdsFresh'
  BY <1>1 DEF IInv, IdsFresh, Exists
<1>5. FlagsFollowClaims'
  BY <1>1, <1>2 DEF IInv, FlagsFollowClaims, HoldsCapacity, Exists
<1>6. \A r, t : HeldAt(LiveHolds(r), t)' = HeldAt(LiveHolds(r), t) +
                  (IF r = home /\ Covers(spec.window, t) THEN spec.quantity ELSE 0)
  <2> SUFFICES ASSUME NEW r, NEW t
               PROVE  HeldAt(LiveHolds(r), t)' = HeldAt(LiveHolds(r), t) +
                  (IF r = home /\ Covers(spec.window, t) THEN spec.quantity ELSE 0)
    OBVIOUS
  <2>1. \A k \in HoldId : k # h => HeldClaim(k, r, t)' = HeldClaim(k, r, t)
    BY <1>2, HoldClaimSame
  <2>2. HeldAt(LiveHolds(r), t)' =
          HeldAt(LiveHolds(r), t) + HeldClaim(h, r, t)' - HeldClaim(h, r, t)
    BY <1>0, <2>1, HeldUpdate
  <2>3. HeldClaim(h, r, t) = 0
    BY <1>3 DEF HeldClaim, HoldShare, LiveHolds
  <2>4. HeldClaim(h, r, t)' = IF r = home /\ Covers(spec.window, t)
                              THEN spec.quantity ELSE 0
    BY <1>0, <1>2 DEF HeldClaim, HoldShare, LiveHolds
  <2>5. HeldAt(LiveHolds(r), t) \in Nat
    BY <1>0, ClaimTypes DEF ClaimsTyped, HeldTyped
  <2> QED BY <1>3, <2>2, <2>3, <2>4, <2>5
<1>7. \A r, strength, t : LoadAt(Commitments(r), strength, t)' =
                            LoadAt(Commitments(r), strength, t)
  BY <1>1, LoadUnchanged
<1>8. ASSUME NEW r \in ResourceId PROVE Exact(r)'
  <2> SUFFICES ASSUME envelopes'[r] # None, NEW t \in Span(envelopes'[r])
               PROVE  /\ envelopes'[r].hard[t] = LoadAt(Commitments(r), "Hard", t)'
                      /\ envelopes'[r].soft[t] = LoadAt(Commitments(r), "Soft", t)'
                      /\ envelopes'[r].held[t] = HeldAt(LiveHolds(r), t)'
                      /\ envelopes'[r].hard[t] + envelopes'[r].held[t]
                           <= envelopes'[r].cap[t]
    BY DEF Exact
  <2>1. CASE r = home
    <3> DEFINE e == envelopes[r]
               f == AddHeld(e, spec.window, spec.quantity)
    <3>1. envelopes'[r] = f
      BY <1>0, <1>1, <2>1 DEF TypeOK
    <3>2. e \in Envelope /\ e # None
      BY <1>0, <1>1, <2>1 DEF Anchored, TypeOK
    <3>3. /\ Span(f) = Span(e) /\ f.cap = e.cap /\ f.hard = e.hard
          /\ f.soft = e.soft
          /\ \A u \in Time :
               f.held[u] = IF u \in CellsOf(e, spec.window)
                           THEN e.held[u] + spec.quantity ELSE e.held[u]
      <4> HIDE DEF e
      <4> QED BY <1>3, <3>2, AddHeldLaw
    <3>4. /\ t \in Span(e) /\ t \in Time
          /\ t \in CellsOf(e, spec.window) <=> Covers(spec.window, t)
      BY <3>1, <3>3 DEF Span, CellsOf
    <3>5. /\ e.hard[t] = LoadAt(Commitments(r), "Hard", t)
          /\ e.soft[t] = LoadAt(Commitments(r), "Soft", t)
          /\ e.held[t] = HeldAt(LiveHolds(r), t)
          /\ e.hard[t] + e.held[t] <= e.cap[t]
      BY <3>2, <3>4 DEF IInv, Exactness, Exact
    <3>6. Covers(spec.window, t) => e.hard[t] + e.held[t] + spec.quantity <= e.cap[t]
      <4>1. Headroom(e, "Hard", spec.window) >= spec.quantity
        BY <1>1, <2>1 DEF HeadroomOn
      <4> HIDE DEF e
      <4> QED BY <1>3, <3>2, <3>4, <4>1, AdmittedFits
    <3>7. /\ e.hard[t] \in Int /\ e.soft[t] \in Int /\ e.held[t] \in Int
          /\ e.cap[t] \in Int
      BY <3>2, <3>4, Columns
    <3> HIDE DEF e, f
    <3> QED BY <1>3, <1>6, <1>7, <2>1, <3>1, <3>3, <3>4, <3>5, <3>6, <3>7
  <2>2. CASE r # home
    <3>1. envelopes'[r] = envelopes[r]
      BY <1>0, <1>1, <2>2 DEF TypeOK
    <3>3. HeldAt(LiveHolds(r), t) \in Nat
      BY <1>0, ClaimTypes DEF ClaimsTyped, HeldTyped
    <3> QED BY <1>6, <1>7, <2>2, <3>1, <3>3 DEF IInv, Exactness, Exact
  <2> QED BY <2>1, <2>2
<1> QED BY <1>4, <1>5, <1>8 DEF IInv, Exactness


\* What a commitment does: the next id, unused until then, becomes a
\* reservation on the terms of the request, which fits, and the hold it was
\* made with is used up.
CommitsAs(q, home, h, id) ==
  LET loaded == AddCommitted(envelopes[home], q.strength, q.window, q.quantity) IN
  /\ nextReservationId' = id
  /\ HeadroomOn(home, q.strength, q.window) >= q.quantity
  /\ q.quantity > 0
  /\ resources[home] # None
  /\ reservations[id] = None
  /\ \A k \in ReservationId : k > id => reservations[k] = None
  /\ reservations'[id] # None
  /\ reservations'[id].resource = home
  /\ reservations'[id].strength = q.strength
  /\ reservations'[id].window = q.window
  /\ reservations'[id].quantity = q.quantity
  /\ reservations'[id].request = q.requestId
  /\ reservations'[id].lifecycle \in CapacityHolding
  /\ reservations'[id].contributesEnvelope = TRUE
  /\ \A k \in ReservationId : k # id => reservations'[k] = reservations[k]
  /\ h = None =>
       /\ envelopes' = [envelopes EXCEPT ![home] = loaded]
       /\ holds' = holds
  /\ h # None =>
       /\ h \in HoldId /\ holds[h] # None /\ holds[h].resource = home
       /\ holds[h].state = "Acquired"
       /\ holds[h].appliedToEnvelope
       /\ holds[h] \in Hold /\ holds[h].quantity \in Nat
       /\ envelopes' = [envelopes EXCEPT ![home] =
            AddHeld(loaded, holds[h].window, -holds[h].quantity)]
       /\ holds'[h] # None /\ holds'[h].state # "Acquired"
       /\ holds'[h].appliedToEnvelope = FALSE
       /\ \A k \in HoldId : k # h => holds'[k] = holds[k]

\* commit does that.
LEMMA CommitMakes ==
  ASSUME IInv, NEW q \in Request, NEW home \in ResourceId,
         NEW h \in HoldId \cup {None}, Commit(q, home, h), ~q.partialAllowed
  PROVE  \E id \in ReservationId : CommitsAs(q, home, h, id)
<1>a. PICK id \in ReservationId : id = nextReservationId + 1
  BY DEF Commit, IInv, TypeInv, TypeOK, ReservationId
<1> DEFINE e0 == envelopes[home]
           loaded == AddCommitted(e0, q.strength, q.window, q.quantity)
           x == NewReservation(q, home, currentGen[id] + 1)
<1>0. TypeInv /\ TypeOK /\ Anchored
  BY DEF IInv, TypeInv
<1>1. /\ nextReservationId' = id
      /\ id \in ReservationId /\ id \in Nat
      /\ reservations' = [reservations EXCEPT ![id] = x]
      /\ HeadroomOn(home, q.strength, q.window) >= q.quantity
      /\ q.quantity > 0
      /\ resources[home] # None
  BY <1>0, <1>a DEF Commit, Admissible, ValidRequest, Chosen, Matching,
                    ReservationId, TypeOK
<1>3. /\ reservations[id] = None
      /\ \A k \in ReservationId : k > id => reservations[k] = None
  <2>1. nextReservationId \in Nat /\ \A k \in ReservationId : k \in Nat
    BY <1>0 DEF TypeOK, ReservationId
  <2> QED BY <1>1, <1>a, <2>1 DEF IInv, IdsFresh, Exists
<1>4. /\ reservations'[id] # None
      /\ reservations'[id].resource = home
      /\ reservations'[id].strength = q.strength
      /\ reservations'[id].window = q.window
      /\ reservations'[id].quantity = q.quantity
      /\ reservations'[id].request = q.requestId
      /\ reservations'[id].lifecycle \in CapacityHolding
      /\ reservations'[id].contributesEnvelope = TRUE
      /\ \A k \in ReservationId : k # id => reservations'[k] = reservations[k]
  <2> DEFINE g == currentGen[id] + 1
  <2>1. g \in Nat \ {0} /\ resources[home] \in Resource
    <3>1. currentGen[id] \in Nat
      BY <1>0, <1>1 DEF TypeOK
    <3> QED BY <1>0, <1>1, <3>1 DEF TypeOK
  <2>2. /\ x \in Reservation
        /\ x.resource = home /\ x.strength = q.strength /\ x.window = q.window
        /\ x.quantity = q.quantity /\ x.lifecycle = "Committed"
        /\ x.contributesEnvelope = TRUE /\ x.request = q.requestId
    <3> DEFINE y == NewReservation(q, home, g)
    <3>1. /\ y \in Reservation
          /\ y.resource = home /\ y.strength = q.strength
          /\ y.window = q.window /\ y.quantity = q.quantity
          /\ y.lifecycle = "Committed" /\ y.contributesEnvelope = TRUE
          /\ y.request = q.requestId
      <4>1. y \in Reservation
        <5> HIDE DEF g
        <5> QED BY <1>1, <2>1, NewReservationLaw
      <4> QED BY <4>1 DEF NewReservation
    <3>2. x = y
      OBVIOUS
    <3> HIDE DEF x, y
    <3> QED BY <3>1, <3>2
  <2>3. reservations'[id] = x
        /\ \A k \in ReservationId : k # id => reservations'[k] = reservations[k]
    <3> HIDE DEF x
    <3> QED BY <1>0, <1>1 DEF TypeOK
  <2> HIDE DEF x
  <2> QED BY <2>2, <2>3, LifecycleNames
<1> HIDE DEF x
<1>6. ASSUME h # None
      PROVE  /\ h \in HoldId /\ holds[h] # None /\ holds[h].resource = home
             /\ holds[h].state = "Acquired"
             /\ holds[h].appliedToEnvelope
             /\ holds[h] \in Hold /\ holds[h].quantity \in Nat
             /\ envelopes' = [envelopes EXCEPT ![home] =
                  AddHeld(loaded, holds[h].window, -holds[h].quantity)]
             /\ holds'[h] # None /\ holds'[h].state # "Acquired"
             /\ holds'[h].appliedToEnvelope = FALSE
             /\ \A k \in HoldId : k # h => holds'[k] = holds[k]
  <2>1. /\ h \in HoldId /\ holds[h] # None /\ holds[h].resource = home
        /\ holds[h].state = "Acquired"
        /\ holds' = [holds EXCEPT ![h] = GivenUp(holds[h], "Committed")]
        /\ envelopes' = [envelopes EXCEPT ![home] =
                  AddHeld(loaded, holds[h].window, -holds[h].quantity)]
    BY <1>6 DEF Commit, Redeemable
  <2>2. /\ holds[h].appliedToEnvelope
        /\ holds[h] \in Hold /\ holds[h].quantity \in Nat
    BY <2>1, HoldClaimOf DEF IInv, FlagsFollowClaims
  <2> DEFINE y == GivenUp(holds[h], "Committed")
  <2>3. y \in Hold /\ y.state = "Committed" /\ y.appliedToEnvelope = FALSE
    <3>1. "Committed" \in HoldStates
      BY DEF HoldStates
    <3> QED BY <2>2, <3>1, GivenUpLaw
  <2>4. holds'[h] = y /\ \A k \in HoldId : k # h => holds'[k] = holds[k]
    <3> HIDE DEF y
    <3>1. holds' = [holds EXCEPT ![h] = y]
      BY <2>1 DEF y
    <3> QED BY <1>0, <2>1, <3>1 DEF TypeOK
  <2> HIDE DEF y, loaded
  <2> QED BY <2>1, <2>2, <2>3, <2>4
<1>7. ASSUME h = None
      PROVE  envelopes' = [envelopes EXCEPT ![home] = loaded] /\ holds' = holds
  BY <1>7 DEF Commit
<1> HIDE DEF loaded
<1>8. CommitsAs(q, home, h, id)
  BY <1>1, <1>3, <1>4, <1>6, <1>7 DEF CommitsAs, loaded
<1> QED BY <1>8

\* A commitment adds exactly what was asked, which fits, and a hold it uses up
\* gives back exactly what it claimed.
LEMMA CommitKeeps ==
  ASSUME IInv, TypeInv', NEW q \in Request, NEW home \in ResourceId,
         NEW h \in HoldId \cup {None}, Commit(q, home, h), ~q.partialAllowed
  PROVE  IInv'
<1>a. PICK id \in ReservationId : CommitsAs(q, home, h, id)
  BY CommitMakes
<1> DEFINE e0 == envelopes[home]
           loaded == AddCommitted(e0, q.strength, q.window, q.quantity)
<1>0. TypeInv /\ TypeOK /\ Anchored
  BY DEF IInv, TypeInv
<1>1. /\ nextReservationId' = id
      /\ id \in ReservationId /\ id \in Nat
      /\ HeadroomOn(home, q.strength, q.window) >= q.quantity
      /\ q.quantity > 0
      /\ resources[home] # None
  BY <1>a DEF CommitsAs, ReservationId
<1>2. q.quantity \in Nat /\ q.strength \in Strengths
  BY <1>1, RequestFields
<1>3. /\ reservations[id] = None
      /\ \A k \in ReservationId : k > id => reservations[k] = None
  BY <1>a DEF CommitsAs
<1>4. /\ reservations'[id] # None
      /\ reservations'[id].resource = home
      /\ reservations'[id].strength = q.strength
      /\ reservations'[id].window = q.window
      /\ reservations'[id].quantity = q.quantity
      /\ reservations'[id].request = q.requestId
      /\ reservations'[id].lifecycle \in CapacityHolding
      /\ reservations'[id].contributesEnvelope = TRUE
      /\ \A k \in ReservationId : k # id => reservations'[k] = reservations[k]
  BY <1>a DEF CommitsAs
<1>5. IdsFresh'
  <2>1. \A k \in ReservationId : k > id => k # id
    BY <1>1 DEF ReservationId
  <2> QED BY <1>1, <1>3, <1>4, <2>1 DEF IdsFresh, Exists
<1>6. ASSUME h # None
      PROVE  /\ h \in HoldId /\ holds[h] # None /\ holds[h].resource = home
             /\ holds[h].appliedToEnvelope
             /\ holds[h] \in Hold /\ holds[h].quantity \in Nat
             /\ envelopes' = [envelopes EXCEPT ![home] =
                  AddHeld(loaded, holds[h].window, -holds[h].quantity)]
             /\ holds'[h] # None /\ holds'[h].state # "Acquired"
             /\ holds'[h].appliedToEnvelope = FALSE
             /\ \A k \in HoldId : k # h => holds'[k] = holds[k]
  BY <1>6, <1>a DEF CommitsAs
<1>7. ASSUME h = None
      PROVE  envelopes' = [envelopes EXCEPT ![home] = loaded] /\ holds' = holds
  BY <1>7, <1>a DEF CommitsAs
<1>8. FlagsFollowClaims'
  <2>1. \A k \in ReservationId : Exists(k)' =>
          (reservations'[k].contributesEnvelope <=> HoldsCapacity(k)')
    BY <1>4 DEF IInv, FlagsFollowClaims, HoldsCapacity, Exists
  <2>2. \A k \in HoldId : holds'[k] # None =>
          (holds'[k].appliedToEnvelope <=> holds'[k].state = "Acquired")
    BY <1>6, <1>7 DEF IInv, FlagsFollowClaims
  <2> QED BY <2>1, <2>2 DEF FlagsFollowClaims
<1> DEFINE added(r, strength, t) ==
             IF r = home /\ strength = q.strength /\ Covers(q.window, t)
             THEN q.quantity ELSE 0
           freed(r, t) == IF h = None THEN 0 ELSE HeldClaim(h, r, t)
<1>9. ASSUME NEW r, NEW strength, NEW t
      PROVE  LoadAt(Commitments(r), strength, t)' =
               LoadAt(Commitments(r), strength, t) + added(r, strength, t)
  <2>1. \A k \in ReservationId : k # id =>
          Claim(k, r, strength, t)' = Claim(k, r, strength, t)
    BY <1>4 DEF Claim, Share, Commitments, HoldsCapacity, Exists
  <2>2. LoadAt(Commitments(r), strength, t)' =
          LoadAt(Commitments(r), strength, t)
            + Claim(id, r, strength, t)' - Claim(id, r, strength, t)
    BY <1>0, <1>1, <2>1, LoadUpdate
  <2>3. Claim(id, r, strength, t) = 0
    BY <1>3 DEF Claim, Share, Commitments, HoldsCapacity, Exists
  <2>4. Claim(id, r, strength, t)' = added(r, strength, t)
    BY <1>1, <1>4 DEF Claim, Share, Commitments, HoldsCapacity, Exists
  <2>5. LoadAt(Commitments(r), strength, t) \in Nat
    BY <1>0, ClaimTypes DEF ClaimsTyped, LoadTyped
  <2>6. added(r, strength, t) \in Nat
    BY <1>2
  <2> HIDE DEF added
  <2> QED BY <2>2, <2>3, <2>4, <2>5, <2>6
<1>10. ASSUME NEW r, NEW t
       PROVE  /\ HeldAt(LiveHolds(r), t)' = HeldAt(LiveHolds(r), t) - freed(r, t)
              /\ HeldAt(LiveHolds(r), t) \in Nat /\ freed(r, t) \in Nat
  <2>1. HeldAt(LiveHolds(r), t) \in Nat
    BY <1>0, ClaimTypes DEF ClaimsTyped, HeldTyped
  <2>2. CASE h = None
    <3>1. HeldAt(LiveHolds(r), t)' = HeldAt(LiveHolds(r), t)
      BY <1>7, <2>2, HeldSame
    <3> QED BY <2>1, <2>2, <3>1
  <2>3. CASE h # None
    <3>1. \A k \in HoldId : k # h => HeldClaim(k, r, t)' = HeldClaim(k, r, t)
      BY <1>6, <2>3, HoldClaimSame
    <3>2. HeldAt(LiveHolds(r), t)' =
            HeldAt(LiveHolds(r), t) + HeldClaim(h, r, t)' - HeldClaim(h, r, t)
      BY <1>0, <1>6, <2>3, <3>1, HeldUpdate
    <3>3. HeldClaim(h, r, t)' = 0
      BY <1>6, <2>3, GivenUpClaimsNothing
    <3>4. HeldClaim(h, r, t) \in Nat
      BY <1>6, <2>3, HoldClaimOf
    <3> QED BY <2>1, <2>3, <3>2, <3>3, <3>4
  <2> QED BY <2>2, <2>3
<1>11. ASSUME NEW r \in ResourceId PROVE Exact(r)'
  <2> SUFFICES ASSUME envelopes'[r] # None, NEW t \in Span(envelopes'[r])
               PROVE  /\ envelopes'[r].hard[t] = LoadAt(Commitments(r), "Hard", t)'
                      /\ envelopes'[r].soft[t] = LoadAt(Commitments(r), "Soft", t)'
                      /\ envelopes'[r].held[t] = HeldAt(LiveHolds(r), t)'
                      /\ envelopes'[r].hard[t] + envelopes'[r].held[t]
                           <= envelopes'[r].cap[t]
    BY DEF Exact
  <2>1. CASE r = home
    <3> DEFINE f == envelopes'[r]
    <3>1. e0 \in Envelope /\ e0 # None
      BY <1>0, <1>1 DEF Anchored, TypeOK
    <3>2. /\ loaded \in Envelope
          /\ Span(loaded) = Span(e0) /\ loaded.cap = e0.cap
          /\ loaded.held = e0.held
          /\ \A u \in Time :
               /\ loaded.hard[u] = IF q.strength = "Hard" /\ u \in CellsOf(e0, q.window)
                                   THEN e0.hard[u] + q.quantity ELSE e0.hard[u]
               /\ loaded.soft[u] = IF q.strength # "Hard" /\ u \in CellsOf(e0, q.window)
                                   THEN e0.soft[u] + q.quantity ELSE e0.soft[u]
      <4> HIDE DEF e0
      <4> QED BY <1>2, <3>1, AddCommittedLaw
    <3> HIDE DEF loaded
    <3>3. /\ Span(f) = Span(e0) /\ f.cap = e0.cap
          /\ f.hard = loaded.hard /\ f.soft = loaded.soft
          /\ \A u \in Span(e0) : f.held[u] = e0.held[u] - freed(r, u)
      <4>1. CASE h = None
        <5>1. f = loaded
          BY <1>0, <1>7, <2>1, <4>1 DEF TypeOK
        <5>2. \A u \in Span(e0) : e0.held[u] \in Int
          BY <3>1, Columns
        <5> HIDE DEF f, e0
        <5> QED BY <3>2, <4>1, <5>1, <5>2
      <4>2. CASE h # None
        <5> DEFINE y == AddHeld(loaded, holds[h].window, -holds[h].quantity)
        <5>1. f = y
          BY <1>0, <1>6, <2>1, <4>2 DEF TypeOK
        <5>2. -holds[h].quantity \in Int
          BY <1>6, <4>2
        <5>3. /\ Span(y) = Span(loaded) /\ y.cap = loaded.cap
              /\ y.hard = loaded.hard /\ y.soft = loaded.soft
              /\ \A u \in Time :
                   y.held[u] = IF u \in CellsOf(loaded, holds[h].window)
                               THEN loaded.held[u] + (-holds[h].quantity)
                               ELSE loaded.held[u]
          BY <3>2, <5>2, AddHeldLaw
        <5>4. ASSUME NEW u \in Span(e0)
              PROVE  y.held[u] = e0.held[u] - freed(r, u)
          <6>1. e0.held[u] \in Int /\ u \in Time
            BY <3>1, Columns
          <6>2. u \in CellsOf(loaded, holds[h].window) <=> Covers(holds[h].window, u)
            BY <3>2, <6>1 DEF CellsOf
          <6>3. freed(r, u) = IF Covers(holds[h].window, u)
                              THEN holds[h].quantity ELSE 0
            BY <1>6, <2>1, <4>2, HoldClaimOf
          <6> HIDE DEF freed, y, e0
          <6> QED BY <1>6, <3>2, <4>2, <5>3, <6>1, <6>2, <6>3
        <5> HIDE DEF y, f, e0, freed
        <5> QED BY <3>2, <5>1, <5>3, <5>4
      <4> QED BY <4>1, <4>2
    <3>4. /\ t \in Span(e0) /\ t \in Time
          /\ t \in CellsOf(e0, q.window) <=> Covers(q.window, t)
      BY <3>3 DEF Span, CellsOf
    <3>5. /\ e0.hard[t] = LoadAt(Commitments(r), "Hard", t)
          /\ e0.soft[t] = LoadAt(Commitments(r), "Soft", t)
          /\ e0.held[t] = HeldAt(LiveHolds(r), t)
          /\ e0.hard[t] + e0.held[t] <= e0.cap[t]
      BY <2>1, <3>1, <3>4 DEF IInv, Exactness, Exact
    <3>6. q.strength = "Hard" /\ Covers(q.window, t) =>
            e0.hard[t] + e0.held[t] + q.quantity <= e0.cap[t]
      <4>1. Headroom(e0, q.strength, q.window) >= q.quantity
        BY <1>1 DEF HeadroomOn
      <4> HIDE DEF e0
      <4> QED BY <1>2, <3>1, <3>4, <4>1, AdmittedFits
    <3>7. /\ e0.hard[t] \in Int /\ e0.soft[t] \in Int /\ e0.held[t] \in Int
          /\ e0.cap[t] \in Int
      BY <3>1, <3>4, Columns
    <3>8. /\ f.hard[t] = e0.hard[t] + added(r, "Hard", t)
          /\ f.soft[t] = e0.soft[t] + added(r, "Soft", t)
          /\ f.held[t] = e0.held[t] - freed(r, t)
          /\ f.cap[t] = e0.cap[t]
      <4>1. q.strength # "Hard" <=> q.strength = "Soft"
        BY <1>2 DEF Strengths
      <4> HIDE DEF f, e0, freed
      <4> QED BY <2>1, <3>2, <3>3, <3>4, <3>7, <4>1
    <3>9. added(r, "Hard", t) = 0 \/ e0.hard[t] + e0.held[t] + added(r, "Hard", t) <= e0.cap[t]
      BY <2>1, <3>6
    <3>10. added(r, "Hard", t) \in Nat
      BY <1>2
    <3> HIDE DEF f, e0, freed, added
    <3>11. f.hard[t] + f.held[t] <= f.cap[t]
      BY <1>10, <3>5, <3>7, <3>8, <3>9, <3>10
    <3>12. /\ f.hard[t] = LoadAt(Commitments(r), "Hard", t)'
           /\ f.soft[t] = LoadAt(Commitments(r), "Soft", t)'
           /\ f.held[t] = HeldAt(LiveHolds(r), t)'
      BY <1>9, <1>10, <3>5, <3>8
    <3> QED BY <3>11, <3>12 DEF f
  <2>2. CASE r # home
    <3>1. envelopes'[r] = envelopes[r]
      <4>1. CASE h = None
        BY <1>0, <1>7, <2>2, <4>1 DEF TypeOK
      <4>2. CASE h # None
        BY <1>0, <1>6, <2>2, <4>2 DEF TypeOK
      <4> QED BY <4>1, <4>2
    <3>2. freed(r, t) = 0
      BY <1>6, <2>2, HoldClaimOf
    <3>3. \A strength : added(r, strength, t) = 0
      BY <2>2
    <3>4. \A strength : LoadAt(Commitments(r), strength, t) \in Nat
      BY <1>0, ClaimTypes DEF ClaimsTyped, LoadTyped
    <3> HIDE DEF freed, added
    <3> QED BY <1>9, <1>10, <3>1, <3>2, <3>3, <3>4 DEF IInv, Exactness, Exact
  <2> QED BY <2>1, <2>2
<1> QED BY <1>5, <1>8, <1>11 DEF IInv, Exactness


\* A resource no reservation and no hold refers to carries no load.
Unclaimed(r) == Commitments(r) = {} /\ LiveHolds(r) = {}

UnclaimedIsEmpty ==
  \A r, strength, t : Unclaimed(r) =>
    LoadAt(Commitments(r), strength, t) = 0 /\ HeldAt(LiveHolds(r), t) = 0

\* The loads of an unclaimed resource are sums of zeros.
LEMMA NoClaims == UnclaimedIsEmpty
<1> SUFFICES ASSUME NEW r, NEW strength, NEW t, Unclaimed(r)
             PROVE  /\ LoadAt(Commitments(r), strength, t) = 0
                    /\ HeldAt(LiveHolds(r), t) = 0
  BY DEF UnclaimedIsEmpty
<1>1. LoadAt(Commitments(r), strength, t) = 0
  <2> DEFINE f == [id \in 1..LastReservationId |-> Share(id, Commitments(r), strength, t)]
  <2>1. \A id \in 1..LastReservationId : Share(id, Commitments(r), strength, t) = 0
    BY DEF Unclaimed, Share
  <2>2. /\ f \in [1..LastReservationId -> Int]
        /\ \A id \in 1..LastReservationId : f[id] = 0
    BY <2>1
  <2>3. LoadAt(Commitments(r), strength, t) = SumTo(f, LastReservationId)
    BY DEF LoadAt
  <2> HIDE DEF f
  <2> QED BY <2>2, <2>3, SumZero
<1>2. HeldAt(LiveHolds(r), t) = 0
  <2> DEFINE f == [h \in 1..LastHoldId |-> HoldShare(h, LiveHolds(r), t)]
  <2>1. \A h \in 1..LastHoldId : HoldShare(h, LiveHolds(r), t) = 0
    BY DEF Unclaimed, HoldShare
  <2>2. /\ f \in [1..LastHoldId -> Int]
        /\ \A h \in 1..LastHoldId : f[h] = 0
    BY <2>1
  <2>3. HeldAt(LiveHolds(r), t) = SumTo(f, LastHoldId)
    BY DEF HeldAt
  <2> HIDE DEF f
  <2> QED BY <2>2, <2>3, SumZero
<1> QED BY <1>1, <1>2

\* Nothing refers to a resource that was never published.
LEMMA UnpublishedIsUnclaimed ==
  ASSUME TypeInv, NEW r \in ResourceId, resources[r] = None
  PROVE  Unclaimed(r)
BY DEF TypeInv, Anchored, Unclaimed, Commitments, LiveHolds, HoldsCapacity,
       Exists, ResourceOf

\* A first publication gives its resource a new envelope and changes no
\* reservation: there is none on the resource.
LEMMA FirstPublication ==
  ASSUME TypeInv, NEW p \in Publications, PublishResource(p),
         resources[p.id] = None
  PROVE  /\ p.id \in ResourceId /\ p.totalCapacity > 0
         /\ Unclaimed(p.id)
         /\ envelopes' = [envelopes EXCEPT ![p.id] =
              AddAll(NewEnvelope(p.availableFrom, p.overbookRatio,
                                 p.totalCapacity, p.unavailable), {}, 1)]
         /\ UNCHANGED <<reservations, holds, nextReservationId>>
<1> DEFINE new == NewEnvelope(p.availableFrom, p.overbookRatio,
                              p.totalCapacity, p.unavailable)
<1>0. TypeOK /\ p.id \in ResourceId
  BY PublicationFields DEF TypeInv
<1>1. Unclaimed(p.id)
  BY <1>0, UnpublishedIsUnclaimed
<1>2. Install(p) /\ p.totalCapacity > 0 /\ UNCHANGED <<holds, nextReservationId>>
  BY DEF PublishResource, OldNews
<1>3. /\ InUseOn(p.id) = {}
      /\ {id \in Commitments(p.id) : ~reservations[id].contributesEnvelope} = {}
  BY <1>1 DEF Unclaimed, InUseOn
<1>4. envelopes' = [envelopes EXCEPT ![p.id] = AddAll(new, {}, 1)]
  BY <1>2, <1>3 DEF Install
<1>5. reservations' = [id \in ReservationId |->
                         WithLifecycle({}, "RevalidationRequired")[id]]
  BY <1>2, <1>3 DEF Install
<1>6. reservations' = reservations
  BY <1>0, <1>5 DEF WithLifecycle, TypeOK
<1> QED BY <1>0, <1>1, <1>2, <1>4, <1>6

\* A first publication gives a resource nothing refers to an empty envelope,
\* and any other that the discipline allows changes no claim.
LEMMA PublishResourceKeeps ==
  ASSUME IInv, TypeInv', NEW p \in Publications, PublishResource(p),
         resources[p.id] = None \/ OldNews(p)
  PROVE  IInv'
<1>0. TypeInv /\ TypeOK /\ p.id \in ResourceId
  BY PublicationFields DEF IInv, TypeInv
<1>1. UNCHANGED <<holds, nextReservationId>>
  BY DEF PublishResource
<1>2. CASE OldNews(p)
  <2>1. UNCHANGED <<envelopes, reservations>>
    BY <1>2 DEF PublishResource
  <2> QED BY <1>1, <2>1, ClaimsKept DEF SameClaim, SameTerms, Exists
<1>3. CASE resources[p.id] = None /\ ~OldNews(p)
  <2> DEFINE new == NewEnvelope(p.availableFrom, p.overbookRatio,
                                p.totalCapacity, p.unavailable)
  <2>1. /\ Unclaimed(p.id) /\ p.totalCapacity > 0
        /\ envelopes' = [envelopes EXCEPT ![p.id] = AddAll(new, {}, 1)]
        /\ reservations' = reservations
    BY <1>0, <1>3, FirstPublication
  <2>2. envelopes' = [envelopes EXCEPT ![p.id] = AddAll(new, {}, 1)] /\ p.totalCapacity > 0
    BY <2>1
  <2>3. reservations' = reservations
    BY <2>1
  <2>4. IdsFresh' /\ FlagsFollowClaims'
    BY <1>1, <2>3 DEF IInv, IdsFresh, FlagsFollowClaims, HoldsCapacity, Exists
  <2>5. \A r, strength, t :
          /\ LoadAt(Commitments(r), strength, t)' = LoadAt(Commitments(r), strength, t)
          /\ HeldAt(LiveHolds(r), t)' = HeldAt(LiveHolds(r), t)
    BY <1>1, <2>3, LoadUnchanged, HeldSame
  <2>6. ASSUME NEW r \in ResourceId PROVE Exact(r)'
    <3>1. CASE r = p.id
      <4> DEFINE f == AddAll(new, {}, 1)
      <4>1. envelopes'[r] = f
        BY <1>0, <2>2, <3>1 DEF TypeOK
      <4>2. \A strength, t : /\ LoadAt(Commitments(r), strength, t) = 0
                             /\ HeldAt(LiveHolds(r), t) = 0
        BY <2>1, <3>1, NoClaims DEF UnclaimedIsEmpty
      <4>3. \A strength, t : LoadAt({}, strength, t) = 0
        BY <2>1, <3>1, <4>2 DEF Unclaimed
      <4>4. /\ new \in Envelope
            /\ \A t \in Time : /\ new.hard[t] = 0 /\ new.soft[t] = 0
                               /\ new.held[t] = 0 /\ new.cap[t] >= 0
        <5>1. p.totalCapacity >= 0
          BY <2>2, PublicationFields
        <5> QED BY <5>1, PublicationFields, NewEnvelopeLaw
      <4>5. /\ Span(f) = Span(new) /\ f.cap = new.cap /\ f.held = new.held
            /\ \A t \in Span(new) :
                 /\ f.hard[t] = new.hard[t] + 1 * LoadAt({}, "Hard", t)
                 /\ f.soft[t] = new.soft[t] + 1 * LoadAt({}, "Soft", t)
        <5> HIDE DEF new
        <5> QED BY <1>0, <4>4, AddAllLaw
      <4>6. \A t \in Span(f) : /\ f.hard[t] = 0 /\ f.soft[t] = 0
                               /\ f.held[t] = 0 /\ f.cap[t] >= 0
        <5>1. Span(new) \subseteq Time
          BY DEF Span
        <5> HIDE DEF f, new
        <5> QED BY <4>3, <4>4, <4>5, <5>1
      <4>7. \A t \in Span(f) : f.cap[t] \in Int
        <5>1. \A t \in Span(new) : new.cap[t] \in Int
          <6> HIDE DEF new
          <6> QED BY <4>4, Columns
        <5> HIDE DEF f, new
        <5> QED BY <4>5, <5>1
      <4> HIDE DEF f
      <4> QED BY <2>5, <4>1, <4>2, <4>6, <4>7 DEF Exact
    <3>2. CASE r # p.id
      <4>1. envelopes'[r] = envelopes[r]
        BY <1>0, <2>2, <3>2 DEF TypeOK
      <4> QED BY <2>5, <4>1 DEF IInv, Exactness, Exact
    <3> QED BY <3>1, <3>2
  <2> QED BY <2>4, <2>6 DEF IInv, Exactness
<1> QED BY <1>2, <1>3

-----------------------------------------------------------------------------
\* The invariant holds at first: there is no envelope yet.
LEMMA InvariantInit == Init => IInv
<1> SUFFICES ASSUME Init PROVE IInv
  OBVIOUS
<1>1. IdsFresh /\ FlagsFollowClaims /\ Exactness
  BY DEF Init, IdsFresh, FlagsFollowClaims, Exactness, Exact, Exists
<1> QED BY <1>1, TypeInit DEF IInv

\* A stuttering step keeps it.
LEMMA InvariantStutter ==
  ASSUME IInv, UNCHANGED vars
  PROVE  IInv'
<1>1. TypeInv'
  BY StutterTypes DEF IInv
<1>2. UNCHANGED <<envelopes, holds, nextReservationId, reservations>>
  BY DEF vars
<1> QED BY <1>1, <1>2, ClaimsKept DEF SameClaim, SameTerms, Exists

\* The operations that leave the registry alone, or fence and suspend.
LEMMA FencingKeeps ==
  ASSUME IInv, TypeInv',
         \/ \E e \in 1..MaxAuthority : SetCoordinatorEpoch(e)
         \/ \E r \in ResourceId : InvalidateResource(r)
         \/ \E r \in ResourceId, g \in ResourceGenerations, available \in BOOLEAN :
              AdvanceResourceGeneration(r, g, available)
  PROVE  IInv' /\ SameClaims
<1>1. ASSUME NEW e \in 1..MaxAuthority, SetCoordinatorEpoch(e)
      PROVE  IInv' /\ SameClaims
  <2>1. UNCHANGED <<envelopes, holds, nextReservationId, reservations>>
    BY <1>1 DEF SetCoordinatorEpoch
  <2> QED BY <2>1, ClaimsKept DEF SameClaims, SameClaim, SameTerms, Exists
<1>2. ASSUME NEW r \in ResourceId, InvalidateResource(r)
      PROVE  IInv' /\ SameClaims
  <2>1. Commitments(r) \subseteq {id \in ReservationId : HoldsCapacity(id)}
    BY DEF Commitments
  <2>2. /\ reservations' = WithLifecycle(Commitments(r), "RevalidationRequired")
        /\ UNCHANGED <<envelopes, holds, nextReservationId>>
    BY <1>2 DEF InvalidateResource
  <2>3. "RevalidationRequired" \in CapacityHolding
    BY LifecycleNames
  <2> QED BY <2>1, <2>2, <2>3, LifecyclesKept
<1>3. ASSUME NEW r \in ResourceId, NEW g \in ResourceGenerations,
             NEW available \in BOOLEAN, AdvanceResourceGeneration(r, g, available)
      PROVE  IInv' /\ SameClaims
  <2>1. InUseOn(r) \subseteq {id \in ReservationId : HoldsCapacity(id)}
    BY DEF InUseOn, Commitments
  <2>2. /\ reservations' = WithLifecycle(InUseOn(r), "RevalidationRequired")
        /\ UNCHANGED <<envelopes, holds, nextReservationId>>
    BY <1>3 DEF AdvanceResourceGeneration
  <2>3. "RevalidationRequired" \in CapacityHolding
    BY LifecycleNames
  <2> QED BY <2>1, <2>2, <2>3, LifecyclesKept
<1> QED BY <1>1, <1>2, <1>3

\* Every step of a disciplined caller keeps the invariant.
LEMMA InvariantNext == IInv /\ [DisciplinedNext]_vars => IInv'
<1> SUFFICES ASSUME IInv, DisciplinedNext PROVE IInv'
  BY InvariantStutter
<1>1. TypeInv'
  BY NextTypes, DisciplinedIsNext DEF IInv
<1>2. CASE Everyday
  BY <1>1, <1>2, FencingKeeps, RevalidateResourceKeeps, ReleaseHoldKeeps,
     ExpireHoldsKeeps, ActivateKeeps, ConsumeKeeps, ReleaseKeeps, CancelKeeps,
     ExpireDueKeeps DEF Everyday
<1>3. CASE ~Everyday
  <2>1. HoldSpecs \subseteq HoldSpec /\ Requests \subseteq Request
    OBVIOUS
  <2> QED BY <1>1, <1>3, <2>1, PublishResourceKeeps, CreateHoldKeeps,
             CommitKeeps, ActivateStaleKeeps, TransferKeeps
          DEF DisciplinedNext
<1> QED BY <1>2, <1>3

\* Under the disciplined callers the flags, the envelopes and the registry
\* never go out of step, on any number of resources, reservations and holds.
THEOREM Accounting == DisciplinedSpec => []AccountingInvariant
<1>1. IInv => AccountingInvariant
  BY InvariantParts
<1> QED BY InvariantInit, InvariantNext, <1>1, PTL DEF DisciplinedSpec

\* HARD reservations are never overbooked, whatever the capacities, windows
\* and quantities: no interleaving of admissions, holds, expiry and release
\* lets an instant carry more than its capacity.
THEOREM NoOverbooking == DisciplinedSpec => []NeverOverbooked
<1>1. AccountingInvariant => NeverOverbooked
  BY DEF AccountingInvariant
<1> QED BY Accounting, <1>1, PTL

\* The index the headroom queries read mirrors the registry exactly.
THEOREM EnvelopesExact == DisciplinedSpec => []EnvelopeMirrorsRegistry
<1>1. AccountingInvariant => EnvelopeMirrorsRegistry
  BY DEF AccountingInvariant
<1> QED BY Accounting, <1>1, PTL

\* Slack is what the registry leaves.
LEMMA SlackIsWhatIsLeft ==
  ASSUME IInv, NEW r \in ResourceId, envelopes[r] # None, NEW t \in Span(envelopes[r])
  PROVE  LET hard == LoadAt(Commitments(r), "Hard", t) + HeldAt(LiveHolds(r), t)
             all  == hard + LoadAt(Commitments(r), "Soft", t)
         IN  /\ hard \in Int /\ all \in Int
             /\ envelopes[r].cap[t] \in Int /\ SoftLimit(envelopes[r], t) \in Int
             /\ Slack(envelopes[r], "Hard", t) = envelopes[r].cap[t] - hard
             /\ Slack(envelopes[r], "Soft", t) = SoftLimit(envelopes[r], t) - all
<1>1. envelopes[r] \in Envelope /\ t \in Time
  BY DEF IInv, TypeInv, TypeOK, Span
<1>2. EnvelopeMirrorsRegistry
  BY InvariantParts DEF AccountingInvariant
<1>3. PICK hard, soft, held : /\ hard = LoadAt(Commitments(r), "Hard", t)
                              /\ soft = LoadAt(Commitments(r), "Soft", t)
                              /\ held = HeldAt(LiveHolds(r), t)
  OBVIOUS
<1>4. PICK e : e = envelopes[r]
  OBVIOUS
<1>5. e.hard[t] = hard /\ e.soft[t] = soft /\ e.held[t] = held
  BY <1>2, <1>3, <1>4 DEF EnvelopeMirrorsRegistry
<1>6. e.cap[t] \in Int /\ hard \in Int /\ soft \in Int /\ held \in Int
  BY <1>1, <1>4, <1>5 DEF Envelope
<1>7. PICK limit \in Int : limit = SoftLimit(e, t)
  BY <1>1, <1>4, SoftLimitType
<1>8. Slack(e, "Hard", t) = e.cap[t] - (hard + held)
  BY <1>5, <1>6 DEF Slack, HardSlack
<1>9. Slack(e, "Soft", t) = limit - (hard + held + soft)
  BY <1>5, <1>6, <1>7 DEF Slack, SoftSlack
<1> QED BY <1>3, <1>4, <1>6, <1>7, <1>8, <1>9

\* Admission goes by the index, and the index decides as the registry would:
\* under the disciplined callers a request passes against the headroom of a
\* resource exactly when it fits beside the reservations that hold capacity
\* there and the live holds, at every instant of its window (headroom,
\* capacity.hpp; assessOne, runtime_core.cpp).
THEOREM AdmissionIsExact == DisciplinedSpec => []AdmissionExact
<1>1. ASSUME IInv
      PROVE  AdmissionExact
  <2> SUFFICES ASSUME NEW q \in Requests, NEW r \in ResourceId,
                      envelopes[r] # None, q.quantity <= NoLimit
               PROVE  HeadroomOn(r, q.strength, q.window) >= q.quantity <=> Fits(q, r)
    BY DEF AdmissionExact
  <2>1. PICK e \in Envelope : e = envelopes[r]
    BY <1>1 DEF IInv, TypeInv, TypeOK
  <2>2. q.quantity \in Int /\ q.strength \in {"Hard", "Soft"}
    BY RuntimeAssumption DEF Request, Strengths
  <2>3. HeadroomOn(r, q.strength, q.window) >= q.quantity
          <=> \A t \in CellsOf(e, q.window) : Slack(e, q.strength, t) >= q.quantity
    BY <2>1, <2>2, HeadroomMeets DEF HeadroomOn
  <2>4. ASSUME NEW t \in CellsOf(e, q.window)
        PROVE  Slack(e, q.strength, t) >= q.quantity
                 <=> LET hard == LoadAt(Commitments(r), "Hard", t) + HeldAt(LiveHolds(r), t)
                         all  == hard + LoadAt(Commitments(r), "Soft", t)
                     IN  IF q.strength = "Hard" THEN hard + q.quantity <= e.cap[t]
                         ELSE all + q.quantity <= SoftLimit(e, t)
    <3>1. t \in Span(e)
      BY DEF CellsOf
    <3>2. PICK hard, all, cap, limit :
            /\ hard = LoadAt(Commitments(r), "Hard", t) + HeldAt(LiveHolds(r), t)
            /\ all = hard + LoadAt(Commitments(r), "Soft", t)
            /\ cap = e.cap[t] /\ limit = SoftLimit(e, t)
      OBVIOUS
    <3>3. /\ hard \in Int /\ all \in Int /\ cap \in Int /\ limit \in Int
          /\ Slack(e, "Hard", t) = cap - hard /\ Slack(e, "Soft", t) = limit - all
      BY <1>1, <2>1, <3>1, <3>2, SlackIsWhatIsLeft
    <3>4. Slack(e, q.strength, t) >= q.quantity
            <=> IF q.strength = "Hard" THEN hard + q.quantity <= cap
                ELSE all + q.quantity <= limit
      <4>1. CASE q.strength = "Hard"
        BY <2>2, <3>3, <4>1
      <4>2. CASE q.strength = "Soft"
        BY <2>2, <3>3, <4>2
      <4> QED BY <2>2, <4>1, <4>2
    <3> QED BY <3>2, <3>4
  <2> QED BY <2>1, <2>3, <2>4 DEF Fits
<1>2. IInv => AdmissionExact
  BY <1>1
<1> QED BY InvariantInit, InvariantNext, <1>2, PTL DEF DisciplinedSpec

=============================================================================

