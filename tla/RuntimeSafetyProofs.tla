------------------------- MODULE RuntimeSafetyProofs -------------------------
(***************************************************************************)
(* What the runtime guarantees any caller, however undisciplined: nothing  *)
(* is in use on a resource that is not available, nothing is consumed      *)
(* beyond its promise, and the generations of a reservation follow one     *)
(* another without a gap.  The first two are inductive once the types are  *)
(* known; the third needs that a new reservation id was never used before. *)
(*                                                                         *)
(* From these follow what a step may do: AllFollow says how a reservation  *)
(* goes on, in its generation or in the next, which no operation rewrites; *)
(* BootsKept how a resource changes hands.  The last section follows the   *)
(* lifecycle of reservations whose callers are disciplined through the     *)
(* published transition table.                                             *)
(***************************************************************************)
EXTENDS ReservationRuntimeProofs, FiniteSetTheorems

USE RuntimeAssumption

\* An id without a reservation has no generation and no history.
UnusedIdsBlank ==
  \A id \in ReservationId : ~Exists(id) => currentGen[id] = 0 /\ history[id] = <<>>

GenerationsInv == IdsFresh /\ UnusedIdsBlank /\ HistoryContiguous

\* What one record says of consumption.
WithinPromise(r) ==
  /\ r.consumed <= r.quantity
  /\ r.lifecycle = "Consumed" => Remaining(r) = 0
  /\ r.lifecycle = "PartiallyConsumed" => r.consumed \in 1..(r.quantity - 1)

\* Lifecycles that say nothing of use or consumption.
Resting ==
  {"Committed", "PendingActivation", "RevalidationRequired", "Released",
   "Expired", "Cancelled"}

\* x is r with another lifecycle, other evidence or another flag.
Alike(x, r) ==
  /\ x.generation = r.generation /\ x.resource = r.resource
  /\ x.quantity = r.quantity /\ x.consumed = r.consumed
  /\ x.lifecycle \in Resting \cup {"Active", r.lifecycle}

\* A step that leaves every reservation alike, and makes none and drops none.
AllAlike ==
  \A id \in ReservationId :
    /\ reservations'[id] = None <=> reservations[id] = None
    /\ reservations[id] # None => Alike(reservations'[id], reservations[id])

\* No reservation starts to be used, and none moves.
NoneEngaged ==
  \A id \in ReservationId : reservations'[id] # None =>
    /\ reservations[id] # None
    /\ reservations'[id].resource = reservations[id].resource
    /\ reservations'[id].lifecycle \in Resting \cup {reservations[id].lifecycle}

\* Resting is neither use nor activation.
LEMMA RestingNames == Resting \cap InUse = {} /\ "Active" \notin Resting
BY DEF Resting, InUse

\* One record rewritten as one that is alike.
LEMMA OneAlike ==
  ASSUME TypeInv, NEW id \in ReservationId, Exists(id), NEW x,
         x # None, Alike(x, reservations[id]),
         reservations' = [reservations EXCEPT ![id] = x]
  PROVE  AllAlike
<1>1. reservations'[id] = x
      /\ \A i \in ReservationId \ {id} : reservations'[i] = reservations[i]
  BY DEF TypeInv, TypeOK
<1> QED BY <1>1 DEF AllAlike, Alike, Exists

\* A record with another lifecycle is alike.
LEMMA LifecycleAlike ==
  ASSUME NEW r \in Reservation, NEW l \in Resting \cup {"Active"}
  PROVE  /\ [r EXCEPT !.lifecycle = l] # None
         /\ Alike([r EXCEPT !.lifecycle = l], r)
<1>1. l \in Lifecycles
  BY LifecycleNames DEF Resting
<1>2. [r EXCEPT !.lifecycle = l] \in Reservation
  BY <1>1, LifecycleUpdate
<1> QED BY <1>2 DEF Alike, Reservation

LEMMA WithLifecycleAlike ==
  ASSUME TypeInv, NEW S, S \subseteq {id \in ReservationId : Exists(id)},
         NEW l \in Resting, NEW x, x = WithLifecycle(S, l),
         NEW id \in ReservationId
  PROVE  /\ x[id] = None <=> reservations[id] = None
         /\ reservations[id] # None => Alike(x[id], reservations[id])
         /\ id \in S => x[id].lifecycle = l
         /\ id \notin S => x[id] = reservations[id]
<1>1. CASE id \in S
  <2>1. reservations[id] \in Reservation /\ reservations[id] # None
    BY <1>1 DEF TypeInv, TypeOK, Exists
  <2>2. x[id] = [reservations[id] EXCEPT !.lifecycle = l]
    BY <1>1 DEF WithLifecycle
  <2>3. x[id].lifecycle = l
    BY <2>1, <2>2 DEF Reservation
  <2> QED BY <1>1, <2>1, <2>2, <2>3, LifecycleAlike
<1>2. CASE id \notin S
  BY <1>2 DEF WithLifecycle, Alike
<1> QED BY <1>1, <1>2

-----------------------------------------------------------------------------
(* What steps of the simple shapes preserve.                               *)

\* Consumption is looked after record by record.
LEMMA AlikeWithinPromise ==
  ASSUME AllAlike, ConsumptionWithinPromise
  PROVE  ConsumptionWithinPromise'
<1> SUFFICES ASSUME NEW id \in ReservationId, Exists(id)'
             PROVE  WithinPromise(reservations'[id])
  BY DEF ConsumptionWithinPromise, WithinPromise, Remaining
<1>1. Exists(id) /\ Alike(reservations'[id], reservations[id])
  BY DEF Exists, AllAlike
<1>2. WithinPromise(reservations[id])
  BY <1>1 DEF ConsumptionWithinPromise, WithinPromise, Remaining
<1> QED BY <1>1, <1>2 DEF Alike, WithinPromise, Remaining, Resting

\* Generations stay as they are.
LEMMA AlikeGenerations ==
  ASSUME AllAlike, GenerationsInv,
         UNCHANGED <<currentGen, history, nextReservationId>>
  PROVE  GenerationsInv'
<1>1. \A id \in ReservationId : Exists(id)' <=> Exists(id)
  BY DEF AllAlike, Exists
<1>2. IdsFresh' /\ UnusedIdsBlank'
  BY <1>1 DEF GenerationsInv, IdsFresh, UnusedIdsBlank
<1>3. \A id \in ReservationId : Exists(id) =>
        reservations'[id].generation = reservations[id].generation
  BY DEF AllAlike, Alike, Exists
<1>4. HistoryContiguous'
  BY <1>1, <1>3 DEF GenerationsInv, HistoryContiguous
<1> QED BY <1>2, <1>4 DEF GenerationsInv

\* While the resources stay, nothing comes into use on an unavailable one.
LEMMA QuietUse ==
  ASSUME NoneEngaged, UNCHANGED resources, InUseOnlyOnAvailable
  PROVE  InUseOnlyOnAvailable'
BY RestingNames DEF NoneEngaged, InUseOnlyOnAvailable, Exists, ResourceOf

Safety == ConsumptionWithinPromise /\ GenerationsInv /\ InUseOnlyOnAvailable

LEMMA SafetyInit == Init => Safety
BY DEF Init, Safety, ConsumptionWithinPromise, GenerationsInv, IdsFresh,
       UnusedIdsBlank, HistoryContiguous, InUseOnlyOnAvailable, Exists

\* A step that concerns neither resources nor reservations.
LEMMA SafetyUntouched ==
  ASSUME Safety, UNCHANGED <<resources, reservations, currentGen, history,
                             nextReservationId>>
  PROVE  Safety'
BY DEF Safety, ConsumptionWithinPromise, GenerationsInv, IdsFresh,
       UnusedIdsBlank, HistoryContiguous, InUseOnlyOnAvailable, Exists,
       ResourceOf, Remaining

LEMMA SafetyAlike ==
  ASSUME Safety, AllAlike, UNCHANGED <<currentGen, history, nextReservationId>>,
         InUseOnlyOnAvailable'
  PROVE  Safety'
BY AlikeWithinPromise, AlikeGenerations DEF Safety

-----------------------------------------------------------------------------
(* The operations on resources: what they fence, they suspend.             *)

\* Nothing comes into use but by activation and consumption.
LEMMA FencedUse ==
  ASSUME TypeInv, InUseOnlyOnAvailable, AllAlike,
         NEW r \in ResourceId,
         \A q \in ResourceId \ {r} : resources'[q] = resources[q],
         resources'[r] # None,
         \A id \in ReservationId :
           Exists(id) /\ reservations'[id].lifecycle \in InUse =>
             /\ reservations[id].lifecycle \in InUse
             /\ reservations[id].resource = r => resources'[r].available
  PROVE  InUseOnlyOnAvailable'
<1> SUFFICES ASSUME NEW id \in ReservationId, Exists(id)',
                    reservations'[id].lifecycle \in InUse
             PROVE  /\ resources'[reservations'[id].resource] # None
                    /\ resources'[reservations'[id].resource].available
  BY DEF InUseOnlyOnAvailable, ResourceOf
<1>1. Exists(id) /\ reservations'[id].resource = reservations[id].resource
  BY DEF AllAlike, Alike, Exists
<1>2. reservations[id].resource \in ResourceId
  BY <1>1, CurrentReservation
<1>3. CASE reservations[id].resource = r
  BY <1>1, <1>3
<1>4. CASE reservations[id].resource # r
  <2>1. /\ resources[reservations[id].resource] # None
        /\ resources[reservations[id].resource].available
    BY <1>1 DEF InUseOnlyOnAvailable, ResourceOf
  <2> QED BY <1>1, <1>2, <1>4, <2>1
<1> QED BY <1>3, <1>4

\* publishResource suspends what is in use before it replaces the envelope.
LEMMA PublishResourceSafe ==
  ASSUME TypeInv, Safety, NEW p \in Publications, PublishResource(p)
  PROVE  Safety'
<1>1. UNCHANGED <<currentGen, history, nextReservationId>>
  BY DEF PublishResource
<1>2. CASE OldNews(p)
  <2>1. UNCHANGED <<resources, reservations>>
    BY <1>2 DEF PublishResource
  <2> QED BY <1>1, <2>1, SafetyUntouched
<1>3. CASE ~OldNews(p)
  <2> DEFINE lost == {id \in Commitments(p.id) : ~reservations[id].contributesEnvelope}
             flagged == WithLifecycle(InUseOn(p.id), "RevalidationRequired")
             record == [generation |-> p.generation,
                        resourceClass |-> p.resourceClass,
                        totalCapacity |-> p.totalCapacity, owner |-> p.worker,
                        ownerBoot |-> p.workerBoot, available |-> TRUE]
  <2>1. /\ resources' = [resources EXCEPT ![p.id] = record]
        /\ reservations' = [id \in ReservationId |->
             IF id \in lost THEN [flagged[id] EXCEPT !.contributesEnvelope = TRUE]
             ELSE flagged[id]]
    BY <1>3 DEF PublishResource, Install
  <2>2. InUseOn(p.id) \subseteq {id \in ReservationId : Exists(id)}
    BY DEF InUseOn, Commitments, HoldsCapacity
  <2>3. ASSUME NEW id \in ReservationId
        PROVE  /\ flagged[id] = None <=> reservations[id] = None
               /\ reservations[id] # None => Alike(flagged[id], reservations[id])
               /\ id \in InUseOn(p.id) => flagged[id].lifecycle = "RevalidationRequired"
               /\ id \notin InUseOn(p.id) => flagged[id] = reservations[id]
    <3> HIDE DEF flagged
    <3>1. "RevalidationRequired" \in Resting
      BY DEF Resting
    <3>2. flagged = WithLifecycle(InUseOn(p.id), "RevalidationRequired")
      BY DEF flagged
    <3> QED BY <2>2, <3>1, <3>2, WithLifecycleAlike
  <2>4. flagged \in [ReservationId -> Reservation \cup {None}]
    <3> HIDE DEF flagged
    <3>1. flagged = WithLifecycle(InUseOn(p.id), "RevalidationRequired")
      BY DEF flagged
    <3> QED BY <2>2, <3>1, LifecycleNames, WithLifecycleLaw DEF TypeInv
  <2>5. ASSUME NEW id \in ReservationId
        PROVE  /\ reservations'[id] = None <=> flagged[id] = None
               /\ flagged[id] # None =>
                    /\ reservations'[id].lifecycle = flagged[id].lifecycle
                    /\ reservations'[id].generation = flagged[id].generation
                    /\ reservations'[id].resource = flagged[id].resource
                    /\ reservations'[id].quantity = flagged[id].quantity
                    /\ reservations'[id].consumed = flagged[id].consumed
    <3>1. CASE id \in lost
      <4>1. Exists(id)
        BY <3>1 DEF Commitments, HoldsCapacity
      <4>2. flagged[id] \in Reservation
        BY <2>3, <2>4, <4>1 DEF Exists
      <4> HIDE DEF flagged
      <4>3. reservations'[id] = [flagged[id] EXCEPT !.contributesEnvelope = TRUE]
        BY <2>1, <3>1
      <4>4. reservations'[id] \in Reservation
        BY <4>2, <4>3 DEF Reservation
      <4> QED BY <4>2, <4>3, <4>4 DEF Reservation
    <3>2. CASE id \notin lost
      BY <2>1, <3>2
    <3> QED BY <3>1, <3>2
  <2> HIDE DEF flagged
  <2>6. AllAlike
    BY <2>3, <2>5 DEF AllAlike, Alike
  <2>7. /\ resources'[p.id] # None /\ resources'[p.id].available
        /\ \A q \in ResourceId \ {p.id} : resources'[q] = resources[q]
    <3>1. record \in Resource
      <4>1. p.totalCapacity \in Nat
        BY PublicationFields DEF PublishResource
      <4> QED BY <4>1, PublicationFields DEF Resource
    <3>2. resources'[p.id] = record
      BY <2>1, PublicationFields DEF TypeInv, TypeOK
    <3>3. record # None /\ record.available
      BY <3>1
    <3> HIDE DEF record
    <3> QED BY <2>1, <3>2, <3>3 DEF TypeInv, TypeOK
  <2>8. \A id \in ReservationId :
          Exists(id) /\ reservations'[id].lifecycle \in InUse =>
            reservations[id].lifecycle \in InUse
    BY <2>3, <2>5, RestingNames DEF Exists, InUse
  <2>9. InUseOnlyOnAvailable'
    BY <2>6, <2>7, <2>8, PublicationFields, FencedUse DEF Safety
  <2> QED BY <1>1, <2>6, <2>9, SafetyAlike
<1> QED BY <1>2, <1>3

\* invalidateResource suspends every commitment on the resource.
LEMMA InvalidateResourceSafe ==
  ASSUME TypeInv, Safety, NEW r \in ResourceId, InvalidateResource(r)
  PROVE  Safety'
<1>1. /\ UNCHANGED <<currentGen, history, nextReservationId>>
      /\ reservations' = WithLifecycle(Commitments(r), "RevalidationRequired")
      /\ resources' = [resources EXCEPT ![r] = [resources[r] EXCEPT !.available = FALSE]]
      /\ resources[r] # None
  BY DEF InvalidateResource
<1>2. /\ Commitments(r) \subseteq {id \in ReservationId : Exists(id)}
      /\ "RevalidationRequired" \in Resting
  BY DEF Commitments, HoldsCapacity, Resting
<1>3. \A id \in ReservationId :
        /\ reservations'[id] = None <=> reservations[id] = None
        /\ reservations[id] # None => Alike(reservations'[id], reservations[id])
        /\ id \in Commitments(r) => reservations'[id].lifecycle = "RevalidationRequired"
        /\ id \notin Commitments(r) => reservations'[id] = reservations[id]
  BY <1>1, <1>2, WithLifecycleAlike
<1>4. AllAlike
  BY <1>3 DEF AllAlike
<1>5. resources'[r] # None /\ \A q \in ResourceId \ {r} : resources'[q] = resources[q]
  <2>1. resources[r] \in Resource
    BY <1>1 DEF TypeInv, TypeOK
  <2>2. [resources[r] EXCEPT !.available = FALSE] \in Resource
    BY <2>1 DEF Resource
  <2> QED BY <1>1, <2>2 DEF TypeInv, TypeOK
<1>6. ASSUME NEW id \in ReservationId, Exists(id),
             reservations'[id].lifecycle \in InUse
      PROVE  reservations[id].lifecycle \in InUse /\ reservations[id].resource # r
  <2>1. id \notin Commitments(r)
    BY <1>2, <1>3, <1>6, RestingNames
  <2>2. reservations[id].lifecycle \in CapacityHolding
    BY <1>3, <1>6, <2>1, LifecycleNames
  <2> QED BY <1>3, <1>6, <2>1, <2>2 DEF Commitments, HoldsCapacity
<1>7. InUseOnlyOnAvailable'
  BY <1>4, <1>5, <1>6, FencedUse DEF Safety
<1> QED BY <1>1, <1>4, <1>7, SafetyAlike

\* advanceResourceGeneration suspends what is in use on the resource.
LEMMA AdvanceResourceGenerationSafe ==
  ASSUME TypeInv, Safety, NEW r \in ResourceId, NEW g \in Nat,
         NEW available \in BOOLEAN, AdvanceResourceGeneration(r, g, available)
  PROVE  Safety'
<1> DEFINE x == [resources[r] EXCEPT !.generation = g, !.available = available]
<1>1. /\ UNCHANGED <<currentGen, history, nextReservationId>>
      /\ reservations' = WithLifecycle(InUseOn(r), "RevalidationRequired")
      /\ resources[r] # None
  BY DEF AdvanceResourceGeneration
<1>2. /\ InUseOn(r) \subseteq {id \in ReservationId : Exists(id)}
      /\ "RevalidationRequired" \in Resting
  BY DEF InUseOn, Commitments, HoldsCapacity, Resting
<1>3. \A id \in ReservationId :
        /\ reservations'[id] = None <=> reservations[id] = None
        /\ reservations[id] # None => Alike(reservations'[id], reservations[id])
        /\ id \in InUseOn(r) => reservations'[id].lifecycle = "RevalidationRequired"
        /\ id \notin InUseOn(r) => reservations'[id] = reservations[id]
  BY <1>1, <1>2, WithLifecycleAlike
<1>4. AllAlike
  BY <1>3 DEF AllAlike
<1>5. resources'[r] # None /\ \A q \in ResourceId \ {r} : resources'[q] = resources[q]
  <2>1. resources[r] \in Resource
    BY <1>1 DEF TypeInv, TypeOK
  <2>2. x \in Resource
    BY <2>1 DEF Resource
  <2>3. resources'[r] = x /\ \A q \in ResourceId \ {r} : resources'[q] = resources[q]
    BY DEF AdvanceResourceGeneration, TypeInv, TypeOK
  <2> HIDE DEF x
  <2> QED BY <2>2, <2>3
<1>6. ASSUME NEW id \in ReservationId, Exists(id),
             reservations'[id].lifecycle \in InUse
      PROVE  reservations[id].lifecycle \in InUse /\ reservations[id].resource # r
  <2>1. id \notin InUseOn(r)
    BY <1>2, <1>3, <1>6, RestingNames
  <2>2. reservations[id].lifecycle \in InUse
    BY <1>3, <1>6, <2>1
  <2> QED BY <1>6, <2>1, <2>2, LifecycleNames DEF InUseOn, Commitments, HoldsCapacity
<1>7. InUseOnlyOnAvailable'
  BY <1>4, <1>5, <1>6, FencedUse DEF Safety
<1> QED BY <1>1, <1>4, <1>7, SafetyAlike

\* revalidateResource makes the resource available again.
LEMMA RevalidateResourceSafe ==
  ASSUME TypeInv, Safety, NEW p \in Publications, RevalidateResource(p)
  PROVE  Safety'
<1> DEFINE renewed(r) == [r EXCEPT !.lifecycle = "PendingActivation",
                                   !.boundResourceGeneration = p.generation]
           x == [resources[p.id] EXCEPT !.generation = p.generation,
                   !.owner = p.worker, !.ownerBoot = p.workerBoot,
                   !.available = TRUE]
<1>1. /\ UNCHANGED <<currentGen, history, nextReservationId>>
      /\ resources[p.id] # None
      /\ \A id \in ReservationId :
           reservations'[id] = IF id \in AwaitingRevalidation(p.id)
                               THEN renewed(reservations[id])
                               ELSE reservations[id]
  BY DEF RevalidateResource
<1>2. ASSUME NEW id \in ReservationId, id \in AwaitingRevalidation(p.id)
      PROVE  /\ reservations[id] # None /\ reservations'[id] # None
             /\ Alike(reservations'[id], reservations[id])
             /\ reservations'[id].lifecycle = "PendingActivation"
  <2>1. reservations[id] \in Reservation /\ reservations[id] # None
    BY <1>2 DEF AwaitingRevalidation, Commitments, HoldsCapacity, Exists,
                TypeInv, TypeOK
  <2>2. reservations'[id] = renewed(reservations[id])
    BY <1>1, <1>2
  <2>3. renewed(reservations[id]) \in Reservation
    BY <2>1, PublicationFields, LifecycleNames DEF Reservation
  <2>4. reservations'[id].lifecycle = "PendingActivation"
    BY <2>1, <2>2 DEF Reservation
  <2>5. "PendingActivation" \in Resting
    BY DEF Resting
  <2> QED BY <2>1, <2>2, <2>3, <2>4, <2>5 DEF Alike, Reservation
<1>3. AllAlike
  BY <1>1, <1>2 DEF AllAlike, Alike
<1>4. /\ resources'[p.id] # None /\ resources'[p.id].available
      /\ \A q \in ResourceId \ {p.id} : resources'[q] = resources[q]
  <2>1. resources[p.id] \in Resource
    BY <1>1, PublicationFields DEF TypeInv, TypeOK
  <2>2. x \in Resource /\ x.available
    BY <2>1, PublicationFields DEF Resource
  <2>3. resources'[p.id] = x /\ \A q \in ResourceId \ {p.id} : resources'[q] = resources[q]
    BY PublicationFields DEF RevalidateResource, TypeInv, TypeOK
  <2> HIDE DEF x
  <2> QED BY <2>2, <2>3
<1>5. \A id \in ReservationId :
        Exists(id) /\ reservations'[id].lifecycle \in InUse =>
          reservations[id].lifecycle \in InUse
  BY <1>1, <1>2 DEF InUse
<1>6. InUseOnlyOnAvailable'
  BY <1>3, <1>4, <1>5, PublicationFields, FencedUse DEF Safety
<1> QED BY <1>1, <1>3, <1>6, SafetyAlike

-----------------------------------------------------------------------------
(* The operations on one reservation.                                      *)

\* A record rewritten in place that comes to rest, or to use on a resource
\* that is available.
LEMMA OneSafe ==
  ASSUME TypeInv, Safety, NEW id \in ReservationId, Exists(id),
         NEW x \in Reservation, x.generation = reservations[id].generation,
         x.resource = reservations[id].resource, WithinPromise(x),
         \/ x.lifecycle \in Resting \cup {reservations[id].lifecycle}
         \/ ResourceOf(id) # None /\ ResourceOf(id).available,
         reservations' = [reservations EXCEPT ![id] = x],
         UNCHANGED <<resources, currentGen, history, nextReservationId>>
  PROVE  Safety'
<1>1. /\ reservations'[id] = x
      /\ \A i \in ReservationId \ {id} : reservations'[i] = reservations[i]
      /\ \A i \in ReservationId : Exists(i)' <=> Exists(i)
  BY DEF TypeInv, TypeOK, Exists
<1>2. ConsumptionWithinPromise'
  BY <1>1 DEF Safety, ConsumptionWithinPromise, WithinPromise, Remaining
<1>3. GenerationsInv'
  <2>1. IdsFresh' /\ UnusedIdsBlank'
    BY <1>1 DEF Safety, GenerationsInv, IdsFresh, UnusedIdsBlank
  <2>2. HistoryContiguous'
    BY <1>1 DEF Safety, GenerationsInv, HistoryContiguous
  <2> QED BY <2>1, <2>2 DEF GenerationsInv
<1>4. InUseOnlyOnAvailable'
  BY <1>1, RestingNames DEF Safety, InUseOnlyOnAvailable, ResourceOf
<1> QED BY <1>2, <1>3, <1>4 DEF Safety

\* What is left unsaid of a record is within its promise.
LEMMA RecordWithin ==
  ASSUME TypeInv, Safety, NEW id \in ReservationId, Exists(id)
  PROVE  WithinPromise(reservations[id])
BY DEF Safety, ConsumptionWithinPromise, WithinPromise

LEMMA ActivateStaleSafe ==
  ASSUME TypeInv, Safety, NEW id \in ReservationId, NEW g, ActivateStale(id, g)
  PROVE  Safety'
<1> DEFINE r == reservations[id]
           x == [r EXCEPT !.lifecycle = "RevalidationRequired"]
<1>1. /\ Exists(id) /\ reservations' = [reservations EXCEPT ![id] = x]
      /\ UNCHANGED <<resources, currentGen, history, nextReservationId>>
  BY DEF ActivateStale, Current, OnlyReservationsChange
<1>2. r \in Reservation /\ WithinPromise(r)
  BY <1>1, CurrentReservation, RecordWithin
<1>3. /\ x \in Reservation /\ x.generation = r.generation
      /\ x.resource = r.resource /\ x.quantity = r.quantity
      /\ x.consumed = r.consumed /\ x.lifecycle = "RevalidationRequired"
  BY <1>2, LifecycleNames DEF Reservation
<1>4. WithinPromise(x) /\ x.lifecycle \in Resting \cup {r.lifecycle}
  BY <1>2, <1>3 DEF WithinPromise, Resting
<1> HIDE DEF x
<1> QED BY <1>1, <1>3, <1>4, OneSafe

LEMMA ActivateSafe ==
  ASSUME TypeInv, Safety, NEW id \in ReservationId, NEW g, NEW ev \in Evidence,
         NEW at, Activate(id, g, ev, at)
  PROVE  Safety'
<1> DEFINE r == reservations[id]
           x == [r EXCEPT !.lifecycle = "Active",
                          !.activationGeneration = ev.generation]
<1>1. /\ Exists(id) /\ reservations' = [reservations EXCEPT ![id] = x]
      /\ UNCHANGED <<resources, currentGen, history, nextReservationId>>
      /\ ResourceOf(id) # None /\ ResourceOf(id).available
  BY DEF Activate, Current, OnlyReservationsChange, FreshEvidence
<1>2. r \in Reservation /\ WithinPromise(r)
  BY <1>1, CurrentReservation, RecordWithin
<1>3. /\ x \in Reservation /\ x.generation = r.generation
      /\ x.resource = r.resource /\ x.quantity = r.quantity
      /\ x.consumed = r.consumed /\ x.lifecycle = "Active"
  BY <1>2, LifecycleNames, EvidenceFields DEF Reservation
<1>4. WithinPromise(x)
  BY <1>2, <1>3 DEF WithinPromise
<1> HIDE DEF x
<1> QED BY <1>1, <1>3, <1>4, OneSafe

\* consume takes no more than remains and names the lifecycle accordingly.
LEMMA ConsumeSafe ==
  ASSUME TypeInv, Safety, NEW id \in ReservationId, NEW g,
         NEW amount \in ConsumeAmounts, NEW ev \in Evidence,
         Consume(id, g, amount, ev)
  PROVE  Safety'
<1> DEFINE r == reservations[id]
           c == r.consumed + amount
           l == IF c = r.quantity THEN "Consumed" ELSE "PartiallyConsumed"
           x == [r EXCEPT !.consumed = c, !.consumptionGeneration = ev.generation,
                          !.lifecycle = l]
<1>1. /\ Exists(id) /\ reservations' = [reservations EXCEPT ![id] = x]
      /\ UNCHANGED <<resources, currentGen, history, nextReservationId>>
      /\ ResourceOf(id) # None /\ ResourceOf(id).available
      /\ amount > 0 /\ amount <= r.quantity - r.consumed
  BY DEF Consume, Current, OnlyReservationsChange, FreshEvidence, Remaining
<1>2. /\ r \in Reservation /\ r.consumed \in Nat /\ r.quantity \in Nat
      /\ amount \in Int
  BY <1>1, CurrentReservation
<1>3. c \in Nat /\ 0 < c /\ c <= r.quantity
  BY <1>1, <1>2
<1>4. l \in Lifecycles /\ ev.generation \in Nat
  BY LifecycleNames, EvidenceFields
<1> HIDE DEF c, l
<1>5. /\ x \in Reservation /\ x.generation = r.generation
      /\ x.resource = r.resource /\ x.quantity = r.quantity
      /\ x.consumed = c /\ x.lifecycle = l
  BY <1>2, <1>3, <1>4 DEF Reservation
<1>6. WithinPromise(x)
  <2>1. l = "Consumed" => c = r.quantity
    BY DEF l
  <2>2. l = "PartiallyConsumed" => c # r.quantity
    BY DEF l
  <2> QED BY <1>2, <1>3, <1>5, <2>1, <2>2 DEF WithinPromise, Remaining
<1> HIDE DEF x
<1> QED BY <1>1, <1>5, <1>6, OneSafe DEF c

LEMMA ReleaseSafe ==
  ASSUME TypeInv, Safety, NEW id \in ReservationId, NEW g, NEW ev \in Evidence,
         Release(id, g, ev)
  PROVE  Safety'
<1> DEFINE r == reservations[id]
           x == [Disengage(r, "Released") EXCEPT !.releaseGeneration = ev.generation]
<1>1. /\ Exists(id) /\ reservations' = [reservations EXCEPT ![id] = x]
      /\ UNCHANGED <<resources, currentGen, history, nextReservationId>>
  BY DEF Release, Current
<1>2. r \in Reservation /\ WithinPromise(r)
  BY <1>1, CurrentReservation, RecordWithin
<1>3. /\ x \in Reservation /\ x.generation = r.generation
      /\ x.resource = r.resource /\ x.quantity = r.quantity
      /\ x.consumed = r.consumed /\ x.lifecycle = "Released"
  BY <1>2, LifecycleNames, EvidenceFields DEF Disengage, Reservation
<1>4. WithinPromise(x) /\ x.lifecycle \in Resting \cup {r.lifecycle}
  BY <1>2, <1>3 DEF WithinPromise, Resting
<1> HIDE DEF x
<1> QED BY <1>1, <1>3, <1>4, OneSafe

LEMMA CancelSafe ==
  ASSUME TypeInv, Safety, NEW id \in ReservationId, NEW g, Cancel(id, g)
  PROVE  Safety'
<1> DEFINE r == reservations[id]
           x == Disengage(r, "Cancelled")
<1>1. /\ Exists(id) /\ reservations' = [reservations EXCEPT ![id] = x]
      /\ UNCHANGED <<resources, currentGen, history, nextReservationId>>
  BY DEF Cancel, Current
<1>2. r \in Reservation /\ WithinPromise(r)
  BY <1>1, CurrentReservation, RecordWithin
<1>3. /\ x \in Reservation /\ x.generation = r.generation
      /\ x.resource = r.resource /\ x.quantity = r.quantity
      /\ x.consumed = r.consumed /\ x.lifecycle = "Cancelled"
  BY <1>2, LifecycleNames DEF Disengage, Reservation
<1>4. WithinPromise(x) /\ x.lifecycle \in Resting \cup {r.lifecycle}
  BY <1>2, <1>3 DEF WithinPromise, Resting
<1> HIDE DEF x
<1> QED BY <1>1, <1>3, <1>4, OneSafe

\* expireDue disengages many reservations at once.
LEMMA ExpireDueSafe ==
  ASSUME TypeInv, Safety, NEW now, ExpireDue(now)
  PROVE  Safety'
<1>1. /\ UNCHANGED <<resources, currentGen, history, nextReservationId>>
      /\ \A id \in ReservationId :
           reservations'[id] = IF id \in Due(now)
                               THEN Disengage(reservations[id], "Expired")
                               ELSE reservations[id]
  BY DEF ExpireDue
<1>2. ASSUME NEW id \in ReservationId, id \in Due(now)
      PROVE  /\ reservations[id] # None /\ reservations'[id] # None
             /\ Alike(reservations'[id], reservations[id])
             /\ reservations'[id].lifecycle = "Expired"
  <2>1. reservations[id] \in Reservation /\ reservations[id] # None
    BY <1>2 DEF Due, HoldsCapacity, Exists, TypeInv, TypeOK
  <2>2. reservations'[id] = Disengage(reservations[id], "Expired")
    BY <1>1, <1>2
  <2>3. Disengage(reservations[id], "Expired") \in Reservation
    BY <2>1, LifecycleNames, DisengageLaw
  <2> QED BY <2>1, <2>2, <2>3 DEF Alike, Disengage, Resting, Reservation
<1>3. AllAlike
  BY <1>1, <1>2 DEF AllAlike, Alike
<1>4. NoneEngaged
  BY <1>1, <1>2 DEF NoneEngaged, Alike, Resting
<1> QED BY <1>1, <1>3, <1>4, QuietUse, SafetyAlike DEF Safety

-----------------------------------------------------------------------------
(* New reservations and new generations.                                   *)

LEMMA Appended ==
  ASSUME NEW S, NEW s \in Seq(S), NEW e \in S
  PROVE  /\ Append(s, e) \in Seq(S) /\ Len(Append(s, e)) = Len(s) + 1
         /\ Append(s, e)[Len(s) + 1] = e
         /\ \A i \in 1..Len(s) : Append(s, e)[i] = s[i]
OBVIOUS

LEMMA WithoutFirst ==
  ASSUME NEW S, NEW s \in Seq(S), NEW k \in Nat, Len(s) = k + 1
  PROVE  Len(Tail(s)) = k /\ \A i \in 1..k : Tail(s)[i] = s[i + 1]
OBVIOUS

\* The history of a superseded generation: the newest entry is that
\* generation, and no more than MaxHistory of them are kept.
LEMMA ArchiveLaw ==
  ASSUME TypeInv, GenerationsInv, NEW id \in ReservationId, Exists(id)
  PROVE  LET g == currentGen[id] + 1
             n == Len(Archive(id))
         IN  /\ n = IF g - 1 < MaxHistory THEN g - 1 ELSE MaxHistory
             /\ \A i \in 1..n : /\ Archive(id)[i].generation = g - n + i - 1
                                /\ ~Archive(id)[i].contributesEnvelope
<1> DEFINE last == [reservations[id] EXCEPT !.contributesEnvelope = FALSE]
           longer == Append(history[id], last)
           c == currentGen[id]
           k == Len(history[id])
<1>1. reservations[id] \in Reservation /\ history[id] \in Seq(Reservation)
  BY CurrentReservation DEF TypeInv, TypeOK
<1>2. /\ c \in Nat \ {0} /\ reservations[id].generation = c
      /\ k = IF c - 1 < MaxHistory THEN c - 1 ELSE MaxHistory
      /\ \A i \in 1..k : /\ history[id][i].generation = c - k + i - 1
                         /\ ~history[id][i].contributesEnvelope
  BY <1>1 DEF GenerationsInv, HistoryContiguous, Reservation
<1>3. last.generation = c /\ ~last.contributesEnvelope /\ last \in Reservation
  BY <1>1, <1>2 DEF Reservation
<1>4. Archive(id) = IF Len(longer) > MaxHistory THEN Tail(longer) ELSE longer
  BY DEF Archive
<1> HIDE DEF last
<1>5. /\ Len(longer) = k + 1 /\ k \in Nat /\ longer \in Seq(Reservation)
      /\ longer[k + 1] = last
      /\ \A i \in 1..k : longer[i] = history[id][i]
  BY <1>1, <1>3, Appended
<1> DEFINE n == Len(Archive(id))
<1> HIDE DEF longer
<1>6. \A i \in 1..(k + 1) : /\ longer[i].generation = c - k + i - 1
                            /\ ~longer[i].contributesEnvelope
  <2> HIDE DEF c, k
  <2> SUFFICES ASSUME NEW i \in 1..(k + 1)
               PROVE  /\ longer[i].generation = c - k + i - 1
                      /\ ~longer[i].contributesEnvelope
    OBVIOUS
  <2>1. CASE i \in 1..k
    <3>1. longer[i] = history[id][i]
      BY <1>5, <2>1
    <3> QED BY <1>2, <2>1, <3>1
  <2>2. CASE i = k + 1
    <3>1. longer[i] = last /\ c = c - k + i - 1
      BY <1>2, <1>5, <2>2
    <3> QED BY <1>3, <3>1
  <2>3. i \in 1..k \/ i = k + 1
    BY <1>5
  <2> QED BY <2>1, <2>2, <2>3
<1>7. /\ n = IF c < MaxHistory THEN c ELSE MaxHistory
      /\ \A i \in 1..n : /\ Archive(id)[i].generation = c - n + i
                         /\ ~Archive(id)[i].contributesEnvelope
  <2>1. CASE k + 1 > MaxHistory
    <3> HIDE DEF c, k
    <3>1. k = MaxHistory /\ c > k /\ Archive(id) = Tail(longer)
      BY <1>2, <1>4, <1>5, <2>1
    <3>2. n = k /\ \A i \in 1..k : Archive(id)[i] = longer[i + 1]
      BY <1>5, <3>1, WithoutFirst
    <3>3. ASSUME NEW i \in 1..k
          PROVE  /\ Archive(id)[i].generation = c - k + i
                 /\ ~Archive(id)[i].contributesEnvelope
      <4>1. i + 1 \in 1..(k + 1) /\ c - k + (i + 1) - 1 = c - k + i
        BY <1>2, <1>5
      <4> QED BY <1>6, <3>2, <4>1
    <3> HIDE DEF n
    <3>4. n = IF c < MaxHistory THEN c ELSE MaxHistory
      BY <1>2, <3>1, <3>2
    <3> QED BY <3>2, <3>3, <3>4
  <2>2. CASE ~(k + 1 > MaxHistory)
    <3> HIDE DEF c, k
    <3>1. Archive(id) = longer /\ k + 1 <= MaxHistory
      BY <1>4, <1>5, <2>2
    <3>5. k = c - 1
      <4>1. c \in Nat \ {0} /\ k = IF c - 1 < MaxHistory THEN c - 1 ELSE MaxHistory
        BY <1>2
      <4>2. CASE c - 1 < MaxHistory
        BY <4>1, <4>2
      <4>3. CASE ~(c - 1 < MaxHistory)
        BY <4>1, <4>3, <3>1
      <4> QED BY <4>2, <4>3
    <3>2. n = c
      BY <1>2, <1>5, <3>1, <3>5
    <3>3. ASSUME NEW i \in 1..c
          PROVE  /\ Archive(id)[i].generation = c - c + i
                 /\ ~Archive(id)[i].contributesEnvelope
      <4>1. i \in 1..(k + 1) /\ c - k + i - 1 = c - c + i
        BY <1>2, <3>5
      <4> QED BY <1>6, <3>1, <4>1
    <3> HIDE DEF n
    <3>4. n = IF c < MaxHistory THEN c ELSE MaxHistory
      BY <1>2, <3>1, <3>2, <3>5
    <3> QED BY <3>2, <3>3, <3>4
  <2> QED BY <2>1, <2>2
<1>8. (c + 1) - 1 = c /\ n \in Nat
  BY <1>2, <1>7
<1>9. \A i \in 1..n : c - n + i = (c + 1) - n + i - 1
  <2> HIDE DEF c, n
  <2> QED BY <1>2, <1>8
<1> QED BY <1>7, <1>8, <1>9

\* The next generation of a reservation.
LEMMA SupersedeSafe ==
  ASSUME TypeInv, Safety, NEW id \in ReservationId, Exists(id),
         NEW r \in Reservation, r.resource = reservations[id].resource,
         r.consumed <= r.quantity, Supersede(id, r), OnlyGenerationsChange
  PROVE  Safety'
<1> DEFINE x == [r EXCEPT !.generation = currentGen[id] + 1,
                          !.lifecycle = "Committed",
                          !.activationGeneration = 0]
<1>1. /\ reservations' = [reservations EXCEPT ![id] = x]
      /\ currentGen' = [currentGen EXCEPT ![id] = currentGen[id] + 1]
      /\ history' = [history EXCEPT ![id] = Archive(id)]
      /\ UNCHANGED <<resources, nextReservationId>>
  BY DEF Supersede, OnlyGenerationsChange
<1>2. /\ x \in Reservation /\ x.resource = r.resource
      /\ x.generation = currentGen[id] + 1 /\ x.quantity = r.quantity
      /\ x.consumed = r.consumed /\ x.lifecycle = "Committed"
  <2>1. currentGen[id] + 1 \in Nat \ {0} /\ "Committed" \in Lifecycles
    BY LifecycleNames DEF TypeInv, TypeOK
  <2> QED BY <2>1 DEF Reservation
<1> HIDE DEF x
<1>3. /\ reservations'[id] = x /\ currentGen'[id] = currentGen[id] + 1
      /\ history'[id] = Archive(id)
      /\ \A i \in ReservationId \ {id} : /\ reservations'[i] = reservations[i]
                                         /\ currentGen'[i] = currentGen[i]
                                         /\ history'[i] = history[i]
      /\ \A i \in ReservationId : Exists(i)' <=> Exists(i)
  BY <1>1, <1>2 DEF TypeInv, TypeOK, Exists
<1>4. ConsumptionWithinPromise'
  BY <1>2, <1>3 DEF Safety, ConsumptionWithinPromise, Remaining
<1>5. IdsFresh' /\ UnusedIdsBlank'
  BY <1>1, <1>3 DEF Safety, GenerationsInv, IdsFresh, UnusedIdsBlank
<1>6. HistoryContiguous'
  <2> DEFINE Contiguous(h, g) ==
        LET n == Len(h)
        IN  /\ n = (IF g - 1 < MaxHistory THEN g - 1 ELSE MaxHistory)
            /\ \A i \in 1..n : /\ h[i].generation = g - n + i - 1
                               /\ ~h[i].contributesEnvelope
  <2>1. Contiguous(Archive(id), currentGen[id] + 1)
    BY ArchiveLaw DEF Safety
  <2>2. ASSUME NEW i \in ReservationId, Exists(i)'
        PROVE  /\ currentGen'[i] = reservations'[i].generation
               /\ Contiguous(history'[i], reservations'[i].generation)
    <3>1. CASE i = id
      <4> HIDE DEF Contiguous
      <4> QED BY <1>2, <1>3, <2>1, <3>1
    <3>2. CASE i # id
      BY <1>3, <2>2, <3>2 DEF Safety, GenerationsInv, HistoryContiguous
    <3> QED BY <3>1, <3>2
  <2> QED BY <2>2 DEF HistoryContiguous
<1>7. InUseOnlyOnAvailable'
  <2>1. "Committed" \notin InUse
    BY DEF InUse
  <2> QED BY <1>1, <1>2, <1>3, <2>1 DEF Safety, InUseOnlyOnAvailable, ResourceOf
<1> QED BY <1>4, <1>5, <1>6, <1>7 DEF Safety, GenerationsInv

\* Resize and renew, applied or refused.
LEMMA ModifySafe ==
  ASSUME TypeInv, Safety, NEW id \in ReservationId, Exists(id),
         NEW r \in Reservation, r.resource = reservations[id].resource,
         r.consumed <= r.quantity, NEW w, Modify(id, r, w),
         OnlyGenerationsChange
  PROVE  Safety'
<1> DEFINE old == reservations[id]
           x == [old EXCEPT !.contributesEnvelope = TRUE]
           y == [r EXCEPT !.contributesEnvelope = TRUE]
<1>1. \/ /\ reservations' = [reservations EXCEPT ![id] = x]
         /\ UNCHANGED <<currentGen, history>>
      \/ Supersede(id, y)
  BY DEF Modify
<1>2. CASE /\ reservations' = [reservations EXCEPT ![id] = x]
           /\ UNCHANGED <<currentGen, history>>
  <2>1. old \in Reservation /\ WithinPromise(old)
    BY CurrentReservation, RecordWithin
  <2>2. /\ x \in Reservation /\ x.generation = old.generation
        /\ x.resource = old.resource /\ x.quantity = old.quantity
        /\ x.consumed = old.consumed /\ x.lifecycle = old.lifecycle
    BY <2>1 DEF Reservation
  <2>3. WithinPromise(x)
    BY <2>1, <2>2 DEF WithinPromise, Remaining
  <2>4. UNCHANGED <<resources, nextReservationId>>
    BY DEF OnlyGenerationsChange
  <2> HIDE DEF x
  <2> QED BY <1>2, <2>2, <2>3, <2>4, OneSafe
<1>3. CASE Supersede(id, y)
  <2>1. /\ y \in Reservation /\ y.resource = r.resource
        /\ y.consumed = r.consumed /\ y.quantity = r.quantity
    BY DEF Reservation
  <2> HIDE DEF y
  <2> QED BY <1>3, <2>1, SupersedeSafe
<1> QED BY <1>1, <1>2, <1>3

LEMMA ResizeSafe ==
  ASSUME TypeInv, Safety, NEW id \in ReservationId, NEW g,
         NEW quantity \in NewQuantities, NEW policy \in PolicyGenerations,
         Resize(id, g, quantity, policy)
  PROVE  Safety'
<1> DEFINE r == [reservations[id] EXCEPT !.quantity = quantity,
                                         !.policyGeneration = policy,
                                         !.consumed = 0]
<1>1. /\ Exists(id) /\ quantity > 0 /\ OnlyGenerationsChange
      /\ Modify(id, r, reservations[id].window)
  BY DEF Resize, Current
<1>2. /\ r \in Reservation /\ r.resource = reservations[id].resource
      /\ r.consumed <= r.quantity
  <2>1. reservations[id] \in Reservation
    BY <1>1, CurrentReservation
  <2>2. quantity \in Nat \ {0} /\ policy \in Nat
    BY <1>1
  <2>3. /\ r \in Reservation /\ r.resource = reservations[id].resource
        /\ r.consumed = 0 /\ r.quantity = quantity
    BY <2>1, <2>2 DEF Reservation
  <2> HIDE DEF r
  <2> QED BY <2>2, <2>3
<1> HIDE DEF r
<1> QED BY <1>1, <1>2, ModifySafe

LEMMA RenewSafe ==
  ASSUME TypeInv, Safety, NEW id \in ReservationId, NEW g, NEW w \in NewWindows,
         NEW policy \in PolicyGenerations, Renew(id, g, w, policy)
  PROVE  Safety'
<1> DEFINE r == [reservations[id] EXCEPT !.window = w,
                                         !.policyGeneration = policy]
<1>1. Exists(id) /\ OnlyGenerationsChange /\ Modify(id, r, w)
  BY DEF Renew, Current
<1>2. /\ r \in Reservation /\ r.resource = reservations[id].resource
      /\ r.consumed <= r.quantity
  <2>1. /\ reservations[id] \in Reservation
        /\ reservations[id].consumed <= reservations[id].quantity
    BY <1>1, CurrentReservation, RecordWithin DEF WithinPromise
  <2>2. w \in Window /\ policy \in Nat
    OBVIOUS
  <2> QED BY <2>1, <2>2 DEF Reservation
<1> HIDE DEF r
<1> QED BY <1>1, <1>2, ModifySafe

LEMMA TransferSafe ==
  ASSUME TypeInv, Safety, NEW id \in ReservationId, NEW g,
         NEW owner \in NewOwners, NEW ev \in Evidence, Transfer(id, g, owner, ev)
  PROVE  Safety'
<1> DEFINE r == [reservations[id] EXCEPT !.owner = owner]
<1>1. Exists(id) /\ OnlyGenerationsChange /\ Supersede(id, r)
  BY DEF Transfer, Current
<1>2. /\ r \in Reservation /\ r.resource = reservations[id].resource
      /\ r.consumed <= r.quantity
  <2>1. /\ reservations[id] \in Reservation
        /\ reservations[id].consumed <= reservations[id].quantity
    BY <1>1, CurrentReservation, RecordWithin DEF WithinPromise
  <2>2. owner \in Owner
    OBVIOUS
  <2> QED BY <2>1, <2>2 DEF Reservation
<1> HIDE DEF r
<1> QED BY <1>1, <1>2, SupersedeSafe

\* commit makes a reservation of an id that was never used.
LEMMA CommitSafe ==
  ASSUME TypeInv, Safety, NEW q \in Request, NEW r \in ResourceId,
         NEW h \in HoldId \cup {None}, Commit(q, r, h)
  PROVE  Safety'
<1> DEFINE id == nextReservationId + 1
           x == NewReservation(q, r, currentGen[id] + 1)
<1>1. /\ reservations' = [reservations EXCEPT ![id] = x]
      /\ currentGen' = [currentGen EXCEPT ![id] = currentGen[id] + 1]
      /\ nextReservationId' = id
      /\ UNCHANGED <<resources, history>> /\ id <= LastReservationId
      /\ q.quantity > 0 /\ resources[r] # None
  BY DEF Commit, Admissible, ValidRequest, Chosen, Matching
<1>2. id \in ReservationId /\ ~Exists(id)
  <2>1. id \in Nat /\ id >= 2
    BY DEF TypeInv, TypeOK
  <2>2. id \in ReservationId
    BY <1>1, <2>1 DEF ReservationId
  <2>3. id > nextReservationId
    BY DEF TypeInv, TypeOK
  <2> QED BY <2>2, <2>3 DEF Safety, GenerationsInv, IdsFresh
<1>3. currentGen[id] = 0 /\ history[id] = <<>>
  BY <1>2 DEF Safety, GenerationsInv, UnusedIdsBlank
<1>4. /\ x \in Reservation /\ x.generation = 1 /\ x.consumed = 0
      /\ x.lifecycle = "Committed" /\ x.quantity \in Nat
  <2>1. resources[r] \in Resource
    BY <1>1 DEF TypeInv, TypeOK
  <2>2. x = NewReservation(q, r, 1)
    BY <1>3
  <2>3. x \in Reservation /\ x.generation = 1 /\ x.lifecycle = "Committed"
    <3> DEFINE g == currentGen[id] + 1
    <3>1. g \in Nat \ {0}
      BY <1>3
    <3>5. g = 1
      BY <1>3
    <3>2. x = NewReservation(q, r, g)
      OBVIOUS
    <3>3. q.quantity > 0
      BY <1>1
    <3> HIDE DEF x, g
    <3>4. NewReservation(q, r, g) \in Reservation
      BY <2>1, <3>1, <3>3, NewReservationLaw
    <3>6. /\ NewReservation(q, r, g).generation = g
          /\ NewReservation(q, r, g).lifecycle = "Committed"
      BY DEF NewReservation
    <3> QED BY <3>2, <3>4, <3>5, <3>6
  <2>4. x.consumed = 0
    BY DEF NewReservation
  <2> HIDE DEF x
  <2> QED BY <2>3, <2>4 DEF Reservation
<1> HIDE DEF x, id
<1>5. /\ reservations'[id] = x /\ currentGen'[id] = 1 /\ history'[id] = <<>>
      /\ \A i \in ReservationId \ {id} : /\ reservations'[i] = reservations[i]
                                         /\ currentGen'[i] = currentGen[i]
                                         /\ history'[i] = history[i]
      /\ x # None /\ ~Exists(id)
  BY <1>1, <1>2, <1>3, <1>4 DEF TypeInv, TypeOK
<1>6. ConsumptionWithinPromise'
  BY <1>4, <1>5 DEF Safety, ConsumptionWithinPromise, Remaining, Exists
<1>7. IdsFresh' /\ UnusedIdsBlank'
  <2>1. \A i \in ReservationId : i > id => i > nextReservationId /\ i # id
    BY DEF ReservationId, TypeInv, TypeOK, id
  <2> QED BY <1>1, <1>5, <2>1 DEF Safety, GenerationsInv, IdsFresh, UnusedIdsBlank,
                                    Exists
<1>8. HistoryContiguous'
  <2>1. Len(<<>>) = 0 /\ 0 < MaxHistory
    OBVIOUS
  <2> QED BY <1>4, <1>5, <2>1 DEF Safety, GenerationsInv, HistoryContiguous, Exists
<1>9. InUseOnlyOnAvailable'
  <2>1. "Committed" \notin InUse
    BY DEF InUse
  <2> QED BY <1>1, <1>4, <1>5, <2>1 DEF Safety, InUseOnlyOnAvailable, ResourceOf, Exists
<1> QED BY <1>6, <1>7, <1>8, <1>9 DEF Safety, GenerationsInv

-----------------------------------------------------------------------------
(* What one step may do to a reservation that exists.                      *)

\* The lifecycles only revalidation leads out of, within a generation.
Dormant == {"RevalidationRequired", "Released", "Expired", "Cancelled"}

\* x is a later state of the generation that r is a state of.
SameGeneration(x, r) ==
  /\ x.generation = r.generation /\ Terms(x) = Terms(r)
  /\ x.consumed >= r.consumed
  /\ x.consumptionGeneration >= r.consumptionGeneration
  /\ x.consumed > r.consumed =>
       x.consumptionGeneration > r.consumptionGeneration

\* x is the first state of the next generation.
NextGeneration(x, r) ==
  /\ x.generation = r.generation + 1
  /\ x.consumptionGeneration = r.consumptionGeneration
  /\ x.consumed <= r.consumed

StaysDormant(x, r) == r.lifecycle \in Dormant => x.lifecycle \in Dormant

\* The step revalidates the resource of reservation id.
Revalidates(id) ==
  \E p \in Publications : /\ p.id = reservations[id].resource
                          /\ RevalidateResource(p)

\* Every reservation goes on, in its generation or in the next; out of a
\* dormant lifecycle only by the latter or by a revalidation.
AllFollow ==
  \A id \in ReservationId : Exists(id) =>
    LET r == reservations[id]
        x == reservations'[id]
    IN  /\ x # None
        /\ \/ SameGeneration(x, r) /\ (StaysDormant(x, r) \/ Revalidates(id))
           \/ NextGeneration(x, r)

\* Nothing at all happens to a record.
LEMMA NothingHappens ==
  ASSUME NEW r \in Reservation
  PROVE  SameGeneration(r, r) /\ StaysDormant(r, r)
BY DEF Reservation, NeverConsumed, SameGeneration, StaysDormant

\* A step that leaves all reservations as they are.
LEMMA UntouchedFollow ==
  ASSUME TypeInv, UNCHANGED reservations
  PROVE  AllFollow
BY NothingHappens, CurrentReservation DEF AllFollow, Exists

\* One record rewritten.
LEMMA OneFollows ==
  ASSUME TypeInv, NEW id \in ReservationId, Exists(id), NEW x \in Reservation,
         \/ /\ SameGeneration(x, reservations[id])
            /\ StaysDormant(x, reservations[id])
         \/ NextGeneration(x, reservations[id]),
         reservations' = [reservations EXCEPT ![id] = x]
  PROVE  AllFollow
<1>1. ASSUME NEW i \in ReservationId, Exists(i)
      PROVE  /\ reservations'[i] # None
             /\ \/ /\ SameGeneration(reservations'[i], reservations[i])
                   /\ StaysDormant(reservations'[i], reservations[i])
                \/ NextGeneration(reservations'[i], reservations[i])
  <2>1. CASE i = id
    <3>1. reservations'[i] = x /\ x # None
      BY <2>1 DEF TypeInv, TypeOK
    <3> QED BY <2>1, <3>1
  <2>2. CASE i # id
    <3>1. reservations'[i] = reservations[i]
      BY <2>2 DEF TypeInv, TypeOK
    <3>2. reservations[i] \in Reservation
      BY <1>1, CurrentReservation
    <3> QED BY <1>1, <3>1, <3>2, NothingHappens DEF Exists
  <2> QED BY <2>1, <2>2
<1> QED BY <1>1 DEF AllFollow

\* Another lifecycle, dormant unless the old one was not.
LEMMA LifecycleFollows ==
  ASSUME NEW r \in Reservation, NEW l \in Lifecycles,
         r.lifecycle \in Dormant => l \in Dormant,
         NEW x, x = [r EXCEPT !.lifecycle = l]
  PROVE  x \in Reservation /\ SameGeneration(x, r) /\ StaysDormant(x, r)
<1>1. /\ x \in Reservation /\ x.lifecycle = l
      /\ x.generation = r.generation /\ x.consumed = r.consumed
      /\ x.consumptionGeneration = r.consumptionGeneration
      /\ Terms(x) = Terms(r)
  BY DEF Reservation, Terms
<1>2. r.consumed \in Nat /\ r.consumptionGeneration \in Int
  BY DEF Reservation, NeverConsumed
<1> QED BY <1>1, <1>2 DEF SameGeneration, StaysDormant

\* Many records suspended.
LEMMA SuspendedFollow ==
  ASSUME TypeInv, NEW S, S \subseteq {id \in ReservationId : Exists(id)},
         NEW x, x = WithLifecycle(S, "RevalidationRequired"),
         NEW id \in ReservationId, Exists(id)
  PROVE  /\ x[id] \in Reservation
         /\ SameGeneration(x[id], reservations[id])
         /\ StaysDormant(x[id], reservations[id])
<1>1. reservations[id] \in Reservation
  BY CurrentReservation
<1>2. CASE id \in S
  <2>1. x[id] = [reservations[id] EXCEPT !.lifecycle = "RevalidationRequired"]
    BY <1>2 DEF WithLifecycle
  <2>2. "RevalidationRequired" \in Lifecycles \cap Dormant
    BY LifecycleNames DEF Dormant
  <2> QED BY <1>1, <2>1, <2>2, LifecycleFollows
<1>3. CASE id \notin S
  <2>1. x[id] = reservations[id]
    BY <1>3 DEF WithLifecycle
  <2> QED BY <1>1, <2>1, NothingHappens
<1> QED BY <1>2, <1>3

\* A publication suspends what is in use.
LEMMA PublishResourceFollow ==
  ASSUME TypeInv, NEW p \in Publications, PublishResource(p)
  PROVE  AllFollow
<1>1. CASE OldNews(p)
  BY <1>1, UntouchedFollow DEF PublishResource
<1>2. CASE ~OldNews(p)
  <2> DEFINE lost == {id \in Commitments(p.id) : ~reservations[id].contributesEnvelope}
             flagged == WithLifecycle(InUseOn(p.id), "RevalidationRequired")
  <2>1. reservations' = [id \in ReservationId |->
             IF id \in lost THEN [flagged[id] EXCEPT !.contributesEnvelope = TRUE]
             ELSE flagged[id]]
    BY <1>2 DEF PublishResource, Install
  <2>2. InUseOn(p.id) \subseteq {id \in ReservationId : Exists(id)}
    BY DEF InUseOn, Commitments, HoldsCapacity
  <2>3. ASSUME NEW id \in ReservationId, Exists(id)
        PROVE  /\ reservations'[id] # None
               /\ SameGeneration(reservations'[id], reservations[id])
               /\ StaysDormant(reservations'[id], reservations[id])
    <3>1. /\ flagged[id] \in Reservation
          /\ SameGeneration(flagged[id], reservations[id])
          /\ StaysDormant(flagged[id], reservations[id])
      <4> HIDE DEF flagged
      <4>1. flagged = WithLifecycle(InUseOn(p.id), "RevalidationRequired")
        BY DEF flagged
      <4> QED BY <2>2, <2>3, <4>1, SuspendedFollow
    <3> HIDE DEF flagged
    <3>2. CASE id \in lost
      <4> DEFINE y == [flagged[id] EXCEPT !.contributesEnvelope = TRUE]
      <4>1. reservations'[id] = y
        BY <2>1, <3>2
      <4>2. /\ y \in Reservation /\ y.lifecycle = flagged[id].lifecycle
            /\ y.generation = flagged[id].generation
            /\ y.consumed = flagged[id].consumed
            /\ y.consumptionGeneration = flagged[id].consumptionGeneration
            /\ Terms(y) = Terms(flagged[id])
        BY <3>1 DEF Reservation, Terms
      <4> HIDE DEF y
      <4> QED BY <3>1, <4>1, <4>2 DEF SameGeneration, StaysDormant
    <3>3. CASE id \notin lost
      BY <2>1, <3>1, <3>3
    <3> QED BY <3>2, <3>3
  <2> QED BY <2>3 DEF AllFollow
<1> QED BY <1>1, <1>2

\* What is fenced is suspended, and goes on otherwise.
LEMMA FencingFollow ==
  ASSUME TypeInv, NEW r \in ResourceId,
         \/ InvalidateResource(r)
         \/ \E g \in Nat, available \in BOOLEAN :
              AdvanceResourceGeneration(r, g, available)
  PROVE  AllFollow
<1>1. \E S \in SUBSET {id \in ReservationId : Exists(id)} :
        reservations' = WithLifecycle(S, "RevalidationRequired")
  <2>1. Commitments(r) \subseteq {id \in ReservationId : Exists(id)}
        /\ InUseOn(r) \subseteq {id \in ReservationId : Exists(id)}
    BY DEF Commitments, InUseOn, HoldsCapacity
  <2> QED BY <2>1 DEF InvalidateResource, AdvanceResourceGeneration
<1>2. PICK S \in SUBSET {id \in ReservationId : Exists(id)} :
        reservations' = WithLifecycle(S, "RevalidationRequired")
  BY <1>1
<1>3. ASSUME NEW id \in ReservationId, Exists(id)
      PROVE  /\ reservations'[id] # None
             /\ SameGeneration(reservations'[id], reservations[id])
             /\ StaysDormant(reservations'[id], reservations[id])
  BY <1>2, <1>3, SuspendedFollow
<1> QED BY <1>3 DEF AllFollow

\* Revalidation wakes what awaits it on its resource.
LEMMA RevalidateResourceFollow ==
  ASSUME TypeInv, NEW p \in Publications, RevalidateResource(p)
  PROVE  AllFollow
<1>1. \A id \in ReservationId :
        reservations'[id] =
          IF id \in AwaitingRevalidation(p.id)
          THEN [reservations[id] EXCEPT !.lifecycle = "PendingActivation",
                                        !.boundResourceGeneration = p.generation]
          ELSE reservations[id]
  BY DEF RevalidateResource
<1>2. ASSUME NEW id \in ReservationId, Exists(id)
      PROVE  /\ reservations'[id] # None
             /\ SameGeneration(reservations'[id], reservations[id])
             /\ \/ StaysDormant(reservations'[id], reservations[id])
                \/ Revalidates(id)
  <2> DEFINE r == reservations[id]
             x == [r EXCEPT !.lifecycle = "PendingActivation",
                            !.boundResourceGeneration = p.generation]
  <2>1. r \in Reservation
    BY <1>2, CurrentReservation
  <2>2. CASE id \in AwaitingRevalidation(p.id)
    <3>1. /\ x \in Reservation /\ x.generation = r.generation
          /\ x.consumed = r.consumed
          /\ x.consumptionGeneration = r.consumptionGeneration
          /\ Terms(x) = Terms(r)
      BY <2>1, PublicationFields, LifecycleNames DEF Reservation, Terms
    <3>2. reservations'[id] = x
      BY <1>1, <2>2
    <3>3. r.consumed \in Nat /\ r.consumptionGeneration \in Int
      BY <2>1 DEF Reservation, NeverConsumed
    <3>4. Revalidates(id)
      BY <2>2 DEF Revalidates, AwaitingRevalidation, Commitments
    <3> HIDE DEF x
    <3> QED BY <3>1, <3>2, <3>3, <3>4 DEF SameGeneration
  <2>3. CASE id \notin AwaitingRevalidation(p.id)
    <3>1. reservations'[id] = r
      BY <1>1, <2>3
    <3> QED BY <1>2, <2>1, <3>1, NothingHappens DEF Exists
  <2> QED BY <2>2, <2>3
<1> QED BY <1>2 DEF AllFollow

\* A record rewritten without consumption, on its terms.
LEMMA OneQuiet ==
  ASSUME TypeInv, NEW id \in ReservationId, Exists(id), NEW x \in Reservation,
         x.generation = reservations[id].generation,
         Terms(x) = Terms(reservations[id]),
         x.consumed = reservations[id].consumed,
         x.consumptionGeneration = reservations[id].consumptionGeneration,
         StaysDormant(x, reservations[id]),
         reservations' = [reservations EXCEPT ![id] = x]
  PROVE  AllFollow
<1>1. reservations[id] \in Reservation
  BY CurrentReservation
<1>2. /\ reservations[id].consumed \in Nat
      /\ reservations[id].consumptionGeneration \in Int
  BY <1>1 DEF Reservation, NeverConsumed
<1>3. SameGeneration(x, reservations[id])
  BY <1>2 DEF SameGeneration
<1> QED BY <1>3, OneFollows

\* Activation, on stale evidence or on fresh.
LEMMA ActivationFollow ==
  ASSUME TypeInv, NEW id \in ReservationId, NEW g,
         \/ ActivateStale(id, g)
         \/ \E ev \in Evidence, at \in Time : Activate(id, g, ev, at)
  PROVE  AllFollow
<1> DEFINE r == reservations[id]
<1>1. Exists(id) /\ r \in Reservation
  BY CurrentReservation DEF ActivateStale, Activate, Current
<1>2. CASE ActivateStale(id, g)
  <2> DEFINE x == [r EXCEPT !.lifecycle = "RevalidationRequired"]
  <2>1. reservations' = [reservations EXCEPT ![id] = x]
    BY <1>2 DEF ActivateStale
  <2>2. "RevalidationRequired" \in Lifecycles \cap Dormant
    BY LifecycleNames DEF Dormant
  <2> HIDE DEF x
  <2>3. x \in Reservation /\ SameGeneration(x, r) /\ StaysDormant(x, r)
    BY <1>1, <2>2, LifecycleFollows DEF x
  <2> QED BY <1>1, <2>1, <2>3, OneFollows
<1>3. ASSUME NEW ev \in Evidence, NEW at, Activate(id, g, ev, at)
      PROVE  AllFollow
  <2> DEFINE x == [r EXCEPT !.lifecycle = "Active",
                            !.activationGeneration = ev.generation]
  <2>1. /\ reservations' = [reservations EXCEPT ![id] = x]
        /\ r.lifecycle \notin Dormant
    BY <1>3 DEF Activate, Activatable, Dormant
  <2>2. /\ x \in Reservation /\ x.generation = r.generation
        /\ Terms(x) = Terms(r) /\ x.consumed = r.consumed
        /\ x.consumptionGeneration = r.consumptionGeneration
    BY <1>1, LifecycleNames, EvidenceFields DEF Reservation, Terms
  <2> HIDE DEF x
  <2> QED BY <1>1, <2>1, <2>2, OneQuiet DEF StaysDormant
<1> QED BY <1>2, <1>3

\* consume takes a consumption generation greater than the last one.
LEMMA ConsumeFollow ==
  ASSUME TypeInv, NEW id \in ReservationId, NEW g,
         NEW amount \in ConsumeAmounts, NEW ev \in Evidence,
         Consume(id, g, amount, ev)
  PROVE  AllFollow
<1> DEFINE r == reservations[id]
           c == r.consumed + amount
           l == IF c = r.quantity THEN "Consumed" ELSE "PartiallyConsumed"
           x == [r EXCEPT !.consumed = c, !.consumptionGeneration = ev.generation,
                          !.lifecycle = l]
<1>1. /\ Exists(id) /\ reservations' = [reservations EXCEPT ![id] = x]
      /\ amount > 0 /\ amount \in Int
      /\ ev.generation > r.consumptionGeneration /\ r.lifecycle \notin Dormant
  BY DEF Consume, Current, NewConsumption, InUse, Dormant
<1>2. /\ r \in Reservation /\ r.consumed \in Nat
      /\ r.consumptionGeneration \in Int
  BY <1>1, CurrentReservation DEF Reservation, NeverConsumed
<1>3. c \in Nat /\ c > r.consumed
  BY <1>1, <1>2
<1>4. l \in Lifecycles /\ ev.generation \in Nat
  BY LifecycleNames, EvidenceFields
<1> HIDE DEF c, l
<1>5. /\ x \in Reservation /\ x.generation = r.generation
      /\ Terms(x) = Terms(r) /\ x.consumed = c
      /\ x.consumptionGeneration = ev.generation
  BY <1>2, <1>3, <1>4 DEF Reservation, Terms
<1>6. SameGeneration(x, r) /\ StaysDormant(x, r)
  <2> HIDE DEF x
  <2> QED BY <1>1, <1>2, <1>3, <1>4, <1>5 DEF SameGeneration, StaysDormant
<1> HIDE DEF x
<1> QED BY <1>1, <1>5, <1>6, OneFollows

\* A reservation given up for good.
LEMMA DisengagedFollows ==
  ASSUME NEW r \in Reservation, NEW l \in {"Released", "Expired", "Cancelled"},
         NEW x, x = Disengage(r, l)
  PROVE  /\ x \in Reservation /\ x.generation = r.generation
         /\ Terms(x) = Terms(r) /\ x.consumed = r.consumed
         /\ x.consumptionGeneration = r.consumptionGeneration
         /\ x.lifecycle = l
<1>1. l \in Lifecycles
  BY LifecycleNames
<1> QED BY <1>1 DEF Disengage, Reservation, Terms

\* So it is on cancel and on release.
LEMMA GivingUpFollow ==
  ASSUME TypeInv, NEW id \in ReservationId, NEW g,
         Cancel(id, g) \/ \E ev \in Evidence : Release(id, g, ev)
  PROVE  AllFollow
<1> DEFINE r == reservations[id]
<1>1. Exists(id) /\ r \in Reservation
  BY CurrentReservation DEF Cancel, Release, Current
<1>2. CASE Cancel(id, g)
  <2> DEFINE x == Disengage(r, "Cancelled")
  <2>1. reservations' = [reservations EXCEPT ![id] = x]
    BY <1>2 DEF Cancel
  <2> HIDE DEF x
  <2>2. /\ x \in Reservation /\ x.generation = r.generation
        /\ Terms(x) = Terms(r) /\ x.consumed = r.consumed
        /\ x.consumptionGeneration = r.consumptionGeneration
        /\ x.lifecycle = "Cancelled"
    BY <1>1, DisengagedFollows DEF x
  <2> QED BY <1>1, <2>1, <2>2, OneQuiet DEF StaysDormant, Dormant
<1>3. ASSUME NEW ev \in Evidence, Release(id, g, ev)
      PROVE  AllFollow
  <2> DEFINE y == Disengage(r, "Released")
             x == [y EXCEPT !.releaseGeneration = ev.generation]
  <2>1. reservations' = [reservations EXCEPT ![id] = x]
    BY <1>3 DEF Release
  <2> HIDE DEF y
  <2>2. /\ y \in Reservation /\ y.generation = r.generation
        /\ Terms(y) = Terms(r) /\ y.consumed = r.consumed
        /\ y.consumptionGeneration = r.consumptionGeneration
        /\ y.lifecycle = "Released"
    BY <1>1, DisengagedFollows DEF y
  <2>3. /\ x \in Reservation /\ x.generation = y.generation
        /\ Terms(x) = Terms(y) /\ x.consumed = y.consumed
        /\ x.consumptionGeneration = y.consumptionGeneration
        /\ x.lifecycle = y.lifecycle
    BY <2>2, EvidenceFields DEF Reservation, Terms
  <2> HIDE DEF x
  <2> QED BY <1>1, <2>1, <2>2, <2>3, OneQuiet DEF StaysDormant, Dormant
<1> QED BY <1>2, <1>3

\* What is due is given up for good.
LEMMA ExpireDueFollow ==
  ASSUME TypeInv, NEW now, ExpireDue(now)
  PROVE  AllFollow
<1>1. \A id \in ReservationId :
        reservations'[id] = IF id \in Due(now)
                            THEN Disengage(reservations[id], "Expired")
                            ELSE reservations[id]
  BY DEF ExpireDue
<1>2. ASSUME NEW id \in ReservationId, Exists(id)
      PROVE  /\ reservations'[id] # None
             /\ SameGeneration(reservations'[id], reservations[id])
             /\ StaysDormant(reservations'[id], reservations[id])
  <2> DEFINE r == reservations[id]
             x == reservations'[id]
  <2>1. r \in Reservation /\ r # None
    BY <1>2, CurrentReservation DEF Exists
  <2>2. CASE id \in Due(now)
    <3>1. x = Disengage(r, "Expired")
      BY <1>1, <2>2
    <3> HIDE DEF x
    <3>2. /\ x \in Reservation /\ x.generation = r.generation
          /\ Terms(x) = Terms(r) /\ x.consumed = r.consumed
          /\ x.consumptionGeneration = r.consumptionGeneration
          /\ x.lifecycle = "Expired"
      BY <2>1, <3>1, DisengagedFollows
    <3>3. r.consumed \in Nat /\ r.consumptionGeneration \in Int
      BY <2>1 DEF Reservation, NeverConsumed
    <3>4. x # None /\ SameGeneration(x, r) /\ StaysDormant(x, r)
      BY <3>2, <3>3 DEF SameGeneration, StaysDormant, Dormant
    <3> QED BY <3>4 DEF x
  <2>3. CASE id \notin Due(now)
    <3>1. x = r
      BY <1>1, <2>3
    <3> QED BY <2>1, <3>1, NothingHappens
  <2> QED BY <2>2, <2>3
<1> QED BY <1>2 DEF AllFollow

\* The next generation: no more consumed, and the evidence counted so far
\* stays counted.
LEMMA SupersedeFollow ==
  ASSUME TypeInv, Safety, NEW id \in ReservationId, Exists(id),
         NEW r \in Reservation, r.consumed <= reservations[id].consumed,
         r.consumptionGeneration = reservations[id].consumptionGeneration,
         Supersede(id, r)
  PROVE  AllFollow
<1> DEFINE g == currentGen[id] + 1
           x == [r EXCEPT !.generation = g, !.lifecycle = "Committed",
                          !.activationGeneration = 0]
<1>1. reservations' = [reservations EXCEPT ![id] = x]
  BY DEF Supersede
<1>2. g \in Nat \ {0} /\ g = reservations[id].generation + 1
  BY DEF TypeInv, TypeOK, Safety, GenerationsInv, HistoryContiguous
<1> HIDE DEF g
<1>3. /\ x \in Reservation /\ x.generation = g /\ x.consumed = r.consumed
      /\ x.consumptionGeneration = r.consumptionGeneration
  BY <1>2, LifecycleNames DEF Reservation
<1> HIDE DEF x
<1>4. NextGeneration(x, reservations[id])
  BY <1>2, <1>3 DEF NextGeneration
<1> QED BY <1>1, <1>3, <1>4, OneFollows

LEMMA ModifyFollow ==
  ASSUME TypeInv, Safety, NEW id \in ReservationId, Exists(id),
         NEW r \in Reservation, r.consumed <= reservations[id].consumed,
         r.consumptionGeneration = reservations[id].consumptionGeneration,
         NEW w, Modify(id, r, w)
  PROVE  AllFollow
<1> DEFINE old == reservations[id]
           x == [old EXCEPT !.contributesEnvelope = TRUE]
           y == [r EXCEPT !.contributesEnvelope = TRUE]
<1>1. \/ reservations' = [reservations EXCEPT ![id] = x]
      \/ Supersede(id, y)
  BY DEF Modify
<1>2. CASE reservations' = [reservations EXCEPT ![id] = x]
  <2>1. old \in Reservation
    BY CurrentReservation
  <2>2. /\ x \in Reservation /\ x.generation = old.generation
        /\ Terms(x) = Terms(old) /\ x.consumed = old.consumed
        /\ x.consumptionGeneration = old.consumptionGeneration
        /\ x.lifecycle = old.lifecycle
    BY <2>1 DEF Reservation, Terms
  <2> HIDE DEF x
  <2> QED BY <1>2, <2>2, OneQuiet DEF StaysDormant
<1>3. CASE Supersede(id, y)
  <2>1. /\ y \in Reservation /\ y.consumed = r.consumed
        /\ y.consumptionGeneration = r.consumptionGeneration
    BY DEF Reservation
  <2> HIDE DEF y
  <2> QED BY <1>3, <2>1, SupersedeFollow
<1> QED BY <1>1, <1>2, <1>3

LEMMA ModificationFollow ==
  ASSUME TypeInv, Safety, NEW id \in ReservationId, NEW g,
         \/ \E quantity \in NewQuantities, policy \in PolicyGenerations :
              Resize(id, g, quantity, policy)
         \/ \E w \in NewWindows, policy \in PolicyGenerations :
              Renew(id, g, w, policy)
         \/ \E owner \in NewOwners, ev \in Evidence :
              Transfer(id, g, owner, ev)
  PROVE  AllFollow
<1> DEFINE old == reservations[id]
<1>1. Exists(id) /\ old \in Reservation
  BY CurrentReservation DEF Resize, Renew, Transfer, Current
<1>2. old.consumed \in Nat /\ old.consumptionGeneration \in Int
  BY <1>1 DEF Reservation, NeverConsumed
<1>3. ASSUME NEW quantity \in NewQuantities, NEW policy \in PolicyGenerations,
             Resize(id, g, quantity, policy)
      PROVE  AllFollow
  <2> DEFINE r == [old EXCEPT !.quantity = quantity,
                              !.policyGeneration = policy, !.consumed = 0]
  <2>1. quantity > 0 /\ Modify(id, r, old.window)
    BY <1>3 DEF Resize
  <2>2. /\ r \in Reservation /\ r.consumed = 0
        /\ r.consumptionGeneration = old.consumptionGeneration
    <3>1. quantity \in Nat \ {0} /\ policy \in Nat
      BY <2>1
    <3> QED BY <1>1, <3>1 DEF Reservation
  <2> HIDE DEF r
  <2> QED BY <1>1, <1>2, <2>1, <2>2, ModifyFollow
<1>4. ASSUME NEW w \in NewWindows, NEW policy \in PolicyGenerations,
             Renew(id, g, w, policy)
      PROVE  AllFollow
  <2> DEFINE r == [old EXCEPT !.window = w, !.policyGeneration = policy]
  <2>1. w \in Window /\ policy \in Nat /\ Modify(id, r, w)
    BY <1>4 DEF Renew
  <2>2. /\ r \in Reservation /\ r.consumed = old.consumed
        /\ r.consumptionGeneration = old.consumptionGeneration
    BY <1>1, <2>1 DEF Reservation
  <2> HIDE DEF r
  <2> QED BY <1>1, <1>2, <2>1, <2>2, ModifyFollow
<1>5. ASSUME NEW owner \in NewOwners, NEW ev \in Evidence,
             Transfer(id, g, owner, ev)
      PROVE  AllFollow
  <2> DEFINE r == [old EXCEPT !.owner = owner]
  <2>1. owner \in Owner /\ Supersede(id, r)
    BY <1>5 DEF Transfer
  <2>2. /\ r \in Reservation /\ r.consumed = old.consumed
        /\ r.consumptionGeneration = old.consumptionGeneration
    BY <1>1, <2>1 DEF Reservation
  <2> HIDE DEF r
  <2> QED BY <1>1, <1>2, <2>1, <2>2, SupersedeFollow
<1> QED BY <1>3, <1>4, <1>5

\* commit leaves every reservation there is alone.
LEMMA CommitFollow ==
  ASSUME TypeInv, Safety, NEW q, NEW r, NEW h, Commit(q, r, h)
  PROVE  AllFollow
<1> DEFINE id == nextReservationId + 1
<1>1. \A i \in ReservationId \ {id} : reservations'[i] = reservations[i]
  BY DEF Commit, TypeInv, TypeOK
<1>2. ~Exists(id)
  <2>1. id > nextReservationId
    BY DEF TypeInv, TypeOK
  <2> QED BY <2>1 DEF Safety, GenerationsInv, IdsFresh, Exists
<1>3. \A i \in ReservationId : Exists(i) =>
        reservations'[i] = reservations[i] /\ reservations[i] \in Reservation
  BY <1>1, <1>2, CurrentReservation
<1> QED BY <1>3, NothingHappens DEF AllFollow, Exists

\* Together.
LEMMA NextFollow == TypeInv /\ Safety /\ [Next]_vars => AllFollow
<1> SUFFICES ASSUME TypeInv, Safety, [Next]_vars PROVE AllFollow
  OBVIOUS
<1>1. ASSUME \/ \E e \in 1..MaxAuthority : SetCoordinatorEpoch(e)
             \/ \E h \in HoldId, spec \in HoldSpecs : ReleaseHold(h, spec.holdGeneration)
             \/ \E now \in Instant : ExpireHolds(now)
             \/ \E spec \in HoldSpecs, r \in ResourceId, now \in HoldClock :
                  CreateHold(spec, r, now)
             \/ UNCHANGED vars
      PROVE  AllFollow
  <2>1. UNCHANGED reservations
    BY <1>1 DEF SetCoordinatorEpoch, ReleaseHold, ExpireHolds, CreateHold, vars
  <2> QED BY <2>1, UntouchedFollow
<1>2. CASE Everyday
  <2>1. ASSUME NEW r \in ResourceId, NEW g \in ResourceGenerations,
               NEW available \in BOOLEAN, AdvanceResourceGeneration(r, g, available)
        PROVE  AllFollow
    <3>1. g \in Nat
      OBVIOUS
    <3> QED BY <2>1, <3>1, FencingFollow
  <2> QED BY <1>1, <1>2, <2>1, RevalidateResourceFollow, FencingFollow,
             ActivationFollow, ConsumeFollow, GivingUpFollow, ExpireDueFollow
          DEF Everyday
<1>3. CASE Next /\ ~Everyday
  BY <1>1, <1>3, PublishResourceFollow, CommitFollow, ActivationFollow,
     ModificationFollow DEF Next
<1> QED BY <1>1, <1>2, <1>3

-----------------------------------------------------------------------------
(* The boot ids on record.                                                 *)

\* No resource is held by a process newer than the newest one seen of its
\* worker, so that a boot id accepted later is never older than the holder's.
BootsSeen ==
  \A r \in ResourceId : resources[r] # None =>
    resources[r].ownerBoot <= workerBoots[resources[r].owner]

\* The newest boot seen of a worker has not gone back, and a resource has the
\* owner and the boot it had or an owner in the newest boot seen of it.
BootsKept ==
  /\ \A w \in Worker : workerBoots'[w] >= workerBoots[w]
  /\ \A r \in ResourceId : resources'[r] # None =>
       \/ /\ resources[r] # None
          /\ resources'[r].owner = resources[r].owner
          /\ resources'[r].ownerBoot = resources[r].ownerBoot
       \/ resources'[r].ownerBoot = workerBoots'[resources'[r].owner]

LEMMA BootsUntouched ==
  ASSUME TypeInv, BootsSeen, UNCHANGED workerBoots,
         \A r \in ResourceId :
           /\ resources'[r] = None <=> resources[r] = None
           /\ resources[r] # None =>
                /\ resources'[r].owner = resources[r].owner
                /\ resources'[r].ownerBoot = resources[r].ownerBoot
  PROVE  BootsSeen' /\ BootsKept
<1>1. \A w \in Worker : workerBoots[w] \in Nat
  BY DEF TypeInv, TypeOK
<1> QED BY <1>1 DEF BootsSeen, BootsKept

\* A resource taken by a process no older than the newest seen of its worker.
LEMMA BootTaken ==
  ASSUME TypeInv, BootsSeen, NEW p \in Publications, BootCurrent(p),
         NEW x \in Resource, x.owner = p.worker, x.ownerBoot = p.workerBoot,
         workerBoots' = [workerBoots EXCEPT ![p.worker] = p.workerBoot],
         resources' = resources
           \/ resources' = [resources EXCEPT ![p.id] = x]
  PROVE  BootsSeen' /\ BootsKept
<1>1. /\ p.worker \in Worker /\ p.workerBoot \in Nat /\ p.id \in ResourceId
      /\ workerBoots[p.worker] <= p.workerBoot
      /\ workerBoots \in [Worker -> Nat] /\ x # None
  BY PublicationFields DEF BootCurrent, TypeInv, TypeOK
<1>2. \A w \in Worker : workerBoots'[w] \in Nat /\ workerBoots[w] <= workerBoots'[w]
  BY <1>1
<1>3. workerBoots'[p.worker] = p.workerBoot
  BY <1>1
<1>4. \A r \in ResourceId : resources'[r] = resources[r] \/ resources'[r] = x
  <2>1. resources \in [ResourceId -> Resource \cup {None}]
    BY DEF TypeInv, TypeOK
  <2> QED BY <2>1
<1>5. ASSUME NEW r \in ResourceId, resources[r] # None
      PROVE  /\ resources[r].owner \in Worker /\ resources[r].ownerBoot \in Nat
             /\ workerBoots[resources[r].owner] \in Nat
             /\ resources[r].ownerBoot <= workerBoots[resources[r].owner]
  BY <1>1, <1>5 DEF BootsSeen, TypeInv, TypeOK, Resource
<1>6. BootsSeen'
  <2> SUFFICES ASSUME NEW r \in ResourceId, resources'[r] # None
               PROVE  resources'[r].ownerBoot <= workerBoots'[resources'[r].owner]
    BY DEF BootsSeen
  <2>1. CASE resources'[r] = resources[r]
    BY <1>2, <1>5, <2>1
  <2>2. CASE resources'[r] = x
    BY <1>1, <1>3, <2>2
  <2> QED BY <1>4, <2>1, <2>2
<1>7. BootsKept
  <2>1. \A w \in Worker : workerBoots'[w] >= workerBoots[w]
    BY <1>1, <1>2 DEF TypeInv, TypeOK
  <2>2. ASSUME NEW r \in ResourceId, resources'[r] # None
        PROVE  resources'[r] = resources[r]
                 \/ resources'[r].ownerBoot = workerBoots'[resources'[r].owner]
    BY <1>3, <1>4
  <2> QED BY <2>1, <2>2 DEF BootsKept
<1> QED BY <1>6, <1>7

LEMMA BootsNext ==
  TypeInv /\ BootsSeen /\ [Next]_vars => BootsSeen' /\ BootsKept
<1> SUFFICES ASSUME TypeInv, BootsSeen, [Next]_vars
             PROVE  BootsSeen' /\ BootsKept
  OBVIOUS
<1>1. ASSUME UNCHANGED <<resources, workerBoots>>
      PROVE  BootsSeen' /\ BootsKept
  BY <1>1, BootsUntouched
<1>2. ASSUME NEW p \in Publications, PublishResource(p)
      PROVE  BootsSeen' /\ BootsKept
  <2> DEFINE x == [generation |-> p.generation,
                   resourceClass |-> p.resourceClass,
                   totalCapacity |-> p.totalCapacity, owner |-> p.worker,
                   ownerBoot |-> p.workerBoot, available |-> TRUE]
  <2>1. /\ BootCurrent(p) /\ p.totalCapacity > 0
        /\ workerBoots' = [workerBoots EXCEPT ![p.worker] = p.workerBoot]
        /\ resources' = resources \/ resources' = [resources EXCEPT ![p.id] = x]
    BY <1>2 DEF PublishResource, Install
  <2>2. x \in Resource /\ x.owner = p.worker /\ x.ownerBoot = p.workerBoot
    <3>1. p.totalCapacity \in Nat
      BY <2>1, PublicationFields
    <3> QED BY <3>1, PublicationFields DEF Resource
  <2> HIDE DEF x
  <2> QED BY <2>1, <2>2, BootTaken
<1>3. ASSUME NEW p \in Publications, RevalidateResource(p)
      PROVE  BootsSeen' /\ BootsKept
  <2> DEFINE x == [resources[p.id] EXCEPT !.generation = p.generation,
                     !.owner = p.worker, !.ownerBoot = p.workerBoot,
                     !.available = TRUE]
  <2>1. /\ BootCurrent(p) /\ resources[p.id] # None
        /\ workerBoots' = [workerBoots EXCEPT ![p.worker] = p.workerBoot]
        /\ resources' = [resources EXCEPT ![p.id] = x]
    BY <1>3 DEF RevalidateResource
  <2>2. resources[p.id] \in Resource
    BY <2>1, PublicationFields DEF TypeInv, TypeOK
  <2>3. x \in Resource /\ x.owner = p.worker /\ x.ownerBoot = p.workerBoot
    BY <2>2, PublicationFields DEF Resource
  <2> HIDE DEF x
  <2> QED BY <2>1, <2>3, BootTaken
<1>4. ASSUME NEW r \in ResourceId,
             \/ InvalidateResource(r)
             \/ \E g \in ResourceGenerations, available \in BOOLEAN :
                  AdvanceResourceGeneration(r, g, available)
      PROVE  BootsSeen' /\ BootsKept
  <2>1. resources[r] \in Resource /\ UNCHANGED workerBoots
    BY <1>4 DEF InvalidateResource, AdvanceResourceGeneration, TypeInv, TypeOK
  <2>2. ASSUME NEW x, resources' = [resources EXCEPT ![r] = x], x \in Resource,
               x.owner = resources[r].owner,
               x.ownerBoot = resources[r].ownerBoot
        PROVE  BootsSeen' /\ BootsKept
    <3>1. /\ resources'[r] = x /\ x # None /\ resources[r] # None
          /\ \A q \in ResourceId \ {r} : resources'[q] = resources[q]
      BY <2>1, <2>2 DEF TypeInv, TypeOK
    <3> QED BY <2>1, <2>2, <3>1, BootsUntouched
  <2>3. CASE InvalidateResource(r)
    <3> DEFINE x == [resources[r] EXCEPT !.available = FALSE]
    <3>1. resources' = [resources EXCEPT ![r] = x]
      BY <2>3 DEF InvalidateResource
    <3>2. /\ x \in Resource /\ x.owner = resources[r].owner
          /\ x.ownerBoot = resources[r].ownerBoot
      BY <2>1 DEF Resource
    <3> HIDE DEF x
    <3> QED BY <2>2, <3>1, <3>2
  <2>4. ASSUME NEW g \in ResourceGenerations, NEW available \in BOOLEAN,
               AdvanceResourceGeneration(r, g, available)
        PROVE  BootsSeen' /\ BootsKept
    <3> DEFINE x == [resources[r] EXCEPT !.generation = g,
                                         !.available = available]
    <3>1. resources' = [resources EXCEPT ![r] = x] /\ g \in Nat
      BY <2>4 DEF AdvanceResourceGeneration
    <3>2. /\ x \in Resource /\ x.owner = resources[r].owner
          /\ x.ownerBoot = resources[r].ownerBoot
      BY <2>1, <3>1 DEF Resource
    <3> HIDE DEF x
    <3> QED BY <2>2, <3>1, <3>2
  <2> QED BY <1>4, <2>3, <2>4
<1>5. CASE Everyday
  <2>1. CASE \/ \E p \in Publications : RevalidateResource(p)
             \/ \E r \in ResourceId : InvalidateResource(r)
             \/ \E r \in ResourceId, g \in ResourceGenerations,
                   available \in BOOLEAN :
                  AdvanceResourceGeneration(r, g, available)
    BY <1>3, <1>4, <2>1
  <2>2. CASE UNCHANGED <<resources, workerBoots>>
    BY <1>1, <2>2
  <2> QED BY <1>5, <2>1, <2>2
          DEF Everyday, SetCoordinatorEpoch, ReleaseHold, ExpireHolds, Activate,
              Consume, OnlyReservationsChange, Release, Cancel, ExpireDue
<1>6. CASE Next /\ ~Everyday
  <2>1. CASE \E p \in Publications : PublishResource(p)
    BY <1>2, <2>1
  <2>2. CASE UNCHANGED <<resources, workerBoots>>
    BY <1>1, <2>2
  <2> QED BY <1>6, <2>1, <2>2
          DEF Next, CreateHold, Commit, ActivateStale, OnlyReservationsChange,
              Resize, Renew, Transfer, OnlyGenerationsChange
<1>7. CASE UNCHANGED vars
  BY <1>1, <1>7 DEF vars
<1> QED BY <1>5, <1>6, <1>7

-----------------------------------------------------------------------------
(* All together.                                                           *)

LEMMA SafetyNext == TypeInv /\ Safety /\ [Next]_vars => Safety'
<1> SUFFICES ASSUME TypeInv, Safety, [Next]_vars PROVE Safety'
  OBVIOUS
<1>1. ASSUME \/ \E e \in 1..MaxAuthority : SetCoordinatorEpoch(e)
             \/ \E h \in HoldId, spec \in HoldSpecs : ReleaseHold(h, spec.holdGeneration)
             \/ \E now \in Instant : ExpireHolds(now)
             \/ \E spec \in HoldSpecs, r \in ResourceId, now \in HoldClock :
                  CreateHold(spec, r, now)
             \/ UNCHANGED vars
      PROVE  UNCHANGED <<resources, reservations, currentGen, history,
                         nextReservationId>>
  BY <1>1 DEF SetCoordinatorEpoch, ReleaseHold, ExpireHolds, CreateHold, vars
<1>2. CASE Everyday
  <2>1. ResourceGenerations \subseteq Nat
    OBVIOUS
  <2> QED BY <1>1, <1>2, <2>1, SafetyUntouched, RevalidateResourceSafe,
             InvalidateResourceSafe, AdvanceResourceGenerationSafe,
             ActivateSafe, ConsumeSafe, ReleaseSafe, CancelSafe, ExpireDueSafe
          DEF Everyday
<1>3. CASE Next /\ ~Everyday
  <2>1. Requests \subseteq Request
    OBVIOUS
  <2> QED BY <1>1, <1>3, <2>1, SafetyUntouched, PublishResourceSafe, CommitSafe,
             ActivateStaleSafe, ResizeSafe, RenewSafe, TransferSafe DEF Next
<1> QED BY <1>1, <1>2, <1>3, SafetyUntouched

\* Whoever fences a resource suspends its users in the same step, and nothing
\* else puts a reservation to use: under any caller nothing is in use on a
\* resource that is not available.
THEOREM FencingSuspends == Spec => []InUseOnlyOnAvailable
<1>1. Safety => InUseOnlyOnAvailable
  BY DEF Safety
<1> QED BY TypeInit, NextTypes, SafetyInit, SafetyNext, <1>1, PTL DEF Spec

\* Through consumption, resize, renewal and transfer by any caller, what has
\* been consumed stays within the promise.
THEOREM NoOverconsumption == Spec => []ConsumptionWithinPromise
<1>1. Safety => ConsumptionWithinPromise
  BY DEF Safety
<1> QED BY TypeInit, NextTypes, SafetyInit, SafetyNext, <1>1, PTL DEF Spec

\* Under any caller the history holds the generations just before the current
\* one, as many as it may: a new id was never used, and each modification
\* archives exactly the generation it replaces.
THEOREM GenerationsFollow == Spec => []HistoryContiguous
<1>1. Safety => HistoryContiguous
  BY DEF Safety, GenerationsInv
<1> QED BY TypeInit, NextTypes, SafetyInit, SafetyNext, <1>1, PTL DEF Spec

\* A reservation that goes on keeps its terms or takes the next number.
LEMMA FollowersImmutable ==
  AllFollow => \A id \in ReservationId : Exists(id) =>
    /\ reservations'[id] # None
    /\ \/ /\ reservations'[id].generation = reservations[id].generation
          /\ Terms(reservations'[id]) = Terms(reservations[id])
       \/ reservations'[id].generation = reservations[id].generation + 1
BY DEF AllFollow, SameGeneration, NextGeneration

\* A generation is immutable under any caller: no operation rewrites the terms
\* of a reservation in place, and one that changes them numbers the result one
\* higher, so that no generation comes back.
THEOREM GenerationsAreImmutable == Spec => GenerationsImmutable
BY TypeInit, NextTypes, SafetyInit, SafetyNext, NextFollow, FollowersImmutable,
   PTL DEF Spec, GenerationsImmutable

\* What is withdrawn and put back is as it was.
LEMMA PutBack ==
  ASSUME NEW e \in Envelope, NEW strength, NEW w, NEW d \in Int
  PROVE  AddCommitted(AddCommitted(e, strength, w, -d), strength, w, d) = e
<1> DEFINE x == AddCommitted(e, strength, w, -d)
           y == AddCommitted(x, strength, w, d)
<1>1. /\ e.hard \in [Time -> Int] /\ e.soft \in [Time -> Int]
      /\ DOMAIN e = {"from", "ratio", "cap", "hard", "soft", "held"}
  BY DEF Envelope
<1>2. \A S : \A f \in [Time -> Int] : Raise(Raise(f, S, -d), S, d) = f
  <2> TAKE S
  <2> TAKE f \in [Time -> Int]
  <2>1. /\ Raise(f, S, -d) \in [Time -> Int]
        /\ \A t \in Time : Raise(f, S, -d)[t] = IF t \in S THEN f[t] + (-d) ELSE f[t]
    BY DEF Raise
  <2> DEFINE g == Raise(f, S, -d)
  <2> HIDE DEF g
  <2>2. \A t \in Time : Raise(g, S, d)[t] = IF t \in S THEN g[t] + d ELSE g[t]
    BY DEF Raise
  <2>3. \A t \in Time : Raise(g, S, d)[t] = f[t]
    BY <2>1, <2>2 DEF g
  <2>4. Raise(g, S, d) = [t \in Time |-> Raise(g, S, d)[t]]
    BY DEF Raise
  <2>5. f = [t \in Time |-> f[t]]
    OBVIOUS
  <2> QED BY <2>3, <2>4, <2>5 DEF g
<1>3. CellsOf(x, w) = CellsOf(e, w)
  BY <1>1 DEF AddCommitted, CellsOf, Span
<1>4. \A h, k : [[e EXCEPT !.hard = h] EXCEPT !.hard = k] = [e EXCEPT !.hard = k]
      /\ [[e EXCEPT !.soft = h] EXCEPT !.soft = k] = [e EXCEPT !.soft = k]
  BY <1>1
<1>5. [e EXCEPT !.hard = e.hard] = e /\ [e EXCEPT !.soft = e.soft] = e
  BY DEF Envelope
<1>6. CASE strength = "Hard"
  <2>1. x = [e EXCEPT !.hard = Raise(e.hard, CellsOf(e, w), -d)]
    BY <1>6 DEF AddCommitted
  <2>2. y = [x EXCEPT !.hard = Raise(x.hard, CellsOf(e, w), d)]
    BY <1>3, <1>6 DEF AddCommitted
  <2>3. Raise(x.hard, CellsOf(e, w), d) = e.hard
    BY <1>1, <1>2, <2>1
  <2> HIDE DEF x, y
  <2>4. y = [e EXCEPT !.hard = e.hard]
    BY <1>4, <2>1, <2>2, <2>3
  <2> QED BY <1>5, <2>4 DEF x, y
<1>7. CASE strength # "Hard"
  <2>1. x = [e EXCEPT !.soft = Raise(e.soft, CellsOf(e, w), -d)]
    BY <1>7 DEF AddCommitted
  <2>2. y = [x EXCEPT !.soft = Raise(x.soft, CellsOf(e, w), d)]
    BY <1>3, <1>7 DEF AddCommitted
  <2>3. Raise(x.soft, CellsOf(e, w), d) = e.soft
    BY <1>1, <1>2, <2>1
  <2> HIDE DEF x, y
  <2>4. y = [e EXCEPT !.soft = e.soft]
    BY <1>4, <2>1, <2>2, <2>3
  <2> QED BY <1>5, <2>4 DEF x, y
<1> QED BY <1>6, <1>7

\* Without a new generation the operation was refused.
LEMMA RefusedModify ==
  ASSUME TypeInv, NEW id \in ReservationId, Exists(id),
         reservations[id].contributesEnvelope,
         NEW r, NEW w, Modify(id, r, w), currentGen'[id] = currentGen[id]
  PROVE  UNCHANGED <<envelopes, reservations, currentGen, history>>
<1> DEFINE old  == reservations[id]
           home == old.resource
           e    == envelopes[home]
           bare == Withdraw(e, old)
<1>1. /\ old \in Reservation /\ home \in ResourceId /\ e \in Envelope
      /\ envelopes \in [ResourceId -> Envelope \cup {None}]
      /\ reservations \in [ReservationId -> Reservation \cup {None}]
  BY CurrentReservation DEF TypeInv, TypeOK
<1>2. Headroom(bare, old.strength, w) < r.quantity
  <2>1. CASE ~(Headroom(bare, old.strength, w) < r.quantity)
    <3>1. currentGen' = [currentGen EXCEPT ![id] = @ + 1]
      BY <2>1 DEF Modify, Supersede
    <3>2. currentGen[id] \in Nat /\ currentGen'[id] = currentGen[id] + 1
      BY <3>1 DEF TypeInv, TypeOK
    <3> QED BY <3>2
  <2> QED BY <2>1
<1>3. /\ envelopes' = [envelopes EXCEPT ![home] =
                         AddCommitted(bare, old.strength, old.window, old.quantity)]
      /\ reservations' = [reservations EXCEPT ![id].contributesEnvelope = TRUE]
      /\ UNCHANGED <<currentGen, history>>
  BY <1>2 DEF Modify
<1>4. bare = AddCommitted(e, old.strength, old.window, -old.quantity)
  BY DEF Withdraw
<1>5. AddCommitted(bare, old.strength, old.window, old.quantity) = e
  <2>1. old.quantity \in Int
    BY <1>1 DEF Reservation
  <2> HIDE DEF bare, e, old
  <2> QED BY <1>1, <1>4, <2>1, PutBack
<1>6. envelopes' = envelopes
  <2> HIDE DEF e, bare, home
  <2>1. envelopes' = [envelopes EXCEPT ![home] = e]
    BY <1>3, <1>5
  <2> QED BY <1>1, <2>1 DEF e
<1>7. reservations' = reservations
  <2>1. [old EXCEPT !.contributesEnvelope = TRUE] = old
    BY <1>1 DEF Reservation
  <2>2. reservations' = [reservations EXCEPT ![id] =
                           [old EXCEPT !.contributesEnvelope = TRUE]]
    BY <1>3
  <2> HIDE DEF old
  <2> QED BY <1>1, <2>1, <2>2 DEF old
<1> QED BY <1>3, <1>6, <1>7

\* A refused resize or renewal of what is in its envelope leaves no trace, for
\* any caller: the quantity withdrawn to read the headroom is put back.
THEOREM RefusalsLeaveNoTrace == Spec => RefusedModificationChangesNothing
<1>1. TypeInv => \A id \in ReservationId, g \in Generations :
        /\ Exists(id) /\ reservations[id].contributesEnvelope
        /\ currentGen'[id] = currentGen[id]
        /\ \/ \E quantity \in NewQuantities, policy \in PolicyGenerations :
                Resize(id, g, quantity, policy)
           \/ \E w \in NewWindows, policy \in PolicyGenerations :
                Renew(id, g, w, policy)
        => UNCHANGED vars
  <2> SUFFICES ASSUME TypeInv, NEW id \in ReservationId, NEW g \in Generations,
                      Exists(id), reservations[id].contributesEnvelope,
                      currentGen'[id] = currentGen[id],
                      \/ \E quantity \in NewQuantities,
                            policy \in PolicyGenerations :
                           Resize(id, g, quantity, policy)
                      \/ \E w \in NewWindows, policy \in PolicyGenerations :
                           Renew(id, g, w, policy)
               PROVE  UNCHANGED vars
    OBVIOUS
  <2>1. OnlyGenerationsChange /\ \E r, w : Modify(id, r, w)
    BY DEF Resize, Renew
  <2>2. UNCHANGED <<envelopes, reservations, currentGen, history>>
    BY <2>1, RefusedModify
  <2> QED BY <2>1, <2>2 DEF OnlyGenerationsChange, vars
<1> QED BY TypeInit, NextTypes, <1>1, PTL
        DEF Spec, RefusedModificationChangesNothing

\* A reservation that goes on counts no evidence twice.
LEMMA FollowersCountOnce ==
  TypeInv /\ TypeInv' /\ AllFollow =>
    \A id \in ReservationId : Exists(id) =>
    LET old == reservations[id]
        new == reservations'[id]
    IN  /\ new.consumptionGeneration >= old.consumptionGeneration
        /\ new.consumed > old.consumed =>
             new.consumptionGeneration > old.consumptionGeneration
        /\ new.generation = old.generation => new.consumed >= old.consumed
<1> SUFFICES ASSUME TypeInv, TypeInv', AllFollow,
                    NEW id \in ReservationId, Exists(id)
             PROVE  LET old == reservations[id]
                        new == reservations'[id]
                    IN  /\ new.consumptionGeneration >= old.consumptionGeneration
                        /\ new.consumed > old.consumed =>
                             new.consumptionGeneration > old.consumptionGeneration
                        /\ new.generation = old.generation =>
                             new.consumed >= old.consumed
  OBVIOUS
<1>1. reservations'[id] \in Reservation /\ reservations[id] \in Reservation
  BY CurrentReservation DEF AllFollow, TypeInv, TypeOK
<1>2. \A r \in Reservation : /\ r.consumed \in Nat /\ r.generation \in Nat
                             /\ r.consumptionGeneration \in Int
  BY DEF Reservation, NeverConsumed
<1>3. \/ SameGeneration(reservations'[id], reservations[id])
      \/ NextGeneration(reservations'[id], reservations[id])
  BY DEF AllFollow
<1> QED BY <1>1, <1>2, <1>3 DEF SameGeneration, NextGeneration

\* Under any caller consumption rises only with evidence not counted before,
\* and the evidence counted stays counted in every later generation.
THEOREM EvidenceCountsOnce == Spec => ConsumedOncePerEvidence
BY TypeInit, NextTypes, SafetyInit, SafetyNext, NextFollow, FollowersCountOnce,
   PTL DEF Spec, ConsumedOncePerEvidence

\* From when w has shown boot b on, it owns r in no older one.
NotBefore(r, w, b) ==
  workerBoots[w] >= b /\ (Owns(w, r) => resources[r].ownerBoot >= b)

LEMMA OwnerHasShown ==
  ASSUME TypeInv, BootsSeen, NEW r \in ResourceId, NEW w \in Worker, NEW b,
         Owns(w, r), resources[r].ownerBoot = b
  PROVE  NotBefore(r, w, b)
<1>1. resources[r] \in Resource /\ workerBoots[w] \in Nat
  BY DEF TypeInv, TypeOK, Owns
<1>2. resources[r].ownerBoot \in Nat
  BY <1>1 DEF Resource
<1> QED BY <1>1, <1>2 DEF BootsSeen, NotBefore, Owns

LEMMA KeptBoots ==
  ASSUME TypeInv, TypeInv', BootsKept, NEW r \in ResourceId, NEW w \in Worker,
         NEW b \in Int, NotBefore(r, w, b)
  PROVE  NotBefore(r, w, b)'
<1>1. workerBoots[w] \in Nat /\ workerBoots'[w] \in Nat
  BY DEF TypeInv, TypeOK
<1>2. workerBoots'[w] >= b
  BY <1>1 DEF BootsKept, NotBefore
<1>3. ASSUME Owns(w, r)'
      PROVE  resources'[r].ownerBoot >= b
  BY <1>2, <1>3 DEF BootsKept, NotBefore, Owns
<1> QED BY <1>2, <1>3 DEF NotBefore

LEMMA BootsInit == Init => BootsSeen
BY DEF Init, BootsSeen

\* Under any caller, a worker that owned a resource in some boot never owns it
\* in an older one, whichever workers owned it in between: only a process at
\* least as new as any seen of its worker takes a resource.
THEOREM FencedProcessesStayFenced == Spec => OwnerBootNeverRegresses
<1> SUFFICES ASSUME NEW r \in ResourceId, NEW w \in Worker,
                    NEW b \in {p.workerBoot : p \in Publications}
             PROVE  Spec => [](Owns(w, r) /\ resources[r].ownerBoot = b =>
                                 [](Owns(w, r) => resources[r].ownerBoot >= b))
  BY DEF OwnerBootNeverRegresses
<1>1. b \in Int
  BY PublicationFields
<1>2. TypeInv /\ BootsSeen /\ Owns(w, r) /\ resources[r].ownerBoot = b
        => NotBefore(r, w, b)
  BY OwnerHasShown
<1>3. TypeInv /\ TypeInv' /\ BootsKept /\ NotBefore(r, w, b) => NotBefore(r, w, b)'
  BY <1>1, KeptBoots
<1>4. NotBefore(r, w, b) => (Owns(w, r) => resources[r].ownerBoot >= b)
  BY DEF NotBefore
<1> QED BY <1>2, <1>3, <1>4, TypeInit, NextTypes, BootsInit, BootsNext, PTL DEF Spec

-----------------------------------------------------------------------------
(* The published transition table, for disciplined callers.                *)

\* S and what one transition of the table leads to from it.
Widened(S) == S \cup {to \in Lifecycles : \E l \in S : CanTransition(l, to)}

\* p lists what the table leads to from a state, in 0..n transitions.
Levels(p, from, n) ==
  p = [i \in 0..n |-> IF i = 0 THEN {from} ELSE Widened(p[i - 1])]

\* There is such a list for every n.
LEMMA LevelsExist ==
  ASSUME NEW from, NEW n \in Nat
  PROVE  \E p : Levels(p, from, n)
<1> DEFINE S == {m \in Nat : \E p : Levels(p, from, m)}
<1>1. 0 \in S
  <2> DEFINE p == [i \in 0..0 |-> {from}]
  <2>1. Levels(p, from, 0)
    BY DEF Levels
  <2> QED BY <2>1
<1>2. ASSUME NEW m \in Nat, m \in S PROVE m + 1 \in S
  <2>1. PICK p : Levels(p, from, m)
    BY <1>2
  <2> DEFINE q == [i \in 0..(m + 1) |->
                     IF i = m + 1 THEN Widened(p[m]) ELSE p[i]]
  <2>2. \A i \in 0..m : p[i] = IF i = 0 THEN {from} ELSE Widened(p[i - 1])
    BY <2>1 DEF Levels
  <2>3. /\ m + 1 \in 0..(m + 1) /\ m \in 0..(m + 1) /\ m # m + 1
        /\ \A i \in 0..m : i \in 0..(m + 1) /\ i # m + 1
        /\ \A i \in 0..(m + 1) : i = m + 1 \/ i \in 0..m
        /\ \A i \in 0..m : i = 0 \/ i - 1 \in 0..m
        /\ (m + 1) - 1 = m /\ m + 1 # 0
    OBVIOUS
  <2>4. q[m + 1] = Widened(q[m]) /\ q[0] = {from}
    BY <2>2, <2>3
  <2>5. \A i \in 0..m : q[i] = IF i = 0 THEN {from} ELSE Widened(q[i - 1])
    BY <2>2, <2>3
  <2>6. \A i \in 0..(m + 1) : q[i] = IF i = 0 THEN {from} ELSE Widened(q[i - 1])
    BY <2>3, <2>4, <2>5
  <2>7. q = [i \in 0..(m + 1) |-> q[i]]
    OBVIOUS
  <2> HIDE DEF q
  <2>8. Levels(q, from, m + 1)
    BY <2>6, <2>7 DEF Levels
  <2> QED BY <2>8
<1>3. n \in S
  <2> HIDE DEF S
  <2> QED BY <1>1, <1>2, SetInduction
<1> QED BY <1>3

\* Reach is the last of them.
LEMMA ReachIsLast ==
  ASSUME NEW from \in Lifecycles, Cardinality(Lifecycles) \in Nat
  PROVE  \E p : /\ Levels(p, from, Cardinality(Lifecycles))
                /\ Reach[from] = p[Cardinality(Lifecycles)]
<1> DEFINE n == Cardinality(Lifecycles)
           chosen == CHOOSE p : Levels(p, from, n)
<1>1. \E p : Levels(p, from, n)
  BY LevelsExist
<1>2. Levels(chosen, from, n)
  BY <1>1
<1>3. Reach[from] = chosen[n]
  BY DEF Reach, Levels, Widened
<1> QED BY <1>2, <1>3

\* There are states enough for the paths below.
LEMMA LifecyclesCounted ==
  Cardinality(Lifecycles) \in Nat /\ Cardinality(Lifecycles) >= 3
<1>1. IsFiniteSet(Lifecycles)
  <2> DEFINE s == <<"Requested", "Planned", "Holding", "Held", "Committing",
                    "Committed", "PendingActivation", "Activating", "Active",
                    "PartiallyConsumed", "Consumed", "Modifying", "Renewing",
                    "Releasing", "Released", "Expired", "Cancelled",
                    "Superseded", "Failed", "Recovering",
                    "RevalidationRequired", "Retired">>
  <2>1. s \in Seq(Lifecycles)
    BY DEF Lifecycles
  <2>2. \A l \in Lifecycles : \E i \in 1..Len(s) : s[i] = l
    BY DEF Lifecycles
  <2> QED BY <2>1, <2>2 DEF IsFiniteSet
<1>2. Cardinality({"Active"}) = 1 /\ IsFiniteSet({"Active"})
  BY FS_Singleton
<1>3. Cardinality({"Active"} \cup {"Released"}) = 2
      /\ IsFiniteSet({"Active"} \cup {"Released"})
  <2>1. "Released" \notin {"Active"}
    OBVIOUS
  <2>2. 1 + 1 = 2
    OBVIOUS
  <2> QED BY <1>2, <2>1, <2>2, FS_AddElement
<1>4. Cardinality(({"Active"} \cup {"Released"}) \cup {"Expired"}) = 3
  <2>1. "Expired" \notin {"Active"} \cup {"Released"}
    OBVIOUS
  <2>2. 2 + 1 = 3
    OBVIOUS
  <2> QED BY <1>3, <2>1, <2>2, FS_AddElement
<1>5. ({"Active"} \cup {"Released"}) \cup {"Expired"} \subseteq Lifecycles
  BY DEF Lifecycles
<1> QED BY <1>1, <1>4, <1>5, FS_Subset, FS_CardinalityType

\* A path of three transitions, or of fewer and waits, is one of the table's.
Steps(l, m) == l \in Lifecycles /\ m \in Lifecycles /\ (l = m \/ CanTransition(l, m))

LEMMA PathReaches ==
  ASSUME NEW a, NEW b, NEW c, NEW d, Steps(a, b), Steps(b, c), Steps(c, d)
  PROVE  d \in Reach[a]
<1> DEFINE n == Cardinality(Lifecycles)
<1>1. n \in Nat /\ n >= 3
  BY LifecyclesCounted
<1>2. PICK p : Levels(p, a, n) /\ Reach[a] = p[n]
  BY <1>1, ReachIsLast DEF Steps
<1> HIDE DEF n
<1>3. p[0] = {a} /\ \A i \in 1..n : p[i] = Widened(p[i - 1])
  <2>1. \A i \in 0..n : p[i] = IF i = 0 THEN {a} ELSE Widened(p[i - 1])
    BY <1>2 DEF Levels
  <2>2. 0 \in 0..n /\ \A i \in 1..n : i \in 0..n /\ i # 0
    BY <1>1
  <2> QED BY <2>1, <2>2
<1>4. d \in p[3]
  <2>1. p[1] = Widened(p[0]) /\ p[2] = Widened(p[1]) /\ p[3] = Widened(p[2])
    <3>1. 1 \in 1..n /\ 2 \in 1..n /\ 3 \in 1..n
      BY <1>1
    <3>2. 1 - 1 = 0 /\ 2 - 1 = 1 /\ 3 - 1 = 2
      OBVIOUS
    <3> QED BY <1>3, <3>1, <3>2
  <2>2. b \in p[1]
    BY <1>3, <2>1 DEF Steps, Widened
  <2>3. c \in p[2]
    BY <2>1, <2>2 DEF Steps, Widened
  <2> QED BY <2>1, <2>3 DEF Steps, Widened
<1>5. d \in p[n]
  <2> DEFINE U == {m \in Nat : 3 + m <= n => d \in p[3 + m]}
  <2>1. 0 \in U
    BY <1>4
  <2>2. ASSUME NEW m \in Nat, m \in U PROVE m + 1 \in U
    <3> SUFFICES ASSUME 3 + (m + 1) <= n PROVE d \in p[3 + (m + 1)]
      OBVIOUS
    <3>1. 3 + (m + 1) \in 1..n /\ (3 + (m + 1)) - 1 = 3 + m /\ 3 + m <= n
      BY <1>1
    <3>2. d \in p[3 + m]
      BY <2>2, <3>1
    <3> QED BY <1>3, <3>1, <3>2 DEF Widened
  <2>3. n - 3 \in U
    <3>1. n - 3 \in Nat
      BY <1>1
    <3> HIDE DEF U
    <3> QED BY <2>1, <2>2, <3>1, SetInduction
  <2> QED BY <1>1, <2>3
<1> QED BY <1>2, <1>5

\* The states in which the operations leave reservations, all but three of
\* them with a claim.
Engaged ==
  {"Committed", "PendingActivation", "RevalidationRequired", "Active",
   "PartiallyConsumed", "Consumed"}

Occurring == Engaged \cup {"Released", "Expired", "Cancelled"}

\* The moves operations make: whatever is engaged may be suspended or given
\* up; what is suspended may wait for activation; activation and consumption
\* lead forward.
LEMMA Moves ==
  /\ \A l \in Occurring : l \in Lifecycles /\ l \in Reach[l]
  /\ \A l \in Engaged : /\ "RevalidationRequired" \in Reach[l]
                        /\ "Released" \in Reach[l]
                        /\ "Expired" \in Reach[l]
                        /\ "Cancelled" \in Reach[l]
  /\ "PendingActivation" \in Reach["RevalidationRequired"]
  /\ \A l \in Activatable : "Active" \in Reach[l]
  /\ \A l \in {"Active", "PartiallyConsumed"} :
       "PartiallyConsumed" \in Reach[l] /\ "Consumed" \in Reach[l]
<1>1. \A l \in Lifecycles : Steps(l, l)
  BY DEF Steps
<1>2. Occurring \subseteq Lifecycles /\ Activatable \subseteq Lifecycles
  BY DEF Occurring, Engaged, Lifecycles, Activatable
<1>3. \A l \in Engaged : Steps(l, "RevalidationRequired")
  BY DEF Engaged, Steps, Lifecycles, CanTransition, Successors
<1>4. /\ Steps("RevalidationRequired", "Releasing")
      /\ Steps("Releasing", "Released")
      /\ Steps("RevalidationRequired", "Expired")
      /\ Steps("RevalidationRequired", "Cancelled")
      /\ Steps("RevalidationRequired", "PendingActivation")
  BY DEF Steps, Lifecycles, CanTransition, Successors
<1>5. /\ \A l \in Activatable : l = "Activating" \/ Steps(l, "PendingActivation")
      /\ Steps("PendingActivation", "Activating")
      /\ Steps("Activating", "Active")
  BY DEF Activatable, Steps, Lifecycles, CanTransition, Successors
<1>6. \A l \in {"Active", "PartiallyConsumed"} :
        Steps(l, "PartiallyConsumed") /\ Steps(l, "Consumed")
  BY DEF Steps, Lifecycles, CanTransition, Successors
<1>7. \A l \in Occurring : l \in Reach[l]
  BY <1>1, <1>2, PathReaches
<1>8. \A l \in Engaged : /\ "RevalidationRequired" \in Reach[l]
                         /\ "Released" \in Reach[l]
                         /\ "Expired" \in Reach[l]
                         /\ "Cancelled" \in Reach[l]
  BY <1>1, <1>3, <1>4, PathReaches DEF Steps
<1>9. "PendingActivation" \in Reach["RevalidationRequired"]
  BY <1>1, <1>4, PathReaches DEF Steps
<1>10. \A l \in Activatable : "Active" \in Reach[l]
  BY <1>1, <1>2, <1>5, PathReaches DEF Steps
<1>11. \A l \in {"Active", "PartiallyConsumed"} :
         "PartiallyConsumed" \in Reach[l] /\ "Consumed" \in Reach[l]
  BY <1>1, <1>6, PathReaches DEF Steps
<1> QED BY <1>2, <1>7, <1>8, <1>9, <1>10, <1>11

\* Reservations are where operations leave them.
Occurs ==
  \A id \in ReservationId : Exists(id) => reservations[id].lifecycle \in Occurring

\* x goes on from r along a path of the table, or is another generation.
Travels(x, r) ==
  /\ x.lifecycle \in Occurring
  /\ x.generation # r.generation \/ x.lifecycle \in Reach[r.lifecycle]

\* So does every reservation, and new ones are committed.
AllTravel ==
  \A id \in ReservationId :
    IF Exists(id) THEN Travels(reservations'[id], reservations[id])
    ELSE reservations'[id] # None => reservations'[id].lifecycle = "Committed"

\* A reservation that holds capacity is in one of the six states.
LEMMA EngagedClaims ==
  ASSUME Occurs, NEW id \in ReservationId
  PROVE  /\ HoldsCapacity(id) => reservations[id].lifecycle \in Engaged
         /\ Exists(id) /\ reservations[id].lifecycle \notin Disengaged =>
              reservations[id].lifecycle \in Engaged
<1>1. {"Released", "Expired", "Cancelled"} \cap CapacityHolding = {}
  BY LifecycleNames
<1> QED BY <1>1 DEF Occurs, Occurring, HoldsCapacity, Disengaged

\* What stays where it is.
LEMMA StayingTravels ==
  ASSUME Occurs, NEW id \in ReservationId, Exists(id), NEW x,
         x.lifecycle = reservations[id].lifecycle
  PROVE  Travels(x, reservations[id])
BY Moves DEF Occurs, Travels

\* A step that leaves all reservations as they are.
LEMMA QuietTravel ==
  ASSUME Occurs, UNCHANGED reservations
  PROVE  AllTravel
BY StayingTravels DEF AllTravel, Exists

\* One reservation rewritten.
LEMMA OneTravels ==
  ASSUME TypeInv, Occurs, NEW id \in ReservationId, Exists(id), NEW x,
         Travels(x, reservations[id]),
         reservations' = [reservations EXCEPT ![id] = x]
  PROVE  AllTravel
<1>1. reservations'[id] = x
      /\ \A i \in ReservationId \ {id} : reservations'[i] = reservations[i]
  BY DEF TypeInv, TypeOK
<1> QED BY <1>1, StayingTravels DEF AllTravel, Exists

\* A set of engaged reservations moved to a state all of them may go to.
LEMMA ManyTravel ==
  ASSUME TypeInv, Occurs, NEW S, S \subseteq ReservationId,
         NEW l \in {"RevalidationRequired", "Expired"},
         \A id \in S : Exists(id) /\ reservations[id].lifecycle \in Engaged,
         \A id \in S : reservations'[id].lifecycle = l,
         \A id \in ReservationId \ S :
           reservations'[id] = reservations[id]
  PROVE  AllTravel
<1>1. l \in Occurring
  BY DEF Occurring, Engaged
<1>2. ASSUME NEW id \in S
      PROVE  Travels(reservations'[id], reservations[id])
  BY <1>1, <1>2, Moves DEF Travels
<1>3. ASSUME NEW id \in ReservationId \ S, Exists(id)
      PROVE  Travels(reservations'[id], reservations[id])
  BY <1>3, StayingTravels
<1> QED BY <1>2, <1>3 DEF AllTravel, Exists

\* What is fenced waits for revalidation.
LEMMA FencingTravels ==
  ASSUME TypeInv, Occurs, NEW r \in ResourceId,
         \/ InvalidateResource(r)
         \/ \E g \in ResourceGenerations, available \in BOOLEAN :
              AdvanceResourceGeneration(r, g, available)
  PROVE  AllTravel
<1>1. PICK S \in {Commitments(r), InUseOn(r)} :
        reservations' = WithLifecycle(S, "RevalidationRequired")
  BY DEF InvalidateResource, AdvanceResourceGeneration
<1>2. S \subseteq {id \in ReservationId : HoldsCapacity(id)}
  BY DEF Commitments, InUseOn
<1>3. ASSUME NEW id \in S
      PROVE  /\ Exists(id) /\ reservations[id].lifecycle \in Engaged
             /\ reservations'[id].lifecycle = "RevalidationRequired"
  <2>1. id \in ReservationId /\ Exists(id) /\ reservations[id].lifecycle \in Engaged
    BY <1>2, EngagedClaims DEF HoldsCapacity
  <2>2. reservations[id] \in Reservation
    BY <2>1, CurrentReservation
  <2>3. reservations'[id] =
          [reservations[id] EXCEPT !.lifecycle = "RevalidationRequired"]
    BY <1>1, <2>1 DEF WithLifecycle
  <2> QED BY <2>1, <2>2, <2>3 DEF Reservation
<1>4. \A id \in ReservationId \ S : reservations'[id] = reservations[id]
  BY <1>1 DEF WithLifecycle
<1> QED BY <1>2, <1>3, <1>4, ManyTravel

\* What is due expires.
LEMMA ExpireDueTravels ==
  ASSUME TypeInv, Occurs, NEW now, ExpireDue(now)
  PROVE  AllTravel
<1>1. /\ \A id \in Due(now) :
           reservations'[id] = Disengage(reservations[id], "Expired")
      /\ \A id \in ReservationId \ Due(now) :
           reservations'[id] = reservations[id]
      /\ Due(now) \subseteq ReservationId
  BY DEF ExpireDue, Due
<1>2. ASSUME NEW id \in Due(now)
      PROVE  /\ Exists(id) /\ reservations[id].lifecycle \in Engaged
             /\ reservations'[id].lifecycle = "Expired"
  <2>1. id \in ReservationId /\ Exists(id) /\ reservations[id].lifecycle \in Engaged
    BY EngagedClaims DEF Due, HoldsCapacity
  <2>2. reservations[id] \in Reservation
    BY <2>1, CurrentReservation
  <2>3. Disengage(reservations[id], "Expired").lifecycle = "Expired"
    BY <2>2, DisengagedFollows
  <2> QED BY <1>1, <2>1, <2>3
<1> QED BY <1>1, <1>2, ManyTravel

\* The first publication of a resource has no reservations to suspend.
LEMMA FirstPublicationTravels ==
  ASSUME TypeInv, Occurs, NEW p \in Publications,
         resources[p.id] = None \/ OldNews(p), PublishResource(p)
  PROVE  AllTravel
<1>1. CASE OldNews(p)
  BY <1>1, QuietTravel DEF PublishResource
<1>2. CASE ~OldNews(p)
  <2>1. Commitments(p.id) = {}
    BY <1>2 DEF TypeInv, Anchored, Commitments, HoldsCapacity, ResourceOf
  <2>2. \A id \in ReservationId : reservations'[id] = reservations[id]
    BY <1>2, <2>1 DEF PublishResource, Install, WithLifecycle, InUseOn
  <2> QED BY <2>2, StayingTravels DEF AllTravel, Exists
<1> QED BY <1>1, <1>2

\* What waited for revalidation waits for activation.
LEMMA RevalidateResourceTravels ==
  ASSUME TypeInv, Occurs, NEW p \in Publications, RevalidateResource(p)
  PROVE  AllTravel
<1>1. \A id \in ReservationId :
        reservations'[id] =
          IF id \in AwaitingRevalidation(p.id)
          THEN [reservations[id] EXCEPT !.lifecycle = "PendingActivation",
                                        !.boundResourceGeneration = p.generation]
          ELSE reservations[id]
  BY DEF RevalidateResource
<1>2. ASSUME NEW id \in AwaitingRevalidation(p.id)
      PROVE  Exists(id) /\ Travels(reservations'[id], reservations[id])
  <2>1. /\ id \in ReservationId /\ Exists(id)
        /\ reservations[id].lifecycle = "RevalidationRequired"
    BY DEF AwaitingRevalidation, Commitments, HoldsCapacity
  <2>2. reservations'[id].lifecycle = "PendingActivation"
    BY <1>1, <2>1, CurrentReservation DEF Reservation
  <2>3. "PendingActivation" \in Occurring
    BY DEF Occurring, Engaged
  <2> QED BY <2>1, <2>2, <2>3, Moves DEF Travels
<1>3. \A id \in ReservationId \ AwaitingRevalidation(p.id) :
        reservations'[id] = reservations[id]
  BY <1>1
<1> QED BY <1>2, <1>3, StayingTravels DEF AllTravel, Exists

\* Activation, on stale evidence or on fresh.
LEMMA ActivationTravels ==
  ASSUME TypeInv, Occurs, NEW id \in ReservationId, NEW g,
         \/ HoldsCapacity(id) /\ ActivateStale(id, g)
         \/ \E ev \in Evidence, at \in Time : Activate(id, g, ev, at)
  PROVE  AllTravel
<1> DEFINE r == reservations[id]
<1>1. Exists(id) /\ r \in Reservation
  BY CurrentReservation DEF ActivateStale, Activate, Current
<1>2. CASE HoldsCapacity(id) /\ ActivateStale(id, g)
  <2> DEFINE x == [r EXCEPT !.lifecycle = "RevalidationRequired"]
  <2>1. reservations' = [reservations EXCEPT ![id] = x]
    BY <1>2 DEF ActivateStale
  <2>2. x.lifecycle = "RevalidationRequired"
    BY <1>1 DEF Reservation
  <2> HIDE DEF x
  <2>3. r.lifecycle \in Engaged
    BY <1>2, EngagedClaims
  <2>4. Travels(x, r)
    BY <2>2, <2>3, Moves DEF Travels, Occurring, Engaged
  <2> QED BY <1>1, <2>1, <2>4, OneTravels
<1>3. ASSUME NEW ev \in Evidence, NEW at, Activate(id, g, ev, at)
      PROVE  AllTravel
  <2> DEFINE x == [r EXCEPT !.lifecycle = "Active",
                            !.activationGeneration = ev.generation]
  <2>1. /\ reservations' = [reservations EXCEPT ![id] = x]
        /\ r.lifecycle \in Activatable
    BY <1>3 DEF Activate
  <2>2. x.lifecycle = "Active"
    BY <1>1 DEF Reservation
  <2> HIDE DEF x
  <2>3. Travels(x, r)
    BY <2>1, <2>2, Moves DEF Travels, Occurring, Engaged
  <2> QED BY <1>1, <2>1, <2>3, OneTravels
<1> QED BY <1>2, <1>3

\* What is consumed whole consumes no more, so consumption leads forward.
LEMMA ConsumeTravels ==
  ASSUME TypeInv, Safety, Occurs, NEW id \in ReservationId, NEW g,
         NEW amount \in ConsumeAmounts, NEW ev \in Evidence,
         Consume(id, g, amount, ev)
  PROVE  AllTravel
<1> DEFINE r == reservations[id]
           l == IF r.consumed + amount = r.quantity
                THEN "Consumed" ELSE "PartiallyConsumed"
           x == [r EXCEPT !.consumed = r.consumed + amount,
                          !.consumptionGeneration = ev.generation,
                          !.lifecycle = l]
<1>1. /\ Exists(id) /\ reservations' = [reservations EXCEPT ![id] = x]
      /\ amount > 0 /\ amount \in Int /\ amount <= Remaining(r)
      /\ r.lifecycle \in InUse
  BY DEF Consume, Current
<1>2. r \in Reservation
  BY <1>1, CurrentReservation
<1>3. r.lifecycle \in {"Active", "PartiallyConsumed"}
  <2>1. r.lifecycle = "Consumed" => Remaining(r) = 0
    BY <1>1 DEF Safety, ConsumptionWithinPromise
  <2>2. r.lifecycle # "Consumed"
    BY <1>1, <2>1
  <2> QED BY <1>1, <2>2 DEF InUse
<1>4. x.lifecycle \in {"Consumed", "PartiallyConsumed"}
  BY <1>2 DEF Reservation
<1> HIDE DEF x
<1>5. Travels(x, r)
  BY <1>3, <1>4, Moves DEF Travels, Occurring, Engaged
<1> QED BY <1>1, <1>5, OneTravels

\* What is given up was engaged.
LEMMA GivingUpTravels ==
  ASSUME TypeInv, Occurs, NEW id \in ReservationId, NEW g,
         Cancel(id, g) \/ \E ev \in Evidence : Release(id, g, ev)
  PROVE  AllTravel
<1> DEFINE r == reservations[id]
<1>1. /\ Exists(id) /\ r \in Reservation /\ r.lifecycle \in Engaged
  BY CurrentReservation, EngagedClaims DEF Cancel, Release, Current
<1>2. CASE Cancel(id, g)
  <2> DEFINE x == Disengage(r, "Cancelled")
  <2>1. x.lifecycle = "Cancelled"
    BY <1>1, DisengagedFollows
  <2>2. reservations' = [reservations EXCEPT ![id] = x]
    BY <1>2 DEF Cancel
  <2> HIDE DEF x
  <2>3. Travels(x, r)
    BY <1>1, <2>1, Moves DEF Travels, Occurring
  <2> QED BY <1>1, <2>2, <2>3, OneTravels
<1>3. ASSUME NEW ev \in Evidence, Release(id, g, ev)
      PROVE  AllTravel
  <2> DEFINE x == [Disengage(r, "Released") EXCEPT
                     !.releaseGeneration = ev.generation]
  <2>1. x.lifecycle = "Released"
    BY <1>1 DEF Disengage, Reservation
  <2>2. reservations' = [reservations EXCEPT ![id] = x]
    BY <1>3 DEF Release
  <2> HIDE DEF x
  <2>3. Travels(x, r)
    BY <1>1, <2>1, Moves DEF Travels, Occurring
  <2> QED BY <1>1, <2>2, <2>3, OneTravels
<1> QED BY <1>2, <1>3

\* A transfer makes the next generation, which is Committed.
LEMMA TransferTravels ==
  ASSUME TypeInv, Safety, Occurs, NEW id \in ReservationId, NEW g,
         NEW owner \in NewOwners, NEW ev \in Evidence,
         Transfer(id, g, owner, ev)
  PROVE  AllTravel
<1> DEFINE old == reservations[id]
           r == [old EXCEPT !.owner = owner]
           x == [r EXCEPT !.generation = currentGen[id] + 1,
                          !.lifecycle = "Committed",
                          !.activationGeneration = 0]
<1>1. Exists(id) /\ reservations' = [reservations EXCEPT ![id] = x]
  BY DEF Transfer, Supersede, Current
<1>2. old \in Reservation
  BY <1>1, CurrentReservation
<1>3. x.lifecycle = "Committed" /\ x.generation = currentGen[id] + 1
  BY <1>2 DEF Reservation
<1> HIDE DEF x
<1>4. currentGen[id] = old.generation /\ old.generation \in Nat
  BY <1>1, <1>2 DEF Safety, GenerationsInv, HistoryContiguous, Reservation
<1>5. x.generation # old.generation
  BY <1>3, <1>4
<1>6. Travels(x, old)
  BY <1>3, <1>5 DEF Travels, Occurring, Engaged
<1> QED BY <1>1, <1>6, OneTravels

\* A new reservation is committed, and no other moves.
LEMMA CommitTravels ==
  ASSUME TypeInv, Safety, Occurs, NEW q, NEW r, NEW h, Commit(q, r, h)
  PROVE  AllTravel
<1> DEFINE id == nextReservationId + 1
           x == NewReservation(q, r, currentGen[id] + 1)
<1>1. /\ \A i \in ReservationId \ {id} : reservations'[i] = reservations[i]
      /\ id \in ReservationId => reservations'[id] = x
  BY DEF Commit, TypeInv, TypeOK
<1>2. x.lifecycle = "Committed"
  BY DEF NewReservation
<1>3. id \in ReservationId => ~Exists(id)
  <2>1. id > nextReservationId
    BY DEF TypeInv, TypeOK
  <2> QED BY <2>1 DEF Safety, GenerationsInv, IdsFresh
<1> HIDE DEF id, x
<1> QED BY <1>1, <1>2, <1>3, StayingTravels DEF AllTravel, Exists

\* Together.
LEMMA DisciplinedTravel ==
  TypeInv /\ Safety /\ Occurs /\ [DisciplinedNext]_vars => AllTravel
<1> SUFFICES ASSUME TypeInv, Safety, Occurs, [DisciplinedNext]_vars
             PROVE  AllTravel
  OBVIOUS
<1>1. ASSUME \/ \E e \in 1..MaxAuthority : SetCoordinatorEpoch(e)
             \/ \E h \in HoldId, spec \in HoldSpecs : ReleaseHold(h, spec.holdGeneration)
             \/ \E now \in Instant : ExpireHolds(now)
             \/ \E spec \in HoldSpecs, r \in ResourceId, now \in HoldClock :
                  CreateHold(spec, r, now)
             \/ UNCHANGED vars
      PROVE  AllTravel
  <2>1. UNCHANGED reservations
    BY <1>1 DEF SetCoordinatorEpoch, ReleaseHold, ExpireHolds, CreateHold, vars
  <2> QED BY <2>1, QuietTravel
<1>2. CASE Everyday
  BY <1>1, <1>2, RevalidateResourceTravels, FencingTravels, ActivationTravels,
     ConsumeTravels, GivingUpTravels, ExpireDueTravels DEF Everyday
<1>3. CASE DisciplinedNext /\ ~Everyday
  BY <1>1, <1>3, FirstPublicationTravels, CommitTravels, ActivationTravels,
     TransferTravels DEF DisciplinedNext
<1> QED BY <1>1, <1>2, <1>3

\* A disciplined caller is one of the callers of Next.
LEMMA DisciplinedNextIsNext == [DisciplinedNext]_vars => [Next]_vars
BY DEF DisciplinedNext, Next

\* Reservations stay in the nine states.
LEMMA OccursNext == Occurs /\ AllTravel => Occurs'
<1> SUFFICES ASSUME AllTravel, NEW id \in ReservationId, Exists(id)'
             PROVE  reservations'[id].lifecycle \in Occurring
  BY DEF Occurs
<1>1. reservations'[id] # None
  BY DEF Exists
<1> QED BY <1>1 DEF AllTravel, Travels, Occurring, Engaged

LEMMA OccursInit == Init => Occurs
BY DEF Init, Occurs, Exists

\* Reservations that travel follow the table within their generation.
LEMMA TravellersOnTable ==
  AllTravel => \A id \in ReservationId : Exists(id) =>
    \/ reservations'[id].generation # reservations[id].generation
    \/ reservations'[id].lifecycle \in Reach[reservations[id].lifecycle]
BY DEF AllTravel, Travels

\* No operation reads the published transition table, yet called with
\* discipline none takes a reservation, within a generation, where no path of
\* the table leads; so nothing comes back from Released or Cancelled.
THEOREM TableFollowed == DisciplinedSpec => ShortCutsOnly
BY TypeInit, NextTypes, SafetyInit, SafetyNext, DisciplinedNextIsNext,
   DisciplinedTravel, OccursInit, OccursNext, TravellersOnTable, PTL
   DEF DisciplinedSpec, ShortCutsOnly

=============================================================================
