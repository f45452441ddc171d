------------------------- MODULE PersistenceProofs -------------------------
(***************************************************************************)
(* What survives a restart.  The image in the file is kept as good as the  *)
(* registry it was taken from (DiskTyped, DiskFits); load turns it into a  *)
(* runtime whose envelopes are sums over the registry by construction, so  *)
(* the accounting is exact again whatever it was before.                   *)
(*                                                                         *)
(* LoadIn and HeldIn are the loads as functions of a registry, so that the *)
(* registry in the file and the one in memory can be compared.             *)
(*                                                                         *)
(* FileInv relates the file to the last save completed and to the memory   *)
(* it is being written from, SuspendedInv the reservations that were in    *)
(* use to the lifecycles out of which only a revalidation leads.           *)
(***************************************************************************)
EXTENDS Persistence, RuntimeSafetyProofs

USE RuntimeAssumption

Registries == [ReservationId -> Reservation \cup {None}]
HoldTables == [HoldId -> Hold \cup {None}]

\* What reservation id of registry R takes from resource r at t.
ShareIn(R, id, r, strength, t) ==
  IF /\ id \in ReservationId
     /\ R[id] # None
     /\ R[id].lifecycle \in CapacityHolding
     /\ R[id].resource = r
     /\ R[id].strength = strength
     /\ Covers(R[id].window, t)
  THEN R[id].quantity ELSE 0

LoadIn(R, r, strength, t) ==
  SumTo([id \in 1..LastReservationId |-> ShareIn(R, id, r, strength, t)],
        LastReservationId)

\* What hold h of table H takes from resource r at t.
HoldShareIn(H, h, r, t) ==
  IF /\ H[h] # None
     /\ H[h].state = "Acquired"
     /\ H[h].resource = r
     /\ Covers(H[h].window, t)
  THEN H[h].quantity ELSE 0

HeldIn(H, r, t) ==
  SumTo([h \in 1..LastHoldId |-> HoldShareIn(H, h, r, t)], LastHoldId)

\* The loads of the runtime are the loads of its registry.
LoadsAgree ==
  /\ \A r, strength, t : LoadAt(Commitments(r), strength, t) =
                           LoadIn(reservations, r, strength, t)
  /\ \A r, t : HeldAt(LiveHolds(r), t) = HeldIn(holds, r, t)

LEMMA LoadsAreLoadsIn == LoadsAgree
<1>1. ASSUME NEW r, NEW strength, NEW t
      PROVE  LoadAt(Commitments(r), strength, t) =
               LoadIn(reservations, r, strength, t)
  <2>1. \A id \in 1..LastReservationId :
          Share(id, Commitments(r), strength, t) =
            ShareIn(reservations, id, r, strength, t)
    BY DEF Share, ShareIn, Commitments, HoldsCapacity, Exists
  <2> QED BY <2>1 DEF LoadAt, LoadIn
<1>2. ASSUME NEW r, NEW t
      PROVE  HeldAt(LiveHolds(r), t) = HeldIn(holds, r, t)
  <2>1. \A h \in 1..LastHoldId :
          HoldShare(h, LiveHolds(r), t) = HoldShareIn(holds, h, r, t)
    BY DEF HoldShare, HoldShareIn, LiveHolds, HoldId
  <2> QED BY <2>1 DEF HeldAt, HeldIn
<1> QED BY <1>1, <1>2 DEF LoadsAgree

LEMMA LoadsAreLoadsInNext == LoadsAgree'
BY LoadsAreLoadsIn, PTL

\* They are naturals.
LEMMA LoadInType ==
  ASSUME NEW R \in Registries, NEW r, NEW strength, NEW t
  PROVE  LoadIn(R, r, strength, t) \in Nat
<1> DEFINE f == [id \in 1..LastReservationId |->
                   ShareIn(R, id, r, strength, t)]
<1>1. ASSUME NEW id \in 1..LastReservationId
      PROVE  ShareIn(R, id, r, strength, t) \in Nat
  BY DEF ShareIn, Registries, Reservation
<1>2. f \in [1..LastReservationId -> Nat]
  BY <1>1
<1>3. SumTo(f, LastReservationId) \in Nat
  <2> HIDE DEF f
  <2> QED BY <1>2, SumNat
<1> QED BY <1>3 DEF LoadIn

LEMMA HeldInType ==
  ASSUME NEW H \in HoldTables, NEW r, NEW t
  PROVE  HeldIn(H, r, t) \in Nat
<1> DEFINE f == [h \in 1..LastHoldId |-> HoldShareIn(H, h, r, t)]
<1>1. ASSUME NEW h \in 1..LastHoldId
      PROVE  HoldShareIn(H, h, r, t) \in Nat
  BY DEF HoldShareIn, HoldTables, Hold, HoldId
<1>2. f \in [1..LastHoldId -> Nat]
  BY <1>1
<1>3. SumTo(f, LastHoldId) \in Nat
  <2> HIDE DEF f
  <2> QED BY <1>2, SumNat
<1> QED BY <1>3 DEF HeldIn

-----------------------------------------------------------------------------
(* The image in the file.                                                  *)

\* A hold of table H is applied exactly while it is acquired.
HoldFlags(H) ==
  \A h \in HoldId : H[h] # None =>
    (H[h].appliedToEnvelope <=> H[h].state = "Acquired")

\* What image i must be for the runtime built from it to be typed.
ImageTyped(i) ==
  /\ i.epoch \in Nat /\ i.authority \in Nat
  /\ i.resources \in [ResourceId -> Resource \cup {None}]
  /\ \A r \in ResourceId : i.resources[r] # None =>
       i.layout[r].from \in Time /\ i.layout[r].ratio \in Nat
  /\ i.workerBoots \in [Worker -> Nat]
  /\ i.requestToReservation \in [RequestId -> ReservationId \cup {None}]
  /\ i.reservations \in Registries
  /\ i.currentGen \in [ReservationId -> Nat]
  /\ i.history \in [ReservationId -> Seq(Reservation)]
  /\ i.holds \in HoldTables
  /\ i.nextReservationId \in Nat \ {0}
  /\ \A id \in ReservationId : i.reservations[id] # None =>
       i.resources[i.reservations[id].resource] # None
  /\ \A h \in HoldId : i.holds[h] # None =>
       i.resources[i.holds[h].resource] # None
  /\ HoldFlags(i.holds)

\* The image of a typed runtime.
LEMMA ImageIsTyped ==
  ASSUME TypeInv, HoldFlags(holds)
  PROVE  ImageTyped(Image)
<1>1. ASSUME NEW r \in ResourceId, resources[r] # None
      PROVE  Image.layout[r].from \in Time /\ Image.layout[r].ratio \in Nat
  <2>1. envelopes[r] \in Envelope
    BY <1>1 DEF TypeInv, TypeOK, Anchored
  <2>2. Image.layout[r] = [from |-> envelopes[r].from, ratio |-> envelopes[r].ratio]
    BY <2>1 DEF Image, Layout
  <2> QED BY <2>1, <2>2 DEF Envelope
<1>2. /\ Image.epoch = epoch /\ Image.authority = authority
      /\ Image.resources = resources /\ Image.workerBoots = workerBoots
      /\ Image.requestToReservation = requestToReservation
      /\ Image.reservations = reservations /\ Image.currentGen = currentGen
      /\ Image.history = history /\ Image.holds = holds
      /\ Image.nextReservationId = nextReservationId
  BY DEF Image
<1>3. \A id \in ReservationId : reservations[id] # None =>
        resources[reservations[id].resource] # None
  BY DEF TypeInv, Anchored, Exists, ResourceOf
<1> HIDE DEF Image
<1> QED BY <1>1, <1>2, <1>3
        DEF ImageTyped, TypeInv, TypeOK, Anchored, Registries, HoldTables

DiskTyped == file # None => ImageTyped(file.image)

-----------------------------------------------------------------------------
(* Load.                                                                   *)

\* A reapplied reservation: the same terms on the same side of
\* CapacityHolding, marked applied exactly when it holds capacity.
LEMMA ReappliedLaw ==
  ASSUME NEW r \in Reservation
  PROVE  LET x == Reapplied(r) IN
         /\ x \in Reservation
         /\ SameTerms(x, r)
         /\ x.lifecycle \in CapacityHolding <=> r.lifecycle \in CapacityHolding
         /\ x.contributesEnvelope <=> x.lifecycle \in CapacityHolding
         /\ x.lifecycle \notin InUse
<1>1. /\ "RevalidationRequired" \in CapacityHolding \cap Lifecycles
      /\ "RevalidationRequired" \notin InUse /\ InUse \subseteq CapacityHolding
  BY LifecycleNames DEF InUse
<1>2. (r.lifecycle \in CapacityHolding) \in BOOLEAN
  OBVIOUS
<1> DEFINE l == IF r.lifecycle \in InUse THEN "RevalidationRequired"
                ELSE r.lifecycle
<1>3. l \in Lifecycles /\ l \notin InUse
      /\ (l \in CapacityHolding <=> r.lifecycle \in CapacityHolding)
  BY <1>1 DEF Reservation
<1>4. Reapplied(r) = [r EXCEPT !.contributesEnvelope = r.lifecycle \in CapacityHolding,
                               !.lifecycle = l]
  BY DEF Reapplied
<1> HIDE DEF l
<1> QED BY <1>2, <1>3, <1>4 DEF Reservation, SameTerms

\* The envelope load makes of the blank envelope e: the loads of the registry.
WithClaimsLaw ==
  reservations \in Registries /\ holds \in HoldTables /\ HoldFlags(holds) =>
    \A r \in ResourceId : \A e \in Envelope :
      (\A t \in Time : e.hard[t] = 0 /\ e.soft[t] = 0) =>
        LET x == WithClaims(e, r) IN
        /\ x \in Envelope
        /\ Span(x) = Span(e) /\ x.cap = e.cap
        /\ \A t \in Span(e) :
             /\ x.hard[t] = LoadIn(reservations, r, "Hard", t)
             /\ x.soft[t] = LoadIn(reservations, r, "Soft", t)
             /\ x.held[t] = HeldIn(holds, r, t)

LEMMA WithClaimsHolds == WithClaimsLaw
<1> SUFFICES ASSUME reservations \in Registries, holds \in HoldTables,
                    HoldFlags(holds),
                    NEW r \in ResourceId, NEW e \in Envelope,
                    \A t \in Time : e.hard[t] = 0 /\ e.soft[t] = 0
             PROVE  LET x == WithClaims(e, r) IN
                    /\ x \in Envelope
                    /\ Span(x) = Span(e) /\ x.cap = e.cap
                    /\ \A t \in Span(e) :
                         /\ x.hard[t] = LoadIn(reservations, r, "Hard", t)
                         /\ x.soft[t] = LoadIn(reservations, r, "Soft", t)
                         /\ x.held[t] = HeldIn(holds, r, t)
  BY DEF WithClaimsLaw
<1> DEFINE hard == [t \in Time |-> IF t \in Span(e)
                      THEN e.hard[t] + 1 * LoadAt(Commitments(r), "Hard", t)
                      ELSE e.hard[t]]
           soft == [t \in Time |-> IF t \in Span(e)
                      THEN e.soft[t] + 1 * LoadAt(Commitments(r), "Soft", t)
                      ELSE e.soft[t]]
           held == [t \in Time |-> IF t \in Span(e)
                      THEN HeldAt(AppliedHolds(r), t) ELSE 0]
           x == WithClaims(e, r)
<1>1. x = [[e EXCEPT !.hard = hard, !.soft = soft] EXCEPT !.held = held]
  BY DEF WithClaims, AddAll
<1>2. AppliedHolds(r) = LiveHolds(r)
  BY DEF AppliedHolds, LiveHolds, HoldFlags
<1>3. \A strength, t : LoadAt(Commitments(r), strength, t) =
                         LoadIn(reservations, r, strength, t)
  BY LoadsAreLoadsIn DEF LoadsAgree
<1>4. \A t : HeldAt(LiveHolds(r), t) = HeldIn(holds, r, t)
  BY LoadsAreLoadsIn DEF LoadsAgree
<1>5. \A strength, t : LoadIn(reservations, r, strength, t) \in Nat
  BY LoadInType
<1>6. \A t : HeldIn(holds, r, t) \in Nat
  BY HeldInType
<1>7. e.hard \in [Time -> Int] /\ e.soft \in [Time -> Int] /\ Span(e) \subseteq Time
  BY DEF Envelope, Span
<1>8. hard \in [Time -> Int] /\ soft \in [Time -> Int] /\ held \in [Time -> Int]
  BY <1>2, <1>3, <1>4, <1>5, <1>6, <1>7
<1>9. \A t \in Span(e) : /\ hard[t] = LoadIn(reservations, r, "Hard", t)
                         /\ soft[t] = LoadIn(reservations, r, "Soft", t)
                         /\ held[t] = HeldIn(holds, r, t)
  BY <1>2, <1>3, <1>4, <1>5, <1>7
<1> HIDE DEF hard, soft, held, x
<1>10. /\ x \in Envelope /\ x.from = e.from /\ x.cap = e.cap
       /\ x.hard = hard /\ x.soft = soft /\ x.held = held
  BY <1>1, <1>8 DEF Envelope
<1>11. Span(x) = Span(e)
  BY <1>10 DEF Span
<1> QED BY <1>9, <1>10, <1>11 DEF x

LEMMA WithClaimsHoldsNext == WithClaimsLaw'
BY WithClaimsHolds, PTL

\* The registry load reads is the one in the file, with nothing in use.
LEMMA LoadedRegistry ==
  ASSUME DiskTyped, Load
  PROVE  /\ file # None /\ ImageTyped(file.image)
         /\ reservations' \in Registries
         /\ holds' \in HoldTables /\ HoldFlags(holds)'
         /\ \A id \in ReservationId :
              /\ reservations'[id] = None <=> file.image.reservations[id] = None
              /\ reservations'[id] # None =>
                   /\ SameTerms(reservations'[id], file.image.reservations[id])
                   /\ reservations'[id].lifecycle \in CapacityHolding <=>
                        file.image.reservations[id].lifecycle \in CapacityHolding
                   /\ reservations'[id].contributesEnvelope <=>
                        reservations'[id].lifecycle \in CapacityHolding
<1> DEFINE i == file.image
<1>1. file # None /\ ImageTyped(i)
  BY DEF Load, Loadable, DiskTyped
<1>2. /\ reservations' = [id \in ReservationId |->
            IF i.reservations[id] = None THEN None
            ELSE Reapplied(i.reservations[id])]
      /\ holds' = i.holds
  BY DEF Load
<1>3. ASSUME NEW id \in ReservationId, i.reservations[id] # None
      PROVE  LET x == Reapplied(i.reservations[id]) IN
             /\ x \in Reservation /\ x # None
             /\ SameTerms(x, i.reservations[id])
             /\ x.lifecycle \in CapacityHolding <=>
                  i.reservations[id].lifecycle \in CapacityHolding
             /\ x.contributesEnvelope <=> x.lifecycle \in CapacityHolding
  <2>1. i.reservations[id] \in Reservation
    BY <1>1, <1>3 DEF ImageTyped, Registries
  <2>2. None \notin Reservation
    BY RuntimeAssumption
  <2> QED BY <2>1, <2>2, ReappliedLaw
<1>4. reservations' \in Registries
  BY <1>2, <1>3 DEF Registries
<1>5. holds' \in HoldTables /\ HoldFlags(holds)'
  BY <1>1, <1>2 DEF ImageTyped, HoldFlags
<1> QED BY <1>1, <1>2, <1>3, <1>4, <1>5

\* The envelopes load builds: of the saved layout and the whole capacity, with
\* the loads of the loaded registry.
LEMMA LoadedEnvelopes ==
  ASSUME DiskTyped, Load, NEW r \in ResourceId
  PROVE  /\ resources'[r] = None => envelopes'[r] = None
         /\ resources'[r] # None =>
              LET x == envelopes'[r] IN
              /\ x \in Envelope
              /\ Span(x) = {t \in Time : /\ file.image.layout[r].from <= t
                                         /\ t < file.image.layout[r].from + Horizon}
              /\ \A t \in Time : x.cap[t] = file.image.resources[r].totalCapacity
              /\ \A t \in Span(x) :
                   /\ x.hard[t] = LoadIn(reservations', r, "Hard", t)
                   /\ x.soft[t] = LoadIn(reservations', r, "Soft", t)
                   /\ x.held[t] = HeldIn(holds', r, t)
<1> DEFINE i == file.image
           e == EmptyEnvelope(r)
<1>1. /\ file' = file /\ resources' = i.resources
      /\ envelopes' = [q \in ResourceId |->
           IF i.resources[q] = None THEN None
           ELSE WithClaims(EmptyEnvelope(q), q)']
  BY DEF Load
<1>2. CASE i.resources[r] = None
  BY <1>1, <1>2
<1>3. CASE i.resources[r] # None
  <2>1. /\ i.layout[r].from \in Time /\ i.layout[r].ratio \in Nat
        /\ i.resources[r].totalCapacity \in Int
    <3>1. ImageTyped(i)
      BY LoadedRegistry
    <3>2. i.resources[r] \in Resource
      BY <1>3, <3>1 DEF ImageTyped
    <3> QED BY <1>3, <3>1, <3>2 DEF ImageTyped, Resource
  <2>2. e \in Envelope
    BY <2>1, NewEnvelopeLaw DEF EmptyEnvelope
  <2>3. /\ \A t \in Time : e.hard[t] = 0 /\ e.soft[t] = 0
        /\ \A t \in Time : e.cap[t] = i.resources[r].totalCapacity
        /\ e.from = i.layout[r].from
    BY DEF EmptyEnvelope, NewEnvelope
  <2>4. EmptyEnvelope(r)' = e
    BY <1>1 DEF EmptyEnvelope, NewEnvelope
  <2>5. envelopes'[r] = WithClaims(EmptyEnvelope(r), r)'
    BY <1>1, <1>3
  <2>6. LET x == WithClaims(EmptyEnvelope(r), r)' IN
        /\ x \in Envelope /\ Span(x) = Span(e) /\ x.cap = e.cap
        /\ \A t \in Span(e) :
             /\ x.hard[t] = LoadIn(reservations', r, "Hard", t)
             /\ x.soft[t] = LoadIn(reservations', r, "Soft", t)
             /\ x.held[t] = HeldIn(holds', r, t)
    BY <2>2, <2>3, <2>4, LoadedRegistry, WithClaimsHoldsNext DEF WithClaimsLaw
  <2> HIDE DEF e
  <2> QED BY <1>1, <1>3, <2>3, <2>5, <2>6 DEF Span
<1> QED BY <1>2, <1>3

-----------------------------------------------------------------------------
(* Types, under any caller.                                                *)

\* Memory and file are typed, the flags of holds say whether they are held.
RecoveryInv ==
  /\ TypeInv
  /\ HoldFlags(holds)
  /\ DiskTyped
  /\ saving => ImageTyped(file.image)

\* A process that has just started is in the initial state of the runtime.
LEMMA ClearIsInit == ClearMemory => Init'
BY DEF ClearMemory, Init

\* Load gives a typed runtime.
LEMMA LoadTypes ==
  ASSUME DiskTyped, Load
  PROVE  TypeInv' /\ HoldFlags(holds)'
<1> DEFINE i == file.image
<1>1. ImageTyped(i)
  BY LoadedRegistry
<1>2. /\ epoch' = i.epoch /\ authority' = i.authority
      /\ resources' = i.resources /\ workerBoots' = i.workerBoots
      /\ requestToReservation' = i.requestToReservation
      /\ currentGen' = i.currentGen /\ history' = i.history
      /\ holds' = i.holds /\ nextReservationId' = i.nextReservationId
  BY DEF Load
<1>3. /\ reservations' \in Registries
      /\ \A id \in ReservationId : reservations'[id] # None =>
           /\ i.reservations[id] # None
           /\ reservations'[id].resource = i.reservations[id].resource
  BY LoadedRegistry DEF SameTerms
<1>4. envelopes' \in [ResourceId -> Envelope \cup {None}]
  <2>1. \A r \in ResourceId : envelopes'[r] \in Envelope \cup {None}
    BY LoadedEnvelopes
  <2>2. envelopes' = [r \in ResourceId |-> envelopes'[r]]
    BY DEF Load
  <2> HIDE DEF i
  <2> QED BY <2>1, <2>2
<1>5. \A r \in ResourceId : resources'[r] = None <=> envelopes'[r] = None
  <2>1. None \notin Envelope
    BY RuntimeAssumption
  <2> QED BY <2>1, LoadedEnvelopes
<1>6. HoldFlags(holds)'
  BY LoadedRegistry
<1> HIDE DEF i
<1>7. TypeOK'
  BY <1>1, <1>2, <1>3, <1>4 DEF TypeOK, ImageTyped, Registries, HoldTables
<1>8. Anchored'
  BY <1>1, <1>2, <1>3, <1>5 DEF Anchored, ImageTyped, Exists, ResourceOf
<1> QED BY <1>6, <1>7, <1>8 DEF TypeInv

\* An operation of the runtime keeps the flags of the holds.
LEMMA HoldFlagsKept ==
  ASSUME TypeInv, HoldFlags(holds), Next
  PROVE  HoldFlags(holds)'
<1> USE DEF HoldFlags
<1>1. CASE UNCHANGED holds
  BY <1>1
<1>2. ASSUME NEW spec \in HoldSpecs, NEW r \in ResourceId, NEW now \in HoldClock,
             CreateHold(spec, r, now)
      PROVE  HoldFlags(holds)'
  BY <1>2 DEF CreateHold, TypeInv, TypeOK
<1>3. ASSUME NEW h \in HoldId, NEW g, ReleaseHold(h, g)
      PROVE  HoldFlags(holds)'
  <2>1. holds[h] \in Hold
    BY <1>3 DEF ReleaseHold, TypeInv, TypeOK
  <2>2. holds' = [holds EXCEPT ![h] = GivenUp(holds[h], "Released")]
    BY <1>3 DEF ReleaseHold
  <2>3. LET x == GivenUp(holds[h], "Released") IN
        x.state = "Released" /\ ~x.appliedToEnvelope
    BY <2>1 DEF GivenUp, Hold
  <2> QED BY <2>2, <2>3 DEF TypeInv, TypeOK
<1>4. ASSUME NEW now \in Instant, ExpireHolds(now)
      PROVE  HoldFlags(holds)'
  <2>1. \A h \in ExpiredHolds(now) : holds[h] \in Hold
    BY DEF ExpiredHolds, TypeInv, TypeOK
  <2>2. holds' = [h \in HoldId |-> IF h \in ExpiredHolds(now)
                    THEN GivenUp(holds[h], "Expired") ELSE holds[h]]
    BY <1>4 DEF ExpireHolds
  <2>3. \A h \in ExpiredHolds(now) :
          LET x == GivenUp(holds[h], "Expired") IN
          x.state = "Expired" /\ ~x.appliedToEnvelope
    BY <2>1 DEF GivenUp, Hold
  <2> QED BY <2>2, <2>3
<1>5. ASSUME NEW q \in Requests, NEW r \in ResourceId,
             NEW h \in HoldId \cup {None}, Commit(q, r, h)
      PROVE  HoldFlags(holds)'
  <2>1. CASE h = None
    BY <1>5, <2>1 DEF Commit
  <2>2. CASE h # None
    <3>1. h \in HoldId /\ holds[h] \in Hold
      BY <1>5, <2>2 DEF Commit, Redeemable, TypeInv, TypeOK
    <3>2. holds' = [holds EXCEPT ![h] = GivenUp(holds[h], "Committed")]
      BY <1>5, <2>2 DEF Commit
    <3>3. LET x == GivenUp(holds[h], "Committed") IN
          x.state = "Committed" /\ ~x.appliedToEnvelope
      BY <3>1 DEF GivenUp, Hold
    <3> QED BY <3>2, <3>3 DEF TypeInv, TypeOK
  <2> QED BY <2>1, <2>2
<1>6. CASE Everyday
  BY <1>1, <1>3, <1>4, <1>6
     DEF Everyday, SetCoordinatorEpoch, RevalidateResource, InvalidateResource,
         AdvanceResourceGeneration, Activate, Consume, OnlyReservationsChange,
         Release, Cancel, ExpireDue
<1>7. CASE ~Everyday
  BY <1>1, <1>2, <1>5, <1>7
     DEF Next, PublishResource, ActivateStale, OnlyReservationsChange, Resize,
         Renew, Transfer, OnlyGenerationsChange
<1> QED BY <1>6, <1>7

LEMMA RecoveryInit == PersistenceInit => RecoveryInv
BY TypeInit DEF PersistenceInit, RecoveryInv, Init, HoldFlags, DiskTyped

LEMMA ClearTypes == ClearMemory => TypeInv' /\ HoldFlags(holds)'
<1>1. Init' => TypeInv'
  BY TypeInit, PTL
<1>2. Init' => HoldFlags(holds)'
  BY DEF Init, HoldFlags
<1> QED BY <1>1, <1>2, ClearIsInit

\* Saving, crashing and loading keep the types.
LEMMA RestartTypes ==
  ASSUME RecoveryInv, Restarting
  PROVE  RecoveryInv'
<1> USE DEF RecoveryInv
<1>1. CASE BeginSave
  <2>1. UNCHANGED vars /\ file'.image = Image
    BY <1>1 DEF BeginSave
  <2>2. TypeInv' /\ UNCHANGED holds
    BY <2>1, StutterTypes DEF vars
  <2> QED BY <2>1, <2>2, ImageIsTyped DEF DiskTyped, HoldFlags
<1>2. CASE EndSave
  <2>1. UNCHANGED vars /\ file'.image = file.image /\ ~saving' /\ saving
    BY <1>2 DEF EndSave
  <2>2. TypeInv' /\ UNCHANGED holds
    BY <2>1, StutterTypes DEF vars
  <2> QED BY <2>1, <2>2 DEF DiskTyped, HoldFlags
<1>3. CASE FailSave \/ StartEmpty
  <2>1. UNCHANGED <<vars, file>> /\ (saving' => saving)
    BY <1>3 DEF FailSave, StartEmpty
  <2>2. TypeInv' /\ UNCHANGED holds
    BY <2>1, StutterTypes DEF vars
  <2> QED BY <2>1, <2>2 DEF DiskTyped, HoldFlags
<1>4. CASE Crash
  BY <1>4, ClearTypes DEF Crash, DiskTyped
<1>5. CASE Load
  BY <1>5, LoadTypes DEF Load, DiskTyped
<1> QED BY <1>1, <1>2, <1>3, <1>4, <1>5 DEF Restarting

\* Every step keeps them.
LEMMA RecoveryNext ==
  RecoveryInv /\ [(Next /\ Running) \/ Restarting]_<<vars, diskVars>>
    => RecoveryInv'
<1> SUFFICES ASSUME RecoveryInv,
                    [(Next /\ Running) \/ Restarting]_<<vars, diskVars>>
             PROVE  RecoveryInv'
  OBVIOUS
<1>1. CASE Next /\ Running
  <2>1. TypeInv' /\ HoldFlags(holds)'
    BY <1>1, NextTypes, HoldFlagsKept DEF RecoveryInv
  <2> QED BY <1>1, <2>1 DEF RecoveryInv, Running, DiskTyped
<1>2. CASE UNCHANGED <<vars, diskVars>>
  <2>1. UNCHANGED <<vars, file, saving>>
    BY <1>2 DEF diskVars
  <2>2. TypeInv' /\ UNCHANGED holds
    BY <2>1, StutterTypes DEF vars, RecoveryInv
  <2> QED BY <2>1, <2>2 DEF RecoveryInv, DiskTyped, HoldFlags
<1> QED BY <1>1, <1>2, RestartTypes

\* Whatever callers did to the accounting, a load puts it right: envelopes
\* mirror the registry and flags follow the claims, for any registry and file.
THEOREM Healing == PersistenceSpec => RestartHeals
<1>1. RecoveryInv /\ Load => EnvelopeMirrorsRegistry' /\ FlagsFollowClaims'
  <2> SUFFICES ASSUME RecoveryInv, Load
               PROVE  EnvelopeMirrorsRegistry' /\ FlagsFollowClaims'
    OBVIOUS
  <2>1. DiskTyped
    BY DEF RecoveryInv
  <2>2. EnvelopeMirrorsRegistry'
    <3>1. \A r \in ResourceId : resources'[r] = None => envelopes'[r] = None
      BY <2>1, LoadedEnvelopes
    <3> QED BY <2>1, <3>1, LoadedEnvelopes, LoadsAreLoadsInNext
            DEF EnvelopeMirrorsRegistry, LoadsAgree
  <2>3. FlagsFollowClaims'
    BY <2>1, LoadedRegistry DEF FlagsFollowClaims, HoldFlags, HoldsCapacity, Exists
  <2> QED BY <2>2, <2>3
<1>2. RecoveryInv /\ [(Next /\ Running) \/ Restarting]_<<vars, diskVars>>
        => [Load => EnvelopeMirrorsRegistry' /\ FlagsFollowClaims']_<<vars, diskVars>>
  BY <1>1
<1> QED BY RecoveryInit, RecoveryNext, <1>2, PTL DEF PersistenceSpec, RestartHeals

-----------------------------------------------------------------------------
(* What survives a restart under any caller.                               *)

\* The registry of image i, as Registry is that of the runtime.
RegistryIn(i) ==
  <<i.currentGen, i.history, i.requestToReservation, i.nextReservationId,
    i.holds,
    [id \in ReservationId |->
       IF i.reservations[id] # None
       THEN LET r == i.reservations[id]
            IN  <<r.generation, Terms(r), r.consumed, r.consumptionGeneration,
                  r.releaseGeneration, r.lifecycle \in CapacityHolding>>
       ELSE None]>>

\* h is the history of generation g.
Precedes(h, g) ==
  LET n == Len(h)
  IN  /\ n = (IF g - 1 < MaxHistory THEN g - 1 ELSE MaxHistory)
      /\ \A i \in 1..n : /\ h[i].generation = g - n + i - 1
                         /\ ~h[i].contributesEnvelope

\* What image i must be for the runtime built from it to be safe.
ImageSafe(i) ==
  \A id \in ReservationId :
    /\ id > i.nextReservationId => i.reservations[id] = None
    /\ i.reservations[id] = None =>
         i.currentGen[id] = 0 /\ i.history[id] = <<>>
    /\ i.reservations[id] # None =>
         /\ WithinPromise(i.reservations[id])
         /\ i.currentGen[id] = i.reservations[id].generation
         /\ Precedes(i.history[id], i.reservations[id].generation)

\* A file being written holds what the runtime is; a whole one is the last
\* save completed.
FileInv ==
  /\ saving => up /\ ~file.whole /\ file.image = Image
  /\ file # None => ImageSafe(file.image)
  /\ file # None => (file.whole => durable = RegistryIn(file.image))

\* A suspended generation sleeps until it is revalidated or superseded.
SuspendedInv ==
  \A s \in suspended :
    /\ Exists(s[1]) /\ s[2] \in Nat
    /\ reservations[s[1]].generation >= s[2]
    /\ reservations[s[1]].generation = s[2] =>
         reservations[s[1]].lifecycle \in Dormant

SafeRecoveryInv == RecoveryInv /\ Safety /\ FileInv /\ SuspendedInv

\* The image of a safe runtime.
LEMMA ImageIsSafe ==
  ASSUME Safety
  PROVE  ImageSafe(Image)
<1>1. /\ Image.reservations = reservations /\ Image.currentGen = currentGen
      /\ Image.history = history /\ Image.nextReservationId = nextReservationId
  BY DEF Image
<1> HIDE DEF Image
<1>2. ASSUME NEW id \in ReservationId
      PROVE  /\ id > nextReservationId => reservations[id] = None
             /\ reservations[id] = None =>
                  currentGen[id] = 0 /\ history[id] = <<>>
             /\ reservations[id] # None =>
                  /\ WithinPromise(reservations[id])
                  /\ currentGen[id] = reservations[id].generation
                  /\ Precedes(history[id], reservations[id].generation)
  <2>1. id > nextReservationId => reservations[id] = None
    BY DEF Safety, GenerationsInv, IdsFresh, Exists
  <2>2. reservations[id] = None => currentGen[id] = 0 /\ history[id] = <<>>
    BY DEF Safety, GenerationsInv, UnusedIdsBlank, Exists
  <2>3. reservations[id] # None => WithinPromise(reservations[id])
    BY DEF Safety, ConsumptionWithinPromise, WithinPromise, Remaining, Exists
  <2>4. reservations[id] # None =>
          /\ currentGen[id] = reservations[id].generation
          /\ Precedes(history[id], reservations[id].generation)
    BY DEF Safety, GenerationsInv, HistoryContiguous, Precedes, Exists
  <2> QED BY <2>1, <2>2, <2>3, <2>4
<1> QED BY <1>1, <1>2 DEF ImageSafe

\* Reapplying keeps the promise and how far it has got, and suspends what was
\* in use.
LEMMA ReappliedKeeps ==
  ASSUME NEW r \in Reservation, NEW x, x = Reapplied(r)
  PROVE  /\ x \in Reservation /\ x.generation = r.generation
         /\ Terms(x) = Terms(r) /\ x.quantity = r.quantity
         /\ x.consumed = r.consumed
         /\ x.consumptionGeneration = r.consumptionGeneration
         /\ x.releaseGeneration = r.releaseGeneration
         /\ x.lifecycle = IF r.lifecycle \in InUse THEN "RevalidationRequired"
                          ELSE r.lifecycle
<1> DEFINE flag == r.lifecycle \in CapacityHolding
           l == IF r.lifecycle \in InUse THEN "RevalidationRequired"
                ELSE r.lifecycle
<1>1. x = [r EXCEPT !.contributesEnvelope = flag, !.lifecycle = l]
  BY DEF Reapplied
<1>2. l \in Lifecycles /\ flag \in BOOLEAN
  BY LifecycleNames DEF Reservation
<1>3. /\ x \in Reservation /\ x.generation = r.generation
      /\ x.strength = r.strength /\ x.resource = r.resource
      /\ x.window = r.window /\ x.owner = r.owner
      /\ x.policyGeneration = r.policyGeneration /\ x.request = r.request
      /\ x.quantity = r.quantity /\ x.consumed = r.consumed
      /\ x.consumptionGeneration = r.consumptionGeneration
      /\ x.releaseGeneration = r.releaseGeneration /\ x.lifecycle = l
  <2> HIDE DEF flag, l
  <2> QED BY <1>1, <1>2 DEF Reservation
<1> QED BY <1>3 DEF Terms

\* What load makes of each reservation.
LEMMA LoadedRecord ==
  ASSUME DiskTyped, Load, NEW id \in ReservationId
  PROVE  LET r == file.image.reservations[id]
             x == reservations'[id]
         IN  /\ x = None <=> r = None
             /\ r # None =>
                  /\ r \in Reservation /\ x \in Reservation
                  /\ x.generation = r.generation
                  /\ Terms(x) = Terms(r) /\ x.quantity = r.quantity
                  /\ x.consumed = r.consumed
                  /\ x.consumptionGeneration = r.consumptionGeneration
                  /\ x.releaseGeneration = r.releaseGeneration
                  /\ x.lifecycle = IF r.lifecycle \in InUse
                                   THEN "RevalidationRequired"
                                   ELSE r.lifecycle
<1> DEFINE r == file.image.reservations[id]
           x == reservations'[id]
<1>1. (x = None <=> r = None) /\ ImageTyped(file.image)
  BY LoadedRegistry
<1>2. CASE r # None
  <2>1. r \in Reservation
    BY <1>1, <1>2 DEF ImageTyped, Registries
  <2>2. x = Reapplied(r)
    BY <1>2 DEF Load
  <2> HIDE DEF r, x
  <2> QED BY <1>1, <1>2, <2>1, <2>2, ReappliedKeeps DEF r, x
<1> QED BY <1>1, <1>2

\* Load gives a safe runtime, whose registry is that of the file.
LEMMA LoadSafe ==
  ASSUME DiskTyped, Load, ImageSafe(file.image)
  PROVE  Safety' /\ Registry' = RegistryIn(file.image)
<1> DEFINE i == file.image
<1>1. /\ currentGen' = i.currentGen /\ history' = i.history
      /\ requestToReservation' = i.requestToReservation
      /\ holds' = i.holds /\ nextReservationId' = i.nextReservationId
  BY DEF Load
<1>2. \A id \in ReservationId : Exists(id)' <=> i.reservations[id] # None
  BY LoadedRecord DEF Exists
<1>3. ConsumptionWithinPromise'
  <2> SUFFICES ASSUME NEW id \in ReservationId, Exists(id)'
               PROVE  WithinPromise(reservations'[id])
    BY DEF ConsumptionWithinPromise, WithinPromise, Remaining
  <2>1. i.reservations[id] # None /\ WithinPromise(i.reservations[id])
    BY <1>2 DEF ImageSafe
  <2>2. /\ reservations'[id].quantity = i.reservations[id].quantity
        /\ reservations'[id].consumed = i.reservations[id].consumed
        /\ reservations'[id].lifecycle \notin {"Consumed", "PartiallyConsumed"}
    BY <2>1, LoadedRecord DEF InUse
  <2> QED BY <2>1, <2>2 DEF WithinPromise
<1>4. IdsFresh' /\ UnusedIdsBlank'
  BY <1>1, <1>2 DEF ImageSafe, IdsFresh, UnusedIdsBlank
<1>5. HistoryContiguous'
  <2>1. ASSUME NEW id \in ReservationId, Exists(id)'
        PROVE  /\ currentGen'[id] = reservations'[id].generation
               /\ Precedes(history'[id], reservations'[id].generation)
    <3>1. reservations'[id].generation = i.reservations[id].generation
      BY <1>2, <2>1, LoadedRecord
    <3> QED BY <1>1, <1>2, <2>1, <3>1 DEF ImageSafe
  <2> QED BY <2>1 DEF HistoryContiguous, Precedes
<1>6. InUseOnlyOnAvailable'
  <2>1. \A id \in ReservationId : Exists(id)' =>
          reservations'[id].lifecycle \notin InUse
    BY <1>2, LoadedRecord DEF InUse
  <2> QED BY <2>1 DEF InUseOnlyOnAvailable
<1>7. Registry' = RegistryIn(i)
  <2> DEFINE Record(r) ==
               <<r.generation, Terms(r), r.consumed, r.consumptionGeneration,
                 r.releaseGeneration, r.lifecycle \in CapacityHolding>>
  <2>1. ASSUME NEW id \in ReservationId, i.reservations[id] # None
        PROVE  Record(reservations'[id]) = Record(i.reservations[id])
    <3>1. reservations'[id].lifecycle \in CapacityHolding
            <=> i.reservations[id].lifecycle \in CapacityHolding
      BY <2>1, LoadedRecord, LifecycleNames
    <3>2. (reservations'[id].lifecycle \in CapacityHolding)
            = (i.reservations[id].lifecycle \in CapacityHolding)
      BY <3>1
    <3> QED BY <2>1, <3>2, LoadedRecord
  <2>2. [id \in ReservationId |-> IF Exists(id)' THEN Record(reservations'[id])
                                  ELSE None]
          = [id \in ReservationId |-> IF i.reservations[id] # None
                                      THEN Record(i.reservations[id]) ELSE None]
    <3> HIDE DEF Record, i
    <3> QED BY <1>2, <2>1
  <2>3. Registry' = <<currentGen', history', requestToReservation',
                      nextReservationId', holds',
                      [id \in ReservationId |-> IF Exists(id)'
                         THEN Record(reservations'[id]) ELSE None]>>
    BY DEF Registry, Terms
  <2>4. RegistryIn(i) = <<i.currentGen, i.history, i.requestToReservation,
                          i.nextReservationId, i.holds,
                          [id \in ReservationId |-> IF i.reservations[id] # None
                             THEN Record(i.reservations[id]) ELSE None]>>
    BY DEF RegistryIn
  <2> HIDE DEF Record, i
  <2> QED BY <1>1, <2>2, <2>3, <2>4
<1> QED BY <1>3, <1>4, <1>5, <1>6, <1>7 DEF Safety, GenerationsInv

\* An operation wakes a suspended generation only by revalidation.
LEMMA SuspendedRun ==
  ASSUME TypeInv, TypeInv', SuspendedInv, AllFollow, Running
  PROVE  SuspendedInv'
<1> SUFFICES ASSUME NEW s \in suspended'
             PROVE  /\ Exists(s[1])' /\ s[2] \in Nat
                    /\ reservations'[s[1]].generation >= s[2]
                    /\ reservations'[s[1]].generation = s[2] =>
                         reservations'[s[1]].lifecycle \in Dormant
  BY DEF SuspendedInv
<1> DEFINE r == reservations[s[1]]
           x == reservations'[s[1]]
<1>1. s \in suspended /\ ~Revalidates(s[1])
  BY DEF Running, Revalidates
<1>2. /\ Exists(s[1]) /\ s[2] \in Nat /\ r.generation >= s[2]
      /\ r.generation = s[2] => r.lifecycle \in Dormant
  BY <1>1 DEF SuspendedInv
<1>3. /\ s[1] \in ReservationId /\ x # None
      /\ \/ SameGeneration(x, r) /\ StaysDormant(x, r)
         \/ NextGeneration(x, r)
  BY <1>1, <1>2 DEF AllFollow, Exists
<1>4. r.generation \in Nat
  BY <1>2, CurrentReservation DEF Reservation, Exists
<1>5. x.generation >= s[2] /\ (x.generation = s[2] => x.lifecycle \in Dormant)
  BY <1>2, <1>3, <1>4 DEF SameGeneration, StaysDormant, NextGeneration
<1> QED BY <1>2, <1>3, <1>5 DEF Exists

\* Load suspends what the file says was in use.
LEMMA SuspendedLoad ==
  ASSUME DiskTyped, Load
  PROVE  SuspendedInv'
<1> SUFFICES ASSUME NEW s \in suspended'
             PROVE  /\ Exists(s[1])' /\ s[2] \in Nat
                    /\ reservations'[s[1]].generation >= s[2]
                    /\ reservations'[s[1]].generation = s[2] =>
                         reservations'[s[1]].lifecycle \in Dormant
  BY DEF SuspendedInv
<1>1. PICK id \in ReservationId :
        /\ file.image.reservations[id] # None
        /\ file.image.reservations[id].lifecycle \in InUse
        /\ s = <<id, file.image.reservations[id].generation>>
  BY DEF Load
<1>2. /\ s[1] = id /\ s[2] = file.image.reservations[id].generation
      /\ reservations'[id] # None
      /\ reservations'[id].generation = file.image.reservations[id].generation
      /\ reservations'[id].generation \in Nat
      /\ reservations'[id].lifecycle = "RevalidationRequired"
  BY <1>1, LoadedRecord DEF Reservation
<1> QED BY <1>2 DEF Exists, Dormant

LEMMA ImageUnchanged ==
  ASSUME UNCHANGED vars
  PROVE  Image' = Image /\ Registry' = Registry
BY DEF vars, Image, Layout, Registry, Exists

LEMMA SafeRecoveryInit == PersistenceInit => SafeRecoveryInv
BY RecoveryInit, SafetyInit
   DEF PersistenceInit, SafeRecoveryInv, FileInv, SuspendedInv

LEMMA SafeRecoveryNext ==
  SafeRecoveryInv /\ [(Next /\ Running) \/ Restarting]_<<vars, diskVars>>
    => SafeRecoveryInv'
<1> SUFFICES ASSUME SafeRecoveryInv,
                    [(Next /\ Running) \/ Restarting]_<<vars, diskVars>>
             PROVE  SafeRecoveryInv'
  OBVIOUS
<1>0. /\ RecoveryInv /\ RecoveryInv' /\ Safety /\ FileInv /\ SuspendedInv
      /\ TypeInv /\ TypeInv' /\ DiskTyped
  BY RecoveryNext DEF SafeRecoveryInv, RecoveryInv
<1>1. ASSUME UNCHANGED <<vars, suspended>>
      PROVE  Safety' /\ SuspendedInv'
  <2>1. UNCHANGED <<resources, reservations, currentGen, history,
                    nextReservationId>>
    BY <1>1 DEF vars
  <2>2. Safety'
    BY <1>0, <2>1, SafetyUntouched
  <2> QED BY <1>0, <1>1, <2>1, <2>2 DEF SuspendedInv, Exists
<1>2. CASE Next /\ Running
  <2>1. Safety' /\ SuspendedInv'
    BY <1>0, <1>2, SafetyNext, NextFollow, SuspendedRun
  <2>2. ~saving /\ UNCHANGED <<file, saving, durable>>
    BY <1>2 DEF Running
  <2>3. FileInv'
    BY <1>0, <2>2 DEF FileInv
  <2> QED BY <1>0, <2>1, <2>3 DEF SafeRecoveryInv
<1>3. CASE BeginSave
  <2>1. /\ UNCHANGED <<vars, suspended, up>> /\ up /\ saving'
        /\ file' = [whole |-> FALSE, image |-> Image]
    BY <1>3 DEF BeginSave
  <2>2. /\ ~file'.whole /\ file'.image = Image
        /\ Image' = Image /\ ImageSafe(Image)
    BY <1>0, <2>1, ImageUnchanged, ImageIsSafe
  <2> HIDE DEF Image
  <2>3. FileInv'
    BY <2>1, <2>2 DEF FileInv
  <2> QED BY <1>0, <1>1, <2>1, <2>3 DEF SafeRecoveryInv
<1>4. CASE EndSave
  <2>1. /\ UNCHANGED <<vars, suspended>> /\ saving /\ ~saving'
        /\ file' = [whole |-> TRUE, image |-> file.image]
        /\ durable' = Registry
    BY <1>4 DEF EndSave
  <2>2. file'.image = Image /\ Registry = RegistryIn(Image) /\ ImageSafe(Image)
    <3>1. file'.image = Image
      BY <1>0, <2>1 DEF FileInv
    <3>2. Registry = RegistryIn(Image)
      BY DEF Registry, RegistryIn, Image, Exists
    <3> QED BY <1>0, <3>1, <3>2, ImageIsSafe
  <2> HIDE DEF Image
  <2>3. FileInv'
    BY <2>1, <2>2 DEF FileInv
  <2> QED BY <1>0, <1>1, <2>1, <2>3 DEF SafeRecoveryInv
<1>5. CASE FailSave \/ StartEmpty \/ UNCHANGED <<vars, diskVars>>
  <2>1. /\ UNCHANGED <<vars, suspended, file, durable>>
        /\ saving' => saving /\ up' = up
    BY <1>0, <1>5 DEF FailSave, StartEmpty, diskVars, FileInv
  <2>2. Image' = Image
    BY <2>1, ImageUnchanged
  <2> HIDE DEF Image
  <2>3. FileInv'
    BY <1>0, <2>1, <2>2 DEF FileInv
  <2> QED BY <1>0, <1>1, <2>1, <2>3 DEF SafeRecoveryInv
<1>6. CASE Crash
  <2>1. ClearMemory /\ suspended' = {} /\ ~saving' /\ UNCHANGED <<file, durable>>
    BY <1>6 DEF Crash
  <2>2. Safety'
    <3>1. Init' => Safety'
      BY SafetyInit, PTL
    <3> QED BY <2>1, <3>1, ClearIsInit
  <2>3. FileInv' /\ SuspendedInv'
    BY <1>0, <2>1 DEF FileInv, SuspendedInv
  <2> QED BY <1>0, <2>2, <2>3 DEF SafeRecoveryInv
<1>7. CASE Load
  <2>1. /\ ~saving /\ UNCHANGED <<file, saving, durable>> /\ file # None
    BY <1>0, <1>7 DEF Load, Loadable, FileInv
  <2>2. Safety' /\ SuspendedInv'
    BY <1>0, <1>7, <2>1, LoadSafe, SuspendedLoad DEF FileInv
  <2>3. FileInv'
    BY <1>0, <2>1 DEF FileInv
  <2> QED BY <1>0, <2>2, <2>3 DEF SafeRecoveryInv
<1> QED BY <1>2, <1>3, <1>4, <1>5, <1>6, <1>7 DEF Restarting

\* For any registry, file and callers: what was in use when it was saved is in
\* use again only after its resource was revalidated.
THEOREM SuspendedUntilEvidence == PersistenceSpec => []SuspendedUntilRevalidated
<1>1. SafeRecoveryInv => SuspendedUntilRevalidated
  BY DEF SafeRecoveryInv, SuspendedInv, SuspendedUntilRevalidated, Dormant, InUse
<1> QED BY SafeRecoveryInit, SafeRecoveryNext, <1>1, PTL DEF PersistenceSpec

\* The registry load gives is that of the last save completed: a file is whole
\* only when all of it is what the runtime was, and reapplying changes no term,
\* no consumption and no claim.
THEOREM LastSaveRecovered == PersistenceSpec => RecoversLastSave
<1>1. SafeRecoveryInv /\ Load => Registry' = durable
  <2> SUFFICES ASSUME SafeRecoveryInv, Load PROVE Registry' = durable
    OBVIOUS
  <2>1. DiskTyped /\ FileInv /\ file # None /\ file.whole
    BY DEF SafeRecoveryInv, RecoveryInv, Load, Loadable
  <2>2. ImageSafe(file.image) /\ durable = RegistryIn(file.image)
    BY <2>1 DEF FileInv
  <2> QED BY <2>1, <2>2, LoadSafe
<1>2. SafeRecoveryInv /\ [(Next /\ Running) \/ Restarting]_<<vars, diskVars>>
        => [Load => Registry' = durable]_<<vars, diskVars>>
  BY <1>1
<1> QED BY SafeRecoveryInit, SafeRecoveryNext, <1>2, PTL
        DEF PersistenceSpec, RecoversLastSave

\* What the runtime guarantees any caller it guarantees through saves, torn
\* saves, crashes and loads.
THEOREM SafeThroughRestarts ==
  PersistenceSpec =>
    [](InUseOnlyOnAvailable /\ ConsumptionWithinPromise /\ HistoryContiguous)
<1>1. SafeRecoveryInv =>
        InUseOnlyOnAvailable /\ ConsumptionWithinPromise /\ HistoryContiguous
  BY DEF SafeRecoveryInv, Safety, GenerationsInv
<1> QED BY SafeRecoveryInit, SafeRecoveryNext, <1>1, PTL DEF PersistenceSpec

-----------------------------------------------------------------------------
(* The accounting of disciplined callers, through restarts.                *)

\* No instant has more capacity than its resource: load gives every instant
\* the whole of it, so what fitted before still fits.
CapBounded ==
  \A r \in ResourceId : envelopes[r] # None =>
    \A t \in Time : envelopes[r].cap[t] <= resources[r].totalCapacity

\* The registry of image i fits the envelopes load would build for it.
ImageFits(i) ==
  /\ \A id \in ReservationId :
       id > i.nextReservationId => i.reservations[id] = None
  /\ \A r \in ResourceId : i.resources[r] # None =>
       \A t \in Time :
         i.layout[r].from <= t /\ t < i.layout[r].from + Horizon =>
           LoadIn(i.reservations, r, "Hard", t) + HeldIn(i.holds, r, t)
             <= i.resources[r].totalCapacity

\* What the disciplined callers and the restarts keep.
DurableInv ==
  /\ IInv
  /\ CapBounded
  /\ file # None => ImageTyped(file.image) /\ ImageFits(file.image)
  /\ saving => ImageTyped(file.image) /\ ImageFits(file.image)

\* Replacing one envelope by one of the same capacities.
LEMMA OneEnvelope ==
  ASSUME TypeInv, CapBounded, resources' = resources,
         NEW r \in ResourceId, envelopes[r] # None, NEW x,
         envelopes' = [envelopes EXCEPT ![r] = x], x.cap = envelopes[r].cap
  PROVE  CapBounded'
<1>1. \A q \in ResourceId : envelopes'[q] = IF q = r THEN x ELSE envelopes[q]
  BY DEF TypeInv, TypeOK
<1> QED BY <1>1 DEF CapBounded

\* Of the disciplined callers, only a first publication sets capacities.
LEMMA CapsKept ==
  ASSUME IInv, CapBounded, DisciplinedNext
  PROVE  CapBounded'
<1>0. TypeInv
  BY DEF IInv
<1>1. ASSUME UNCHANGED <<envelopes, resources>> PROVE CapBounded'
  BY <1>1 DEF CapBounded
<1>2. ASSUME NEW p \in Publications, PublishResource(p)
      PROVE  CapBounded'
  <2>1. CASE OldNews(p)
    <3>1. UNCHANGED <<envelopes, resources>>
      BY <1>2, <2>1 DEF PublishResource
    <3> QED BY <3>1, <1>1
  <2>2. CASE ~OldNews(p)
    <3> DEFINE lost == {id \in Commitments(p.id) :
                          ~reservations[id].contributesEnvelope}
               new == NewEnvelope(p.availableFrom, p.overbookRatio,
                                  p.totalCapacity, p.unavailable)
               record == [generation |-> p.generation,
                          resourceClass |-> p.resourceClass,
                          totalCapacity |-> p.totalCapacity, owner |-> p.worker,
                          ownerBoot |-> p.workerBoot, available |-> TRUE]
    <3>1. /\ resources' = [resources EXCEPT ![p.id] = record]
          /\ envelopes' = [envelopes EXCEPT ![p.id] = AddAll(new, lost, 1)]
          /\ p.totalCapacity > 0
      BY <1>2, <2>2 DEF PublishResource, Install
    <3>2. new \in Envelope /\ p.id \in ResourceId /\ p.totalCapacity \in Int
      BY PublicationFields, NewEnvelopeLaw
    <3>3. \A t \in Time : new.cap[t] <= p.totalCapacity
      BY <3>1, <3>2 DEF NewEnvelope
    <3>4. lost \subseteq {id \in ReservationId : Exists(id)}
      BY DEF Commitments, HoldsCapacity
    <3>5. AddAll(new, lost, 1).cap = new.cap
      <4> HIDE DEF new, lost
      <4> QED BY <1>0, <3>2, <3>4, AddAllLaw DEF TypeInv
    <3>6. record.totalCapacity = p.totalCapacity
      OBVIOUS
    <3> HIDE DEF new, lost, record
    <3>7. \A q \in ResourceId :
            /\ envelopes'[q] = IF q = p.id THEN AddAll(new, lost, 1) ELSE envelopes[q]
            /\ resources'[q] = IF q = p.id THEN record ELSE resources[q]
      BY <1>0, <3>1 DEF TypeInv, TypeOK
    <3> QED BY <3>3, <3>5, <3>6, <3>7 DEF CapBounded
  <2> QED BY <2>1, <2>2
<1>3. ASSUME NEW p \in Publications, RevalidateResource(p)
      PROVE  CapBounded'
  <2>0. resources[p.id] \in Resource
    BY <1>0, <1>3, PublicationFields DEF RevalidateResource, TypeInv, TypeOK
  <2>1. ASSUME NEW r \in ResourceId, resources[r] # None
        PROVE  resources'[r].totalCapacity = resources[r].totalCapacity
    <3> DEFINE x == [resources[p.id] EXCEPT !.generation = p.generation,
                       !.owner = p.worker, !.ownerBoot = p.workerBoot,
                       !.available = TRUE]
    <3>1. x.totalCapacity = resources[p.id].totalCapacity
      BY <2>0 DEF Resource
    <3>2. resources' = [resources EXCEPT ![p.id] = x]
      BY <1>3 DEF RevalidateResource
    <3> HIDE DEF x
    <3> QED BY <1>0, <3>1, <3>2 DEF TypeInv, TypeOK
  <2>2. UNCHANGED envelopes
    BY <1>3 DEF RevalidateResource
  <2> QED BY <1>0, <2>1, <2>2 DEF CapBounded, TypeInv, Anchored
<1>4. ASSUME NEW r \in ResourceId,
             \/ InvalidateResource(r)
             \/ \E g \in ResourceGenerations, available \in BOOLEAN :
                  AdvanceResourceGeneration(r, g, available)
      PROVE  CapBounded'
  <2>0. resources[r] \in Resource
    BY <1>0, <1>4 DEF InvalidateResource, AdvanceResourceGeneration, TypeInv,
                      TypeOK
  <2>1. ASSUME NEW q \in ResourceId, resources[q] # None
        PROVE  resources'[q].totalCapacity = resources[q].totalCapacity
    <3>1. CASE InvalidateResource(r)
      <4> DEFINE x == [resources[r] EXCEPT !.available = FALSE]
      <4>1. x.totalCapacity = resources[r].totalCapacity
        BY <2>0 DEF Resource
      <4>2. resources' = [resources EXCEPT ![r] = x]
        BY <3>1 DEF InvalidateResource
      <4> HIDE DEF x
      <4> QED BY <1>0, <4>1, <4>2 DEF TypeInv, TypeOK
    <3>2. ASSUME NEW g \in ResourceGenerations, NEW available \in BOOLEAN,
                 AdvanceResourceGeneration(r, g, available)
          PROVE  resources'[q].totalCapacity = resources[q].totalCapacity
      <4> DEFINE x == [resources[r] EXCEPT !.generation = g,
                                           !.available = available]
      <4>1. x.totalCapacity = resources[r].totalCapacity
        BY <2>0 DEF Resource
      <4>2. resources' = [resources EXCEPT ![r] = x]
        BY <3>2 DEF AdvanceResourceGeneration
      <4> HIDE DEF x
      <4> QED BY <1>0, <4>1, <4>2 DEF TypeInv, TypeOK
    <3> QED BY <1>4, <3>1, <3>2
  <2>2. UNCHANGED envelopes
    BY <1>4 DEF InvalidateResource, AdvanceResourceGeneration
  <2> QED BY <1>0, <2>1, <2>2 DEF CapBounded, TypeInv, Anchored
<1>5. ASSUME NEW spec \in HoldSpecs, NEW r \in ResourceId, NEW now \in HoldClock,
             CreateHold(spec, r, now)
      PROVE  CapBounded'
  <2>1. envelopes[r] \in Envelope /\ envelopes[r] # None
    BY <1>0, <1>5 DEF CreateHold, Holdable, Chosen, Matching, TypeInv, TypeOK, Anchored
  <2>2. spec.quantity \in Int
    BY DEF HoldSpec
  <2>3. AddHeld(envelopes[r], spec.window, spec.quantity).cap = envelopes[r].cap
    BY <2>1, <2>2, AddHeldLaw
  <2>4. /\ envelopes' = [envelopes EXCEPT ![r] =
                           AddHeld(envelopes[r], spec.window, spec.quantity)]
        /\ resources' = resources
    BY <1>5 DEF CreateHold
  <2> QED BY <1>0, <2>1, <2>3, <2>4, OneEnvelope
<1>6. ASSUME NEW h \in HoldId, NEW g, ReleaseHold(h, g)
      PROVE  CapBounded'
  <2>1. holds[h] \in Hold /\ holds[h] # None
    BY <1>0, <1>6 DEF ReleaseHold, TypeInv, TypeOK
  <2>2. /\ holds[h].resource \in ResourceId
        /\ envelopes[holds[h].resource] # None
        /\ envelopes[holds[h].resource] \in Envelope
    BY <1>0, <2>1 DEF TypeInv, TypeOK, Anchored, Hold
  <2>3. Unheld(envelopes[holds[h].resource], holds[h]).cap
          = envelopes[holds[h].resource].cap
    BY <2>1, <2>2, UnheldLaw
  <2>4. /\ envelopes' = [envelopes EXCEPT ![holds[h].resource] =
                           Unheld(envelopes[holds[h].resource], holds[h])]
        /\ resources' = resources
    BY <1>6 DEF ReleaseHold
  <2> QED BY <1>0, <2>2, <2>3, <2>4, OneEnvelope
<1>7. ASSUME NEW now \in Instant, ExpireHolds(now)
      PROVE  CapBounded'
  <2>1. ASSUME NEW r \in ResourceId, envelopes'[r] # None
        PROVE  envelopes[r] # None /\ envelopes'[r].cap = envelopes[r].cap
    <3>1. envelopes[r] # None
      BY <1>7, <2>1 DEF ExpireHolds
    <3>2. envelopes[r] \in Envelope
      BY <1>0, <3>1 DEF TypeInv, TypeOK
    <3> QED BY <1>7, <3>1, <3>2 DEF ExpireHolds, Envelope
  <2>2. resources' = resources
    BY <1>7 DEF ExpireHolds
  <2> QED BY <2>1, <2>2 DEF CapBounded
<1>8. ASSUME NEW now \in Instant, ExpireDue(now)
      PROVE  CapBounded'
  <2>1. ASSUME NEW r \in ResourceId, envelopes'[r] # None
        PROVE  envelopes[r] # None /\ envelopes'[r].cap = envelopes[r].cap
    <3> DEFINE S == {id \in Due(now) : /\ reservations[id].resource = r
                                       /\ reservations[id].contributesEnvelope}
    <3>1. envelopes[r] # None /\ envelopes'[r] = AddAll(envelopes[r], S, -1)
      BY <1>8, <2>1 DEF ExpireDue
    <3>2. envelopes[r] \in Envelope
      BY <1>0, <3>1 DEF TypeInv, TypeOK
    <3>3. S \subseteq {id \in ReservationId : Exists(id)}
      BY DEF Due, HoldsCapacity
    <3> HIDE DEF S
    <3> QED BY <1>0, <3>1, <3>2, <3>3, AddAllLaw DEF TypeInv
  <2>2. resources' = resources
    BY <1>8 DEF ExpireDue
  <2> QED BY <2>1, <2>2 DEF CapBounded
<1>9. ASSUME NEW id \in ReservationId, NEW g,
             Cancel(id, g) \/ \E ev \in Evidence : Release(id, g, ev)
      PROVE  CapBounded'
  <2> DEFINE r == reservations[id].resource
  <2>1. reservations[id] \in Reservation /\ reservations[id] # None
    BY <1>0, <1>9 DEF Cancel, Release, Current, Exists, TypeInv, TypeOK
  <2>2. r \in ResourceId /\ envelopes[r] # None /\ envelopes[r] \in Envelope
    BY <1>0, <2>1 DEF TypeInv, TypeOK, Anchored, Exists, ResourceOf, Reservation
  <2>3. Withdraw(envelopes[r], reservations[id]).cap = envelopes[r].cap
    BY <2>1, <2>2, WithdrawLaw
  <2>4. /\ envelopes' = [envelopes EXCEPT ![r] =
                           Withdraw(envelopes[r], reservations[id])]
        /\ resources' = resources
    BY <1>9 DEF Cancel, Release, EnvelopesWithout
  <2> QED BY <1>0, <2>2, <2>3, <2>4, OneEnvelope
<1>10. ASSUME NEW q \in Requests, NEW r \in ResourceId,
              NEW h \in HoldId \cup {None}, Commit(q, r, h)
       PROVE  CapBounded'
  <2> DEFINE loaded == AddCommitted(envelopes[r], q.strength, q.window, q.quantity)
             x == IF h = None THEN loaded
                  ELSE AddHeld(loaded, holds[h].window, -holds[h].quantity)
  <2>1. envelopes[r] \in Envelope /\ envelopes[r] # None
    BY <1>0, <1>10 DEF Commit, Admissible, Chosen, Matching, TypeInv, TypeOK, Anchored
  <2>2. q.quantity \in Int
    BY DEF Request
  <2>3. loaded \in Envelope /\ loaded.cap = envelopes[r].cap
    BY <2>1, <2>2, AddCommittedLaw
  <2> HIDE DEF loaded
  <2>4. ASSUME h = None PROVE x.cap = loaded.cap
    BY <2>4
  <2>5. ASSUME h # None PROVE x.cap = loaded.cap
    <3>1. h \in HoldId /\ holds[h] \in Hold
      BY <1>0, <1>10, <2>5 DEF Commit, Redeemable, TypeInv, TypeOK
    <3>2. -holds[h].quantity \in Int
      BY <3>1 DEF Hold
    <3>3. AddHeld(loaded, holds[h].window, -holds[h].quantity).cap = loaded.cap
      BY <2>3, <3>2, AddHeldLaw
    <3> QED BY <2>5, <3>3
  <2>6. x.cap = envelopes[r].cap
    BY <2>3, <2>4, <2>5
  <2>7. envelopes' = [envelopes EXCEPT ![r] = x] /\ resources' = resources
    BY <1>10 DEF Commit, loaded
  <2> HIDE DEF x
  <2> QED BY <1>0, <2>1, <2>6, <2>7, OneEnvelope
<1>11. CASE Everyday
  <2>1. CASE \E id \in ReservationId, g \in Generations, ev \in Evidence :
               Release(id, g, ev)
    BY <2>1, <1>9
  <2>2. CASE \E id \in ReservationId, g \in Generations : Cancel(id, g)
    BY <2>2, <1>9
  <2>3. CASE \E h \in HoldId, spec \in HoldSpecs :
               ReleaseHold(h, spec.holdGeneration)
    BY <2>3, <1>6
  <2>4. CASE \E r \in ResourceId, g \in ResourceGenerations,
                available \in BOOLEAN : AdvanceResourceGeneration(r, g, available)
    BY <2>4, <1>4
  <2>5. CASE \E r \in ResourceId : InvalidateResource(r)
    BY <2>5, <1>4
  <2>6. CASE \/ \E e \in 1..MaxAuthority : SetCoordinatorEpoch(e)
             \/ \E id \in ReservationId, g \in Generations, ev \in Evidence,
                   at \in Time : Activate(id, g, ev, at)
             \/ \E id \in ReservationId, g \in Generations,
                   amount \in ConsumeAmounts, ev \in Evidence :
                  Consume(id, g, amount, ev)
    <3>1. UNCHANGED <<envelopes, resources>>
      BY <2>6 DEF SetCoordinatorEpoch, Activate, Consume, OnlyReservationsChange
    <3> QED BY <3>1, <1>1
  <2> QED BY <1>3, <1>7, <1>8, <1>11, <2>1, <2>2, <2>3, <2>4, <2>5, <2>6 DEF Everyday
<1>12. CASE ~Everyday
  <2>1. CASE \E id \in ReservationId, g \in Generations :
               HoldsCapacity(id) /\ ActivateStale(id, g)
    <3>1. UNCHANGED <<envelopes, resources>>
      BY <2>1 DEF ActivateStale, OnlyReservationsChange
    <3> QED BY <3>1, <1>1
  <2>2. CASE \E id \in ReservationId, g \in Generations, owner \in NewOwners,
                ev \in Evidence : HoldsCapacity(id) /\ Transfer(id, g, owner, ev)
    <3>1. UNCHANGED <<envelopes, resources>>
      BY <2>2 DEF Transfer, OnlyGenerationsChange
    <3> QED BY <3>1, <1>1
  <2> QED BY <1>2, <1>5, <1>10, <1>12, <2>1, <2>2 DEF DisciplinedNext
<1> QED BY <1>11, <1>12

\* What is exact in memory fits whatever load makes of its image.
LEMMA ImageIsFit ==
  ASSUME IInv, CapBounded
  PROVE  ImageFits(Image)
<1>1. TypeInv /\ LoadsAgree
  BY LoadsAreLoadsIn DEF IInv
<1>2. /\ Image.resources = resources /\ Image.reservations = reservations
      /\ Image.holds = holds /\ Image.nextReservationId = nextReservationId
      /\ Image.layout = Layout
  BY DEF Image
<1>3. \A id \in ReservationId : id > nextReservationId => reservations[id] = None
  BY DEF IInv, IdsFresh, Exists
<1>4. ASSUME NEW r \in ResourceId, resources[r] # None, NEW t \in Time,
             Layout[r].from <= t, t < Layout[r].from + Horizon
      PROVE  LoadIn(reservations, r, "Hard", t) + HeldIn(holds, r, t)
               <= resources[r].totalCapacity
  <2> DEFINE e == envelopes[r]
  <2>1. e \in Envelope /\ e # None /\ resources[r].totalCapacity \in Nat
    <3>1. resources[r] \in Resource
      BY <1>1, <1>4 DEF TypeInv, TypeOK
    <3> QED BY <1>1, <1>4, <3>1 DEF TypeInv, TypeOK, Anchored, Resource
  <2>2. t \in Span(e)
    BY <1>4, <2>1 DEF Layout, Span
  <2>3. /\ e.hard[t] = LoadIn(reservations, r, "Hard", t)
        /\ e.held[t] = HeldIn(holds, r, t)
        /\ e.hard[t] + e.held[t] <= e.cap[t]
    BY <1>1, <2>1, <2>2 DEF IInv, Exactness, Exact, LoadsAgree
  <2>4. e.cap[t] <= resources[r].totalCapacity
    BY <2>1 DEF CapBounded
  <2>5. e.cap[t] \in Int /\ e.hard[t] \in Int /\ e.held[t] \in Int
    BY <2>1 DEF Envelope
  <2> HIDE DEF e
  <2> QED BY <2>1, <2>3, <2>4, <2>5
<1> QED BY <1>2, <1>3, <1>4 DEF ImageFits

\* Reapplying changes no load.
LEMMA LoadedLoads ==
  ASSUME DiskTyped, Load, NEW r, NEW strength, NEW t
  PROVE  LoadIn(reservations', r, strength, t) =
           LoadIn(file.image.reservations, r, strength, t)
<1>1. \A id \in 1..LastReservationId :
        ShareIn(reservations', id, r, strength, t) =
          ShareIn(file.image.reservations, id, r, strength, t)
  BY LoadedRegistry DEF ShareIn, SameTerms
<1> QED BY <1>1 DEF LoadIn

\* Load gives a runtime whose accounting is exact and that is not overbooked.
LEMMA LoadKeeps ==
  ASSUME DiskTyped, Load, ImageFits(file.image)
  PROVE  IInv' /\ CapBounded'
<1> DEFINE i == file.image
<1>1. TypeInv' /\ HoldFlags(holds)' /\ LoadsAgree'
  BY LoadTypes, LoadsAreLoadsInNext
<1>2. /\ ImageTyped(i)
      /\ \A id \in ReservationId :
           reservations'[id] = None <=> i.reservations[id] = None
  BY LoadedRegistry
<1>3. /\ resources' = i.resources /\ holds' = i.holds
      /\ nextReservationId' = i.nextReservationId
  BY DEF Load
<1>4. IdsFresh'
  BY <1>2, <1>3 DEF IdsFresh, Exists, ImageFits
<1>5. FlagsFollowClaims'
  BY <1>1, LoadedRegistry DEF FlagsFollowClaims, HoldFlags, HoldsCapacity, Exists
<1>6. ASSUME NEW r \in ResourceId, envelopes'[r] # None
      PROVE  Exact(r)'
  <2> DEFINE x == envelopes'[r]
  <2>1. resources'[r] # None
    BY <1>6, LoadedEnvelopes
  <2>2. /\ Span(x) = {t \in Time : /\ i.layout[r].from <= t
                                   /\ t < i.layout[r].from + Horizon}
        /\ \A t \in Time : x.cap[t] = i.resources[r].totalCapacity
        /\ \A t \in Span(x) :
             /\ x.hard[t] = LoadIn(reservations', r, "Hard", t)
             /\ x.soft[t] = LoadIn(reservations', r, "Soft", t)
             /\ x.held[t] = HeldIn(holds', r, t)
    BY <2>1, LoadedEnvelopes
  <2>3. \A t \in Span(x) : x.hard[t] + x.held[t] <= x.cap[t]
    BY <1>3, <2>1, <2>2, LoadedLoads DEF ImageFits
  <2> HIDE DEF x
  <2>4. \A t \in Span(x) :
          /\ x.hard[t] = LoadAt(Commitments(r), "Hard", t)'
          /\ x.soft[t] = LoadAt(Commitments(r), "Soft", t)'
          /\ x.held[t] = HeldAt(LiveHolds(r), t)'
    BY <1>1, <2>2 DEF LoadsAgree
  <2> QED BY <2>3, <2>4 DEF Exact, x
<1>7. Exactness'
  BY <1>6 DEF Exactness, Exact
<1>8. CapBounded'
  <2>1. ASSUME NEW r \in ResourceId, envelopes'[r] # None, NEW t \in Time
        PROVE  envelopes'[r].cap[t] <= resources'[r].totalCapacity
    <3>1. resources'[r] # None
      BY <2>1, LoadedEnvelopes
    <3>2. envelopes'[r].cap[t] = i.resources[r].totalCapacity
      BY <2>1, <3>1, LoadedEnvelopes
    <3>3. i.resources[r] \in Resource
      BY <1>2, <1>3, <3>1 DEF ImageTyped
    <3> QED BY <1>3, <3>2, <3>3 DEF Resource
  <2> QED BY <2>1 DEF CapBounded
<1> QED BY <1>1, <1>4, <1>5, <1>7, <1>8 DEF IInv

\* A process that has just started has promised nothing.
LEMMA ClearKeeps == ClearMemory => IInv' /\ CapBounded'
<1>1. Init' => IInv'
  BY InvariantInit, PTL
<1>2. Init' => CapBounded'
  BY DEF Init, CapBounded
<1> QED BY <1>1, <1>2, ClearIsInit

\* The file, and what is being written, are fit to be loaded.
DiskFit ==
  /\ file # None => ImageTyped(file.image) /\ ImageFits(file.image)
  /\ saving => ImageTyped(file.image) /\ ImageFits(file.image)

LEMMA DurableInit == PersistenceInit => DurableInv
BY InvariantInit DEF PersistenceInit, DurableInv, Init, CapBounded

LEMMA DurableNext ==
  DurableInv /\ [(DisciplinedNext /\ Running) \/ Restarting]_<<vars, diskVars>>
    => DurableInv'
<1> SUFFICES ASSUME DurableInv,
                    [(DisciplinedNext /\ Running) \/ Restarting]_<<vars, diskVars>>
             PROVE  DurableInv'
  OBVIOUS
<1>0. IInv /\ CapBounded /\ DiskFit /\ DiskTyped
  BY DEF DurableInv, DiskFit, DiskTyped
<1>1. ASSUME UNCHANGED vars PROVE IInv' /\ CapBounded'
  <2>1. IInv'
    BY <1>0, <1>1, InvariantStutter
  <2> QED BY <1>0, <1>1, <2>1 DEF vars, CapBounded
<1>2. ASSUME IInv' /\ CapBounded', DiskFit' PROVE DurableInv'
  BY <1>2 DEF DurableInv, DiskFit
<1>3. CASE DisciplinedNext /\ Running
  <2>1. IInv' /\ CapBounded'
    BY <1>0, <1>3, InvariantNext, CapsKept
  <2>2. UNCHANGED <<file, saving>>
    BY <1>3 DEF Running
  <2> QED BY <1>0, <1>2, <2>1, <2>2 DEF DiskFit
<1>4. CASE BeginSave
  <2>1. UNCHANGED vars /\ file'.image = Image
    BY <1>4 DEF BeginSave
  <2>2. ImageTyped(Image) /\ ImageFits(Image)
    <3>1. HoldFlags(holds)
      BY <1>0 DEF IInv, FlagsFollowClaims, HoldFlags
    <3> QED BY <1>0, <3>1, ImageIsTyped, ImageIsFit DEF IInv
  <2> HIDE DEF Image
  <2> QED BY <1>1, <1>2, <2>1, <2>2 DEF DiskFit
<1>5. CASE EndSave \/ FailSave \/ StartEmpty \/ UNCHANGED <<vars, diskVars>>
  <2>1. /\ UNCHANGED vars
        /\ file' = file \/ (saving /\ file'.image = file.image)
        /\ saving' => saving /\ file' = file
    BY <1>5 DEF EndSave, FailSave, StartEmpty, diskVars
  <2>2. DiskFit'
    BY <1>0, <2>1 DEF DiskFit
  <2> QED BY <1>1, <1>2, <2>1, <2>2
<1>6. CASE Crash
  <2>1. IInv' /\ CapBounded'
    BY <1>6, ClearKeeps DEF Crash
  <2>2. file' = file /\ ~saving'
    BY <1>6 DEF Crash
  <2> QED BY <1>0, <1>2, <2>1, <2>2 DEF DiskFit
<1>7. CASE Load
  <2>1. ImageFits(file.image)
    BY <1>0, <1>7 DEF Load, Loadable, DiskFit
  <2>2. IInv' /\ CapBounded'
    BY <1>0, <1>7, <2>1, LoadKeeps
  <2>3. UNCHANGED <<file, saving>>
    BY <1>7 DEF Load
  <2> QED BY <1>0, <1>2, <2>2, <2>3 DEF DiskFit
<1> QED BY <1>3, <1>4, <1>5, <1>6, <1>7 DEF Restarting

\* The accounting of disciplined callers is exact, and no hard promise is
\* overbooked, through any number of saves, torn saves, crashes and loads.
THEOREM DurableAccounting == DisciplinedPersistenceSpec => []AccountingInvariant
<1>1. DurableInv => AccountingInvariant
  BY InvariantParts DEF DurableInv
<1> QED BY DurableInit, DurableNext, <1>1, PTL DEF DisciplinedPersistenceSpec

=============================================================================
