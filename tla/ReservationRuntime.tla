------------------------- MODULE ReservationRuntime -------------------------
(***************************************************************************)
(* The reservation runtime (ReservationFabric::Impl and its public         *)
(* operations).  Every operation runs under one exclusive lock, so each is *)
(* one action.  A call the code refuses without changing any state is a    *)
(* stuttering step and has no action; a refusal that does change state is  *)
(* part of the action of its operation.                                    *)
(*                                                                         *)
(* Not in the state: descriptive fields no operation reads (workload,      *)
(* topology, provenance, ...), the text of results, and the indexes of     *)
(* composite sets.  Optional generations are 0 when absent, but for that   *)
(* of consumption (NeverConsumed); an absent map entry is None.            *)
(***************************************************************************)
EXTENDS Lifecycle, Sums, CapacityEnvelope, Sequences, FiniteSets

CONSTANTS
  None,              \* an absent entry
  ResourceId,        \* numbers from 1, since ties are broken by the smaller id
  ResourceClass,     \* a class and the unit that goes with it
  Worker, Owner, RequestId,
  LastReservationId, \* bound: reservation ids are 2..LastReservationId
  LastHoldId,        \* bound: hold ids are 1..LastHoldId
  MaxGeneration,     \* bound: generations of one reservation
  MaxAuthority,      \* bound: coordinator epochs and authority generations
  MaxHolds,          \* RuntimeConfig::maxHolds
  MaxHistory,        \* RuntimeConfig::maxHistoryPerReservation
  HoldLease,         \* defaultHoldLease()
  \* The inputs callers choose from.
  Publications, Requests, HoldSpecs, ConsumeAmounts, NewQuantities,
  NewWindows, NewOwners, PolicyGenerations, ResourceGenerations,
  WorkerBoots, EvidenceGenerations, HoldClock

ReservationId == 2..LastReservationId
HoldId == 1..LastHoldId
Strengths == {"Hard", "Soft"}   \* Soft: every strength that is not Hard
HoldStates == {"Acquired", "Released", "Expired", "Committed"}

\* What Interval's constructors let through, and the empty interval at 0 that
\* is there when no constructor with arguments was called.
Lasting(w) == w.start < w.end

NoWindow == [start |-> 0, end |-> 0]

Window ==
  {w \in [start : Time, end : 0..(MaxTime + 1)] : Lasting(w) \/ w = NoWindow}

\* Instants a caller may pass, late enough to be after every window.
Instant == 0..(MaxTime + 2)

Publication ==
  [id : ResourceId, generation : Nat, worker : Worker, workerBoot : Nat,
   resourceClass : ResourceClass, totalCapacity : Int, overbookRatio : Nat,
   availableFrom : Time, unavailable : SUBSET Time]

Request ==
  [requestId : RequestId, resourceClass : ResourceClass,
   targetResource : ResourceId \cup {None}, quantity : Int,
   partialAllowed : BOOLEAN, minAcceptable : Int, window : Window,
   strength : Strengths, owner : Owner, minResourceGeneration : Nat,
   policyGeneration : Nat, transferAllowed : BOOLEAN]

HoldSpec ==
  [holdId : HoldId, holdGeneration : Nat, resourceClass : ResourceClass,
   quantity : Int, window : Window, commitAuthority : BOOLEAN]

Resource ==
  [generation : Nat, resourceClass : ResourceClass, totalCapacity : Nat,
   owner : Worker, ownerBoot : Nat, available : BOOLEAN]

\* The consumption generation before there is one: any later one is new, 0 too.
NeverConsumed == -1

\* request is a history field: the struct does not keep the request's id.
Reservation ==
  [generation : Nat \ {0}, strength : Strengths, resource : ResourceId,
   boundResourceGeneration : Nat, quantity : Nat \ {0}, consumed : Nat,
   window : Window, lifecycle : Lifecycles, owner : Owner,
   policyGeneration : Nat, transferAllowed : BOOLEAN,
   activationGeneration : Nat,
   consumptionGeneration : Nat \cup {NeverConsumed},
   releaseGeneration : Nat, contributesEnvelope : BOOLEAN,
   request : RequestId]

Hold ==
  [holdGeneration : Nat, quantity : Nat \ {0}, window : Window,
   commitAuthority : BOOLEAN, state : HoldStates, resource : ResourceId,
   expiry : Nat, appliedToEnvelope : BOOLEAN]

ASSUME RuntimeAssumption ==
  /\ ResourceId \subseteq Nat \ {0}
  /\ LastReservationId \in Nat /\ LastHoldId \in Nat
  /\ MaxGeneration \in Nat /\ MaxAuthority \in Nat
  /\ MaxHolds \in Nat /\ MaxHistory \in Nat \ {0} /\ HoldLease \in Nat
  /\ None \notin ResourceId \cup ReservationId \cup HoldId
  /\ None \notin Resource /\ None \notin Envelope
  /\ None \notin Reservation /\ None \notin Hold
  /\ Publications \subseteq Publication
  /\ Requests \subseteq Request
  /\ HoldSpecs \subseteq HoldSpec
  /\ ConsumeAmounts \subseteq Int /\ NewQuantities \subseteq Int
  /\ NewWindows \subseteq Window /\ NewOwners \subseteq Owner
  /\ PolicyGenerations \subseteq Nat /\ ResourceGenerations \subseteq Nat
  /\ WorkerBoots \subseteq Nat /\ EvidenceGenerations \subseteq Nat
  /\ HoldClock \subseteq Nat

VARIABLES
  epoch, authority,       \* coordinator epoch and authority generation
  resources, envelopes,   \* resource id -> its record, its envelope
  workerBoots,            \* worker -> newest boot id seen, 0 before any
  requestToReservation,   \* request id -> first reservation it made
  reservations,           \* reservation id -> its current generation
  currentGen,             \* reservation id -> generation, 0 before any
  history,                \* reservation id -> superseded generations
  holds,                  \* hold id -> hold
  nextReservationId

vars == <<epoch, authority, resources, envelopes, workerBoots,
          requestToReservation, reservations, currentGen, history, holds,
          nextReservationId>>

Init ==
  /\ epoch = 1 /\ authority = 1
  /\ resources = [r \in ResourceId |-> None]
  /\ envelopes = [r \in ResourceId |-> None]
  /\ workerBoots = [w \in Worker |-> 0]
  /\ requestToReservation = [q \in RequestId |-> None]
  /\ reservations = [id \in ReservationId |-> None]
  /\ currentGen = [id \in ReservationId |-> 0]
  /\ history = [id \in ReservationId |-> <<>>]
  /\ holds = [h \in HoldId |-> None]
  /\ nextReservationId = 1

-----------------------------------------------------------------------------
(* Sums over the registry.                                                 *)

Share(id, S, strength, t) ==
  IF /\ id \in S
     /\ reservations[id].strength = strength
     /\ Covers(reservations[id].window, t)
  THEN reservations[id].quantity ELSE 0

\* What the reservations in S ask for at instant t.
LoadAt(S, strength, t) ==
  SumTo([id \in 1..LastReservationId |-> Share(id, S, strength, t)],
        LastReservationId)

HoldShare(h, S, t) ==
  IF h \in S /\ Covers(holds[h].window, t) THEN holds[h].quantity ELSE 0

HeldAt(S, t) ==
  SumTo([h \in 1..LastHoldId |-> HoldShare(h, S, t)], LastHoldId)

Exists(id) == id \in ReservationId /\ reservations[id] # None

HoldsCapacity(id) ==
  Exists(id) /\ reservations[id].lifecycle \in CapacityHolding

\* The reservations on resource r that hold capacity.
Commitments(r) ==
  {id \in ReservationId : HoldsCapacity(id) /\ reservations[id].resource = r}

\* The holds that reserve candidate capacity of resource r.
LiveHolds(r) ==
  {h \in HoldId : /\ holds[h] # None
                  /\ holds[h].state = "Acquired"
                  /\ holds[h].resource = r}

\* The envelope e with every share of S added (sign 1) or removed (-1).
AddAll(e, S, sign) ==
  LET moved(f, strength) ==
        [t \in Time |-> IF t \in Span(e)
                        THEN f[t] + sign * LoadAt(S, strength, t) ELSE f[t]]
  IN  [e EXCEPT !.hard = moved(e.hard, "Hard"),
                !.soft = moved(e.soft, "Soft")]

\* A mutant of Withdraw: what was consumed is not given back.
WithdrawUnconsumed(e, r) ==
  IF r.contributesEnvelope
  THEN AddCommitted(e, r.strength, r.window, r.consumed - r.quantity) ELSE e

\* removeContributionLocked: nothing when r is not applied.
Withdraw(e, r) ==
  IF r.contributesEnvelope
  THEN AddCommitted(e, r.strength, r.window, -r.quantity) ELSE e

-----------------------------------------------------------------------------
(* Admission.                                                              *)

Matching(class, target, minGeneration) ==
  {r \in ResourceId :
     /\ resources[r] # None
     /\ target \in {None, r}
     /\ resources[r].resourceClass = class
     /\ resources[r].available
     /\ resources[r].generation >= minGeneration}

HeadroomOn(r, strength, w) == Headroom(envelopes[r], strength, w)

\* r has the most headroom of the candidates, and the least id among those.
Chosen(r, candidates, strength, w) ==
  /\ r \in candidates
  /\ \A other \in candidates :
       LET mine == HeadroomOn(r, strength, w)
           its  == HeadroomOn(other, strength, w)
       IN  its < mine \/ (its = mine /\ r <= other)

\* A mutant of ValidRequest: nothing may be asked for.
ValidOrEmptyRequest(q) ==
  /\ q.quantity >= 0
  /\ q.partialAllowed => q.minAcceptable \in 1..q.quantity

ValidRequest(q) ==
  /\ q.quantity > 0
  /\ q.partialAllowed => q.minAcceptable \in 1..q.quantity

Duplicate(q) ==
  /\ requestToReservation[q.requestId] # None
  /\ HoldsCapacity(requestToReservation[q.requestId])

\* assessOne answers Admissible or AdmissibleWithModification, with r chosen.
Admissible(q, r) ==
  /\ ValidRequest(q)
  /\ ~Duplicate(q)
  /\ Chosen(r, Matching(q.resourceClass, q.targetResource,
                        q.minResourceGeneration), q.strength, q.window)
  /\ HeadroomOn(r, q.strength, q.window) >=
       (IF q.partialAllowed THEN q.minAcceptable ELSE q.quantity)

-----------------------------------------------------------------------------
(* Authority and resource evidence.                                        *)

SetCoordinatorEpoch(e) ==
  /\ e >= epoch
  /\ authority < MaxAuthority
  /\ epoch' = e
  /\ authority' = authority + 1
  /\ UNCHANGED <<resources, envelopes, workerBoots, requestToReservation,
                 reservations, currentGen, history, holds,
                 nextReservationId>>

\* A mutant of BootCurrent: only the owner on record is asked for its boot.
OwnerBootCurrent(p) ==
  /\ p.workerBoot > 0
  /\ resources[p.id] # None /\ resources[p.id].owner = p.worker =>
       resources[p.id].ownerBoot <= p.workerBoot

BootCurrent(p) == workerBoots[p.worker] <= p.workerBoot

\* The reservations with the lifecycle of those in S set to l.
WithLifecycle(S, l) ==
  [id \in ReservationId |->
     IF id \in S THEN [reservations[id] EXCEPT !.lifecycle = l]
     ELSE reservations[id]]

\* A mutant of InUseOn: a partly consumed reservation is overlooked.
ActiveOn(r) ==
  {id \in Commitments(r) : reservations[id].lifecycle \in {"Active", "Consumed"}}

InUseOn(r) == {id \in Commitments(r) : reservations[id].lifecycle \in InUse}

\* A publication that replaces what is known of its resource.  The new
\* envelope starts empty; only commitments not marked applied are added.
Install(p) ==
  LET lost == {id \in Commitments(p.id) : ~reservations[id].contributesEnvelope}
      new  == NewEnvelope(p.availableFrom, p.overbookRatio, p.totalCapacity,
                          p.unavailable)
      flagged == WithLifecycle(InUseOn(p.id), "RevalidationRequired")
  IN  /\ resources' = [resources EXCEPT ![p.id] =
            [generation |-> p.generation, resourceClass |-> p.resourceClass,
             totalCapacity |-> p.totalCapacity, owner |-> p.worker,
             ownerBoot |-> p.workerBoot, available |-> TRUE]]
      /\ envelopes' = [envelopes EXCEPT ![p.id] = AddAll(new, lost, 1)]
      /\ reservations' =
           [id \in ReservationId |->
              IF id \in lost
              THEN [flagged[id] EXCEPT !.contributesEnvelope = TRUE]
              ELSE flagged[id]]

\* The resource is known at this generation or a later one.
OldNews(p) ==
  resources[p.id] # None /\ p.generation <= resources[p.id].generation

\* publishResource: a current boot id is recorded before the generation is
\* looked at, so a stale or duplicate publication still records it.
PublishResource(p) ==
  /\ p.totalCapacity > 0 /\ p.generation > 0 /\ p.workerBoot > 0
  /\ BootCurrent(p)
  /\ workerBoots' = [workerBoots EXCEPT ![p.worker] = p.workerBoot]
  /\ IF OldNews(p)
       THEN UNCHANGED <<resources, envelopes, reservations>>
       ELSE Install(p)
  /\ UNCHANGED <<epoch, authority, requestToReservation, currentGen, history,
                 holds, nextReservationId>>

InvalidateResource(r) ==
  /\ resources[r] # None
  /\ resources' = [resources EXCEPT ![r].available = FALSE]
  /\ reservations' = WithLifecycle(Commitments(r), "RevalidationRequired")
  /\ UNCHANGED <<epoch, authority, envelopes, workerBoots,
                 requestToReservation, currentGen, history, holds,
                 nextReservationId>>

AdvanceResourceGeneration(r, g, available) ==
  /\ resources[r] # None
  /\ g > resources[r].generation
  /\ resources' = [resources EXCEPT ![r].generation = g,
                                    ![r].available = available]
  /\ reservations' = WithLifecycle(InUseOn(r), "RevalidationRequired")
  /\ UNCHANGED <<epoch, authority, envelopes, workerBoots,
                 requestToReservation, currentGen, history, holds,
                 nextReservationId>>

AwaitingRevalidation(r) ==
  {id \in Commitments(r) : reservations[id].lifecycle = "RevalidationRequired"}

\* revalidateResource: the generation is taken as it comes, and capacity and
\* envelope are kept.
RevalidateResource(p) ==
  /\ resources[p.id] # None
  /\ BootCurrent(p)
  /\ workerBoots' = [workerBoots EXCEPT ![p.worker] = p.workerBoot]
  /\ resources' = [resources EXCEPT ![p.id].generation = p.generation,
                                    ![p.id].owner = p.worker,
                                    ![p.id].ownerBoot = p.workerBoot,
                                    ![p.id].available = TRUE]
  /\ reservations' =
       [id \in ReservationId |->
          IF id \in AwaitingRevalidation(p.id)
          THEN [reservations[id] EXCEPT
                  !.lifecycle = "PendingActivation",
                  !.boundResourceGeneration = p.generation]
          ELSE reservations[id]]
  /\ UNCHANGED <<epoch, authority, envelopes, requestToReservation,
                 currentGen, history, holds, nextReservationId>>

-----------------------------------------------------------------------------
(* Holds.                                                                  *)

\* acquireHoldLocked finds room for the hold, on r.
Holdable(spec, r) ==
  /\ spec.holdGeneration > 0 /\ spec.quantity > 0
  /\ Cardinality({h \in HoldId : holds[h] # None}) < MaxHolds
  /\ Chosen(r, Matching(spec.resourceClass, None, 0), "Hard", spec.window)
  /\ HeadroomOn(r, "Hard", spec.window) >= spec.quantity

\* acquireHoldLocked: an earlier hold of the same id is overwritten.
CreateHold(spec, r, now) ==
  /\ Holdable(spec, r)
  /\ holds' = [holds EXCEPT ![spec.holdId] =
       [holdGeneration |-> spec.holdGeneration, quantity |-> spec.quantity,
        window |-> spec.window, commitAuthority |-> spec.commitAuthority,
        state |-> "Acquired", resource |-> r, expiry |-> now + HoldLease,
        appliedToEnvelope |-> TRUE]]
  /\ envelopes' = [envelopes EXCEPT ![r] =
                     AddHeld(@, spec.window, spec.quantity)]
  /\ UNCHANGED <<epoch, authority, resources, workerBoots,
                 requestToReservation, reservations, currentGen, history,
                 nextReservationId>>

\* The hold given up, and the envelope without it.
GivenUp(hold, state) ==
  [hold EXCEPT !.state = state, !.appliedToEnvelope = FALSE]

\* A mutant of Unheld: the quantity stays held.
HeldForGood(e, hold) == e

\* A mutant of Unheld: a committed hold gives back its quantity again.
UnheldTwice(e, hold) == AddHeld(e, hold.window, -hold.quantity)

Unheld(e, hold) ==
  IF hold.appliedToEnvelope THEN AddHeld(e, hold.window, -hold.quantity) ELSE e

\* releaseHold: a committed hold may be released too, without effect on the
\* envelope.
ReleaseHold(h, g) ==
  /\ holds[h] # None
  /\ holds[h].holdGeneration = g
  /\ holds[h].state \notin {"Released", "Expired"}
  /\ envelopes' = [envelopes EXCEPT ![holds[h].resource] = Unheld(@, holds[h])]
  /\ holds' = [holds EXCEPT ![h] = GivenUp(@, "Released")]
  /\ UNCHANGED <<epoch, authority, resources, workerBoots,
                 requestToReservation, reservations, currentGen, history,
                 nextReservationId>>

ExpiredHolds(now) ==
  {h \in HoldId : /\ holds[h] # None
                  /\ holds[h].state = "Acquired"
                  /\ holds[h].expiry < now}

ExpireHolds(now) ==
  LET gone == ExpiredHolds(now)
      without(r) == {h \in gone : /\ holds[h].resource = r
                                  /\ holds[h].appliedToEnvelope}
  IN  /\ holds' = [h \in HoldId |-> IF h \in gone
                                    THEN GivenUp(holds[h], "Expired")
                                    ELSE holds[h]]
      /\ envelopes' =
           [r \in ResourceId |->
              IF envelopes[r] = None THEN None
              ELSE [envelopes[r] EXCEPT !.held =
                      [t \in Time |-> IF t \in Span(envelopes[r])
                                      THEN @[t] - HeldAt(without(r), t)
                                      ELSE @[t]]]]
      /\ UNCHANGED <<epoch, authority, resources, workerBoots,
                     requestToReservation, reservations, currentGen, history,
                     nextReservationId>>

-----------------------------------------------------------------------------
(* Commitment.                                                             *)

\* A mutant of Redeemable: a hold may be used up by two commits.
ReusableHold(h, r) == holds[h] # None /\ holds[h].resource = r

\* What commitOneLocked asks of a hold.
Redeemable(h, r) ==
  /\ holds[h] # None
  /\ holds[h].state = "Acquired"
  /\ holds[h].resource = r

\* makeReservationFromRequest: the full requested quantity, whatever the
\* admissible quantity was.
NewReservation(q, r, g) ==
  [generation |-> g, strength |-> q.strength, resource |-> r,
   boundResourceGeneration |-> resources[r].generation,
   quantity |-> q.quantity, consumed |-> 0, window |-> q.window,
   lifecycle |-> "Committed", owner |-> q.owner,
   policyGeneration |-> q.policyGeneration,
   transferAllowed |-> q.transferAllowed, activationGeneration |-> 0,
   consumptionGeneration |-> NeverConsumed, releaseGeneration |-> 0,
   contributesEnvelope |-> TRUE, request |-> q.requestId]

\* commit, with the hold h or with none.
Commit(q, r, h) ==
  LET id     == nextReservationId + 1
      loaded == AddCommitted(envelopes[r], q.strength, q.window, q.quantity)
  IN
  /\ id <= LastReservationId
  /\ Admissible(q, r)
  /\ h # None => Redeemable(h, r)
  /\ nextReservationId' = id
  /\ currentGen' = [currentGen EXCEPT ![id] = @ + 1]
  /\ reservations' = [reservations EXCEPT ![id] =
                        NewReservation(q, r, currentGen[id] + 1)]
  /\ requestToReservation' =
       IF requestToReservation[q.requestId] = None
       THEN [requestToReservation EXCEPT ![q.requestId] = id]
       ELSE requestToReservation
  /\ envelopes' = [envelopes EXCEPT ![r] =
                     IF h = None THEN loaded
                     ELSE AddHeld(loaded, holds[h].window, -holds[h].quantity)]
  /\ holds' = IF h = None THEN holds
              ELSE [holds EXCEPT ![h] = GivenUp(@, "Committed")]
  /\ UNCHANGED <<epoch, authority, resources, workerBoots, history>>

-----------------------------------------------------------------------------
(* Activation, consumption, release.                                       *)

Evidence ==
  [worker : Worker, workerBoot : WorkerBoots, generation : EvidenceGenerations]

\* id exists and the caller names its current generation.
Current(id, g) == Exists(id) /\ reservations[id].generation = g

ResourceOf(id) == resources[reservations[id].resource]

FromOwner(id, ev) ==
  /\ ev.worker = ResourceOf(id).owner
  /\ ev.workerBoot = ResourceOf(id).ownerBoot

\* workerEvidenceFreshLocked and its two siblings.
FreshEvidence(id, ev) ==
  /\ ResourceOf(id) # None
  /\ ResourceOf(id).available
  /\ FromOwner(id, ev)

ResourceAdvanced(id) ==
  ResourceOf(id).generation > reservations[id].boundResourceGeneration

OnlyReservationsChange ==
  UNCHANGED <<epoch, authority, resources, envelopes, workerBoots,
              requestToReservation, currentGen, history, holds,
              nextReservationId>>

\* activate on stale resource evidence, whatever the lifecycle but Active.
ActivateStale(id, g) ==
  /\ Current(id, g)
  /\ reservations[id].lifecycle # "Active"
  /\ ResourceOf(id) # None
  /\ ~ResourceOf(id).available \/ ResourceAdvanced(id)
  /\ reservations' = [reservations EXCEPT ![id].lifecycle =
                        "RevalidationRequired"]
  /\ OnlyReservationsChange

Activate(id, g, ev, at) ==
  /\ Current(id, g)
  /\ FreshEvidence(id, ev)
  /\ ~ResourceAdvanced(id)
  /\ Covers(reservations[id].window, at)
  /\ ev.generation >= reservations[id].activationGeneration
  /\ reservations[id].lifecycle \in Activatable
  /\ reservations' = [reservations EXCEPT
                        ![id].lifecycle = "Active",
                        ![id].activationGeneration = ev.generation]
  /\ OnlyReservationsChange

\* A mutant of Remaining: each consumption is measured against the whole.
WholeQuantity(r) == r.quantity

Remaining(r) == r.quantity - r.consumed

\* A mutant of NewConsumption: a duplicate consumes again.
RepeatedConsumption(r, g) == g >= r.consumptionGeneration

\* A consumption generation equal to the last one is a duplicate, a smaller
\* one is stale; neither changes anything.
NewConsumption(r, g) == g > r.consumptionGeneration

Consume(id, g, amount, ev) ==
  LET r == reservations[id] IN
  /\ Current(id, g)
  /\ r.lifecycle \in InUse
  /\ amount > 0
  /\ FreshEvidence(id, ev)
  /\ NewConsumption(r, ev.generation)
  /\ amount <= Remaining(r)
  /\ reservations' = [reservations EXCEPT
       ![id].consumed = @ + amount,
       ![id].consumptionGeneration = ev.generation,
       ![id].lifecycle = IF r.consumed + amount = r.quantity
                         THEN "Consumed" ELSE "PartiallyConsumed"]
  /\ OnlyReservationsChange

\* The envelopes without the contribution of id.
EnvelopesWithout(id) ==
  [envelopes EXCEPT ![reservations[id].resource] =
     Withdraw(@, reservations[id])]

\* r disengaged for good: its contribution goes with it.
Disengage(r, l) == [r EXCEPT !.lifecycle = l, !.contributesEnvelope = FALSE]

Release(id, g, ev) ==
  /\ Current(id, g)
  /\ reservations[id].lifecycle \notin Disengaged
  /\ FreshEvidence(id, ev)
  /\ ev.generation >= reservations[id].releaseGeneration
  /\ envelopes' = EnvelopesWithout(id)
  /\ reservations' = [reservations EXCEPT ![id] =
       [Disengage(@, "Released") EXCEPT !.releaseGeneration = ev.generation]]
  /\ UNCHANGED <<epoch, authority, resources, workerBoots,
                 requestToReservation, currentGen, history, holds,
                 nextReservationId>>

Cancel(id, g) ==
  /\ Current(id, g)
  /\ reservations[id].lifecycle \notin Disengaged
  /\ envelopes' = EnvelopesWithout(id)
  /\ reservations' = [reservations EXCEPT ![id] = Disengage(@, "Cancelled")]
  /\ UNCHANGED <<epoch, authority, resources, workerBoots,
                 requestToReservation, currentGen, history, holds,
                 nextReservationId>>

Due(now) ==
  {id \in ReservationId : HoldsCapacity(id)
                          /\ reservations[id].window.end < now}

ExpireDue(now) ==
  LET due == Due(now)
      leaving(r) == {id \in due : /\ reservations[id].resource = r
                                  /\ reservations[id].contributesEnvelope}
  IN  /\ reservations' = [id \in ReservationId |->
                            IF id \in due
                            THEN Disengage(reservations[id], "Expired")
                            ELSE reservations[id]]
      /\ envelopes' = [r \in ResourceId |->
                         IF envelopes[r] = None THEN None
                         ELSE AddAll(envelopes[r], leaving(r), -1)]
      /\ UNCHANGED <<epoch, authority, resources, workerBoots,
                     requestToReservation, currentGen, history, holds,
                     nextReservationId>>

-----------------------------------------------------------------------------
(* Modification, renewal, transfer: each makes the next generation.        *)

\* A mutant of Archive: a full history drops the newest generation.
ArchiveOldest(id) ==
  LET longer == Append(history[id],
                       [reservations[id] EXCEPT !.contributesEnvelope = FALSE])
  IN  IF Len(longer) > MaxHistory THEN SubSeq(longer, 1, MaxHistory) ELSE longer

\* The history of id with its current generation archived.
Archive(id) ==
  LET longer == Append(history[id],
                       [reservations[id] EXCEPT !.contributesEnvelope = FALSE])
  IN  IF Len(longer) > MaxHistory THEN Tail(longer) ELSE longer

\* A mutant of Supersede: the current generation is rewritten.
RewriteGeneration(id, r) ==
  /\ history' = [history EXCEPT ![id] = Archive(id)]
  /\ currentGen' = currentGen
  /\ reservations' = [reservations EXCEPT ![id] =
       [r EXCEPT !.lifecycle = "Committed", !.activationGeneration = 0]]

\* r becomes the next generation of id, Committed again.
Supersede(id, r) ==
  /\ currentGen[id] < MaxGeneration
  /\ history' = [history EXCEPT ![id] = Archive(id)]
  /\ currentGen' = [currentGen EXCEPT ![id] = @ + 1]
  /\ reservations' = [reservations EXCEPT ![id] =
       [r EXCEPT !.generation = currentGen[id] + 1,
                 !.lifecycle = "Committed",
                 !.activationGeneration = 0]]

OnlyGenerationsChange ==
  UNCHANGED <<epoch, authority, resources, workerBoots, requestToReservation,
              holds, nextReservationId>>

\* A mutant of Modify: what was asked is put back, not what was withdrawn.
ModifyAsAsked(id, r, w) ==
  LET old  == reservations[id]
      home == old.resource
      bare == Withdraw(envelopes[home], old)
  IN
  IF Headroom(bare, old.strength, w) < r.quantity
  THEN /\ envelopes' = [envelopes EXCEPT ![home] =
                          AddCommitted(bare, old.strength, w, r.quantity)]
       /\ reservations' = [reservations EXCEPT ![id].contributesEnvelope =
                             TRUE]
       /\ UNCHANGED <<currentGen, history>>
  ELSE /\ envelopes' = [envelopes EXCEPT ![home] = bare]
       /\ Supersede(id, [r EXCEPT !.contributesEnvelope = TRUE])

\* Resize and renew first withdraw the contribution of id.  When what is
\* asked does not fit they put it back, applied or not before.  When it fits,
\* the new generation is marked applied before the add, which is then skipped.
Modify(id, r, w) ==
  LET old  == reservations[id]
      home == old.resource
      bare == Withdraw(envelopes[home], old)
  IN
  IF Headroom(bare, old.strength, w) < r.quantity
  THEN /\ envelopes' = [envelopes EXCEPT ![home] =
                          AddCommitted(bare, old.strength, old.window,
                                       old.quantity)]
       /\ reservations' = [reservations EXCEPT ![id].contributesEnvelope =
                             TRUE]
       /\ UNCHANGED <<currentGen, history>>
  ELSE /\ envelopes' = [envelopes EXCEPT ![home] = bare]
       /\ Supersede(id, [r EXCEPT !.contributesEnvelope = TRUE])

Resize(id, g, quantity, policy) ==
  /\ Current(id, g)
  /\ quantity > 0
  /\ policy >= reservations[id].policyGeneration
  /\ Modify(id, [reservations[id] EXCEPT !.quantity = quantity,
                                         !.policyGeneration = policy,
                                         !.consumed = 0],
            reservations[id].window)
  /\ OnlyGenerationsChange

Renew(id, g, w, policy) ==
  /\ Current(id, g)
  /\ policy >= reservations[id].policyGeneration
  /\ Modify(id, [reservations[id] EXCEPT !.window = w,
                                         !.policyGeneration = policy], w)
  /\ OnlyGenerationsChange

Transfer(id, g, owner, ev) ==
  /\ Current(id, g)
  /\ reservations[id].transferAllowed
  /\ FreshEvidence(id, ev)
  /\ Supersede(id, [reservations[id] EXCEPT !.owner = owner])
  /\ UNCHANGED envelopes
  /\ OnlyGenerationsChange

-----------------------------------------------------------------------------
(* What any caller may do, and what only an undisciplined one does.        *)

Generations == 1..MaxGeneration

Everyday ==
  \/ \E e \in 1..MaxAuthority : SetCoordinatorEpoch(e)
  \/ \E p \in Publications : RevalidateResource(p)
  \/ \E r \in ResourceId : InvalidateResource(r)
  \/ \E r \in ResourceId, g \in ResourceGenerations, available \in BOOLEAN :
       AdvanceResourceGeneration(r, g, available)
  \/ \E h \in HoldId, spec \in HoldSpecs : ReleaseHold(h, spec.holdGeneration)
  \/ \E now \in Instant : ExpireHolds(now)
  \/ \E id \in ReservationId, g \in Generations, ev \in Evidence, at \in Time :
       Activate(id, g, ev, at)
  \/ \E id \in ReservationId, g \in Generations, amount \in ConsumeAmounts,
        ev \in Evidence : Consume(id, g, amount, ev)
  \/ \E id \in ReservationId, g \in Generations, ev \in Evidence :
       Release(id, g, ev)
  \/ \E id \in ReservationId, g \in Generations : Cancel(id, g)
  \/ \E now \in Instant : ExpireDue(now)

\* Every operation, called in any order with any input.
Next ==
  \/ Everyday
  \/ \E p \in Publications : PublishResource(p)
  \/ \E spec \in HoldSpecs, r \in ResourceId, now \in HoldClock :
       CreateHold(spec, r, now)
  \/ \E q \in Requests, r \in ResourceId, h \in HoldId \cup {None} :
       Commit(q, r, h)
  \/ \E id \in ReservationId, g \in Generations : ActivateStale(id, g)
  \/ \E id \in ReservationId, g \in Generations, quantity \in NewQuantities,
        policy \in PolicyGenerations : Resize(id, g, quantity, policy)
  \/ \E id \in ReservationId, g \in Generations, w \in NewWindows,
        policy \in PolicyGenerations : Renew(id, g, w, policy)
  \/ \E id \in ReservationId, g \in Generations, owner \in NewOwners,
        ev \in Evidence : Transfer(id, g, owner, ev)

Spec == Init /\ [][Next]_vars

\* The callers for whom the capacity accounting is exact.  They
\*  - publish a resource once, and refresh it by revalidation;
\*  - never reuse a hold id;
\*  - ask for full quantities only;
\*  - activate and transfer only what still holds capacity;
\*  - neither resize nor renew.
\* README.md tells what fails without each clause, and UndisciplinedCallers
\* drops them one at a time.
DisciplinedNext ==
  \/ Everyday
  \/ \E p \in Publications :
       (resources[p.id] = None \/ OldNews(p)) /\ PublishResource(p)
  \/ \E spec \in HoldSpecs, r \in ResourceId, now \in HoldClock :
       holds[spec.holdId] = None /\ CreateHold(spec, r, now)
  \/ \E q \in Requests, r \in ResourceId, h \in HoldId \cup {None} :
       ~q.partialAllowed /\ Commit(q, r, h)
  \/ \E id \in ReservationId, g \in Generations :
       HoldsCapacity(id) /\ ActivateStale(id, g)
  \/ \E id \in ReservationId, g \in Generations, owner \in NewOwners,
        ev \in Evidence : HoldsCapacity(id) /\ Transfer(id, g, owner, ev)

DisciplinedSpec == Init /\ [][DisciplinedNext]_vars

-----------------------------------------------------------------------------
(* Properties of the runtime under the disciplined callers.                *)

\* Every variable keeps its type.
TypeOK ==
  /\ epoch \in Nat /\ authority \in Nat
  /\ resources \in [ResourceId -> Resource \cup {None}]
  /\ envelopes \in [ResourceId -> Envelope \cup {None}]
  /\ workerBoots \in [Worker -> Nat]
  /\ requestToReservation \in [RequestId -> ReservationId \cup {None}]
  /\ reservations \in [ReservationId -> Reservation \cup {None}]
  /\ currentGen \in [ReservationId -> Nat]
  /\ history \in [ReservationId -> Seq(Reservation)]
  /\ holds \in [HoldId -> Hold \cup {None}]
  /\ nextReservationId \in Nat \ {0}

\* At every instant an envelope covers, the hard reservations that hold
\* capacity and the live holds together never ask for more than the capacity
\* of that instant (README: HARD reservations are never overbooked).
NeverOverbooked ==
  \A r \in ResourceId : envelopes[r] # None =>
    \A t \in Span(envelopes[r]) :
      LoadAt(Commitments(r), "Hard", t) + HeldAt(LiveHolds(r), t)
        <= envelopes[r].cap[t]

\* The envelope, a query index, says what the registry says: its hard, soft
\* and held columns are the sums over the reservations that hold capacity and
\* over the live holds (the comment on class CapacityEnvelope).
EnvelopeMirrorsRegistry ==
  \A r \in ResourceId : envelopes[r] # None =>
    \A t \in Span(envelopes[r]) :
      /\ envelopes[r].hard[t] = LoadAt(Commitments(r), "Hard", t)
      /\ envelopes[r].soft[t] = LoadAt(Commitments(r), "Soft", t)
      /\ envelopes[r].held[t] = HeldAt(LiveHolds(r), t)

\* Whether q fits into r beside what the registry says is promised there.
Fits(q, r) ==
  \A t \in CellsOf(envelopes[r], q.window) :
    LET hard == LoadAt(Commitments(r), "Hard", t) + HeldAt(LiveHolds(r), t)
        all  == hard + LoadAt(Commitments(r), "Soft", t)
    IN  IF q.strength = "Hard" THEN hard + q.quantity <= envelopes[r].cap[t]
        ELSE all + q.quantity <= SoftLimit(envelopes[r], t)

\* The headroom admission goes by passes exactly the requests that fit: none
\* that the registry has no room for, and every one it has room for, so what
\* was given back, by whatever call, can be promised again at once.
AdmissionExact ==
  \A q \in Requests, r \in ResourceId :
    envelopes[r] # None /\ q.quantity <= NoLimit =>
      (HeadroomOn(r, q.strength, q.window) >= q.quantity <=> Fits(q, r))

\* Every record refers to something that is there.
Anchored ==
  /\ \A r \in ResourceId : resources[r] = None <=> envelopes[r] = None
  /\ \A id \in ReservationId : Exists(id) => ResourceOf(id) # None
  /\ \A h \in HoldId : holds[h] # None => resources[holds[h].resource] # None

\* The next reservation id has not been used.
IdsFresh ==
  \A id \in ReservationId : id > nextReservationId => ~Exists(id)

\* A reservation is marked applied to its envelope exactly while it holds
\* capacity, a hold exactly while it is acquired: the flags that guard every
\* add and every remove never go out of step with the lifecycle.
FlagsFollowClaims ==
  /\ \A id \in ReservationId : Exists(id) =>
       (reservations[id].contributesEnvelope <=> HoldsCapacity(id))
  /\ \A h \in HoldId : holds[h] # None =>
       (holds[h].appliedToEnvelope <=> holds[h].state = "Acquired")

\* What every step of a disciplined caller preserves, and NeverOverbooked
\* needs: admission reads the envelope, so the envelope has to be right; the
\* envelope stays right because each flag says whether a share is in it; and
\* a new id must not cover a live reservation.
AccountingInvariant ==
  /\ Anchored
  /\ IdsFresh
  /\ FlagsFollowClaims
  /\ EnvelopeMirrorsRegistry
  /\ NeverOverbooked

\* No operation consults the transition table, and several skip states of it:
\* activate takes Committed to Active, release takes Active to Released.  For
\* disciplined callers they only take short cuts: within a generation, the
\* lifecycle goes where some path of the table leads (comment on
\* can_transition), and what was released or cancelled goes nowhere.
ShortCutsOnly ==
  [][\A id \in ReservationId : Exists(id) =>
       \/ reservations'[id].generation # reservations[id].generation
       \/ reservations'[id].lifecycle \in Reach[reservations[id].lifecycle]]_vars

-----------------------------------------------------------------------------
(* Properties of the runtime under any caller.                             *)

\* No reservation is in use on a resource that is not available: whatever
\* fences the resource also suspends its users, in the same step.
InUseOnlyOnAvailable ==
  \A id \in ReservationId :
    Exists(id) /\ reservations[id].lifecycle \in InUse =>
      ResourceOf(id) # None /\ ResourceOf(id).available

\* What has been consumed never exceeds the promise, through consumption,
\* resize, renewal and transfer; the lifecycle tells how much is left.
ConsumptionWithinPromise ==
  \A id \in ReservationId : Exists(id) =>
    LET r == reservations[id] IN
    /\ r.consumed <= r.quantity
    /\ r.lifecycle = "Consumed" => Remaining(r) = 0
    /\ r.lifecycle = "PartiallyConsumed" => r.consumed \in 1..(r.quantity - 1)

\* The current record carries the current generation, and the history holds
\* the MaxHistory generations just before it, in order and not applied to any
\* envelope, so that a query by generation finds each of them.
HistoryContiguous ==
  \A id \in ReservationId : Exists(id) =>
    LET g == reservations[id].generation
        n == Len(history[id])
    IN  /\ currentGen[id] = g
        /\ n = (IF g - 1 < MaxHistory THEN g - 1 ELSE MaxHistory)
        /\ \A i \in 1..n : /\ history[id][i].generation = g - n + i - 1
                           /\ ~history[id][i].contributesEnvelope

\* The terms of a promise.
Terms(r) ==
  <<r.strength, r.resource, r.quantity, r.window, r.owner, r.policyGeneration,
    r.request>>

\* A generation is immutable: terms change only with the next generation, and
\* a generation once left never comes back (the comment on Reservation).
GenerationsImmutable ==
  [][\A id \in ReservationId : Exists(id) =>
       /\ reservations'[id] # None
       /\ \/ /\ reservations'[id].generation = reservations[id].generation
             /\ Terms(reservations'[id]) = Terms(reservations[id])
          \/ reservations'[id].generation = reservations[id].generation + 1]_vars

\* A resize or renewal asked of a reservation that is in its envelope, and
\* refused, changes nothing: its contribution, withdrawn before the headroom is
\* read, is back, on the same terms, and there is no new generation.  This is
\* so of any caller, also when the envelope was wrong before.
RefusedModificationChangesNothing ==
  [][\A id \in ReservationId, g \in Generations :
       /\ Exists(id) /\ reservations[id].contributesEnvelope
       /\ currentGen'[id] = currentGen[id]
       /\ \/ \E quantity \in NewQuantities, policy \in PolicyGenerations :
               Resize(id, g, quantity, policy)
          \/ \E w \in NewWindows, policy \in PolicyGenerations :
               Renew(id, g, w, policy)
       => UNCHANGED vars]_vars

\* Every piece of consumption evidence counts once: consumption rises only with
\* a consumption generation never seen before, even across resize, renewal and
\* transfer, and within a generation it never falls (README: duplicate
\* consumption is idempotent).
ConsumedOncePerEvidence ==
  [][\A id \in ReservationId : Exists(id) =>
       LET old == reservations[id]
           new == reservations'[id]
       IN  /\ new.consumptionGeneration >= old.consumptionGeneration
           /\ new.consumed > old.consumed =>
                new.consumptionGeneration > old.consumptionGeneration
           /\ new.generation = old.generation => new.consumed >= old.consumed]_vars

Owns(w, r) == resources[r] # None /\ resources[r].owner = w

\* Once a worker has owned a resource with some boot id, it never owns it with
\* an older one, also when other workers owned it in between: what a process
\* that was replaced publishes late does not make it the owner again.
OwnerBootNeverRegresses ==
  \A r \in ResourceId, w \in Worker, b \in {p.workerBoot : p \in Publications} :
    [](Owns(w, r) /\ resources[r].ownerBoot = b =>
         [](Owns(w, r) => resources[r].ownerBoot >= b))

=============================================================================
