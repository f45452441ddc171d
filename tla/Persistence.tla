---------------------------- MODULE Persistence ----------------------------
(***************************************************************************)
(* Save, crash and load of the reservation runtime.                        *)
(*                                                                         *)
(* save holds the runtime's lock, truncates the only copy and writes it    *)
(* again, so a process that dies in between leaves a torn file.  load      *)
(* refuses a torn file (length and checksum), and builds a new runtime     *)
(* from a whole one.  Sets and their counters are saved and restored like  *)
(* the rest and left out here, as no operation reads them outside a        *)
(* bundle, which runs under the same lock.                                 *)
(***************************************************************************)
EXTENDS ReservationRuntime

CONSTANTS
  MaxSaves,    \* bound: saves begun
  MaxCrashes   \* bound: processes that died

ASSUME PersistenceAssumption == MaxSaves \in Nat /\ MaxCrashes \in Nat

VARIABLES
  file,       \* None, or what was written and whether all of it was
  saving,     \* a save is between truncation and its last byte
  up,         \* a process is there
  saves, crashes,
  durable,    \* history: the registry at the last save that was completed
  suspended   \* history: generations in use when they were saved, loaded,
              \* and not revalidated since

diskVars == <<file, saving, up, saves, crashes, durable, suspended>>

-----------------------------------------------------------------------------
(* What is written.                                                        *)

\* What of an envelope is written: neither its cells nor its capacities.
Layout ==
  [r \in ResourceId |->
     IF envelopes[r] = None THEN None
     ELSE [from |-> envelopes[r].from, ratio |-> envelopes[r].ratio]]

Image ==
  [epoch |-> epoch, authority |-> authority, resources |-> resources,
   layout |-> Layout, workerBoots |-> workerBoots,
   requestToReservation |-> requestToReservation,
   reservations |-> reservations, currentGen |-> currentGen,
   history |-> history, holds |-> holds,
   nextReservationId |-> nextReservationId]

\* The promises on record, apart from how far each has got.
Registry ==
  <<currentGen, history, requestToReservation, nextReservationId, holds,
    [id \in ReservationId |->
       IF Exists(id)
       THEN LET r == reservations[id]
            IN  <<r.generation, Terms(r), r.consumed, r.consumptionGeneration,
                  r.releaseGeneration, r.lifecycle \in CapacityHolding>>
       ELSE None]>>

PersistenceInit ==
  /\ Init
  /\ file = None /\ saving = FALSE /\ up = TRUE
  /\ saves = 0 /\ crashes = 0
  /\ durable = None /\ suspended = {}

-----------------------------------------------------------------------------
(* Saving.                                                                 *)

\* save opens the file, which empties it, and starts to write.
BeginSave ==
  /\ up /\ ~saving
  /\ saves < MaxSaves
  /\ saves' = saves + 1
  /\ saving' = TRUE
  /\ file' = [whole |-> FALSE, image |-> Image]
  /\ UNCHANGED <<vars, up, crashes, durable, suspended>>

EndSave ==
  /\ saving
  /\ saving' = FALSE
  /\ file' = [whole |-> TRUE, image |-> file.image]
  /\ durable' = Registry
  /\ UNCHANGED <<vars, up, saves, crashes, suspended>>

\* A write fails (also unnoticed, when the stream is flushed): the process
\* goes on and the file stays torn.
FailSave ==
  /\ saving
  /\ saving' = FALSE
  /\ UNCHANGED <<vars, file, up, saves, crashes, durable, suspended>>

-----------------------------------------------------------------------------
(* Crash and recovery.                                                     *)

\* The memory of a process that has just started.
ClearMemory ==
  /\ epoch' = 1 /\ authority' = 1
  /\ resources' = [r \in ResourceId |-> None]
  /\ envelopes' = [r \in ResourceId |-> None]
  /\ workerBoots' = [w \in Worker |-> 0]
  /\ requestToReservation' = [q \in RequestId |-> None]
  /\ reservations' = [id \in ReservationId |-> None]
  /\ currentGen' = [id \in ReservationId |-> 0]
  /\ history' = [id \in ReservationId |-> <<>>]
  /\ holds' = [h \in HoldId |-> None]
  /\ nextReservationId' = 1

Crash ==
  /\ up
  /\ crashes < MaxCrashes
  /\ crashes' = crashes + 1
  /\ ClearMemory
  /\ up' = FALSE /\ saving' = FALSE
  /\ suspended' = {}
  /\ UNCHANGED <<file, saves, durable>>

\* Every window in the image i is one that Interval's constructor makes again.
Readable(i) ==
  /\ \A id \in ReservationId :
       /\ i.reservations[id] # None => Lasting(i.reservations[id].window)
       /\ \A n \in 1..Len(i.history[id]) : Lasting(i.history[id][n].window)
  /\ \A h \in HoldId : i.holds[h] # None => Lasting(i.holds[h].window)

\* A mutant of Loadable: length and checksum are not looked at.
LoadableAsIs == file # None /\ Readable(file.image)

\* The checks of load: header, length and checksum, and those the constructors
\* of what it reads make.
Loadable == file # None /\ file.whole /\ Readable(file.image)

\* A mutant of Reapplied: the saved flag decides, as it does at runtime.
ReappliedByFlag(r) ==
  [r EXCEPT !.lifecycle = IF @ \in InUse THEN "RevalidationRequired" ELSE @]

\* A mutant of Reapplied: a partly consumed reservation goes on.
ReappliedInPart(r) ==
  [r EXCEPT !.contributesEnvelope = r.lifecycle \in CapacityHolding,
            !.lifecycle = IF @ \in {"Active", "Consumed"}
                          THEN "RevalidationRequired" ELSE @]

\* reapplyAfterLoad on one reservation: its lifecycle, not its flag, says
\* whether it is applied, and nothing stays in use.
Reapplied(r) ==
  [r EXCEPT !.contributesEnvelope = r.lifecycle \in CapacityHolding,
            !.lifecycle = IF @ \in InUse THEN "RevalidationRequired" ELSE @]

AppliedHolds(r) == {h \in LiveHolds(r) : holds[h].appliedToEnvelope}

\* reapplyAfterLoad on the envelope e of r: what the registry claims of r.
WithClaims(e, r) ==
  [AddAll(e, Commitments(r), 1) EXCEPT
     !.held = [t \in Time |-> IF t \in Span(e)
                              THEN HeldAt(AppliedHolds(r), t) ELSE 0]]

\* The envelope load makes for resource r: of its whole capacity, since the
\* unavailable windows it was published with are not in the file.
EmptyEnvelope(r) ==
  NewEnvelope(file.image.layout[r].from, file.image.layout[r].ratio,
              file.image.resources[r].totalCapacity, {})

\* load, followed by reapplyAfterLoad over the registry just read.
Load ==
  /\ ~up
  /\ Loadable
  /\ up' = TRUE
  /\ UNCHANGED <<file, saving, saves, crashes, durable>>
  /\ epoch' = file.image.epoch /\ authority' = file.image.authority
  /\ resources' = file.image.resources
  /\ workerBoots' = file.image.workerBoots
  /\ requestToReservation' = file.image.requestToReservation
  /\ currentGen' = file.image.currentGen
  /\ history' = file.image.history
  /\ holds' = file.image.holds
  /\ nextReservationId' = file.image.nextReservationId
  /\ reservations' =
       [id \in ReservationId |->
          IF file.image.reservations[id] = None THEN None
          ELSE Reapplied(file.image.reservations[id])]
  /\ envelopes' =
       [r \in ResourceId |->
          IF file.image.resources[r] = None THEN None
          ELSE WithClaims(EmptyEnvelope(r), r)']
  /\ suspended' =
       {<<id, file.image.reservations[id].generation>> :
          id \in {i \in ReservationId :
                    /\ file.image.reservations[i] # None
                    /\ file.image.reservations[i].lifecycle \in InUse}}

\* load refuses: the operator starts an empty runtime.
StartEmpty ==
  /\ ~up
  /\ ~Loadable
  /\ up' = TRUE
  /\ UNCHANGED <<vars, file, saving, saves, crashes, durable, suspended>>

Restarting ==
  \/ BeginSave \/ EndSave \/ FailSave
  \/ Crash \/ Load \/ StartEmpty

\* A runtime operation waits for the lock while a save has it.
Running ==
  /\ up /\ ~saving
  /\ suspended' =
       {s \in suspended :
          ~\E p \in Publications : /\ p.id = reservations[s[1]].resource
                                   /\ RevalidateResource(p)}
  /\ UNCHANGED <<file, saving, up, saves, crashes, durable>>

PersistenceSpec ==
  PersistenceInit /\ [][(Next /\ Running) \/ Restarting]_<<vars, diskVars>>

\* The same with the callers for whom the accounting is exact.
DisciplinedPersistenceSpec ==
  PersistenceInit
  /\ [][(DisciplinedNext /\ Running) \/ Restarting]_<<vars, diskVars>>

-----------------------------------------------------------------------------
(* Properties.                                                             *)

\* Whatever the callers did to the accounting before, the runtime that load
\* returns has exact envelopes, and flags that follow the claims, so that
\* everything is given back once from there on (reapplyAfterLoad).
RestartHeals ==
  [][Load => EnvelopeMirrorsRegistry' /\ FlagsFollowClaims']_<<vars, diskVars>>

\* A generation that was in use when it was saved is in use again only after
\* a worker has revalidated its resource, also when it was partly consumed
\* (README: recovery never restores Active status without current physical
\* evidence).
SuspendedUntilRevalidated ==
  \A s \in suspended :
    reservations[s[1]].generation = s[2] =>
      reservations[s[1]].lifecycle \notin InUse

\* What is loaded is the registry of the last save that was completed, with
\* every promise, its consumption and its history: never that of a save that
\* was cut short.
RecoversLastSave == [][Load => Registry' = durable]_<<vars, diskVars>>

=============================================================================
