------------------------------- MODULE Bundle -------------------------------
(***************************************************************************)
(* commitBundle over the reservation runtime.  The operation runs under    *)
(* the runtime's lock from beginning to end; here each member's turn is a  *)
(* step of its own, and while a bundle is under way nothing else moves.    *)
(* Its holds and its commits are those of the runtime (acquireHoldLocked,  *)
(* commitOneLocked), so the steps are the runtime's actions.               *)
(***************************************************************************)
EXTENDS ReservationRuntime

CONSTANTS
  Bundles,         \* the bundles callers choose from: sequences of requests
  LastBundleHold   \* bound: bundles draw the hold ids 2..LastBundleHold

ASSUME BundleAssumption ==
  /\ Bundles \subseteq Seq(Request)
  /\ LastBundleHold \in 1..LastHoldId

VARIABLES
  bundle,      \* None, or the bundle under way
  nextHoldId,  \* the runtime's own counter of hold ids
  sets         \* the members of each bundle committed

bundleVars == <<bundle, nextHoldId, sets>>

\* What reservations and holds take from every resource.
Claims ==
  [live     |-> {id \in ReservationId : HoldsCapacity(id)},
   acquired |-> UNION {LiveHolds(r) : r \in ResourceId},
   taken    |-> envelopes]

BundleInit ==
  /\ Init
  /\ bundle = None
  /\ nextHoldId = 1
  /\ sets = {}

-----------------------------------------------------------------------------
\* commitBundle starts when every member is admissible by itself; otherwise
\* it answers at once.  held are the holds taken and not returned, made the
\* reservations committed and not rolled back; before is a history field.
BeginBundle(members) ==
  /\ bundle = None
  /\ nextHoldId + Len(members) <= LastBundleHold
  /\ nextReservationId + Len(members) <= LastReservationId
  /\ \A i \in DOMAIN members : \E r \in ResourceId : Admissible(members[i], r)
  /\ bundle' = [members |-> members, held |-> <<>>, made |-> <<>>,
                aborting |-> FALSE, before |-> Claims]
  /\ UNCHANGED <<vars, nextHoldId, sets>>

Advancing == bundle # None /\ ~bundle.aborting
Aborting == bundle # None /\ bundle.aborting

Holding == Advancing /\ Len(bundle.held) < Len(bundle.members)

Committing ==
  /\ Advancing
  /\ Len(bundle.held) = Len(bundle.members)
  /\ Len(bundle.made) < Len(bundle.members)

\* The provisional hold of the member whose turn it is.
MemberHold ==
  LET m == bundle.members[Len(bundle.held) + 1]
  IN  [holdId |-> nextHoldId + 1, holdGeneration |-> 1,
       resourceClass |-> m.resourceClass, quantity |-> m.quantity,
       window |-> m.window, commitAuthority |-> TRUE]

TakeHold(r, now) ==
  /\ Holding
  /\ CreateHold(MemberHold, r, now)
  /\ nextHoldId' = nextHoldId + 1
  /\ bundle' = [bundle EXCEPT !.held = Append(@, nextHoldId + 1)]
  /\ UNCHANGED sets

\* A member finds no hold: those taken are to be returned.
RefuseHold ==
  /\ Holding
  /\ \A r \in ResourceId : ~Holdable(MemberHold, r)
  /\ nextHoldId' = nextHoldId + 1
  /\ bundle' = [bundle EXCEPT !.aborting = TRUE]
  /\ UNCHANGED <<vars, sets>>

\* The request and the hold of the member to be committed next.
NextMember == bundle.members[Len(bundle.made) + 1]
NextHold == bundle.held[Len(bundle.made) + 1]

CommitMember(r) ==
  /\ Committing
  /\ Commit(NextMember, r, NextHold)
  /\ bundle' = [bundle EXCEPT !.made = Append(@, nextReservationId + 1)]
  /\ UNCHANGED <<nextHoldId, sets>>

\* A mutant of Unredeemed: the hold of the member that failed is forgotten.
UnredeemedAfterNext(b) == SubSeq(b.held, Len(b.made) + 2, Len(b.held))

\* A mutant of Unredeemed: every hold is to be returned, the redeemed ones too.
RedeemedToo(b) == b.held

\* The holds of b no member has redeemed.
Unredeemed(b) == SubSeq(b.held, Len(b.made) + 1, Len(b.held))

\* A mutant of RefuseMember: a hold that does not match is overlooked.
RefuseInadmissible ==
  /\ Committing
  /\ \A r \in ResourceId : ~Admissible(NextMember, r)
  /\ bundle' = [bundle EXCEPT !.aborting = TRUE, !.held = Unredeemed(bundle)]
  /\ UNCHANGED <<vars, nextHoldId, sets>>

\* commitOneLocked, which assesses the member again with the bundle's own
\* holds in place, refuses it.
RefuseMember ==
  /\ Committing
  /\ \A r \in ResourceId : ~(Admissible(NextMember, r) /\ Redeemable(NextHold, r))
  /\ bundle' = [bundle EXCEPT !.aborting = TRUE, !.held = Unredeemed(bundle)]
  /\ UNCHANGED <<vars, nextHoldId, sets>>

Complete == Advancing /\ Len(bundle.made) = Len(bundle.members)

FinishBundle ==
  /\ Complete
  /\ sets' = sets \cup {bundle.made}
  /\ bundle' = None
  /\ UNCHANGED <<vars, nextHoldId>>

\* The rollback: each member committed is cancelled, each hold returned.
UndoMember ==
  /\ Aborting
  /\ bundle.made # <<>>
  /\ Cancel(Head(bundle.made), reservations[Head(bundle.made)].generation)
  /\ bundle' = [bundle EXCEPT !.made = Tail(@)]
  /\ UNCHANGED <<nextHoldId, sets>>

ReturnHold ==
  /\ Aborting
  /\ bundle.made = <<>> /\ bundle.held # <<>>
  /\ ReleaseHold(Head(bundle.held), 1)
  /\ bundle' = [bundle EXCEPT !.held = Tail(@)]
  /\ UNCHANGED <<nextHoldId, sets>>

RolledBack == Aborting /\ bundle.made = <<>> /\ bundle.held = <<>>

EndAbort ==
  /\ RolledBack
  /\ bundle' = None
  /\ UNCHANGED <<vars, nextHoldId, sets>>

BundleStep ==
  \/ \E r \in ResourceId, now \in HoldClock : TakeHold(r, now)
  \/ RefuseHold
  \/ \E r \in ResourceId : CommitMember(r)
  \/ RefuseMember
  \/ FinishBundle
  \/ UndoMember
  \/ ReturnHold
  \/ EndAbort

\* Disciplined callers leave the bundles' hold ids alone and put no partial
\* request in a bundle.
BundleNext ==
  \/ /\ bundle = None
     /\ DisciplinedNext
     /\ \A h \in 2..LastBundleHold : holds[h] = None => holds'[h] = None
     /\ UNCHANGED bundleVars
  \/ \E members \in Bundles :
       /\ \A i \in DOMAIN members : ~members[i].partialAllowed
       /\ BeginBundle(members)
  \/ BundleStep

\* The thread in commitBundle holds the lock and runs on.
BundleSpec ==
  /\ BundleInit
  /\ [][BundleNext]_<<vars, bundleVars>>
  /\ WF_<<vars, bundleVars>>(BundleStep)

-----------------------------------------------------------------------------
(* Properties.                                                             *)

\* A bundle commits all of its members or none.  When it has rolled back, the
\* same reservations and the same holds have claims as when it began, and
\* every envelope is as it was (README: the accounting returns exactly to the
\* pre-request baseline).  When it has committed, it holds exactly one reservation more
\* for each member, of the whole quantity, and no hold of its own.
AllOrNothing ==
  /\ RolledBack => Claims = bundle.before
  /\ Complete =>
       LET made == bundle.made IN
       /\ Claims.live = bundle.before.live \cup {made[i] : i \in DOMAIN made}
       /\ Claims.acquired = bundle.before.acquired
       /\ \A i \in DOMAIN bundle.members :
            /\ made[i] \notin bundle.before.live
            /\ reservations[made[i]].request = bundle.members[i].requestId
            /\ reservations[made[i]].quantity = bundle.members[i].quantity
            /\ reservations[made[i]].window = bundle.members[i].window

\* The rollback passes over nothing.  commitBundle skips a member whose record
\* is gone or has no contribution, releaseHoldLocked a hold that is gone or
\* redeemed, released or expired already, and neither says so: had one been
\* skipped, its capacity would stay taken.  But each reservation to be taken
\* back still holds capacity and is in its envelope, each hold to be returned
\* is the bundle's own, still acquired and applied, and none is met twice.
RollbackSkipsNothing ==
  Aborting =>
    /\ \A i \in DOMAIN bundle.made :
         LET id == bundle.made[i] IN
         /\ HoldsCapacity(id) /\ reservations[id].contributesEnvelope
         /\ \A j \in DOMAIN bundle.made : bundle.made[j] = id => j = i
    /\ \A i \in DOMAIN bundle.held :
         LET h == bundle.held[i] IN
         /\ holds[h] # None
         /\ holds[h].holdGeneration = 1
         /\ holds[h].state = "Acquired" /\ holds[h].appliedToEnvelope
         /\ \A j \in DOMAIN bundle.held : bundle.held[j] = h => j = i

\* Every bundle begun is ended, committed or rolled back, whatever its
\* members meet: no case is left in which commitBundle has no way on.
BundleEnds == bundle # None ~> bundle = None

\* Once every member has its hold, every member can be committed (the comment
\* in commitBundle: holds guarantee capacity, so this succeeds).
HoldsGuaranteeCapacity ==
  Committing => \E r \in ResourceId : /\ Admissible(NextMember, r)
                                      /\ Redeemable(NextHold, r)

=============================================================================
