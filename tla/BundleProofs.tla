---------------------------- MODULE BundleProofs ----------------------------
(***************************************************************************)
(* The accounting of the runtime when callers commit bundles too.  Each    *)
(* turn of commitBundle is an operation of the runtime, so the lemmas of   *)
(* ReservationRuntimeProofs apply; what is left to show is that a bundle   *)
(* calls them as a disciplined caller does: its hold ids are new (Unused), *)
(* and its members are requests for full quantities (MembersFull).         *)
(*                                                                         *)
(* All or nothing.  A bundle keeps account of what is its own: whatever    *)
(* holds capacity did so before it or is a reservation it made or a hold   *)
(* it owes, and these are apart (OwnReservations, OwnHolds).  A rollback   *)
(* takes them away one by one.  That the envelopes come back too is not a  *)
(* matter of undoing: they are exact after every turn, and those the       *)
(* bundle began with are the load of what was there before (Remembered).   *)
(*                                                                         *)
(* Since a turn is a step the runtime knows (RuntimeStep), a runtime with  *)
(* bundles also implements the ledger and keeps what RuntimeSafetyProofs   *)
(* shows of it; and since each turn leaves fewer (TurnsLeft), and the      *)
(* rollback is never held up, no bundle goes on for ever.                  *)
(***************************************************************************)
EXTENDS RuntimeLedgerProofs, RuntimeSafetyProofs, Bundle

USE RuntimeAssumption, BundleAssumption

\* The hold ids the counter has not reached have no hold.
Unused ==
  /\ nextHoldId \in Nat \ {0}
  /\ \A h \in HoldId :
       h > nextHoldId /\ h <= LastBundleHold => holds[h] = None

\* What a bundle remembers of the state before it.
Baseline ==
  [live : SUBSET ReservationId, acquired : SUBSET HoldId,
   taken : [ResourceId -> Envelope \cup {None}]]

BundleRecord ==
  [members : Seq(Request), held : Seq(HoldId), made : Seq(ReservationId),
   aborting : BOOLEAN, before : Baseline]

\* The members of a bundle are for full quantities, and there is a hold id
\* left for each that has none.
MembersFull ==
  bundle # None =>
    /\ bundle \in BundleRecord
    /\ \A i \in DOMAIN bundle.members : ~bundle.members[i].partialAllowed
    /\ bundle.aborting \/
         nextHoldId + Len(bundle.members) - Len(bundle.held) <= LastBundleHold

BundleInv == IInv /\ Unused /\ MembersFull

\* The sequence operations a bundle uses.
LEMMA AppendLaw ==
  ASSUME NEW S, NEW s \in Seq(S), NEW x \in S
  PROVE  /\ Append(s, x) \in Seq(S) /\ Len(Append(s, x)) = Len(s) + 1
         /\ DOMAIN Append(s, x) = 1..(Len(s) + 1)
         /\ \A i \in 1..Len(s) : Append(s, x)[i] = s[i]
         /\ Append(s, x)[Len(s) + 1] = x
OBVIOUS

\* What is left of a sequence without its head.
LEMMA TailLaw ==
  ASSUME NEW S, NEW s \in Seq(S), s # <<>>
  PROVE  /\ Tail(s) \in Seq(S) /\ Len(Tail(s)) = Len(s) - 1
         /\ DOMAIN Tail(s) = 1..(Len(s) - 1)
         /\ \A i \in 1..(Len(s) - 1) : Tail(s)[i] = s[i + 1]
         /\ Head(s) = s[1] /\ Len(s) >= 1
OBVIOUS

\* What is left of it from the k-th element on.
LEMMA SubSeqLaw ==
  ASSUME NEW S, NEW s \in Seq(S), NEW k \in 1..(Len(s) + 1)
  PROVE  LET x == SubSeq(s, k, Len(s)) IN
         /\ x \in Seq(S) /\ Len(x) = Len(s) - k + 1
         /\ DOMAIN x = 1..(Len(s) - k + 1)
         /\ \A i \in 1..(Len(s) - k + 1) : x[i] = s[i + k - 1]
OBVIOUS

\* A bundle under way: its members, its holds and its reservations.
LEMMA BundleFields ==
  ASSUME BundleInv, bundle # None
  PROVE  /\ bundle \in BundleRecord
         /\ bundle.members \in Seq(Request) /\ Len(bundle.members) \in Nat
         /\ DOMAIN bundle.members = 1..Len(bundle.members)
         /\ \A i \in DOMAIN bundle.members :
              /\ bundle.members[i] \in Request
              /\ ~bundle.members[i].partialAllowed
         /\ bundle.held \in Seq(HoldId) /\ Len(bundle.held) \in Nat
         /\ bundle.made \in Seq(ReservationId) /\ Len(bundle.made) \in Nat
         /\ nextHoldId \in Nat \ {0}
         /\ bundle.aborting \/
              nextHoldId + Len(bundle.members) - Len(bundle.held) <= LastBundleHold
BY DEF BundleInv, MembersFull, BundleRecord, Unused

\* The bound of the bundles' hold ids is a number.
LEMMA LastBundleInt == LastBundleHold \in Int
OBVIOUS

\* Nothing is under way at first.
LEMMA BundleInvInit == BundleInit => BundleInv
<1> SUFFICES ASSUME BundleInit PROVE BundleInv
  OBVIOUS
<1>1. IInv
  BY InvariantInit DEF BundleInit
<1>2. Unused
  BY DEF BundleInit, Init, Unused
<1>3. MembersFull
  BY DEF BundleInit, MembersFull
<1> QED BY <1>1, <1>2, <1>3 DEF BundleInv

\* While no bundle is under way callers do what they did without bundles.
LEMMA CallersKeep ==
  ASSUME BundleInv, bundle = None, DisciplinedNext, UNCHANGED bundleVars,
         \A h \in 2..LastBundleHold : holds[h] = None => holds'[h] = None
  PROVE  BundleInv'
<1>1. IInv'
  BY InvariantNext DEF BundleInv
<1>2. nextHoldId' = nextHoldId /\ bundle' = None
  BY DEF bundleVars
<1>3. Unused'
  <2>1. \A h \in HoldId : h > nextHoldId => h >= 2 /\ h \in Nat
    BY DEF BundleInv, Unused, HoldId
  <2> QED BY <1>2, <2>1 DEF BundleInv, Unused
<1>4. MembersFull'
  BY <1>2 DEF MembersFull
<1> QED BY <1>1, <1>3, <1>4 DEF BundleInv

\* A bundle begins with no hold and room for one per member.
LEMMA BeginBundleKeeps ==
  ASSUME BundleInv, NEW members \in Bundles, BeginBundle(members),
         \A i \in DOMAIN members : ~members[i].partialAllowed
  PROVE  BundleInv'
<1> DEFINE b == [members |-> members, held |-> <<>>, made |-> <<>>,
                 aborting |-> FALSE, before |-> Claims]
<1>1. /\ UNCHANGED vars /\ nextHoldId' = nextHoldId /\ holds' = holds
      /\ bundle' = b
      /\ nextHoldId + Len(members) <= LastBundleHold
  BY DEF BeginBundle, vars
<1>2. IInv'
  BY <1>1, InvariantStutter DEF BundleInv
<1>3. Unused'
  BY <1>1 DEF BundleInv, Unused
<1>4. members \in Seq(Request) /\ Len(members) \in Nat
  OBVIOUS
<1>5. MembersFull'
  <2>1. /\ b.members = members /\ b.held = <<>> /\ b.made = <<>>
        /\ ~b.aborting
    OBVIOUS
  <2>4. b \in BundleRecord
    <3>1. Claims \in Baseline
      BY DEF BundleInv, IInv, TypeInv, TypeOK, Claims, Baseline, LiveHolds
    <3> QED BY <1>4, <3>1 DEF BundleRecord
  <2>2. nextHoldId \in Nat
    BY DEF BundleInv, Unused
  <2>3. Len(<<>>) = 0 /\ <<>> \in Seq(HoldId) /\ <<>> \in Seq(ReservationId)
    OBVIOUS
  <2> HIDE DEF b
  <2> QED BY <1>1, <1>4, <2>1, <2>2, <2>3, <2>4 DEF MembersFull
<1> QED BY <1>2, <1>3, <1>5 DEF BundleInv

\* The hold of the member whose turn it is has a new id.
LEMMA MemberHoldNew ==
  ASSUME BundleInv, Holding
  PROVE  /\ MemberHold \in HoldSpec
         /\ MemberHold.holdId = nextHoldId + 1
         /\ nextHoldId + 1 \in HoldId
         /\ nextHoldId + 1 <= LastBundleHold
         /\ holds[nextHoldId + 1] = None
<1> DEFINE i == Len(bundle.held) + 1
           m == bundle.members[i]
<1>1. bundle # None /\ ~bundle.aborting /\ Len(bundle.held) < Len(bundle.members)
  BY DEF Holding, Advancing
<1>2. i \in DOMAIN bundle.members
  BY <1>1, BundleFields
<1>3. m \in Request
  BY <1>1, <1>2, BundleFields
<1>4. nextHoldId + 1 <= LastBundleHold /\ nextHoldId + 1 \in HoldId
  <2>1. /\ nextHoldId \in Nat /\ Len(bundle.held) \in Nat
        /\ Len(bundle.members) \in Nat /\ LastBundleHold \in 1..LastHoldId
        /\ nextHoldId + Len(bundle.members) - Len(bundle.held) <= LastBundleHold
    BY <1>1, BundleFields
  <2> QED BY <1>1, <2>1 DEF HoldId
<1>5. holds[nextHoldId + 1] = None
  <2>1. nextHoldId + 1 > nextHoldId
    BY <1>1, BundleFields
  <2> QED BY <1>4, <2>1 DEF BundleInv, Unused
<1>6. /\ m.resourceClass \in ResourceClass /\ m.quantity \in Int
      /\ m.window \in Window
  BY <1>3 DEF Request
<1>7. MemberHold = [holdId |-> nextHoldId + 1, holdGeneration |-> 1,
                    resourceClass |-> m.resourceClass, quantity |-> m.quantity,
                    window |-> m.window, commitAuthority |-> TRUE]
  BY DEF MemberHold
<1> HIDE DEF m
<1> QED BY <1>4, <1>5, <1>6, <1>7 DEF HoldSpec

\* A member takes its hold.
LEMMA TakeHoldKeeps ==
  ASSUME BundleInv, NEW r \in ResourceId, NEW now \in HoldClock,
         TakeHold(r, now)
  PROVE  BundleInv'
<1> DEFINE h == nextHoldId + 1
<1>1. /\ Holding /\ CreateHold(MemberHold, r, now) /\ nextHoldId' = h
      /\ bundle' = [bundle EXCEPT !.held = Append(@, h)]
  BY DEF TakeHold
<1>2. bundle # None /\ ~bundle.aborting /\ Len(bundle.held) < Len(bundle.members)
  BY <1>1 DEF Holding, Advancing
<1>3. /\ MemberHold \in HoldSpec /\ MemberHold.holdId = h /\ h \in HoldId
      /\ h <= LastBundleHold /\ holds[h] = None
  BY <1>1, MemberHoldNew
<1>4. TypeInv'
  BY <1>1, <1>3, CreateHoldTypes DEF BundleInv, IInv
<1>5. IInv'
  BY <1>1, <1>3, <1>4, CreateHoldKeeps DEF BundleInv
<1>6. Unused'
  <2>1. \A k \in HoldId : k # h => holds'[k] = holds[k]
    BY <1>1, <1>3 DEF CreateHold, BundleInv, IInv, TypeInv, TypeOK
  <2>2. \A k \in HoldId : k > h => k # h /\ k > nextHoldId
    BY <1>2, BundleFields DEF HoldId
  <2>3. h \in Nat \ {0}
    BY <1>2, BundleFields
  <2> QED BY <1>1, <2>1, <2>2, <2>3 DEF BundleInv, Unused
<1>7. MembersFull'
  <2>1. /\ bundle'.members = bundle.members /\ bundle'.made = bundle.made
        /\ bundle'.aborting = bundle.aborting
        /\ bundle'.held = Append(bundle.held, h)
        /\ bundle' \in BundleRecord
    <3>1. Append(bundle.held, h) \in Seq(HoldId)
      BY <1>2, <1>3, BundleFields
    <3> QED BY <1>1, <1>2, <3>1, BundleFields DEF BundleRecord
  <2>2. Len(Append(bundle.held, h)) = Len(bundle.held) + 1
    BY <1>2, <1>3, BundleFields
  <2>3. /\ nextHoldId \in Nat /\ Len(bundle.held) \in Nat
        /\ Len(bundle.members) \in Nat
        /\ nextHoldId + Len(bundle.members) - Len(bundle.held) <= LastBundleHold
    BY <1>2, BundleFields
  <2>6. LastBundleHold \in Int
    BY LastBundleInt
  <2>4. nextHoldId' + Len(bundle'.members) - Len(bundle'.held) <= LastBundleHold
    <3>1. nextHoldId' = nextHoldId + 1
      BY <1>1
    <3>2. /\ Len(bundle'.members) = Len(bundle.members)
          /\ Len(bundle'.held) = Len(bundle.held) + 1
      BY <2>1, <2>2
    <3>3. nextHoldId + 1 + Len(bundle.members) - (Len(bundle.held) + 1)
            <= LastBundleHold
      <4>1. \A a, b, c \in Nat, d \in Int :
              a + b - c <= d => a + 1 + b - (c + 1) <= d
        OBVIOUS
      <4> QED BY <2>3, <2>6, <4>1
    <3> QED BY <3>1, <3>2, <3>3
  <2>5. \A i \in DOMAIN bundle'.members : ~bundle'.members[i].partialAllowed
    BY <1>2, <2>1, BundleFields
  <2> QED BY <2>1, <2>4, <2>5 DEF MembersFull
<1> QED BY <1>5, <1>6, <1>7 DEF BundleInv

\* What a turn without a new hold leaves as it was.
LEMMA SameHoldIds ==
  ASSUME BundleInv, bundle # None, nextHoldId' = nextHoldId,
         \A h \in HoldId : holds[h] = None => holds'[h] = None,
         bundle' \in BundleRecord, bundle'.members = bundle.members,
         \/ bundle'.aborting
         \/ bundle'.held = bundle.held /\ bundle'.aborting = bundle.aborting
  PROVE  Unused' /\ MembersFull'
<1>1. Unused'
  BY DEF BundleInv, Unused
<1>2. \A i \in DOMAIN bundle'.members : ~bundle'.members[i].partialAllowed
  BY BundleFields
<1>3. bundle'.aborting \/
        nextHoldId' + Len(bundle'.members) - Len(bundle'.held) <= LastBundleHold
  BY BundleFields
<1> QED BY <1>1, <1>2, <1>3 DEF MembersFull

\* A member that finds no hold has the bundle rolled back; its id is spent.
LEMMA RefuseHoldKeeps ==
  ASSUME BundleInv, RefuseHold
  PROVE  BundleInv'
<1>1. /\ bundle # None /\ nextHoldId' = nextHoldId + 1 /\ UNCHANGED vars
      /\ holds' = holds
      /\ bundle' = [bundle EXCEPT !.aborting = TRUE]
  BY DEF RefuseHold, Holding, Advancing, vars
<1>2. IInv'
  BY <1>1, InvariantStutter DEF BundleInv
<1>3. Unused'
  <2>1. nextHoldId \in Nat
    BY <1>1, BundleFields
  <2>2. \A h \in HoldId : h > nextHoldId + 1 => h > nextHoldId
    BY <2>1 DEF HoldId
  <2> QED BY <1>1, <2>1, <2>2 DEF BundleInv, Unused
<1>4. MembersFull'
  <2>1. /\ bundle' \in BundleRecord /\ bundle'.aborting
        /\ bundle'.members = bundle.members
    BY <1>1, BundleFields DEF BundleRecord
  <2> QED BY <1>1, <2>1, BundleFields DEF MembersFull
<1> QED BY <1>2, <1>3, <1>4 DEF BundleInv

\* The member to be committed next asks for its full quantity and has a hold.
LEMMA MemberDue ==
  ASSUME BundleInv, Committing
  PROVE  /\ NextMember \in Request /\ ~NextMember.partialAllowed
         /\ NextHold \in HoldId
<1> DEFINE i == Len(bundle.made) + 1
<1>1. /\ bundle # None /\ Len(bundle.held) = Len(bundle.members)
      /\ Len(bundle.made) < Len(bundle.members)
  BY DEF Committing, Advancing
<1>2. i \in DOMAIN bundle.members /\ i \in DOMAIN bundle.held
  BY <1>1, BundleFields
<1>3. /\ bundle.members[i] \in Request /\ ~bundle.members[i].partialAllowed
      /\ bundle.held \in Seq(HoldId)
  BY <1>1, <1>2, BundleFields
<1>4. bundle.held[i] \in HoldId
  BY ONLY <1>2, <1>3
<1> QED BY ONLY <1>3, <1>4 DEF NextMember, NextHold, i

\* A member is committed with its hold.
LEMMA CommitMemberKeeps ==
  ASSUME BundleInv, NEW r \in ResourceId, CommitMember(r)
  PROVE  BundleInv'
<1> DEFINE i == Len(bundle.made) + 1
           id == nextReservationId + 1
<1>1. /\ bundle # None /\ Len(bundle.held) = Len(bundle.members)
      /\ Len(bundle.made) < Len(bundle.members)
      /\ Commit(NextMember, r, NextHold) /\ nextHoldId' = nextHoldId
      /\ bundle' = [bundle EXCEPT !.made = Append(@, id)]
  BY DEF CommitMember, Committing, Advancing
<1>2. i \in DOMAIN bundle.members /\ i \in DOMAIN bundle.held
  BY <1>1, BundleFields
<1>3. /\ NextMember \in Request /\ ~NextMember.partialAllowed
      /\ NextHold \in HoldId
  BY MemberDue DEF CommitMember
<1>4. TypeInv'
  BY <1>1, <1>3, CommitTypes DEF BundleInv, IInv
<1>5. IInv'
  BY <1>1, <1>3, <1>4, CommitKeeps DEF BundleInv
<1>6. \A h \in HoldId : holds[h] = None => holds'[h] = None
  <2>1. \/ holds' = holds
        \/ /\ holds[NextHold] # None
           /\ holds' = [holds EXCEPT ![NextHold] = GivenUp(@, "Committed")]
    BY <1>1, <1>3 DEF Commit, Redeemable
  <2> QED BY <1>3, <2>1 DEF BundleInv, IInv, TypeInv, TypeOK
<1>7. /\ bundle' \in BundleRecord /\ bundle'.members = bundle.members
      /\ bundle'.held = bundle.held /\ bundle'.aborting = bundle.aborting
  <2>1. id \in ReservationId
    BY <1>1 DEF Commit, BundleInv, IInv, TypeInv, TypeOK, ReservationId
  <2>2. Append(bundle.made, id) \in Seq(ReservationId)
    BY <1>1, <2>1, BundleFields
  <2> QED BY <1>1, <2>2, BundleFields DEF BundleRecord
<1> QED BY <1>1, <1>5, <1>6, <1>7, SameHoldIds DEF BundleInv

\* A member that cannot be committed has the bundle rolled back.
LEMMA RefuseMemberKeeps ==
  ASSUME BundleInv, RefuseMember
  PROVE  BundleInv'
<1>1. /\ bundle # None /\ Len(bundle.held) = Len(bundle.members)
      /\ Len(bundle.made) < Len(bundle.members)
      /\ nextHoldId' = nextHoldId /\ UNCHANGED vars /\ holds' = holds
      /\ bundle' = [bundle EXCEPT !.aborting = TRUE, !.held = Unredeemed(bundle)]
  BY DEF RefuseMember, Committing, Advancing, vars
<1>2. IInv'
  BY <1>1, InvariantStutter DEF BundleInv
<1>3. Unredeemed(bundle) \in Seq(HoldId)
  <2> DEFINE s == bundle.held
             k == Len(bundle.made) + 1
  <2>1. /\ s \in Seq(HoldId) /\ Len(s) \in Nat /\ Len(bundle.made) \in Nat
        /\ Len(bundle.made) < Len(s)
    BY <1>1, BundleFields
  <2>2. k \in 1..Len(s)
    BY <2>1
  <2>3. Unredeemed(bundle) = SubSeq(s, k, Len(s))
    BY DEF Unredeemed
  <2> HIDE DEF s, k
  <2> QED BY <2>1, <2>2, <2>3, SubSeqLaw
<1>4. /\ bundle' \in BundleRecord /\ bundle'.aborting
      /\ bundle'.members = bundle.members
  BY <1>1, <1>3, BundleFields DEF BundleRecord
<1> QED BY <1>1, <1>2, <1>4, SameHoldIds DEF BundleInv

\* The end of a bundle, committed or rolled back.
LEMMA EndKeeps ==
  ASSUME BundleInv, FinishBundle \/ EndAbort
  PROVE  BundleInv'
<1>1. /\ bundle' = None /\ nextHoldId' = nextHoldId /\ UNCHANGED vars
      /\ holds' = holds
  BY DEF FinishBundle, EndAbort, vars
<1>2. IInv'
  BY <1>1, InvariantStutter DEF BundleInv
<1> QED BY <1>1, <1>2 DEF BundleInv, Unused, MembersFull

\* A member committed before the failure is cancelled.
LEMMA UndoMemberKeeps ==
  ASSUME BundleInv, UndoMember
  PROVE  BundleInv'
<1> DEFINE id == Head(bundle.made)
<1>1. /\ bundle # None /\ bundle.aborting /\ bundle.made # <<>>
      /\ Cancel(id, reservations[id].generation)
      /\ nextHoldId' = nextHoldId
      /\ bundle' = [bundle EXCEPT !.made = Tail(@)]
  BY DEF UndoMember, Aborting
<1>2. id \in ReservationId /\ Tail(bundle.made) \in Seq(ReservationId)
  BY <1>1, BundleFields
<1>3. TypeInv'
  BY <1>1, <1>2, CancelTypes DEF BundleInv, IInv
<1>4. IInv'
  BY <1>1, <1>2, <1>3, CancelKeeps DEF BundleInv
<1>5. holds' = holds
  BY <1>1 DEF Cancel
<1>6. /\ bundle' \in BundleRecord /\ bundle'.aborting
      /\ bundle'.members = bundle.members
  BY <1>1, <1>2, BundleFields DEF BundleRecord
<1> QED BY <1>1, <1>4, <1>5, <1>6, SameHoldIds DEF BundleInv

\* A hold not redeemed is returned.
LEMMA ReturnHoldKeeps ==
  ASSUME BundleInv, ReturnHold
  PROVE  BundleInv'
<1> DEFINE h == Head(bundle.held)
<1>1. /\ bundle # None /\ bundle.aborting /\ bundle.held # <<>>
      /\ ReleaseHold(h, 1) /\ nextHoldId' = nextHoldId
      /\ bundle' = [bundle EXCEPT !.held = Tail(@)]
  BY DEF ReturnHold, Aborting
<1>2. h \in HoldId /\ Tail(bundle.held) \in Seq(HoldId)
  BY <1>1, BundleFields
<1>3. TypeInv'
  BY <1>1, <1>2, ReleaseHoldTypes DEF BundleInv, IInv
<1>4. IInv'
  BY <1>1, <1>2, <1>3, ReleaseHoldKeeps DEF BundleInv
<1>5. \A k \in HoldId : holds[k] = None => holds'[k] = None
  <2>1. holds[h] # None /\ holds' = [holds EXCEPT ![h] = GivenUp(@, "Released")]
    BY <1>1 DEF ReleaseHold
  <2> QED BY <1>2, <2>1 DEF BundleInv, IInv, TypeInv, TypeOK
<1>6. /\ bundle' \in BundleRecord /\ bundle'.aborting
      /\ bundle'.members = bundle.members
  BY <1>1, <1>2, BundleFields DEF BundleRecord
<1> QED BY <1>1, <1>4, <1>5, <1>6, SameHoldIds DEF BundleInv

\* Callers, and every turn of a bundle, preserve the invariant.
LEMMA BundleInvNext == BundleInv /\ [BundleNext]_<<vars, bundleVars>> => BundleInv'
<1> SUFFICES ASSUME BundleInv, [BundleNext]_<<vars, bundleVars>>
             PROVE  BundleInv'
  OBVIOUS
<1>1. CASE UNCHANGED <<vars, bundleVars>>
  <2>1. IInv'
    BY <1>1, InvariantStutter DEF BundleInv
  <2>2. UNCHANGED <<holds, bundle, nextHoldId>>
    BY <1>1 DEF vars, bundleVars
  <2> QED BY <2>1, <2>2 DEF BundleInv, Unused, MembersFull
<1>2. CASE BundleStep
  BY <1>2, TakeHoldKeeps, RefuseHoldKeeps, CommitMemberKeeps,
     RefuseMemberKeeps, EndKeeps, UndoMemberKeeps, ReturnHoldKeeps
  DEF BundleStep
<1>3. CASE BundleNext /\ ~BundleStep
  BY <1>3, CallersKeep, BeginBundleKeeps DEF BundleNext
<1> QED BY <1>1, <1>2, <1>3

\* Bundles keep the accounting exact after every turn, in the middle of their
\* holds, of their commits and of their rollback, not only when they end.
THEOREM BundleAccounting == BundleSpec => []AccountingInvariant
<1>1. BundleInv => AccountingInvariant
  BY InvariantParts DEF BundleInv
<1> QED BY BundleInvInit, BundleInvNext, <1>1, PTL DEF BundleSpec

-----------------------------------------------------------------------------
(* All or nothing.                                                         *)

\* The reservations the bundle has made, and the holds it has to redeem or to
\* return.
Ours == {bundle.made[i] : i \in DOMAIN bundle.made}

OwedFrom == IF bundle.aborting THEN 1 ELSE Len(bundle.made) + 1

Owed == {bundle.held[i] : i \in OwedFrom..Len(bundle.held)}

\* All holds come before all commitments.
InOrder ==
  ~bundle.aborting =>
    /\ Len(bundle.made) <= Len(bundle.held)
    /\ Len(bundle.held) <= Len(bundle.members)
    /\ Len(bundle.held) < Len(bundle.members) => Len(bundle.made) = 0

\* What holds capacity did so before the bundle or is the bundle's own.
OwnReservations ==
  /\ Claims.live = bundle.before.live \cup Ours
  /\ \A i \in DOMAIN bundle.made :
       /\ bundle.made[i] \notin bundle.before.live
       /\ \A j \in DOMAIN bundle.made : bundle.made[i] = bundle.made[j] => i = j

OwnHolds ==
  /\ Claims.acquired = bundle.before.acquired \cup Owed
  /\ \A i \in DOMAIN bundle.held :
       /\ bundle.held[i] \notin bundle.before.acquired
       /\ holds[bundle.held[i]] # None
       /\ \A j \in DOMAIN bundle.held : bundle.held[i] = bundle.held[j] => i = j

\* Each reservation made is for its member.
MadeFor(id, m) ==
  /\ reservations[id].request = m.requestId
  /\ reservations[id].quantity = m.quantity
  /\ reservations[id].window = m.window

MembersCommitted ==
  ~bundle.aborting =>
    \A i \in DOMAIN bundle.made : MadeFor(bundle.made[i], bundle.members[i])

\* f is e with another load within its span.
SameBeyond(f, e) ==
  /\ f.from = e.from /\ f.ratio = e.ratio /\ f.cap = e.cap
  /\ \A t \in Time \ Span(e) :
       f.hard[t] = e.hard[t] /\ f.soft[t] = e.soft[t] /\ f.held[t] = e.held[t]

\* What is claimed by what held capacity before the bundle.
LoadBefore(r, strength, t) ==
  LoadAt(Commitments(r) \cap bundle.before.live, strength, t)

HeldBefore(r, t) == HeldAt(LiveHolds(r) \cap bundle.before.acquired, t)

\* The envelopes the bundle began with say just that.
Remembered ==
  \A r \in ResourceId :
    LET e == bundle.before.taken[r] IN
    /\ e = None <=> envelopes[r] = None
    /\ e # None =>
         /\ SameBeyond(envelopes[r], e)
         /\ \A t \in Span(e) :
              /\ e.hard[t] = LoadBefore(r, "Hard", t)
              /\ e.soft[t] = LoadBefore(r, "Soft", t)
              /\ e.held[t] = HeldBefore(r, t)

RollbackInv ==
  bundle # None =>
    InOrder /\ OwnReservations /\ OwnHolds /\ MembersCommitted /\ Remembered

\* The holds that reserve capacity on any resource.
Acquired == {h \in HoldId : holds[h] # None /\ holds[h].state = "Acquired"}

Registered ==
  /\ Claims.live = {id \in ReservationId : HoldsCapacity(id)}
  /\ Claims.acquired = Acquired
  /\ Claims.taken = envelopes

\* What Claims is.
LEMMA ClaimsNow == TypeInv => Registered
<1> SUFFICES ASSUME TypeInv PROVE Claims.acquired = Acquired
  BY DEF Claims, Registered
<1>1. \A h \in HoldId : holds[h] # None => holds[h].resource \in ResourceId
  BY DEF TypeInv, TypeOK, Hold
<1> QED BY <1>1 DEF Claims, LiveHolds, Acquired

\* And after a step.
LEMMA ClaimsNext == TypeInv' => Registered'
BY ClaimsNow, PTL

\* Every envelope changes within its span only.
EnvelopesMove ==
  \A r \in ResourceId :
    /\ envelopes'[r] = None <=> envelopes[r] = None
    /\ envelopes[r] # None => SameBeyond(envelopes'[r], envelopes[r])

\* What commitments, holds, and their withdrawal change.
LEMMA BeyondCommitted ==
  ASSUME NEW e \in Envelope, NEW strength, NEW w, NEW d \in Int
  PROVE  AddCommitted(e, strength, w, d) \in Envelope
         /\ SameBeyond(AddCommitted(e, strength, w, d), e)
<1> DEFINE x == AddCommitted(e, strength, w, d)
<1>1. x.from = e.from /\ x.held = e.held
  BY DEF AddCommitted, Envelope
<1>2. /\ x \in Envelope /\ x.ratio = e.ratio /\ x.cap = e.cap
      /\ \A t \in Time \ Span(e) : x.hard[t] = e.hard[t] /\ x.soft[t] = e.soft[t]
  BY AddCommittedLaw DEF CellsOf
<1> HIDE DEF x
<1>3. x \in Envelope /\ SameBeyond(x, e)
  BY <1>1, <1>2 DEF SameBeyond
<1> QED BY <1>3 DEF x

\* The same of holds.
LEMMA BeyondHeld ==
  ASSUME NEW e \in Envelope, NEW w, NEW d \in Int
  PROVE  AddHeld(e, w, d) \in Envelope /\ SameBeyond(AddHeld(e, w, d), e)
<1> DEFINE x == AddHeld(e, w, d)
<1>1. x.from = e.from /\ x.hard = e.hard /\ x.soft = e.soft
  BY DEF AddHeld, Envelope
<1>2. /\ x \in Envelope /\ x.ratio = e.ratio /\ x.cap = e.cap
      /\ \A t \in Time \ Span(e) : x.held[t] = e.held[t]
  BY AddHeldLaw DEF CellsOf
<1> HIDE DEF x
<1>3. x \in Envelope /\ SameBeyond(x, e)
  BY <1>1, <1>2 DEF SameBeyond
<1> QED BY <1>3 DEF x

\* One change after another.
LEMMA BeyondBoth ==
  ASSUME NEW e, NEW f, NEW g, SameBeyond(f, e), SameBeyond(g, f)
  PROVE  SameBeyond(g, e)
BY DEF SameBeyond, Span

\* Rewriting one envelope within its span.
LEMMA OneMoves ==
  ASSUME TypeInv, NEW home \in ResourceId, envelopes[home] # None,
         NEW f \in Envelope, envelopes' = [envelopes EXCEPT ![home] = f],
         SameBeyond(f, envelopes[home])
  PROVE  EnvelopesMove
<1>1. /\ envelopes'[home] = f /\ f # None
      /\ \A r \in ResourceId : r # home => envelopes'[r] = envelopes[r]
  BY DEF TypeInv, TypeOK
<1>2. \A r \in ResourceId : SameBeyond(envelopes[r], envelopes[r])
  BY DEF SameBeyond
<1> QED BY <1>1, <1>2 DEF EnvelopesMove

\* A turn that leaves alone what was there before is within the memory of it.
LEMMA RememberedStays ==
  ASSUME Remembered, EnvelopesMove, bundle'.before = bundle.before,
         bundle.before \in Baseline,
         \A id \in bundle.before.live : reservations'[id] = reservations[id],
         \A h \in bundle.before.acquired : holds'[h] = holds[h]
  PROVE  Remembered'
<1> DEFINE live == bundle.before.live
           acquired == bundle.before.acquired
<1>0. live \in SUBSET ReservationId /\ acquired \in SUBSET HoldId
  BY DEF Baseline
<1>1. ASSUME NEW r, NEW strength, NEW t
      PROVE  LoadBefore(r, strength, t)' = LoadBefore(r, strength, t)
  <2>1. Commitments(r)' \cap live = Commitments(r) \cap live
    BY <1>0 DEF Commitments, HoldsCapacity, Exists
  <2>2. \A id : Share(id, Commitments(r) \cap bundle.before.live, strength, t)' =
                  Share(id, Commitments(r) \cap bundle.before.live, strength, t)
    BY <2>1 DEF Share
  <2> QED BY <2>2 DEF LoadBefore, LoadAt
<1>2. ASSUME NEW r, NEW t
      PROVE  HeldBefore(r, t)' = HeldBefore(r, t)
  <2>1. LiveHolds(r)' \cap acquired = LiveHolds(r) \cap acquired
    BY <1>0 DEF LiveHolds
  <2>2. \A h : HoldShare(h, LiveHolds(r) \cap bundle.before.acquired, t)' =
                 HoldShare(h, LiveHolds(r) \cap bundle.before.acquired, t)
    BY <2>1 DEF HoldShare
  <2> QED BY <2>2 DEF HeldBefore, HeldAt
<1>3. ASSUME NEW r \in ResourceId, bundle.before.taken[r] # None
      PROVE  SameBeyond(envelopes'[r], bundle.before.taken[r])
  BY <1>3, BeyondBoth DEF Remembered, EnvelopesMove
<1>4. \A r \in ResourceId :
        bundle.before.taken[r] = None <=> envelopes'[r] = None
  BY DEF Remembered, EnvelopesMove
<1>5. ASSUME NEW r \in ResourceId, bundle.before.taken[r] # None,
             NEW t \in Span(bundle.before.taken[r])
      PROVE  LET e == bundle.before.taken[r] IN
             /\ e.hard[t] = LoadBefore(r, "Hard", t)'
             /\ e.soft[t] = LoadBefore(r, "Soft", t)'
             /\ e.held[t] = HeldBefore(r, t)'
  BY <1>1, <1>2, <1>5 DEF Remembered
<1> QED BY <1>3, <1>4, <1>5 DEF Remembered

\* While what holds capacity is what did before, memory and registry agree.
MemoryOfAll ==
  /\ bundle.before.live = Claims.live
  /\ bundle.before.acquired = Claims.acquired

MemoryAgrees ==
  \A r, strength, t :
    /\ LoadBefore(r, strength, t) = LoadAt(Commitments(r), strength, t)
    /\ HeldBefore(r, t) = HeldAt(LiveHolds(r), t)

\* The load of what was there before is then the load.
LEMMA MemoryNow == TypeInv /\ MemoryOfAll => MemoryAgrees
<1> SUFFICES ASSUME TypeInv, MemoryOfAll, NEW r, NEW strength, NEW t
             PROVE  /\ LoadBefore(r, strength, t) = LoadAt(Commitments(r), strength, t)
                    /\ HeldBefore(r, t) = HeldAt(LiveHolds(r), t)
  BY DEF MemoryAgrees
<1>1. Commitments(r) \cap bundle.before.live = Commitments(r)
  BY ClaimsNow DEF MemoryOfAll, Registered, Commitments
<1>2. LiveHolds(r) \cap bundle.before.acquired = LiveHolds(r)
  BY ClaimsNow DEF MemoryOfAll, Registered, LiveHolds, Acquired
<1> QED BY <1>1, <1>2 DEF LoadBefore, HeldBefore

\* And after a step.
LEMMA MemoryNext == TypeInv' /\ MemoryOfAll' => MemoryAgrees'
BY MemoryNow, PTL

\* A step that changes no registry leaves every claim as it was.
LEMMA ClaimsStay ==
  ASSUME TypeInv, TypeInv', UNCHANGED <<reservations, holds, envelopes>>
  PROVE  /\ Claims'.live = Claims.live /\ Claims'.acquired = Claims.acquired
         /\ Claims'.taken = Claims.taken
         /\ EnvelopesMove
<1>1. /\ \A id \in ReservationId : HoldsCapacity(id)' <=> HoldsCapacity(id)
      /\ Acquired' = Acquired
  BY DEF HoldsCapacity, Exists, Acquired
<1>2. EnvelopesMove
  BY DEF EnvelopesMove, SameBeyond
<1> QED BY <1>1, <1>2, ClaimsNow, ClaimsNext DEF Registered

\* A bundle begins with what there is.
LEMMA BeginRemembers ==
  ASSUME BundleInv, BundleInv', NEW members \in Bundles, BeginBundle(members)
  PROVE  RollbackInv'
<1>1. /\ UNCHANGED <<reservations, holds, envelopes>>
      /\ bundle'.members = members /\ bundle'.held = <<>> /\ bundle'.made = <<>>
      /\ ~bundle'.aborting /\ bundle'.before = Claims
  BY DEF BeginBundle, vars
<1>2. TypeInv /\ TypeInv' /\ Exactness'
  BY DEF BundleInv, IInv
<1>3. /\ Claims'.live = Claims.live /\ Claims'.acquired = Claims.acquired
      /\ Claims'.taken = Claims.taken
  BY <1>1, <1>2, ClaimsStay
<1>4. Len(members) \in Nat /\ Len(<<>>) = 0 /\ DOMAIN <<>> = {}
  OBVIOUS
<1>5. Ours' = {} /\ Owed' = {}
  BY <1>1, <1>4 DEF Ours, Owed, OwedFrom
<1>6. InOrder' /\ OwnReservations' /\ OwnHolds' /\ MembersCommitted'
  <2>1. InOrder'
    BY <1>1, <1>4 DEF InOrder
  <2>2. OwnReservations' /\ OwnHolds' /\ MembersCommitted'
    BY <1>1, <1>3, <1>4, <1>5 DEF OwnReservations, OwnHolds, MembersCommitted
  <2> QED BY <2>1, <2>2
<1>7. Remembered'
  <2>1. bundle'.before.taken = envelopes'
    BY <1>1, <1>2, <1>3, ClaimsNext DEF Registered
  <2>2. MemoryAgrees'
    BY <1>1, <1>2, <1>3, MemoryNext DEF MemoryOfAll
  <2>3. ASSUME NEW r \in ResourceId, envelopes'[r] # None,
               NEW t \in Span(envelopes'[r])
        PROVE  /\ envelopes'[r].hard[t] = LoadBefore(r, "Hard", t)'
               /\ envelopes'[r].soft[t] = LoadBefore(r, "Soft", t)'
               /\ envelopes'[r].held[t] = HeldBefore(r, t)'
    <3>1. Exact(r)'
      BY <1>2 DEF Exactness
    <3> QED BY <2>2, <2>3, <3>1 DEF Exact, MemoryAgrees
  <2>4. \A r \in ResourceId : SameBeyond(envelopes'[r], envelopes'[r])
    BY DEF SameBeyond
  <2> QED BY <2>1, <2>3, <2>4 DEF Remembered
<1> QED BY <1>6, <1>7 DEF RollbackInv

\* What every turn of a bundle starts from.
Turn ==
  /\ BundleInv /\ BundleInv' /\ TypeInv /\ TypeInv'
  /\ bundle # None /\ bundle \in BundleRecord
  /\ bundle.before \in Baseline
  /\ bundle.members \in Seq(Request) /\ DOMAIN bundle.members = 1..Len(bundle.members)
  /\ bundle.held \in Seq(HoldId) /\ DOMAIN bundle.held = 1..Len(bundle.held)
  /\ bundle.made \in Seq(ReservationId) /\ DOMAIN bundle.made = 1..Len(bundle.made)
  /\ bundle.before.live \subseteq Claims.live
  /\ bundle.before.acquired \subseteq Claims.acquired
  /\ InOrder /\ OwnReservations /\ OwnHolds /\ MembersCommitted /\ Remembered
  /\ Registered /\ Registered'

\* A bundle under way has all of this before its turn.
LEMMA TurnStarts ==
  ASSUME BundleInv, BundleInv', RollbackInv, bundle # None
  PROVE  Turn
<1>1. TypeInv /\ TypeInv'
  BY DEF BundleInv, IInv
<1>2. /\ bundle \in BundleRecord /\ bundle.before \in Baseline
      /\ bundle.members \in Seq(Request) /\ bundle.held \in Seq(HoldId)
      /\ bundle.made \in Seq(ReservationId)
  BY BundleFields DEF BundleRecord
<1>3. OwnReservations /\ OwnHolds
  BY DEF RollbackInv
<1>4. /\ bundle.before.live \subseteq Claims.live
      /\ bundle.before.acquired \subseteq Claims.acquired
  BY <1>3 DEF OwnReservations, OwnHolds
<1> QED BY <1>1, <1>2, <1>4, ClaimsNow, ClaimsNext DEF Turn, RollbackInv

\* A member that takes its hold owes it.
LEMMA TakeHoldRemembers ==
  ASSUME Turn, NEW r \in ResourceId, NEW now \in HoldClock, TakeHold(r, now)
  PROVE  RollbackInv'
<1> DEFINE h == nextHoldId + 1
           n == Len(bundle.held)
<1>1. /\ Holding /\ CreateHold(MemberHold, r, now)
      /\ ~bundle.aborting /\ n < Len(bundle.members)
      /\ bundle' = [bundle EXCEPT !.held = Append(@, h)]
  BY DEF TakeHold, Holding, Advancing
<1>2. /\ MemberHold \in HoldSpec /\ MemberHold.holdId = h /\ h \in HoldId
      /\ holds[h] = None
  BY <1>1, MemberHoldNew DEF Turn
<1>3. /\ reservations' = reservations
      /\ envelopes' = [envelopes EXCEPT ![r] =
                         AddHeld(@, MemberHold.window, MemberHold.quantity)]
      /\ resources[r] # None
      /\ holds'[h] # None /\ holds'[h].state = "Acquired"
      /\ \A k \in HoldId : k # h => holds'[k] = holds[k]
  <2>1. IInv /\ CreateHold(MemberHold, r, now) /\ MemberHold \in HoldSpec
    BY <1>1, <1>2 DEF Turn, BundleInv
  <2>2. /\ UNCHANGED reservations
        /\ envelopes' = [envelopes EXCEPT ![r] =
                           AddHeld(@, MemberHold.window, MemberHold.quantity)]
        /\ resources[r] # None
        /\ holds'[MemberHold.holdId] # None
        /\ holds'[MemberHold.holdId].state = "Acquired"
        /\ \A k \in HoldId : k # MemberHold.holdId => holds'[k] = holds[k]
    BY <2>1, HoldMakes
  <2> HIDE DEF h
  <2> QED BY <1>2, <2>2
<1>4. /\ bundle'.members = bundle.members /\ bundle'.made = bundle.made
      /\ bundle'.held = Append(bundle.held, h)
      /\ bundle'.aborting = bundle.aborting /\ bundle'.before = bundle.before
  BY <1>1 DEF Turn, BundleRecord
<1>5. /\ n \in Nat /\ Len(bundle.members) \in Nat
      /\ Len(bundle'.held) = n + 1 /\ DOMAIN bundle'.held = 1..(n + 1)
      /\ \A i \in 1..n : bundle'.held[i] = bundle.held[i]
      /\ bundle'.held[n + 1] = h
  BY <1>2, <1>4, AppendLaw DEF Turn
<1>6. Len(bundle.made) = 0
  BY <1>1 DEF Turn, InOrder
<1> HIDE DEF h, n
<1>7. InOrder' /\ MembersCommitted'
  <2>1. InOrder'
    BY <1>1, <1>4, <1>5, <1>6 DEF InOrder
  <2>2. DOMAIN bundle'.made = {}
    BY <1>4, <1>6 DEF Turn
  <2> QED BY <2>1, <2>2 DEF MembersCommitted
<1>8. OwnReservations'
  <2>1. Claims'.live = Claims.live
    BY <1>3 DEF Turn, Registered, HoldsCapacity, Exists
  <2>2. Ours' = Ours
    BY <1>4 DEF Ours
  <2> QED BY <1>4, <2>1, <2>2 DEF Turn, OwnReservations
<1>9. h \notin bundle.before.acquired /\ \A i \in 1..n : bundle.held[i] # h
  <2>1. h \notin Acquired
    BY <1>2 DEF Acquired
  <2> QED BY <1>2, <2>1 DEF Turn, Registered, OwnHolds, n
<1>10. OwnHolds'
  <2>1. Acquired' = Acquired \cup {h}
    BY <1>2, <1>3 DEF Acquired
  <2>2. Owed' = Owed \cup {h}
    <3>1. Owed = {bundle.held[i] : i \in 1..n}
      BY <1>1, <1>6 DEF Owed, OwedFrom, n
    <3>2. Owed' = {bundle'.held[i] : i \in 1..(n + 1)}
      <4>1. OwedFrom' = 1
        BY <1>1, <1>4, <1>6 DEF OwedFrom
      <4> QED BY <1>5, <4>1 DEF Owed
    <3>3. 1..(n + 1) = 1..n \cup {n + 1}
      BY <1>5
    <3> QED BY <1>5, <3>1, <3>2, <3>3
  <2>3. Claims'.acquired = bundle'.before.acquired \cup Owed'
    BY <1>4, <2>1, <2>2 DEF Turn, Registered, OwnHolds
  <2>4. \A i \in DOMAIN bundle'.held :
          /\ bundle'.held[i] \notin bundle'.before.acquired
          /\ holds'[bundle'.held[i]] # None
          /\ \A j \in DOMAIN bundle'.held : bundle'.held[i] = bundle'.held[j] => i = j
    <3>1. \A i \in 1..(n + 1) : i \in 1..n \/ i = n + 1
      BY <1>5
    <3>2. \A i \in 1..n :
            /\ i \in DOMAIN bundle.held /\ bundle.held[i] \in HoldId
            /\ bundle.held[i] \notin bundle.before.acquired
            /\ holds[bundle.held[i]] # None
            /\ \A j \in 1..n : bundle.held[i] = bundle.held[j] => i = j
      BY DEF Turn, OwnHolds, n
    <3> QED BY <1>3, <1>4, <1>5, <1>9, <3>1, <3>2
  <2> QED BY <2>3, <2>4 DEF OwnHolds
<1>11. EnvelopesMove
  <2> DEFINE e == envelopes[r]
             f == AddHeld(e, MemberHold.window, MemberHold.quantity)
  <2>1. e \in Envelope /\ e # None
    BY <1>3 DEF Turn, TypeInv, TypeOK, Anchored
  <2>2. MemberHold.quantity \in Int
    BY <1>2 DEF HoldSpec
  <2>3. f \in Envelope /\ SameBeyond(f, e)
    <3> HIDE DEF e
    <3> QED BY <2>1, <2>2, BeyondHeld
  <2>4. envelopes' = [envelopes EXCEPT ![r] = f]
    BY <1>3
  <2> HIDE DEF f
  <2> QED BY <2>1, <2>3, <2>4, OneMoves DEF Turn
<1>12. Remembered'
  BY <1>2, <1>3, <1>4, <1>9, <1>11, RememberedStays DEF Turn, Baseline
<1> QED BY <1>7, <1>8, <1>10, <1>12 DEF RollbackInv

\* A member that finds no hold ends the turns; what is owed stays owed.
LEMMA RefuseHoldRemembers ==
  ASSUME Turn, RefuseHold
  PROVE  RollbackInv'
<1>1. /\ Holding /\ ~bundle.aborting /\ Len(bundle.held) < Len(bundle.members)
      /\ UNCHANGED <<reservations, holds, envelopes>>
      /\ bundle' = [bundle EXCEPT !.aborting = TRUE]
  BY DEF RefuseHold, Holding, Advancing, vars
<1>2. /\ bundle'.held = bundle.held /\ bundle'.made = bundle.made
      /\ bundle'.aborting /\ bundle'.before = bundle.before
  BY <1>1 DEF Turn, BundleRecord
<1>3. Len(bundle.made) = 0
  BY <1>1 DEF Turn, InOrder
<1>4. /\ Claims'.live = Claims.live /\ Claims'.acquired = Claims.acquired
      /\ EnvelopesMove
  BY <1>1, ClaimsStay DEF Turn
<1>5. Ours' = Ours /\ Owed' = Owed
  BY <1>1, <1>2, <1>3 DEF Ours, Owed, OwedFrom
<1>6. OwnReservations' /\ OwnHolds' /\ InOrder' /\ MembersCommitted'
  <2>1. OwnReservations'
    BY <1>2, <1>4, <1>5 DEF Turn, OwnReservations
  <2>2. OwnHolds'
    <3>1. OwnHolds /\ holds' = holds
      BY <1>1 DEF Turn
    <3> QED BY <1>2, <1>4, <1>5, <3>1 DEF OwnHolds
  <2>3. InOrder' /\ MembersCommitted'
    BY <1>2 DEF InOrder, MembersCommitted
  <2> QED BY <2>1, <2>2, <2>3
<1>7. Remembered'
  BY <1>1, <1>2, <1>4, RememberedStays DEF Turn
<1> QED BY <1>6, <1>7 DEF RollbackInv

\* A member that cannot be committed leaves its hold to be returned.
LEMMA RefuseMemberRemembers ==
  ASSUME Turn, RefuseMember
  PROVE  RollbackInv'
<1> DEFINE k == Len(bundle.made) + 1
           n == Len(bundle.held)
<1>1. /\ ~bundle.aborting /\ n = Len(bundle.members) /\ k <= n
      /\ UNCHANGED <<reservations, holds, envelopes>>
      /\ bundle' = [bundle EXCEPT !.aborting = TRUE, !.held = Unredeemed(bundle)]
  <2>1. Len(bundle.made) \in Nat /\ n \in Nat
    BY DEF Turn
  <2> QED BY <2>1 DEF RefuseMember, Committing, Advancing, vars
<1>2. /\ bundle'.held = Unredeemed(bundle) /\ bundle'.made = bundle.made
      /\ bundle'.aborting /\ bundle'.before = bundle.before
  BY <1>1 DEF Turn, BundleRecord
<1>3. /\ k \in Nat \ {0} /\ n \in Nat
      /\ Len(bundle'.held) = n - k + 1 /\ DOMAIN bundle'.held = 1..(n - k + 1)
      /\ \A i \in 1..(n - k + 1) : bundle'.held[i] = bundle.held[i + k - 1]
  <2>1. bundle.held \in Seq(HoldId) /\ k \in 1..(Len(bundle.held) + 1)
    BY <1>1 DEF Turn
  <2>2. Unredeemed(bundle) = SubSeq(bundle.held, k, Len(bundle.held))
    BY DEF Unredeemed
  <2> HIDE DEF k
  <2> QED BY <1>2, <2>1, <2>2, SubSeqLaw
<1>4. /\ Claims'.live = Claims.live /\ Claims'.acquired = Claims.acquired
      /\ EnvelopesMove
  BY <1>1, ClaimsStay DEF Turn
<1>5. Ours' = Ours
  BY <1>2 DEF Ours
<1>6. OwedFrom = k /\ OwedFrom' = 1
  BY <1>1, <1>2 DEF OwedFrom
<1> HIDE DEF k, n
<1>7. \A i \in 1..(n - k + 1) : i + k - 1 \in k..n /\ i + k - 1 \in 1..n
  BY <1>3
<1>8. \A i \in k..n : i - k + 1 \in 1..(n - k + 1) /\ (i - k + 1) + k - 1 = i
  BY <1>3
<1>9. Owed' = Owed
  <2>1. Owed = {bundle.held[i] : i \in k..n}
    BY <1>6 DEF Owed, n
  <2>2. Owed' = {bundle'.held[i] : i \in 1..(n - k + 1)}
    BY <1>3, <1>6 DEF Owed
  <2>3. \A i \in k..n : bundle.held[i] = bundle'.held[i - k + 1]
    BY <1>3, <1>8
  <2>4. Owed \subseteq Owed'
    BY <1>8, <2>1, <2>2, <2>3
  <2>5. Owed' \subseteq Owed
    <3>1. \A i \in 1..(n - k + 1) : bundle'.held[i] = bundle.held[i + k - 1]
      BY <1>3
    <3> QED BY <1>7, <2>1, <2>2, <3>1
  <2> QED BY <2>4, <2>5
<1>10. OwnHolds'
  <2>1. \A i \in 1..n :
          /\ bundle.held[i] \notin bundle.before.acquired
          /\ holds[bundle.held[i]] # None
          /\ \A j \in 1..n : bundle.held[i] = bundle.held[j] => i = j
    BY DEF Turn, OwnHolds, n
  <2>2. \A i, j \in 1..(n - k + 1) : i + k - 1 = j + k - 1 => i = j
    BY <1>3
  <2>3. \A i \in DOMAIN bundle'.held :
          /\ bundle'.held[i] \notin bundle'.before.acquired
          /\ holds'[bundle'.held[i]] # None
          /\ \A j \in DOMAIN bundle'.held : bundle'.held[i] = bundle'.held[j] => i = j
    <3>1. ASSUME NEW i \in 1..(n - k + 1)
          PROVE  /\ bundle'.held[i] \notin bundle'.before.acquired
                 /\ holds'[bundle'.held[i]] # None
      <4>1. holds' = holds
        BY <1>1
      <4>2. i + k - 1 \in 1..n /\ bundle'.held[i] = bundle.held[i + k - 1]
        BY <1>3, <1>7
      <4> QED BY <1>2, <2>1, <4>1, <4>2
    <3>2. ASSUME NEW i \in 1..(n - k + 1), NEW j \in 1..(n - k + 1),
                 bundle'.held[i] = bundle'.held[j]
          PROVE  i = j
      <4>1. bundle.held[i + k - 1] = bundle.held[j + k - 1]
        BY <1>3, <3>2
      <4>2. i + k - 1 = j + k - 1
        BY <1>7, <2>1, <4>1
      <4> QED BY <2>2, <4>2
    <3> QED BY <1>3, <3>1, <3>2
  <2> QED BY <1>2, <1>4, <1>9, <2>3 DEF Turn, OwnHolds
<1>11. OwnReservations' /\ InOrder' /\ MembersCommitted'
  BY <1>2, <1>4, <1>5 DEF Turn, OwnReservations, InOrder, MembersCommitted
<1>12. Remembered'
  BY <1>1, <1>2, <1>4, RememberedStays DEF Turn
<1> QED BY <1>10, <1>11, <1>12 DEF RollbackInv

\* A member committed is the bundle's own, and its hold no longer owed.
LEMMA CommitMemberRemembers ==
  ASSUME Turn, NEW r \in ResourceId, CommitMember(r)
  PROVE  RollbackInv'
<1> DEFINE m == Len(bundle.made)
           n == Len(bundle.held)
           q == NextMember
           h == NextHold
<1>1. /\ ~bundle.aborting /\ n = Len(bundle.members) /\ m < n
      /\ m \in Nat /\ n \in Nat
      /\ Commit(q, r, h)
      /\ bundle' = [bundle EXCEPT !.made = Append(@, nextReservationId + 1)]
  BY DEF Turn, CommitMember, Committing, Advancing
<1>2. /\ m + 1 \in 1..n /\ q = bundle.members[m + 1] /\ h = bundle.held[m + 1]
      /\ q \in Request /\ ~q.partialAllowed /\ h \in HoldId /\ h # None
  <2>1. m + 1 \in 1..n
    BY <1>1
  <2>2. bundle.members[m + 1] \in Request /\ ~bundle.members[m + 1].partialAllowed
    BY <1>1, <2>1, BundleFields DEF Turn
  <2>3. bundle.held[m + 1] \in HoldId
    BY <2>1 DEF Turn
  <2> QED BY <2>1, <2>2, <2>3 DEF NextMember, NextHold
<1> HIDE DEF q, h
<1>3. PICK id \in ReservationId : CommitsAs(q, r, h, id)
  BY <1>1, <1>2, CommitMakes DEF Turn, BundleInv
<1>4. /\ bundle'.members = bundle.members /\ bundle'.held = bundle.held
      /\ bundle'.made = Append(bundle.made, id)
      /\ bundle'.aborting = bundle.aborting /\ bundle'.before = bundle.before
  <2>1. id = nextReservationId + 1
    BY <1>1, <1>3 DEF Commit, CommitsAs
  <2> QED BY <1>1, <2>1 DEF Turn, BundleRecord
<1>5. /\ Len(bundle'.made) = m + 1 /\ DOMAIN bundle'.made = 1..(m + 1)
      /\ \A i \in 1..m : bundle'.made[i] = bundle.made[i]
      /\ bundle'.made[m + 1] = id
  BY <1>3, <1>4, AppendLaw DEF Turn
<1>6. /\ reservations[id] = None /\ HoldsCapacity(id)'
      /\ reservations'[id].request = q.requestId
      /\ reservations'[id].quantity = q.quantity
      /\ reservations'[id].window = q.window
      /\ \A k \in ReservationId : k # id => reservations'[k] = reservations[k]
      /\ holds[h] # None /\ holds[h].state = "Acquired" /\ holds[h].resource = r
      /\ holds[h].quantity \in Nat
      /\ holds'[h] # None /\ holds'[h].state # "Acquired"
      /\ \A k \in HoldId : k # h => holds'[k] = holds[k]
  BY <1>2, <1>3 DEF CommitsAs, HoldsCapacity, Exists
<1>7. /\ id \notin Claims.live
      /\ Claims'.live = Claims.live \cup {id}
      /\ Claims'.acquired = Claims.acquired \ {h}
  <2>1. \A k \in ReservationId : k # id => (HoldsCapacity(k)' <=> HoldsCapacity(k))
    BY <1>6 DEF HoldsCapacity, Exists
  <2>2. ~HoldsCapacity(id)
    BY <1>6 DEF HoldsCapacity, Exists
  <2>3. Acquired' = Acquired \ {h}
    BY <1>6 DEF Acquired
  <2> QED BY <1>3, <1>6, <2>1, <2>2, <2>3 DEF Turn, Registered
<1> HIDE DEF m, n
<1>8. 1..(m + 1) = 1..m \cup {m + 1} /\ m + 1 \notin 1..m
  BY <1>1
<1>9. \A i \in 1..m : /\ bundle.made[i] \in Claims.live /\ bundle.made[i] # id
                      /\ bundle.made[i] \in ReservationId
  <2>1. \A i \in 1..m : bundle.made[i] \in Claims.live /\ bundle.made[i] \in ReservationId
    BY DEF Turn, OwnReservations, Ours, m
  <2> QED BY <1>7, <2>1
<1>10. OwnReservations'
  <2>1. Ours' = Ours \cup {id}
    <3>1. Ours = {bundle.made[i] : i \in 1..m}
      BY DEF Turn, Ours, m
    <3>2. Ours' = {bundle'.made[i] : i \in 1..(m + 1)}
      BY <1>5 DEF Ours
    <3> QED BY <1>5, <1>8, <3>1, <3>2
  <2>2. \A i \in 1..m :
          /\ bundle.made[i] \notin bundle.before.live
          /\ \A j \in 1..m : bundle.made[i] = bundle.made[j] => i = j
    BY DEF Turn, OwnReservations, m
  <2>3. id \notin bundle.before.live
    BY <1>7 DEF Turn
  <2>4. Claims'.live = bundle'.before.live \cup Ours'
    BY <1>4, <1>7, <2>1 DEF Turn, OwnReservations
  <2>5. \A i \in DOMAIN bundle'.made :
          /\ bundle'.made[i] \notin bundle'.before.live
          /\ \A j \in DOMAIN bundle'.made : bundle'.made[i] = bundle'.made[j] => i = j
    BY <1>4, <1>5, <1>8, <1>9, <2>2, <2>3
  <2> QED BY <2>4, <2>5 DEF OwnReservations
<1>11. \A i \in 1..n :
         /\ bundle.held[i] \in HoldId /\ bundle.held[i] \notin bundle.before.acquired
         /\ holds[bundle.held[i]] # None
         /\ \A j \in 1..n : bundle.held[i] = bundle.held[j] => i = j
  BY DEF Turn, OwnHolds, n
<1>12. OwnHolds'
  <2>1. Owed = Owed' \cup {h} /\ h \notin Owed'
    <3>1. Owed = {bundle.held[i] : i \in (m + 1)..n}
      BY <1>1 DEF Owed, OwedFrom, m, n
    <3>2. Owed' = {bundle.held[i] : i \in (m + 2)..n}
      <4>1. OwedFrom' = m + 2
        <5>1. (m + 1) + 1 = m + 2
          BY <1>1
        <5> QED BY <1>1, <1>4, <1>5, <5>1 DEF OwedFrom
      <4> QED BY <1>4, <4>1 DEF Owed, n
    <3>3. /\ (m + 1)..n = {m + 1} \cup (m + 2)..n
          /\ m + 1 \notin (m + 2)..n
          /\ (m + 1)..n \subseteq 1..n
      <4>1. \A x, y \in Nat : x < y =>
              /\ (x + 1)..y = {x + 1} \cup (x + 2)..y
              /\ x + 1 \notin (x + 2)..y
              /\ (x + 1)..y \subseteq 1..y
        OBVIOUS
      <4> HIDE DEF m, n
      <4> QED BY <1>1, <4>1
    <3>4. h = bundle.held[m + 1]
      BY <1>2
    <3> QED BY <1>2, <1>11, <3>1, <3>2, <3>3, <3>4
  <2>2. h \notin bundle.before.acquired
    BY <1>2, <1>11
  <2>3. Claims'.acquired = bundle'.before.acquired \cup Owed'
    BY <1>4, <1>7, <2>1, <2>2 DEF Turn, OwnHolds
  <2>4. \A k \in HoldId : holds[k] # None => holds'[k] # None
    BY <1>6
  <2>5. DOMAIN bundle'.held = 1..n
    BY <1>4 DEF Turn, n
  <2> QED BY <1>4, <1>11, <2>3, <2>4, <2>5 DEF OwnHolds
<1>13. InOrder'
  BY <1>1, <1>4, <1>5 DEF InOrder, n
<1>14. MembersCommitted'
  <2>1. \A i \in 1..m : MadeFor(bundle.made[i], bundle.members[i])
    BY <1>1 DEF Turn, MembersCommitted, m
  <2>2. \A i \in 1..m :
          /\ reservations'[bundle'.made[i]].request = bundle'.members[i].requestId
          /\ reservations'[bundle'.made[i]].quantity = bundle'.members[i].quantity
          /\ reservations'[bundle'.made[i]].window = bundle'.members[i].window
    <3>1. ASSUME NEW i \in 1..m
          PROVE  /\ bundle'.made[i] = bundle.made[i]
                 /\ bundle'.members[i] = bundle.members[i]
                 /\ reservations'[bundle.made[i]] = reservations[bundle.made[i]]
      BY <1>4, <1>5, <1>6, <1>9
    <3> QED BY <2>1, <3>1 DEF MadeFor
  <2>3. /\ reservations'[bundle'.made[m + 1]].request = bundle'.members[m + 1].requestId
        /\ reservations'[bundle'.made[m + 1]].quantity = bundle'.members[m + 1].quantity
        /\ reservations'[bundle'.made[m + 1]].window = bundle'.members[m + 1].window
    BY <1>2, <1>4, <1>5, <1>6
  <2> QED BY <1>5, <1>8, <2>2, <2>3 DEF MembersCommitted, MadeFor
<1>15. EnvelopesMove
  <2> DEFINE e == envelopes[r]
             g == AddCommitted(e, q.strength, q.window, q.quantity)
             f == AddHeld(g, holds[h].window, -holds[h].quantity)
  <2>1. e \in Envelope /\ e # None
    <3>1. resources[r] # None
      BY <1>3 DEF CommitsAs
    <3> QED BY <3>1 DEF Turn, TypeInv, TypeOK, Anchored
  <2>2. q.quantity \in Int /\ -holds[h].quantity \in Int
    BY <1>2, <1>6, RequestFields
  <2>3. g \in Envelope /\ SameBeyond(g, e)
    <3> HIDE DEF e
    <3> QED BY <2>1, <2>2, BeyondCommitted
  <2>4. f \in Envelope /\ SameBeyond(f, g)
    <3> HIDE DEF g
    <3> QED BY <2>2, <2>3, BeyondHeld
  <2>5. envelopes' = [envelopes EXCEPT ![r] = f]
    BY <1>2, <1>3 DEF CommitsAs
  <2> HIDE DEF f, g
  <2>6. SameBeyond(f, e)
    BY <2>3, <2>4, BeyondBoth
  <2> QED BY <2>1, <2>4, <2>5, <2>6, OneMoves DEF Turn
<1>16. /\ \A k \in bundle.before.live : reservations'[k] = reservations[k]
       /\ \A k \in bundle.before.acquired : holds'[k] = holds[k]
  BY <1>2, <1>6, <1>7, <1>11 DEF Turn, Baseline
<1>17. Remembered'
  BY <1>4, <1>15, <1>16, RememberedStays DEF Turn
<1> QED BY <1>10, <1>12, <1>13, <1>14, <1>17 DEF RollbackInv

\* A member undone gives back its reservation only.
LEMMA UndoMemberRemembers ==
  ASSUME Turn, UndoMember
  PROVE  RollbackInv'
<1> DEFINE m == Len(bundle.made)
           own == reservations[Head(bundle.made)]
<1>1. /\ bundle.aborting /\ bundle.made # <<>>
      /\ Cancel(Head(bundle.made), own.generation)
      /\ bundle' = [bundle EXCEPT !.made = Tail(@)]
  BY DEF UndoMember, Aborting
<1>2. /\ Head(bundle.made) = bundle.made[1] /\ m \in Nat /\ m >= 1
      /\ Len(Tail(bundle.made)) = m - 1 /\ DOMAIN Tail(bundle.made) = 1..(m - 1)
      /\ \A i \in 1..(m - 1) : Tail(bundle.made)[i] = bundle.made[i + 1]
  BY <1>1, TailLaw DEF Turn
<1>a. PICK id \in ReservationId : id = bundle.made[1]
  BY <1>2 DEF Turn
<1>3. /\ bundle'.held = bundle.held /\ bundle'.made = Tail(bundle.made)
      /\ bundle'.members = bundle.members
      /\ bundle'.aborting /\ bundle'.before = bundle.before
  BY <1>1 DEF Turn, BundleRecord
<1>4. /\ Exists(id) /\ holds' = holds /\ envelopes' = EnvelopesWithout(id)
      /\ reservations' = [reservations EXCEPT ![id] =
                            Disengage(reservations[id], "Cancelled")]
  BY <1>1, <1>2, <1>a DEF Cancel, Current
<1>5. /\ reservations[id] \in Reservation /\ reservations[id].resource \in ResourceId
      /\ envelopes[reservations[id].resource] \in Envelope
  BY <1>4, CurrentReservation DEF Turn
<1>6. /\ ~HoldsCapacity(id)'
      /\ \A k \in ReservationId : k # id => reservations'[k] = reservations[k]
  <2> DEFINE x == Disengage(reservations[id], "Cancelled")
  <2>1. x.lifecycle = "Cancelled"
    BY <1>5, LifecycleNames, DisengageLaw
  <2>2. reservations'[id] = x
        /\ \A k \in ReservationId : k # id => reservations'[k] = reservations[k]
    <3>1. reservations' = [reservations EXCEPT ![id] = x]
      BY <1>4
    <3>2. DOMAIN reservations = ReservationId
      BY DEF Turn, TypeInv, TypeOK
    <3> HIDE DEF x
    <3> QED BY <3>1, <3>2
  <2>3. "Cancelled" \notin CapacityHolding
    BY LifecycleNames
  <2> HIDE DEF x
  <2> QED BY <2>1, <2>2, <2>3 DEF HoldsCapacity
<1>7. /\ Claims'.live = Claims.live \ {id}
      /\ Claims'.acquired = Claims.acquired
  <2>1. \A k \in ReservationId : k # id => (HoldsCapacity(k)' <=> HoldsCapacity(k))
    BY <1>6 DEF HoldsCapacity, Exists
  <2>2. Acquired' = Acquired
    BY <1>4 DEF Acquired
  <2> QED BY <1>6, <2>1, <2>2 DEF Turn, Registered
<1> HIDE DEF m
<1>8. \A i \in 1..m :
        /\ bundle.made[i] \notin bundle.before.live
        /\ \A j \in 1..m : bundle.made[i] = bundle.made[j] => i = j
  BY DEF Turn, OwnReservations, m
<1>9. id \notin bundle.before.live
  BY <1>2, <1>8, <1>a
<1>10. OwnReservations'
  <2>1. \A i \in 1..(m - 1) : i + 1 \in 1..m /\ i + 1 # 1
    BY <1>2
  <2>2. \A i \in 1..m : i = 1 \/ (i - 1 \in 1..(m - 1) /\ (i - 1) + 1 = i)
    BY <1>2
  <2>3. DOMAIN bundle'.made = 1..(m - 1)
        /\ \A i \in 1..(m - 1) : bundle'.made[i] = bundle.made[i + 1]
    BY <1>2, <1>3
  <2>4. Ours' = Ours \ {id}
    <3>1. Ours = {bundle.made[i] : i \in 1..m}
      BY DEF Turn, Ours, m
    <3>2. Ours' = {bundle'.made[i] : i \in 1..(m - 1)}
      BY <2>3 DEF Ours
    <3>3. \A i \in 1..m : bundle.made[i] = id => i = 1
      BY <1>2, <1>8, <1>a
    <3>4. \A i \in 1..m : i # 1 => \E j \in 1..(m - 1) : bundle'.made[j] = bundle.made[i]
      BY <2>2, <2>3
    <3>5. Ours' \subseteq Ours
      BY <2>1, <2>3, <3>1, <3>2
    <3>6. id \notin Ours'
      <4>1. \A i \in 1..(m - 1) : bundle'.made[i] # id
        BY <2>1, <2>3, <3>3
      <4> QED BY <3>2, <4>1
    <3>7. Ours \ {id} \subseteq Ours'
      <4>1. \A i \in 1..m : bundle.made[i] # id => i # 1
        BY <1>a
      <4> QED BY <3>1, <3>2, <3>4, <4>1
    <3> QED BY <3>5, <3>6, <3>7
  <2>5. Claims'.live = bundle'.before.live \cup Ours'
    BY <1>3, <1>7, <1>9, <2>4 DEF Turn, OwnReservations
  <2>6. \A i \in 1..(m - 1) : bundle'.made[i] \notin bundle'.before.live
    BY <1>3, <1>8, <2>1, <2>3
  <2>7. ASSUME NEW i \in 1..(m - 1), NEW j \in 1..(m - 1),
               bundle'.made[i] = bundle'.made[j]
        PROVE  i = j
    <3>1. i + 1 = j + 1
      BY <1>8, <2>1, <2>3, <2>7
    <3> QED BY <3>1
  <2> QED BY <2>3, <2>5, <2>6, <2>7 DEF OwnReservations
<1>11. OwnHolds'
  <2>1. Owed' = Owed
    BY <1>1, <1>3 DEF Owed, OwedFrom
  <2>2. OwnHolds
    BY DEF Turn
  <2> QED BY <1>3, <1>4, <1>7, <2>1, <2>2 DEF OwnHolds
<1>12. InOrder' /\ MembersCommitted'
  BY <1>3 DEF InOrder, MembersCommitted
<1>13. EnvelopesMove
  <2> DEFINE old == reservations[id]
             e == envelopes[old.resource]
             f == Withdraw(e, old)
  <2>1. e # None /\ -old.quantity \in Int
    BY <1>5 DEF Reservation
  <2>2. f \in Envelope /\ SameBeyond(f, e)
    <3>1. SameBeyond(e, e)
      BY DEF SameBeyond
    <3>2. AddCommitted(e, old.strength, old.window, -old.quantity) \in Envelope
          /\ SameBeyond(AddCommitted(e, old.strength, old.window, -old.quantity), e)
      <4>1. e \in Envelope
        BY <1>5
      <4> HIDE DEF e, old
      <4> QED BY <2>1, <4>1, BeyondCommitted
    <3> QED BY <1>5, <3>1, <3>2 DEF Withdraw
  <2>3. envelopes' = [envelopes EXCEPT ![old.resource] = f]
    BY <1>4 DEF EnvelopesWithout
  <2> HIDE DEF f
  <2> QED BY <1>5, <2>1, <2>2, <2>3, OneMoves DEF Turn
<1>14. /\ \A k \in bundle.before.live : reservations'[k] = reservations[k]
       /\ \A k \in bundle.before.acquired : holds'[k] = holds[k]
  BY <1>4, <1>6, <1>9 DEF Turn, Baseline
<1>15. Remembered'
  BY <1>3, <1>13, <1>14, RememberedStays DEF Turn
<1> QED BY <1>10, <1>11, <1>12, <1>15 DEF RollbackInv

\* A hold returned is owed no longer.
LEMMA ReturnHoldRemembers ==
  ASSUME Turn, ReturnHold
  PROVE  RollbackInv'
<1> DEFINE n == Len(bundle.held)
<1>1. /\ bundle.aborting /\ bundle.held # <<>>
      /\ ReleaseHold(Head(bundle.held), 1)
      /\ bundle' = [bundle EXCEPT !.held = Tail(@)]
  BY DEF ReturnHold, Aborting
<1>2. /\ Head(bundle.held) = bundle.held[1] /\ n \in Nat /\ n >= 1
      /\ Len(Tail(bundle.held)) = n - 1 /\ DOMAIN Tail(bundle.held) = 1..(n - 1)
      /\ \A i \in 1..(n - 1) : Tail(bundle.held)[i] = bundle.held[i + 1]
  BY <1>1, TailLaw DEF Turn
<1>a. PICK h \in HoldId : h = bundle.held[1]
  BY <1>2 DEF Turn
<1>3. /\ bundle'.held = Tail(bundle.held) /\ bundle'.made = bundle.made
      /\ bundle'.aborting /\ bundle'.before = bundle.before
  BY <1>1 DEF Turn, BundleRecord
<1>4. /\ holds[h] # None /\ reservations' = reservations
      /\ envelopes' = [envelopes EXCEPT ![holds[h].resource] =
                         Unheld(envelopes[holds[h].resource], holds[h])]
      /\ holds' = [holds EXCEPT ![h] = GivenUp(holds[h], "Released")]
  BY <1>1, <1>2, <1>a DEF ReleaseHold
<1>5. /\ holds[h] \in Hold /\ holds[h].resource \in ResourceId
      /\ envelopes[holds[h].resource] \in Envelope
      /\ envelopes[holds[h].resource] # None
  <2>1. holds[h] \in Hold
    BY <1>4 DEF Turn, TypeInv, TypeOK
  <2>2. holds[h].resource \in ResourceId
    BY <2>1 DEF Hold
  <2>3. resources[holds[h].resource] # None
    BY <1>4 DEF Turn, TypeInv, Anchored
  <2>4. envelopes[holds[h].resource] # None
    BY <2>2, <2>3 DEF Turn, TypeInv, Anchored
  <2>5. envelopes \in [ResourceId -> Envelope \cup {None}]
    BY DEF Turn, TypeInv, TypeOK
  <2> QED BY <2>1, <2>2, <2>4, <2>5
<1>6. /\ holds'[h] # None /\ holds'[h].state # "Acquired"
      /\ \A k \in HoldId : k # h => holds'[k] = holds[k]
  <2> DEFINE x == GivenUp(holds[h], "Released")
  <2>1. x \in Hold /\ x.state = "Released"
    BY <1>5, GivenUpLaw DEF HoldStates
  <2> HIDE DEF x
  <2>2. holds'[h] = x /\ \A k \in HoldId : k # h => holds'[k] = holds[k]
    BY <1>4 DEF Turn, TypeInv, TypeOK, x
  <2> QED BY <2>1, <2>2
<1>7. /\ Claims'.live = Claims.live
      /\ Claims'.acquired = Claims.acquired \ {h}
  <2>1. \A k \in ReservationId : HoldsCapacity(k)' <=> HoldsCapacity(k)
    BY <1>4 DEF HoldsCapacity, Exists
  <2>2. Acquired' = Acquired \ {h}
    BY <1>6 DEF Acquired
  <2> QED BY <2>1, <2>2 DEF Turn, Registered
<1> HIDE DEF n
<1>8. \A i \in 1..n :
        /\ bundle.held[i] \in HoldId /\ bundle.held[i] \notin bundle.before.acquired
        /\ holds[bundle.held[i]] # None
        /\ \A j \in 1..n : bundle.held[i] = bundle.held[j] => i = j
  BY DEF Turn, OwnHolds, n
<1>9. h \notin bundle.before.acquired
  BY <1>2, <1>8, <1>a
<1>10. OwnHolds'
  <2>1. \A i \in 1..(n - 1) : i + 1 \in 1..n /\ i + 1 # 1
    BY <1>2
  <2>2. \A i \in 1..n : i = 1 \/ (i - 1 \in 1..(n - 1) /\ (i - 1) + 1 = i)
    BY <1>2
  <2>3. Len(bundle'.held) = n - 1 /\ DOMAIN bundle'.held = 1..(n - 1)
        /\ \A i \in 1..(n - 1) : bundle'.held[i] = bundle.held[i + 1]
    BY <1>2, <1>3
  <2>4. Owed' = Owed \ {h}
    <3>1. Owed = {bundle.held[i] : i \in 1..n}
      BY <1>1 DEF Owed, OwedFrom, n
    <3>2. Owed' = {bundle'.held[i] : i \in 1..(n - 1)}
      BY <1>3, <2>3 DEF Owed, OwedFrom
    <3>3. \A i \in 1..n : bundle.held[i] = h => i = 1
      BY <1>2, <1>8, <1>a
    <3>4. \A i \in 1..n : i # 1 => \E j \in 1..(n - 1) : bundle'.held[j] = bundle.held[i]
      BY <2>2, <2>3
    <3>5. Owed' \subseteq Owed
      BY <2>1, <2>3, <3>1, <3>2
    <3>6. h \notin Owed'
      <4>1. \A i \in 1..(n - 1) : bundle'.held[i] # h
        BY <2>1, <2>3, <3>3
      <4> QED BY <3>2, <4>1
    <3>7. Owed \ {h} \subseteq Owed'
      <4>1. \A i \in 1..n : bundle.held[i] # h => i # 1
        BY <1>a
      <4> QED BY <3>1, <3>2, <3>4, <4>1
    <3> QED BY <3>5, <3>6, <3>7
  <2>5. Claims'.acquired = bundle'.before.acquired \cup Owed'
    BY <1>3, <1>7, <1>9, <2>4 DEF Turn, OwnHolds
  <2>6. ASSUME NEW i \in 1..(n - 1)
        PROVE  /\ bundle'.held[i] \notin bundle'.before.acquired
               /\ holds'[bundle'.held[i]] # None
    <3>1. bundle'.held[i] = bundle.held[i + 1] /\ i + 1 \in 1..n
      BY <2>1, <2>3
    <3> QED BY <1>3, <1>6, <1>8, <3>1
  <2>7. ASSUME NEW i \in 1..(n - 1), NEW j \in 1..(n - 1),
               bundle'.held[i] = bundle'.held[j]
        PROVE  i = j
    <3>1. i + 1 = j + 1
      BY <1>8, <2>1, <2>3, <2>7
    <3> QED BY <3>1
  <2> QED BY <2>3, <2>5, <2>6, <2>7 DEF OwnHolds
<1>11. OwnReservations'
  <2>1. Ours' = Ours
    BY <1>3 DEF Ours
  <2> QED BY <1>3, <1>7, <2>1 DEF Turn, OwnReservations
<1>12. InOrder' /\ MembersCommitted'
  BY <1>3 DEF InOrder, MembersCommitted
<1>13. EnvelopesMove
  <2> DEFINE old == holds[h]
             e == envelopes[old.resource]
             f == Unheld(e, old)
  <2>1. -old.quantity \in Int
    BY <1>5 DEF Hold
  <2>2. f \in Envelope /\ SameBeyond(f, e)
    <3>1. SameBeyond(e, e)
      BY DEF SameBeyond
    <3>2. AddHeld(e, old.window, -old.quantity) \in Envelope
          /\ SameBeyond(AddHeld(e, old.window, -old.quantity), e)
      <4>1. e \in Envelope
        BY <1>5
      <4> HIDE DEF e, old
      <4> QED BY <2>1, <4>1, BeyondHeld
    <3> QED BY <1>5, <3>1, <3>2 DEF Unheld
  <2>3. envelopes' = [envelopes EXCEPT ![old.resource] = f]
    BY <1>4
  <2> HIDE DEF f
  <2> QED BY <1>5, <2>2, <2>3, OneMoves DEF Turn
<1>14. /\ \A k \in bundle.before.live : reservations'[k] = reservations[k]
       /\ \A k \in bundle.before.acquired : holds'[k] = holds[k]
  BY <1>4, <1>6, <1>9 DEF Turn, Baseline
<1>15. Remembered'
  BY <1>3, <1>13, <1>14, RememberedStays DEF Turn
<1> QED BY <1>10, <1>11, <1>12, <1>15 DEF RollbackInv

\* A step that changes nothing.
LEMMA StutterRemembers ==
  ASSUME Turn, UNCHANGED <<vars, bundleVars>>
  PROVE  RollbackInv'
<1>1. UNCHANGED <<reservations, holds, envelopes>> /\ bundle' = bundle
  BY DEF vars, bundleVars
<1>2. /\ Claims'.live = Claims.live /\ Claims'.acquired = Claims.acquired
      /\ EnvelopesMove
  BY <1>1, ClaimsStay DEF Turn
<1>3. Ours' = Ours /\ Owed' = Owed
  BY <1>1 DEF Ours, Owed, OwedFrom
<1>4. OwnReservations' /\ InOrder'
  BY <1>1, <1>2, <1>3 DEF Turn, OwnReservations, InOrder
<1>5. OwnHolds'
  <2>1. OwnHolds
    BY DEF Turn
  <2> QED BY <1>1, <1>2, <1>3, <2>1 DEF OwnHolds
<1>6. MembersCommitted'
  <2>1. MembersCommitted
    BY DEF Turn
  <2> QED BY <1>1, <2>1 DEF MembersCommitted, MadeFor
<1>7. Remembered'
  BY <1>1, <1>2, RememberedStays DEF Turn
<1> QED BY <1>4, <1>5, <1>6, <1>7 DEF RollbackInv

\* Every step keeps account of what a bundle has made and owes.
LEMMA RollbackNext ==
  BundleInv /\ RollbackInv /\ [BundleNext]_<<vars, bundleVars>> => RollbackInv'
<1> SUFFICES ASSUME BundleInv, RollbackInv, [BundleNext]_<<vars, bundleVars>>,
                    bundle' # None
             PROVE  RollbackInv'
  BY DEF RollbackInv
<1>1. BundleInv'
  BY BundleInvNext
<1>2. CASE bundle = None
  <2>1. UNCHANGED <<vars, bundleVars>> => bundle' = bundle
    BY DEF bundleVars
  <2>2. ~BundleStep
    BY <1>2 DEF BundleStep, TakeHold, RefuseHold, CommitMember, RefuseMember,
                FinishBundle, UndoMember, ReturnHold, EndAbort, Holding,
                Committing, Complete, RolledBack, Advancing, Aborting
  <2>3. UNCHANGED bundleVars => bundle' = bundle
    BY DEF bundleVars
  <2>4. PICK members \in Bundles : BeginBundle(members)
    BY <1>2, <2>1, <2>2, <2>3 DEF BundleNext
  <2> QED BY <1>1, <2>4, BeginRemembers
<1>3. CASE bundle # None
  <2>1. Turn
    BY <1>1, <1>3, TurnStarts
  <2>2. CASE BundleStep
    <3>1. ~FinishBundle /\ ~EndAbort
      BY DEF FinishBundle, EndAbort
    <3> QED BY <2>1, <2>2, <3>1, TakeHoldRemembers, RefuseHoldRemembers,
               CommitMemberRemembers, RefuseMemberRemembers,
               UndoMemberRemembers, ReturnHoldRemembers DEF BundleStep
  <2>3. CASE UNCHANGED <<vars, bundleVars>>
    BY <2>1, <2>3, StutterRemembers
  <2>4. ~ \E members \in Bundles : BeginBundle(members)
    BY <1>3 DEF BeginBundle
  <2> QED BY <1>3, <2>2, <2>3, <2>4 DEF BundleNext
<1> QED BY <1>2, <1>3

\* An envelope is its parts.
LEMMA SameEnvelope ==
  ASSUME NEW e \in Envelope, NEW f \in Envelope, SameBeyond(f, e),
         \A t \in Span(e) : /\ f.hard[t] = e.hard[t] /\ f.soft[t] = e.soft[t]
                            /\ f.held[t] = e.held[t]
  PROVE  f = e
<1>1. \A t \in Time : /\ f.hard[t] = e.hard[t] /\ f.soft[t] = e.soft[t]
                      /\ f.held[t] = e.held[t]
  BY DEF SameBeyond
<1>2. /\ f.hard \in [Time -> Int] /\ f.soft \in [Time -> Int] /\ f.held \in [Time -> Int]
      /\ e.hard \in [Time -> Int] /\ e.soft \in [Time -> Int] /\ e.held \in [Time -> Int]
  BY DEF Envelope
<1>3. f.hard = e.hard /\ f.soft = e.soft /\ f.held = e.held
  BY <1>1, <1>2
<1>4. e = [from |-> e.from, ratio |-> e.ratio, cap |-> e.cap,
           hard |-> e.hard, soft |-> e.soft, held |-> e.held]
  BY DEF Envelope
<1>5. f = [from |-> f.from, ratio |-> f.ratio, cap |-> f.cap,
           hard |-> f.hard, soft |-> f.soft, held |-> f.held]
  BY DEF Envelope
<1>6. f.from = e.from /\ f.ratio = e.ratio /\ f.cap = e.cap
  BY DEF SameBeyond
<1> QED BY <1>3, <1>4, <1>5, <1>6

\* A bundle rolled back leaves nothing of its own behind.
LEMMA RolledBackClean ==
  ASSUME BundleInv, RollbackInv, RolledBack
  PROVE  Claims = bundle.before
<1>1. /\ bundle # None /\ bundle.made = <<>> /\ bundle.held = <<>> /\ bundle.aborting
  BY DEF RolledBack, Aborting
<1>2. /\ TypeInv /\ Exactness /\ bundle.before \in Baseline
      /\ OwnReservations /\ OwnHolds /\ Remembered
  BY <1>1, BundleFields DEF BundleInv, IInv, RollbackInv, BundleRecord
<1>3. Ours = {} /\ Owed = {}
  <2>1. Len(<<>>) = 0 /\ DOMAIN <<>> = {}
    OBVIOUS
  <2> QED BY <1>1, <2>1 DEF Ours, Owed, OwedFrom
<1>4. /\ Claims.live = bundle.before.live
      /\ Claims.acquired = bundle.before.acquired
  BY <1>2, <1>3 DEF OwnReservations, OwnHolds
<1>5. MemoryAgrees
  BY <1>2, <1>4, MemoryNow DEF MemoryOfAll
<1>6. ASSUME NEW r \in ResourceId
      PROVE  envelopes[r] = bundle.before.taken[r]
  <2> DEFINE e == bundle.before.taken[r]
  <2>1. e = None <=> envelopes[r] = None
    BY <1>2 DEF Remembered
  <2>2. CASE e # None
    <3>1. e \in Envelope /\ envelopes[r] \in Envelope
      BY <1>2, <2>1, <2>2 DEF Baseline, TypeInv, TypeOK
    <3>2. SameBeyond(envelopes[r], e)
      BY <1>2, <2>2 DEF Remembered
    <3>3. Span(envelopes[r]) = Span(e)
      BY <3>2 DEF SameBeyond, Span
    <3>4. ASSUME NEW t \in Span(e)
          PROVE  /\ envelopes[r].hard[t] = e.hard[t]
                 /\ envelopes[r].soft[t] = e.soft[t]
                 /\ envelopes[r].held[t] = e.held[t]
      <4>1. /\ e.hard[t] = LoadBefore(r, "Hard", t)
            /\ e.soft[t] = LoadBefore(r, "Soft", t)
            /\ e.held[t] = HeldBefore(r, t)
        BY <1>2, <2>2 DEF Remembered
      <4>2. /\ envelopes[r].hard[t] = LoadAt(Commitments(r), "Hard", t)
            /\ envelopes[r].soft[t] = LoadAt(Commitments(r), "Soft", t)
            /\ envelopes[r].held[t] = HeldAt(LiveHolds(r), t)
        BY <1>2, <2>1, <2>2, <3>3 DEF Exactness, Exact
      <4> HIDE DEF e
      <4> QED BY <1>5, <4>1, <4>2 DEF MemoryAgrees
    <3> HIDE DEF e
    <3> QED BY <3>1, <3>2, <3>4, SameEnvelope DEF e
  <2> QED BY <2>1, <2>2
<1>7. envelopes = bundle.before.taken
  BY <1>2, <1>6 DEF Baseline, TypeInv, TypeOK
<1>8. Claims = [live |-> Claims.live, acquired |-> Claims.acquired, taken |-> envelopes]
  BY DEF Claims
<1> QED BY <1>2, <1>4, <1>7, <1>8 DEF Baseline

\* A bundle committed has one reservation for each member and owes no hold.
LEMMA CompleteWhole ==
  ASSUME BundleInv, RollbackInv, Complete
  PROVE  /\ Claims.live = bundle.before.live \cup Ours
         /\ Claims.acquired = bundle.before.acquired
         /\ \A i \in DOMAIN bundle.members :
              /\ bundle.made[i] \notin bundle.before.live
              /\ MadeFor(bundle.made[i], bundle.members[i])
<1>1. /\ bundle # None /\ ~bundle.aborting
      /\ Len(bundle.made) = Len(bundle.members)
  BY DEF Complete, Advancing
<1>2. /\ OwnReservations /\ OwnHolds /\ MembersCommitted /\ InOrder
      /\ DOMAIN bundle.made = DOMAIN bundle.members
      /\ Len(bundle.made) \in Nat /\ Len(bundle.held) \in Nat
  BY <1>1, BundleFields DEF RollbackInv
<1>3. Owed = {}
  <2>1. Len(bundle.held) = Len(bundle.made)
    BY <1>1, <1>2 DEF InOrder
  <2>2. (Len(bundle.made) + 1)..Len(bundle.held) = {}
    BY <1>2, <2>1
  <2> QED BY <1>1, <2>2 DEF Owed, OwedFrom
<1> QED BY <1>1, <1>2, <1>3 DEF OwnReservations, OwnHolds, MembersCommitted

\* A bundle of any number of members commits all of them or leaves the same
\* claims and the same envelopes as before, whichever member fails and in
\* whichever phase.
THEOREM AllOrNothingHolds == BundleSpec => []AllOrNothing
<1>1. BundleInv /\ RollbackInv => AllOrNothing
  BY RolledBackClean, CompleteWhole DEF AllOrNothing, MadeFor, Ours
<1>2. BundleInit => RollbackInv
  BY DEF BundleInit, RollbackInv
<1> QED BY BundleInvInit, BundleInvNext, RollbackNext, <1>1, <1>2, PTL
        DEF BundleSpec

-----------------------------------------------------------------------------
(* The rollback skips nothing, and every turn brings the end nearer.       *)

\* The holds of a bundle are of its own making: their generation is the first.
HoldsOwn ==
  bundle # None =>
    \A i \in DOMAIN bundle.held :
      holds[bundle.held[i]] # None /\ holds[bundle.held[i]].holdGeneration = 1

\* Every hold there was is there and of the generation it was of.
GenerationsKept ==
  \A h \in HoldId : holds[h] # None =>
    holds'[h] # None /\ holds'[h].holdGeneration = holds[h].holdGeneration

\* So it is when one is given up.
LEMMA GivenUpGeneration ==
  ASSUME TypeInv, NEW h \in HoldId, holds[h] # None, NEW state \in HoldStates,
         holds' = [holds EXCEPT ![h] = GivenUp(@, state)]
  PROVE  GenerationsKept
<1> DEFINE x == GivenUp(holds[h], state)
<1>1. holds[h] \in Hold
  BY DEF TypeInv, TypeOK
<1>2. x.holdGeneration = holds[h].holdGeneration
  BY <1>1 DEF GivenUp, Hold
<1>3. x # None
  <2>1. x \in Hold
    BY <1>1, GivenUpLaw
  <2> HIDE DEF x
  <2> QED BY <2>1
<1>4. \A k \in HoldId : holds'[k] = IF k = h THEN x ELSE holds[k]
  BY DEF TypeInv, TypeOK
<1> HIDE DEF x
<1> QED BY <1>2, <1>3, <1>4 DEF GenerationsKept

\* And the holds that a bundle still has, among those it had, are its own.
LEMMA OwnHoldsKept ==
  ASSUME BundleInv, HoldsOwn, bundle # None, GenerationsKept,
         \A i \in DOMAIN bundle'.held :
           \E j \in DOMAIN bundle.held : bundle'.held[i] = bundle.held[j]
  PROVE  HoldsOwn'
<1>1. bundle.held \in Seq(HoldId)
  BY BundleFields
<1>2. \A j \in DOMAIN bundle.held : bundle.held[j] \in HoldId
  BY <1>1
<1> QED BY <1>2 DEF HoldsOwn, GenerationsKept

\* A member's new hold is of the first generation.
LEMMA TakeHoldOwn ==
  ASSUME BundleInv, HoldsOwn, NEW r \in ResourceId, NEW now \in HoldClock,
         TakeHold(r, now)
  PROVE  HoldsOwn'
<1> DEFINE h == nextHoldId + 1
<1>1. /\ Holding /\ CreateHold(MemberHold, r, now) /\ bundle # None
      /\ bundle' = [bundle EXCEPT !.held = Append(@, h)]
  BY DEF TakeHold, Holding, Advancing
<1>2. /\ MemberHold \in HoldSpec /\ MemberHold.holdId = h /\ h \in HoldId
      /\ MemberHold.holdGeneration = 1
  BY <1>1, MemberHoldNew DEF MemberHold
<1>3. /\ \A k \in HoldId \ {h} : holds'[k] = holds[k]
      /\ holds'[h] # None /\ holds'[h].holdGeneration = 1
  <2>1. /\ holds'[MemberHold.holdId] # None
        /\ holds'[MemberHold.holdId].holdGeneration = MemberHold.holdGeneration
        /\ \A k \in HoldId : k # MemberHold.holdId => holds'[k] = holds[k]
    BY <1>1, <1>2, HoldMakes DEF BundleInv
  <2> HIDE DEF h
  <2> QED BY <1>2, <2>1
<1>4. /\ bundle.held \in Seq(HoldId)
      /\ bundle'.held = Append(bundle.held, h)
  BY <1>1, BundleFields DEF BundleRecord
<1> HIDE DEF h
<1>5. ASSUME NEW i \in DOMAIN bundle'.held
      PROVE  \/ bundle'.held[i] = h
             \/ /\ i \in DOMAIN bundle.held /\ bundle'.held[i] = bundle.held[i]
                /\ bundle.held[i] \in HoldId
  BY <1>2, <1>4, <1>5, AppendLaw
<1>6. \A i \in DOMAIN bundle.held :
        holds[bundle.held[i]] # None /\ holds[bundle.held[i]].holdGeneration = 1
  BY <1>1 DEF HoldsOwn
<1>7. ASSUME NEW i \in DOMAIN bundle'.held
      PROVE  /\ holds'[bundle'.held[i]] # None
             /\ holds'[bundle'.held[i]].holdGeneration = 1
  <2>1. CASE bundle'.held[i] = h
    BY <1>3, <2>1
  <2>2. CASE bundle'.held[i] # h
    BY <1>3, <1>5, <1>6, <2>2
  <2> QED BY <2>1, <2>2
<1> QED BY <1>7 DEF HoldsOwn

\* Every turn keeps the holds of a bundle its own.
LEMMA HoldsOwnNext ==
  BundleInv /\ HoldsOwn /\ [BundleNext]_<<vars, bundleVars>> => HoldsOwn'
<1> SUFFICES ASSUME BundleInv, HoldsOwn, [BundleNext]_<<vars, bundleVars>>
             PROVE  HoldsOwn'
  OBVIOUS
<1>a. /\ TypeInv
      /\ holds' = holds => GenerationsKept
      /\ bundle # None => bundle \in BundleRecord /\ bundle.held \in Seq(HoldId)
  BY BundleFields DEF BundleInv, IInv, GenerationsKept
<1>1. ASSUME bundle' = bundle, holds' = holds
      PROVE  HoldsOwn'
  BY <1>1 DEF HoldsOwn
<1>2. ASSUME NEW members \in Bundles, BeginBundle(members)
      PROVE  HoldsOwn'
  BY <1>2 DEF BeginBundle, HoldsOwn
<1>3. CASE RefuseHold \/ RefuseMember
  <2>1. bundle # None /\ holds' = holds
    BY <1>3 DEF RefuseHold, RefuseMember, Holding, Committing, Advancing, vars
  <2>2. CASE RefuseHold
    <3>1. bundle'.held = bundle.held
      BY <1>a, <2>1, <2>2 DEF RefuseHold, BundleRecord
    <3> QED BY <1>a, <2>1, <3>1, OwnHoldsKept
  <2>3. CASE RefuseMember
    <3> DEFINE k == Len(bundle.made) + 1
               n == Len(bundle.held)
    <3>1. bundle'.held = SubSeq(bundle.held, k, n)
      BY <1>a, <2>1, <2>3 DEF RefuseMember, Unredeemed, BundleRecord
    <3>2. k \in 1..(n + 1) /\ n \in Nat /\ DOMAIN bundle.held = 1..n
      BY <2>1, <2>3, BundleFields DEF RefuseMember, Committing
    <3>3. /\ DOMAIN bundle'.held = 1..(n - k + 1)
          /\ \A i \in 1..(n - k + 1) : bundle'.held[i] = bundle.held[i + k - 1]
      <4> HIDE DEF k
      <4> QED BY <1>a, <2>1, <3>1, <3>2, SubSeqLaw
    <3> HIDE DEF k, n
    <3>4. \A i \in 1..(n - k + 1) : i + k - 1 \in 1..n
      BY <3>2
    <3> QED BY <1>a, <2>1, <3>2, <3>3, <3>4, OwnHoldsKept
  <2> QED BY <1>3, <2>2, <2>3
<1>4. ASSUME NEW r \in ResourceId, CommitMember(r)
      PROVE  HoldsOwn'
  <2>1. /\ bundle # None /\ Committing /\ Commit(NextMember, r, NextHold)
        /\ bundle' = [bundle EXCEPT !.made = Append(@, nextReservationId + 1)]
    BY <1>4 DEF CommitMember, Committing, Advancing
  <2>2. NextHold \in HoldId
    BY <2>1, MemberDue
  <2>3. \/ holds' = holds
        \/ /\ holds[NextHold] # None
           /\ holds' = [holds EXCEPT ![NextHold] = GivenUp(@, "Committed")]
    BY <2>1, <2>2 DEF Commit, Redeemable
  <2>4. GenerationsKept
    BY <1>a, <2>2, <2>3, GivenUpGeneration DEF HoldStates
  <2>5. bundle'.held = bundle.held
    BY <1>a, <2>1 DEF BundleRecord
  <2> QED BY <2>1, <2>4, <2>5, OwnHoldsKept
<1>5. CASE UndoMember
  <2>1. /\ bundle # None /\ holds' = holds
        /\ bundle' = [bundle EXCEPT !.made = Tail(@)]
    BY <1>5 DEF UndoMember, Aborting, Cancel
  <2>2. bundle'.held = bundle.held
    BY <1>a, <2>1 DEF BundleRecord
  <2> QED BY <1>a, <2>1, <2>2, OwnHoldsKept
<1>6. CASE ReturnHold
  <2> DEFINE h == Head(bundle.held)
             n == Len(bundle.held)
  <2>1. /\ bundle # None /\ bundle.held # <<>> /\ holds[h] # None
        /\ holds' = [holds EXCEPT ![h] = GivenUp(@, "Released")]
        /\ bundle' = [bundle EXCEPT !.held = Tail(@)]
    BY <1>6 DEF ReturnHold, Aborting, ReleaseHold
  <2>2. h \in HoldId
    BY <1>a, <2>1
  <2>3. GenerationsKept
    BY <1>a, <2>1, <2>2, GivenUpGeneration DEF HoldStates
  <2>4. bundle'.held = Tail(bundle.held)
    BY <1>a, <2>1 DEF BundleRecord
  <2>5. /\ n \in Nat /\ DOMAIN bundle.held = 1..n
        /\ DOMAIN bundle'.held = 1..(n - 1)
        /\ \A i \in 1..(n - 1) : bundle'.held[i] = bundle.held[i + 1]
    BY <1>a, <2>1, <2>4, TailLaw
  <2> HIDE DEF h, n
  <2>6. \A i \in 1..(n - 1) : i + 1 \in 1..n
    BY <2>5
  <2> QED BY <2>1, <2>3, <2>5, <2>6, OwnHoldsKept
<1>7. CASE FinishBundle \/ EndAbort
  BY <1>7 DEF FinishBundle, EndAbort, HoldsOwn
<1>8. CASE BundleStep
  BY <1>3, <1>4, <1>5, <1>6, <1>7, <1>8, TakeHoldOwn DEF BundleStep
<1>9. CASE bundle = None /\ UNCHANGED bundleVars
  BY <1>9 DEF bundleVars, HoldsOwn
<1>10. CASE UNCHANGED <<vars, bundleVars>>
  BY <1>1, <1>10 DEF vars, bundleVars
<1> QED BY <1>2, <1>8, <1>9, <1>10 DEF BundleNext

\* What a rollback has to undo is all there to be undone, once.
LEMMA NothingSkipped ==
  ASSUME BundleInv, RollbackInv, HoldsOwn, Aborting
  PROVE  RollbackSkipsNothing
<1>1. /\ bundle # None /\ bundle.aborting
      /\ TypeInv /\ FlagsFollowClaims /\ Registered
      /\ OwnReservations /\ OwnHolds
  BY InvariantParts, ClaimsNow
     DEF Aborting, BundleInv, RollbackInv, AccountingInvariant, IInv
<1>2. bundle.made \in Seq(ReservationId) /\ bundle.held \in Seq(HoldId)
  BY <1>1, BundleFields
<1>3. ASSUME NEW i \in DOMAIN bundle.made
      PROVE  LET id == bundle.made[i] IN
             /\ HoldsCapacity(id) /\ reservations[id].contributesEnvelope
             /\ \A j \in DOMAIN bundle.made : bundle.made[j] = id => j = i
  <2>1. bundle.made[i] \in ReservationId /\ bundle.made[i] \in Ours
    BY <1>2 DEF Ours
  <2>2. HoldsCapacity(bundle.made[i])
    BY <1>1, <2>1 DEF OwnReservations, Registered
  <2>3. reservations[bundle.made[i]].contributesEnvelope
    BY <1>1, <2>1, <2>2 DEF FlagsFollowClaims, HoldsCapacity
  <2> QED BY <1>1, <2>2, <2>3 DEF OwnReservations
<1>4. ASSUME NEW i \in DOMAIN bundle.held
      PROVE  LET h == bundle.held[i] IN
             /\ holds[h] # None
             /\ holds[h].holdGeneration = 1
             /\ holds[h].state = "Acquired" /\ holds[h].appliedToEnvelope
             /\ \A j \in DOMAIN bundle.held : bundle.held[j] = h => j = i
  <2>1. bundle.held[i] \in HoldId /\ bundle.held[i] \in Owed
    BY <1>1, <1>2 DEF Owed, OwedFrom
  <2>2. holds[bundle.held[i]] # None /\ holds[bundle.held[i]].state = "Acquired"
    BY <1>1, <2>1 DEF OwnHolds, Registered, Acquired
  <2>3. holds[bundle.held[i]].appliedToEnvelope
    BY <1>1, <2>1, <2>2 DEF FlagsFollowClaims
  <2>4. holds[bundle.held[i]].holdGeneration = 1
    BY <1>1 DEF HoldsOwn
  <2> QED BY <1>1, <2>2, <2>3, <2>4 DEF OwnHolds
<1> QED BY <1>3, <1>4 DEF RollbackSkipsNothing

\* A rollback of any number of members undoes each of them, once: it meets no
\* record its checks would pass over.
THEOREM RollbackUndoesAll == BundleSpec => []RollbackSkipsNothing
<1>1. BundleInv /\ RollbackInv /\ HoldsOwn => RollbackSkipsNothing
  BY NothingSkipped DEF RollbackSkipsNothing
<1>2. BundleInit => RollbackInv /\ HoldsOwn
  BY DEF BundleInit, RollbackInv, HoldsOwn
<1> QED BY BundleInvInit, BundleInvNext, RollbackNext, HoldsOwnNext, <1>1,
           <1>2, PTL DEF BundleSpec

\* The most turns that are left: a bundle of n members takes 3n + 1 when the
\* last of them cannot be committed.
TurnsLeft ==
  IF bundle = None THEN 0
  ELSE IF bundle.aborting THEN Len(bundle.made) + Len(bundle.held) + 1
  ELSE 3 * Len(bundle.members) + 1 - (Len(bundle.held) + Len(bundle.made))

WindsDown == TurnsLeft \in Nat /\ TurnsLeft' \in Nat /\ TurnsLeft' < TurnsLeft

\* One hold or one reservation more leaves one turn less.
LEMMA OneTurnLess ==
  ASSUME NEW n \in Nat, NEW d \in Nat, d < 2 * n
  PROVE  /\ 3 * n + 1 - d \in Nat /\ 3 * n + 1 - (d + 1) \in Nat
         /\ 3 * n + 1 - (d + 1) < 3 * n + 1 - d
         /\ 0 < 3 * n + 1 - d
OBVIOUS

\* The turns in which a bundle goes forward.
LEMMA AdvancingWindsDown ==
  ASSUME Turn, \/ \E r \in ResourceId, now \in HoldClock : TakeHold(r, now)
               \/ RefuseHold
               \/ \E r \in ResourceId : CommitMember(r)
               \/ RefuseMember
               \/ FinishBundle
  PROVE  WindsDown
<1> DEFINE n == Len(bundle.members)
           m == Len(bundle.made)
           k == Len(bundle.held)
<1>1. /\ n \in Nat /\ m \in Nat /\ k \in Nat /\ m <= k /\ k <= n
      /\ k < n => m = 0
      /\ ~bundle.aborting /\ TurnsLeft = 3 * n + 1 - (k + m)
  <2>1. n \in Nat /\ m \in Nat /\ k \in Nat
    BY DEF Turn
  <2>2. bundle # None /\ ~bundle.aborting
    BY DEF TakeHold, RefuseHold, CommitMember, RefuseMember, FinishBundle,
           Holding, Committing, Complete, Advancing
  <2>3. TurnsLeft = 3 * n + 1 - (k + m)
    BY <2>2 DEF TurnsLeft
  <2> QED BY <2>1, <2>2, <2>3 DEF Turn, InOrder
<1>2. ASSUME NEW r \in ResourceId, NEW now \in HoldClock, TakeHold(r, now)
      PROVE  WindsDown
  <2>1. /\ bundle' = [bundle EXCEPT !.held = Append(@, nextHoldId + 1)]
        /\ k < n /\ Holding
    BY <1>2 DEF TakeHold, Holding
  <2>2. nextHoldId + 1 \in HoldId
    BY <2>1, MemberHoldNew DEF Turn
  <2>3. /\ bundle'.members = bundle.members /\ bundle'.made = bundle.made
        /\ ~bundle'.aborting
        /\ Len(bundle'.held) = k + 1
    BY <1>1, <2>1, <2>2, AppendLaw DEF Turn, BundleRecord
  <2>4. TurnsLeft' = IF bundle' = None THEN 0 ELSE 3 * n + 1 - ((k + 1) + m)
    BY <2>3 DEF TurnsLeft
  <2> HIDE DEF n, m, k
  <2>5. k + m \in Nat /\ k + m < 2 * n /\ (k + 1) + m = (k + m) + 1
    BY <1>1, <2>1
  <2> QED BY <1>1, <2>4, <2>5, OneTurnLess DEF WindsDown
<1>3. CASE RefuseHold
  <2>1. k < n /\ bundle' = [bundle EXCEPT !.aborting = TRUE]
    BY <1>3 DEF RefuseHold, Holding
  <2>2. /\ bundle'.aborting /\ bundle'.made = bundle.made
        /\ bundle'.held = bundle.held
    BY <2>1 DEF Turn, BundleRecord
  <2>3. TurnsLeft' = IF bundle' = None THEN 0 ELSE m + k + 1
    BY <2>2 DEF TurnsLeft
  <2> HIDE DEF n, m, k
  <2> QED BY <1>1, <2>1, <2>3 DEF WindsDown
<1>4. ASSUME NEW r \in ResourceId, CommitMember(r)
      PROVE  WindsDown
  <2>1. /\ bundle' = [bundle EXCEPT !.made = Append(@, nextReservationId + 1)]
        /\ k = n /\ m < n /\ nextReservationId + 1 \in ReservationId
    BY <1>4 DEF CommitMember, Committing, Commit, Turn, TypeInv, TypeOK,
                ReservationId
  <2>2. /\ bundle'.members = bundle.members /\ bundle'.held = bundle.held
        /\ ~bundle'.aborting
        /\ Len(bundle'.made) = m + 1
    BY <1>1, <2>1, AppendLaw DEF Turn, BundleRecord
  <2>3. TurnsLeft' = IF bundle' = None THEN 0 ELSE 3 * n + 1 - (k + (m + 1))
    BY <2>2 DEF TurnsLeft
  <2> HIDE DEF n, m, k
  <2>4. k + m \in Nat /\ k + m < 2 * n /\ k + (m + 1) = (k + m) + 1
    BY <1>1, <2>1
  <2> QED BY <1>1, <2>3, <2>4, OneTurnLess DEF WindsDown
<1>5. CASE RefuseMember
  <2>1. /\ bundle' = [bundle EXCEPT !.aborting = TRUE, !.held = Unredeemed(bundle)]
        /\ k = n /\ m < n
    BY <1>5 DEF RefuseMember, Committing
  <2>2. /\ bundle'.aborting /\ bundle'.made = bundle.made
        /\ bundle'.held = SubSeq(bundle.held, m + 1, k)
    BY <2>1 DEF Turn, BundleRecord, Unredeemed
  <2>3. Len(SubSeq(bundle.held, m + 1, k)) = k - m
    <3>1. m + 1 \in 1..(k + 1) /\ k - (m + 1) + 1 = k - m
      BY <1>1
    <3> HIDE DEF m
    <3> QED BY <3>1, SubSeqLaw DEF Turn
  <2>4. TurnsLeft' = IF bundle' = None THEN 0 ELSE m + (k - m) + 1
    BY <2>2, <2>3 DEF TurnsLeft
  <2> HIDE DEF n, m, k
  <2>5. k + m \in Nat /\ k + m < 2 * n
    BY <1>1, <2>1
  <2>6. m + (k - m) + 1 \in Nat /\ m + (k - m) + 1 < 3 * n + 1 - (k + m)
    BY <1>1, <2>1
  <2> QED BY <1>1, <2>4, <2>5, <2>6, OneTurnLess DEF WindsDown
<1>6. CASE FinishBundle
  <2>1. TurnsLeft' = 0
    BY <1>6 DEF FinishBundle, TurnsLeft
  <2> HIDE DEF n, m, k
  <2> QED BY <1>1, <2>1 DEF WindsDown
<1> QED BY <1>2, <1>3, <1>4, <1>5, <1>6

\* The turns in which it goes back.
LEMMA AbortingWindsDown ==
  ASSUME Turn, UndoMember \/ ReturnHold \/ EndAbort
  PROVE  WindsDown
<1> DEFINE m == Len(bundle.made)
           k == Len(bundle.held)
<1>1. m \in Nat /\ k \in Nat /\ TurnsLeft = m + k + 1
  <2>1. bundle # None /\ bundle.aborting
    BY DEF UndoMember, ReturnHold, EndAbort, RolledBack, Aborting
  <2> QED BY <2>1 DEF Turn, TurnsLeft
<1>2. CASE UndoMember
  <2>1. /\ bundle' = [bundle EXCEPT !.made = Tail(@)]
        /\ bundle.made # <<>> /\ bundle.aborting
    BY <1>2 DEF UndoMember, Aborting
  <2>2. /\ bundle'.aborting /\ bundle'.held = bundle.held
        /\ m >= 1 /\ Len(bundle'.made) = m - 1
    BY <2>1, TailLaw DEF Turn, BundleRecord
  <2>3. TurnsLeft' = IF bundle' = None THEN 0 ELSE (m - 1) + k + 1
    BY <2>2 DEF TurnsLeft
  <2> HIDE DEF m, k
  <2> QED BY <1>1, <2>2, <2>3 DEF WindsDown
<1>3. CASE ReturnHold
  <2>1. /\ bundle' = [bundle EXCEPT !.held = Tail(@)]
        /\ bundle.held # <<>> /\ bundle.aborting
    BY <1>3 DEF ReturnHold, Aborting
  <2>2. /\ bundle'.aborting /\ bundle'.made = bundle.made
        /\ k >= 1 /\ Len(bundle'.held) = k - 1
    BY <2>1, TailLaw DEF Turn, BundleRecord
  <2>3. TurnsLeft' = IF bundle' = None THEN 0 ELSE m + (k - 1) + 1
    BY <2>2 DEF TurnsLeft
  <2> HIDE DEF m, k
  <2> QED BY <1>1, <2>2, <2>3 DEF WindsDown
<1>4. CASE EndAbort
  <2>1. TurnsLeft' = 0
    BY <1>4 DEF EndAbort, TurnsLeft
  <2> HIDE DEF m, k
  <2> QED BY <1>1, <2>1 DEF WindsDown
<1> QED BY <1>2, <1>3, <1>4

\* No bundle goes on for ever: each of its turns leaves fewer, from 3n + 1
\* down, and none when the bundle is gone.  With RollbackUndoesAll, which shows
\* that the checks of a rollback never hold it up, this is the safety half of
\* BundleEnds, for bundles of any number of members.
THEOREM BundleWindsDown ==
  BundleSpec =>
    [][/\ BundleStep => WindsDown
       /\ \A members \in Bundles :
            BeginBundle(members) => TurnsLeft' <= 3 * Len(members) + 1
      ]_<<vars, bundleVars>>
<1>1. BundleInv /\ BundleInv' /\ RollbackInv =>
        /\ BundleStep => WindsDown
        /\ \A members \in Bundles :
             BeginBundle(members) => TurnsLeft' <= 3 * Len(members) + 1
  <2> SUFFICES ASSUME BundleInv, BundleInv', RollbackInv
               PROVE  /\ BundleStep => WindsDown
                      /\ \A members \in Bundles :
                           BeginBundle(members) =>
                             TurnsLeft' <= 3 * Len(members) + 1
    OBVIOUS
  <2>1. ASSUME BundleStep
        PROVE  WindsDown
    <3>1. bundle # None
      BY <2>1 DEF BundleStep, TakeHold, RefuseHold, CommitMember, RefuseMember,
                  FinishBundle, UndoMember, ReturnHold, EndAbort, Holding,
                  Committing, Complete, RolledBack, Advancing, Aborting
    <3>2. Turn
      BY <3>1, TurnStarts
    <3> QED BY <2>1, <3>2, AdvancingWindsDown, AbortingWindsDown DEF BundleStep
  <2>2. ASSUME NEW members \in Bundles, BeginBundle(members)
        PROVE  TurnsLeft' <= 3 * Len(members) + 1
    <3>1. /\ bundle'.members = members /\ Len(bundle'.made) = 0
          /\ Len(bundle'.held) = 0 /\ ~bundle'.aborting
      BY <2>2 DEF BeginBundle
    <3>2. Len(members) \in Nat
      OBVIOUS
    <3>3. TurnsLeft' = IF bundle' = None THEN 0 ELSE 3 * Len(members) + 1 - (0 + 0)
      BY <3>1 DEF TurnsLeft
    <3> QED BY <3>2, <3>3
  <2> QED BY <2>1, <2>2
<1>2. BundleInit => RollbackInv
  BY DEF BundleInit, RollbackInv
<1> QED BY BundleInvInit, BundleInvNext, RollbackNext, <1>1, <1>2, PTL
        DEF BundleSpec

-----------------------------------------------------------------------------
(* What bundles leave true of the runtime.                                 *)

\* What a turn of a bundle, or of a caller between two bundles, is to the
\* runtime.  A bundle takes holds, commits and releases that no caller chose,
\* so its turns are not among those of DisciplinedNext.
RuntimeStep ==
  \/ DisciplinedNext
  \/ \E spec \in HoldSpec, r \in ResourceId, now \in HoldClock :
       holds[spec.holdId] = None /\ CreateHold(spec, r, now)
  \/ \E q \in Request, r \in ResourceId, h \in HoldId :
       ~q.partialAllowed /\ Commit(q, r, h)
  \/ \E id \in ReservationId : Cancel(id, reservations[id].generation)
  \/ \E h \in HoldId : ReleaseHold(h, 1)

\* A bundle gives the runtime nothing else to do.
LEMMA BundleTurns ==
  BundleInv /\ [BundleNext]_<<vars, bundleVars>> => [RuntimeStep]_vars
<1> SUFFICES ASSUME BundleInv, [BundleNext]_<<vars, bundleVars>>
             PROVE  [RuntimeStep]_vars
  OBVIOUS
<1>1. ASSUME NEW r \in ResourceId, NEW now \in HoldClock, TakeHold(r, now)
      PROVE  RuntimeStep
  <2>1. Holding /\ CreateHold(MemberHold, r, now)
    BY <1>1 DEF TakeHold
  <2>2. MemberHold \in HoldSpec /\ holds[MemberHold.holdId] = None
    BY <2>1, MemberHoldNew
  <2> QED BY <2>1, <2>2 DEF RuntimeStep
<1>2. ASSUME NEW r \in ResourceId, CommitMember(r)
      PROVE  RuntimeStep
  <2>1. Committing /\ Commit(NextMember, r, NextHold)
    BY <1>2 DEF CommitMember
  <2> QED BY <2>1, MemberDue DEF RuntimeStep
<1>3. CASE UndoMember
  <2>1. /\ bundle # None /\ bundle.made # <<>>
        /\ Cancel(Head(bundle.made), reservations[Head(bundle.made)].generation)
    BY <1>3 DEF UndoMember, Aborting
  <2>2. Head(bundle.made) \in ReservationId
    BY <2>1, BundleFields
  <2> QED BY <2>1, <2>2 DEF RuntimeStep
<1>4. CASE ReturnHold
  <2>1. /\ bundle # None /\ bundle.held # <<>>
        /\ ReleaseHold(Head(bundle.held), 1)
    BY <1>4 DEF ReturnHold, Aborting
  <2>2. Head(bundle.held) \in HoldId
    BY <2>1, BundleFields
  <2> QED BY <2>1, <2>2 DEF RuntimeStep
<1>5. CASE RefuseHold \/ RefuseMember \/ FinishBundle \/ EndAbort
  BY <1>5 DEF RefuseHold, RefuseMember, FinishBundle, EndAbort
<1>6. ASSUME NEW members \in Bundles, BeginBundle(members)
      PROVE  UNCHANGED vars
  BY <1>6 DEF BeginBundle
<1>7. CASE UNCHANGED <<vars, bundleVars>>
  BY <1>7
<1>8. CASE BundleStep
  BY <1>1, <1>2, <1>3, <1>4, <1>5, <1>8 DEF BundleStep
<1>9. CASE BundleNext /\ ~BundleStep
  BY <1>6, <1>9 DEF BundleNext, RuntimeStep
<1> QED BY <1>7, <1>8, <1>9

\* Each of these steps is a step of the ledger.
LEMMA BundleRefines ==
  BundleInv /\ BundleInv' /\ [RuntimeStep]_vars =>
    [Ledger!LedgerNext]_Ledger!ledgerVars
<1> SUFFICES ASSUME BundleInv, BundleInv', [RuntimeStep]_vars
             PROVE  [Ledger!LedgerNext]_Ledger!ledgerVars
  OBVIOUS
<1>1. IInv /\ IInv'
  BY DEF BundleInv
<1>2. CASE [DisciplinedNext]_vars
  BY <1>1, <1>2, RefinementNext
<1>3. ASSUME NEW spec \in HoldSpec, NEW r \in ResourceId, NEW now \in HoldClock,
             holds[spec.holdId] = None, CreateHold(spec, r, now)
      PROVE  Ledger!LedgerNext
  BY <1>1, <1>3, CreateHoldStep
<1>4. ASSUME NEW q \in Request, NEW r \in ResourceId, NEW h \in HoldId,
             ~q.partialAllowed, Commit(q, r, h)
      PROVE  Ledger!LedgerNext
  BY <1>1, <1>4, CommitStep
<1>5. ASSUME NEW id \in ReservationId, Cancel(id, reservations[id].generation)
      PROVE  Ledger!LedgerNext
  BY <1>1, <1>5, CancelStep
<1>6. ASSUME NEW h \in HoldId, ReleaseHold(h, 1)
      PROVE  Ledger!LedgerNext
  BY <1>1, <1>6, ReleaseHoldStep
<1> QED BY <1>2, <1>3, <1>4, <1>5, <1>6 DEF RuntimeStep

\* A runtime that serves bundles too is still a capacity ledger: in every turn
\* of a bundle, in the middle of one that will be rolled back as well, nothing
\* is admitted beyond the limits and what a rollback gave back stays given back.
THEOREM BundlesImplementCapacityLedger == BundleSpec => ImplementsLedger
<1>1. BundleInit => Init
  BY DEF BundleInit
<1> QED BY <1>1, BundleInvInit, BundleInvNext, BundleTurns, BundleRefines,
           RefinementInit, PTL
        DEF BundleSpec, ImplementsLedger, Ledger!LedgerSpec

\* Nor does such a step touch what any caller may count on.
LEMMA RuntimeStepSafe ==
  TypeInv /\ Safety /\ [RuntimeStep]_vars => Safety' /\ AllFollow
<1> SUFFICES ASSUME TypeInv, Safety, [RuntimeStep]_vars
             PROVE  Safety' /\ AllFollow
  OBVIOUS
<1>1. CASE [DisciplinedNext]_vars
  BY <1>1, DisciplinedNextIsNext, SafetyNext, NextFollow
<1>2. CASE \/ \E spec \in HoldSpec, r \in ResourceId, now \in HoldClock :
                CreateHold(spec, r, now)
           \/ \E h \in HoldId : ReleaseHold(h, 1)
  <2>1. UNCHANGED <<resources, reservations, currentGen, history, nextReservationId>>
    BY <1>2 DEF CreateHold, ReleaseHold
  <2> QED BY <2>1, SafetyUntouched, UntouchedFollow
<1>3. ASSUME NEW q \in Request, NEW r \in ResourceId, NEW h \in HoldId,
             Commit(q, r, h)
      PROVE  Safety' /\ AllFollow
  BY <1>3, CommitSafe, CommitFollow
<1>4. ASSUME NEW id \in ReservationId, Cancel(id, reservations[id].generation)
      PROVE  Safety' /\ AllFollow
  BY <1>4, CancelSafe, GivingUpFollow
<1> QED BY <1>1, <1>2, <1>3, <1>4 DEF RuntimeStep

\* And it takes reservations along the paths of the transition table.
LEMMA RuntimeStepTravels ==
  TypeInv /\ Safety /\ Occurs /\ [RuntimeStep]_vars => AllTravel
<1> SUFFICES ASSUME TypeInv, Safety, Occurs, [RuntimeStep]_vars
             PROVE  AllTravel
  OBVIOUS
<1>1. CASE [DisciplinedNext]_vars
  BY <1>1, DisciplinedTravel
<1>2. CASE \/ \E spec \in HoldSpec, r \in ResourceId, now \in HoldClock :
                CreateHold(spec, r, now)
           \/ \E h \in HoldId : ReleaseHold(h, 1)
  <2>1. UNCHANGED reservations
    BY <1>2 DEF CreateHold, ReleaseHold
  <2> QED BY <2>1, QuietTravel
<1>3. ASSUME NEW q \in Request, NEW r \in ResourceId, NEW h \in HoldId,
             Commit(q, r, h)
      PROVE  AllTravel
  BY <1>3, CommitTravels
<1>4. ASSUME NEW id \in ReservationId, Cancel(id, reservations[id].generation)
      PROVE  AllTravel
  BY <1>4, GivingUpTravels
<1> QED BY <1>1, <1>2, <1>3, <1>4 DEF RuntimeStep

\* Nor does it change who owns a resource, in which boot.
LEMMA RuntimeStepBoots ==
  TypeInv /\ BootsSeen /\ [RuntimeStep]_vars => BootsSeen' /\ BootsKept
<1> SUFFICES ASSUME TypeInv, BootsSeen, [RuntimeStep]_vars
             PROVE  BootsSeen' /\ BootsKept
  OBVIOUS
<1>1. CASE [DisciplinedNext]_vars
  BY <1>1, DisciplinedNextIsNext, BootsNext
<1>2. CASE RuntimeStep /\ ~DisciplinedNext
  <2>1. UNCHANGED <<resources, workerBoots>>
    BY <1>2 DEF RuntimeStep, CreateHold, ReleaseHold, Commit, Cancel
  <2> QED BY <2>1, BootsUntouched
<1> QED BY <1>1, <1>2

\* The turns of a bundle leave standing what any caller may count on: nothing
\* is in use on a resource that is not available, nothing is consumed beyond
\* its promise, and the generations of a reservation have no gap.  A rollback,
\* which cancels reservations behind the callers' back, is no exception.
THEOREM BundlesKeepPromises ==
  BundleSpec =>
    [](InUseOnlyOnAvailable /\ ConsumptionWithinPromise /\ HistoryContiguous)
<1>1. BundleInv => TypeInv
  BY DEF BundleInv, IInv
<1>2. BundleInit => Safety
  BY SafetyInit DEF BundleInit
<1>3. Safety =>
        InUseOnlyOnAvailable /\ ConsumptionWithinPromise /\ HistoryContiguous
  BY DEF Safety, GenerationsInv
<1> QED BY <1>1, <1>2, <1>3, BundleInvInit, BundleInvNext, BundleTurns,
           RuntimeStepSafe, PTL DEF BundleSpec

\* Nor do bundles rewrite a generation, count evidence twice or make an older
\* process of a worker the owner of what it owned in a newer one.
THEOREM BundlesRewriteNothing ==
  BundleSpec =>
    GenerationsImmutable /\ ConsumedOncePerEvidence /\ OwnerBootNeverRegresses
<1>1. BundleInv => TypeInv
  BY DEF BundleInv, IInv
<1>2. BundleInit => Safety /\ BootsSeen
  BY SafetyInit, BootsInit DEF BundleInit
<1>3. BundleSpec => GenerationsImmutable /\ ConsumedOncePerEvidence
  BY <1>1, <1>2, BundleInvInit, BundleInvNext, BundleTurns, RuntimeStepSafe,
     FollowersImmutable, FollowersCountOnce, PTL
     DEF BundleSpec, GenerationsImmutable, ConsumedOncePerEvidence
<1>4. BundleSpec => OwnerBootNeverRegresses
  <2> SUFFICES ASSUME NEW r \in ResourceId, NEW w \in Worker,
                      NEW b \in {p.workerBoot : p \in Publications}
               PROVE  BundleSpec => [](Owns(w, r) /\ resources[r].ownerBoot = b =>
                                         [](Owns(w, r) => resources[r].ownerBoot >= b))
    BY DEF OwnerBootNeverRegresses
  <2>1. b \in Int
    BY PublicationFields
  <2>2. TypeInv /\ BootsSeen /\ Owns(w, r) /\ resources[r].ownerBoot = b
          => NotBefore(r, w, b)
    BY OwnerHasShown
  <2>3. TypeInv /\ TypeInv' /\ BootsKept /\ NotBefore(r, w, b) => NotBefore(r, w, b)'
    BY <2>1, KeptBoots
  <2>4. NotBefore(r, w, b) => (Owns(w, r) => resources[r].ownerBoot >= b)
    BY DEF NotBefore
  <2> QED BY <1>1, <1>2, <2>2, <2>3, <2>4, BundleInvInit, BundleInvNext, BundleTurns,
             RuntimeStepBoots, PTL DEF BundleSpec
<1> QED BY <1>3, <1>4

\* And every reservation, those a bundle makes and takes back included, goes
\* where the published transition table leads: Committed to Cancelled is a
\* path of it.
THEOREM BundlesFollowTable == BundleSpec => ShortCutsOnly
<1>1. BundleInv => TypeInv
  BY DEF BundleInv, IInv
<1>2. BundleInit => Safety /\ Occurs
  BY SafetyInit, OccursInit DEF BundleInit
<1> QED BY <1>1, <1>2, BundleInvInit, BundleInvNext, BundleTurns,
           RuntimeStepSafe, RuntimeStepTravels, OccursNext, TravellersOnTable,
           PTL DEF BundleSpec, ShortCutsOnly

=============================================================================
