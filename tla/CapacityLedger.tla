--------------------------- MODULE CapacityLedger ---------------------------
(***************************************************************************)
(* What the runtime promises about capacity, without saying how it keeps   *)
(* count.  A resource is opened once, with fixed limits.  A claimant (a    *)
(* reservation or a hold) claims capacity at most once: it is unused, then *)
(* live with a demand that never changes, then done for good.  A hold may  *)
(* hand its place over to the claim made with it.  Nothing is admitted     *)
(* that does not fit.                                                      *)
(***************************************************************************)
EXTENDS Sums, CapacityEnvelope

CONSTANTS ResourceId,
          Claimants  \* how many there may ever be

VARIABLES
  capacity, \* resource -> [status |-> "closed"], or "open" with its span, and
            \* its hard and soft limits by instant
  claims    \* claimant -> [status |-> "unused" or "done"] or a live claim

ledgerVars == <<capacity, claims>>

Claimant == 1..Claimants

Closed == [status |-> "closed"]
Unused == [status |-> "unused"]
Done == [status |-> "done"]

IsOpen(r) == capacity[r].status = "open"

Status(c, s) == claims[c].status = s

Demand(c, r, strengths, t) ==
  IF /\ Status(c, "live")
     /\ claims[c].resource = r
     /\ claims[c].strength \in strengths
     /\ Covers(claims[c].window, t)
  THEN claims[c].quantity ELSE 0

TotalDemand(r, strengths, t) ==
  SumTo([c \in Claimant |-> Demand(c, r, strengths, t)], Claimants)

\* No hard overbooking, at any instant.
Solvent ==
  \A r \in ResourceId : IsOpen(r) =>
    \A t \in capacity[r].span :
      TotalDemand(r, {"Hard"}, t) <= capacity[r].hard[t]

\* The live claim c is within the soft limit wherever it reaches.
WithinSoftLimit(c) ==
  LET r == claims[c].resource IN
  \A t \in capacity[r].span : Covers(claims[c].window, t) =>
    TotalDemand(r, {"Hard", "Soft"}, t) <= capacity[r].soft[t]

LedgerInit ==
  /\ capacity = [r \in ResourceId |-> Closed]
  /\ claims = [c \in Claimant |-> Unused]

Open(r) ==
  /\ ~IsOpen(r)
  /\ IsOpen(r)'
  /\ capacity' = [capacity EXCEPT ![r] = capacity'[r]]
  /\ UNCHANGED claims

\* c becomes live, in the place of the claimants in S.
Claim(c, S) ==
  /\ Status(c, "unused")
  /\ claims' = [other \in Claimant |->
                  IF other \in S THEN Done
                  ELSE IF other = c THEN claims'[c] ELSE claims[other]]
  /\ Status(c, "live")'
  /\ IsOpen(claims'[c].resource)
  /\ \A other \in S : /\ Status(other, "live")
                      /\ claims[other].resource = claims'[c].resource
  /\ claims'[c].strength = "Hard" => Solvent'
  /\ claims'[c].strength = "Soft" => WithinSoftLimit(c)'
  /\ UNCHANGED capacity

\* Live claims are given up, together.
GiveUp(S) ==
  /\ \A c \in S : Status(c, "live")
  /\ claims' = [c \in Claimant |-> IF c \in S THEN Done ELSE claims[c]]
  /\ UNCHANGED capacity

LedgerNext ==
  \/ \E r \in ResourceId : Open(r)
  \/ \E c \in Claimant :
       \/ Claim(c, {})
       \/ \E other \in Claimant \ {c} : Claim(c, {other})
  \/ \E S \in SUBSET Claimant : GiveUp(S)

LedgerSpec == LedgerInit /\ [][LedgerNext]_ledgerVars

=============================================================================
