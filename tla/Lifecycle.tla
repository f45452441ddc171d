----------------------------- MODULE Lifecycle -----------------------------
(***************************************************************************)
(* The lifecycle taxonomy of a reservation: its states, the states that    *)
(* hold capacity, and the transition table the header publishes.           *)
(***************************************************************************)
EXTENDS Integers, FiniteSets

Lifecycles ==
  { "Requested", "Planned", "Holding", "Held", "Committing", "Committed",
    "PendingActivation", "Activating", "Active", "PartiallyConsumed",
    "Consumed", "Modifying", "Renewing", "Releasing", "Released", "Expired",
    "Cancelled", "Superseded", "Failed", "Recovering",
    "RevalidationRequired", "Retired" }

\* States in which a reservation still counts against its resource.
CapacityHolding ==
  Lifecycles \ { "Requested", "Planned", "Released", "Expired", "Cancelled",
                 "Superseded", "Failed", "Retired" }

\* States in which a worker is using the reserved capacity.
InUse == {"Active", "PartiallyConsumed", "Consumed"}

\* A mutant of Disengaged: a released reservation can still be cancelled.
DisengagedUnlessReleased == {"Expired", "Cancelled"}

\* States in which release and cancel answer without doing anything.
Disengaged == {"Released", "Expired", "Cancelled"}

\* A mutant of Activatable: a released reservation activates again.
ActivatableAfterRelease ==
  {"Committed", "PendingActivation", "Activating", "Released"}

\* States activate accepts.
Activatable == {"Committed", "PendingActivation", "Activating"}

\* The published table: the states that may follow each state.
Successors(from) ==
  CASE from = "Requested"  -> {"Planned", "Failed", "Cancelled"}
    [] from = "Planned"    -> {"Holding", "Cancelled", "Failed"}
    [] from = "Holding"    -> {"Held", "Cancelled", "Failed"}
    [] from = "Held"       -> {"Committing", "Cancelled", "Releasing",
                               "Failed", "Expired"}
    [] from = "Committing" -> {"Committed", "Failed", "Cancelled"}
    [] from = "Committed"  -> {"PendingActivation", "Cancelled", "Expired",
                               "Modifying", "Renewing",
                               "RevalidationRequired"}
    [] from = "PendingActivation" ->
                              {"Activating", "Cancelled", "Expired",
                               "Modifying", "Renewing",
                               "RevalidationRequired", "Superseded"}
    [] from = "Activating" -> {"Active", "RevalidationRequired",
                               "Cancelled", "Failed"}
    [] from = "Active"     -> {"PartiallyConsumed", "Consumed", "Releasing",
                               "RevalidationRequired", "Expired",
                               "Modifying", "Renewing"}
    [] from = "PartiallyConsumed" ->
                              {"Consumed", "PartiallyConsumed", "Releasing",
                               "RevalidationRequired", "Modifying",
                               "Renewing", "Expired"}
    [] from = "Consumed"   -> {"Releasing", "Released",
                               "RevalidationRequired", "Expired"}
    [] from \in {"Modifying", "Renewing"} ->
                              {"Committed", "PendingActivation", "Active",
                               "Failed", "Superseded"}
    [] from = "Releasing"  -> {"Released", "Failed"}
    [] from = "Released"   -> {"Retired", "Superseded"}
    [] from = "Expired"    -> {"Released", "Retired", "Superseded",
                               "RevalidationRequired"}
    [] from = "Cancelled"  -> {"Released", "Retired"}
    [] from = "Superseded" -> {"Retired"}
    [] from = "Failed"     -> {"Requested", "Planned", "Retired",
                               "Recovering"}
    [] from = "Recovering" -> {"Committed", "PendingActivation",
                               "RevalidationRequired", "Failed"}
    [] from = "RevalidationRequired" ->
                              {"PendingActivation", "Activating",
                               "Committed", "Recovering", "Cancelled",
                               "Releasing", "Expired"}
    [] from = "Retired"    -> {}

CanTransition(from, to) == to \in Successors(from)

\* The states the table leads to from a state, in any number of transitions.
Reach ==
  [from \in Lifecycles |->
     LET after[n \in 0..Cardinality(Lifecycles)] ==
           IF n = 0 THEN {from}
           ELSE LET before == after[n - 1]
                IN  before \cup {to \in Lifecycles :
                                    \E l \in before : CanTransition(l, to)}
     IN  after[Cardinality(Lifecycles)]]

=============================================================================
