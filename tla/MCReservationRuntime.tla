------------------------ MODULE MCReservationRuntime ------------------------
(***************************************************************************)
(* Small instances of ReservationRuntime.  Each run takes the inputs it    *)
(* needs; an operation whose inputs are empty is never called in that run. *)
(***************************************************************************)
EXTENDS UndisciplinedCallers

\* A publication of resource id by worker w.
Pub(id, g, w, boot, capacity, unavailable) ==
  [id |-> id, generation |-> g, worker |-> w, workerBoot |-> boot,
   resourceClass |-> "cpu", totalCapacity |-> capacity,
   overbookRatio |-> 15000, availableFrom |-> 0, unavailable |-> unavailable]

\* A request without options, and its variations.
Req(q, strength, quantity, w) ==
  [requestId |-> q, resourceClass |-> "cpu", targetResource |-> None,
   quantity |-> quantity, partialAllowed |-> FALSE, minAcceptable |-> 1,
   window |-> w, strength |-> strength, owner |-> "o1",
   minResourceGeneration |-> 0, policyGeneration |-> 1,
   transferAllowed |-> TRUE]

HoldOf(h, g, quantity, w, commitAuthority) ==
  [holdId |-> h, holdGeneration |-> g, resourceClass |-> "cpu",
   quantity |-> quantity, window |-> w, commitAuthority |-> commitAuthority]

W(start, end) == [start |-> start, end |-> end]

NoInput == {}
OneResource == {1}
TwoResources == {1, 2}
OneWorker == {"w1"}
TwoWorkers == {"w1", "w2"}
Classes == {"cpu"}
Owners == {"o1", "o2"}
OneOwner == {"o2"}
OneRequest == {"q1"}
TwoRequests == {"q1", "q2"}
OnlyOne == {1}
OneAndTwo == {1, 2}
OnlyTwo == {2}
OnlyZero == {0}
ZeroAndOne == {0, 1}

-----------------------------------------------------------------------------
(* Contending claims on one and two resources.                             *)

OnePublication == {Pub(1, 1, "w1", 1, 2, {})}

TwoPublications == OnePublication \cup {Pub(2, 1, "w1", 1, 1, {1})}

OneHold == {HoldOf(1, 1, 2, W(0, 1), TRUE)}

TwoHolds == {HoldOf(1, 1, 2, W(0, 1), TRUE), HoldOf(2, 1, 1, W(1, 2), FALSE)}

ContendingRequests ==
  {Req("q1", "Hard", 1, W(0, 2)), Req("q2", "Hard", 2, W(0, 1)),
   Req("q2", "Soft", 1, W(1, 2)), Req("q2", "Soft", 0, W(0, 1))}

\* One more, for any quantity at no time.
ContendingAndTimeless == ContendingRequests \cup {Req("q2", "Hard", 3, NoWindow)}

-----------------------------------------------------------------------------
(* Evidence: generations of resource 1 and boots of its owners.            *)

TwoBoots == {Pub(1, 1, "w1", 1, 2, {}), Pub(1, 2, "w1", 2, 2, {})}

TwoOwners ==
  {Pub(1, 1, "w1", 1, 2, {}), Pub(1, 2, "w1", 2, 2, {}),
   Pub(1, 2, "w2", 1, 2, {}), Pub(1, 3, "w1", 1, 2, {})}

LoneRequest == {Req("q1", "Hard", 2, W(0, 2))}

-----------------------------------------------------------------------------
(* Modification.                                                           *)

NewSizes == {1, 3}
LaterWindow == {W(1, 2)}

=============================================================================
