------------------------ MODULE UndisciplinedCallers ------------------------
(***************************************************************************)
(* The disciplined callers of ReservationRuntime with one clause of their  *)
(* discipline dropped at a time: what the documentation promises and such  *)
(* a caller can see broken.                                                *)
(***************************************************************************)
EXTENDS RuntimeLedger

\* A resource is published again with a newer generation.
RepublishingSpec ==
  Init /\ [][\/ DisciplinedNext
             \/ \E p \in Publications : PublishResource(p)]_vars

\* A reservation is resized.
ResizingSpec ==
  Init /\ [][\/ DisciplinedNext
             \/ \E id \in ReservationId, g \in Generations,
                   quantity \in NewQuantities, policy \in PolicyGenerations :
                  Resize(id, g, quantity, policy)]_vars

\* activate is called on reservations that no longer hold capacity.
LateActivationSpec ==
  Init /\ [][\/ DisciplinedNext
             \/ \E id \in ReservationId, g \in Generations :
                  ActivateStale(id, g)]_vars

-----------------------------------------------------------------------------
(* Documented, and broken.                                                 *)

\* A generation that was released is not active again (README: RELEASED to
\* ACTIVE fails).
ReleasedNeverActive ==
  \A id \in ReservationId : Exists(id) =>
    (reservations[id].lifecycle = "Active" =>
       reservations[id].releaseGeneration = 0)

=============================================================================
