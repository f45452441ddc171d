--------------------------- MODULE MCPersistence ---------------------------
(***************************************************************************)
(* Small instances of Persistence.                                         *)
(***************************************************************************)
EXTENDS Persistence, MCReservationRuntime

\* Resource 1, unavailable at instant 1.
Maintained == {Pub(1, 1, "w1", 1, 2, {1})}

EarlyRequest == {Req("q1", "Hard", 2, W(0, 1))}
EarlyHold == {HoldOf(1, 1, 1, W(0, 1), TRUE)}

=============================================================================
