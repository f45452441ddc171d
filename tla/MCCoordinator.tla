--------------------------- MODULE MCCoordinator ---------------------------
(***************************************************************************)
(* A small instance of Coordinator: a worker, the process that takes its   *)
(* place after a restart, and the client of the multi-process scenario.    *)
(***************************************************************************)
EXTENDS Coordinator, MCReservationRuntime

CONSTANTS first, restarted, client

Connections == {first, restarted, client}

ScenarioPeers ==
  [c \in Connections |->
     CASE c = first     -> [worker |-> "w1", boot |-> 1]
       [] c = restarted -> [worker |-> "w1", boot |-> 2]
       [] c = client    -> [worker |-> None, boot |-> 1]]

\* The publications of the two processes, the second of which may also have
\* been started for a resource of its own, and the newer one by which the
\* client revalidates the resource of the first.
FirstBoot == Pub(1, 1, "w1", 1, 2, {})
SecondBoot == Pub(1, 1, "w1", 2, 2, {})
OwnResource == Pub(2, 1, "w1", 2, 2, {})
Renewed == Pub(1, 2, "w1", 2, 2, {})

ScenarioPublications == {FirstBoot, SecondBoot, OwnResource, Renewed}

FirstEvidence == [worker |-> "w1", workerBoot |-> 1, generation |-> 1]

ScenarioMessages ==
  {[kind |-> "RequestReservation", request |-> Req("q1", "Hard", 2, W(0, 2))],
   [kind |-> "PublishResource", publication |-> Renewed],
   [kind |-> "Revalidate", publication |-> Renewed],
   [kind |-> "Activate", id |-> 2, generation |-> 1, evidence |-> FirstEvidence,
    at |-> 0],
   [kind |-> "Consume", id |-> 2, generation |-> 1, amount |-> 2,
    evidence |-> FirstEvidence],
   [kind |-> "Release", id |-> 2, generation |-> 1, evidence |-> FirstEvidence],
   [kind |-> "Shutdown"], [kind |-> "Malformed"]}

ScenarioRequests == {Req("q1", "Hard", 2, W(0, 2))}

=============================================================================
