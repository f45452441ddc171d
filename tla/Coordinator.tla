---------------------------- MODULE Coordinator ----------------------------
(***************************************************************************)
(* The coordinator process: one listener, one thread per connection, and   *)
(* the runtime they share.  The threads take the runtime's lock for each   *)
(* call and hold nothing in between: when a worker's connection breaks,    *)
(* its thread lists the resources, then reads the owner of each without    *)
(* the lock, then invalidates those of its worker, while the other threads *)
(* go on.                                                                  *)
(*                                                                         *)
(* The peers are the worker process, which greets, registers, publishes    *)
(* and then waits, and clients, which ask one thing at a time.  Each peer  *)
(* awaits the answer to a message before it sends the next, so that a      *)
(* connection carries at most one request.  Answers are not in the state:  *)
(* no peer's next message depends on one.                                  *)
(***************************************************************************)
EXTENDS ReservationRuntime

CONSTANTS
  Connection,      \* bound: connections ever made
  Peer,            \* who makes each connection
  ClientMessages,  \* what a client may ask
  MaxThreads       \* threads after which the listener joins: 16

\* A client is no worker.
Peers == [worker : Worker \cup {None}, boot : Nat]

\* A message whose contents are among the inputs of the runtime.
WellFormed(m) ==
  /\ m.kind \in {"PublishResource", "Revalidate"} =>
       m.publication \in Publications
  /\ m.kind = "RequestReservation" => m.request \in Requests
  /\ m.kind \in {"Activate", "Consume", "Release"} =>
       /\ m.id \in ReservationId /\ m.generation \in 1..MaxGeneration
       /\ m.evidence \in Evidence
  /\ m.kind = "Activate" => m.at \in Time
  /\ m.kind = "Consume" => m.amount \in ConsumeAmounts

IsWorker(c) == Peer[c].worker # None

Greeting(c) ==
  [kind |-> "Hello", role |-> IF IsWorker(c) THEN "worker" ELSE "client",
   worker |-> Peer[c].worker]

ASSUME CoordinatorAssumption ==
  /\ Peer \in [Connection -> Peers]
  /\ None \notin Worker \cup Connection
  /\ \A c \in Connection : Greeting(c) # None
  /\ MaxThreads \in Nat
  /\ \A m \in ClientMessages : WellFormed(m)

VARIABLES
  link,        \* connection -> unused, waiting, served, fencing or closed
  alive,       \* connection -> its peer is there
  sent,        \* connection -> messages its peer has sent, as far as counted
  request,     \* connection -> the request not yet handled
  connWorker,  \* connection -> the worker registered on it
  todo,        \* connection -> resources its thread has still to look at
  target,      \* connection -> the resource its thread is about to invalidate
  listener,    \* deciding, accepting, joining, draining or stopped
  threads,     \* connections whose threads are in the listener's vector
  shutdown,
  source       \* history: resource -> connection its newest evidence came by

netVars == <<link, alive, sent, request, connWorker, todo, target, listener,
             threads, shutdown, source>>

allVars == <<vars, netVars>>

CoordinatorInit ==
  /\ Init
  /\ link = [c \in Connection |-> "unused"]
  /\ alive = [c \in Connection |-> FALSE]
  /\ sent = [c \in Connection |-> 0]
  /\ request = [c \in Connection |-> None]
  /\ connWorker = [c \in Connection |-> None]
  /\ todo = [c \in Connection |-> {}]
  /\ target = [c \in Connection |-> None]
  /\ listener = "deciding"
  /\ threads = {}
  /\ shutdown = FALSE
  /\ source = [r \in ResourceId |-> None]

-----------------------------------------------------------------------------
(* The peers.                                                              *)

\* The worker process publishes its one resource, always as generation 1.
Publishings(c) ==
  {[kind |-> "PublishResource", publication |-> p] :
     p \in {q \in Publications : /\ q.worker = Peer[c].worker
                                 /\ q.workerBoot = Peer[c].boot
                                 /\ q.generation = 1}}

\* What the peer of c sends next.
NextMessages(c) ==
  CASE sent[c] = 0 -> {Greeting(c)}
    [] sent[c] > 0 /\ ~IsWorker(c) -> ClientMessages
    [] sent[c] = 1 /\ IsWorker(c) ->
         {[kind |-> "Register", worker |-> Peer[c].worker]}
    [] sent[c] = 2 /\ IsWorker(c) -> Publishings(c)
    [] OTHER -> {}

Connect(c) ==
  /\ link[c] = "unused" /\ listener # "stopped"
  /\ link' = [link EXCEPT ![c] = "waiting"]
  /\ alive' = [alive EXCEPT ![c] = TRUE]
  /\ UNCHANGED <<vars, sent, request, connWorker, todo, target, listener,
                 threads, shutdown, source>>

Ask(c) ==
  /\ alive[c] /\ request[c] = None
  /\ link[c] \in {"waiting", "served"}
  /\ \E m \in NextMessages(c) : request' = [request EXCEPT ![c] = m]
  /\ sent' = [sent EXCEPT ![c] = IF @ < 3 THEN @ + 1 ELSE @]
  /\ UNCHANGED <<vars, link, alive, connWorker, todo, target, listener,
                 threads, shutdown, source>>

\* The peer's process ends: what it sent last may be read in full or not.
Die(c) ==
  /\ alive[c]
  /\ alive' = [alive EXCEPT ![c] = FALSE]
  /\ request' \in {request, [request EXCEPT ![c] = None]}
  /\ UNCHANGED <<vars, link, sent, connWorker, todo, target, listener,
                 threads, shutdown, source>>

-----------------------------------------------------------------------------
(* The thread of a connection.                                             *)

\* A mutant of RegisteredAs: any other message takes the registration back.
RegisteredByLast(w, m) ==
  IF m.kind \in {"Hello", "Register"} THEN m.worker ELSE None

\* The worker of a connection known as w, after message m.
RegisteredAs(w, m) ==
  IF m.kind = "Register" \/ (m.kind = "Hello" /\ m.role = "worker")
  THEN m.worker ELSE w

\* The call handleMessage makes to the runtime, when it is not refused.
Call(m) ==
  \/ m.kind = "PublishResource" /\ PublishResource(m.publication)
  \/ m.kind = "Revalidate" /\ RevalidateResource(m.publication)
  \/ /\ m.kind = "RequestReservation"
     /\ \E r \in ResourceId : Commit(m.request, r, None)
  \/ /\ m.kind = "Activate"
     /\ \/ Activate(m.id, m.generation, m.evidence, m.at)
        \/ ActivateStale(m.id, m.generation)
  \/ m.kind = "Consume" /\ Consume(m.id, m.generation, m.amount, m.evidence)
  \/ m.kind = "Release" /\ Release(m.id, m.generation, m.evidence)

\* The runtime refuses m, or m asks nothing of it but an answer.
Refused(m) == ~ENABLED Call(m)

\* An accepted m puts the evidence on its resource in the place of the old.
Renews(m) ==
  \/ m.kind = "PublishResource" /\ ~OldNews(m.publication)
  \/ m.kind = "Revalidate"

\* handleMessage, under the runtime's lock.
Handle(c, m) ==
  \/ /\ Call(m)
     /\ source' = IF Renews(m) THEN [source EXCEPT ![m.publication.id] = c]
                  ELSE source
  \/ Refused(m) /\ UNCHANGED <<vars, source>>

Serve(c) ==
  /\ link[c] = "served"
  /\ request[c] # None /\ request[c].kind # "Malformed"
  /\ request' = [request EXCEPT ![c] = None]
  /\ connWorker' = [connWorker EXCEPT ![c] = RegisteredAs(@, request[c])]
  /\ shutdown' = (shutdown \/ request[c].kind = "Shutdown")
  /\ Handle(c, request[c])
  /\ UNCHANGED <<link, alive, sent, todo, target, listener, threads>>

Published == {r \in ResourceId : resources[r] # None}

\* recvFrame gives nothing more, or nonsense: the thread leaves its loop and
\* lists the resources, if a worker was registered.
EndService(c) ==
  /\ link[c] = "served"
  /\ IF request[c] = None THEN ~alive[c] ELSE request[c].kind = "Malformed"
  /\ link' = [link EXCEPT ![c] = "fencing"]
  /\ todo' = [todo EXCEPT ![c] = IF connWorker[c] = None THEN {}
                                 ELSE Published]
  /\ UNCHANGED <<vars, alive, sent, request, connWorker, target, listener,
                 threads, shutdown, source>>

\* A mutant of Owned: the test on what is invalid already is the wrong way.
OwnedAndIdle(r, w) == resources[r].owner = w /\ ~resources[r].available

Owned(r, w) == resources[r].owner = w

\* A mutant of Rest: the loop does not advance.
WholeRest(c, r) == todo[c]

Rest(c, r) == todo[c] \ {r}

\* The owner is read through a pointer, without the lock.
ReadOwner(c) ==
  /\ link[c] = "fencing" /\ target[c] = None
  /\ \E r \in todo[c] :
       /\ todo' = [todo EXCEPT ![c] = Rest(c, r)]
       /\ target' = [target EXCEPT ![c] =
                       IF Owned(r, connWorker[c]) THEN r ELSE None]
  /\ UNCHANGED <<vars, link, alive, sent, request, connWorker, listener,
                 threads, shutdown, source>>

Fence(c) ==
  /\ target[c] # None
  /\ InvalidateResource(target[c])
  /\ target' = [target EXCEPT ![c] = None]
  /\ UNCHANGED <<link, alive, sent, request, connWorker, todo, listener,
                 threads, shutdown, source>>

\* The thread ends; a peer that is still there sees its connection closed.
Close(c) ==
  /\ link[c] = "fencing" /\ todo[c] = {} /\ target[c] = None
  /\ link' = [link EXCEPT ![c] = "closed"]
  /\ alive' = [alive EXCEPT ![c] = FALSE]
  /\ request' = [request EXCEPT ![c] = None]
  /\ UNCHANGED <<vars, sent, connWorker, todo, target, listener, threads,
                 shutdown, source>>

ConnectionThread(c) ==
  Serve(c) \/ EndService(c) \/ ReadOwner(c) \/ Fence(c) \/ Close(c)

-----------------------------------------------------------------------------
(* The listener.                                                           *)

OnlyListenerChanges ==
  UNCHANGED <<vars, alive, sent, request, connWorker, todo, target, shutdown,
              source>>

\* The head of the loop: shutdown is looked at here and not in accept.
Decide ==
  /\ listener = "deciding"
  /\ listener' = IF shutdown THEN "draining" ELSE "accepting"
  /\ UNCHANGED <<link, threads>>
  /\ OnlyListenerChanges

\* A mutant of TooMany: the vector is never found full.
NeverTooMany(S) == FALSE

\* Every thread since the last join counts, also those that have ended.
TooMany(S) == Cardinality(S) > MaxThreads

Accept(c) ==
  /\ listener = "accepting"
  /\ link[c] = "waiting"
  /\ link' = [link EXCEPT ![c] = "served"]
  /\ threads' = threads \cup {c}
  /\ listener' = IF TooMany(threads') THEN "joining" ELSE "deciding"
  /\ OnlyListenerChanges

\* accept fails, as it may when the peer has gone before: the loop is left.
AcceptFails(c) ==
  /\ listener = "accepting"
  /\ link[c] = "waiting" /\ ~alive[c]
  /\ link' = [link EXCEPT ![c] = "closed"]
  /\ listener' = "draining"
  /\ UNCHANGED threads
  /\ OnlyListenerChanges

Joined == \A c \in threads : link[c] = "closed"

Join ==
  /\ listener = "joining" /\ Joined
  /\ threads' = {}
  /\ listener' = "deciding"
  /\ UNCHANGED link
  /\ OnlyListenerChanges

\* The process ends, and with it the connections nobody accepted.
Stop ==
  /\ listener = "draining" /\ Joined
  /\ listener' = "stopped"
  /\ threads' = {}
  /\ link' = [c \in Connection |->
                IF link[c] = "waiting" THEN "closed" ELSE link[c]]
  /\ OnlyListenerChanges

Listener ==
  \/ Decide \/ Join \/ Stop
  \/ \E c \in Connection : Accept(c) \/ AcceptFails(c)

CoordinatorNext ==
  \/ Listener
  \/ \E c \in Connection :
       Connect(c) \/ Ask(c) \/ Die(c) \/ ConnectionThread(c)

\* Threads and listener go on whenever they can; peers owe nothing.
CoordinatorSpec ==
  /\ CoordinatorInit
  /\ [][CoordinatorNext]_allVars
  /\ WF_allVars(Listener)
  /\ \A c \in Connection : WF_allVars(ConnectionThread(c))

-----------------------------------------------------------------------------
(* Properties.                                                             *)

\* w owns r, which may be promised and used.
Supplies(w, r) ==
  resources[r] # None /\ resources[r].owner = w /\ resources[r].available

\* Once the connection of a worker process is closed, the evidence that came over it
\* makes nothing available any more, whatever other connections did between
\* its thread's list of resources, its look at each owner and its call (the
\* comment in serveConnection: a worker that dropped must have its resources
\* fenced).
EvidenceDiesWithItsConnection ==
  \A c \in Connection, r \in ResourceId :
    link[c] = "closed" /\ IsWorker(c) /\ source[r] = c =>
      ~Supplies(Peer[c].worker, r)

\* A worker that drops loses the resources it supplies at that moment, also
\* those whose evidence came over another connection.
DisconnectFences ==
  \A c \in Connection, r \in ResourceId :
    (/\ link[c] = "served" /\ ~alive[c] /\ connWorker[c] # None
     /\ Supplies(connWorker[c], r))
    ~> ~Supplies(connWorker[c], r)

\* No more than MaxThreads + 1 connections are served at a time (the comment
\* in main: bound concurrent connections).
ConnectionsBounded ==
  Cardinality({c \in Connection : link[c] \in {"served", "fencing"}})
    <= MaxThreads + 1

\* A listener that waits for its threads goes on once their peers have left:
\* nothing in the way they fence keeps a thread from its end.
JoinsEnd ==
  (/\ listener \in {"joining", "draining"}
   /\ \A c \in threads : ~alive[c])
  ~> listener \notin {"joining", "draining"}

=============================================================================
