------------------------- MODULE CoordinatorProofs -------------------------
(***************************************************************************)
(* The coordinator for any number of connections, peers and messages.      *)
(* Whatever the threads interleave is a behaviour of the runtime under     *)
(* some caller, so that what is proved of the runtime holds of the         *)
(* coordinator.  Two facts are its own: the number of threads is bounded,  *)
(* and the evidence of a worker process dies with its connection.          *)
(***************************************************************************)
EXTENDS Coordinator, ReservationRuntimeProofs, FiniteSetTheorems

USE RuntimeAssumption, CoordinatorAssumption

Links == {"unused", "waiting", "served", "fencing", "closed"}

TotalOn(f, S) == f = [x \in S |-> f[x]]

\* The variables of the coordinator keep their types.
NetTyped ==
  /\ link \in [Connection -> Links]
  /\ alive \in [Connection -> BOOLEAN]
  /\ sent \in [Connection -> 0..3]
  /\ TotalOn(request, Connection)
  /\ \A c \in Connection : request[c] # None => WellFormed(request[c])
  /\ TotalOn(connWorker, Connection)
  /\ todo \in [Connection -> SUBSET ResourceId]
  /\ target \in [Connection -> ResourceId \cup {None}]
  /\ TotalOn(source, ResourceId)

\* The names of the peers and of what they say.
LEMMA NextMessagesFormed ==
  ASSUME NEW c \in Connection, NEW m \in NextMessages(c)
  PROVE  WellFormed(m)
<1>1. CASE m \in ClientMessages
  BY <1>1
<1>2. CASE m = Greeting(c)
  BY <1>2 DEF Greeting, WellFormed
<1>3. CASE m = [kind |-> "Register", worker |-> Peer[c].worker]
  BY <1>3 DEF WellFormed
<1>4. CASE m \in Publishings(c)
  BY <1>4 DEF Publishings, WellFormed
<1> QED BY <1>1, <1>2, <1>3, <1>4 DEF NextMessages

\* An accepted call is an operation of the runtime with inputs of its callers.
LEMMA CallIsNext ==
  ASSUME NEW m, WellFormed(m), Call(m)
  PROVE  Next
<1>1. CASE m.kind = "PublishResource" /\ PublishResource(m.publication)
  BY <1>1 DEF WellFormed, Next
<1>2. CASE m.kind = "Revalidate" /\ RevalidateResource(m.publication)
  BY <1>2 DEF WellFormed, Next, Everyday
<1>3. CASE /\ m.kind = "RequestReservation"
           /\ \E r \in ResourceId : Commit(m.request, r, None)
  BY <1>3 DEF WellFormed, Next
<1>4. CASE m.kind = "Activate" /\ Activate(m.id, m.generation, m.evidence, m.at)
  BY <1>4 DEF WellFormed, Next, Everyday, Generations
<1>5. CASE m.kind = "Activate" /\ ActivateStale(m.id, m.generation)
  BY <1>5 DEF WellFormed, Next, Generations
<1>6. CASE m.kind = "Consume" /\ Consume(m.id, m.generation, m.amount, m.evidence)
  BY <1>6 DEF WellFormed, Next, Everyday, Generations
<1>7. CASE m.kind = "Release" /\ Release(m.id, m.generation, m.evidence)
  BY <1>7 DEF WellFormed, Next, Everyday, Generations
<1> QED BY <1>1, <1>2, <1>3, <1>4, <1>5, <1>6, <1>7 DEF Call

\* A step of the coordinator is a step of the runtime, or none.
LEMMA StepRefines ==
  ASSUME NetTyped, [CoordinatorNext]_allVars
  PROVE  [Next]_vars
<1>1. ASSUME NEW c \in Connection, Serve(c)
      PROVE  [Next]_vars
  <2>1. WellFormed(request[c])
    BY <1>1 DEF Serve, NetTyped
  <2>2. Call(request[c]) \/ UNCHANGED vars
    BY <1>1 DEF Serve, Handle
  <2> QED BY <2>1, <2>2, CallIsNext
<1>2. ASSUME NEW c \in Connection, Fence(c)
      PROVE  [Next]_vars
  <2>1. target[c] \in ResourceId
    BY <1>2 DEF Fence, NetTyped
  <2> QED BY <1>2, <2>1 DEF Fence, Next, Everyday
<1>3. ASSUME NEW c \in Connection,
             \/ Connect(c) \/ Ask(c) \/ Die(c) \/ EndService(c)
             \/ ReadOwner(c) \/ Close(c)
      PROVE  UNCHANGED vars
  BY <1>3 DEF Connect, Ask, Die, EndService, ReadOwner, Close
<1>4. ASSUME Listener
      PROVE  UNCHANGED vars
  BY <1>4 DEF Listener, Decide, Join, Stop, Accept, AcceptFails,
              OnlyListenerChanges
<1>5. ASSUME UNCHANGED allVars
      PROVE  UNCHANGED vars
  BY <1>5 DEF allVars
<1> QED BY <1>1, <1>2, <1>3, <1>4, <1>5 DEF CoordinatorNext, ConnectionThread

\* An update of one entry of a function.
LEMMA TotalUpdate ==
  ASSUME NEW S, NEW f, TotalOn(f, S), NEW x \in S, NEW v,
         NEW g, g = [f EXCEPT ![x] = v]
  PROVE  TotalOn(g, S) /\ \A y \in S : g[y] = IF y = x THEN v ELSE f[y]
BY DEF TotalOn

LEMMA NetTypesKept ==
  ASSUME NetTyped, [CoordinatorNext]_allVars
  PROVE  NetTyped'
<1> USE DEF NetTyped, Links
<1>1. ASSUME NEW c \in Connection, Serve(c)
      PROVE  NetTyped'
  <2>1. /\ request' = [request EXCEPT ![c] = None]
        /\ connWorker' = [connWorker EXCEPT ![c] = RegisteredAs(@, request[c])]
        /\ UNCHANGED <<link, alive, sent, todo, target>>
    BY <1>1 DEF Serve
  <2>2. TotalOn(request, Connection)' /\ TotalOn(connWorker, Connection)'
    BY <2>1 DEF TotalOn
  <2>3. \A d \in Connection : request'[d] # None => WellFormed(request[d])
    BY <2>1 DEF TotalOn
  <2>4. \A d \in Connection : request'[d] # None => WellFormed(request'[d])
    BY <2>1, <2>3 DEF TotalOn
  <2>5. TotalOn(source, ResourceId)'
    BY <1>1 DEF Serve, Handle, TotalOn
  <2> QED BY <2>1, <2>2, <2>4, <2>5 DEF WellFormed
<1>2. ASSUME NEW c \in Connection, Ask(c)
      PROVE  NetTyped'
  <2> PICK m \in NextMessages(c) : request' = [request EXCEPT ![c] = m]
    BY <1>2 DEF Ask
  <2>1. WellFormed(m)
    BY NextMessagesFormed
  <2>2. /\ sent' = [sent EXCEPT ![c] = IF @ < 3 THEN @ + 1 ELSE @]
        /\ UNCHANGED <<link, alive, connWorker, todo, target, source>>
    BY <1>2 DEF Ask
  <2>3. TotalOn(request, Connection)'
    BY DEF TotalOn
  <2>4. \A d \in Connection : request'[d] # None => WellFormed(request'[d])
    BY <2>1 DEF TotalOn
  <2>5. sent' \in [Connection -> 0..3]
    BY <2>2
  <2> QED BY <2>2, <2>3, <2>4, <2>5 DEF WellFormed, TotalOn
<1>3. ASSUME NEW c \in Connection, Die(c) \/ Close(c)
      PROVE  NetTyped'
  <2>1. request' = request \/ request' = [request EXCEPT ![c] = None]
    BY <1>3 DEF Die, Close
  <2>2. TotalOn(request, Connection)'
    BY <2>1 DEF TotalOn
  <2>3. \A d \in Connection : request'[d] # None => WellFormed(request'[d])
    BY <2>1 DEF TotalOn
  <2>4. link' \in [Connection -> Links] /\ alive' \in [Connection -> BOOLEAN]
    BY <1>3 DEF Die, Close
  <2>5. UNCHANGED <<sent, connWorker, todo, target, source>>
    BY <1>3 DEF Die, Close
  <2> QED BY <2>2, <2>3, <2>4, <2>5 DEF WellFormed, TotalOn
<1>4. ASSUME NEW c \in Connection, Connect(c)
      PROVE  NetTyped'
  <2>1. link' \in [Connection -> Links] /\ alive' \in [Connection -> BOOLEAN]
    BY <1>4 DEF Connect
  <2>2. UNCHANGED <<sent, request, connWorker, todo, target, source>>
    BY <1>4 DEF Connect
  <2> QED BY <2>1, <2>2 DEF WellFormed, TotalOn
<1>5. ASSUME NEW c \in Connection, EndService(c)
      PROVE  NetTyped'
  <2>1. link' \in [Connection -> Links] /\ todo' \in [Connection -> SUBSET ResourceId]
    BY <1>5 DEF EndService, Published
  <2>2. UNCHANGED <<alive, sent, request, connWorker, target, source>>
    BY <1>5 DEF EndService
  <2> QED BY <2>1, <2>2 DEF WellFormed, TotalOn
<1>6. ASSUME NEW c \in Connection, ReadOwner(c) \/ Fence(c)
      PROVE  NetTyped'
  <2>1. /\ todo' \in [Connection -> SUBSET ResourceId]
        /\ target' \in [Connection -> ResourceId \cup {None}]
    BY <1>6 DEF ReadOwner, Fence, Rest
  <2>2. UNCHANGED <<link, alive, sent, request, connWorker, source>>
    BY <1>6 DEF ReadOwner, Fence
  <2> QED BY <2>1, <2>2 DEF WellFormed, TotalOn
<1>7. ASSUME Listener
      PROVE  NetTyped'
  <2>1. UNCHANGED <<alive, sent, request, connWorker, todo, target, source>>
    BY <1>7 DEF Listener, Decide, Join, Stop, Accept, AcceptFails,
                OnlyListenerChanges
  <2>2. link' \in [Connection -> Links]
    BY <1>7 DEF Listener, Decide, Join, Stop, Accept, AcceptFails
  <2> QED BY <2>1, <2>2 DEF WellFormed, TotalOn
<1>8. ASSUME UNCHANGED allVars
      PROVE  NetTyped'
  <2>1. UNCHANGED <<link, alive, sent, request, connWorker, todo, target, source>>
    BY <1>8 DEF allVars, netVars
  <2> QED BY <2>1 DEF WellFormed, TotalOn
<1> QED BY <1>1, <1>2, <1>3, <1>4, <1>5, <1>6, <1>7, <1>8
        DEF CoordinatorNext, ConnectionThread

LEMMA NetTypesInit == CoordinatorInit => NetTyped
BY DEF CoordinatorInit, NetTyped, Links, TotalOn

\* Whatever the listener, the threads and the peers do, the runtime behaves
\* as its specification allows: the coordinator adds callers and no behaviour.
THEOREM RuntimeServed == CoordinatorSpec => Spec
<1>1. CoordinatorInit => Init
  BY DEF CoordinatorInit
<1>2. NetTyped /\ [CoordinatorNext]_allVars => [Next]_vars /\ NetTyped'
  BY StepRefines, NetTypesKept
<1> QED BY NetTypesInit, <1>1, <1>2, PTL DEF CoordinatorSpec, Spec

-----------------------------------------------------------------------------
(* The number of threads.                                                  *)

Live == {c \in Connection : link[c] \in {"served", "fencing"}}

\* The vector holds every thread that is still there, and there is room in it
\* for one more whenever the listener is about to accept.
ThreadsInv ==
  /\ IsFiniteSet(threads)
  /\ Live \subseteq threads
  /\ Cardinality(threads) <= MaxThreads + 1
  /\ listener \in {"deciding", "accepting"} => Cardinality(threads) <= MaxThreads

LEMMA ThreadsInit == CoordinatorInit => ThreadsInv
BY FS_EmptySet DEF CoordinatorInit, ThreadsInv, Live

LEMMA ThreadsKept ==
  ASSUME NetTyped, ThreadsInv, [CoordinatorNext]_allVars
  PROVE  ThreadsInv'
<1> USE DEF ThreadsInv
<1>1. ASSUME UNCHANGED <<threads, listener>>, Live' \subseteq Live
      PROVE  ThreadsInv'
  BY <1>1
<1>2. ASSUME NEW c \in Connection,
             \/ Connect(c) \/ Ask(c) \/ Die(c) \/ Serve(c) \/ EndService(c)
             \/ ReadOwner(c) \/ Fence(c) \/ Close(c)
      PROVE  ThreadsInv'
  <2>1. UNCHANGED <<threads, listener>>
    BY <1>2 DEF Connect, Ask, Die, Serve, EndService, ReadOwner, Fence, Close
  <2>2. Live' \subseteq Live
    BY <1>2 DEF Connect, Ask, Die, Serve, EndService, ReadOwner, Fence, Close,
                Live, NetTyped
  <2> QED BY <2>1, <2>2, <1>1
<1>3. CASE Decide
  BY <1>3 DEF Decide, OnlyListenerChanges, Live
<1>4. ASSUME NEW c \in Connection, Accept(c)
      PROVE  ThreadsInv'
  <2>1. /\ listener = "accepting" /\ threads' = threads \cup {c}
        /\ listener' = IF TooMany(threads') THEN "joining" ELSE "deciding"
        /\ link' = [link EXCEPT ![c] = "served"]
    BY <1>4 DEF Accept
  <2>2. IsFiniteSet(threads')
        /\ Cardinality(threads') = IF c \in threads THEN Cardinality(threads)
                                   ELSE Cardinality(threads) + 1
    BY <2>1, FS_AddElement
  <2>3. Cardinality(threads) \in Nat
    BY FS_CardinalityType
  <2>4. Cardinality(threads') <= MaxThreads + 1
    BY <2>1, <2>2, <2>3
  <2>5. listener' = "deciding" => Cardinality(threads') <= MaxThreads
    <3>1. Cardinality(threads') \in Nat
      BY <2>2, <2>3
    <3> QED BY <2>1, <3>1 DEF TooMany
  <2>6. listener' \in {"joining", "deciding"}
    BY <2>1
  <2>7. Live' \subseteq threads'
    BY <2>1 DEF Live, NetTyped
  <2> QED BY <2>2, <2>4, <2>5, <2>6, <2>7
<1>5. ASSUME NEW c \in Connection, AcceptFails(c)
      PROVE  ThreadsInv'
  <2>1. Live' \subseteq Live
    BY <1>5 DEF AcceptFails, Live, NetTyped
  <2> QED BY <1>5, <2>1 DEF AcceptFails
<1>6. CASE Join \/ Stop
  <2>1. threads' = {} /\ Joined
    BY <1>6 DEF Join, Stop
  <2>2. Live' = {}
    BY <1>6, <2>1 DEF Join, Stop, Joined, Live, NetTyped
  <2> QED BY <2>1, <2>2, FS_EmptySet
<1>7. CASE UNCHANGED allVars
  BY <1>7 DEF allVars, netVars, Live
<1> QED BY <1>2, <1>3, <1>4, <1>5, <1>6, <1>7
        DEF CoordinatorNext, ConnectionThread, Listener

\* However many connections are made, and whatever the order in which their
\* threads end, no more than MaxThreads + 1 are served at a time.
THEOREM Bounded == CoordinatorSpec => []ConnectionsBounded
<1>1. ThreadsInv => ConnectionsBounded
  <2> SUFFICES ASSUME ThreadsInv PROVE ConnectionsBounded
    OBVIOUS
  <2>1. Cardinality(Live) <= Cardinality(threads) /\ IsFiniteSet(Live)
    BY FS_Subset DEF ThreadsInv
  <2>2. Cardinality(Live) \in Nat /\ Cardinality(threads) \in Nat
    BY <2>1, FS_CardinalityType DEF ThreadsInv
  <2> QED BY <2>1, <2>2 DEF ThreadsInv, ConnectionsBounded, Live
<1>2. NetTyped /\ ThreadsInv /\ [CoordinatorNext]_allVars
        => NetTyped' /\ ThreadsInv'
  BY NetTypesKept, ThreadsKept
<1> QED BY NetTypesInit, ThreadsInit, <1>1, <1>2, PTL DEF CoordinatorSpec

-----------------------------------------------------------------------------
(* The evidence of a worker process.                                       *)

Registration(c) == [kind |-> "Register", worker |-> Peer[c].worker]

\* The worker process follows its program: what its connection carries goes
\* with how much it has sent, and it is registered before it publishes.
Scripted ==
  \A c \in Connection : IsWorker(c) =>
    /\ link[c] = "unused" => sent[c] = 0
    /\ sent[c] = 0 => request[c] = None
    /\ sent[c] = 1 => request[c] \in {None, Greeting(c)}
    /\ sent[c] = 2 => request[c] \in {None, Registration(c)}
    /\ sent[c] = 3 => request[c] \in {None} \cup Publishings(c)
    /\ sent[c] = 1 /\ request[c] = None /\ alive[c] =>
         connWorker[c] = Peer[c].worker
    /\ sent[c] \in 2..3 => connWorker[c] = Peer[c].worker

\* Evidence came over a connection that was served, and by a worker process
\* only after it was registered.
Sourced ==
  \A c \in Connection, r \in ResourceId : source[r] = c =>
    /\ link[c] \in {"served", "fencing", "closed"}
    /\ IsWorker(c) => connWorker[c] = Peer[c].worker

\* What a worker process supplies by its own evidence is still to be looked
\* at, or about to be invalidated, when its thread has left its loop.
Covered ==
  \A c \in Connection, r \in ResourceId :
    /\ source[r] = c /\ IsWorker(c) /\ Supplies(Peer[c].worker, r)
    => \/ link[c] = "served"
       \/ link[c] = "fencing" /\ (r \in todo[c] \/ target[c] = r)

EvidenceInv == TypeInv /\ NetTyped /\ Scripted /\ Sourced /\ Covered

LEMMA EvidenceInit == CoordinatorInit => EvidenceInv
<1> SUFFICES ASSUME CoordinatorInit PROVE EvidenceInv
  OBVIOUS
<1>1. TypeInv /\ NetTyped
  BY TypeInit, NetTypesInit DEF CoordinatorInit
<1>2. Scripted /\ Sourced /\ Covered
  BY DEF CoordinatorInit, Scripted, Sourced, Covered
<1> QED BY <1>1, <1>2 DEF EvidenceInv

\* A message of the worker process leaves it registered.
LEMMA RegistersItself ==
  ASSUME NetTyped, Scripted, NEW c \in Connection, IsWorker(c), request[c] # None
  PROVE  /\ RegisteredAs(connWorker[c], request[c]) = Peer[c].worker
         /\ sent[c] \in 1..3
<1>1. sent[c] \in 0..3 /\ sent[c] # 0
  BY DEF NetTyped, Scripted
<1>2. CASE sent[c] = 1
  <2>1. request[c] = Greeting(c)
    BY <1>2 DEF Scripted
  <2>2. /\ request[c].kind = "Hello" /\ request[c].role = "worker"
        /\ request[c].worker = Peer[c].worker
    BY <2>1 DEF Greeting
  <2> QED BY <1>2, <2>2 DEF RegisteredAs
<1>3. CASE sent[c] = 2
  <2>1. request[c] = Registration(c)
    BY <1>3 DEF Scripted
  <2>2. request[c].kind = "Register" /\ request[c].worker = Peer[c].worker
    BY <2>1 DEF Registration
  <2> QED BY <1>3, <2>2 DEF RegisteredAs
<1>4. CASE sent[c] = 3
  <2>1. request[c] \in Publishings(c) /\ connWorker[c] = Peer[c].worker
    BY <1>4 DEF Scripted
  <2>2. request[c].kind = "PublishResource"
    BY <2>1 DEF Publishings
  <2> QED BY <1>4, <2>1, <2>2 DEF RegisteredAs
<1> QED BY <1>1, <1>2, <1>3, <1>4

LEMMA ScriptKept ==
  ASSUME NetTyped, Scripted, [CoordinatorNext]_allVars
  PROVE  Scripted'
<1>1. ASSUME UNCHANGED <<sent, request, connWorker>>,
             \A c \in Connection : /\ link'[c] = "unused" => link[c] = "unused"
                                   /\ alive'[c] => alive[c] \/ link[c] = "unused"
      PROVE  Scripted'
  BY <1>1 DEF Scripted, IsWorker
<1>2. ASSUME NEW c \in Connection, Serve(c)
      PROVE  Scripted'
  <2>1. /\ request' = [request EXCEPT ![c] = None]
        /\ connWorker' = [connWorker EXCEPT ![c] =
                            RegisteredAs(connWorker[c], request[c])]
        /\ UNCHANGED <<sent, alive, link>> /\ request[c] # None
    BY <1>2 DEF Serve
  <2>2. /\ request'[c] = None
        /\ connWorker'[c] = RegisteredAs(connWorker[c], request[c])
        /\ \A d \in Connection \ {c} : /\ request'[d] = request[d]
                                       /\ connWorker'[d] = connWorker[d]
    BY <2>1 DEF NetTyped, TotalOn
  <2>3. IsWorker(c) => connWorker'[c] = Peer[c].worker
    BY <2>1, <2>2, RegistersItself
  <2> QED BY <2>1, <2>2, <2>3 DEF Scripted
<1>3. ASSUME NEW c \in Connection, Ask(c)
      PROVE  Scripted'
  <2> PICK m \in NextMessages(c) : request' = [request EXCEPT ![c] = m]
    BY <1>3 DEF Ask
  <2>1. /\ alive[c] /\ request[c] = None /\ link[c] # "unused"
        /\ sent' = [sent EXCEPT ![c] = IF sent[c] < 3 THEN sent[c] + 1 ELSE sent[c]]
        /\ UNCHANGED <<alive, connWorker, link>>
    BY <1>3 DEF Ask
  <2>2. /\ request'[c] = m
        /\ sent'[c] = IF sent[c] < 3 THEN sent[c] + 1 ELSE sent[c]
        /\ sent[c] \in 0..3
        /\ \A d \in Connection \ {c} : /\ request'[d] = request[d]
                                       /\ sent'[d] = sent[d]
    BY <2>1 DEF NetTyped, TotalOn
  <2>3. ASSUME IsWorker(c)
        PROVE  /\ sent[c] = 0 => m = Greeting(c)
               /\ sent[c] = 1 => m = Registration(c)
               /\ sent[c] = 2 => m \in Publishings(c)
               /\ sent[c] # 3
    BY <2>2, <2>3 DEF NextMessages, Registration
  <2>4. IsWorker(c) /\ sent[c] > 0 => connWorker[c] = Peer[c].worker
    BY <2>1, <2>2 DEF Scripted
  <2>5. CASE ~IsWorker(c)
    BY <2>1, <2>2, <2>5 DEF Scripted, IsWorker
  <2>6. CASE IsWorker(c)
    <3>1. /\ sent'[c] = 1 => request'[c] = Greeting(c)
          /\ sent'[c] = 2 => request'[c] = Registration(c)
          /\ sent'[c] = 3 => request'[c] \in Publishings(c)
          /\ sent'[c] \in 1..3 /\ link'[c] # "unused"
      BY <2>1, <2>2, <2>3, <2>6
    <3>2. sent'[c] \in 2..3 => connWorker'[c] = Peer[c].worker
      BY <2>1, <2>2, <2>4, <2>6
    <3>3. sent'[c] = 1 => request'[c] # None
      BY <3>1
    <3> QED BY <2>1, <2>2, <3>1, <3>2, <3>3 DEF Scripted, IsWorker
  <2> QED BY <2>5, <2>6
<1>4. ASSUME NEW c \in Connection, Die(c) \/ Close(c)
      PROVE  Scripted'
  <2>1. /\ request' \in {request, [request EXCEPT ![c] = None]}
        /\ alive' = [alive EXCEPT ![c] = FALSE]
        /\ UNCHANGED <<sent, connWorker>>
        /\ \A d \in Connection : link'[d] = "unused" => link[d] = "unused"
    BY <1>4 DEF Die, Close, NetTyped
  <2>2. /\ ~alive'[c]
        /\ request'[c] \in {request[c], None}
        /\ \A d \in Connection \ {c} : /\ request'[d] = request[d]
                                       /\ alive'[d] = alive[d]
    BY <2>1 DEF NetTyped, TotalOn
  <2> QED BY <2>1, <2>2 DEF Scripted, IsWorker
<1>5. ASSUME NEW c \in Connection,
             Connect(c) \/ EndService(c) \/ ReadOwner(c) \/ Fence(c)
      PROVE  Scripted'
  <2>1. UNCHANGED <<sent, request, connWorker>>
    BY <1>5 DEF Connect, EndService, ReadOwner, Fence
  <2>2. \A d \in Connection : /\ link'[d] = "unused" => link[d] = "unused"
                              /\ alive'[d] => alive[d] \/ link[d] = "unused"
    BY <1>5 DEF Connect, EndService, ReadOwner, Fence, NetTyped
  <2> QED BY <2>1, <2>2, <1>1
<1>6. CASE Listener
  <2>1. UNCHANGED <<sent, request, connWorker, alive>>
    BY <1>6 DEF Listener, Decide, Join, Stop, Accept, AcceptFails,
                OnlyListenerChanges
  <2>2. \A d \in Connection : link'[d] = "unused" => link[d] = "unused"
    BY <1>6 DEF Listener, Decide, Join, Stop, Accept, AcceptFails, NetTyped
  <2> QED BY <2>1, <2>2, <1>1
<1>7. CASE UNCHANGED allVars
  BY <1>7, <1>1 DEF allVars, netVars
<1> QED BY <1>2, <1>3, <1>4, <1>5, <1>6, <1>7
        DEF CoordinatorNext, ConnectionThread

\* What an accepted call does to the resources: it changes at most the one of
\* its publication, and that only together with the source.
LEMMA CallChanges ==
  ASSUME NEW m, WellFormed(m), Call(m), NEW r \in ResourceId, TypeInv,
         ~(Renews(m) /\ r = m.publication.id)
  PROVE  resources'[r] = resources[r]
<1>1. CASE m.kind = "PublishResource" /\ PublishResource(m.publication)
  <2>1. m.publication \in Publications
    BY <1>1 DEF WellFormed
  <2>2. m.publication.id \in ResourceId
    BY <2>1, PublicationFields
  <2>3. CASE OldNews(m.publication)
    BY <1>1, <2>3 DEF PublishResource
  <2>4. CASE ~OldNews(m.publication)
    BY <1>1, <2>2, <2>4 DEF PublishResource, Install, Renews, TypeInv, TypeOK
  <2> QED BY <2>3, <2>4
<1>2. CASE m.kind = "Revalidate" /\ RevalidateResource(m.publication)
  <2>1. r # m.publication.id
    BY <1>2 DEF Renews
  <2> QED BY <1>2, <2>1 DEF RevalidateResource, TypeInv, TypeOK
<1>3. CASE /\ m.kind = "RequestReservation"
           /\ \E q \in ResourceId : Commit(m.request, q, None)
  BY <1>3 DEF Commit
<1>4. CASE \/ Activate(m.id, m.generation, m.evidence, m.at)
           \/ ActivateStale(m.id, m.generation)
           \/ Consume(m.id, m.generation, m.amount, m.evidence)
           \/ Release(m.id, m.generation, m.evidence)
  BY <1>4 DEF Activate, ActivateStale, Consume, Release, OnlyReservationsChange
<1> QED BY <1>1, <1>2, <1>3, <1>4 DEF Call

\* The source of every resource but the one renewed stays, and the renewed one
\* has the connection that is being served.
LEMMA ServeSource ==
  ASSUME TypeInv, NetTyped, NEW c \in Connection, Serve(c), NEW r \in ResourceId
  PROVE  \/ source'[r] = c
         \/ source'[r] = source[r] /\ resources'[r] = resources[r]
<1> DEFINE m == request[c]
<1>1. WellFormed(m)
  BY DEF Serve, NetTyped
<1>2. CASE Refused(m) /\ UNCHANGED <<vars, source>>
  BY <1>2 DEF vars
<1>3. CASE /\ Call(m)
           /\ source' = IF Renews(m) THEN [source EXCEPT ![m.publication.id] = c]
                        ELSE source
  <2>1. CASE Renews(m) /\ r = m.publication.id
    BY <1>3, <2>1 DEF NetTyped, TotalOn
  <2>2. CASE ~(Renews(m) /\ r = m.publication.id)
    <3>1. source'[r] = source[r]
      BY <1>3, <2>2 DEF NetTyped, TotalOn
    <3>2. resources'[r] = resources[r]
      BY <1>1, <1>3, <2>2, CallChanges
    <3> QED BY <3>1, <3>2
  <2> QED BY <2>1, <2>2
<1> QED BY <1>2, <1>3 DEF Serve, Handle

LEMMA SourcedKept ==
  ASSUME TypeInv, NetTyped, Scripted, Sourced, [CoordinatorNext]_allVars
  PROVE  Sourced'
<1>1. ASSUME UNCHANGED <<source, connWorker>>,
             \A c \in Connection : link[c] \in {"served", "fencing", "closed"} =>
               link'[c] \in {"served", "fencing", "closed"}
      PROVE  Sourced'
  BY <1>1 DEF Sourced, IsWorker
<1>2. ASSUME NEW c \in Connection, Serve(c)
      PROVE  Sourced'
  <2>1. /\ connWorker' = [connWorker EXCEPT ![c] =
                            RegisteredAs(connWorker[c], request[c])]
        /\ link' = link /\ link[c] = "served" /\ request[c] # None
    BY <1>2 DEF Serve
  <2>2. IsWorker(c) => connWorker'[c] = Peer[c].worker
    BY <2>1, RegistersItself DEF NetTyped, TotalOn
  <2>3. \A d \in Connection \ {c} : connWorker'[d] = connWorker[d]
    BY <2>1 DEF NetTyped, TotalOn
  <2>4. \A r \in ResourceId : source'[r] = c \/ source'[r] = source[r]
    BY <1>2, ServeSource
  <2> QED BY <2>1, <2>2, <2>3, <2>4 DEF Sourced, IsWorker
<1>3. ASSUME NEW c \in Connection,
             \/ Connect(c) \/ Ask(c) \/ Die(c) \/ EndService(c)
             \/ ReadOwner(c) \/ Fence(c) \/ Close(c)
      PROVE  Sourced'
  <2>1. UNCHANGED <<source, connWorker>>
    BY <1>3 DEF Connect, Ask, Die, EndService, ReadOwner, Fence, Close
  <2>2. \A d \in Connection : link[d] \in {"served", "fencing", "closed"} =>
          link'[d] \in {"served", "fencing", "closed"}
    BY <1>3 DEF Connect, Ask, Die, EndService, ReadOwner, Fence, Close, NetTyped
  <2> QED BY <2>1, <2>2, <1>1
<1>4. CASE Listener
  <2>1. UNCHANGED <<source, connWorker>>
    BY <1>4 DEF Listener, Decide, Join, Stop, Accept, AcceptFails,
                OnlyListenerChanges
  <2>2. \A d \in Connection : link[d] \in {"served", "fencing", "closed"} =>
          link'[d] \in {"served", "fencing", "closed"}
    BY <1>4 DEF Listener, Decide, Join, Stop, Accept, AcceptFails, NetTyped
  <2> QED BY <2>1, <2>2, <1>1
<1>5. CASE UNCHANGED allVars
  BY <1>5, <1>1 DEF allVars, netVars
<1> QED BY <1>2, <1>3, <1>4, <1>5 DEF CoordinatorNext, ConnectionThread

LEMMA CoveredKept ==
  ASSUME TypeInv, NetTyped, Scripted, Sourced, Covered,
         [CoordinatorNext]_allVars
  PROVE  Covered'
<1>1. ASSUME UNCHANGED <<resources, source, todo, target>>,
             \A c \in Connection : link[c] \in {"served", "fencing"} =>
               link'[c] = link[c]
      PROVE  Covered'
  BY <1>1 DEF Covered, Supplies, IsWorker
<1>2. ASSUME NEW c \in Connection, Serve(c)
      PROVE  Covered'
  <2>1. UNCHANGED <<link, todo, target>> /\ link[c] = "served"
    BY <1>2 DEF Serve
  <2>2. \A r \in ResourceId :
          \/ source'[r] = c
          \/ source'[r] = source[r] /\ resources'[r] = resources[r]
    BY <1>2, ServeSource
  <2> QED BY <2>1, <2>2 DEF Covered, Supplies, IsWorker
<1>3. ASSUME NEW c \in Connection, EndService(c)
      PROVE  Covered'
  <2>1. /\ UNCHANGED <<vars, target, source>>
        /\ link' = [link EXCEPT ![c] = "fencing"]
        /\ todo' = [todo EXCEPT ![c] = IF connWorker[c] = None THEN {}
                                       ELSE Published]
    BY <1>3 DEF EndService
  <2>2. \A r \in ResourceId : source[r] = c /\ IsWorker(c) => connWorker[c] # None
    BY DEF Sourced, IsWorker
  <2>3. UNCHANGED resources
    BY <2>1 DEF vars
  <2>4. \A r \in ResourceId : Supplies(Peer[c].worker, r) => r \in Published
    BY DEF Supplies, Published
  <2>5. /\ link'[c] = "fencing"
        /\ todo'[c] = IF connWorker[c] = None THEN {} ELSE Published
        /\ \A d \in Connection \ {c} : link'[d] = link[d] /\ todo'[d] = todo[d]
    BY <2>1 DEF NetTyped
  <2> QED BY <2>1, <2>2, <2>3, <2>4, <2>5 DEF Covered, Supplies, IsWorker
<1>4. ASSUME NEW c \in Connection, ReadOwner(c)
      PROVE  Covered'
  <2>1. PICK q \in todo[c] :
          /\ todo' = [todo EXCEPT ![c] = Rest(c, q)]
          /\ target' = [target EXCEPT ![c] =
                          IF Owned(q, connWorker[c]) THEN q ELSE None]
    BY <1>4 DEF ReadOwner
  <2>2. target[c] = None /\ UNCHANGED <<vars, source, link>>
    BY <1>4 DEF ReadOwner
  <2>3. /\ todo'[c] = todo[c] \ {q}
        /\ target'[c] = IF Owned(q, connWorker[c]) THEN q ELSE None
        /\ \A d \in Connection \ {c} : todo'[d] = todo[d] /\ target'[d] = target[d]
    BY <2>1 DEF NetTyped, Rest
  <2>4. source[q] = c /\ IsWorker(c) /\ Supplies(Peer[c].worker, q) =>
          Owned(q, connWorker[c])
    BY <2>1 DEF Sourced, Supplies, Owned, NetTyped
  <2>5. UNCHANGED resources
    BY <2>2 DEF vars
  <2>6. \A r \in ResourceId : r # None
    OBVIOUS
  <2> QED BY <2>2, <2>3, <2>4, <2>5, <2>6 DEF Covered, Supplies, IsWorker
<1>5. ASSUME NEW c \in Connection, Fence(c)
      PROVE  Covered'
  <2> DEFINE q == target[c]
  <2>1. /\ q \in ResourceId /\ target' = [target EXCEPT ![c] = None]
        /\ resources[q] # None
        /\ resources' = [resources EXCEPT ![q] =
                           [resources[q] EXCEPT !.available = FALSE]]
        /\ UNCHANGED <<source, link, todo>>
    BY <1>5 DEF Fence, NetTyped, InvalidateResource
  <2>2. resources[q] \in Resource
    BY <2>1 DEF TypeInv, TypeOK
  <2>3. ~resources'[q].available
    BY <2>1, <2>2 DEF TypeInv, TypeOK, Resource
  <2>4. \A r \in ResourceId \ {q} : resources'[r] = resources[r]
    BY <2>1 DEF TypeInv, TypeOK
  <2>5. \A d \in Connection : target'[d] = target[d] \/ target[d] = q
    BY <2>1 DEF NetTyped
  <2> HIDE DEF q
  <2> QED BY <2>1, <2>3, <2>4, <2>5 DEF Covered, Supplies, IsWorker
<1>6. ASSUME NEW c \in Connection, Close(c)
      PROVE  Covered'
  <2>1. /\ UNCHANGED <<vars, source, todo, target>>
        /\ link[c] = "fencing" /\ todo[c] = {} /\ target[c] = None
        /\ link' = [link EXCEPT ![c] = "closed"]
    BY <1>6 DEF Close
  <2>2. \A d \in Connection \ {c} : link'[d] = link[d]
    BY <2>1 DEF NetTyped
  <2>3. UNCHANGED resources
    BY <2>1 DEF vars
  <2>4. \A r \in ResourceId : r # None
    OBVIOUS
  <2> QED BY <2>1, <2>2, <2>3, <2>4 DEF Covered, Supplies, IsWorker
<1>7. ASSUME NEW c \in Connection, Connect(c) \/ Ask(c) \/ Die(c)
      PROVE  Covered'
  <2>1. UNCHANGED <<vars, source, todo, target>>
    BY <1>7 DEF Connect, Ask, Die
  <2>2. \A d \in Connection : link[d] \in {"served", "fencing"} => link'[d] = link[d]
    BY <1>7 DEF Connect, Ask, Die, NetTyped
  <2> QED BY <2>1, <2>2, <1>1 DEF vars
<1>8. CASE Listener
  <2>1. UNCHANGED <<vars, source, todo, target>>
    BY <1>8 DEF Listener, Decide, Join, Stop, Accept, AcceptFails,
                OnlyListenerChanges
  <2>2. \A d \in Connection : link[d] \in {"served", "fencing"} => link'[d] = link[d]
    BY <1>8 DEF Listener, Decide, Join, Stop, Accept, AcceptFails, NetTyped
  <2> QED BY <2>1, <2>2, <1>1 DEF vars
<1>9. CASE UNCHANGED allVars
  BY <1>9, <1>1 DEF allVars, netVars, vars
<1> QED BY <1>2, <1>3, <1>4, <1>5, <1>6, <1>7, <1>8, <1>9
        DEF CoordinatorNext, ConnectionThread

\* Whatever the threads of other connections do between the steps in which
\* one thread fences, the evidence of a worker process is gone when its
\* connection is closed.
THEOREM EvidenceDies == CoordinatorSpec => []EvidenceDiesWithItsConnection
<1>1. EvidenceInv => EvidenceDiesWithItsConnection
  BY DEF EvidenceInv, Covered, EvidenceDiesWithItsConnection
<1>2. EvidenceInv /\ [CoordinatorNext]_allVars => EvidenceInv'
  BY StepRefines, NextTypes, NetTypesKept, ScriptKept, SourcedKept, CoveredKept
     DEF EvidenceInv
<1> QED BY EvidenceInit, <1>1, <1>2, PTL DEF CoordinatorSpec

=============================================================================
