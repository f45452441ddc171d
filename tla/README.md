# Reservation Fabric in TLA+

A model, model-checked on small instances and proved in part, of the
reservation runtime in this repository: a thread-safe C++ library that promises
capacity of resources over intervals of time, and a TCP coordinator around it.

Paths below are relative to the repository; `src/README.md:44` is line 44 of its
own README.

## The system

| Component | State | Operations | Hard behaviour | What makes it correct |
|---|---|---|---|---|
| Reservation runtime (`src/src/impl.hpp`, `runtime_core.cpp`, `runtime_commit.cpp`, `runtime_lifecycle.cpp`) | resources, one capacity envelope each, newest boot id of each worker, reservations with their current generation and history, holds, coordinator epoch | publish, invalidate, advance and revalidate a resource; create, release and expire a hold; assess and commit a request or a bundle; activate, consume, release, cancel, expire, resize, renew, transfer | every operation is atomic under one lock, but callers arrive in any order, with stale generations, stale boots, retries and late answers | hard claims never exceed capacity; the envelope agrees with the registry; capacity is given back once; stale evidence changes nothing; generations are immutable |
| Capacity envelope and treap (`capacity.hpp`, `detail/interval.hpp`) | per resource: capacity, hard, soft and held quantity as functions of time | add a quantity over an interval, set capacity over one, least slack and highest load over one | lazy updates, cell splitting (by questions too), overflow | answers as the pointwise function would; the cells stay a partition |
| Lifecycle (`lifecycle.hpp`) | none | which states hold capacity; transition table | the table is documented and never consulted | steps skip states of the table and take no path it does not have |
| Bundles (`commitBundle`) | sets, holds made on the way | assess all, hold all, commit all, or roll back | partial failure in each phase | all or nothing; an aborted bundle leaves the baseline |
| Persistence (`runtime_persist.cpp`) | one file | save, load | crash between operations or during a save; what is not saved | what is loaded is the last completed save, with exact envelopes; what was in use waits for its worker |
| Coordinator and worker (`distributed/`) | a thread per connection, the worker each connection registered | dispatch a frame; fence the worker's resources when the connection ends | disconnect fencing in unlocked steps among other threads' calls; join of threads in the accept loop | a dropped worker's evidence makes nothing available; connections are bounded; the listener comes back |
| Protocol (`protocol.cpp`) | bytes received so far | read a frame by exact lengths, refuse nonsense | end of connection in the middle of a frame | a frame whole or nothing |
| Queries, identities, quantities, tools, CUDA proof, examples, benchmarks | none of their own | | | |

The coordinator calls the runtime and shares it between its connection threads;
the runtime owns the envelopes, each of which is a treap; a commit may redeem a
hold; a bundle makes holds and redeems them; publications tie resources to
worker processes through boot ids. There are no callbacks. `expireDue` and
`expireHolds` take the time as an argument and nothing in the repository but
tests calls them; nothing but tests calls `save` and `load` either, the
coordinator's `savePath` is unused.

## Modules

| Module | What it is |
|---|---|
| `Lifecycle` | states, capacity-holding states, transition table and where its paths lead |
| `CapacityEnvelope` | the envelope as a function of time; `Headroom` is `minSlack` |
| `Sums` | `SumTo(f, n)`, as a recursive function so that it can be proved about |
| `ReservationRuntime` | the runtime: one action per operation |
| `CapacityLedger` | abstract: what the runtime promises about capacity |
| `RuntimeLedger` | the refinement mapping, `ImplementsLedger` |
| `UndisciplinedCallers` | callers with one more liberty each, for what breaks |
| `Bundle` | `commitBundle`, turn by turn, over the runtime's actions |
| `Persistence` | save in steps, crash and load around the runtime |
| `Coordinator` | listener, connection threads, worker and client processes around the runtime |
| `CapacityIndex` | abstract: what an envelope answers its callers |
| `IntervalTreap` | the lazy treap, with its refinement of `CapacityIndex` |
| `MCReservationRuntime`, `MCBundle`, `MCPersistence`, `MCCoordinator`, `MCIntervalTreap` | inputs for TLC |
| `CapacityEnvelopeProofs`, `IntervalTreapProofs`, `ReservationRuntimeProofs`, `RuntimeSafetyProofs`, `RuntimeLedgerProofs`, `BundleProofs`, `PersistenceProofs`, `CoordinatorProofs` | lemmas and theorems |

`ReservationRuntime` stands on `CapacityEnvelope`, the envelope as a function of
time. `Bundle`, `Persistence` and `Coordinator` each compose it with one more
component, reusing its actions; `IntervalTreap` justifies the function of time
from below: the treap answers as `CapacityIndex`, whose columns are a
`CapacityEnvelope`.

### How `ReservationRuntime` corresponds to the code

Each variable is the member of `Impl` with the same name; `resources[r]`,
`reservations[id]` and `holds[h]` are records of the fields the operations read.
An absent entry is `None`; an absent optional generation is 0, or, where the code
tells an absent one from any that is present, `NeverConsumed` (a first consumption
counts whatever its generation, 0 too). A public operation
takes the exclusive lock, runs and returns, so it is one action; a refusal that
changes nothing is a stuttering step and needs no action. Refusals that do
change state are modelled: a refused publication that records the boot id
(`PublishResource` with `OldNews`), an activation on stale evidence
(`ActivateStale`), a refused resize or renew that adds a contribution back
(first branch of `Modify`).

Left out: `workload`, `topology`, `provenance`, pool and capability constraints
(no admission path reads them: `resourceConstraintsSatisfiedLocked` only words
an explanation), the text of reports, `activated` and the time stamps, which
nothing reads back. Every strength but HARD behaves as SOFT does. A unit goes
with its class.

Time is 0..MaxTime. A window is half open, and one that was never set is the empty
interval at 0 (`NoWindow`): `validate_request` does not look at it, it touches no
cell, so a request with it is admitted at any size (run `claims` has one), and a file
in which it was saved is refused (`Readable`). The envelope's columns are functions
on all of `Time`; operations touch only the instants in the envelope's span, as
the treap has cells only there, and a query that finds no cell answers `NoLimit`
(`INT64_MAX`). Integers are unbounded, but the product in the soft limit saturates
at `NoLimit` as in the code (`EffCapacity`).

### How `Bundle` corresponds to the code

`commitBundle` holds the lock from beginning to end. Its loops are many calls of
`acquireHoldLocked`, `commitOneLocked` and `releaseHoldLocked`, and what can go
wrong lies between them, so each member's turn is a step; while a bundle is
under way (`bundle # None`) no other operation moves. Phase 1 is the guard of
`BeginBundle` (a bundle refused there changes nothing but the counter of set
ids, which nothing reads). Phase 2 is `TakeHold` and `RefuseHold`, phase 3
`CommitMember` and `RefuseMember`; the steps reuse the runtime's own actions
`CreateHold`, `Commit`, `Cancel` and `ReleaseHold`, since the code calls the same
functions. The rollback is `UndoMember` and `ReturnHold`; the holds already
redeemed are left out of it (`Unredeemed`), as the loop from `j = i` does.
`bundle.before` is a history field for the property.

### How `Persistence` corresponds to the code

`save` holds the runtime's lock, so no operation runs between `BeginSave` and its
end (`Running`). Opening the file empties it (`BeginSave`: the old image is gone
at once), and it is whole only after the last write (`EndSave`). A write may fail:
`save` throws, or does not notice when the failure comes with the flush in the
stream's destructor; both leave a torn file and a process that goes on
(`FailSave`). `Crash` may come at any moment and takes the memory. `Load` is the
whole of `load` with `reapplyAfterLoad`; `Loadable` are its checks, which a torn
file fails by length or checksum, and those of the constructors it calls: an
`Interval` whose end is not after its start is an error on the way in, though there
was none on the way out (`Readable`; see the known disagreements below). After a refusal the operator starts an empty
runtime (`StartEmpty`). A crash is one of the process: what the file system
does in a power failure is left out.

`Image` says what the file carries. Of an envelope it is only origin, horizon and
ratio (`Layout`), so `EmptyEnvelope` has the whole capacity everywhere. `durable`
and `suspended` are history variables for the properties.

Known and not contradicted by any document: unavailable windows are not restored,
so they can be promised after a restart; the configuration (`maxHolds` and the
other bounds) goes back to its defaults; ids, generations and boots given out
after the last save are given out again. `src/README.md:68` says that dynamic
evidence is discarded on restart; the code does so for reservations in use, while a
resource comes back available, with its old owner and boot, and a reservation that
was still Committed can be activated on evidence of before the restart. It also
lists cross-reference validation and generation regression among what load
rejects; the checks there are magic, version, length, checksum and the bounds of
counts and enumerations, and `validUnit` and its siblings are never called.

### How `Coordinator` corresponds to the code

A connection is a peer process, a socket and a thread. `link` is where its thread
is: `waiting` in the backlog, `served` in the loop of `serveConnection`,
`fencing` after it, `closed`. A thread handles one message under the runtime's
lock, so `Serve` is one step: it records the worker a `Hello` or `Register` names
and makes the runtime's own step (`Call`), or none when the runtime refuses
(`Refused`: exactly when no such step is enabled). Query, assess and unknown
messages change no state. Then come the steps that matter: `EndService` lists the
resources under a shared lock that is then dropped, `ReadOwner` reads an owner
through a pointer without any lock, `Fence` makes the call, and other threads'
calls may lie between any of them. The listener is `Decide` (the loop's head),
`Accept`, `AcceptFails` (`accept` answers an error, as it may for a connection
reset in the backlog; the loop is left), `Join` and `Stop`.

A peer awaits each answer before it sends again (`exchange` in
`mp_scenario.cpp`, the worker's `recvFrame` after each `sendFrame`), so one
request per connection is enough; what an answer says influences no peer's next
message. A worker sends `Hello`, `Register`, one publication with generation 1,
and then only waits. A client sends any message of its set at any time. `Die` ends
a process between any two steps, with its last message read in full or not. That
the end of a process is seen by the coordinator is the operating system's part;
connections that are half open for ever are left out. Reading the owner without
the lock is a data race only in the memory model of the language: the owner is one
word and entries are never erased, so the outcomes are those of a read at that
moment.

`source` is a history variable: over which connection the newest evidence on a
resource came.

Known and not contradicted by any document, hence not run: the thread vector
counts ended threads, so after `MaxThreads + 1` connections in all an idle live
peer keeps new clients out; `Shutdown` is looked at only after the next accept;
a late disconnect of an old connection fences the resource its restarted worker
has revalidated (`coordinator_main.cpp:156` compares the worker, not its boot;
`mp_scenario.cpp` sleeps to let the disconnect come first); a client may
revalidate on behalf of a worker that is gone; a restarted worker publishes
generation 1 again and is refused as a duplicate, so that in the scenario it is the client
that publishes and revalidates for it, although `src/README.md:68` speaks of a fresh
worker publication.

### How `IntervalTreap` corresponds to the code

A node of the model is a node of the code with its subtrees in it, instead of
indices into `pool_`; nodes that are cut off stay in the pool in the code and are
left out. The aggregates `min` and `peak` are functions of the strength
(`minHard`/`minSoft`, `maxCbH`/`maxCbS`), `own` and `add` of the column.
`det_prio`, a hash of a cell's start, is any of a set of priority functions, chosen
at the start and fixed. `RangeAdd`, `RangeSet`, `MinSlack` and `MaxContrib` are the four
private operations all others call; the questions cut cells too and are steps that
change the treap. `call` is what was last asked for: the operation, its window and
what it added, set or answered, so that `CapacityIndex` must give the same answer
about the same window. A cell is made without aggregates, as in `createCell`. What the
code does by recursion over the nodes (`mergeRec`, `split`, `detachMax`,
`rightmostNode`) is a recursive function on `Treaps`, the treaps with at most
`Horizon` nodes on a path: no cell is empty, so there never are more cells than
instants. Sums do not wrap.

### Callers

`Spec` lets any caller do anything with any input. Under it the accounting is
not exact, for the reasons below, so `DisciplinedSpec` restricts callers; every
other operation stays free, including all stale, repeated and late calls.

| Clause of the discipline | What fails without it | Shown by |
|---|---|---|
| a resource is published once, then revalidated | a newer publication starts an empty envelope, and commitments already marked applied, and all live holds, are not put into it | run `republish` |
| no resize | the new generation is marked applied before it is added and so is never added | run `resize` |
| no renewal | the same order of mark and add | as `resize` |
| full quantities only | a request admitted for a part (`runtime_core.cpp:221-226`) is committed in full (`runtime_commit.cpp:13`): with capacity 2 and a commitment of 1, a partial request for 2 makes the load 3, against `src/README.md:44` | not run |
| activate only what holds capacity | an activation on stale evidence revives released, cancelled and expired reservations without their capacity | run `late_activation` |
| transfer only what holds capacity | transfer makes any lifecycle Committed again, so a released reservation comes back without its capacity | same kind of revival; not run |
| never reuse a hold id, and with bundles never one a bundle may draw (bundles number holds with the runtime's own counter, callers choose theirs) | the live hold is overwritten and its quantity stays held | not run |
| no partial request in a bundle | as for single requests | not run |

Two more known disagreements between code and documents need no liberty, and are
modelled without a run:

- `src/README.md:35` says that a stale boot never publishes evidence.
  `publishResource` records the boot of a restarted worker (`runtime_core.cpp:45`)
  before it refuses the publication as a duplicate. The older process, known to be
  stale from then on, still activates, consumes and releases, since evidence is
  compared with the boot its resource has on record (`FreshEvidence`).
- `time.hpp:146` says that zero-length reservations are not supported, and
  `src/README.md:68` that durable commitments are retained. A request whose window
  was never set passes `validate_request` (`request.hpp:140-157`), is committed and
  saved, and from then on the file is refused, since `load` makes an `Interval` of
  the window and its constructor throws (`runtime_persist.cpp:87`): everything saved
  with it is lost. The runs of `Persistence` have no such request, which would double
  their states; the theorems on it cover them.

## Runs

Each run is `MC<module>_<run>.cfg`. No run checks deadlock: the library is
passive, and when the bounded ids, generations, connections and updates are used
up nothing may be left to do. No symmetry is used: resources are ordered by id
(ties) and other sets are tiny.

| Run | Callers | Shows |
|---|---|---|
| `claims` | disciplined | contention of hard and soft requests and holds on two resources, one with an unavailable instant: `NeverOverbooked`; `AdmissionExact`: the headroom passes exactly the requests for which the registry has room, no more and no fewer; the inductive `AccountingInvariant`; `ImplementsLedger` |
| `evidence` | disciplined | full life cycles with two boots and two resource generations: `EnvelopeMirrorsRegistry`, `ImplementsLedger`, and `ShortCutsOnly`: no operation consults the published transition table and several skip states of it (Committed to Active, Active to Released: `lifecycle.hpp:87` says that what is not listed is rejected), but within a generation none goes where the table has no path |
| `modification` | any | resize, renew, transfer, consume in any order: `ConsumptionWithinPromise`, `HistoryContiguous`, `GenerationsImmutable`, `ConsumedOncePerEvidence`, and `RefusedModificationChangesNothing`: what resize and renew withdraw to read the headroom is back when they refuse (a released reservation is the exception, see above) |
| `fencing` | any | two workers, two boots, three generations of one resource: `OwnerBootNeverRegresses`, a worker that owned it in one boot never owns it in an older one, also when the other owned it in between (about who owns, not about whose evidence is taken: that is compared with the owner's boot on record alone); and `InUseOnlyOnAvailable`. That activation on a resource that advanced but is available goes to revalidation is not part of it: it is one guard of `Activate` |
| `republish`, `resize`, `late_activation` | disciplined plus one liberty | the disagreements between documentation and code named above |
| `bundles` | disciplined, with bundles | `AllOrNothing`, `AccountingInvariant` after every turn, `RollbackSkipsNothing` (the code passes in silence over a record that is gone, spent or has no contribution; the rollback meets none), and `BundleEnds` |
| `bundle_holds` | the same | the comment that holds guarantee capacity is not so: `commitOneLocked` assesses a member by a headroom its own bundle's holds have already lowered, so a bundle for more than half of what is free is rolled back |
| `recovery` | any, with saves and a crash | `RecoversLastSave`: what is loaded is the last completed save, never one cut short; `RestartHeals`: after a load the envelopes are exact and the flags follow the claims whatever was wrong before; `SuspendedUntilRevalidated`: what was in use, partly consumed too, is not in use, in its generation, before its resource is revalidated (a transfer takes the owner's evidence of before the restart and begins a new generation: that one is outside of the property, and so of its theorem) |
| `network` | a worker, its restarted process, a client | `EvidenceDiesWithItsConnection`: nothing is available on evidence that came over a worker's closed connection; `ConnectionsBounded`; under fairness `DisconnectFences` (a dropped worker loses what it supplies) and `JoinsEnd` (a listener that waits for its threads goes on once their peers have left) |
| `index` | any updates and questions | `AnswersAsColumns`: the treap refines `CapacityIndex`, call by call: an update of a window does to the columns what it should, and a question about a window has the answer for that window; `TreapShape`: its cells are a partition of the horizon, in heap order |

Bounds, and why they are enough to make the cases happen:

- `MaxTime = 1`: two instants, so windows can be disjoint, nested or equal, and a
  resource can be unavailable at one of them. `Horizon = 2` covers both. The
  envelope acts on each instant by itself, and `Headroom` takes a minimum over
  them, so a third instant adds no new case.
- `LastReservationId`: 2 or 3 (ids start at 2, as in the code), one or two
  reservations in contention; capacities 1 and 2 against demands 1 and 2, so
  requests fit alone, fit together, or exclude each other; `modification` resizes a
  demand of 2 to 1, which fits, and to 3, which does not.
- `LastHoldId <= 2`, `MaxHolds = 2`: a hold that can be redeemed and one that competes.
- `MaxGeneration = 2` or 3, `MaxHistory = 1` or 2: the history fills and drops.
- `MaxAuthority`: epochs matter to no other operation, so 1 or 2.
- `recovery`: two saves and one crash, so a save may be completed and the next cut
  short or failed; one resource with an unavailable instant, one reservation, one hold,
  one generation. What the callers may do wrong here is to activate late and to use a hold
  id again; modifications are left to the proof of `Healing`.
- `network`: two resources, one worker with two boots, one client, a connection
  each. `MaxThreads = 1` instead of 16, so that two connections make the listener
  join with a third outside. The restarted process may come for the resource of the
  first or for one of its own. A connection serves any number of a client's
  messages; the worker's are three.
- `index`: four instants, the first of them 1, so windows lie in the envelope, over
  its whole and over either end, and four cells can be made. With three cells
  no subtree is deep enough for the mutant that takes a capacity's least slack
  from one node. Three updates, any number of questions; three orders
  of priorities (a balanced treap, inner cells below outer ones, ties). The
  ratio is 2, so the soft limit is not the capacity. Empty windows and negative
  quantities are not among the inputs: an empty window returns at once, a negative
  quantity is an addition.
- Bundles: of at most three members, one for each outcome: an empty
  bundle; two members that fit; a request named twice and a third member (the
  second turn fails with one member committed, one hold of its own and one after
  it); two that cannot both be held (the second hold fails); a member that
  targets the resource its hold is not on. `LastBundleHold = 4` leaves ids for
  three members, hold 1 is a caller's, and single commits come before, after and
  between. In these runs callers pass no worker evidence, since activation has
  no part in a bundle.
- `NoLimit = 1000000` is above every quantity, and above every product of a capacity
  and a ratio in basis points.
- Evidence generations, boots and resource generations: two or three values each,
  so there is an older, an equal and a newer one; in `modification` the evidence
  generations are 0 and 1, so a first consumption may have generation 0.

Fairness. `BundleSpec` assumes weak fairness of a bundle's own steps: the thread
in `commitBundle` holds the lock and waits for nobody, so it runs on until it
returns. `BundleEnds` then says that there always is a next turn.
`CoordinatorSpec` assumes weak fairness of the listener and of each connection's
thread: they are threads of the operating system, and each step of theirs is
enabled until it is taken (a thread that waits for the runtime's lock gets it
while others hold it for one call at a time; fairness of the mutex is assumed).
Peers owe nothing: they may be silent for ever or die. Nothing else is fair: the
library never runs by itself and no scheduler in the repository calls expiry or
save, so no other thing must eventually happen for the code's own reasons.

## Theorems

TLAPS proves, for every value of the constants that satisfies
`EnvelopeAssumption` and `RuntimeAssumption` (the treap: `EnvelopeAssumption` and
`TreapAssumption`):

| Theorem | States |
|---|---|
| `TreapAnswersAsColumns` | `TreapSpec => AnswersAsColumns`: the treap implements `CapacityIndex` |
| `TreapKeepsShape` | `TreapSpec => []TreapShape` |
| `Typing` | `Spec => []TypeOK` |
| `Accounting` | `DisciplinedSpec => []AccountingInvariant` |
| `NoOverbooking` | `DisciplinedSpec => []NeverOverbooked` |
| `EnvelopesExact` | `DisciplinedSpec => []EnvelopeMirrorsRegistry` |
| `AdmissionIsExact` | `DisciplinedSpec => []AdmissionExact` |
| `ImplementsCapacityLedger` | `DisciplinedSpec => ImplementsLedger` |
| `TableFollowed` | `DisciplinedSpec => ShortCutsOnly` |
| `BundleAccounting` | `BundleSpec => []AccountingInvariant` (also from `BundleAssumption`, as the next seven) |
| `AllOrNothingHolds` | `BundleSpec => []AllOrNothing` |
| `RollbackUndoesAll` | `BundleSpec => []RollbackSkipsNothing` |
| `BundleWindsDown` | each turn of a bundle of n members leaves fewer turns, from 3n + 1 down |
| `BundlesImplementCapacityLedger` | `BundleSpec => ImplementsLedger` |
| `BundlesKeepPromises` | `BundleSpec => [](InUseOnlyOnAvailable /\ ConsumptionWithinPromise /\ HistoryContiguous)` |
| `BundlesRewriteNothing` | `BundleSpec => GenerationsImmutable /\ ConsumedOncePerEvidence /\ OwnerBootNeverRegresses` |
| `BundlesFollowTable` | `BundleSpec => ShortCutsOnly` |
| `FencingSuspends` | `Spec => []InUseOnlyOnAvailable` |
| `NoOverconsumption` | `Spec => []ConsumptionWithinPromise` |
| `GenerationsFollow` | `Spec => []HistoryContiguous` |
| `GenerationsAreImmutable` | `Spec => GenerationsImmutable` |
| `RefusalsLeaveNoTrace` | `Spec => RefusedModificationChangesNothing` |
| `EvidenceCountsOnce` | `Spec => ConsumedOncePerEvidence` |
| `FencedProcessesStayFenced` | `Spec => OwnerBootNeverRegresses` |
| `Healing` | `PersistenceSpec => RestartHeals` |
| `LastSaveRecovered` | `PersistenceSpec => RecoversLastSave` |
| `SuspendedUntilEvidence` | `PersistenceSpec => []SuspendedUntilRevalidated` |
| `SafeThroughRestarts` | `PersistenceSpec => [](InUseOnlyOnAvailable /\ ConsumptionWithinPromise /\ HistoryContiguous)` |
| `DurableAccounting` | `DisciplinedPersistenceSpec => []AccountingInvariant` |
| `RuntimeServed` | `CoordinatorSpec => Spec` (with `CoordinatorAssumption`, as the next two) |
| `Bounded` | `CoordinatorSpec => []ConnectionsBounded` |
| `EvidenceDies` | `CoordinatorSpec => []EvidenceDiesWithItsConnection` |

The argument for `NoOverbooking`. Admission reads the envelope, not the
registry, so `NeverOverbooked` alone is not inductive: from a state whose
envelope says less than the registry a commit breaks it. The invariant therefore
adds `EnvelopeMirrorsRegistry`; that in turn needs `FlagsFollowClaims`, because
release, cancel and expiry withdraw a share only if it is flagged;
`IdsFresh`, because a commit writes a reservation under a new id and must not
cover a live one; and `Anchored`, because removal of a share looks its envelope
up. `AccountingInvariant` is their conjunction, and with `TypeOK` it is
inductive under `DisciplinedNext` (checked by TLC in run `claims` before it was
proved). Each action is one lemma, per conjunct that it disturbs. Sums over the
registry are `SumTo` over all ids, and the laws they need (one share changes, a
share is added, a set of shares moves together) are lemmas of
`CapacityEnvelopeProofs`, by induction on the number of ids through a recursive
function.

`AdmissionIsExact` follows from the same invariant: headroom over a window meets a
quantity exactly when the slack of every instant of it does (`HeadroomMeets`: an
instant of least slack exists, `LeastInstant`), and slack is what the registry leaves
(`SlackIsWhatIsLeft`).

`ImplementsCapacityLedger` is the refinement of `CapacityLedger`. Under
`AccountingInvariant` the demand the ledger adds up over its claimants is the load
an envelope records, so what admission compares is what the ledger asks of a
claim. Each step of the runtime then opens a resource, makes one claim that
fits, in place of a hold when it redeems one, gives up a set of claims (expiry
gives up several at once), or is silent. Capacity given back is never claimed
again because a reservation id is used once and a disciplined caller activates
and transfers only what still has its claim.

`TableFollowed`: reservations are only ever in nine of the 22 states (`Occurs`);
the six engaged ones all lead to `RevalidationRequired` in at most one transition
of the table, and from there to every way of ending. `Reach` is a recursive
function, and the paths are shown to lie in it by following its levels. That a
reservation consumed whole consumes nothing more comes from
`ConsumptionWithinPromise`.

`BundleAccounting` reuses the lemma of each action. It adds what makes a bundle a
disciplined caller: the hold ids its counter has not reached are unused
(`Unused`), its members are requests for full quantities, and there is an id
left for each member without a hold (`MembersFull`).

`AllOrNothingHolds` needs an account of what is the bundle's own (`RollbackInv`):
what holds capacity is what did before and the reservations made, the holds
acquired are those acquired before and those still to redeem or return, and none of
the bundle's is counted twice or was there before. Each undo takes one of them
away. That the envelopes come back is not shown by undoing the additions, which
would need their sum over the undos still to come, but from exactness: the
envelopes the bundle began with are the load of what had claims before it
(`Remembered`), every envelope is exact after every turn, and when the bundle's
own claims are gone the two loads are the same. TLC checked `RollbackInv` on
run `bundles` before it was proved.

`RollbackUndoesAll` reads off the same invariant, with the generation of the bundle's
holds (`HoldsOwn`), that whatever a rollback has to undo is still there to be undone.
The code has no guard there, the model's `Cancel` and `ReleaseHold` have; the theorem
says that these guards always hold, so the model leaves out no rollback of the code.
With `BundleWindsDown` it is the part of `BundleEnds` that can be proved, for bundles
of any length: turns are finite in number and the rollback's are not held up.
That then some turn is enabled until the bundle is gone is left to TLC.

A bundle draws hold ids and commits requests that are not among the callers' choices, so
`BundleSpec` does not imply `DisciplinedSpec`. `BundleTurns` says what it implies: each
turn is a silent step, a step of `DisciplinedNext`, or a hold with a new id, a commitment
for a full quantity, a cancellation or a release (`RuntimeStep`). The lemmas about these
actions, stated for any request and any hold, then carry the ledger, the safety
invariants and the transition table over to a runtime with bundles.

`FencingSuspends` and `NoOverconsumption` hold of any caller and are inductive
once the types are known; `GenerationsFollow` needs besides that an id that was
never used has neither generation nor history, and that new ids are fresh. The
two action properties on generations and consumption are one lemma per operation
(`AllFollow`): every reservation goes on in its generation, on the same terms, or
in the next one. `FencedProcessesStayFenced` needs that no resource is held by a
process newer than the newest seen of its worker (`BootsSeen`), so that a boot
accepted later is not older than the holder's. The theorem is then one induction for
each resource, worker and boot: from the moment the worker owns the resource in boot
b, the newest boot seen of it is at least b, and so is every boot in which it owns
the resource from then on (`NotBefore`), whichever workers own it in between. It does
not say that evidence of an older process is refused: after a revalidation in the
same boot, or while a newer boot is known only from a duplicate publication, it is
taken.

`Healing` does not need the accounting to have been right: `Load` computes
envelopes and flags from lifecycles and hold states alone. It needs an image whose
types are right, whose resources have envelopes, and whose holds carry their flag
exactly while acquired (`HoldFlags`), which any caller keeps. `LastSaveRecovered`
and `SuspendedUntilEvidence` relate file and memory: a file being written holds
what the runtime is, since no operation runs during a save, and a whole one is the
last save completed (`FileInv`); a generation suspended by a load sleeps, by
`AllFollow`, until it is revalidated or superseded (`SuspendedInv`); what follows
after it was superseded, by a transfer for one, is not claimed.
`SafeThroughRestarts` needs that the image of a safe runtime is safe and that
reapplying it keeps it so. `DurableAccounting`
adds that a disciplined image has fresh ids, so that the runtime is back in
`AccountingInvariant` after every restart, which its own proof then keeps.

`RuntimeServed` is a refinement: each step of listener, threads and peers is a
step of the runtime or leaves it alone, so `FencingSuspends` and the other
theorems on `Spec` hold of the runtime behind the network. `Bounded` counts the
threads in the listener's vector. `EvidenceDies` is the interesting one. While a
thread is fencing, each resource whose evidence came over its connection and that
is still available must be ahead of it: in the rest of its list or as the one it is
about to invalidate (`Covered`). That is kept because the list is made after the
last message of that connection, and because the owner that is read without the
lock can be outdated only by evidence that came over another connection, which
moves `source`. It rests on two more facts: a worker process is registered on its
connection before it publishes (`Scripted`), and stays so (`Sourced`).

The treap. `TreapShape` is not inductive, and neither is it with the claim that
the aggregates are right: between a cut and the split that follows it two cells
have aggregates nobody computed, and so has every node above them. The invariant
is therefore about a treap and a set of keys: `Sound(n, lo, hi, p, K)` says that
the cells of `n` are a partition of [lo, hi), in heap order below priority `p`,
that no cell spans a key of `K`, and that the aggregates of every node are those of
what its subtree says of its instants, except at the nodes on the way to a key of
`K`. `ensureBoundary(t)` adds `t` to the keys where it cuts (`BoundarySound`); a
split at `t` walks that very way, pulls every node on it, and returns two parts
without the key (`SplitSound`), so the middle part, whose aggregates are the answer,
has none (`IsolateSound`). `TreapInv` is `Sound` of the root with no keys at all.
Each lemma says in the same breath what becomes of the values: `ValuesAt(n, t)`
takes what waits above an instant into account, so push, split, merge and cut
change no value (`Same`), and an update changes those in its window (`SaysUnder`).
From there the columns, and each step of `CapacityIndex`, follow field by field.
Two facts about a node are used throughout: pushing its tags down changes no
value (`PushSound`), and its aggregates are right once they are pulled from sound
children (`RebuiltSound`). That a tag is pushed as capacity first and
quantities second, and that a capacity over a subtree takes its least slack from
where the load is highest (`ApplySetCap`), are used in `InheritSums`.

The operations are recursive over trees. `Treaps` is layered by height, so
induction on the tree is induction on numbers up to `Horizon`, through the same
lemma as for sums (`SetInduction`); that the recursive functions exist at all, and
so satisfy the equations they are written with, is proved first
(`RecursionsExist`, `MergeExists`, `SpansExist`: a function built height by height
satisfies them, hence the one that `CHOOSE` picks does). `Sound` itself is not
recursive: it says that there is a set of statements about subtrees, each of which
is supported by two others of the set.

Only model-checked: liveness (`BundleEnds`, `DisconnectFences`, `JoinsEnd`), which is
out of the prover's reach. Recursion is written as recursive functions, and
induction is over sets of numbers (`SetInduction`), which the provers can use.

## What is left

1. A bounded-width copy of the envelope's arithmetic, with the bound under which the
   unbounded one is exact.
2. Which clauses of the discipline each result on capacity needs, as theorems: what
   can be shown of callers with one more liberty.

## Not modelled

The bytes on the wire and in the file: serialisers, CRC and sockets only
round-trip or refuse, and are modelled by that. `FrameDecoder`: no process of the
repository uses it (`recvFrame` reads header and payload by exact length). Queries
and the accounting snapshot: read-only, and what the snapshot compares is
`EnvelopeMirrorsRegistry`. `assess` and `headroomAt` change nothing but the cells
of the treap, which `IntervalTreap` models. The CUDA proof, examples, benchmarks
and tools drive the library and keep nothing; the multi-process scenario is present
as the peers of `Coordinator`, without its order. The socket layer, which exists for Windows only. Wrap-around of 64-bit sums.
`maxResources`, `maxReservations` and `maxReservationSetMembers` are declared in
`RuntimeConfig` and never enforced.
