# goaxon: TLA+ models and proofs

goaxon is a small Go framework for event-sourced aggregates: commands load an
aggregate by replaying its events, raise new ones, and save them to an event
store with an optimistic check on the version; a bus carries the events to
projections, either synchronously or through a transactional outbox that
dispatchers drain. This directory holds TLA+ modules that follow the code,
their TLC runs, and TLAPS proofs. Paths below are relative to the repository.

## The system

| part | state | operations | what makes it hard | correct when |
|---|---|---|---|---|
| Postgres event store, `store/postgres/postgres.go` | tables `events`, `outbox`, an id sequence, open transactions | `Append`, `Load` | READ COMMITTED transactions of several statements race; keys wait for open transactions; clients die, answers to COMMIT are lost | streams gap free, outbox mirrors events, ids ordered per stream, no lock cycle; it implements `event.Store` |
| `event.Store`, `event/event.go`, `event/errors.go` | one stream per aggregate | `Append`, `Load` | an error does not say whether the batch was stored | (a contract) |
| Postgres outbox, `store/postgres/postgres.go`, `event/outbox.go` | row locks, `dispatched_at` | `Claim`, `Commit`, `Release` | row-by-row locking, SKIP LOCKED, locks of lost clients | a row is locked once, marked only when delivered |
| Dispatcher, `event/dispatcher.go` | a timer, a context, the batch in memory | `Run`, `tick` | crash between publish and mark, cancellation at any point, several dispatchers | at least once, in order where promised, everything in the end |
| Aggregate and repository, `aggregate/aggregate.go` | versions, uncommitted events | `Raise`, `Load`, `Save` | stale aggregates, Save retried after an unclear error, publishing that stops half-way | no decision on stale state, no event stored twice |
| In-memory store and bus, `store/memory/memory.go` | streams and handlers under mutexes | `Append`, `Load`, `Publish`, `Subscribe` | handlers that fail while others succeed | every handler runs; only stored events are published |
| Event registry, `event/registry.go` | type name to decoder | `Register`, `Unmarshal` | types unknown to one process; concurrent registration | a duplicate is never overwritten, a row of an unknown type waits and nothing passes it |
| Command and query bus, `command/`, `query/` | handler by type | `Register`, `Send`, `Ask` | registration against dispatch, dispatch from inside handlers | nothing registered is displaced, no call waits for ever |
| Validation, Maybe, `validation/`, `types/maybe/` | pure | `Field`, `Err`; `Map`, `FlatMap`, JSON | JSON of nested absence | JSON round trips |
| Orders example, `examples/` | order aggregate, summary projection | place, ship, get, over HTTP or not | redelivered and reordered events, retries | one life per order, the projection agrees with the stream |
| Test harness, `aggregate/aggregatetest/` | one aggregate | Given, When, Then | (test code) | not modelled |
| Test Postgres, `internal/pgtest/` | an embedded server | start, stop | (test infrastructure) | not modelled |

How the parts meet: `Repository.Save` calls `Append`. If the store is an
`event.Outbox` the call ends there, and the outbox rows that `Append` committed
are what a `Dispatcher` claims and publishes; otherwise Save publishes by
itself. `PROJECT.json` lists every component with its status, and the hazards,
each at its line.

## Modules

**EventStore** is the contract of `event.Store`: `streams` grow by whole
batches, only if the caller's `expected` is the stream's length; a conflict is
never spurious; an error leaves the batch undecided (`live`), and it may still
take effect. An empty batch may be accepted without a look at the stream
(Postgres does that, the in-memory store does not).

**PostgresStore** is `Append`. Each connection of the pool serves one call at a
time, one SQL statement per step: `HeadCheck`/`StaleHead` is the `SELECT
MAX(sequence)` over committed rows, `InsertEvent`/`LostRace` the insert into
`events` (which waits while `Blocked`, and turns a unique violation into a
conflict), `InsertOutbox` draws the next bigserial, `Commit` makes both visible.
`Fail` is an error in a statement with its rollback. `GiveUp` is the client
leaving with an error: its transaction stays, and either `DropSession` ends it
or, if a COMMIT could have been sent, `Commit` still happens. A transaction
whose client is gone sends no further statements. A row's payload is the
connection that wrote it. `Load` is the refinement mapping to `EventStore`.
Envelopes are numbered from `expectedVersion + 1`, as `Save`, their only
author, numbers them; `Repository` checks that it does (`SequenceIsPosition`).

**Dispatcher** is `Run` and `tick` over the outbox table, one record `at[d]`
per dispatcher. A claim is two things: the entries in memory (`claim`) and the
rows its transaction has locked (`locks`); `LoseSession`, `Cancel` and `Crash`
part them and leave a ghost transaction, which `GhostEnds` ends at any later
time, with the COMMIT it may have received. `LockRow` visits the rows of the
query's snapshot one at a time, skipping the locked ones and those marked since.
`ScanFails` is a row whose event type this process's registry does not know
(`knowsAll`, `NewRows`; a restart may bring a newer version): the whole claim is
rolled back. `Handled` is `memory.Bus`: every handler runs, Publish fails if any
fails. `due` tells whether the next tick comes at once or one poll interval
later. `Arrive` is what the store does to the table: whole batches, per
aggregate in the order of ids, across aggregates in any order.

**Pipeline** composes the two: `PostgresStore` and `Dispatcher` over one table
`outbox`. It instantiates both and adds no state; callers append behind a version
they have loaded, which is the head or, when it is stale, less; the
dispatcher's `rows` are the committed outbox rows, and its own `Arrive` is not
used, since the store's commits are the arrivals. `StoreFeedsDispatcher` says
that each of them is a step `Dispatcher` assumes; with it, what is checked of
either part alone carries over. **Delivery** is the promise of the whole, which
Pipeline implements with one undisturbed dispatcher: events are stored in
streams, and each handler hears each stream in order and without a gap, never
before it is stored.

**Buses** is the four tables of handlers: the command bus, the query bus, the
event registry and the in-memory event bus, each a map behind a `sync.RWMutex`.
A goroutine is a stack of calls. `Announce` and `Lock` are the two halves of
`RWMutex.Lock` (a waiting writer keeps new readers out), `Check` and `Write` what
Register and Subscribe do under it, `Lookup` what Send, Ask, Unmarshal and
Publish do under the read lock; `Runs` runs the next handler after the lock is
gone, and while it runs, `Calls` may push another call, on the same table or
another. A duplicate registration panics, which unwinds the goroutine's calls.

**Maybe** is `maybe.Maybe[T]`: `Some`, `None`, `Map`, `FlatMap` and the JSON form,
with the encoding of T as a parameter. **Orders** uses it for the optional note.

**Repository** is `aggregate.Base` and `Repository` over a store with
`EventStore`'s contract: `AppendOk`, `AppendConflict`, `AppendFails`, and for a
store with an outbox `AppendGivenUp`, decided later by `DecideLate`. An event
carries the events its aggregate had applied when it was raised, so that
"decided on stale state" can be stated. Workers may retry `Save` on the same
object after any error, raise more, or start over. Three ghosts observe it:
`published`, `saved` (the events of an object whose last Save returned nil) and
`forgotten` (what `PublishFails`, the error return of the publish loop, left
stored and unpublished).

**Orders** is the orders example: `domain.Wire`'s handlers between `Load` and
the end of `Save` (`Place`, `Ship`, `AppendOk`, ..., `PublishInSave`,
`PublishFails`), the projection's two handlers, and `GetOrder`, with `Shown` for
what it answers and `Http` for the status the HTTP adapter makes of it. `BadID`
and `BadJSON` are the requests the adapters turn away. Over an outbox the
projection receives what `Unmarshalled` makes of the stored event, a note
through JSON and back. Three variables fix the deployment: `viaApp`, whether
requests come through package `app`, which parses the input and issues the id,
or straight from the command bus under an id of the sender's choice;
`hasOutbox`, whether Save publishes by itself or one dispatcher does; and
`others`, whether handlers that may fail subscribe besides Wire's two, which
never return an error. In the repository nobody else does, but Wire takes its
bus from outside. Of the dispatcher only the delivery is kept: `Dispatch` in
order, `Mark`, and `Redeliver` when a commit or another subscriber fails. A
client of the service can name the ids it was told and ids that nobody has
(`Nameable`). `BadFields` is the `validation.Validator`. The append is one step,
as `EventStore` allows and `PostgresStore` is checked to implement; over an
outbox it can be given up and decided late.

**MC\*** modules give the constants their values. Operators marked "mutant" are
plausible bugs: each property is shown to fail when one of them replaces the
definition it follows.

## Runs

| run | bounds | shows |
|---|---|---|
| store_tables | 1 aggregate, 3 connections, sequences to 3, batches to 2, ids to 3 | `TypeOK`, `StreamsGapFree`, `OutboxMirrorsEvents`, `OutboxFollowsSequence`, `WaiterHoldsNoRows`, `VisibleInOrder` |
| store_contract | 2 aggregates, 2 connections, sequences and batches to 2 | `AppendContract` (PostgresStore implements EventStore), `AppendEnds` |
| dispatcher_single | 4 rows of 2 streams, one of a new type, 2 handlers, 1 dispatcher, batch 2, 2 faults | `TypeOK`, `NoOvertaking`, `DispatchedInOrder` |
| dispatcher_pair | 2 rows of one stream, one of a new type, 2 dispatchers, batch 2, 2 faults or losses | `AtLeastOnce`, `LocksExclusive`, `OnceWithoutFailure`, `EverythingDispatched`, `CancelStops`, `RunRests` |
| pipeline_delivery | 2 aggregates, 2 connections, sequences and batches to 2, up to 4 outbox ids, 2 handlers, 1 dispatcher, batch 2, 1 fault | `StoreFeedsDispatcher`, `HeardInOrder` (Pipeline implements Delivery), `StoredIsHeard` |
| buses_calls | 4 tables, 1 name, 2 goroutines, 4 calls in all, nested or not | `TypeOK`, `NeverDisplaced`, `RunsTheRegistered`, `CallsReturn` |
| repository_save | 1 aggregate, 2 workers, 2 events each, both delivery modes | `TypeOK`, `DecidedOnHistory`, `StoredOnce`, `SequenceIsPosition`, `SavedIsStored`, `PublishedIsStored`, `PublishedOrForgotten` |
| orders_life | 1 order, 2 callers, 2 redeliveries, all eight deployments | `TypeOK`, `OneLife`, `OneIsTold`, `ReadsOwnWrites`, `StoredIsTold`, `SummaryAgrees`, `SummaryAsAsked`, `ShippingShows`, `NeverUnshipped` |
| dispatcher_overtaking | | `NoOvertaking` fails with two dispatchers |
| dispatcher_lost_session | | `ClaimsExclusive` fails when a connection is cut |
| dispatcher_commit_error | | `BacksOffAfterCommitError` fails |
| repository_lost_reply | | `CommittedReflectsStore` fails |

Why the bounds suffice to meet the hard cases. Two racing batches of two and a
third Append behind them are the smallest instance in which a transaction waits
while it could hold a key, a conflict is found by the insert rather than by the
head check, and a late commit meets a retry; `MaxOutboxId` only stops new calls,
so every call in flight completes. The proofs remove these bounds. For the
orders, streams end after two events, so that one order and two racing callers
meet every conflict; orders share nothing but the outbox, and two redeliveries
let a batch be repeated while it is being repeated. For the dispatcher, two rows
of one stream and two dispatchers are enough for overtaking, for a stale
snapshot and for a partly delivered batch; four rows exceed the batch.
`MaxFailures` bounds how often anything goes wrong in one behaviour, `MaxLosses`
how often the client is lost: two are a failure and a second one during the
recovery from the first. In the pipeline, two appends draw their ids alternately
and commit in either order, and the handler's failure comes at any of them;
faults of the dispatcher beyond that, and lost sessions, are left to
dispatcher_pair. For the buses, four calls are enough for the deadlock that
nested read locks would make: an outer dispatch, a registration by the other
goroutine, and a dispatch from inside the handler, with one call to spare to
register that handler first. One name will do, as names share only the lock.

### Fairness

`PostgresStore`: strong fairness of each connection's statements. A blocked
insert is enabled again and again as holders come and go, and the assumption is
that a waiter is not overtaken for ever; Postgres wakes it when the holder ends.
Weak fairness of `DropSession`: the server notices a lost client (TCP
keepalive). Failing and leaving are never forced. `Dispatcher`: weak fairness of
the goroutine, its timer, the ghosts' end, and the restart of a stopped process,
which is the operator's part and not the code's. Failures are bounded, so
`EverythingDispatched` reads: once failures cease and every process has been
brought up to date, every row is dispatched. `Pipeline`: that of its two parts,
with weak fairness for the connections, which suffices as the bound on ids lets
no third Append come along. `Buses`: weak fairness of every goroutine's steps;
handlers return, and as the calls are bounded nobody is overtaken for ever. A
handler that fails for ever stalls its dispatcher, as the code intends.
`Orders`: weak fairness of the publish loop in Save (an error of another
subscriber ends it as well), of the dispatcher's delivery and of its marking;
nobody has to send commands, and a late append need not be decided.

### Where code and documentation differ

1. *Order with several dispatchers* (`dispatcher_overtaking`).
   `event/dispatcher.go:22` has later entries not overtake a stalled one; SKIP
   LOCKED lets a second dispatcher do just that for one aggregate. With a single
   dispatcher the order holds (`dispatcher_single`), as long as no session is
   lost: rows locked by the ghost of a crashed run are skipped too.
2. *Exclusive claims* (`dispatcher_lost_session`). `event/outbox.go:26` promises
   an entry to one caller until it is released. A cut connection frees the rows
   in the server while the dispatcher goes on publishing them. What does hold is
   `LocksExclusive` and `AtLeastOnce`.
3. *Back-off* (`dispatcher_commit_error`). `event/dispatcher.go:96` has tick
   return zero on errors; after a failed commit it returns the batch size, and a
   full batch is retried at once.
4. *committedVersion* (`repository_lost_reply`). `aggregate/aggregate.go:100`
   has it always reflect what the store holds; after a lost reply it does not,
   and each retry of that object conflicts. `StoredOnce` shows the retry is
   harmless.

Two more were met on the way and are not worth a run. `event/event.go:66` has a
`Bus` return the first error of its handlers, `memory.Bus` returns all of them,
joined (its own comment says so). The notes of an order are limited to "500
characters" (`examples/orders/domain/orders.go:106`), and measured in bytes
(`:116`); `Inputs` therefore has a note that is "long" in bytes.

Other things the models show, which contradict no document: with
`WithBatchSize(0)` every poll counts as a full batch (0 = 0) and Run spins; and
over a plain store a handler error in `Save` leaves stored events that no later
Save publishes (the doc of `Save` mentions a crash only; `PublishedOrForgotten`
says that these are all: every other stored event has been published or is in
the hands of a Save that is publishing); after a redelivered `OrderPlaced` a
shipped order reads as not shipped until `OrderShipped` is redelivered too
(`ShippingShows` is an eventual property for that reason); and over a plain
store, a sender that ships an order under an id it knows before PlaceOrder has
returned can have its `OrderShipped` handled first, after which the summary
stays unshipped (hence the antecedent of `SummaryAgrees`, and of
`NeverUnshipped`). `writeAppError` makes every error that is neither a
validation error nor "not found" a 400, a conflict or a store that is down
included, so that a client cannot tell whether to retry; and a retry of
`PlaceOrder` gets a fresh id, so that after a lost reply of Postgres an order
may be placed twice, and over a store without outbox after an error of a
subscriber besides Wire's. Without such a subscriber it cannot happen there
(`StoredIsTold`, with `~others`). `Some(None)` of a nested Maybe reads back from
JSON as `None` (`NestedNoneIsLost`); no event nests one.

## Proofs

`PostgresStore_proofs` proves, for any aggregates, any pool and any bounds
(`BoundsAssumption`: the bounds are natural numbers), that every property of run
store_tables is a theorem of `Spec`: `TypeCorrect`, `GapFree`, `NoLockCycle`,
`Mirrored`, `IdsFollowSequence`, `NothingSlipsBehind`.

*Streams.* Gap-freedom is not inductive. `StreamInv` adds what the code's
correctness rests on: an open transaction has inserted exactly a prefix of its
batch (`LoopShape`); the head it saw is at most the present head, and equal to
it once it has inserted anything (`HeadSeen`); two transactions that have
inserted anything work on different aggregates (`OneWriter`). The last two
support each other. A first insert finds its key `expected + 1` free of
committed rows, so the head is still `expected`; another open transaction on the
aggregate would hold that same key, and the insert would have waited
(`FreeKey`). Hence a commit appends right behind the head (`CommitStream`).
`NoLockCycle` follows: a waiter and the holder are on one aggregate, so the
waiter has inserted nothing.

*Outbox.* `OutboxInv`, over `StreamInv`: each transaction's outbox rows mirror
its event rows (`TxMirrors`), all ids are below the next one (`IdsBelowNext`),
and a transaction's rows are ordered by id among themselves and behind the
committed rows of their aggregate (`TxOrdered`). Committing keeps `TxOrdered`
for the other transactions because, by `OneWriter`, none of them has rows of
that aggregate.

`IdsDrawnOnce` (theorem `DrawnOnce`), over the same two: no id is drawn twice,
by commits, by open transactions or by ones that ended otherwise.

*The contract.* `PostgresContract_proofs` proves `AppendContract`: every behaviour
of `PostgresStore`, with lost clients and late commits, is one of `EventStore`
under the mapping that reads the streams as `Load` does. The mapping speaks of
"the row at position n", so it needs `StreamInv` (there is exactly one), and
`CallShape` (a COMMIT is sent only when the whole batch is inserted, and a caller
waits only for an open transaction). A `Commit` maps to the contract's append, an
error to a rejection or to an undecided batch, and all other statements to
stutters.

`Dispatcher_proofs` proves, for any rows, dispatchers, handlers, batch size and
bounds on faults and losses, all safety properties of the two passing runs of
`Dispatcher`, and says when those of the failing runs do hold.

- `LocksAreExclusive` is inductive with the shape of a claim (`Typed`): a row is
  locked only if it is free.
- `DeliveredAtLeastOnce` needs `Backed`: not only the marked rows, but all that
  may yet be marked (what a dispatcher counts as delivered, what a COMMIT that
  is under way for a lost client covers) have been processed by every handler.
- `ClaimsExclusiveUntilLoss` needs `Unbroken`: until a session is lost a
  dispatcher holds the locks of the entries it has in memory. This is exactly
  what a cut connection breaks (finding 2).
- `PublishedOnceWithoutFailure` needs `Accounted`: until something goes wrong, an
  entry has been processed only if it is marked or its dispatcher knows of it.
- `NoneOvertaken` and `MarkedInOrder` hold for one dispatcher while
  `losses = 0`, whatever else fails. Their invariant is `Sorted`: there is no gap
  within a stream between the marked rows and the claim, nor between the claim
  and what the query has still to visit, and publishing goes from the front. Both
  hypotheses are needed: without them the properties fail (finding 1).

`Pipeline_proofs` composes these. Every behaviour of `Pipeline` is one of
`PostgresStore` (`RunsTheStore`) and, with the committed outbox rows as `rows`,
one of `Dispatcher` (`RunsTheDispatcher`), so all theorems above hold of it. The
second rests on `Feeds` (`StoreFeedsDispatcher`): a commit adds a whole batch
whose ids are new and, in each stream, larger than those before. That follows
from `IdsFollowSequence` and `NothingSlipsBehind`. `DeliversInOrder` is the
refinement of `Delivery`, for one dispatcher with `MaxLosses = 0`: `Prefixes` (a
handler that has heard an event of a stream has heard all before it) follows from
`NoneOvertaken` in terms of ids, and the store's theorems translate ids to
sequence numbers.

`Repository_proofs` proves, for any workers, aggregates and number of events, all
properties of run repository_save. The invariant is about batches: those of the
objects that might be saved, and those of Appends given up and still under way.
`History` says that each continues the stream it was raised on (`Grounded`); that
once one of its events is stored it does not fit the head any more (`Fresh`); and
that two batches with an event in common are attempts to append it at the same
place (`Rivals`), so that at most one of them can succeed. `StoredOnceHolds`
follows: a retry after an unclear error conflicts if the first attempt got
through. `DecidedOnHistoryHolds` and `SequenceIsPositionHolds` come with it.
`PlainCommittedReflectsStore` shows that finding 4 needs an outbox.
`NothingElseForgotten` proves `PublishedOrForgotten` from `Placement`: over a plain
store, what a worker has stored and not yet published is what its `outgoing`
lists, each event once, and no two workers list the same one.

`Orders_proofs` proves, for any orders, callers and bound on redeliveries, every
property of run orders_life but `ShippingShows`.

*The life of an order* (`OrdersLiveOnce`). `LifeInv`: streams are well formed, and
every append under way or late is a `Decision`, to place at version 0 or to ship
at version 1. An append that fits thus continues the life of its order
(`StoreContinues`).

*Who is told* (`OnlyOneIsTold`). `TellInv`, over `LifeInv`: what callers were told
has happened in the stream, and the events between append and the end of Save
belong to one caller each and to nobody who was told (`PublishersApart`). An
append that fits is of an event that has not happened (`StoreHappens`), so nobody
has been told of it and nobody else is publishing it.

*The projection* (`SummaryAgreesWhenSettled`, `SummaryIsAsAsked`,
`WritesAreRead`, `StoredIsAlwaysTold`, `ShippedStaysShown`). `ProjInv`, over
`TellInv`: the service stands behind every event, stored or on its way
(`Grounded`); the outbox is the streams, interleaved (`Ledger`: each event is
entered once, placing before shipping); and the summary shows nothing that is
not stored, everything handed over, everything callers were told of and, over a
plain store, everything stored that no caller is still to publish (`Projected`;
the last, `ShowsStored`, is what `SummaryAgrees` needs when another subscriber
fails and nobody is told). Each step writes to the summary only an event that is
`Due`: it is in its stream and, if it ships the order, the record is there.
Redelivery starts at the last commit, so the summary may fall back from shipped
to placed in between. When all is handed over it agrees again: the entry that
ships the order stands behind the one that places it, and `ShowsHanded` speaks
of the entries up to the cursor.

`Buses_proofs` proves, for any goroutines, names and bound on the calls, every
property of run buses_calls but `CallsReturn`: `NothingIsDisplaced` and
`RegisteredIsRun`, with `Typing`. The locks have no variables, so `BusesInv`
speaks of calls anywhere on the stacks: one at most has claimed a table for
writing (`OneWriter`); a call about to write has read what the table still holds,
and one that runs handlers has read what the table held at some time between the
call and now (`ReadsItsTable`). `BusesAssumption` says that the event bus is none of
the routed tables, the command and the query bus among them.

`Maybe_proofs` proves, for every type and every encoding, which values survive
JSON: `RoundTrip` is an equivalence, a value comes back exactly if it is not a
`Some` of something that marshals to null, and `NestedNoneIsLost` is the case
that does not. `MapIsFlatMap` and `FlatMapAssociates` are the monad's laws.

Every safety property of a passing run is thus a theorem for all values of the
constants. The bounds that remain as constants (`MaxSequence`, `MaxCalls`,
`MaxFailures`, ...) are arbitrary natural numbers there. A property that a failing
run refutes is proved under the condition the run violates, where there is one:
`NoOvertaking`, `ClaimsExclusive` and `CommittedReflectsStore`.

Only model-checked is liveness, as fairness and ENABLED are out of the prover's
reach: `AppendEnds`, `EverythingDispatched`, `CancelStops`, `RunRests`,
`StoredIsHeard`, `CallsReturn` and `ShippingShows`.

## Plan

Model and proofs cover what was planned. What could follow: the orders' append as
a refinement of `Repository`'s, so that `DecidedOnHistory` carries over by theorem
and not by the argument under Modules, and `Repository`'s two stores as
refinements of `EventStore`.

## Not modelled

- `internal/pgtest` starts a server for the tests, and
  `aggregate/aggregatetest` is a fixture for unit tests: Given replays events on
  an aggregate, When runs a method, Then compares what was raised. One goroutine,
  one object, no state that outlives a test.
- Formatting and wording of errors, timestamps, metadata and causation ids, which
  no decision depends on; the text form of ids; routing, middleware and the
  `main` functions of the examples; `Maybe.MustGet`, which panics on None.
- Configuration: `WithBatchSize` is a constant (positive in the runs), the poll
  interval only tells a wait from none, and the error handler is a log.
