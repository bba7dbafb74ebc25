----------------------------- MODULE Dispatcher -----------------------------
(***************************************************************************)
(* event.Dispatcher over the outbox of postgres.Store: each dispatcher     *)
(* (Run, in a process of its own or as a goroutine) claims a batch of      *)
(* pending rows, publishes them on the bus one by one, and marks those     *)
(* that got through.                                                       *)
(*                                                                         *)
(* A claim is a server-side transaction that locks its rows one at a time  *)
(* (SELECT ... FOR UPDATE SKIP LOCKED), and the dispatcher's list of       *)
(* entries.  The two can part: when the connection is cut, the context is  *)
(* cancelled or the process dies, the server keeps the locks until it      *)
(* notices (a ghost), and the dispatcher, if alive, goes on publishing     *)
(* entries it no longer owns.                                              *)
(*                                                                         *)
(* Rows enter the table as PostgresStore commits them: a batch at once,    *)
(* for one aggregate in the order of their ids (VisibleInOrder there),     *)
(* across aggregates in any order.  Module Pipeline puts the two together. *)
(***************************************************************************)
EXTENDS Naturals, FiniteSets

CONSTANTS
  Rows,           \* rows of table outbox: records with an id and an agg
  NewRows,        \* those whose event type only newer processes register
  Handlers,       \* the bus subscribers of the event types involved
  Dispatchers,
  BatchSize,
  MaxFailures,    \* bound on faults and losses together
  MaxLosses       \* bound on cut connections, cancelled contexts and crashes

ASSUME DispatcherAssumption ==
  /\ \A r \in Rows : r.id \in Nat
  /\ NewRows \subseteq Rows
  /\ BatchSize \in Nat /\ MaxFailures \in Nat /\ MaxLosses \in Nat

VARIABLES
  rows,           \* committed rows of table outbox
  dispatched,     \* those with dispatched_at set
  ghosts,         \* server-side transactions whose client is gone
  at,             \* the state of each dispatcher, see Processes
  handled,        \* the rows each handler has processed at least once
  faults,         \* errors reported by the database or a handler so far
  losses          \* losses so far

table == <<rows, dispatched, ghosts>>
vars  == <<table, at, handled, faults, losses>>

Ghosts == [locks : SUBSET Rows, marks : SUBSET Rows]

(***************************************************************************)
(* Where Run and tick are; whether Run's timer is due and its context      *)
(* cancelled; whether the process registers every event type; the rows its *)
(* claim query has still to visit, the entries of its claim, the rows its  *)
(* transaction locks ({} once it is cut), and the entries published.       *)
(***************************************************************************)
Processes ==
  [pc : {"timer", "claim", "publish", "settle", "stopped"},
   due : BOOLEAN, cancelled : BOOLEAN, knowsAll : BOOLEAN,
   todo : SUBSET Rows, claim : SUBSET Rows, locks : SUBSET Rows,
   delivered : SUBSET Rows]

Started(knowsAll) ==
  [pc |-> "timer", due |-> TRUE, cancelled |-> FALSE, knowsAll |-> knowsAll,
   todo |-> {}, claim |-> {}, locks |-> {}, delivered |-> {}]

Init ==
  /\ rows = {} /\ dispatched = {} /\ ghosts = {}
  /\ at \in [Dispatchers -> {Started(k) : k \in BOOLEAN}]
  /\ handled = [h \in Handlers |-> {}]
  /\ faults = 0 /\ losses = 0

Failure == faults + losses < MaxFailures
Fault == Failure /\ faults' = faults + 1 /\ UNCHANGED losses
Loss  == Failure /\ losses < MaxLosses /\ losses' = losses + 1 /\ UNCHANGED faults
Fine  == UNCHANGED <<faults, losses>>

(***************************************************************************)
(* Only the dispatcher itself moves on.                                    *)
(***************************************************************************)
Inside == UNCHANGED <<table, handled>> /\ Fine

-----------------------------------------------------------------------------
(* The outbox table and its locks.                                         *)

SameStream(r, q) == r.agg = q.agg

(***************************************************************************)
(* An Append commits the rows of its batch.                                *)
(***************************************************************************)
Arrive(batch) ==
  /\ batch # {}
  /\ \A r, q \in batch : SameStream(r, q) /\ (r.id = q.id => r = q)
  /\ \A r \in batch, q \in rows : q.id # r.id /\ (SameStream(r, q) => q.id < r.id)
  /\ rows' = rows \cup batch
  /\ UNCHANGED <<dispatched, ghosts, at, handled>> /\ Fine

NeverLocked(r) == FALSE   \* mutant: the claim query without FOR UPDATE

Locked(r) ==
  \/ \E d \in Dispatchers : r \in at[d].locks
  \/ \E g \in ghosts : r \in g.locks

SkippedUnchecked(r) == Locked(r)   \* mutant: a row is not looked at again once locked

(***************************************************************************)
(* SKIP LOCKED passes over locked rows, and a row that has been marked     *)
(* since the snapshot no longer meets the WHERE clause.                    *)
(***************************************************************************)
Skipped(r) == Locked(r) \/ r \in dispatched

(***************************************************************************)
(* The session of d loses its client, perhaps with a COMMIT under way that *)
(* marks the rows in "marks".                                              *)
(***************************************************************************)
Orphan(d, marks) ==
  ghosts' = IF at[d].locks = {} THEN ghosts
            ELSE ghosts \cup {[locks |-> at[d].locks, marks |-> marks]}

(***************************************************************************)
(* The server ends a ghost: it rolls back, or executes the late COMMIT.    *)
(***************************************************************************)
GhostEnds ==
  \E g \in ghosts :
     /\ ghosts' = ghosts \ {g}
     /\ \E marks \in {{}, g.marks} : dispatched' = dispatched \cup marks
     /\ UNCHANGED <<rows, at, handled>> /\ Fine

-----------------------------------------------------------------------------
(* Run.                                                                    *)

WaitWhenFull(n) == n # BatchSize   \* mutant: inverted

(***************************************************************************)
(* A full batch is followed by the next tick at once, any other by one     *)
(* pollInterval.                                                           *)
(***************************************************************************)
WaitAfter(n) == n = BatchSize

(***************************************************************************)
(* tick returns n to Run.  Its transaction is over, or a ghost.            *)
(***************************************************************************)
Return(d, n) ==
  at' = [at EXCEPT ![d] =
          [Started(@.knowsAll) EXCEPT !.due = WaitAfter(n), !.cancelled = at[d].cancelled]]

(***************************************************************************)
(* The timer fires, unless Run has been woken by its context before.       *)
(***************************************************************************)
Elapse(d) ==
  /\ at[d].pc = "timer" /\ ~at[d].due /\ ~at[d].cancelled
  /\ at' = [at EXCEPT ![d].due = TRUE]
  /\ Inside

(***************************************************************************)
(* select picks either case when both are ready.                           *)
(***************************************************************************)
Stop(d) ==
  /\ at[d].pc = "timer" /\ at[d].cancelled
  /\ at' = [at EXCEPT ![d].pc = "stopped"]
  /\ Inside

Cancel(d) ==
  /\ at[d].pc # "stopped" /\ ~at[d].cancelled
  /\ at' = [at EXCEPT ![d].cancelled = TRUE]
  /\ UNCHANGED <<table, handled>> /\ Loss

(***************************************************************************)
(* The process dies, perhaps while a COMMIT is under way.                  *)
(***************************************************************************)
Crash(d) ==
  /\ at[d].pc # "stopped"
  /\ \E marks \in {{}, IF at[d].pc = "settle" THEN at[d].delivered ELSE {}} : Orphan(d, marks)
  /\ at' = [at EXCEPT ![d] = [Started(@.knowsAll) EXCEPT !.pc = "stopped"]]
  /\ UNCHANGED <<rows, dispatched, handled>> /\ Loss

(***************************************************************************)
(* The process is started again, or a newer version of it.                 *)
(***************************************************************************)
Restart(d) ==
  /\ at[d].pc = "stopped"
  /\ \E newer \in BOOLEAN : at' = [at EXCEPT ![d] = Started(@.knowsAll \/ newer)]
  /\ Inside

-----------------------------------------------------------------------------
(* tick: the claim.                                                        *)

StartTick(d) == at[d].pc = "timer" /\ at[d].due

BeyondTheLast ==   \* mutant: dispatched_at is replaced by a cursor
  {r \in rows : \A q \in dispatched : q.id < r.id}

Pending == rows \ dispatched

(***************************************************************************)
(* The query takes its snapshot.  With batchSize <= 0 there is no query    *)
(* and no transaction, and a cancelled context goes unnoticed.             *)
(***************************************************************************)
BeginClaim(d) ==
  /\ StartTick(d)
  /\ BatchSize > 0 => ~at[d].cancelled
  /\ at' = [at EXCEPT ![d].pc = "claim", ![d].todo = Pending]
  /\ Inside

(***************************************************************************)
(* Begin fails: at once when the context is cancelled.                     *)
(***************************************************************************)
BeginFails(d) ==
  /\ StartTick(d) /\ BatchSize > 0
  /\ Return(d, 0)
  /\ UNCHANGED <<table, handled>>
  /\ IF at[d].cancelled THEN Fine ELSE Fault

First(S) == CHOOSE r \in S : \A q \in S : r.id <= q.id

NoLimit(d) == at[d].todo = {}   \* mutant: LIMIT is missing

Scanned(d) == at[d].todo = {} \/ Cardinality(at[d].claim) = BatchSize

LockRow(d) ==
  /\ at[d].pc = "claim" /\ ~Scanned(d)
  /\ LET r   == First(at[d].todo)
         got == IF Skipped(r) THEN {} ELSE {r}
     IN at' = [at EXCEPT ![d].todo = @ \ {r}, ![d].claim = @ \cup got, ![d].locks = @ \cup got]
  /\ Inside

(***************************************************************************)
(* The empty claim: its transaction is rolled back, and tick returns zero. *)
(***************************************************************************)
FoundNothing(d) ==
  /\ at[d].pc = "claim" /\ Scanned(d) /\ at[d].claim = {}
  /\ Return(d, 0)
  /\ Inside

(***************************************************************************)
(* Registry.Unmarshal of this process decodes the row.                     *)
(***************************************************************************)
Decodes(d, r) == at[d].knowsAll \/ r \notin NewRows

ClaimReturns(d) ==
  /\ at[d].pc = "claim" /\ Scanned(d) /\ at[d].claim # {}
  /\ \A r \in at[d].claim : Decodes(d, r)
  /\ at' = [at EXCEPT ![d].pc = "publish", ![d].todo = {}]
  /\ Inside

SkipUndecodable(d) ==   \* mutant: rows that do not scan are left out of the claim
  /\ at[d].pc = "claim" /\ Scanned(d)
  /\ \E r \in at[d].claim : ~Decodes(d, r)
  /\ LET decoded == {r \in at[d].claim : Decodes(d, r)}
     IN at' = [at EXCEPT ![d].claim = decoded, ![d].locks = decoded]
  /\ Inside

(***************************************************************************)
(* A row does not scan, because this process does not know its event type: *)
(* the whole claim is rolled back, the rows before it included.            *)
(***************************************************************************)
ScanFails(d) ==
  /\ at[d].pc = "claim" /\ Scanned(d)
  /\ \E r \in at[d].claim : ~Decodes(d, r)
  /\ Return(d, 0)
  /\ Inside

(***************************************************************************)
(* The query fails, or a payload does not unmarshal: as with ScanFails.    *)
(***************************************************************************)
ClaimFails(d) ==
  /\ at[d].pc = "claim"
  /\ Return(d, 0)
  /\ UNCHANGED <<table, handled>> /\ Fault

(***************************************************************************)
(* The connection is cut during the query, or the context cancelled: no    *)
(* rollback reaches the server.                                            *)
(***************************************************************************)
ClaimCut(d) ==
  /\ at[d].pc = "claim"
  /\ Return(d, 0)
  /\ Orphan(d, {})
  /\ UNCHANGED <<rows, dispatched, handled>>
  /\ IF at[d].cancelled THEN Fine ELSE Loss

-----------------------------------------------------------------------------
(* tick: the publish loop.                                                 *)

Latest(d) ==   \* mutant: ORDER BY id DESC
  LET left == at[d].claim \ at[d].delivered
  IN CHOOSE r \in left : \A q \in left : q.id <= r.id

Entry(d) == First(at[d].claim \ at[d].delivered)

(***************************************************************************)
(* Bus.Publish runs every handler, whatever the others return.             *)
(***************************************************************************)
Handled(r, succeeding) ==
  handled' = [h \in Handlers |-> IF h \in succeeding THEN handled[h] \cup {r}
                                                     ELSE handled[h]]

PublishOk(d) ==
  /\ at[d].pc = "publish"
  /\ Handled(Entry(d), Handlers)
  /\ LET done == at[d].delivered \cup {Entry(d)}
     IN at' = [at EXCEPT ![d].delivered = done,
                         ![d].pc = IF done = at[d].claim THEN "settle" ELSE @]
  /\ UNCHANGED table /\ Fine

(***************************************************************************)
(* Some handler fails: Publish returns an error although the others have   *)
(* done their work, and the batch stops.                                   *)
(***************************************************************************)
PublishFails(d) ==
  /\ at[d].pc = "publish"
  /\ \E succeeding \in SUBSET Handlers \ {Handlers} : Handled(Entry(d), succeeding)
  /\ at' = [at EXCEPT ![d].pc = "settle"]
  /\ UNCHANGED table /\ Fault

(***************************************************************************)
(* The connection is cut while the dispatcher publishes, unnoticed.        *)
(***************************************************************************)
LoseSession(d) ==
  /\ at[d].pc \in {"publish", "settle"} /\ at[d].locks # {}
  /\ Orphan(d, {})
  /\ at' = [at EXCEPT ![d].locks = {}]
  /\ UNCHANGED <<rows, dispatched, handled>> /\ Loss

-----------------------------------------------------------------------------
(* tick: Release or Commit.                                                *)

Settle(d) == at[d].pc = "settle" /\ Return(d, Cardinality(at[d].claim))

(***************************************************************************)
(* The transaction is rolled back; with a cancelled context the rollback   *)
(* does not reach the server.                                              *)
(***************************************************************************)
RolledBack(d) ==
  /\ IF at[d].cancelled THEN Orphan(d, {}) ELSE UNCHANGED ghosts
  /\ UNCHANGED <<rows, dispatched, handled>>

(***************************************************************************)
(* Nothing got through.                                                    *)
(***************************************************************************)
Release(d) == at[d].delivered = {} /\ Settle(d) /\ RolledBack(d) /\ Fine

(***************************************************************************)
(* A commit has a chance while its transaction is still there.             *)
(***************************************************************************)
Committable(d) ==
  at[d].delivered # {} /\ at[d].locks # {} /\ ~at[d].cancelled

WholeClaim(d) == at[d].claim   \* mutant: Commit marks every entry of the claim

Marks(d) == at[d].delivered

CommitOk(d) ==
  /\ Committable(d)
  /\ Settle(d)
  /\ dispatched' = dispatched \cup Marks(d)
  /\ UNCHANGED <<rows, ghosts, handled>> /\ Fine

CommitRetries(d) ==   \* mutant: tick waits for a commit that can never succeed
  /\ at[d].delivered # {} /\ at[d].pc = "settle"
  /\ UNCHANGED <<table, at, handled>>
  /\ IF Committable(d) THEN Fault ELSE Fine

(***************************************************************************)
(* UPDATE or COMMIT fails and the transaction is rolled back.  The         *)
(* dispatcher reports the error and goes on as after a success.            *)
(***************************************************************************)
CommitFails(d) ==
  /\ at[d].delivered # {}
  /\ Settle(d)
  /\ RolledBack(d)
  /\ IF Committable(d) THEN Fault ELSE Fine

(***************************************************************************)
(* The connection is cut between COMMIT and its answer.                    *)
(***************************************************************************)
CommitCut(d) ==
  /\ Committable(d)
  /\ Settle(d)
  /\ Orphan(d, Marks(d))
  /\ UNCHANGED <<rows, dispatched, handled>> /\ Loss

-----------------------------------------------------------------------------
(***************************************************************************)
(* What a dispatcher does when nothing goes wrong, or after it has: when   *)
(* its context is cancelled or its transaction gone.                       *)
(***************************************************************************)
Progress(d) ==
  \/ BeginClaim(d) \/ LockRow(d) \/ FoundNothing(d) \/ ClaimReturns(d) \/ ScanFails(d)
  \/ PublishOk(d) \/ Release(d) \/ CommitOk(d)

GivesUp(d) ==
  \/ at[d].cancelled /\ (BeginFails(d) \/ ClaimCut(d))
  \/ ~Committable(d) /\ CommitFails(d)

Trouble(d) ==
  \/ BeginFails(d) \/ ClaimFails(d) \/ ClaimCut(d) \/ PublishFails(d)
  \/ LoseSession(d) \/ CommitFails(d) \/ CommitCut(d) \/ Cancel(d) \/ Crash(d)

Dispatch ==
  \/ GhostEnds
  \/ \E d \in Dispatchers :
       Elapse(d) \/ Stop(d) \/ Restart(d) \/ Progress(d) \/ Trouble(d)

Next == Dispatch \/ \E batch \in SUBSET (Rows \ rows) : Arrive(batch)

Spec == Init /\ [][Next]_vars

(***************************************************************************)
(* Every dispatcher goroutine is scheduled, its timer fires, the server    *)
(* notices lost clients, and a stopped process is started again.           *)
(***************************************************************************)
GoesOn(d) == Elapse(d) \/ Stop(d) \/ Restart(d) \/ Progress(d) \/ GivesUp(d)

Fairness == WF_vars(GhostEnds) /\ \A d \in Dispatchers : WF_vars(GoesOn(d))

FairSpec == Spec /\ Fairness

-----------------------------------------------------------------------------
(***************************************************************************)
(* The type invariant of the table and of the dispatchers.                 *)
(***************************************************************************)
ProcessOK(p) ==
  /\ p \in Processes
  /\ p.todo \cup p.claim \subseteq rows
  /\ Cardinality(p.claim) <= BatchSize
  /\ p.locks \in {{}, p.claim}
  /\ p.delivered \subseteq p.claim

TypeOK ==
  /\ rows \subseteq Rows /\ dispatched \subseteq rows
  /\ ghosts \subseteq Ghosts
  /\ DOMAIN at = Dispatchers /\ \A d \in Dispatchers : ProcessOK(at[d])
  /\ handled \in [Handlers -> SUBSET rows]
  /\ faults + losses \in 0..MaxFailures /\ losses \in 0..MaxLosses

(***************************************************************************)
(* At-least-once delivery: a row is marked dispatched only after every     *)
(* handler has processed its event without an error, whatever is lost,     *)
(* retried or committed late in between.                                   *)
(***************************************************************************)
AtLeastOnce == \A h \in Handlers : dispatched \subseteq handled[h]

(***************************************************************************)
(* While a dispatcher has an entry, no other dispatcher has it: Claim's    *)
(* contract in event/outbox.go, "an entry returned to one caller will not  *)
(* be returned to another until Released".                                 *)
(***************************************************************************)
ClaimsExclusive ==
  \A d, e \in Dispatchers : d # e => at[d].claim \cap at[e].claim = {}

(***************************************************************************)
(* No two transactions hold one row, those of lost clients included:       *)
(* "concurrent claims see disjoint sets of rows" (README.md).              *)
(***************************************************************************)
LocksExclusive ==
  /\ \A d, e \in Dispatchers : d # e => at[d].locks \cap at[e].locks = {}
  /\ \A d \in Dispatchers, g \in ghosts : at[d].locks \cap g.locks = {}
  /\ \A f, g \in ghosts : f # g => f.locks \cap g.locks = {}

(***************************************************************************)
(* Only failures cause redelivery: as long as nothing has gone wrong, no   *)
(* event is published twice, however many dispatchers share the outbox.    *)
(***************************************************************************)
OnceWithoutFailure ==
  [][\A d \in Dispatchers :
       (faults + losses = 0 /\ PublishOk(d)) =>
         \A h \in Handlers : Entry(d) \notin handled[h]]_vars

(***************************************************************************)
(* "later entries don't overtake a stalled one" (event/dispatcher.go): a   *)
(* handler that has processed an event has processed every earlier event   *)
(* of the same aggregate, also when the dispatcher cannot decode it.       *)
(***************************************************************************)
NoOvertaking ==
  \A h \in Handlers : \A r \in handled[h] : \A q \in rows :
     (SameStream(r, q) /\ q.id < r.id) => q \in handled[h]

(***************************************************************************)
(* The rows of an aggregate are marked in order: what is left to do is     *)
(* always the tail of each stream.                                         *)
(***************************************************************************)
DispatchedInOrder ==
  \A r \in dispatched : \A q \in rows :
     (SameStream(r, q) /\ q.id < r.id) => q \in dispatched

(***************************************************************************)
(* Run does not spin: once the failures and the full batches are over, a   *)
(* dispatcher waits between its polls, also when it is stuck behind a row  *)
(* that it cannot decode.                                                  *)
(***************************************************************************)
RunRests ==
  \A d \in Dispatchers : []<>(~at[d].due \/ at[d].pc = "stopped")

(***************************************************************************)
(* After a commit that failed, Run backs off: "Returning zero on errors    *)
(* lets Run back off rather than tight-loop on a broken DB".               *)
(***************************************************************************)
BacksOffAfterCommitError ==
  [][\A d \in Dispatchers : CommitFails(d) => ~at'[d].due]_vars

(***************************************************************************)
(* When failures cease and every process has been brought up to date, all  *)
(* rows are dispatched: no claim, ghost, stalled entry or process that did *)
(* not know an event type keeps one for ever.                              *)
(***************************************************************************)
EverythingDispatched ==
  (\A d \in Dispatchers : <>at[d].knowsAll) =>
     \A r \in Rows : (r \in rows) ~> (r \in dispatched)

(***************************************************************************)
(* A cancelled Run returns.                                                *)
(***************************************************************************)
CancelStops == \A d \in Dispatchers : at[d].cancelled ~> (at[d].pc = "stopped")
=============================================================================
