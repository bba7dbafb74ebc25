-------------------------- MODULE Pipeline_proofs ---------------------------
(***************************************************************************)
(* The composition of store and dispatcher: each of the two modules is     *)
(* what Pipeline runs, so that what is proved about either of them holds   *)
(* here, and the two together deliver every stream in order.               *)
(***************************************************************************)
EXTENDS Pipeline, TLAPS

(***************************************************************************)
(* The theorems of the two parts, in terms of the variables of Pipeline.   *)
(***************************************************************************)
SP == INSTANCE PostgresContract_proofs

DP == INSTANCE Dispatcher_proofs WITH
        Rows    <- [id : Nat \ {0}, agg : Aggregates],
        NewRows <- {},
        rows    <- outboxRows

(***************************************************************************)
(* The assumptions of Dispatcher hold for the rows that a claim can read.  *)
(***************************************************************************)
LEMMA DispatcherBounds ==
  /\ \A r \in [id : Nat \ {0}, agg : Aggregates] : r.id \in Nat
  /\ {} \subseteq [id : Nat \ {0}, agg : Aggregates]
  /\ BatchSize \in Nat /\ MaxFailures \in Nat /\ MaxLosses \in Nat
BY PipelineAssumption

-----------------------------------------------------------------------------
(* The store is PostgresStore.                                             *)

(***************************************************************************)
(* Both instances of PostgresStore have the same actions.                  *)
(***************************************************************************)
LEMMA SameStatements ==
  ASSUME NEW c \in Connections
  PROVE  /\ Store!Invoke(c) => SP!Invoke(c)
         /\ Store!Statement(c) => SP!Statement(c)
         /\ Store!Fail(c) => SP!Fail(c)
         /\ Store!GiveUp(c) => SP!GiveUp(c)
         /\ Store!DropSession(c) => SP!DropSession(c)
<1> USE DEF Store!Rollback, SP!Rollback, Store!End, SP!End, Store!At, SP!At
<1>1. Store!Invoke(c) => SP!Invoke(c)
  BY DEF Store!Invoke, SP!Invoke, Store!Requests, SP!Requests
<1>2. Store!HeadMatches(c) <=> SP!HeadMatches(c)
  BY DEF Store!HeadMatches, SP!HeadMatches, Store!HeadOf, SP!HeadOf, Store!Sequences, SP!Sequences,
         Store!Max, SP!Max
<1>3. /\ Store!RowOf(c) = SP!RowOf(c)
      /\ Store!Blocked(c) <=> SP!Blocked(c)
      /\ Store!UniqueViolation(c) <=> SP!UniqueViolation(c)
  BY DEF Store!RowOf, SP!RowOf, Store!Blocked, SP!Blocked, Store!UniqueViolation,
         SP!UniqueViolation, Store!SameKey, SP!SameKey
<1>4. /\ Store!AcceptNothing(c) => SP!AcceptNothing(c)
      /\ Store!HeadCheck(c) => SP!HeadCheck(c)
      /\ Store!StaleHead(c) => SP!StaleHead(c)
  BY <1>2 DEF Store!AcceptNothing, SP!AcceptNothing, Store!HeadCheck, SP!HeadCheck,
              Store!StaleHead, SP!StaleHead
<1>5. /\ Store!InsertEvent(c) => SP!InsertEvent(c)
      /\ Store!LostRace(c) => SP!LostRace(c)
  BY <1>3 DEF Store!InsertEvent, SP!InsertEvent, Store!LostRace, SP!LostRace
<1>6. Store!InsertOutbox(c) => SP!InsertOutbox(c)
  BY <1>3 DEF Store!InsertOutbox, SP!InsertOutbox, Store!OutboxRow, SP!OutboxRow,
              Store!NextStatement, SP!NextStatement
<1>7. Store!Commit(c) => SP!Commit(c)
  BY DEF Store!Commit, SP!Commit
<1>8. Store!Statement(c) => SP!Statement(c)
  BY <1>4, <1>5, <1>6, <1>7 DEF Store!Statement, SP!Statement
<1>9. /\ Store!Fail(c) => SP!Fail(c)
      /\ Store!GiveUp(c) => SP!GiveUp(c)
      /\ Store!DropSession(c) => SP!DropSession(c)
  BY DEF Store!Fail, SP!Fail, Store!GiveUp, SP!GiveUp, Store!DropSession, SP!DropSession
<1> QED
  BY <1>1, <1>8, <1>9

(***************************************************************************)
(* Every step of the pipeline is a step of the store, or one of the        *)
(* dispatchers that leaves the store alone.                                *)
(***************************************************************************)
LEMMA StoreSteps ==
  ASSUME [Next]_vars
  PROVE  [SP!Next]_(SP!vars)
<1>1. CASE UNCHANGED storeVars
  BY <1>1 DEF storeVars, SP!vars, SP!tx
<1>2. ASSUME NEW c \in Connections,
             Append(c) \/ Store!Statement(c) \/ Store!Fail(c) \/ Store!GiveUp(c)
               \/ Store!DropSession(c)
      PROVE  SP!Next
  BY <1>2, SameStatements DEF Append, SP!Next
<1> QED
  BY <1>1, <1>2 DEF Next, vars

(***************************************************************************)
(* What the pipeline does to the tables, the Postgres store does.          *)
(***************************************************************************)
THEOREM RunsTheStore == Spec => SP!Spec
<1>1. Init => SP!Init
  BY DEF Init, Store!Init, SP!Init, Store!Requests, SP!Requests
<1>2. [Next]_vars => [SP!Next]_(SP!vars)
  BY StoreSteps
<1> QED
  BY <1>1, <1>2, PTL DEF Spec, SP!Spec

StoreInv ==
  SP!StreamInv /\ SP!OutboxInv /\ SP!IdsDrawnOnce /\ SP!CallShape /\ SP!HeadsBounded

(***************************************************************************)
(* What is proved about the store holds of its tables here.                *)
(***************************************************************************)
LEMMA StoreInvariant == Spec => []StoreInv
BY RunsTheStore, SP!OutboxInvariant, SP!DrawnOnce, SP!CallsInvariant, PipelineAssumption, PTL
DEF StoreInv

-----------------------------------------------------------------------------
(* The store feeds the dispatcher.                                         *)

(***************************************************************************)
(* A COMMIT lets the rows of one batch arrive: they are new, of one        *)
(* aggregate, and behind the rows of that aggregate that are there.        *)
(***************************************************************************)
LEMMA CommitFeeds ==
  ASSUME StoreInv, NEW c \in Connections, Store!Commit(c), UNCHANGED dispVars
  PROVE  Disp!Arrive(outboxRows' \ outboxRows)
<1> DEFINE T == txOutbox[c]
           new == {Claimable(o) : o \in T}
<1>1. outbox' = outbox \cup T /\ pc[c] = "commit"
  BY DEF Store!Commit
<1>2. T # {}
  <2>1. written[c] \in Nat /\ written[c] > 0
    BY <1>1, PipelineAssumption DEF StoreInv, SP!StreamInv, SP!TypeOK, SP!LoopShape
  <2>2. 1 \in 1..written[c]
    BY <2>1
  <2>3. SP!Batch(c, written[c]) # {}
    BY <2>2, Zenon DEF SP!Batch
  <2> QED
    BY <2>3 DEF StoreInv, SP!OutboxInv, SP!TxMirrors
<1>3. outboxRows' = outboxRows \cup new
  BY <1>1 DEF outboxRows
<1>4. \A o \in outbox, p \in T : o.id # p.id
  BY DEF StoreInv, SP!IdsDrawnOnce
<1>5. outboxRows' \ outboxRows = new
  BY <1>3, <1>4 DEF outboxRows, Claimable
<1>6. \A o, p \in T : o.agg = p.agg /\ (o.id = p.id => o = p)
  BY SP!TxRow, PipelineAssumption DEF StoreInv, SP!OutboxInv, SP!IdsDrawnOnce
<1>7. \A o \in outbox, p \in T : o.agg = p.agg => o.id < p.id
  BY DEF StoreInv, SP!OutboxInv, SP!TxOrdered
<1>8. /\ new # {}
      /\ \A r, q \in new : r.agg = q.agg /\ (r.id = q.id => r = q)
      /\ \A r \in new, q \in outboxRows : q.id # r.id /\ (r.agg = q.agg => q.id < r.id)
  <2>1. new # {}
    BY <1>2
  <2>2. ASSUME NEW o \in T, NEW p \in T
        PROVE  LET r == Claimable(o)
                   q == Claimable(p)
               IN r.agg = q.agg /\ (r.id = q.id => r = q)
    BY <1>6 DEF Claimable
  <2>3. ASSUME NEW p \in T, NEW o \in outbox
        PROVE  LET r == Claimable(p)
                   q == Claimable(o)
               IN q.id # r.id /\ (r.agg = q.agg => q.id < r.id)
    BY <1>4, <1>7 DEF Claimable
  <2> QED
    BY <2>1, <2>2, <2>3 DEF outboxRows
<1> HIDE DEF new
<1>9. Disp!Arrive(new)
  BY <1>3, <1>8 DEF dispVars, Disp!Arrive, Disp!SameStream, Disp!Fine
<1> QED
  BY <1>5, <1>9

(***************************************************************************)
(* Only a COMMIT changes what dispatchers see.                             *)
(***************************************************************************)
LEMMA OnlyCommitsShow ==
  ASSUME [Next]_vars, outboxRows' # outboxRows
  PROVE  UNCHANGED dispVars /\ \E c \in Connections : Store!Commit(c)
<1>1. outbox' # outbox
  BY DEF outboxRows
<1> QED
  BY <1>1 DEF Next, vars, storeVars, Append, Store!Invoke, Store!Statement, Store!Fail,
     Store!GiveUp, Store!DropSession, Store!Rollback, Store!AcceptNothing, Store!HeadCheck,
     Store!StaleHead, Store!InsertEvent, Store!LostRace, Store!InsertOutbox

(***************************************************************************)
(* The store feeds the dispatcher as the dispatcher's module assumes:      *)
(* whole batches, for each aggregate in the order of their ids.            *)
(***************************************************************************)
THEOREM Feeds == Spec => StoreFeedsDispatcher
<1>1. StoreInv /\ [Next]_vars =>
        [(outboxRows' # outboxRows) => Disp!Arrive(outboxRows' \ outboxRows)]_vars
  BY CommitFeeds, OnlyCommitsShow
<1> QED
  BY <1>1, StoreInvariant, PTL DEF Spec, StoreFeedsDispatcher

-----------------------------------------------------------------------------
(* The dispatchers are Dispatcher.                                         *)

(***************************************************************************)
(* Both instances of Dispatcher have the same actions.                     *)
(***************************************************************************)
LEMMA SameDispatch ==
  ASSUME NEW d \in Dispatchers
  PROVE  Disp!Elapse(d) \/ Disp!Stop(d) \/ Disp!Restart(d) \/ Disp!Progress(d) \/ Disp!Trouble(d)
           => DP!Elapse(d) \/ DP!Stop(d) \/ DP!Restart(d) \/ DP!Progress(d) \/ DP!Trouble(d)
<1> USE DEF Disp!Inside, DP!Inside, Disp!Fine, DP!Fine, Disp!Fault, DP!Fault, Disp!Loss,
        DP!Loss, Disp!Failure, DP!Failure, Disp!Return, DP!Return, Disp!Started, DP!Started,
        Disp!WaitAfter, DP!WaitAfter, Disp!table, DP!table, Disp!Orphan, DP!Orphan
<1>0. /\ \A S : Disp!Cardinality(S) = DP!Cardinality(S)
      /\ \A S : Disp!First(S) = DP!First(S)
  BY DEF Disp!Cardinality, DP!Cardinality, Disp!First, DP!First
<1>1. /\ Disp!Elapse(d) => DP!Elapse(d)
      /\ Disp!Stop(d) => DP!Stop(d)
      /\ Disp!Restart(d) => DP!Restart(d)
      /\ Disp!BeginClaim(d) => DP!BeginClaim(d)
      /\ Disp!BeginFails(d) => DP!BeginFails(d)
  BY DEF Disp!Elapse, DP!Elapse, Disp!Stop, DP!Stop, Disp!Restart, DP!Restart,
     Disp!BeginClaim, DP!BeginClaim, Disp!BeginFails, DP!BeginFails, Disp!StartTick,
     DP!StartTick, Disp!Pending, DP!Pending
<1>2. /\ Disp!LockRow(d) => DP!LockRow(d)
      /\ Disp!FoundNothing(d) => DP!FoundNothing(d)
      /\ Disp!ClaimReturns(d) => DP!ClaimReturns(d)
      /\ Disp!ScanFails(d) => DP!ScanFails(d)
      /\ Disp!ClaimFails(d) => DP!ClaimFails(d)
      /\ Disp!ClaimCut(d) => DP!ClaimCut(d)
  BY <1>0 DEF Disp!LockRow, DP!LockRow, Disp!FoundNothing, DP!FoundNothing, Disp!ClaimReturns,
     DP!ClaimReturns, Disp!ScanFails, DP!ScanFails, Disp!ClaimFails, DP!ClaimFails,
     Disp!ClaimCut, DP!ClaimCut, Disp!Scanned, DP!Scanned,
     Disp!Skipped, DP!Skipped, Disp!Locked, DP!Locked, Disp!Decodes, DP!Decodes
<1>3. /\ Disp!PublishOk(d) => DP!PublishOk(d)
      /\ Disp!PublishFails(d) => DP!PublishFails(d)
      /\ Disp!LoseSession(d) => DP!LoseSession(d)
  BY <1>0 DEF Disp!PublishOk, DP!PublishOk, Disp!PublishFails, DP!PublishFails, Disp!LoseSession,
     DP!LoseSession, Disp!Handled, DP!Handled, Disp!Entry, DP!Entry
<1>4. /\ Disp!Release(d) => DP!Release(d)
      /\ Disp!CommitOk(d) => DP!CommitOk(d)
      /\ Disp!CommitFails(d) => DP!CommitFails(d)
      /\ Disp!CommitCut(d) => DP!CommitCut(d)
  BY <1>0 DEF Disp!Release, DP!Release, Disp!CommitOk, DP!CommitOk, Disp!CommitFails,
     DP!CommitFails, Disp!CommitCut, DP!CommitCut, Disp!Settle, DP!Settle, Disp!RolledBack,
     DP!RolledBack, Disp!Committable, DP!Committable, Disp!Marks, DP!Marks
<1>5. /\ Disp!Cancel(d) => DP!Cancel(d)
      /\ Disp!Crash(d) => DP!Crash(d)
  BY DEF Disp!Cancel, DP!Cancel, Disp!Crash, DP!Crash
<1> QED
  BY <1>1, <1>2, <1>3, <1>4, <1>5 DEF Disp!Progress, DP!Progress, Disp!Trouble, DP!Trouble

(***************************************************************************)
(* Every step of the pipeline is a step of the dispatchers, the arrival of *)
(* a batch, or a step of the store that they do not see.                   *)
(***************************************************************************)
LEMMA DispatcherSteps ==
  ASSUME StoreInv, StoreInv', [Next]_vars
  PROVE  [DP!Next]_(DP!vars)
<1>1. CASE Disp!Dispatch
  <2>1. Disp!GhostEnds => DP!GhostEnds
    BY DEF Disp!GhostEnds, DP!GhostEnds, Disp!Fine, DP!Fine
  <2> QED
    BY <1>1, <2>1, SameDispatch DEF Disp!Dispatch, DP!Dispatch, DP!Next
<1>2. CASE outboxRows' # outboxRows
  <2>1. Disp!Arrive(outboxRows' \ outboxRows)
    BY <1>2, CommitFeeds, OnlyCommitsShow
  <2>2. outboxRows' \subseteq [id : Nat \ {0}, agg : Aggregates]
    BY DEF StoreInv, SP!StreamInv, SP!TypeOK, SP!OutboxRows, outboxRows, Claimable
  <2>3. DP!Arrive(outboxRows' \ outboxRows)
    BY <2>1 DEF Disp!Arrive, DP!Arrive, Disp!SameStream, DP!SameStream, Disp!Fine, DP!Fine
  <2> QED
    BY <2>2, <2>3 DEF DP!Next
<1>3. CASE outboxRows' = outboxRows /\ UNCHANGED dispVars
  BY <1>3 DEF dispVars, DP!vars, DP!table
<1> QED
  BY <1>1, <1>2, <1>3 DEF Next, vars

(***************************************************************************)
(* What the pipeline does to the outbox and the handlers, a Dispatcher     *)
(* does whose rows arrive from the store.                                  *)
(***************************************************************************)
THEOREM RunsTheDispatcher == Spec => DP!Spec
<1>1. Init => DP!Init
  BY DEF Init, Store!Init, Disp!Init, DP!Init, Disp!Started, DP!Started, outboxRows
<1>2. StoreInv /\ StoreInv' /\ [Next]_vars => [DP!Next]_(DP!vars)
  BY DispatcherSteps
<1> QED
  BY <1>1, <1>2, StoreInvariant, PTL DEF Spec, DP!Spec

(***************************************************************************)
(* So the dispatcher's theorems hold for rows that PostgresStore commits.  *)
(***************************************************************************)
THEOREM DeliveredAtLeastOnce == Spec => []DP!AtLeastOnce
BY RunsTheDispatcher, DP!DeliveredAtLeastOnce, DispatcherBounds, PTL

(***************************************************************************)
(* One dispatcher whose connection is not cut delivers the rows of each    *)
(* aggregate in the order of their ids.                                    *)
(***************************************************************************)
THEOREM NoneOvertaken ==
  ASSUME NEW d, Dispatchers = {d}
  PROVE  Spec => [](losses = 0 => DP!NoOvertaking)
BY RunsTheDispatcher, DP!NoneOvertaken, DispatcherBounds, PTL

-----------------------------------------------------------------------------
(* From end to end.                                                        *)

(***************************************************************************)
(* The rows of a stream: one for every sequence number up to the head, in  *)
(* the order of their ids.                                                 *)
(***************************************************************************)
LEMMA RowsOfStreams ==
  ASSUME StoreInv
  PROVE  /\ \A g \in Aggregates : Store!Sequences(g) = SP!Sequences(g)
         /\ \A g \in Aggregates : SP!Sequences(g) = 1..SP!HeadOf(g)
                                  /\ SP!HeadOf(g) \in Nat /\ SP!HeadOf(g) <= MaxSequence
         /\ \A o \in outbox : o.agg \in Aggregates /\ o.sequence \in SP!Sequences(o.agg)
                              /\ o.id \in Nat
         /\ \A g \in Aggregates : \A n \in SP!Sequences(g) :
              \E o \in outbox : o.agg = g /\ o.sequence = n
         /\ \A o, p \in outbox : o.agg = p.agg =>
              /\ o.sequence = p.sequence => o = p
              /\ o.sequence < p.sequence => o.id < p.id
<1>1. \A g \in Aggregates : Store!Sequences(g) = SP!Sequences(g)
  BY DEF Store!Sequences, SP!Sequences
<1>2. \A g \in Aggregates : SP!Sequences(g) = 1..SP!HeadOf(g)
                            /\ SP!HeadOf(g) \in Nat /\ SP!HeadOf(g) <= MaxSequence
  BY DEF StoreInv, SP!StreamInv, SP!StreamsGapFree, SP!HeadsAreNumbers, SP!HeadsBounded
<1>3. ASSUME NEW o \in outbox
      PROVE  o.agg \in Aggregates /\ o.sequence \in SP!Sequences(o.agg) /\ o.id \in Nat
  <2>1. o.agg \in Aggregates /\ o.id \in Nat
    BY DEF StoreInv, SP!StreamInv, SP!TypeOK, SP!OutboxRows
  <2>2. [agg |-> o.agg, sequence |-> o.sequence, payload |-> o.payload] \in events
    BY DEF StoreInv, SP!OutboxInv, SP!OutboxMirrorsEvents
  <2>3. \E e \in events : e.agg = o.agg /\ e.sequence = o.sequence
    BY <2>2
  <2> QED
    BY <2>1, <2>3 DEF SP!Sequences
<1>4. ASSUME NEW g \in Aggregates, NEW n \in SP!Sequences(g)
      PROVE  \E o \in outbox : o.agg = g /\ o.sequence = n
  <2>1. PICK e \in events : e.agg = g /\ e.sequence = n
    BY DEF SP!Sequences
  <2>2. PICK o \in outbox :
          e = [agg |-> o.agg, sequence |-> o.sequence, payload |-> o.payload]
    BY DEF StoreInv, SP!OutboxInv, SP!OutboxMirrorsEvents
  <2> QED
    BY <2>1, <2>2
<1>5. \A o, p \in outbox : o.agg = p.agg =>
        /\ o.sequence = p.sequence => o = p
        /\ o.sequence < p.sequence => o.id < p.id
  BY DEF StoreInv, SP!OutboxInv, SP!OutboxMirrorsEvents, SP!SameKey, SP!OutboxFollowsSequence
<1> QED
  BY <1>1, <1>2, <1>3, <1>4, <1>5

(***************************************************************************)
(* A handler that has heard an event of a stream has heard all before it.  *)
(***************************************************************************)
Prefixes ==
  \A h \in Handlers, g \in Aggregates : \A n \in Position(h, g) :
     /\ n \in SP!Sequences(g)
     /\ \A m \in 1..n : m \in Position(h, g)

(***************************************************************************)
(* Rows are numbered in the order of their ids, so that a handler that     *)
(* overtakes none has heard a prefix of each stream.                       *)
(***************************************************************************)
LEMMA HeardArePrefixes == StoreInv /\ DP!NoOvertaking => Prefixes
<1> SUFFICES ASSUME StoreInv, DP!NoOvertaking
             PROVE  Prefixes
  OBVIOUS
<1>0. \A h \in Handlers, g \in Aggregates : \A n \in Position(h, g) : n \in SP!Sequences(g)
  BY RowsOfStreams DEF Position
<1> SUFFICES ASSUME NEW h \in Handlers, NEW g \in Aggregates,
                    NEW n \in Position(h, g), NEW m \in 1..n
             PROVE  m \in Position(h, g)
  BY <1>0 DEF Prefixes
<1>1. PICK o \in outbox : o.agg = g /\ Claimable(o) \in handled[h] /\ o.sequence = n
  BY DEF Position
<1>2. n \in SP!Sequences(g) /\ n \in Nat
  BY <1>1, RowsOfStreams
<1>3. m \in SP!Sequences(g) /\ m \in Nat
  BY <1>2, RowsOfStreams
<1>4. PICK p \in outbox : p.agg = g /\ p.sequence = m
  BY <1>3, RowsOfStreams
<1>5. CASE m = n
  BY <1>2, <1>5
<1>6. CASE m < n
  <2>1. p.id < o.id
    BY <1>1, <1>4, <1>6, RowsOfStreams
  <2>2. Claimable(p) \in outboxRows /\ Claimable(p).id < Claimable(o).id
        /\ Claimable(p).agg = Claimable(o).agg
    BY <1>1, <1>4, <2>1 DEF outboxRows, Claimable
  <2>3. Claimable(p) \in handled[h]
    BY <1>1, <2>2 DEF DP!NoOvertaking, DP!SameStream
  <2> QED
    BY <1>2, <1>4, <2>3 DEF Position
<1> QED
  BY <1>2, <1>5, <1>6

(***************************************************************************)
(* A COMMIT stores a batch, of which no handler has heard.                 *)
(***************************************************************************)
LEMMA CommitStores ==
  ASSUME StoreInv, StoreInv', DP!Typed, NEW c \in Connections, Store!Commit(c),
         UNCHANGED dispVars
  PROVE  EndToEnd!Next
<1>1. PICK g \in Aggregates : g = request[c].agg
  BY DEF StoreInv, SP!StreamInv, SP!TypeOK, SP!Requests
<1>2. SP!Commit(c)
  BY DEF Store!Commit, SP!Commit, Store!End, SP!End
<1> DEFINE m == SP!HeadOf(g)
           n == m + written[c]
<1>3. /\ SP!Sequences(g)' = 1..n
      /\ \A x \in Aggregates \ {g} : SP!Sequences(x)' = SP!Sequences(x)
      /\ m = request[c].expected
  BY <1>1, <1>2, SP!CommitHeads, PipelineAssumption DEF StoreInv
<1>4. m \in 0..MaxSequence /\ SP!Sequences(g) = 1..m
  BY RowsOfStreams
<1>5. n \in 0..MaxSequence /\ m < n
  <2>1. /\ written[c] = request[c].count /\ written[c] > 0 /\ written[c] \in Nat
        /\ request[c].expected + request[c].count <= MaxSequence
    BY PipelineAssumption DEF Store!Commit, StoreInv, SP!CallShape, SP!StreamInv, SP!LoopShape,
       SP!TypeOK, SP!Requests
  <2> QED
    BY <1>3, <1>4, <2>1, PipelineAssumption
<1>6. \A x \in Aggregates : /\ Store!Sequences(x) = SP!Sequences(x)
                            /\ Store!Sequences(x)' = SP!Sequences(x)'
  BY DEF Store!Sequences, SP!Sequences
<1>7. [x \in Aggregates |-> Store!Sequences(x)]'
        = [[x \in Aggregates |-> Store!Sequences(x)] EXCEPT ![g] = 1..n]
  BY <1>3, <1>6
<1>8. \A h \in Handlers, x \in Aggregates : Position(h, x)' = Position(h, x)
  <2>1. \A o \in outbox, p \in txOutbox[c] : o.id # p.id
    BY DEF StoreInv, SP!IdsDrawnOnce
  <2>2. \A h \in Handlers : handled[h] \subseteq outboxRows
    BY DEF DP!Typed, DP!BusOK
  <2>3. \A h \in Handlers : \A p \in txOutbox[c] : Claimable(p) \notin handled[h]
    BY <2>1, <2>2 DEF outboxRows, Claimable
  <2>4. outbox' = outbox \cup txOutbox[c] /\ handled' = handled
    BY DEF Store!Commit, dispVars
  <2> QED
    BY <2>3, <2>4 DEF Position
<1>9. EndToEnd!Store(g)
  BY <1>4, <1>5, <1>6, <1>7, <1>8 DEF EndToEnd!Store
<1> QED
  BY <1>9 DEF EndToEnd!Next

(***************************************************************************)
(* A published entry is the next event of its stream for every handler     *)
(* that has not heard it yet.                                              *)
(***************************************************************************)
LEMMA PublishIsHeard ==
  ASSUME StoreInv, DP!Typed, Prefixes, Prefixes', UNCHANGED storeVars,
         NEW e \in outboxRows, NEW succeeding \in SUBSET Handlers, Disp!Handled(e, succeeding)
  PROVE  EndToEnd!Next
<1>1. PICK o \in outbox : e = Claimable(o)
  BY DEF outboxRows
<1> DEFINE g == o.agg
           n == o.sequence
           new == {h \in succeeding : e \notin handled[h]}
<1>2. /\ g \in Aggregates /\ n \in SP!Sequences(g) /\ n \in 1..MaxSequence
      /\ SP!Sequences(g) \subseteq Nat
  BY RowsOfStreams, PipelineAssumption
<1>3. /\ outbox' = outbox /\ events' = events
      /\ \A h \in new : handled'[h] = handled[h] \cup {e}
      /\ \A h \in Handlers \ new : handled'[h] = handled[h]
  BY DEF storeVars, Disp!Handled
<1>4. \A p \in outbox : Claimable(p) = e => p = o
  BY <1>1 DEF Claimable, StoreInv, SP!IdsDrawnOnce
<1>5. \A h \in Handlers, x \in Aggregates :
        Position(h, x)' = IF h \in new /\ x = g THEN Position(h, x) \cup {n} ELSE Position(h, x)
  <2> SUFFICES ASSUME NEW h \in Handlers, NEW x \in Aggregates
               PROVE  Position(h, x)' = IF h \in new /\ x = g THEN Position(h, x) \cup {n}
                                                              ELSE Position(h, x)
    OBVIOUS
  <2>1. Position(h, x)' =
          {p.sequence : p \in {q \in outbox : q.agg = x /\ Claimable(q) \in handled'[h]}}
    BY <1>3 DEF Position, Claimable
  <2>2. CASE h \notin new
    BY <1>3, <2>1, <2>2 DEF Position
  <2>3. CASE h \in new /\ x # g
    BY <1>3, <1>4, <2>1, <2>3 DEF Position
  <2>4. CASE h \in new /\ x = g
    <3>1. {q \in outbox : q.agg = x /\ Claimable(q) \in handled'[h]}
            = {q \in outbox : q.agg = x /\ Claimable(q) \in handled[h]} \cup {o}
      BY <1>1, <1>3, <1>4, <2>4
    <3> QED
      BY <2>1, <2>4, <3>1 DEF Position
  <2> QED
    BY <2>2, <2>3, <2>4
<1>6. ASSUME NEW h \in new
      PROVE  Position(h, g) = 1..(n - 1) /\ Position(h, g)' = 1..n
  <2>1. h \in Handlers /\ e \notin handled[h]
    OBVIOUS
  <2>2. n \notin Position(h, g)
    BY <1>1, <1>2, <2>1, RowsOfStreams DEF Position
  <2>3. Position(h, g)' = Position(h, g) \cup {n}
    BY <1>2, <1>5, <2>1
  <2>4. \A m \in 1..n : m \in Position(h, g)'
    BY <1>2, <2>1, <2>3 DEF Prefixes
  <2>5. ASSUME NEW k \in Position(h, g) PROVE k \in 1..(n - 1)
    <3>1. k \in SP!Sequences(g) /\ \A m \in 1..k : m \in Position(h, g)
      BY <1>2, <2>1 DEF Prefixes
    <3>2. k \in Nat /\ k >= 1
      BY <1>2, <3>1, RowsOfStreams
    <3>3. n \notin 1..k
      BY <2>2, <3>1
    <3> QED
      BY <1>2, <3>2, <3>3
  <2>6. 1..n = 1..(n - 1) \cup {n} /\ n \notin 1..(n - 1)
    BY <1>2
  <2>7. Position(h, g) = 1..(n - 1)
    <3>1. \A k \in 1..(n - 1) : k \in Position(h, g)'
      BY <2>4, <2>6
    <3> HIDE DEF g, n
    <3>2. \A k \in 1..(n - 1) : k \in Position(h, g)
      BY <2>3, <2>6, <3>1
    <3> QED
      BY <2>5, <3>2
  <2> QED
    BY <2>3, <2>6, <2>7
<1> DEFINE heard == [h \in Handlers |-> [x \in Aggregates |-> Position(h, x)]]
<1>7. heard' = [h \in Handlers |-> IF h \in new THEN [heard[h] EXCEPT ![g] = 1..n] ELSE heard[h]]
  BY <1>2, <1>5, <1>6
<1>8. \A h \in new : heard[h][g] = 1..(n - 1)
  BY <1>2, <1>6
<1>9. UNCHANGED [x \in Aggregates |-> Store!Sequences(x)]
  BY <1>3 DEF Store!Sequences
<1>10. n \in Store!Sequences(g) /\ new \in SUBSET Handlers
  BY <1>2, RowsOfStreams
<1>11. EndToEnd!Hear(g, n)
  BY <1>2, <1>7, <1>8, <1>9, <1>10 DEF EndToEnd!Hear
<1> QED
  BY <1>2, <1>11 DEF EndToEnd!Next

(***************************************************************************)
(* A step of the store is a COMMIT, or nobody sees anything of it.         *)
(***************************************************************************)
LEMMA StoreStepsShow ==
  ASSUME StoreInv, StoreInv', DP!Typed, UNCHANGED dispVars, NEW c \in Connections,
         Append(c) \/ Store!Statement(c) \/ Store!Fail(c) \/ Store!GiveUp(c)
           \/ Store!DropSession(c)
  PROVE  [EndToEnd!Next]_(EndToEnd!vars)
<1>1. CASE Store!Commit(c)
  BY <1>1, CommitStores
<1>2. CASE ~Store!Commit(c)
  <2>1. UNCHANGED <<events, outbox, handled>>
    BY <1>2 DEF dispVars, Append, Store!Invoke, Store!Statement, Store!Fail,
       Store!GiveUp, Store!DropSession, Store!Rollback, Store!AcceptNothing, Store!HeadCheck,
       Store!StaleHead, Store!InsertEvent, Store!LostRace, Store!InsertOutbox
  <2> QED
    BY <2>1 DEF EndToEnd!vars, Store!Sequences, Position
<1> QED
  BY <1>1, <1>2

(***************************************************************************)
(* A step of a dispatcher publishes an entry, or no handler hears of it.   *)
(***************************************************************************)
LEMMA DispatchSteps ==
  ASSUME StoreInv, DP!Typed, Prefixes, Prefixes', UNCHANGED storeVars, Disp!Dispatch
  PROVE  [EndToEnd!Next]_(EndToEnd!vars)
<1>1. CASE handled' = handled
  BY <1>1 DEF EndToEnd!vars, Store!Sequences, Position, storeVars
<1>2. ASSUME NEW d \in Dispatchers, Disp!PublishOk(d) \/ Disp!PublishFails(d)
      PROVE  EndToEnd!Next
  <2>1. at[d].pc = "publish"
    BY <1>2 DEF Disp!PublishOk, Disp!PublishFails
  <2>2. Disp!Entry(d) \in outboxRows
    <3>1. DP!Entry(d) \in outboxRows
      BY <2>1, DP!EntryIsLeft, DispatcherBounds
    <3> QED
      BY <3>1 DEF Disp!Entry, DP!Entry, Disp!First, DP!First
  <2>3. \E succeeding \in SUBSET Handlers : Disp!Handled(Disp!Entry(d), succeeding)
    BY <1>2 DEF Disp!PublishOk, Disp!PublishFails
  <2> QED
    BY <2>2, <2>3, PublishIsHeard
<1>3. handled' = handled \/ \E d \in Dispatchers : Disp!PublishOk(d) \/ Disp!PublishFails(d)
  BY DEF Disp!Dispatch, Disp!GhostEnds, Disp!Elapse, Disp!Stop, Disp!Restart, Disp!Progress,
     Disp!Trouble, Disp!BeginClaim, Disp!LockRow, Disp!FoundNothing, Disp!ClaimReturns,
     Disp!ScanFails, Disp!Release, Disp!CommitOk, Disp!BeginFails, Disp!ClaimFails,
     Disp!ClaimCut, Disp!LoseSession, Disp!CommitFails, Disp!CommitCut, Disp!Cancel,
     Disp!Crash, Disp!Inside, Disp!RolledBack
<1> QED
  BY <1>1, <1>2, <1>3

(***************************************************************************)
(* At first nothing is stored, and nothing heard.                          *)
(***************************************************************************)
LEMMA NothingAtFirst == Init => EndToEnd!Init
<1> SUFFICES ASSUME Init
             PROVE  EndToEnd!Init
  OBVIOUS
<1>1. events = {} /\ outbox = {}
  BY DEF Init, Store!Init
<1>2. \A g \in Aggregates : Store!Sequences(g) = {}
  BY <1>1 DEF Store!Sequences
<1>3. \A h \in Handlers, g \in Aggregates : Position(h, g) = {}
  BY <1>1 DEF Position
<1> QED
  BY <1>2, <1>3 DEF EndToEnd!Init

(***************************************************************************)
(* The dispatchers are of their types.                                     *)
(***************************************************************************)
LEMMA DispatcherTyped == Spec => []DP!Typed
<1>1. DP!Init => DP!Typed
  BY DP!TypedInductive, DispatcherBounds
<1>2. DP!Typed /\ [DP!Next]_(DP!vars) => DP!Typed'
  BY DP!TypedInductive, DispatcherBounds
<1> QED
  BY <1>1, <1>2, RunsTheDispatcher, PTL DEF DP!Spec

(***************************************************************************)
(* Every handler hears the events of each aggregate in the order of their  *)
(* sequence numbers, after their Append has committed, without a gap: the  *)
(* module Delivery is implemented, by one dispatcher whose connection is   *)
(* not cut.                                                                *)
(***************************************************************************)
THEOREM DeliversInOrder ==
  ASSUME NEW d, Dispatchers = {d}, MaxLosses = 0
  PROVE  Spec => HeardInOrder
<1>1. Init => EndToEnd!Init
  BY NothingAtFirst
<1>2. StoreInv /\ StoreInv' /\ DP!Typed /\ Prefixes /\ Prefixes' /\ [Next]_vars
        => [EndToEnd!Next]_(EndToEnd!vars)
  <2>1. UNCHANGED vars => UNCHANGED EndToEnd!vars
    BY DEF vars, storeVars, dispVars, EndToEnd!vars, Store!Sequences, Position
  <2> QED
    BY <2>1, StoreStepsShow, DispatchSteps DEF Next
<1>3. DP!Typed => losses = 0
  BY DEF DP!Typed, DP!CountersOK
<1>4. Spec => []Prefixes
  BY <1>3, DispatcherTyped, NoneOvertaken, StoreInvariant, HeardArePrefixes, PTL
<1> QED
  BY <1>1, <1>2, <1>4, StoreInvariant, DispatcherTyped, PTL DEF Spec, HeardInOrder, EndToEnd!Spec
=============================================================================
