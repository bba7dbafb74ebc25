---------------------- MODULE PostgresContract_proofs -----------------------
(***************************************************************************)
(* The Postgres store implements event.Store: every step of PostgresStore  *)
(* is a step of EventStore on the streams that Load returns, or changes    *)
(* nothing that EventStore knows of.  The instant at which a batch takes   *)
(* effect is the server's COMMIT.                                          *)
(***************************************************************************)
EXTENDS PostgresStore_proofs, FiniteSetTheorems, SequenceTheorems

-----------------------------------------------------------------------------
(* Load.                                                                   *)

RowsOf(g) == {e \in events : e.agg = g}

(***************************************************************************)
(* The stream of an aggregate is as long as its head says, so that the     *)
(* Repository can use the number of events it replays as expectedVersion.  *)
(***************************************************************************)
LEMMA RowsCounted ==
  ASSUME StreamInv, NEW g \in Aggregates
  PROVE  Cardinality(RowsOf(g)) = HeadOf(g) /\ HeadOf(g) \in Nat
<1> DEFINE n == HeadOf(g)
           S == RowsOf(g)
           f == [i \in 1..n |-> CHOOSE e \in S : e.sequence = i]
<1>1. n \in Nat /\ Sequences(g) = 1..n
  BY DEF StreamInv, HeadsAreNumbers, StreamsGapFree
<1>2. \A e \in S : e.sequence \in 1..n
  BY <1>1 DEF Sequences, RowsOf
<1>3. \A i \in 1..n : \E e \in S : e.sequence = i
  BY <1>1 DEF Sequences, RowsOf
<1>4. \A d, e \in S : d.sequence = e.sequence => d = e
  BY DEF RowsOf, StreamInv, StreamsGapFree, SameKey
<1> HIDE DEF n, S
<1>5. \A i \in 1..n : f[i] \in S /\ f[i].sequence = i
  BY <1>3
<1>6. \A e \in S : f[e.sequence] = e
  BY <1>2, <1>4, <1>5
<1>7. f \in [1..n -> S]
  BY <1>5
<1> HIDE DEF f
<1>8. f \in Bijection(1..n, S)
  BY <1>2, <1>5, <1>6, <1>7 DEF Bijection, Injection, Surjection, IsInjective
<1>9. ExistsBijection(1..n, S)
  BY <1>8 DEF ExistsBijection
<1>10. Cardinality(S) = n
  BY <1>1, <1>9, FS_CountingElements
<1> QED
  BY <1>1, <1>10 DEF n, S

(***************************************************************************)
(* What Load returns: the payload of the one row at each position.         *)
(***************************************************************************)
Replays(g) ==
  /\ Load(g) \in Seq(Connections) /\ Len(Load(g)) = HeadOf(g) /\ HeadOf(g) \in Nat
  /\ \A e \in RowsOf(g) : e.sequence \in 1..HeadOf(g) /\ Load(g)[e.sequence] = e.payload
  /\ \A i \in 1..HeadOf(g) : \E e \in RowsOf(g) : e.sequence = i

Replayable == \A g \in Aggregates : Replays(g)

(***************************************************************************)
(* In every state that can be reached Load replays the whole stream, in    *)
(* order.                                                                  *)
(***************************************************************************)
LEMMA LoadReturns == StreamInv => Replayable
<1> SUFFICES ASSUME StreamInv, NEW g \in Aggregates PROVE Replays(g)
  BY DEF Replayable
<1> DEFINE n == HeadOf(g)
           row(i) == CHOOSE e \in events : e.agg = g /\ e.sequence = i
<1>1. Cardinality({e \in events : e.agg = g}) = n /\ n \in Nat
  BY RowsCounted DEF RowsOf
<1>2. Load(g) = [i \in 1..n |-> row(i).payload]
  BY <1>1 DEF Load
<1>3. Sequences(g) = 1..n
  BY DEF StreamInv, StreamsGapFree
<1>4. \A i \in 1..n : \E e \in RowsOf(g) : e.sequence = i
  BY <1>3 DEF Sequences, RowsOf
<1>5. \A i \in 1..n : row(i) \in events /\ row(i).agg = g /\ row(i).sequence = i
  BY <1>4 DEF RowsOf
<1>6. \A e \in RowsOf(g) : e.sequence \in 1..n
  BY <1>3 DEF Sequences, RowsOf
<1>7. \A e \in RowsOf(g) : row(e.sequence) = e
  BY <1>5, <1>6 DEF RowsOf, StreamInv, StreamsGapFree, SameKey
<1>8. \A i \in 1..n : row(i).payload \in Connections
  BY <1>5 DEF StreamInv, TypeOK, EventRows
<1> HIDE DEF row, n
<1>9. Load(g) \in Seq(Connections) /\ Len(Load(g)) = n
  BY <1>1, <1>2, <1>8
<1> QED
  BY <1>1, <1>2, <1>4, <1>6, <1>7, <1>9 DEF n, Replays

(***************************************************************************)
(* Load reads table events only.                                           *)
(***************************************************************************)
LEMMA SameLoads ==
  ASSUME events' = events
  PROVE  [g \in Aggregates |-> Load(g)]' = [g \in Aggregates |-> Load(g)]
BY DEF Load

(***************************************************************************)
(* A sequence followed by n times the same element, told by its positions. *)
(***************************************************************************)
LEMMA AppendedRun ==
  ASSUME NEW S, NEW s \in Seq(S), NEW t \in Seq(S), NEW x \in S, NEW n \in Nat,
         Len(t) = Len(s) + n, \A i \in 1..Len(s) : t[i] = s[i],
         \A i \in 1..n : t[Len(s) + i] = x
  PROVE  t = s \o [i \in 1..n |-> x]
<1> DEFINE run == [i \in 1..n |-> x]
<1>1. run \in Seq(S) /\ Len(run) = n /\ \A i \in 1..n : run[i] = x
  OBVIOUS
<1>0. Len(s) \in Nat
  OBVIOUS
<1> HIDE DEF run
<1>2. /\ s \o run \in Seq(S) /\ Len(s \o run) = Len(s) + n /\ Len(s) \in Nat
      /\ \A i \in 1..(Len(s) + n) :
           (s \o run)[i] = IF i <= Len(s) THEN s[i] ELSE run[i - Len(s)]
  BY <1>0, <1>1, ConcatProperties, Zenon
<1>3. ASSUME NEW i \in 1..Len(t) PROVE t[i] = (s \o run)[i]
  <2>1. CASE i <= Len(s)
    BY <1>2, <2>1
  <2>2. CASE i > Len(s)
    <3>1. i - Len(s) \in 1..n /\ i = Len(s) + (i - Len(s))
      BY <1>2, <2>2
    <3>2. t[i] = x
      BY <3>1
    <3> QED
      BY <1>1, <1>2, <2>2, <3>1, <3>2
  <2> QED
    BY <1>2, <2>1, <2>2
<1>4. t = s \o run
  BY <1>2, <1>3, SeqEqual
<1> QED
  BY <1>4 DEF run

(***************************************************************************)
(* A COMMIT appends its batch, one event for every envelope, to the stream *)
(* of its aggregate and leaves the others alone.                           *)
(***************************************************************************)
LEMMA CommitLoads ==
  ASSUME StreamInv, NEW c \in Connections, Commit(c)
  PROVE  [g \in Aggregates |-> Load(g)]' =
           [[g \in Aggregates |-> Load(g)] EXCEPT ![request[c].agg] =
              @ \o [i \in 1..written[c] |-> c]]
<1> PICK g \in Aggregates : g = request[c].agg
  BY DEF StreamInv, TypeOK, Requests
<1>1. StreamInv'
  BY CommitStream
<1>2. /\ written[c] \in Nat /\ request[c].expected = HeadOf(g) /\ HeadOf(g) \in Nat
      /\ txEvents[c] = Batch(c, written[c]) /\ events' = events \cup txEvents[c]
  BY BoundsAssumption DEF Commit, StreamInv, TypeOK, Requests, HeadsAreNumbers, LoopShape,
     HeadSeen, Inserted
<1>3. (StreamInv => Replayable)'
  BY LoadReturns, PTL
<1>4. \A x \in Aggregates : Replays(x) /\ Replays(x)'
  BY <1>1, <1>3, LoadReturns DEF Replayable
<1>5. ASSUME NEW x \in Aggregates \ {g}
      PROVE  Load(x)' = Load(x)
  <2>1. RowsOf(x)' = RowsOf(x)
    BY <1>2, <1>5 DEF RowsOf, Batch
  <2>2. HeadOf(x)' = HeadOf(x)
    BY <2>1 DEF HeadOf, Sequences, RowsOf
  <2>3. \A i \in 1..HeadOf(x) : Load(x)'[i] = Load(x)[i]
    BY <1>4, <1>5, <2>1, <2>2 DEF Replays
  <2> QED
    BY <1>4, <1>5, <2>2, <2>3 DEF Replays
<1>6. Load(g)' = Load(g) \o [i \in 1..written[c] |-> c]
  <2> DEFINE h == HeadOf(g)
             n == written[c]
             row(i) == [agg |-> g, sequence |-> h + i, payload |-> c]
  <2>1. RowsOf(g)' = RowsOf(g) \cup {row(i) : i \in 1..n}
    BY <1>2 DEF RowsOf, Batch
  <2>2. /\ \A e \in RowsOf(g)' : e.sequence \in 1..HeadOf(g)'
                                 /\ Load(g)'[e.sequence] = e.payload
        /\ \A i \in 1..HeadOf(g)' : \E e \in RowsOf(g)' : e.sequence = i
        /\ Load(g)' \in Seq(Connections) /\ Len(Load(g)') = HeadOf(g)' /\ HeadOf(g)' \in Nat
    BY <1>4 DEF Replays
  <2>3. \A i \in 1..h : Load(g)'[i] = Load(g)[i] /\ i \in 1..HeadOf(g)'
    BY <1>4, <2>1, <2>2 DEF Replays
  <2>4. ASSUME NEW i \in 1..n
        PROVE  Load(g)'[h + i] = c /\ h + i \in 1..HeadOf(g)'
    <3>1. row(i) \in RowsOf(g)' /\ row(i).sequence = h + i /\ row(i).payload = c
      BY <2>1
    <3> QED
      BY <2>2, <3>1
  <2>5. HeadOf(g)' = h + n
    <3>1. \A i \in 1..HeadOf(g)' : i \in 1..(h + n)
      <4> SUFFICES ASSUME NEW i \in 1..HeadOf(g)' PROVE i \in 1..(h + n)
        OBVIOUS
      <4>1. PICK e \in RowsOf(g)' : e.sequence = i
        BY <2>2
      <4>2. CASE e \in RowsOf(g)
        BY <1>2, <1>4, <4>1, <4>2 DEF Replays
      <4>3. CASE \E j \in 1..n : e = row(j)
        BY <1>2, <4>1, <4>3
      <4> QED
        BY <2>1, <4>1, <4>2, <4>3
    <3>2. h + n \in 1..HeadOf(g)' \/ h + n = 0
      <4>1. CASE n = 0
        BY <1>2, <2>3, <4>1
      <4>2. CASE n > 0
        BY <1>2, <2>4, <4>2
      <4> QED
        BY <1>2, <4>1, <4>2
    <3>3. HeadOf(g)' # 0 => HeadOf(g)' \in 1..HeadOf(g)'
      BY <2>2
    <3> QED
      BY <1>2, <2>2, <3>1, <3>2, <3>3
  <2> QED
    BY <1>2, <1>4, <2>2, <2>3, <2>4, <2>5, AppendedRun DEF Replays
<1> QED
  BY <1>5, <1>6

-----------------------------------------------------------------------------
(***************************************************************************)
(* A COMMIT is sent once the whole batch is inserted, and a caller waits   *)
(* only for a transaction that is open.                                    *)
(***************************************************************************)
CallShape ==
  \A c \in Connections :
     /\ pc[c] = "commit" => written[c] = request[c].count
     /\ reply[c] = "pending" => pc[c] # "idle"

(***************************************************************************)
(* The shape of a call is inductive.                                       *)
(***************************************************************************)
LEMMA CallShapeInductive ==
  /\ Init => CallShape
  /\ StreamInv /\ CallShape /\ [Next]_vars => CallShape'
<1>1. Init => CallShape
  BY DEF Init, CallShape
<1>2. ASSUME StreamInv, CallShape, [Next]_vars PROVE CallShape'
  <2> USE DEF StreamInv, TypeOK
  <2>1. CASE UNCHANGED vars
    BY <1>2, <2>1 DEF vars, tx, CallShape
  <2>2. ASSUME NEW c \in Connections, NEW r \in Replies \ {"pending"}, End(c, r)
        PROVE  CallShape'
    BY <1>2, <2>2 DEF End, CallShape
  <2>3. ASSUME NEW c \in Connections, Invoke(c) \/ HeadCheck(c) \/ InsertEvent(c)
        PROVE  CallShape'
    BY <1>2, <2>3 DEF Invoke, HeadCheck, InsertEvent, At, CallShape
  <2>4. ASSUME NEW c \in Connections, InsertOutbox(c)
        PROVE  CallShape'
    BY <1>2, <2>4 DEF InsertOutbox, At, NextStatement, CallShape
  <2>5. ASSUME NEW c \in Connections, GiveUp(c)
        PROVE  CallShape'
    BY <1>2, <2>5 DEF GiveUp, CallShape
  <2> QED
    BY <1>2, <2>1, <2>2, <2>3, <2>4, <2>5 DEF Next, Statement, Terminated, AcceptNothing,
       StaleHead, LostRace, Commit, Fail, DropSession, Rollback, Replies
<1> QED
  BY <1>1, <1>2

(***************************************************************************)
(* No stream outgrows the bound on the numbers that callers use.           *)
(***************************************************************************)
HeadsBounded == \A g \in Aggregates : HeadOf(g) <= MaxSequence

(***************************************************************************)
(* A COMMIT extends a stream to the end of a batch, which is within the    *)
(* bound.                                                                  *)
(***************************************************************************)
LEMMA HeadsBoundedInductive ==
  /\ Init => HeadsBounded
  /\ StreamInv /\ CallShape /\ HeadsBounded /\ [Next]_vars => HeadsBounded'
<1>1. ASSUME Init PROVE HeadsBounded
  <2> SUFFICES ASSUME NEW g \in Aggregates PROVE HeadOf(g) <= MaxSequence
    BY DEF HeadsBounded
  <2>1. Sequences(g) = 1..0
    BY <1>1 DEF Init, Sequences
  <2> QED
    BY <2>1, MaxOfRange, BoundsAssumption DEF HeadOf
<1>2. ASSUME StreamInv, CallShape, HeadsBounded, [Next]_vars PROVE HeadsBounded'
  <2>1. CASE events' = events
    BY <1>2, <2>1, SameStreams DEF HeadsBounded
  <2>2. ASSUME NEW c \in Connections, Commit(c) PROVE HeadsBounded'
    <3> PICK g \in Aggregates : g = request[c].agg
      BY <1>2 DEF StreamInv, TypeOK, Requests
    <3>1. request[c].expected + request[c].count <= MaxSequence
      BY <1>2 DEF StreamInv, TypeOK, Requests
    <3>2. HeadOf(g)' = request[c].expected + request[c].count
      BY <1>2, <2>2, CommitHeads DEF CallShape, Commit
    <3> QED
      BY <1>2, <2>2, <3>1, <3>2, CommitHeads DEF HeadsBounded
  <2> QED
    BY <1>2, <2>1, <2>2 DEF Next, Statement, Terminated, vars, Invoke, HeadCheck, InsertEvent,
       InsertOutbox, GiveUp, AcceptNothing, StaleHead, LostRace, Fail, DropSession, Rollback
<1> QED
  BY <1>1, <1>2

(***************************************************************************)
(* Calls are in shape, and streams within their bound, in every state.     *)
(***************************************************************************)
LEMMA CallsInvariant == Spec => [](CallShape /\ HeadsBounded)
BY StreamInvariant, CallShapeInductive, HeadsBoundedInductive, PTL DEF Spec

-----------------------------------------------------------------------------
(***************************************************************************)
(* The step simulation, one lemma for every kind of step.                  *)
(***************************************************************************)
loads == [g \in Aggregates |-> Load(g)]

open == [c \in Connections |-> pc[c] # "idle"]

(***************************************************************************)
(* The end of a transaction is the decision of its call.                   *)
(***************************************************************************)
LEMMA EndDecides ==
  ASSUME StreamInv, NEW c \in Connections, NEW r, pc[c] # "idle", End(c, r)
  PROVE  Contract!Decide(c, r)
BY DEF StreamInv, TypeOK, End, Contract!Decide

(***************************************************************************)
(* A batch fits in the contract's sense if it continues the head.          *)
(***************************************************************************)
LEMMA FitsHead ==
  ASSUME StreamInv, NEW c \in Connections
  PROVE  Contract!Fits(c) <=> HeadOf(request[c].agg) = request[c].expected
<1>1. request[c].agg \in Aggregates
  BY DEF StreamInv, TypeOK, Requests
<1>2. Replays(request[c].agg)
  BY <1>1, LoadReturns DEF Replayable
<1> QED
  BY <1>1, <1>2 DEF Replays, Contract!Fits

(***************************************************************************)
(* COMMIT is the instant at which the batch extends its stream.            *)
(***************************************************************************)
LEMMA CommitExtends ==
  ASSUME StreamInv, CallShape, NEW c \in Connections, Commit(c)
  PROVE  Contract!Extend(c)
<1>1. Contract!Fits(c)
  <2>1. Inserted(c) > 0
    BY BoundsAssumption DEF Commit, StreamInv, TypeOK, LoopShape, Inserted
  <2> QED
    BY <2>1, FitsHead DEF StreamInv, HeadSeen
<1>2. Contract!Decide(c, "ok")
  BY EndDecides DEF Commit
<1>3. written[c] = request[c].count
  BY DEF CallShape, Commit
<1> QED
  BY <1>1, <1>2, <1>3, CommitLoads DEF Contract!Extend

(***************************************************************************)
(* Both ways to a conflict: the head check, and the primary key.           *)
(***************************************************************************)
LEMMA StaleConflicts ==
  ASSUME StreamInv, NEW c \in Connections, StaleHead(c) \/ LostRace(c)
  PROVE  Contract!Conflict(c)
<1>1. Rollback(c, "conflict") /\ pc[c] # "idle"
  BY DEF StaleHead, LostRace, At
<1>2. HeadOf(request[c].agg) # request[c].expected
  <2>1. CASE StaleHead(c)
    BY <2>1 DEF StaleHead, HeadMatches
  <2>2. CASE LostRace(c)
    <3> PICK g \in Aggregates : g = request[c].agg
      BY DEF StreamInv, TypeOK, Requests
    <3>1. request[c].expected + written[c] + 1 \in Sequences(g)
      BY <2>2 DEF LostRace, UniqueViolation, SameKey, RowOf, Sequences
    <3>2. Sequences(g) = 1..HeadOf(g) /\ HeadOf(g) \in Nat
      BY DEF StreamInv, StreamsGapFree, HeadsAreNumbers
    <3>3. request[c].expected \in Nat /\ written[c] \in Nat
      BY BoundsAssumption DEF StreamInv, TypeOK, Requests
    <3> QED
      BY <3>1, <3>2, <3>3
  <2> QED
    BY <2>1, <2>2
<1>3. Contract!Decide(c, "conflict")
  BY <1>1, EndDecides DEF Rollback
<1> QED
  BY <1>1, <1>2, <1>3, FitsHead, SameLoads DEF Rollback, Contract!Conflict

(***************************************************************************)
(* A failed statement and a lost client both end the call without its      *)
(* batch.                                                                  *)
(***************************************************************************)
LEMMA FailureDecides ==
  ASSUME StreamInv, NEW c \in Connections, Fail(c) \/ DropSession(c)
  PROVE  Contract!Fail(c)
<1>1. Rollback(c, "error") /\ pc[c] # "idle"
  BY DEF Fail, DropSession
<1> QED
  BY <1>1, EndDecides, SameLoads DEF Rollback, Contract!Fail

(***************************************************************************)
(* An empty batch is accepted as it is in the contract.                    *)
(***************************************************************************)
LEMMA NothingAccepted ==
  ASSUME StreamInv, NEW c \in Connections, AcceptNothing(c)
  PROVE  Contract!AcceptNothing(c)
BY EndDecides, SameLoads DEF AcceptNothing, At, Rollback, Contract!AcceptNothing

(***************************************************************************)
(* A call starts.                                                          *)
(***************************************************************************)
LEMMA InvokeIsInvoke ==
  ASSUME StreamInv, NEW c \in Connections, Invoke(c)
  PROVE  Contract!Invoke(c)
<1>1. open' = [open EXCEPT ![c] = TRUE] /\ open[c] = FALSE
  BY DEF StreamInv, TypeOK, Invoke, open
<1>2. loads' = loads
  BY SameLoads DEF Invoke, loads
<1>3. \E q \in Contract!Requests : request' = [request EXCEPT ![c] = q]
  BY DEF Invoke, Requests, Contract!Requests
<1> QED
  BY <1>1, <1>2, <1>3 DEF Invoke, Contract!Invoke, open, loads

(***************************************************************************)
(* A client leaves while its batch may still take effect.                  *)
(***************************************************************************)
LEMMA GiveUpIsGiveUp ==
  ASSUME StreamInv, CallShape, NEW c \in Connections, GiveUp(c)
  PROVE  Contract!GiveUp(c)
BY SameLoads DEF GiveUp, CallShape, Contract!GiveUp

(***************************************************************************)
(* The statements before the COMMIT show nothing.                          *)
(***************************************************************************)
LEMMA StatementsStutter ==
  ASSUME StreamInv, NEW c \in Connections,
         HeadCheck(c) \/ InsertEvent(c) \/ InsertOutbox(c)
  PROVE  UNCHANGED <<loads, reply, request, open>>
<1>1. events' = events /\ reply' = reply /\ request' = request
  BY DEF HeadCheck, InsertEvent, InsertOutbox
<1>2. open' = open
  BY DEF StreamInv, TypeOK, HeadCheck, InsertEvent, InsertOutbox, At, NextStatement, open
<1> QED
  BY <1>1, <1>2, SameLoads DEF loads

(***************************************************************************)
(* Empty tables are empty streams.                                         *)
(***************************************************************************)
LEMMA InitContract == Init => Contract!Init
<1> SUFFICES ASSUME Init PROVE Contract!Init
  OBVIOUS
<1>1. \A g \in Aggregates : Load(g) = <<>>
  <2> SUFFICES ASSUME NEW g \in Aggregates PROVE Load(g) = <<>>
    OBVIOUS
  <2>1. StreamInv /\ HeadOf(g) = 0
    <3>1. StreamInv /\ events = {}
      BY StreamInvInit DEF Init
    <3>2. \A i \in 1..HeadOf(g) : FALSE
      BY <3>1, LoadReturns DEF Replayable, Replays, RowsOf
    <3> QED
      BY <3>1, <3>2 DEF StreamInv, HeadsAreNumbers
  <2>2. Load(g) \in Seq(Connections) /\ Len(Load(g)) = 0
    BY <2>1, LoadReturns DEF Replayable, Replays
  <2> QED
    BY <2>2, EmptySeq
<1> QED
  BY <1>1 DEF Init, Contract!Init, Requests, Contract!Requests

(***************************************************************************)
(* Every step of the store is a step of the contract, or shows nothing.    *)
(***************************************************************************)
LEMMA NextContract ==
  ASSUME StreamInv, CallShape, [Next]_vars
  PROVE  [Contract!Next]_(Contract!vars)
<1>1. CASE UNCHANGED vars
  BY <1>1, SameLoads DEF vars, tx, Contract!vars
<1>2. ASSUME NEW c \in Connections,
             Invoke(c) \/ Statement(c) \/ Fail(c) \/ GiveUp(c) \/ DropSession(c)
      PROVE  Contract!Next \/ UNCHANGED Contract!vars
  <2>1. CASE HeadCheck(c) \/ InsertEvent(c) \/ InsertOutbox(c)
    BY <2>1, StatementsStutter DEF Contract!vars, loads, open
  <2> QED
    BY <1>2, <2>1, InvokeIsInvoke, GiveUpIsGiveUp, NothingAccepted, FailureDecides,
       StaleConflicts, CommitExtends DEF Statement, Contract!Next
<1> QED
  BY <1>1, <1>2 DEF Next, Terminated

(***************************************************************************)
(* The Postgres store is an event.Store: callers see one stream per        *)
(* aggregate, extended by whole batches at one instant each, no conflict   *)
(* without a stale version, and no batch after its call was decided.       *)
(***************************************************************************)
THEOREM ImplementsEventStore == Spec => AppendContract
<1>1. Spec => [](StreamInv /\ CallShape)
  BY StreamInvariant, CallsInvariant, PTL
<1> QED
  BY <1>1, InitContract, NextContract, PTL DEF Spec, AppendContract, Contract!Spec
=============================================================================
