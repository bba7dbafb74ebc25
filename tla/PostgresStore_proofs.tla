------------------------ MODULE PostgresStore_proofs ------------------------
(***************************************************************************)
(* Proofs about PostgresStore, for any aggregates, any pool of connections *)
(* and any bounds.                                                         *)
(***************************************************************************)
EXTENDS PostgresStore, TLAPS

-----------------------------------------------------------------------------
(* Types.                                                                  *)

(***************************************************************************)
(* The rows a transaction is about to insert are of their tables' types.   *)
(***************************************************************************)
LEMMA RowType ==
  ASSUME TypeOK, NEW c \in Connections
  PROVE  /\ RowOf(c) \in EventRows
         /\ OutboxRow(c) \in OutboxRows
  BY BoundsAssumption DEF TypeOK, Requests, RowOf, OutboxRow, EventRows, OutboxRows

(***************************************************************************)
(* The end of a transaction preserves the types of the connection state.   *)
(***************************************************************************)
LEMMA EndType ==
  ASSUME TypeOK, NEW c \in Connections, NEW r \in Replies, End(c, r)
  PROVE  /\ pc' \in [Connections -> {"idle", "head", "event", "outbox", "commit"}]
         /\ request' \in [Connections -> Requests]
         /\ reply' \in [Connections -> Replies]
         /\ written' \in [Connections -> 0..MaxBatch]
         /\ txEvents' \in [Connections -> SUBSET EventRows]
         /\ txOutbox' \in [Connections -> SUBSET OutboxRows]
  BY BoundsAssumption DEF TypeOK, End

-----------------------------------------------------------------------------
(* The inductive invariant of the streams.  Its parts lean on each other:  *)
(* a batch extends its stream without a gap because the head the           *)
(* transaction saw is still the head when it commits, which holds because  *)
(* a transaction that has inserted anything holds the key expected + 1, so *)
(* that no other one on the same aggregate has inserted anything.          *)

(***************************************************************************)
(* How many rows of events the transaction holds, and the first n rows of  *)
(* its batch.                                                              *)
(***************************************************************************)
Inserted(c) == IF pc[c] = "outbox" THEN written[c] + 1 ELSE written[c]

Batch(c, n) ==
  {[agg |-> request[c].agg, sequence |-> request[c].expected + i, payload |-> c] :
     i \in 1..n}

(***************************************************************************)
(* The loop of Append: what it has inserted is a prefix of the batch, and  *)
(* it starts an iteration only for an envelope that is left.               *)
(***************************************************************************)
LoopShape ==
  \A c \in Connections :
     /\ pc[c] \in {"idle", "head"} => written[c] = 0
     /\ pc[c] \in {"event", "outbox"} => written[c] < request[c].count
     /\ pc[c] = "commit" => written[c] > 0
     /\ txEvents[c] = Batch(c, Inserted(c))

HeadSeen ==
  \A c \in Connections :
     /\ pc[c] \in {"event", "outbox", "commit"} =>
          request[c].expected <= HeadOf(request[c].agg)
     /\ Inserted(c) > 0 => request[c].expected = HeadOf(request[c].agg)

OneWriter ==
  \A c, d \in Connections :
     (c # d /\ Inserted(c) > 0 /\ Inserted(d) > 0) => request[c].agg # request[d].agg

HeadsAreNumbers == \A g \in Aggregates : HeadOf(g) \in Nat

StreamInv ==
  TypeOK /\ LoopShape /\ HeadSeen /\ OneWriter /\ HeadsAreNumbers /\ StreamsGapFree

(***************************************************************************)
(* The head of a stream that is numbered 1..n is n.                        *)
(***************************************************************************)
LEMMA MaxOfRange ==
  ASSUME NEW n \in Nat, NEW S, S = 1..n
  PROVE  Max({0} \cup S) = n
<1>1. n \in {0} \cup S /\ \A m \in {0} \cup S : n >= m
  OBVIOUS
<1>2. \A m \in {0} \cup S : (\A k \in {0} \cup S : m >= k) => m = n
  OBVIOUS
<1> QED
  BY <1>1, <1>2 DEF Max

(***************************************************************************)
(* Initially both tables are empty and no transaction is open.             *)
(***************************************************************************)
LEMMA StreamInvInit == Init => StreamInv
<1> SUFFICES ASSUME Init PROVE StreamInv
  OBVIOUS
<1>1. TypeOK
  BY BoundsAssumption DEF Init, TypeOK, Requests, Replies, EventRows, OutboxRows
<1>2. \A g \in Aggregates : Sequences(g) = 1..0 /\ HeadOf(g) = 0
  <2> SUFFICES ASSUME NEW g \in Aggregates
               PROVE  Sequences(g) = 1..0 /\ HeadOf(g) = 0
    OBVIOUS
  <2>1. Sequences(g) = 1..0
    BY DEF Init, Sequences
  <2> QED
    BY <2>1, MaxOfRange DEF HeadOf
<1>3. LoopShape /\ HeadSeen /\ OneWriter
  BY DEF Init, LoopShape, HeadSeen, OneWriter, Inserted, Batch
<1>4. HeadsAreNumbers
  BY <1>2 DEF HeadsAreNumbers
<1>5. StreamsGapFree
  BY <1>2 DEF StreamsGapFree, Init
<1> QED
  BY <1>1, <1>3, <1>4, <1>5 DEF StreamInv

(***************************************************************************)
(* Steps that leave table events alone leave the streams and their heads   *)
(* alone.                                                                  *)
(***************************************************************************)
LEMMA SameStreams ==
  ASSUME events' = events
  PROVE  /\ \A g : Sequences(g)' = Sequences(g)
         /\ \A g : HeadOf(g)' = HeadOf(g)
         /\ StreamsGapFree => StreamsGapFree'
         /\ HeadsAreNumbers => HeadsAreNumbers'
<1>1. \A g : Sequences(g)' = Sequences(g)
  BY DEF Sequences
<1>2. \A g : HeadOf(g)' = HeadOf(g)
  BY <1>1 DEF HeadOf
<1> QED
  BY <1>1, <1>2 DEF StreamsGapFree, HeadsAreNumbers

(***************************************************************************)
(* The steps of a transaction, one after the other: a call arrives.        *)
(***************************************************************************)
LEMMA InvokeStream ==
  ASSUME StreamInv, NEW c \in Connections, Invoke(c)
  PROVE  StreamInv'
<1>1. TypeOK'
  BY DEF StreamInv, Invoke, TypeOK, Replies
<1>2. LoopShape'
  BY DEF StreamInv, Invoke, TypeOK, LoopShape, Inserted, Batch
<1>3. HeadSeen' /\ OneWriter'
  BY SameStreams DEF StreamInv, Invoke, TypeOK, LoopShape, HeadSeen, OneWriter, Inserted
<1> QED
  BY <1>1, <1>2, <1>3, SameStreams DEF StreamInv, Invoke

(***************************************************************************)
(* A transaction is rolled back, whatever the caller is told.              *)
(***************************************************************************)
LEMMA RollbackStream ==
  ASSUME StreamInv, NEW c \in Connections, NEW r \in Replies, Rollback(c, r)
  PROVE  StreamInv'
<1>1. TypeOK'
  BY EndType DEF StreamInv, Rollback, TypeOK
<1>2. LoopShape'
  BY DEF StreamInv, Rollback, End, TypeOK, LoopShape, Inserted, Batch
<1>3. HeadSeen' /\ OneWriter'
  BY SameStreams
  DEF StreamInv, Rollback, End, TypeOK, HeadSeen, OneWriter, Inserted
<1> QED
  BY <1>1, <1>2, <1>3, SameStreams DEF StreamInv, Rollback

(***************************************************************************)
(* The head check passes: the transaction has seen the head of its stream. *)
(***************************************************************************)
LEMMA HeadCheckStream ==
  ASSUME StreamInv, NEW c \in Connections, HeadCheck(c)
  PROVE  StreamInv'
<1>1. TypeOK'
  BY DEF StreamInv, HeadCheck, At, TypeOK
<1>2. LoopShape'
  BY DEF StreamInv, HeadCheck, At, TypeOK, LoopShape, Inserted, Batch
<1>3. HeadSeen' /\ OneWriter'
  BY SameStreams
  DEF StreamInv, HeadCheck, HeadMatches, At, TypeOK, LoopShape, HeadSeen, OneWriter,
      HeadsAreNumbers, Inserted, Requests
<1> QED
  BY <1>1, <1>2, <1>3, SameStreams DEF StreamInv, HeadCheck

(***************************************************************************)
(* The key that an INSERT finds free is the next one of the stream, and no *)
(* other transaction holds a key of the stream.                            *)
(***************************************************************************)
LEMMA FreeKey ==
  ASSUME StreamInv, NEW c \in Connections, InsertEvent(c)
  PROVE  /\ request[c].expected = HeadOf(request[c].agg)
         /\ \A d \in Connections \ {c} :
              Inserted(d) > 0 => request[d].agg # request[c].agg
<1> DEFINE g == request[c].agg
           k == request[c].expected + written[c] + 1
<1> USE DEF StreamInv
<1>1. /\ g \in Aggregates
      /\ request[c].expected \in Nat
      /\ written[c] \in Nat
      /\ HeadOf(g) \in Nat
      /\ Sequences(g) = 1..HeadOf(g)
      /\ request[c].expected <= HeadOf(g)
  BY BoundsAssumption
  DEF TypeOK, Requests, HeadsAreNumbers, StreamsGapFree, HeadSeen, InsertEvent, At
<1>2. request[c].expected = HeadOf(g)
  <2>1. CASE written[c] = 0
    <3>1. k \notin Sequences(g)
      BY DEF InsertEvent, UniqueViolation, SameKey, RowOf, Sequences
    <3> QED
      BY <1>1, <2>1, <3>1
  <2>2. CASE written[c] > 0
    BY <2>2 DEF InsertEvent, At, HeadSeen, Inserted
  <2> QED
    BY <1>1, <2>1, <2>2
<1>3. ASSUME NEW d \in Connections \ {c}, Inserted(d) > 0, request[d].agg = g
      PROVE  FALSE
  <2>1. CASE written[c] = 0
    <3> DEFINE e == [agg |-> g, sequence |-> request[d].expected + 1, payload |-> d]
    <3>1. request[d].expected = HeadOf(g)
      BY <1>3 DEF HeadSeen
    <3>2. Inserted(d) \in Nat
      BY BoundsAssumption DEF TypeOK, Inserted
    <3>3. e \in txEvents[d]
      BY <1>3, <3>2 DEF LoopShape, Batch
    <3>4. SameKey(e, RowOf(c))
      BY <1>1, <1>2, <2>1, <3>1 DEF SameKey, RowOf
    <3> QED
      BY <3>3, <3>4 DEF InsertEvent, Blocked
  <2>2. CASE written[c] > 0
    BY <1>3, <2>2 DEF InsertEvent, At, OneWriter, Inserted
  <2> QED
    BY <1>1, <2>1, <2>2
<1> QED
  BY <1>2, <1>3

(***************************************************************************)
(* One more row in the transaction is one more row of its batch.           *)
(***************************************************************************)
LEMMA BatchGrows ==
  ASSUME TypeOK, NEW c \in Connections
  PROVE  Batch(c, written[c] + 1) = Batch(c, written[c]) \cup {RowOf(c)}
<1>1. request[c].expected \in Nat /\ written[c] \in Nat
  BY BoundsAssumption DEF TypeOK, Requests
<1>2. 1..(written[c] + 1) = (1..written[c]) \cup {written[c] + 1}
  BY <1>1
<1>3. request[c].expected + (written[c] + 1) = request[c].expected + written[c] + 1
  BY <1>1
<1> QED
  BY <1>2, <1>3, Zenon DEF Batch, RowOf

(***************************************************************************)
(* An event is inserted under a key that neither a committed row nor       *)
(* another open transaction has.                                           *)
(***************************************************************************)
LEMMA InsertEventStream ==
  ASSUME StreamInv, NEW c \in Connections, InsertEvent(c)
  PROVE  StreamInv'
<1> USE DEF StreamInv
<1>1. TypeOK'
  BY RowType DEF InsertEvent, At, TypeOK
<1>2. written[c] \in Nat /\ Inserted(c) = written[c] /\ Inserted(c)' = written[c] + 1
  BY BoundsAssumption DEF InsertEvent, At, TypeOK, Inserted
<1>3. \A d \in Connections \ {c} : Inserted(d)' = Inserted(d)
  BY DEF InsertEvent, TypeOK, Inserted
<1>4. Batch(c, written[c] + 1) = Batch(c, written[c]) \cup {RowOf(c)}
  BY BatchGrows
<1>5. LoopShape'
  <2> SUFFICES ASSUME NEW d \in Connections
               PROVE  (/\ pc[d] \in {"idle", "head"} => written[d] = 0
                       /\ pc[d] \in {"event", "outbox"} => written[d] < request[d].count
                       /\ pc[d] = "commit" => written[d] > 0
                       /\ txEvents[d] = Batch(d, Inserted(d)))'
    BY DEF LoopShape
  <2>1. CASE d = c
    BY <1>2, <1>4, <2>1 DEF InsertEvent, At, TypeOK, LoopShape, Batch
  <2>2. CASE d # c
    BY <1>3, <2>2 DEF InsertEvent, TypeOK, LoopShape, Batch
  <2> QED
    BY <2>1, <2>2
<1>6. HeadSeen'
  BY <1>2, <1>3, FreeKey, SameStreams DEF InsertEvent, At, TypeOK, HeadSeen
<1>7. OneWriter'
  BY <1>2, <1>3, FreeKey, ZenonT(30) DEF InsertEvent, At, TypeOK, OneWriter
<1> QED
  BY <1>1, <1>5, <1>6, <1>7, SameStreams DEF InsertEvent

(***************************************************************************)
(* Its outbox row is inserted, and an iteration of the loop is complete.   *)
(***************************************************************************)
LEMMA InsertOutboxStream ==
  ASSUME StreamInv, NEW c \in Connections, InsertOutbox(c)
  PROVE  StreamInv'
<1> USE DEF StreamInv
<1>1. /\ written[c] + 1 \in 0..MaxBatch
      /\ written[c] + 1 <= request[c].count
      /\ written[c] + 1 > 0
  BY BoundsAssumption DEF InsertOutbox, At, TypeOK, LoopShape, Requests
<1>2. TypeOK'
  BY <1>1, RowType DEF InsertOutbox, NextStatement, TypeOK
<1>3. \A d \in Connections : Inserted(d)' = Inserted(d)
  BY DEF InsertOutbox, At, NextStatement, TypeOK, Inserted
<1>4. LoopShape'
  <2> SUFFICES ASSUME NEW d \in Connections
               PROVE  (/\ pc[d] \in {"idle", "head"} => written[d] = 0
                       /\ pc[d] \in {"event", "outbox"} => written[d] < request[d].count
                       /\ pc[d] = "commit" => written[d] > 0
                       /\ txEvents[d] = Batch(d, Inserted(d)))'
    BY DEF LoopShape
  <2>1. txEvents'[d] = Batch(d, Inserted(d))'
    BY <1>3 DEF InsertOutbox, LoopShape, Batch
  <2> QED
    BY <1>1, <2>1, BoundsAssumption
    DEF InsertOutbox, At, NextStatement, TypeOK, LoopShape, Requests
<1>5. HeadSeen'
  BY <1>3, SameStreams DEF InsertOutbox, At, NextStatement, TypeOK, HeadSeen
<1>6. OneWriter'
  BY <1>3 DEF InsertOutbox, OneWriter
<1> QED
  BY <1>2, <1>4, <1>5, <1>6, SameStreams DEF InsertOutbox

(***************************************************************************)
(* The client leaves; the server's transaction is as it was.               *)
(***************************************************************************)
LEMMA GiveUpStream ==
  ASSUME StreamInv, NEW c \in Connections, GiveUp(c)
  PROVE  StreamInv'
<1> USE DEF StreamInv
<1>1. TypeOK'
  BY DEF GiveUp, TypeOK, Replies
<1>2. LoopShape' /\ HeadSeen' /\ OneWriter'
  BY SameStreams DEF GiveUp, LoopShape, HeadSeen, OneWriter, Inserted, Batch
<1> QED
  BY <1>1, <1>2, SameStreams DEF GiveUp

(***************************************************************************)
(* A COMMIT moves the head of one stream, by the length of its batch.      *)
(***************************************************************************)
LEMMA CommitHeads ==
  ASSUME StreamInv, NEW c \in Connections, Commit(c), NEW g \in Aggregates, g = request[c].agg
  PROVE  /\ Sequences(g)' = 1..(HeadOf(g) + written[c])
         /\ HeadOf(g)' = HeadOf(g) + written[c]
         /\ HeadOf(g) = request[c].expected
         /\ \A x \in Aggregates \ {g} : Sequences(x)' = Sequences(x) /\ HeadOf(x)' = HeadOf(x)
<1> USE DEF StreamInv
<1> DEFINE h == HeadOf(g)
           n == written[c]
<1>1. /\ h \in Nat
      /\ n \in Nat \ {0}
      /\ Inserted(c) = n
      /\ request[c].expected = h
      /\ txEvents[c] = Batch(c, n)
  BY BoundsAssumption
  DEF Commit, TypeOK, Requests, HeadsAreNumbers, LoopShape, HeadSeen, Inserted
<1>3. \A x \in Aggregates \ {g} : Sequences(x)' = Sequences(x) /\ HeadOf(x)' = HeadOf(x)
  <2> SUFFICES ASSUME NEW x \in Aggregates \ {g}
               PROVE  Sequences(x)' = Sequences(x) /\ HeadOf(x)' = HeadOf(x)
    OBVIOUS
  <2>1. {r \in events' : r.agg = x} = {r \in events : r.agg = x}
    BY <1>1 DEF Commit, Batch
  <2>2. Sequences(x)' = Sequences(x)
    BY <2>1 DEF Sequences
  <2> QED
    BY <2>2 DEF HeadOf
<1>4. Sequences(g)' = 1..(h + n) /\ HeadOf(g)' = h + n
  <2>1. Sequences(g)' = Sequences(g) \cup {h + i : i \in 1..n}
    <3>1. {r \in events' : r.agg = g} = {r \in events : r.agg = g} \cup Batch(c, n)
      BY <1>1 DEF Commit, Batch
    <3>2. {e.sequence : e \in Batch(c, n)} = {h + i : i \in 1..n}
      <4>1. Batch(c, n) = {[agg |-> g, sequence |-> h + i, payload |-> c] : i \in 1..n}
        BY <1>1 DEF Batch
      <4>2. ASSUME NEW i \in 1..n
            PROVE  \E e \in Batch(c, n) : e.sequence = h + i
        <5>1. [agg |-> g, sequence |-> h + i, payload |-> c] \in Batch(c, n)
          BY <4>1
        <5> QED
          BY <5>1
      <4>3. ASSUME NEW e \in Batch(c, n)
            PROVE  e.sequence \in {h + i : i \in 1..n}
        BY <4>1
      <4> QED
        BY <4>2, <4>3
    <3> QED
      BY <3>1, <3>2 DEF Sequences
  <2>2. Sequences(g) = 1..h
    BY <1>1 DEF StreamsGapFree
  <2>3. 1..(h + n) = (1..h) \cup {h + i : i \in 1..n}
    <3>1. ASSUME NEW k \in 1..(h + n), k \notin 1..h
          PROVE  k \in {h + i : i \in 1..n}
      <4>1. k - h \in 1..n /\ k = h + (k - h)
        BY <1>1, <3>1
      <4> QED
        BY <4>1
    <3> QED
      BY <1>1, <3>1
  <2>4. Sequences(g)' = 1..(h + n)
    BY <2>1, <2>2, <2>3
  <2>5. HeadOf(g)' = Max({0} \cup Sequences(g)')
    BY DEF HeadOf
  <2>6. h + n \in Nat
    BY <1>1
  <2> QED
    BY <2>4, <2>5, <2>6, MaxOfRange
<1> QED
  BY <1>1, <1>3, <1>4

(***************************************************************************)
(* COMMIT: the stream is extended, and nobody else is in the middle of a   *)
(* batch for it.                                                           *)
(***************************************************************************)
LEMMA CommitStream ==
  ASSUME StreamInv, NEW c \in Connections, Commit(c)
  PROVE  StreamInv'
<1> USE DEF StreamInv
<1> PICK g \in Aggregates : g = request[c].agg
  BY DEF TypeOK, Requests
<1> DEFINE h == HeadOf(g)
           n == written[c]
<1>1. /\ h \in Nat
      /\ n \in Nat \ {0}
      /\ Inserted(c) = n
      /\ request[c].expected = h
      /\ txEvents[c] = Batch(c, n)
  BY BoundsAssumption
  DEF Commit, TypeOK, Requests, HeadsAreNumbers, LoopShape, HeadSeen, Inserted
<1>2. TypeOK'
  BY EndType DEF Commit, TypeOK, Replies
<1>3. \A x \in Aggregates \ {g} : Sequences(x)' = Sequences(x) /\ HeadOf(x)' = HeadOf(x)
  BY CommitHeads
<1>4. Sequences(g)' = 1..(h + n) /\ HeadOf(g)' = h + n
  BY CommitHeads
<1>5. HeadsAreNumbers'
  BY <1>1, <1>3, <1>4 DEF HeadsAreNumbers
<1>6. StreamsGapFree'
  <2>1. \A x \in Aggregates : Sequences(x)' = 1..HeadOf(x)'
    BY <1>3, <1>4 DEF StreamsGapFree
  <2>2. ASSUME NEW e \in events, NEW f \in Batch(c, n), SameKey(e, f)
        PROVE  FALSE
    <3>1. e.sequence \in 1..h
      BY <1>1, <2>2 DEF SameKey, Batch, StreamsGapFree, Sequences
    <3>2. f.sequence > h
      BY <1>1 DEF Batch
    <3> QED
      BY <1>1, <2>2, <3>1, <3>2 DEF SameKey
  <2>3. ASSUME NEW e \in Batch(c, n), NEW f \in Batch(c, n), SameKey(e, f)
        PROVE  e = f
    BY <1>1, <2>3 DEF SameKey, Batch
  <2>4. \A e, f \in events' : SameKey(e, f) => e = f
    BY <1>1, <2>2, <2>3 DEF Commit, SameKey, StreamsGapFree
  <2> QED
    BY <2>1, <2>4 DEF StreamsGapFree, SameKey
<1>7. Inserted(c)' = 0 /\ \A d \in Connections \ {c} : Inserted(d)' = Inserted(d)
  BY DEF Commit, End, TypeOK, Inserted
<1>8. LoopShape'
  BY <1>7 DEF Commit, End, TypeOK, LoopShape, Batch
<1>9. HeadSeen'
  <2> SUFFICES ASSUME NEW d \in Connections \ {c}
               PROVE  (/\ pc[d] \in {"event", "outbox", "commit"} =>
                            request[d].expected <= HeadOf(request[d].agg)
                       /\ Inserted(d) > 0 => request[d].expected = HeadOf(request[d].agg))'
    BY <1>7 DEF Commit, End, TypeOK, HeadSeen
  <2>1. request[d] \in Requests /\ request'[d] = request[d] /\ pc'[d] = pc[d]
    BY DEF Commit, End, TypeOK
  <2>2. CASE request[d].agg = g
    <3>1. ~(Inserted(d) > 0)
      BY <1>1, <2>2 DEF OneWriter
    <3>2. request[d].expected \in Nat
      BY <2>1, BoundsAssumption DEF Requests
    <3> QED
      BY <1>1, <1>4, <1>7, <2>1, <2>2, <3>1, <3>2 DEF HeadSeen
  <2>3. CASE request[d].agg # g
    BY <1>3, <1>7, <2>1, <2>3 DEF HeadSeen, Requests
  <2> QED
    BY <2>2, <2>3
<1>10. OneWriter'
  BY <1>7 DEF Commit, End, OneWriter
<1> QED
  BY <1>2, <1>5, <1>6, <1>8, <1>9, <1>10

(***************************************************************************)
(* The inductive invariant of the tables and the open transactions.        *)
(***************************************************************************)
THEOREM StreamInvariant == Spec => []StreamInv
<1>1. StreamInv /\ [Next]_vars => StreamInv'
  <2> SUFFICES ASSUME StreamInv, [Next]_vars
               PROVE  StreamInv'
    OBVIOUS
  <2>1. CASE UNCHANGED vars
    <3>1. TypeOK' /\ LoopShape' /\ HeadSeen' /\ OneWriter'
      BY <2>1, SameStreams
      DEF vars, tx, StreamInv, TypeOK, LoopShape, HeadSeen, OneWriter, Inserted, Batch
    <3> QED
      BY <2>1, <3>1, SameStreams DEF vars, StreamInv
  <2>2. ASSUME NEW c \in Connections, Statement(c)
        PROVE  StreamInv'
    BY <2>2, RollbackStream, HeadCheckStream, InsertEventStream, InsertOutboxStream,
       CommitStream
    DEF Statement, AcceptNothing, StaleHead, LostRace, Replies
  <2>3. ASSUME NEW c \in Connections, Fail(c) \/ DropSession(c)
        PROVE  StreamInv'
    BY <2>3, RollbackStream DEF Fail, DropSession, Replies
  <2> QED
    BY <2>1, <2>2, <2>3, InvokeStream, GiveUpStream DEF Next, Terminated
<1> QED
  BY StreamInvInit, <1>1, PTL DEF Spec

(***************************************************************************)
(* Every reachable state is well typed.                                    *)
(***************************************************************************)
THEOREM TypeCorrect == Spec => []TypeOK
<1>1. StreamInv => TypeOK
  BY DEF StreamInv
<1> QED
  BY <1>1, StreamInvariant, PTL

(***************************************************************************)
(* The committed events of every aggregate are numbered without a gap, one *)
(* event per number, however many Appends race.                            *)
(***************************************************************************)
THEOREM GapFree == Spec => []StreamsGapFree
<1>1. StreamInv => StreamsGapFree
  BY DEF StreamInv
<1> QED
  BY <1>1, StreamInvariant, PTL

(***************************************************************************)
(* An Append that waits for a key holds none.                              *)
(***************************************************************************)
THEOREM NoLockCycle == Spec => []WaiterHoldsNoRows
<1>1. StreamInv => WaiterHoldsNoRows
  <2> SUFFICES ASSUME StreamInv, NEW c \in Connections, pc[c] = "event",
                      NEW d \in Connections \ {c}, NEW e \in txEvents[d],
                      SameKey(e, RowOf(c))
               PROVE  txEvents[c] = {}
    BY DEF WaiterHoldsNoRows, Blocked
  <2>1. e \in Batch(d, Inserted(d))
    BY DEF StreamInv, LoopShape
  <2>2. Inserted(d) > 0 /\ request[d].agg = request[c].agg
    BY <2>1, BoundsAssumption DEF Batch, SameKey, RowOf, StreamInv, TypeOK, Inserted
  <2>3. written[c] = 0
    BY <2>2, BoundsAssumption DEF StreamInv, TypeOK, OneWriter, Inserted
  <2> QED
    BY <2>3 DEF StreamInv, LoopShape, Inserted, Batch
<1> QED
  BY <1>1, StreamInvariant, PTL

-----------------------------------------------------------------------------
(* The inductive invariant of the outbox, over that of the streams.  The   *)
(* rows of an open transaction are ordered among themselves and behind the *)
(* committed rows of their aggregate, because ids only grow; two open      *)
(* transactions never hold rows of one aggregate, so the order in which    *)
(* they commit does not matter.                                            *)

Content(o) == [agg |-> o.agg, sequence |-> o.sequence, payload |-> o.payload]

TxMirrors ==
  \A c \in Connections :
     /\ Batch(c, written[c]) = {Content(o) : o \in txOutbox[c]}
     /\ \A o, p \in txOutbox[c] : SameKey(o, p) => o = p

IdsBelowNext ==
  /\ \A o \in outbox : o.id < nextId
  /\ \A c \in Connections : \A o \in txOutbox[c] : o.id < nextId

TxOrdered ==
  \A c \in Connections :
     /\ \A o, p \in txOutbox[c] : o.sequence < p.sequence => o.id < p.id
     /\ \A o \in outbox, p \in txOutbox[c] : o.agg = p.agg => o.id < p.id

OutboxInv ==
  /\ OutboxMirrorsEvents
  /\ TxMirrors
  /\ IdsBelowNext
  /\ OutboxFollowsSequence
  /\ TxOrdered

(***************************************************************************)
(* An outbox row in an open transaction lies between the expected version  *)
(* and the last event inserted, and the transaction has inserted that      *)
(* event.                                                                  *)
(***************************************************************************)
LEMMA TxRow ==
  ASSUME StreamInv, TxMirrors, NEW c \in Connections, NEW o \in txOutbox[c]
  PROVE  /\ o.agg = request[c].agg
         /\ o.sequence \in Nat
         /\ o.sequence > request[c].expected
         /\ o.sequence <= request[c].expected + written[c]
         /\ Inserted(c) > 0
<1>1. request[c].expected \in Nat /\ written[c] \in Nat
  BY BoundsAssumption DEF StreamInv, TypeOK, Requests
<1>2. Content(o) \in Batch(c, written[c])
  BY DEF TxMirrors
<1>3. PICK i \in 1..written[c] :
        o.agg = request[c].agg /\ o.sequence = request[c].expected + i
  BY <1>2 DEF Batch, Content
<1> QED
  BY <1>1, <1>3 DEF Inserted

(***************************************************************************)
(* A transaction that has not completed an iteration holds no outbox row.  *)
(***************************************************************************)
LEMMA NoTxRows ==
  ASSUME TxMirrors, NEW c \in Connections, written[c] = 0
  PROVE  txOutbox[c] = {}
  BY DEF TxMirrors, Batch

(***************************************************************************)
(* The rows that a committing transaction holds are new, and lie behind    *)
(* every committed row of their aggregate.                                 *)
(***************************************************************************)
LEMMA BehindTheHead ==
  ASSUME StreamInv, OutboxInv, NEW c \in Connections,
         NEW o \in outbox, NEW p \in txOutbox[c], o.agg = p.agg
  PROVE  o.sequence < p.sequence
<1>1. Content(o) \in events
  BY DEF OutboxInv, OutboxMirrorsEvents, Content
<1>2. PICK g \in Aggregates : g = request[c].agg
  BY DEF StreamInv, TypeOK, Requests
<1>3. /\ p.agg = g
      /\ p.sequence \in Nat
      /\ p.sequence > request[c].expected
      /\ Inserted(c) > 0
  BY <1>2, TxRow DEF OutboxInv
<1>4. o.sequence \in Sequences(g)
  BY <1>1, <1>3 DEF Sequences, Content
<1>5. request[c].expected = HeadOf(g)
  BY <1>2, <1>3 DEF StreamInv, HeadSeen
<1> QED
  BY <1>3, <1>4, <1>5 DEF StreamInv, StreamsGapFree, HeadsAreNumbers

(***************************************************************************)
(* Initially the outbox is empty.                                          *)
(***************************************************************************)
LEMMA OutboxInvInit == Init => OutboxInv
  BY DEF Init, OutboxInv, OutboxMirrorsEvents, TxMirrors, IdsBelowNext,
         OutboxFollowsSequence, TxOrdered, Batch

(***************************************************************************)
(* A call arrives, and has no outbox rows yet.                             *)
(***************************************************************************)
LEMMA InvokeOutbox ==
  ASSUME StreamInv, OutboxInv, NEW c \in Connections, Invoke(c)
  PROVE  OutboxInv'
<1>1. TxMirrors'
  BY DEF StreamInv, TypeOK, LoopShape, OutboxInv, TxMirrors, Invoke, Batch, SameKey, Content
<1> QED
  BY <1>1 DEF Invoke, OutboxInv, OutboxMirrorsEvents, IdsBelowNext,
              OutboxFollowsSequence, TxOrdered, SameKey

(***************************************************************************)
(* A rollback takes the outbox rows of the transaction with it, and leaves *)
(* a gap in the ids.                                                       *)
(***************************************************************************)
LEMMA RollbackOutbox ==
  ASSUME StreamInv, OutboxInv, NEW c \in Connections, NEW r \in Replies, Rollback(c, r)
  PROVE  OutboxInv'
<1> USE DEF Rollback, End, StreamInv, TypeOK, OutboxInv
<1>1. TxMirrors'
  BY DEF TxMirrors, Batch, SameKey, Content
<1>2. IdsBelowNext' /\ TxOrdered'
  BY DEF IdsBelowNext, TxOrdered
<1> QED
  BY <1>1, <1>2 DEF OutboxMirrorsEvents, OutboxFollowsSequence, SameKey

(***************************************************************************)
(* The new row mirrors the event just inserted, and has the largest id so  *)
(* far.                                                                    *)
(***************************************************************************)
LEMMA InsertOutboxOutbox ==
  ASSUME StreamInv, OutboxInv, NEW c \in Connections, InsertOutbox(c)
  PROVE  OutboxInv'
<1> USE DEF OutboxInv
<1>1. /\ txOutbox'[c] = txOutbox[c] \cup {OutboxRow(c)}
      /\ written'[c] = written[c] + 1
      /\ \A d \in Connections \ {c} :
           txOutbox'[d] = txOutbox[d] /\ written'[d] = written[d]
      /\ request' = request /\ outbox' = outbox /\ events' = events
      /\ nextId' = nextId + 1
      /\ nextId \in Nat
      /\ request[c].expected \in Nat /\ written[c] \in Nat
  BY BoundsAssumption DEF InsertOutbox, StreamInv, TypeOK, Requests
<1>2. \A o \in txOutbox[c] : o.sequence < OutboxRow(c).sequence
  BY <1>1, TxRow DEF OutboxRow, RowOf
<1>3. \A d \in Connections : \A o \in txOutbox[d] : o.id \in Nat /\ o.sequence \in Nat
  BY DEF StreamInv, TypeOK, OutboxRows
<1>4. \A o \in outbox : o.id \in Nat
  BY DEF StreamInv, TypeOK, OutboxRows
<1>5. TxMirrors'
  <2>1. Batch(c, written[c] + 1) = Batch(c, written[c]) \cup {RowOf(c)}
    BY BatchGrows DEF StreamInv
  <2>2. Content(OutboxRow(c)) = RowOf(c)
    BY DEF Content, OutboxRow, RowOf
  <2>3. Batch(c, written[c] + 1) = {Content(o) : o \in txOutbox'[c]}
    BY <1>1, <2>1, <2>2 DEF TxMirrors
  <2>4. \A o, p \in txOutbox'[c] : SameKey(o, p) => o = p
    BY <1>1, <1>2, <1>3 DEF TxMirrors, SameKey
  <2>5. \A d \in Connections : Batch(d, written[d])' = Batch(d, written'[d])
    BY <1>1 DEF Batch
  <2> QED
    BY <1>1, <2>3, <2>4, <2>5 DEF TxMirrors, SameKey, Content
<1>6. IdsBelowNext'
  BY <1>1, <1>3, <1>4 DEF IdsBelowNext, OutboxRow
<1>7. TxOrdered'
  <2>1. \A o, p \in txOutbox'[c] : o.sequence < p.sequence => o.id < p.id
    BY <1>1, <1>2, <1>3 DEF TxOrdered, IdsBelowNext, OutboxRow, RowOf
  <2>2. \A o \in outbox, p \in txOutbox'[c] : o.agg = p.agg => o.id < p.id
    BY <1>1 DEF TxOrdered, IdsBelowNext, OutboxRow
  <2> QED
    BY <1>1, <2>1, <2>2 DEF TxOrdered
<1> QED
  BY <1>1, <1>5, <1>6, <1>7 DEF OutboxMirrorsEvents, OutboxFollowsSequence, SameKey

(***************************************************************************)
(* COMMIT adds the rows of the batch to both tables at once.               *)
(***************************************************************************)
LEMMA CommitOutbox ==
  ASSUME StreamInv, OutboxInv, NEW c \in Connections, Commit(c)
  PROVE  OutboxInv'
<1> USE DEF OutboxInv
<1>1. /\ txOutbox'[c] = {}
      /\ written'[c] = 0
      /\ \A d \in Connections \ {c} :
           txOutbox'[d] = txOutbox[d] /\ written'[d] = written[d]
      /\ request' = request
      /\ outbox' = outbox \cup txOutbox[c]
      /\ events' = events \cup txEvents[c]
      /\ nextId' = nextId
  BY DEF Commit, End, StreamInv, TypeOK
<1>2. TxMirrors'
  <2>1. \A d \in Connections : Batch(d, written[d])' = Batch(d, written'[d])
    BY <1>1 DEF Batch
  <2>2. Batch(c, 0) = {Content(o) : o \in txOutbox'[c]}
    BY <1>1 DEF Batch
  <2> QED
    BY <1>1, <2>1, <2>2 DEF TxMirrors, SameKey, Content
<1>3. IdsBelowNext'
  BY <1>1 DEF IdsBelowNext
<1>4. OutboxMirrorsEvents'
  <2>1. txEvents[c] = {Content(o) : o \in txOutbox[c]}
    BY DEF Commit, StreamInv, LoopShape, Inserted, TxMirrors
  <2>2. events' = {Content(o) : o \in outbox'}
    BY <1>1, <2>1 DEF OutboxMirrorsEvents, Content
  <2>3. ASSUME NEW o \in outbox', NEW p \in outbox', SameKey(o, p)
        PROVE  o = p
    <3>1. CASE o \in outbox /\ p \in outbox
      BY <2>3, <3>1 DEF OutboxMirrorsEvents
    <3>2. CASE o \in txOutbox[c] /\ p \in txOutbox[c]
      BY <2>3, <3>2 DEF TxMirrors
    <3>3. CASE o \in outbox /\ p \in txOutbox[c]
      BY <2>3, <3>3, BehindTheHead, TxRow DEF SameKey
    <3>4. CASE o \in txOutbox[c] /\ p \in outbox
      BY <2>3, <3>4, BehindTheHead, TxRow DEF SameKey
    <3> QED
      BY <1>1, <3>1, <3>2, <3>3, <3>4
  <2> QED
    BY <2>2, <2>3 DEF OutboxMirrorsEvents, Content, SameKey
<1>5. OutboxFollowsSequence'
  <2> SUFFICES ASSUME NEW o \in outbox', NEW p \in outbox',
                      o.agg = p.agg, o.sequence < p.sequence
               PROVE  o.id < p.id
    BY DEF OutboxFollowsSequence
  <2>1. CASE o \in outbox /\ p \in outbox
    BY <2>1 DEF OutboxFollowsSequence
  <2>2. CASE p \in txOutbox[c]
    BY <1>1, <2>2 DEF TxOrdered
  <2>3. CASE o \in txOutbox[c] /\ p \in outbox
    <3>1. p.sequence < o.sequence
      BY <2>3, BehindTheHead
    <3>2. o.sequence \in Nat /\ p.sequence \in Nat
      BY <2>3 DEF StreamInv, TypeOK, OutboxRows
    <3> QED
      BY <3>1, <3>2
  <2> QED
    BY <1>1, <2>1, <2>2, <2>3
<1>6. TxOrdered'
  <2> SUFFICES ASSUME NEW d \in Connections \ {c}
               PROVE  \A o \in outbox', p \in txOutbox[d] : o.agg = p.agg => o.id < p.id
    BY <1>1 DEF TxOrdered
  <2>1. ASSUME NEW o \in txOutbox[c], NEW p \in txOutbox[d]
        PROVE  o.agg # p.agg
    BY TxRow DEF StreamInv, OneWriter
  <2> QED
    BY <1>1, <2>1 DEF TxOrdered
<1> QED
  BY <1>2, <1>3, <1>4, <1>5, <1>6

(***************************************************************************)
(* A step of a transaction that leaves outbox, ids and requests alone.     *)
(***************************************************************************)
LEMMA OtherStepOutbox ==
  ASSUME OutboxInv, UNCHANGED <<events, outbox, nextId, request, written, txOutbox>>
  PROVE  OutboxInv'
  BY DEF OutboxInv, OutboxMirrorsEvents, TxMirrors, IdsBelowNext, OutboxFollowsSequence,
         TxOrdered, Batch, SameKey, Content

(***************************************************************************)
(* The inductive invariant of both tables, with what the open transactions *)
(* are about to add to the outbox.                                         *)
(***************************************************************************)
THEOREM OutboxInvariant == Spec => [](StreamInv /\ OutboxInv)
<1>1. StreamInv /\ OutboxInv /\ [Next]_vars => OutboxInv'
  <2> SUFFICES ASSUME StreamInv, OutboxInv, [Next]_vars
               PROVE  OutboxInv'
    OBVIOUS
  <2>1. CASE UNCHANGED vars
    BY <2>1, OtherStepOutbox DEF vars, tx
  <2>2. ASSUME NEW c \in Connections, HeadCheck(c) \/ InsertEvent(c) \/ GiveUp(c)
        PROVE  OutboxInv'
    BY <2>2, OtherStepOutbox DEF HeadCheck, InsertEvent, GiveUp
  <2>3. ASSUME NEW c \in Connections,
               \/ AcceptNothing(c) \/ StaleHead(c) \/ LostRace(c)
               \/ Fail(c) \/ DropSession(c)
        PROVE  OutboxInv'
    BY <2>3, RollbackOutbox
    DEF AcceptNothing, StaleHead, LostRace, Fail, DropSession, Replies
  <2> QED
    BY <2>1, <2>2, <2>3, InvokeOutbox, InsertOutboxOutbox, CommitOutbox
    DEF Next, Statement, Terminated
<1> QED
  BY OutboxInvInit, <1>1, StreamInvariant, PTL DEF Spec

(***************************************************************************)
(* Every committed event has its one outbox row, and the other way round.  *)
(***************************************************************************)
THEOREM Mirrored == Spec => []OutboxMirrorsEvents
<1>1. OutboxInv => OutboxMirrorsEvents
  BY DEF OutboxInv
<1> QED
  BY <1>1, OutboxInvariant, PTL

(***************************************************************************)
(* ORDER BY id is the order of every stream.                               *)
(***************************************************************************)
THEOREM IdsFollowSequence == Spec => []OutboxFollowsSequence
<1>1. OutboxInv => OutboxFollowsSequence
  BY DEF OutboxInv
<1> QED
  BY <1>1, OutboxInvariant, PTL

(***************************************************************************)
(* No outbox row becomes visible behind a committed row of its aggregate.  *)
(***************************************************************************)
THEOREM NothingSlipsBehind == Spec => VisibleInOrder
<1>1. OutboxInv /\ [Next]_vars =>
        [\A o \in outbox' \ outbox : \A p \in outbox : p.agg = o.agg => p.id < o.id]_vars
  <2> SUFFICES ASSUME OutboxInv, Next,
                      NEW o \in outbox' \ outbox, NEW p \in outbox, p.agg = o.agg
               PROVE  p.id < o.id
    OBVIOUS
  <2>1. PICK c \in Connections : outbox' = outbox \cup txOutbox[c]
    BY DEF Next, Statement, Invoke, Fail, GiveUp, DropSession, Terminated, Rollback,
           AcceptNothing, HeadCheck, StaleHead, InsertEvent, LostRace, InsertOutbox,
           Commit, vars
  <2> QED
    BY <2>1 DEF OutboxInv, TxOrdered
<1> QED
  BY <1>1, OutboxInvariant, PTL DEF Spec, VisibleInOrder

-----------------------------------------------------------------------------
(***************************************************************************)
(* The bigserial draws no id twice, whichever transaction draws it and     *)
(* whether that one commits or not.                                        *)
(***************************************************************************)
IdsDrawnOnce ==
  /\ \A o, p \in outbox : o.id = p.id => o = p
  /\ \A c \in Connections : \A o \in outbox, p \in txOutbox[c] : o.id # p.id
  /\ \A c, d \in Connections : \A o \in txOutbox[c], p \in txOutbox[d] :
       o.id = p.id => c = d /\ o = p

(***************************************************************************)
(* The ids of all outbox rows differ, those of one aggregate or of many:   *)
(* a row is known by its id, which is all that Claim returns of it.        *)
(***************************************************************************)
THEOREM DrawnOnce == Spec => []IdsDrawnOnce
<1>1. Init => IdsDrawnOnce
  BY DEF Init, IdsDrawnOnce
<1>2. ASSUME StreamInv, IdsBelowNext, IdsDrawnOnce, [Next]_vars PROVE IdsDrawnOnce'
  <2> USE DEF StreamInv, TypeOK
  <2>1. CASE UNCHANGED <<outbox, txOutbox>>
    BY <1>2, <2>1 DEF IdsDrawnOnce
  <2>2. ASSUME NEW c \in Connections, InsertOutbox(c) PROVE IdsDrawnOnce'
    <3>1. /\ outbox' = outbox /\ txOutbox'[c] = txOutbox[c] \cup {OutboxRow(c)}
          /\ \A d \in Connections : d # c => txOutbox'[d] = txOutbox[d]
          /\ OutboxRow(c).id = nextId
      BY <1>2, <2>2 DEF InsertOutbox, OutboxRow
    <3>2. /\ \A o \in outbox : o.id # nextId
          /\ \A d \in Connections : \A o \in txOutbox[d] : o.id # nextId
      BY <1>2 DEF IdsBelowNext, OutboxRows
    <3>3. ASSUME NEW d \in Connections, NEW e \in Connections,
                 NEW o \in txOutbox'[d], NEW p \in txOutbox'[e], o.id = p.id
          PROVE  d = e /\ o = p
      <4>1. o \in txOutbox[d] \/ (d = c /\ o = OutboxRow(c))
        BY <3>1, <3>3
      <4>2. p \in txOutbox[e] \/ (e = c /\ p = OutboxRow(c))
        BY <3>1, <3>3
      <4> QED
        BY <1>2, <3>1, <3>2, <3>3, <4>1, <4>2 DEF IdsDrawnOnce
    <3>4. \A d \in Connections : \A o \in outbox', p \in txOutbox'[d] : o.id # p.id
      BY <1>2, <3>1, <3>2 DEF IdsDrawnOnce
    <3> QED
      BY <1>2, <3>1, <3>3, <3>4 DEF IdsDrawnOnce
  <2>3. ASSUME NEW c \in Connections, NEW r, End(c, r),
               outbox' = outbox \/ outbox' = outbox \cup txOutbox[c]
        PROVE  IdsDrawnOnce'
    <3>1. txOutbox'[c] = {} /\ \A d \in Connections : d # c => txOutbox'[d] = txOutbox[d]
      BY <1>2, <2>3 DEF End
    <3>2. \A d \in Connections : txOutbox'[d] \subseteq txOutbox[d]
      BY <3>1
    <3>3. ASSUME NEW o \in outbox', NEW p \in outbox', o.id = p.id PROVE o = p
      BY <1>2, <2>3, <3>3 DEF IdsDrawnOnce
    <3>4. ASSUME NEW d \in Connections, NEW o \in outbox', NEW p \in txOutbox'[d]
          PROVE  o.id # p.id
      BY <1>2, <2>3, <3>1, <3>4 DEF IdsDrawnOnce
    <3> QED
      BY <1>2, <3>2, <3>3, <3>4 DEF IdsDrawnOnce
  <2> QED
    BY <1>2, <2>1, <2>2, <2>3 DEF Next, Statement, Terminated, vars, tx, Invoke, HeadCheck,
       InsertEvent, GiveUp, AcceptNothing, StaleHead, LostRace, Commit, Fail, DropSession, Rollback
<1>3. OutboxInv => IdsBelowNext
  BY DEF OutboxInv
<1> QED
  BY <1>1, <1>2, <1>3, OutboxInvariant, PTL DEF Spec
=============================================================================
