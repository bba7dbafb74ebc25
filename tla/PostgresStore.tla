---------------------------- MODULE PostgresStore ---------------------------
(***************************************************************************)
(* postgres.Store.Append: the head check and the inserts of one READ       *)
(* COMMITTED transaction, interleaved with those of concurrent Appends.    *)
(*                                                                         *)
(* A call runs on a pooled connection, one SQL statement per step; the     *)
(* state of the call's transaction is that of its connection.  The client  *)
(* can leave at any time (its context is cancelled, its process dies, the  *)
(* network fails).  Its transaction then stays open on the server, rows    *)
(* locked, until the server notices, and a COMMIT already sent may still   *)
(* be executed.                                                            *)
(***************************************************************************)
EXTENDS Naturals, FiniteSetsExt

CONSTANTS
  Aggregates,     \* the stream identifiers
  Connections,    \* the connections of the pool
  MaxSequence,    \* bound on the sequence numbers callers use
  MaxBatch,       \* bound on len(events)
  MaxOutboxId     \* no call starts once the outbox ids have passed this bound

ASSUME BoundsAssumption ==
  MaxSequence \in Nat /\ MaxBatch \in Nat /\ MaxOutboxId \in Nat

VARIABLES
  events,         \* committed rows of table events
  outbox,         \* committed rows of table outbox
  nextId,         \* the bigserial that numbers outbox rows; never rolled back
  pc,             \* the next statement of each connection's transaction
  request,        \* the arguments of the call the connection serves
  reply,          \* "pending" while the caller waits, otherwise its reply
  written,        \* how many envelopes the loop of Append has inserted
  txEvents,       \* rows of events inserted and not yet committed
  txOutbox        \* rows of outbox inserted and not yet committed

tx == <<pc, request, reply, written, txEvents, txOutbox>>
vars == <<events, outbox, nextId, tx>>

Requests ==
  {q \in [agg : Aggregates, expected : 0..MaxSequence, count : 0..MaxBatch] :
     q.expected + q.count <= MaxSequence}

Replies == {"pending", "ok", "conflict", "error"}

(***************************************************************************)
(* The columns that matter: the connection a row was written on stands for *)
(* its type, payload and metadata.                                         *)
(***************************************************************************)
EventRows ==
  [agg : Aggregates, sequence : Nat \ {0}, payload : Connections]

OutboxRows ==
  [id : Nat \ {0}, agg : Aggregates, sequence : Nat \ {0},
   payload : Connections]

Init ==
  /\ events = {}
  /\ outbox = {}
  /\ nextId = 1
  /\ pc = [c \in Connections |-> "idle"]
  /\ request \in [Connections -> {q \in Requests : q.expected = 0 /\ q.count = 0}]
  /\ reply = [c \in Connections |-> "ok"]
  /\ written = [c \in Connections |-> 0]
  /\ txEvents = [c \in Connections |-> {}]
  /\ txOutbox = [c \in Connections |-> {}]

-----------------------------------------------------------------------------
(* What the statements see.                                                *)

Sequences(g) == {e.sequence : e \in {r \in events : r.agg = g}}

DirtySequences(g) ==   \* mutant: the head check reads uncommitted rows
  {e.sequence : e \in {r \in events \cup UNION {txEvents[c] : c \in Connections} :
                         r.agg = g}}

DirtyHeadOf(g) == Max({0} \cup DirtySequences(g))

(***************************************************************************)
(* COALESCE(MAX(sequence), 0) over the committed rows of the aggregate.    *)
(***************************************************************************)
HeadOf(g) == Max({0} \cup Sequences(g))

NoHeadCheck(c) == TRUE   \* mutant: the primary key alone guards the stream

HeadMatches(c) == HeadOf(request[c].agg) = request[c].expected

(***************************************************************************)
(* The row the current iteration inserts, and the rows of its primary key. *)
(***************************************************************************)
RowOf(c) ==
  [agg      |-> request[c].agg,
   sequence |-> request[c].expected + written[c] + 1,
   payload  |-> c]

SameKey(e, f) == e.agg = f.agg /\ e.sequence = f.sequence

(***************************************************************************)
(* An INSERT waits while another open transaction holds the same key.      *)
(***************************************************************************)
Blocked(c) ==
  \E d \in Connections \ {c} : \E e \in txEvents[d] : SameKey(e, RowOf(c))

NoPrimaryKey(c) == FALSE   \* mutant: the key (aggregate_id, sequence) is gone

UniqueViolation(c) == \E e \in events : SameKey(e, RowOf(c))

-----------------------------------------------------------------------------
EndWithoutReset(c, r) ==   \* mutant: the next call starts mid-loop
  /\ pc' = [pc EXCEPT ![c] = "idle"]
  /\ reply' = [reply EXCEPT ![c] = IF @ = "pending" THEN r ELSE @]
  /\ txEvents' = [txEvents EXCEPT ![c] = {}]
  /\ txOutbox' = [txOutbox EXCEPT ![c] = {}]
  /\ UNCHANGED <<request, written>>

EndKeepingLocks(c, r) ==   \* mutant: the rollback after an error is never sent
  /\ pc' = [pc EXCEPT ![c] = IF r = "error" THEN @ ELSE "idle"]
  /\ reply' = [reply EXCEPT ![c] = IF @ = "pending" THEN r ELSE @]
  /\ written' = [written EXCEPT ![c] = IF r = "error" THEN @ ELSE 0]
  /\ txEvents' = [txEvents EXCEPT ![c] = IF r = "error" THEN @ ELSE {}]
  /\ txOutbox' = [txOutbox EXCEPT ![c] = IF r = "error" THEN @ ELSE {}]
  /\ UNCHANGED request

(***************************************************************************)
(* The transaction ends, either way: its rows leave the transaction and    *)
(* the connection returns to the pool.  A caller still there gets reply r. *)
(***************************************************************************)
End(c, r) ==
  /\ pc' = [pc EXCEPT ![c] = "idle"]
  /\ reply' = [reply EXCEPT ![c] = IF @ = "pending" THEN r ELSE @]
  /\ written' = [written EXCEPT ![c] = 0]
  /\ txEvents' = [txEvents EXCEPT ![c] = {}]
  /\ txOutbox' = [txOutbox EXCEPT ![c] = {}]
  /\ UNCHANGED request

Rollback(c, r) == End(c, r) /\ UNCHANGED <<events, outbox, nextId>>

(***************************************************************************)
(* The client is there to send statement s.                                *)
(***************************************************************************)
At(c, s) == pc[c] = s /\ reply[c] = "pending"

Invoke(c) ==
  /\ pc[c] = "idle"
  /\ nextId <= MaxOutboxId
  /\ pc' = [pc EXCEPT ![c] = "head"]
  /\ \E q \in Requests : request' = [request EXCEPT ![c] = q]
  /\ reply' = [reply EXCEPT ![c] = "pending"]
  /\ UNCHANGED <<events, outbox, nextId, written, txEvents, txOutbox>>

(***************************************************************************)
(* len(events) == 0: nil, without a look at the stream.                    *)
(***************************************************************************)
AcceptNothing(c) ==
  /\ At(c, "head")
  /\ request[c].count = 0
  /\ Rollback(c, "ok")

HeadCheck(c) ==
  /\ At(c, "head")
  /\ request[c].count > 0
  /\ HeadMatches(c)
  /\ pc' = [pc EXCEPT ![c] = "event"]
  /\ UNCHANGED <<events, outbox, nextId, request, reply, written, txEvents, txOutbox>>

StaleHead(c) ==
  /\ At(c, "head")
  /\ request[c].count > 0
  /\ ~HeadMatches(c)
  /\ Rollback(c, "conflict")

InsertEvent(c) ==
  /\ At(c, "event")
  /\ ~Blocked(c)
  /\ ~UniqueViolation(c)
  /\ txEvents' = [txEvents EXCEPT ![c] = @ \cup {RowOf(c)}]
  /\ pc' = [pc EXCEPT ![c] = "outbox"]
  /\ UNCHANGED <<events, outbox, nextId, request, reply, written, txOutbox>>

GivesUpWaiting(c) ==   \* mutant: a held key counts as a conflict
  /\ At(c, "event")
  /\ Blocked(c) \/ UniqueViolation(c)
  /\ Rollback(c, "conflict")

LostRace(c) ==
  /\ At(c, "event")
  /\ ~Blocked(c)
  /\ UniqueViolation(c)
  /\ Rollback(c, "conflict")

OutboxRow(c) ==
  [id       |-> nextId,
   agg      |-> RowOf(c).agg,
   sequence |-> RowOf(c).sequence,
   payload  |-> c]

NextStatement(c) == IF written[c] + 1 = request[c].count THEN "commit" ELSE "event"

InsertOutboxAutoCommit(c) ==   \* mutant: the outbox row is not part of the transaction
  /\ At(c, "outbox")
  /\ outbox' = outbox \cup {OutboxRow(c)}
  /\ nextId' = nextId + 1
  /\ written' = [written EXCEPT ![c] = @ + 1]
  /\ pc' = [pc EXCEPT ![c] = NextStatement(c)]
  /\ UNCHANGED <<events, request, reply, txEvents, txOutbox>>

InsertOutbox(c) ==
  /\ At(c, "outbox")
  /\ txOutbox' = [txOutbox EXCEPT ![c] = @ \cup {OutboxRow(c)}]
  /\ nextId' = nextId + 1
  /\ written' = [written EXCEPT ![c] = @ + 1]
  /\ pc' = [pc EXCEPT ![c] = NextStatement(c)]
  /\ UNCHANGED <<events, outbox, request, reply, txEvents>>

(***************************************************************************)
(* The server executes the COMMIT, whether or not the client that sent it  *)
(* is still there for the answer.                                          *)
(***************************************************************************)
Commit(c) ==
  /\ pc[c] = "commit"
  /\ events' = events \cup txEvents[c]
  /\ outbox' = outbox \cup txOutbox[c]
  /\ End(c, "ok")
  /\ UNCHANGED nextId

(***************************************************************************)
(* A statement fails, or a payload does not marshal: BeginFunc rolls back  *)
(* and the caller gets the error.                                          *)
(***************************************************************************)
Fail(c) ==
  /\ pc[c] # "idle"
  /\ reply[c] = "pending"
  /\ Rollback(c, "error")

(***************************************************************************)
(* The client leaves with an error; the server knows nothing of it yet.    *)
(***************************************************************************)
GiveUp(c) ==
  /\ reply[c] = "pending"
  /\ reply' = [reply EXCEPT ![c] = "error"]
  /\ UNCHANGED <<events, outbox, nextId, pc, request, written, txEvents, txOutbox>>

(***************************************************************************)
(* The server notices that the client is gone.                             *)
(***************************************************************************)
DropSession(c) ==
  /\ pc[c] # "idle"
  /\ reply[c] = "error"
  /\ Rollback(c, "error")

Statement(c) ==
  \/ AcceptNothing(c) \/ HeadCheck(c) \/ StaleHead(c)
  \/ InsertEvent(c) \/ LostRace(c) \/ InsertOutbox(c) \/ Commit(c)

(***************************************************************************)
(* Every call is over and the bound on outbox ids is reached.              *)
(***************************************************************************)
Terminated ==
  /\ \A c \in Connections : pc[c] = "idle"
  /\ nextId > MaxOutboxId
  /\ UNCHANGED vars

Next ==
  \/ \E c \in Connections :
       Invoke(c) \/ Statement(c) \/ Fail(c) \/ GiveUp(c) \/ DropSession(c)
  \/ Terminated

Spec == Init /\ [][Next]_vars

(***************************************************************************)
(* The client sends its next statement, and the server executes it.  A     *)
(* blocked INSERT is woken when the holder of its key ends, and is not     *)
(* overtaken by later arrivals for ever: strong fairness.  The server      *)
(* notices a lost client in the end.  Nothing obliges a call to start, a   *)
(* statement to fail or a client to leave.                                 *)
(***************************************************************************)
Fairness ==
  \A c \in Connections : SF_vars(Statement(c)) /\ WF_vars(DropSession(c))

FairSpec == Spec /\ Fairness

-----------------------------------------------------------------------------
(***************************************************************************)
(* The type invariant of the two tables and of the open transactions.      *)
(***************************************************************************)
TypeOK ==
  /\ events \subseteq EventRows
  /\ outbox \subseteq OutboxRows
  /\ nextId \in Nat \ {0}
  /\ pc \in [Connections -> {"idle", "head", "event", "outbox", "commit"}]
  /\ request \in [Connections -> Requests]
  /\ reply \in [Connections -> Replies]
  /\ written \in [Connections -> 0..MaxBatch]
  /\ txEvents \in [Connections -> SUBSET EventRows]
  /\ txOutbox \in [Connections -> SUBSET OutboxRows]

(***************************************************************************)
(* The committed events of an aggregate are numbered 1, 2, 3, ... without  *)
(* a gap, one event per number.  Load depends on it: the Repository takes  *)
(* the number of events it replays for the head that Append compares with  *)
(* MAX(sequence).                                                          *)
(***************************************************************************)
StreamsGapFree ==
  /\ \A g \in Aggregates : Sequences(g) = 1..HeadOf(g)
  /\ \A e, f \in events : SameKey(e, f) => e = f

(***************************************************************************)
(* Every committed event has exactly one outbox row with its content, and  *)
(* every outbox row has its event: a crash cannot separate the two tables. *)
(***************************************************************************)
OutboxMirrorsEvents ==
  /\ events = {[agg |-> o.agg, sequence |-> o.sequence, payload |-> o.payload] :
                 o \in outbox}
  /\ \A o, p \in outbox : SameKey(o, p) => o = p

(***************************************************************************)
(* The outbox ids of an aggregate's events increase with their sequence,   *)
(* so that Claim's ORDER BY id is the order of each stream although ids    *)
(* are drawn by concurrent transactions, before they commit.               *)
(***************************************************************************)
OutboxFollowsSequence ==
  \A o, p \in outbox :
     (o.agg = p.agg /\ o.sequence < p.sequence) => o.id < p.id

(***************************************************************************)
(* A row never becomes visible behind one of the same aggregate that a     *)
(* dispatcher could already have claimed: a new outbox row has a larger id *)
(* than the committed ones of its aggregate.  (Across aggregates rows do   *)
(* become visible out of id order.)                                        *)
(***************************************************************************)
VisibleInOrder ==
  [][\A o \in outbox' \ outbox : \A p \in outbox : p.agg = o.agg => p.id < o.id]_vars

(***************************************************************************)
(* A transaction that waits for a key holds no key itself, so that Appends *)
(* cannot wait for each other in a circle although a batch takes several   *)
(* keys one after the other.                                               *)
(***************************************************************************)
WaiterHoldsNoRows ==
  \A c \in Connections : (pc[c] = "event" /\ Blocked(c)) => txEvents[c] = {}

(***************************************************************************)
(* Every call of Append ends, on the server as well: the locks of a client *)
(* that left are released.                                                 *)
(***************************************************************************)
AppendEnds ==
  \A c \in Connections : (pc[c] # "idle") ~> (pc[c] = "idle")

-----------------------------------------------------------------------------
(***************************************************************************)
(* Load: the events of the aggregate in sequence order.                    *)
(***************************************************************************)
Load(g) ==
  [i \in 1..Cardinality({e \in events : e.agg = g}) |->
     (CHOOSE e \in events : e.agg = g /\ e.sequence = i).payload]

Contract ==
  INSTANCE EventStore WITH
    Calls   <- Connections,
    streams <- [g \in Aggregates |-> Load(g)],
    status  <- reply,
    live    <- [c \in Connections |-> pc[c] # "idle"]

(***************************************************************************)
(* The store is an event.Store: what callers see of it is one stream per   *)
(* aggregate, extended by whole batches at one instant each.               *)
(***************************************************************************)
AppendContract == Contract!Spec
=============================================================================
