--------------------------- MODULE Orders_proofs ---------------------------
(***************************************************************************)
(* Proofs about Orders, for any orders, any number of callers and any      *)
(* bound on redeliveries.                                                  *)
(***************************************************************************)
EXTENDS Orders, SequenceTheorems, TLAPS

-----------------------------------------------------------------------------
(* The life of an order.                                                   *)

(***************************************************************************)
(* What the handlers decide: to place an order that has no event, to ship  *)
(* one that has one.                                                       *)
(***************************************************************************)
Decisions ==
  {a \in [id : OrderIDs, event : Events, expected : {0, 1}] :
     a.expected = 0 <=> a.event.type = "OrderPlaced"}

LifeOK(stream) ==
  /\ stream \in Seq(Events)
  /\ Len(stream) <= 2
  /\ Len(stream) >= 1 => stream[1].type = "OrderPlaced"
  /\ Len(stream) = 2 => stream[2].type = "OrderShipped"

StreamsOK ==
  /\ streams \in [OrderIDs -> Seq(Events)]
  /\ \A id \in OrderIDs : LifeOK(streams[id])

DecisionsOK ==
  /\ pc \in [Callers -> {"ready", "append", "publish"}]
  /\ pending \in [Callers -> Decisions \cup {NoAppend}]
  /\ \A c \in Callers : pc[c] # "ready" => pending[c] \in Decisions
  /\ late \subseteq Decisions

LifeInv == StreamsOK /\ DecisionsOK

(***************************************************************************)
(* Save publishes, and returns nil or the error of another subscriber.     *)
(***************************************************************************)
Publishes(c) == PublishInSave(c) \/ PublishFails(c)

(***************************************************************************)
(* The two types of events.                                                *)
(***************************************************************************)
LEMMA EventTypes ==
  /\ OrderShipped \in Events /\ OrderShipped.type = "OrderShipped"
  /\ \A d \in Details : OrderPlaced(d) \in Events /\ OrderPlaced(d).type = "OrderPlaced"
  /\ \A e \in Events : e.type \in {"OrderPlaced", "OrderShipped"}
  BY DEF Events, OrderPlaced, OrderShipped

(***************************************************************************)
(* What passes the parsers is a valid value object in every field.         *)
(***************************************************************************)
LEMMA ParsedIsValid ==
  ASSUME NEW input \in Inputs, BadFields(input) = {}
  PROVE  Parsed(input) \in Details
<1>1. input.name # "blank" /\ input.amount # 0 /\ input.note # "blank"
  BY DEF BadFields, ParseFails
<1> QED
  BY <1>1 DEF Inputs, Parsed, Details, MaybeOf, BadFields, ParseFails

(***************************************************************************)
(* The status of a well-formed stream tells its length.                    *)
(***************************************************************************)
LEMMA StatusIsLength ==
  ASSUME NEW stream, LifeOK(stream)
  PROVE  /\ Status(stream) = "new" => Len(stream) = 0
         /\ Status(stream) # "shipped" /\ stream # <<>> => Len(stream) = 1
<1>1. stream = <<>> \/ Len(stream) = 1 \/ Len(stream) = 2
  <2>1. stream \in Seq(Events) /\ Len(stream) <= 2
    BY DEF LifeOK
  <2>2. stream # <<>> => Len(stream) \in Nat \ {0}
    BY <2>1, EmptySeq
  <2>3. \A n \in Nat \ {0} : n <= 2 => n = 1 \/ n = 2
    OBVIOUS
  <2> QED
    BY <2>1, <2>2, <2>3
<1>2. CASE stream = <<>>
  BY <1>2 DEF Status
<1>3. CASE Len(stream) = 1
  <2>1. stream # <<>>
    BY <1>3
  <2>2. Last(stream).type = "OrderPlaced"
    BY <1>3 DEF LifeOK, Last
  <2> QED
    BY <1>3, <2>1, <2>2 DEF Status
<1>4. CASE Len(stream) = 2
  <2>1. stream # <<>>
    BY <1>4
  <2>2. Last(stream).type = "OrderShipped"
    BY <1>4 DEF LifeOK, Last
  <2> QED
    BY <1>4, <2>1, <2>2 DEF Status
<1> QED
  BY <1>1, <1>2, <1>3, <1>4

(***************************************************************************)
(* An append that fits continues the life of its order.                    *)
(***************************************************************************)
LEMMA StoreContinues ==
  ASSUME StreamsOK, NEW a \in Decisions, HeadFits(a), Store(a)
  PROVE  StreamsOK'
<1>1. /\ a.id \in OrderIDs /\ a.event \in Events /\ a.expected \in {0, 1}
      /\ a.expected = 0 => a.event.type = "OrderPlaced"
      /\ a.expected = 1 => a.event.type = "OrderShipped"
  BY EventTypes DEF Decisions
<1>2. streams' = [streams EXCEPT ![a.id] = Append(@, a.event)]
  BY DEF Store
<1>3. LifeOK(Append(streams[a.id], a.event))
  <2> DEFINE s == streams[a.id]
  <2>1. s \in Seq(Events) /\ Len(s) = a.expected /\ LifeOK(s)
    BY <1>1 DEF HeadFits, StreamsOK
  <2>2. /\ Append(s, a.event) \in Seq(Events)
        /\ Len(Append(s, a.event)) = Len(s) + 1
        /\ Append(s, a.event)[Len(s) + 1] = a.event
        /\ \A i \in 1..Len(s) : Append(s, a.event)[i] = s[i]
    BY <1>1, <2>1
  <2>3. CASE a.expected = 0
    BY <1>1, <2>1, <2>2, <2>3 DEF LifeOK
  <2>4. CASE a.expected = 1
    BY <1>1, <2>1, <2>2, <2>4 DEF LifeOK
  <2> QED
    BY <1>1, <2>3, <2>4
<1>4. streams' \in [OrderIDs -> Seq(Events)]
  BY <1>1, <1>2, <1>3 DEF StreamsOK, LifeOK
<1>5. \A id \in OrderIDs : LifeOK(streams'[id])
  BY <1>1, <1>2, <1>3 DEF StreamsOK
<1> QED
  BY <1>4, <1>5 DEF StreamsOK, LifeOK

(***************************************************************************)
(* Initially there is no order and no append.                              *)
(***************************************************************************)
LEMMA LifeInvInit == Init => LifeInv
<1> SUFFICES ASSUME Init PROVE LifeInv
  OBVIOUS
<1>1. StreamsOK
  BY DEF Init, StreamsOK, LifeOK
<1>2. DecisionsOK
  BY DEF Init, DecisionsOK
<1> QED
  BY <1>1, <1>2 DEF LifeInv

(***************************************************************************)
(* The two ways a handler's first step ends.                               *)
(***************************************************************************)
LEMMA AnswerKeeps ==
  ASSUME LifeInv, NEW c \in Callers, NEW r, Answer(c, r)
  PROVE  LifeInv'
<1>1. StreamsOK'
  BY DEF LifeInv, StreamsOK, Answer, stored
<1>2. DecisionsOK'
  BY DEF LifeInv, DecisionsOK, Answer, stored
<1> QED
  BY <1>1, <1>2 DEF LifeInv

(***************************************************************************)
(* A handler decides on an event that the stream it has loaded calls for.  *)
(***************************************************************************)
LEMMA DecideKeeps ==
  ASSUME LifeInv, NEW c \in Callers, NEW id \in OrderIDs, NEW e \in Events,
         Len(streams[id]) \in {0, 1},
         Len(streams[id]) = 0 <=> e.type = "OrderPlaced",
         Decide(c, id, e)
  PROVE  LifeInv'
<1>1. StreamsOK'
  BY DEF LifeInv, StreamsOK, Decide, stored
<1>2. [id |-> id, event |-> e, expected |-> Len(streams[id])] \in Decisions
  BY DEF Decisions
<1>3. DecisionsOK'
  BY <1>2 DEF LifeInv, DecisionsOK, Decide, stored
<1> QED
  BY <1>1, <1>3 DEF LifeInv

(***************************************************************************)
(* Placing an order: decided on while its stream is empty, refused         *)
(* otherwise.                                                              *)
(***************************************************************************)
LEMMA PlaceKeeps ==
  ASSUME LifeInv, NEW c \in Callers, NEW id \in OrderIDs, NEW d \in Details,
         Place(c, id, d)
  PROVE  LifeInv'
<1>1. LifeOK(streams[id])
  BY DEF LifeInv, StreamsOK
<1>2. CASE Status(streams[id]) = "new"
  <2>1. Decide(c, id, OrderPlaced(d)) /\ Len(streams[id]) = 0
    BY <1>1, <1>2, StatusIsLength DEF Place
  <2> QED
    BY <2>1, EventTypes, DecideKeeps
<1>3. CASE Status(streams[id]) # "new"
  <2>1. Answer(c, "refused")
    BY <1>3 DEF Place
  <2> QED
    BY <2>1, AnswerKeeps
<1> QED
  BY <1>2, <1>3

(***************************************************************************)
(* Every step keeps the streams and the appends on their way well-formed.  *)
(***************************************************************************)
LEMMA LifeInvStep == LifeInv /\ [Next]_vars => LifeInv'
<1> SUFFICES ASSUME LifeInv, [Next]_vars PROVE LifeInv'
  OBVIOUS
<1>1. ASSUME NEW c \in Callers, AppPlaceOrder(c) PROVE LifeInv'
  <2>1. PICK input \in Inputs :
          Rejected(c, input) \/ \E id \in OrderIDs : Accepted(c, input, id)
    BY <1>1 DEF AppPlaceOrder
  <2>2. CASE Rejected(c, input)
    BY <2>2, AnswerKeeps DEF Rejected
  <2>3. ASSUME NEW id \in OrderIDs, Accepted(c, input, id) PROVE LifeInv'
    BY <2>3, ParsedIsValid, PlaceKeeps DEF Accepted
  <2> QED
    BY <2>1, <2>2, <2>3
<1>2. ASSUME NEW c \in Callers, BusPlaceOrder(c) PROVE LifeInv'
  BY <1>2, PlaceKeeps DEF BusPlaceOrder
<1>3. ASSUME NEW c \in Callers, ShipOrder(c) PROVE LifeInv'
  <2>1. PICK id \in OrderIDs :
          IF streams[id] = <<>> THEN Answer(c, "not_found") ELSE Ship(c, id)
    BY <1>3 DEF ShipOrder
  <2>2. LifeOK(streams[id])
    BY DEF LifeInv, StreamsOK
  <2>3. CASE streams[id] # <<>> /\ Status(streams[id]) # "shipped"
    <3>1. Decide(c, id, OrderShipped) /\ Len(streams[id]) = 1
      BY <2>1, <2>2, <2>3, StatusIsLength DEF Ship
    <3> QED
      BY <3>1, EventTypes, DecideKeeps
  <2>4. CASE streams[id] = <<>> \/ Status(streams[id]) = "shipped"
    <3>1. Answer(c, "not_found") \/ Answer(c, "refused")
      BY <2>1, <2>4 DEF Ship
    <3> QED
      BY <3>1, AnswerKeeps
  <2> QED
    BY <2>3, <2>4
<1>4. ASSUME NEW c \in Callers, Fails(c) \/ GetOrder(c) \/ BadID(c) \/ BadJSON(c) PROVE LifeInv'
  BY <1>4, AnswerKeeps DEF Fails, GetOrder, BadID, BadJSON, Refuse
<1>5. ASSUME NEW c \in Callers, AppendOk(c) PROVE LifeInv'
  <2>1. pending[c] \in Decisions
    BY <1>5 DEF AppendOk, LifeInv, DecisionsOK
  <2>2. StreamsOK'
    BY <1>5, <2>1, StoreContinues DEF AppendOk, LifeInv
  <2>3. DecisionsOK'
    BY <1>5, <2>1 DEF AppendOk, Acknowledge, LifeInv, DecisionsOK
  <2> QED
    BY <2>2, <2>3 DEF LifeInv
<1>6. ASSUME NEW c \in Callers, AppendConflict(c) PROVE LifeInv'
  BY <1>6, AnswerKeeps DEF AppendConflict
<1>7. ASSUME NEW c \in Callers, AppendGivenUp(c) PROVE LifeInv'
  <2>1. StreamsOK'
    BY <1>7 DEF AppendGivenUp, GivesUp, LifeInv, StreamsOK
  <2>2. DecisionsOK'
    BY <1>7 DEF AppendGivenUp, GivesUp, LifeInv, DecisionsOK
  <2> QED
    BY <2>1, <2>2 DEF LifeInv
<1>8. ASSUME NEW c \in Callers, Publishes(c) PROVE LifeInv'
  <2>1. StreamsOK'
    BY <1>8 DEF Publishes, PublishInSave, PublishFails, stored, LifeInv, StreamsOK
  <2>2. DecisionsOK'
    BY <1>8 DEF Publishes, PublishInSave, PublishFails, Acknowledge, stored, LifeInv,
       DecisionsOK
  <2> QED
    BY <2>1, <2>2 DEF LifeInv
<1>9. CASE DecideLate
  <2>1. PICK a \in late :
          /\ late' = late \ {a}
          /\ (HeadFits(a) /\ Store(a)) \/ UNCHANGED <<streams, outbox>>
          /\ UNCHANGED <<pc, pending>>
    BY <1>9 DEF DecideLate, client
  <2>2. a \in Decisions
    BY DEF LifeInv, DecisionsOK
  <2>3. StreamsOK'
    <3>1. CASE HeadFits(a) /\ Store(a)
      BY <2>2, <3>1, StoreContinues DEF LifeInv
    <3>2. CASE UNCHANGED <<streams, outbox>>
      BY <3>2 DEF LifeInv, StreamsOK
    <3> QED
      BY <2>1, <3>1, <3>2
  <2>4. DecisionsOK'
    BY <2>1 DEF LifeInv, DecisionsOK
  <2> QED
    BY <2>3, <2>4 DEF LifeInv
<1>10. CASE Dispatch \/ Mark \/ Redeliver \/ UNCHANGED vars
  <2>1. UNCHANGED <<streams, late, pc, pending>>
    BY <1>10 DEF Dispatch, Mark, Redeliver, vars, stored, client, fixed
  <2> QED
    BY <2>1 DEF LifeInv, StreamsOK, DecisionsOK
<1> QED
  BY <1>1, <1>2, <1>3, <1>4, <1>5, <1>6, <1>7, <1>8, <1>9, <1>10 DEF Next, Publishes

(***************************************************************************)
(* The inductive invariant behind OneLife: appends on their way are        *)
(* decisions on the version they expect.                                   *)
(***************************************************************************)
THEOREM LifeInvariant == Spec => []LifeInv
  BY LifeInvInit, LifeInvStep, PTL DEF Spec

(***************************************************************************)
(* In every stream an order is placed once and shipped at most once, after *)
(* that, whatever its callers and the late appends do at the same time.    *)
(***************************************************************************)
THEOREM OrdersLiveOnce == Spec => []OneLife
<1>1. LifeInv => OneLife
  BY DEF LifeInv, StreamsOK, LifeOK, OneLife
<1> QED
  BY <1>1, LifeInvariant, PTL

-----------------------------------------------------------------------------
(* Who is told.                                                            *)

(***************************************************************************)
(* What caller c will have been told when its Save returns nil, and        *)
(* whether the stream bears it out.                                        *)
(***************************************************************************)
Told(c) == [id |-> pending[c].id, type |-> pending[c].event.type]

Position(type) == IF type = "OrderPlaced" THEN 1 ELSE 2

Happened(t) ==
  /\ t.id \in OrderIDs /\ t.type \in {"OrderPlaced", "OrderShipped"}
  /\ Len(streams[t.id]) >= Position(t.type)

(***************************************************************************)
(* Between Append and the end of Save an event belongs to one caller, and  *)
(* nobody has been told of it.                                             *)
(***************************************************************************)
PublishersApart ==
  /\ \A c \in Callers : pc[c] = "publish" => Happened(Told(c)) /\ Told(c) \notin acked
  /\ \A c, d \in Callers :
       (c # d /\ pc[c] = "publish" /\ pc[d] = "publish") => Told(c) # Told(d)

TellInv ==
  /\ LifeInv
  /\ reply \in [Callers -> Replies]
  /\ \A t \in acked : Happened(t)
  /\ PublishersApart

(***************************************************************************)
(* The event of an append that fits has not happened before, has happened  *)
(* afterwards, and undoes no other.                                        *)
(***************************************************************************)
LEMMA StoreHappens ==
  ASSUME StreamsOK, NEW a \in Decisions, HeadFits(a), Store(a)
  PROVE  /\ ~Happened([id |-> a.id, type |-> a.event.type])
         /\ Happened([id |-> a.id, type |-> a.event.type])'
         /\ \A t : Happened(t) => Happened(t)'
<1>1. /\ a.id \in OrderIDs /\ a.event \in Events
      /\ a.event.type \in {"OrderPlaced", "OrderShipped"}
      /\ a.expected = Position(a.event.type) - 1
  BY EventTypes DEF Decisions, Position
<1>2. Len(streams[a.id]) = a.expected
  BY DEF HeadFits
<1>3. /\ Len(streams'[a.id]) = Len(streams[a.id]) + 1
      /\ \A id \in OrderIDs : id # a.id => streams'[id] = streams[id]
      /\ Len(streams[a.id]) \in Nat
  <2>1. streams[a.id] \in Seq(Events) /\ a.id \in DOMAIN streams
    BY <1>1 DEF StreamsOK
  <2>2. streams' = [streams EXCEPT ![a.id] = Append(@, a.event)]
    BY DEF Store
  <2>3. streams'[a.id] = Append(streams[a.id], a.event)
    BY <2>1, <2>2
  <2>4. Len(Append(streams[a.id], a.event)) = Len(streams[a.id]) + 1
    BY <1>1, <2>1
  <2>5. \A id \in OrderIDs : id # a.id => streams'[id] = streams[id]
    BY <2>2 DEF StreamsOK
  <2> QED
    BY <2>1, <2>3, <2>4, <2>5
<1>4. \A t : Position(t.type) \in {1, 2}
  BY DEF Position
<1>5. ~Happened([id |-> a.id, type |-> a.event.type])
  BY <1>1, <1>2, <1>3, <1>4 DEF Happened
<1>6. Happened([id |-> a.id, type |-> a.event.type])'
  BY <1>1, <1>2, <1>3, <1>4 DEF Happened
<1>7. ASSUME NEW t, Happened(t) PROVE Happened(t)'
  <2>1. t.id \in OrderIDs /\ Len(streams[t.id]) >= Position(t.type)
    BY <1>7 DEF Happened
  <2>2. CASE t.id = a.id
    BY <1>3, <1>4, <1>7, <2>1, <2>2 DEF Happened
  <2>3. CASE t.id # a.id
    BY <1>3, <1>7, <2>1, <2>3 DEF Happened
  <2> QED
    BY <2>2, <2>3
<1> QED
  BY <1>5, <1>6, <1>7

(***************************************************************************)
(* Initially nobody has been told anything.                                *)
(***************************************************************************)
LEMMA TellInvInit == Init => TellInv
<1> SUFFICES ASSUME Init PROVE TellInv
  OBVIOUS
<1>1. acked = {} /\ \A c \in Callers : pc[c] = "ready"
  BY DEF Init
<1>2. reply \in [Callers -> Replies]
  BY DEF Init, Replies
<1> QED
  BY <1>1, <1>2, LifeInvInit DEF TellInv, PublishersApart

(***************************************************************************)
(* Steps after which no new caller is publishing and nobody new is told.   *)
(***************************************************************************)
LEMMA NobodyTold ==
  ASSUME TellInv, LifeInv', acked' = acked, reply' \in [Callers -> Replies],
         \A t : Happened(t) => Happened(t)',
         \A c \in Callers : pc'[c] = "publish" =>
            pc[c] = "publish" /\ pending'[c] = pending[c]
  PROVE  TellInv'
<1>1. \A c \in Callers : pc'[c] = "publish" => pc[c] = "publish" /\ Told(c)' = Told(c)
  BY DEF Told
<1>2. PublishersApart'
  BY <1>1 DEF TellInv, PublishersApart
<1> QED
  BY <1>2 DEF TellInv

(***************************************************************************)
(* What has happened stays so while no stream changes.                     *)
(***************************************************************************)
LEMMA SameStreamsHappened ==
  ASSUME streams' = streams
  PROVE  \A t : Happened(t) => Happened(t)'
  BY DEF Happened

(***************************************************************************)
(* Append stores the event of caller c, t, and Save ends or goes on.       *)
(***************************************************************************)
LEMMA AppendOkTells ==
  ASSUME TellInv, NEW c \in Callers, AppendOk(c), LifeInv'
  PROVE  TellInv' /\ Told(c) \notin acked
<1>1. pending[c] \in Decisions /\ StreamsOK
  BY DEF AppendOk, TellInv, LifeInv, DecisionsOK
<1>2. PICK t : t = [id |-> pending[c].id, type |-> pending[c].event.type]
  OBVIOUS
<1>3. ~Happened(t) /\ Happened(t)' /\ \A u : Happened(u) => Happened(u)'
  <2>1. PICK a : a = pending[c]
    OBVIOUS
  <2>2. a \in Decisions /\ HeadFits(a) /\ Store(a)
    BY <1>1, <2>1 DEF AppendOk
  <2>3. t = [id |-> a.id, type |-> a.event.type]
    BY <1>2, <2>1
  <2> QED
    BY <1>1, <2>2, <2>3, StoreHappens
<1>4. t \notin acked /\ t = Told(c)
  BY <1>2, <1>3 DEF TellInv, Told
<1>5. \A d \in Callers : (d # c /\ pc[d] = "publish") => Told(d) # t
  BY <1>3 DEF TellInv, PublishersApart
<1>6. \A d \in Callers : d # c => pc'[d] = pc[d] /\ Told(d)' = Told(d)
  BY DEF AppendOk, Acknowledge, Told, TellInv, LifeInv, DecisionsOK
<1>7. reply' \in [Callers -> Replies]
  BY DEF AppendOk, Acknowledge, TellInv, Replies
<1>8. CASE hasOutbox
  <2>1. acked' = acked \cup {t} /\ pc'[c] = "ready"
    BY <1>2, <1>8 DEF AppendOk, Acknowledge, TellInv, LifeInv, DecisionsOK
  <2>2. PublishersApart'
    BY <1>3, <1>5, <1>6, <2>1 DEF TellInv, PublishersApart
  <2> QED
    BY <1>3, <1>4, <1>7, <2>1, <2>2 DEF TellInv
<1>9. CASE ~hasOutbox
  <2>1. acked' = acked /\ Told(c)' = t
    BY <1>2, <1>9 DEF AppendOk, Told
  <2>2. PublishersApart'
    BY <1>3, <1>4, <1>5, <1>6, <2>1 DEF TellInv, PublishersApart
  <2> QED
    BY <1>3, <1>4, <1>7, <2>1, <2>2 DEF TellInv
<1> QED
  BY <1>8, <1>9

(***************************************************************************)
(* Over a store without outbox, Save returns nil after it has published.   *)
(***************************************************************************)
LEMMA PublishTells ==
  ASSUME TellInv, NEW c \in Callers, PublishInSave(c), LifeInv'
  PROVE  TellInv' /\ Told(c) \notin acked
<1>1. PICK t : t = Told(c)
  OBVIOUS
<1>2. t \notin acked /\ Happened(t)
  BY <1>1 DEF PublishInSave, TellInv, PublishersApart
<1>3. \A u : Happened(u) => Happened(u)'
  BY SameStreamsHappened DEF PublishInSave, stored
<1>4. acked' = acked \cup {t} /\ pc'[c] = "ready"
  BY <1>1 DEF PublishInSave, Acknowledge, Told, TellInv, LifeInv, DecisionsOK
<1>5. \A d \in Callers : d # c => pc'[d] = pc[d] /\ Told(d)' = Told(d)
  BY DEF PublishInSave, Acknowledge, Told, TellInv, LifeInv, DecisionsOK
<1>6. \A d \in Callers : (d # c /\ pc[d] = "publish") => Told(d) # t
  BY <1>1 DEF PublishInSave, TellInv, PublishersApart
<1>7. PublishersApart'
  BY <1>3, <1>4, <1>5, <1>6 DEF TellInv, PublishersApart
<1>8. reply' \in [Callers -> Replies]
  BY DEF PublishInSave, Acknowledge, TellInv, Replies
<1> QED
  BY <1>1, <1>2, <1>3, <1>4, <1>7, <1>8 DEF TellInv

(***************************************************************************)
(* Whoever is told "ok" in a step is told of what nobody was told before.  *)
(***************************************************************************)
TellsOne ==
  \A c \in Callers :
    (reply[c] # "ok" /\ reply'[c] = "ok") => ~Acked(pending[c].id, pending[c].event.type)

(***************************************************************************)
(* When another subscriber fails, nobody is told.                          *)
(***************************************************************************)
LEMMA PublishFailsTells ==
  ASSUME TellInv, NEW c \in Callers, PublishFails(c), LifeInv'
  PROVE  TellInv' /\ TellsOne
<1>1. \A t : Happened(t) => Happened(t)'
  BY SameStreamsHappened DEF PublishFails, stored
<1>2. /\ reply' = [reply EXCEPT ![c] = "failed"] /\ acked' = acked
      /\ \A d \in Callers : pc'[d] = "publish" => pc[d] = "publish" /\ pending'[d] = pending[d]
  BY DEF PublishFails, TellInv, LifeInv, DecisionsOK
<1>3. reply' \in [Callers -> Replies] /\ \A d \in Callers : reply'[d] = "ok" => reply[d] = "ok"
  BY <1>2 DEF TellInv, Replies
<1> QED
  BY <1>1, <1>2, <1>3, NobodyTold DEF TellsOne

(***************************************************************************)
(* A request that ends with something else than ok, or that goes on.       *)
(***************************************************************************)
OtherStep(c) ==
  \/ \E r \in Replies \ {"none", "ok"} : Answer(c, r)
  \/ \E id \in OrderIDs, e \in Events : Decide(c, id, e)
  \/ AppendGivenUp(c)

(***************************************************************************)
(* These are the other steps of callers.                                   *)
(***************************************************************************)
LEMMA OtherSteps ==
  ASSUME LifeInv, NEW c \in Callers,
         \/ AppPlaceOrder(c) \/ BusPlaceOrder(c) \/ ShipOrder(c)
         \/ GetOrder(c) \/ BadID(c) \/ BadJSON(c)
         \/ Fails(c) \/ AppendConflict(c) \/ AppendGivenUp(c)
  PROVE  OtherStep(c)
<1>1. \A id \in OrderIDs, d \in Details : Place(c, id, d) => OtherStep(c)
  BY EventTypes DEF Place, OtherStep, Replies
<1>2. CASE AppPlaceOrder(c)
  <2>1. PICK input \in Inputs :
          Rejected(c, input) \/ \E id \in OrderIDs : Accepted(c, input, id)
    BY <1>2 DEF AppPlaceOrder
  <2>2. CASE Rejected(c, input)
    BY <2>2 DEF Rejected, OtherStep, Replies
  <2>3. ASSUME NEW id \in OrderIDs, Accepted(c, input, id) PROVE OtherStep(c)
    BY <1>1, <2>3, ParsedIsValid DEF Accepted
  <2> QED
    BY <2>1, <2>2, <2>3
<1>3. CASE BusPlaceOrder(c)
  BY <1>1, <1>3 DEF BusPlaceOrder
<1>4. CASE ShipOrder(c)
  <2>1. PICK id \in OrderIDs :
          IF streams[id] = <<>> THEN Answer(c, "not_found") ELSE Ship(c, id)
    BY <1>4 DEF ShipOrder
  <2>2. Answer(c, "not_found") \/ Answer(c, "refused") \/ Decide(c, id, OrderShipped)
    BY <2>1 DEF Ship
  <2> QED
    BY <2>2, EventTypes DEF OtherStep, Replies
<1>5. CASE \/ GetOrder(c) \/ BadID(c) \/ BadJSON(c)
           \/ Fails(c) \/ AppendConflict(c) \/ AppendGivenUp(c)
  BY <1>5 DEF GetOrder, Shown, BadID, BadJSON, Refuse, Fails, AppendConflict, OtherStep, Replies
<1> QED
  BY <1>2, <1>3, <1>4, <1>5

(***************************************************************************)
(* They tell nobody that an event is stored.                               *)
(***************************************************************************)
LEMMA OtherStepTells ==
  ASSUME TellInv, NEW c \in Callers, OtherStep(c), LifeInv'
  PROVE  TellInv' /\ \A d \in Callers : reply'[d] = "ok" => reply[d] = "ok"
<1>1. /\ acked' = acked /\ streams' = streams
      /\ \E p \in {"ready", "append"} : pc' = [pc EXCEPT ![c] = p]
      /\ \E a : pending' = [pending EXCEPT ![c] = a]
      /\ \E r \in Replies \ {"ok"} : reply' = [reply EXCEPT ![c] = r]
  BY DEF Replies, OtherStep, Answer, Decide, AppendGivenUp, GivesUp, stored
<1>2. \A d \in Callers : pc'[d] = "publish" => pc[d] = "publish" /\ pending'[d] = pending[d]
  BY <1>1 DEF TellInv, LifeInv, DecisionsOK
<1>3. \A d \in Callers : reply'[d] = "ok" => reply[d] = "ok"
  BY <1>1 DEF TellInv
<1>4. reply' \in [Callers -> Replies]
  BY <1>1 DEF TellInv, Replies
<1> QED
  BY <1>1, <1>2, <1>3, <1>4, NobodyTold, SameStreamsHappened

(***************************************************************************)
(* Every step keeps the invariant, and whoever is told is the first.       *)
(***************************************************************************)
LEMMA TellInvStep == TellInv /\ [Next]_vars => TellInv' /\ TellsOne
<1> SUFFICES ASSUME TellInv, [Next]_vars PROVE TellInv' /\ TellsOne
  OBVIOUS
<1>1. LifeInv'
  BY LifeInvStep DEF TellInv
<1>2. ASSUME NEW c \in Callers, OtherStep(c) PROVE TellInv' /\ TellsOne
  BY <1>1, <1>2, OtherStepTells DEF TellsOne
<1>3. ASSUME NEW c \in Callers, AppendOk(c) \/ PublishInSave(c) PROVE TellInv' /\ TellsOne
  <2>1. TellInv' /\ Told(c) \notin acked
    BY <1>1, <1>3, AppendOkTells, PublishTells
  <2>2. \A d \in Callers : d # c => reply'[d] = reply[d]
    BY <1>3 DEF AppendOk, PublishInSave, Acknowledge, TellInv
  <2> QED
    BY <2>1, <2>2 DEF TellsOne, Told, Acked
<1>4. CASE DecideLate
  <2>1. PICK a \in late :
          /\ (HeadFits(a) /\ Store(a)) \/ UNCHANGED <<streams, outbox>>
          /\ UNCHANGED <<pc, pending, reply, acked>>
    BY <1>4 DEF DecideLate, client
  <2>2. a \in Decisions /\ StreamsOK
    BY DEF TellInv, LifeInv, DecisionsOK
  <2>3. \A t : Happened(t) => Happened(t)'
    <3>1. CASE HeadFits(a) /\ Store(a)
      BY <2>2, <3>1, StoreHappens
    <3>2. CASE UNCHANGED <<streams, outbox>>
      BY <3>2, SameStreamsHappened
    <3> QED
      BY <2>1, <3>1, <3>2
  <2>4. reply' \in [Callers -> Replies]
    BY <2>1 DEF TellInv
  <2> QED
    BY <1>1, <2>1, <2>3, <2>4, NobodyTold DEF TellsOne
<1>5. CASE Dispatch \/ Mark \/ Redeliver \/ UNCHANGED vars
  <2>1. UNCHANGED <<streams, pc, pending, reply, acked>>
    BY <1>5 DEF Dispatch, Mark, Redeliver, vars, stored, client, fixed
  <2>2. reply' \in [Callers -> Replies]
    BY <2>1 DEF TellInv
  <2> QED
    BY <1>1, <2>1, <2>2, NobodyTold, SameStreamsHappened DEF TellsOne
<1>6. ASSUME NEW c \in Callers,
             \/ AppPlaceOrder(c) \/ BusPlaceOrder(c) \/ ShipOrder(c)
             \/ GetOrder(c) \/ BadID(c) \/ BadJSON(c)
             \/ Fails(c) \/ AppendConflict(c) \/ AppendGivenUp(c)
      PROVE  TellInv' /\ TellsOne
  BY <1>2, <1>6, OtherSteps DEF TellInv
<1>7. ASSUME NEW c \in Callers, PublishFails(c) PROVE TellInv' /\ TellsOne
  BY <1>1, <1>7, PublishFailsTells
<1> QED
  BY <1>3, <1>4, <1>5, <1>6, <1>7 DEF Next

(***************************************************************************)
(* Of the callers that place or ship an order, at the same time or one     *)
(* after the other, one at most is told that it did.                       *)
(***************************************************************************)
THEOREM OnlyOneIsTold == Spec => OneIsTold
<1>1. TellInv /\ [Next]_vars => [TellsOne]_vars
  BY TellInvStep
<1>2. [TellsOne]_vars <=>
      [\A c \in Callers :
         (reply[c] # "ok" /\ reply'[c] = "ok") =>
            ~Acked(pending[c].id, pending[c].event.type)]_vars
  BY DEF TellsOne
<1> QED
  BY TellInvInit, TellInvStep, <1>1, <1>2, PTL DEF Spec, OneIsTold

-----------------------------------------------------------------------------
(* The types, and what every step does to them.                            *)

Records == [details : Details \cup {ZeroDetails}, shipped : BOOLEAN]

(***************************************************************************)
(* The types of the outbox and of the projection.  Callers publish, and    *)
(* appends land late, with one kind of store each.                         *)
(***************************************************************************)
Typed ==
  /\ viaApp \in BOOLEAN /\ hasOutbox \in BOOLEAN /\ others \in BOOLEAN
  /\ outbox \in Seq([id : OrderIDs, event : Events])
  /\ marked \in Nat /\ handed \in Nat /\ marked <= handed /\ handed <= Len(outbox)
  /\ redeliveries \in 0..MaxRedeliveries
  /\ summary \in [OrderIDs -> Records \cup {NoSummary}]
  /\ asked \in [OrderIDs -> Inputs \cup {NotAsked}]
  /\ \A c \in Callers : pc[c] = "ready" => pending[c] = NoAppend
  /\ hasOutbox => \A c \in Callers : pc[c] # "publish"
  /\ ~hasOutbox => outbox = <<>> /\ late = {} /\ redeliveries = 0

(***************************************************************************)
(* The service stands behind an event of order id: it issued the id, the   *)
(* details are what was asked for, and (over a store without outbox) it    *)
(* lets nobody ship an order before it has answered for it.                *)
(***************************************************************************)
SoundAt(id, e) ==
  viaApp =>
    /\ asked[id] # NotAsked
    /\ e.type = "OrderPlaced" => BadFields(asked[id]) = {} /\ e.details = Parsed(asked[id])
    /\ e.type = "OrderShipped" /\ ~hasOutbox => [id |-> id, type |-> "OrderPlaced"] \in acked

Grounded ==
  /\ \A c \in Callers : pc[c] # "ready" => SoundAt(pending[c].id, pending[c].event)
  /\ \A a \in late : SoundAt(a.id, a.event)
  /\ \A id \in OrderIDs : \A i \in 1..Len(streams[id]) : SoundAt(id, streams[id][i])

(***************************************************************************)
(* Ids keep their inputs, and what has been said stays said.               *)
(***************************************************************************)
Kept ==
  /\ UNCHANGED <<viaApp, hasOutbox, others>>
  /\ acked \subseteq acked'
  /\ \A id \in OrderIDs : asked[id] # NotAsked => asked'[id] = asked[id]

(***************************************************************************)
(* Once the service stands behind an event, it goes on doing so.           *)
(***************************************************************************)
LEMMA SoundStays ==
  ASSUME Kept, NEW id \in OrderIDs, NEW e, SoundAt(id, e)
  PROVE  SoundAt(id, e)'
BY DEF Kept, SoundAt

(***************************************************************************)
(* A request that does not get through to the store, or not yet.           *)
(***************************************************************************)
RequestStep(c) ==
  /\ pc[c] # "publish"
  /\ UNCHANGED <<fixed, dispatcher, streams, outbox, summary, acked>>
  /\ Kept /\ asked' \in [OrderIDs -> Inputs \cup {NotAsked}]
  /\ \/ /\ pc' = [pc EXCEPT ![c] = "ready"]
        /\ pending' = [pending EXCEPT ![c] = NoAppend]
     \/ \E a \in Decisions :
          /\ SoundAt(a.id, a.event)'
          /\ pc' = [pc EXCEPT ![c] = "append"]
          /\ pending' = [pending EXCEPT ![c] = a]
  /\ \/ late' = late
     \/ hasOutbox /\ pc[c] = "append" /\ late' = late \cup {pending[c]}

(***************************************************************************)
(* Answering a request stores nothing and gives up nothing.                *)
(***************************************************************************)
LEMMA AnswerIsRequest ==
  ASSUME LifeInv, Typed, NEW c \in Callers, NEW r, Answer(c, r),
         pc[c] # "publish", UNCHANGED <<fixed, dispatcher, asked>>
  PROVE  RequestStep(c)
BY DEF Answer, RequestStep, Kept, Typed, fixed, dispatcher, stored

(***************************************************************************)
(* A decision the service stands behind is a request on its way to the     *)
(* store.                                                                  *)
(***************************************************************************)
LEMMA DecideIsRequest ==
  ASSUME LifeInv, NEW c \in Callers, NEW id \in OrderIDs, NEW e \in Events, Decide(c, id, e),
         Len(streams[id]) \in {0, 1},
         Len(streams[id]) = 0 <=> e.type = "OrderPlaced",
         pc[c] # "publish", UNCHANGED <<fixed, dispatcher>>,
         Kept, asked' \in [OrderIDs -> Inputs \cup {NotAsked}], SoundAt(id, e)'
  PROVE  RequestStep(c)
<1> DEFINE a == [id |-> id, event |-> e, expected |-> Len(streams[id])]
<1>1. a \in Decisions /\ a.id = id /\ a.event = e
  BY DEF Decisions
<1>2. /\ pc' = [pc EXCEPT ![c] = "append"]
      /\ pending' = [pending EXCEPT ![c] = a]
      /\ UNCHANGED <<streams, outbox, late, summary, acked>>
  BY DEF Decide, stored
<1> HIDE DEF a
<1> QED
  BY <1>1, <1>2 DEF RequestStep

(***************************************************************************)
(* So is one to place an order, if it is not refused.                      *)
(***************************************************************************)
LEMMA PlaceIsRequest ==
  ASSUME LifeInv, Typed, NEW c \in Callers, NEW id \in OrderIDs, NEW d \in Details,
         Place(c, id, d), pc[c] # "publish", UNCHANGED <<fixed, dispatcher>>,
         Kept, asked' \in [OrderIDs -> Inputs \cup {NotAsked}], SoundAt(id, OrderPlaced(d))'
  PROVE  RequestStep(c)
<1>1. LifeOK(streams[id])
  BY DEF LifeInv, StreamsOK
<1>2. CASE Status(streams[id]) = "new"
  <2>1. Decide(c, id, OrderPlaced(d)) /\ Len(streams[id]) = 0
    BY <1>1, <1>2, StatusIsLength DEF Place
  <2> QED
    BY <2>1, EventTypes, DecideIsRequest
<1>3. CASE Status(streams[id]) # "new"
  BY <1>3 DEF Place, Answer, RequestStep, Kept, Typed, fixed, dispatcher, stored
<1> QED
  BY <1>2, <1>3

(***************************************************************************)
(* These are all steps of callers but AppendOk and Publishes.              *)
(***************************************************************************)
LEMMA RequestSteps ==
  ASSUME LifeInv, Typed, Grounded, NEW c \in Callers,
         \/ AppPlaceOrder(c) \/ BusPlaceOrder(c) \/ ShipOrder(c)
         \/ GetOrder(c) \/ BadID(c) \/ BadJSON(c)
         \/ Fails(c) \/ AppendConflict(c) \/ AppendGivenUp(c)
  PROVE  RequestStep(c)
<1>1. CASE AppPlaceOrder(c)
  <2>1. PICK input \in Inputs :
          Rejected(c, input) \/ \E id \in OrderIDs : Accepted(c, input, id)
    BY <1>1 DEF AppPlaceOrder
  <2>2. pc[c] # "publish" /\ UNCHANGED <<fixed, dispatcher>>
    BY <1>1 DEF AppPlaceOrder
  <2>3. CASE Rejected(c, input)
    BY <2>2, <2>3, AnswerIsRequest DEF Rejected
  <2>4. ASSUME NEW id \in OrderIDs, Accepted(c, input, id) PROVE RequestStep(c)
    <3>1. /\ BadFields(input) = {} /\ asked[id] = NotAsked
          /\ asked' = [asked EXCEPT ![id] = input]
          /\ Place(c, id, Parsed(input))
      BY <2>4 DEF Accepted
    <3>2. asked' \in [OrderIDs -> Inputs \cup {NotAsked}] /\ asked'[id] = input
      BY <3>1 DEF Typed
    <3>3. input # NotAsked
      BY DEF Inputs, NotAsked
    <3>4. acked' = acked
      BY <3>1 DEF Place, Decide, Answer
    <3>5. Kept
      BY <2>2, <3>1, <3>4 DEF Kept, Typed, fixed
    <3>6. SoundAt(id, OrderPlaced(Parsed(input)))'
      BY <3>1, <3>2, <3>3 DEF SoundAt, OrderPlaced
    <3> QED
      BY <2>2, <3>1, <3>2, <3>5, <3>6, ParsedIsValid, PlaceIsRequest
  <2> QED
    BY <2>1, <2>3, <2>4
<1>2. CASE BusPlaceOrder(c)
  <2>1. /\ pc[c] # "publish" /\ ~viaApp /\ UNCHANGED <<fixed, dispatcher, asked>>
        /\ \E id \in OrderIDs, details \in Details : Place(c, id, details)
    BY <1>2 DEF BusPlaceOrder
  <2>2. PICK id \in OrderIDs, details \in Details : Place(c, id, details)
    BY <2>1
  <2>3. acked' = acked
    BY <2>2 DEF Place, Decide, Answer
  <2>4. /\ Kept /\ SoundAt(id, OrderPlaced(details))'
        /\ asked' \in [OrderIDs -> Inputs \cup {NotAsked}]
    BY <2>1, <2>3 DEF Kept, SoundAt, fixed, Typed
  <2> QED
    BY <2>1, <2>2, <2>4, PlaceIsRequest
<1>3. CASE ShipOrder(c)
  <2>1. pc[c] # "publish" /\ UNCHANGED <<fixed, dispatcher, asked>>
    BY <1>3 DEF ShipOrder
  <2>2. PICK id \in OrderIDs :
          Nameable(id) /\ IF streams[id] = <<>> THEN Answer(c, "not_found") ELSE Ship(c, id)
    BY <1>3 DEF ShipOrder
  <2>3. LifeOK(streams[id])
    BY DEF LifeInv, StreamsOK
  <2>4. CASE streams[id] # <<>> /\ Status(streams[id]) # "shipped"
    <3>1. Decide(c, id, OrderShipped) /\ Len(streams[id]) = 1
      BY <2>2, <2>3, <2>4, StatusIsLength DEF Ship
    <3>2. acked' = acked
      BY <3>1 DEF Decide
    <3>3. viaApp => asked[id] # NotAsked
      <4>1. 1 \in 1..Len(streams[id])
        BY <3>1
      <4> QED
        BY <4>1 DEF Grounded, SoundAt
    <3>4. Kept /\ asked' \in [OrderIDs -> Inputs \cup {NotAsked}]
      BY <2>1, <3>2 DEF Kept, fixed, Typed
    <3>5. SoundAt(id, OrderShipped)'
      BY <2>1, <2>2, <3>2, <3>3 DEF SoundAt, OrderShipped, Nameable, fixed
    <3> QED
      BY <2>1, <3>1, <3>4, <3>5, EventTypes, DecideIsRequest
  <2>5. CASE streams[id] = <<>> \/ Status(streams[id]) = "shipped"
    <3>1. Answer(c, "not_found") \/ Answer(c, "refused")
      BY <2>2, <2>5 DEF Ship
    <3> QED
      BY <2>1, <3>1, AnswerIsRequest
  <2> QED
    BY <2>4, <2>5
<1>4. CASE GetOrder(c) \/ BadID(c) \/ BadJSON(c) \/ Fails(c) \/ AppendConflict(c)
  BY <1>4, AnswerIsRequest DEF GetOrder, BadID, BadJSON, Refuse, Fails, AppendConflict
<1>5. CASE AppendGivenUp(c)
  BY <1>5 DEF AppendGivenUp, GivesUp, RequestStep, Kept, Typed, fixed, dispatcher
<1> QED
  BY <1>1, <1>2, <1>3, <1>4, <1>5

(***************************************************************************)
(* An append that fits adds its event to its stream, and to the outbox.    *)
(***************************************************************************)
LEMMA StoreAdds ==
  ASSUME StreamsOK, NEW a \in Decisions, HeadFits(a), Store(a)
  PROVE  /\ a.id \in OrderIDs /\ a.event \in Events
         /\ a.expected \in {0, 1} /\ (a.expected = 0 <=> a.event.type = "OrderPlaced")
         /\ Len(streams[a.id]) = a.expected
         /\ Len(streams'[a.id]) = a.expected + 1
         /\ streams'[a.id][a.expected + 1] = a.event
         /\ \A i \in 1..a.expected : streams'[a.id][i] = streams[a.id][i]
         /\ \A id \in OrderIDs : id # a.id => streams'[id] = streams[id]
<1>1. a.id \in OrderIDs /\ a.event \in Events /\ a.expected \in {0, 1}
      /\ (a.expected = 0 <=> a.event.type = "OrderPlaced")
  BY DEF Decisions
<1>2. streams[a.id] \in Seq(Events) /\ Len(streams[a.id]) = a.expected
  BY <1>1 DEF StreamsOK, HeadFits
<1>3. /\ streams'[a.id] = Append(streams[a.id], a.event)
      /\ \A id \in OrderIDs : id # a.id => streams'[id] = streams[id]
  BY <1>1 DEF Store, StreamsOK
<1>4. /\ Len(Append(streams[a.id], a.event)) = a.expected + 1
      /\ Append(streams[a.id], a.event)[a.expected + 1] = a.event
      /\ \A i \in 1..a.expected : Append(streams[a.id], a.event)[i] = streams[a.id][i]
  BY <1>1, <1>2
<1> QED
  BY <1>1, <1>2, <1>3, <1>4

(***************************************************************************)
(* An outbox entry has the id of an order and an event.                    *)
(***************************************************************************)
LEMMA OutboxEntries ==
  ASSUME Typed, NEW k \in 1..Len(outbox)
  PROVE  outbox[k].id \in OrderIDs /\ outbox[k].event \in Events
<1> DEFINE E == [id : OrderIDs, event : Events]
<1>1. \A x \in E : x.id \in OrderIDs /\ x.event \in Events
  OBVIOUS
<1>2. outbox \in Seq(E)
  BY DEF Typed
<1> HIDE DEF E
<1>3. outbox[k] \in E
  BY <1>2
<1> QED
  BY <1>1, <1>3

(***************************************************************************)
(* Storing an event adds one entry to the outbox of a store that has one,  *)
(* and leaves the other entries where they are.                            *)
(***************************************************************************)
LEMMA OutboxAdds ==
  ASSUME Typed, NEW a \in Decisions, Store(a), UNCHANGED hasOutbox
  PROVE  /\ outbox' \in Seq([id : OrderIDs, event : Events])
         /\ ~hasOutbox => outbox' = outbox
         /\ hasOutbox => /\ Len(outbox') = Len(outbox) + 1
                         /\ outbox'[Len(outbox) + 1] = [id |-> a.id, event |-> a.event]
         /\ Len(outbox) \in Nat /\ Len(outbox') \in Nat /\ Len(outbox) <= Len(outbox')
         /\ \A k \in 1..Len(outbox) : outbox'[k] = outbox[k]
<1> DEFINE e == [id |-> a.id, event |-> a.event]
           E == [id : OrderIDs, event : Events]
<1>1. e \in E
  BY DEF Decisions
<1>2. outbox' = IF hasOutbox THEN Append(outbox, e) ELSE outbox
  BY DEF Store
<1>3. outbox \in Seq(E) /\ hasOutbox \in BOOLEAN
  BY DEF Typed
<1> HIDE DEF e, E
<1>4. /\ Append(outbox, e) \in Seq(E)
      /\ Len(Append(outbox, e)) = Len(outbox) + 1
      /\ Append(outbox, e)[Len(outbox) + 1] = e
      /\ Len(outbox) \in Nat
      /\ \A k \in 1..Len(outbox) : Append(outbox, e)[k] = outbox[k]
  BY <1>1, <1>3
<1>5. CASE hasOutbox
  <2>1. outbox' = Append(outbox, e)
    BY <1>2, <1>5
  <2>2. Len(outbox) \in Nat /\ Len(outbox') = Len(outbox) + 1 /\ Len(outbox) <= Len(outbox')
    BY <1>4, <2>1
  <2> QED
    BY <1>4, <1>5, <2>1, <2>2 DEF e, E
<1>6. CASE ~hasOutbox
  BY <1>2, <1>3, <1>4, <1>6 DEF E
<1> QED
  BY <1>5, <1>6

(***************************************************************************)
(* Over JSON a note stays what it was.                                     *)
(***************************************************************************)
LEMMA NotesSurvive ==
  ASSUME NEW e \in Events
  PROVE  Unmarshalled(e) = e
<1>1. OverJSON(None) = None
  BY DEF OverJSON, MarshalJSON, UnmarshalJSON, None, null
<1>2. OverJSON(Some("ring")) = Some("ring")
  <2>1. noteJSON["ring"] = <<"string", "ring">>
    BY DEF noteJSON
  <2>2. noteJSON["ring"] \in DOMAIN jsonNote /\ jsonNote[noteJSON["ring"]] = "ring"
    BY <2>1 DEF jsonNote, noteJSON
  <2>3. noteJSON["ring"] # null
    <3>1. Len(<<"string", "ring">>) = 2 /\ Len(<<"null">>) = 1
      OBVIOUS
    <3> QED
      BY <2>1, <3>1 DEF null
  <2>4. MarshalJSON(Some("ring"), noteJSON) = noteJSON["ring"]
    BY DEF MarshalJSON, Some
  <2> QED
    BY <2>2, <2>3, <2>4 DEF OverJSON, UnmarshalJSON
<1>3. CASE e = OrderShipped
  BY <1>3 DEF Unmarshalled, OrderShipped
<1>4. ASSUME NEW d \in Details, e = OrderPlaced(d) PROVE Unmarshalled(e) = e
  <2>1. OverJSON(d.notes) = d.notes
    BY <1>1, <1>2 DEF Details, MaybeOf
  <2>2. [d EXCEPT !.notes = OverJSON(@)] = d
    BY <2>1 DEF Details
  <2> QED
    BY <1>4, <2>2 DEF Unmarshalled, OrderPlaced
<1> QED
  BY <1>3, <1>4 DEF Events

(***************************************************************************)
(* What an event does to the projection.                                   *)
(***************************************************************************)
LEMMA PublishShows ==
  ASSUME Typed, NEW id \in OrderIDs, NEW e \in Events, Publish(id, e)
  PROVE  /\ summary' \in [OrderIDs -> Records \cup {NoSummary}]
         /\ \A o \in OrderIDs : o # id => summary'[o] = summary[o]
         /\ summary'[id] # NoSummary
         /\ summary'[id].shipped = (e.type = "OrderShipped")
         /\ e.type = "OrderPlaced" => summary'[id].details = e.details
         /\ e.type = "OrderShipped" /\ Found(id) => summary'[id].details = summary[id].details
<1>1. \A r \in Records : r # NoSummary
  <2>1. \A r \in Records : DOMAIN r = {"details", "shipped"}
    BY DEF Records
  <2>2. DOMAIN NoSummary = {"record"}
    BY DEF NoSummary
  <2> QED
    BY <2>1, <2>2
<1>2. CASE e.type = "OrderPlaced"
  <2>1. e.details \in Details
    BY <1>2 DEF Events, OrderPlaced, OrderShipped
  <2> DEFINE r == [details |-> e.details, shipped |-> FALSE]
  <2>2. r \in Records /\ r.shipped = FALSE /\ r.details = e.details
    BY <2>1 DEF Records
  <2>3. summary' = [summary EXCEPT ![id] = r]
    BY <1>2 DEF Publish, OnOrderPlaced
  <2> HIDE DEF r
  <2> QED
    BY <1>1, <1>2, <2>2, <2>3 DEF Typed
<1>3. CASE e.type = "OrderShipped"
  <2> DEFINE d == IF summary[id] = NoSummary THEN ZeroDetails ELSE summary[id].details
             r == [details |-> d, shipped |-> TRUE]
  <2>1. d \in Details \cup {ZeroDetails}
    BY DEF Typed, Records
  <2>2. r \in Records /\ r.shipped = TRUE /\ r.details = d
    BY <2>1 DEF Records
  <2>3. summary' = [summary EXCEPT ![id] = r]
    BY <1>3 DEF Publish, OnOrderShipped, Typed
  <2>4. Found(id) => d = summary[id].details
    BY DEF Found
  <2> HIDE DEF r, d
  <2> QED
    BY <1>1, <1>3, <2>2, <2>3, <2>4 DEF Typed
<1> QED
  BY <1>2, <1>3, EventTypes

-----------------------------------------------------------------------------
(* The types are kept.                                                     *)

(***************************************************************************)
(* What a caller stores or publishes.                                      *)
(***************************************************************************)
LEMMA AppendOkTyped ==
  ASSUME LifeInv, Typed, NEW c \in Callers, AppendOk(c)
  PROVE  Typed' /\ Kept
<1>1. /\ pending[c] \in Decisions /\ HeadFits(pending[c]) /\ Store(pending[c])
      /\ UNCHANGED <<fixed, dispatcher, late, summary, asked>>
      /\ pc \in [Callers -> {"ready", "append", "publish"}]
      /\ pending \in [Callers -> Decisions \cup {NoAppend}]
  BY DEF AppendOk, LifeInv, DecisionsOK
<1>2. /\ outbox' \in Seq([id : OrderIDs, event : Events])
      /\ ~hasOutbox => outbox' = outbox
      /\ Len(outbox) \in Nat /\ Len(outbox') \in Nat /\ Len(outbox) <= Len(outbox')
  <2>1. PICK a : a = pending[c]
    OBVIOUS
  <2> QED
    BY <1>1, <2>1, OutboxAdds DEF fixed
<1>3. \A d \in Callers : /\ pc'[d] = "ready" => pending'[d] = NoAppend
                         /\ hasOutbox => pc'[d] # "publish"
  BY <1>1 DEF AppendOk, Acknowledge, Typed
<1>4. acked \subseteq acked'
  BY DEF AppendOk, Acknowledge
<1> QED
  BY <1>1, <1>2, <1>3, <1>4 DEF Typed, Kept, fixed, dispatcher

(***************************************************************************)
(* Publishing in Save keeps the types.                                     *)
(***************************************************************************)
LEMMA PublishingTyped ==
  ASSUME LifeInv, Typed, NEW c \in Callers, Publishes(c)
  PROVE  Typed' /\ Kept
<1>1. /\ pending[c] \in Decisions /\ Publish(pending[c].id, pending[c].event)
      /\ UNCHANGED <<fixed, dispatcher, stored, asked>>
      /\ pc \in [Callers -> {"ready", "append", "publish"}]
      /\ pending \in [Callers -> Decisions \cup {NoAppend}]
  BY DEF Publishes, PublishInSave, PublishFails, LifeInv, DecisionsOK
<1>2. summary' \in [OrderIDs -> Records \cup {NoSummary}]
  BY <1>1, PublishShows DEF Decisions
<1>3. \A d \in Callers : /\ pc'[d] = "ready" => pending'[d] = NoAppend
                         /\ hasOutbox => pc'[d] # "publish"
  BY <1>1 DEF Publishes, PublishInSave, PublishFails, Acknowledge, Typed
<1>4. acked \subseteq acked'
  BY DEF Publishes, PublishInSave, PublishFails, Acknowledge
<1> QED
  BY <1>1, <1>2, <1>3, <1>4 DEF Typed, Kept, fixed, dispatcher, stored

(***************************************************************************)
(* So does an append that lands late, or never.                            *)
(***************************************************************************)
LEMMA DecideLateTyped ==
  ASSUME LifeInv, Typed, DecideLate
  PROVE  Typed' /\ Kept
<1>1. PICK a \in late :
        /\ late' = late \ {a}
        /\ (HeadFits(a) /\ Store(a)) \/ UNCHANGED <<streams, outbox>>
        /\ UNCHANGED <<fixed, dispatcher, client, summary, asked, acked>>
  BY DEF DecideLate
<1>2. a \in Decisions
  BY DEF LifeInv, DecisionsOK
<1>3. /\ outbox' \in Seq([id : OrderIDs, event : Events])
      /\ ~hasOutbox => outbox' = outbox
      /\ Len(outbox) \in Nat /\ Len(outbox') \in Nat /\ Len(outbox) <= Len(outbox')
  <2>1. CASE Store(a)
    BY <1>1, <1>2, <2>1, OutboxAdds DEF fixed
  <2>2. CASE UNCHANGED outbox
    BY <2>2 DEF Typed
  <2> QED
    BY <1>1, <2>1, <2>2
<1>4. hasOutbox
  BY DEF Typed
<1>5. /\ viaApp' = viaApp /\ hasOutbox' = hasOutbox /\ others' = others
      /\ summary' = summary /\ asked' = asked
      /\ acked' = acked /\ pc' = pc /\ pending' = pending
      /\ marked' = marked /\ handed' = handed /\ redeliveries' = redeliveries
  BY <1>1 DEF fixed, dispatcher, client
<1>6. Kept
  BY <1>5 DEF Kept
<1>7. marked' <= handed' /\ handed' <= Len(outbox')
  BY <1>3, <1>5 DEF Typed
<1>8. hasOutbox => \A c \in Callers : pc[c] # "publish"
  BY DEF Typed
<1>9. \A c \in Callers : pc[c] = "ready" => pending[c] = NoAppend
  BY DEF Typed
<1>10. /\ viaApp \in BOOLEAN /\ hasOutbox \in BOOLEAN /\ others \in BOOLEAN
       /\ marked \in Nat /\ handed \in Nat /\ redeliveries \in 0..MaxRedeliveries
       /\ summary \in [OrderIDs -> Records \cup {NoSummary}]
       /\ asked \in [OrderIDs -> Inputs \cup {NotAsked}]
  BY DEF Typed
<1> QED
  BY <1>3, <1>4, <1>5, <1>6, <1>7, <1>8, <1>9, <1>10 DEF Typed

(***************************************************************************)
(* So does handing an outbox entry over, for the record it writes is one.  *)
(***************************************************************************)
LEMMA DispatchTyped ==
  ASSUME Typed, Dispatch \/ Mark \/ Redeliver \/ UNCHANGED vars
  PROVE  Typed' /\ Kept
<1>1. CASE Dispatch
  <2>1. Len(outbox) \in Nat /\ handed + 1 \in 1..Len(outbox)
    BY <1>1 DEF Dispatch, Typed
  <2>2. outbox[handed + 1].id \in OrderIDs /\ outbox[handed + 1].event \in Events
    BY <2>1, OutboxEntries
  <2>3. PICK id \in OrderIDs, e \in Events : Publish(id, e)
    BY <1>1, <2>2, NotesSurvive DEF Dispatch
  <2>4. summary' \in [OrderIDs -> Records \cup {NoSummary}]
    BY <2>3, PublishShows
  <2> QED
    BY <1>1, <2>1, <2>4 DEF Dispatch, Typed, Kept, fixed, stored, client
<1>2. CASE Mark \/ Redeliver \/ UNCHANGED vars
  <2>1. outbox' = outbox /\ summary' = summary /\ marked' <= handed' /\ handed' <= handed
        /\ marked' \in Nat /\ handed' \in Nat /\ redeliveries' \in 0..MaxRedeliveries
    BY <1>2, OrdersAssumption DEF Mark, Redeliver, vars, Typed, stored, dispatcher
  <2>2. Len(outbox) \in Nat
    BY DEF Typed
  <2>3. ~hasOutbox => redeliveries' = 0
    <3>1. ASSUME ~hasOutbox, Redeliver PROVE FALSE
      BY <3>1 DEF Redeliver, Typed
    <3> QED
      BY <1>2, <3>1 DEF Mark, vars, Typed, dispatcher
  <2> QED
    BY <1>2, <2>1, <2>2, <2>3 DEF Mark, Redeliver, vars, Typed, Kept, fixed, stored, client
<1> QED
  BY <1>1, <1>2

(***************************************************************************)
(* So does a request that does not get through to the store.               *)
(***************************************************************************)
LEMMA RequestTyped ==
  ASSUME LifeInv, Typed, NEW c \in Callers, RequestStep(c)
  PROVE  Typed' /\ Kept
<1>1. /\ pc \in [Callers -> {"ready", "append", "publish"}]
      /\ pending \in [Callers -> Decisions \cup {NoAppend}]
  BY DEF LifeInv, DecisionsOK
<1>2. \A d \in Callers : /\ pc'[d] = "ready" => pending'[d] = NoAppend
                         /\ hasOutbox => pc'[d] # "publish"
  BY <1>1 DEF RequestStep, Typed
<1> QED
  BY <1>2 DEF RequestStep, Typed, Kept, fixed, dispatcher

(***************************************************************************)
(* Every step is one of these.                                             *)
(***************************************************************************)
LEMMA StepKinds ==
  ASSUME LifeInv, Typed, Grounded, [Next]_vars
  PROVE  \/ \E c \in Callers : RequestStep(c) \/ AppendOk(c) \/ Publishes(c)
         \/ DecideLate \/ Dispatch \/ Mark \/ Redeliver \/ UNCHANGED vars
BY RequestSteps DEF Next, Publishes

(***************************************************************************)
(* Every step keeps the types, what the service asked for and what callers *)
(* have been told.                                                         *)
(***************************************************************************)
LEMMA StepsTyped ==
  ASSUME LifeInv, Typed, Grounded, [Next]_vars
  PROVE  Typed' /\ Kept
BY StepKinds, RequestTyped, AppendOkTyped, PublishingTyped, DecideLateTyped, DispatchTyped

-----------------------------------------------------------------------------
(* What the streams hold, and the outbox.                                  *)

(***************************************************************************)
(* A step stores nothing, or one sound decision that fits.                 *)
(***************************************************************************)
(***************************************************************************)
(* What a step may store.                                                  *)
(***************************************************************************)
StoresNothing == UNCHANGED <<streams, outbox>>
Stores(a) == a \in Decisions /\ SoundAt(a.id, a.event) /\ HeadFits(a) /\ Store(a)

(***************************************************************************)
(* A step stores nothing, or one event that fits its stream and that the   *)
(* service stands behind.                                                  *)
(***************************************************************************)
LEMMA StepsStore ==
  ASSUME LifeInv, Typed, Grounded, [Next]_vars
  PROVE  StoresNothing \/ \E a \in Decisions : Stores(a)
<1>1. ASSUME NEW c \in Callers, AppendOk(c) PROVE \E a \in Decisions : Stores(a)
  <2>1. PICK a : a = pending[c]
    OBVIOUS
  <2>2. a \in Decisions /\ SoundAt(pending[c].id, pending[c].event) /\ HeadFits(a) /\ Store(a)
    BY <1>1, <2>1 DEF AppendOk, LifeInv, DecisionsOK, Grounded
  <2> QED
    BY <2>1, <2>2 DEF Stores
<1>2. CASE DecideLate
  <2>1. PICK a \in late : (HeadFits(a) /\ Store(a)) \/ UNCHANGED <<streams, outbox>>
    BY <1>2 DEF DecideLate
  <2>2. a \in Decisions /\ SoundAt(a.id, a.event)
    BY DEF LifeInv, DecisionsOK, Grounded
  <2> QED
    BY <2>1, <2>2 DEF Stores, StoresNothing
<1>3. ASSUME NEW c \in Callers, RequestStep(c) \/ Publishes(c) PROVE StoresNothing
  BY <1>3 DEF RequestStep, Publishes, PublishInSave, PublishFails, stored, StoresNothing
<1>4. CASE Dispatch \/ Mark \/ Redeliver \/ UNCHANGED vars
  BY <1>4 DEF Dispatch, Mark, Redeliver, vars, stored, StoresNothing
<1> QED
  BY <1>1, <1>2, <1>3, <1>4, StepKinds

(***************************************************************************)
(* The service stands behind whatever its callers append, whatever lands   *)
(* late, and whatever is stored.                                           *)
(***************************************************************************)
LEMMA GroundedStep ==
  ASSUME LifeInv, Typed, Grounded, [Next]_vars
  PROVE  Grounded'
<1>1. Kept
  BY StepsTyped
<1>2. ASSUME NEW id \in OrderIDs, NEW i \in 1..Len(streams'[id])
      PROVE  SoundAt(id, streams[id][i])'
  <2>1. PICK e : e = streams'[id][i]
    OBVIOUS
  <2>2. SoundAt(id, e)
    <3>1. CASE StoresNothing
      <4>1. i \in 1..Len(streams[id]) /\ e = streams[id][i]
        BY <2>1, <3>1 DEF StoresNothing
      <4> QED
        BY <4>1 DEF Grounded
    <3>2. ASSUME NEW a \in Decisions, Stores(a) PROVE SoundAt(id, e)
      <4>1. StreamsOK /\ HeadFits(a) /\ Store(a)
        BY <3>2 DEF Stores, LifeInv
      <4>2. CASE id = a.id /\ i = a.expected + 1
        BY <2>1, <3>2, <4>1, <4>2, StoreAdds DEF Stores
      <4>3. CASE ~(id = a.id /\ i = a.expected + 1)
        <5>1. i \in 1..Len(streams[id]) /\ e = streams[id][i]
          <6>1. CASE id = a.id
            <7>1. i \in 1..a.expected /\ Len(streams[a.id]) = a.expected
              BY <4>1, <4>3, <6>1, StoreAdds
            <7> QED
              BY <2>1, <4>1, <6>1, <7>1, StoreAdds
          <6>2. CASE id # a.id
            BY <2>1, <4>1, <6>2, StoreAdds
          <6> QED
            BY <6>1, <6>2
        <5> QED
          BY <5>1 DEF Grounded
      <4> QED
        BY <4>2, <4>3
    <3> QED
      BY <3>1, <3>2, StepsStore
  <2>3. SoundAt(id, e)'
    BY <1>1, <2>2, SoundStays
  <2> QED
    BY <2>1, <2>3 DEF SoundAt
<1>3. ASSUME NEW c \in Callers, pc'[c] # "ready"
      PROVE  SoundAt(pending[c].id, pending[c].event)'
  <2>1. PICK a : a = pending'[c]
    OBVIOUS
  <2>2. CASE pc[c] # "ready" /\ pending'[c] = pending[c]
    <3>1. a \in Decisions /\ SoundAt(a.id, a.event)
      BY <2>1, <2>2 DEF Grounded, SoundAt, LifeInv, DecisionsOK
    <3>2. SoundAt(a.id, a.event)'
      BY <1>1, <3>1, SoundStays DEF Decisions
    <3> QED
      BY <2>1, <3>2 DEF SoundAt
  <2>3. CASE a \in Decisions /\ SoundAt(a.id, a.event)'
    BY <2>1, <2>3 DEF SoundAt
  <2>4. \/ pc[c] # "ready" /\ pending'[c] = pending[c]
        \/ a \in Decisions /\ SoundAt(a.id, a.event)'
    <3>1. ASSUME NEW d \in Callers, RequestStep(d)
          PROVE  \/ pc[c] # "ready" /\ pending'[c] = pending[c]
                 \/ a \in Decisions /\ SoundAt(a.id, a.event)'
      <4>1. CASE d # c
        BY <1>3, <3>1, <4>1 DEF RequestStep, LifeInv, DecisionsOK
      <4>2. CASE d = c
        <5>1. PICK b \in Decisions : SoundAt(b.id, b.event)' /\ pending' = [pending EXCEPT ![c] = b]
          BY <1>3, <3>1, <4>2 DEF RequestStep, LifeInv, DecisionsOK
        <5>2. a = b
          BY <2>1, <5>1 DEF LifeInv, DecisionsOK
        <5> QED
          BY <5>1, <5>2
      <4> QED
        BY <4>1, <4>2
    <3>2. ASSUME NEW d \in Callers, AppendOk(d) \/ Publishes(d)
          PROVE  pc[c] # "ready" /\ pending'[c] = pending[c]
      BY <1>3, <3>2 DEF AppendOk, Publishes, PublishInSave, PublishFails, Acknowledge,
         LifeInv, DecisionsOK
    <3>3. CASE DecideLate \/ Dispatch \/ Mark \/ Redeliver \/ UNCHANGED vars
      BY <1>3, <3>3 DEF DecideLate, Dispatch, Mark, Redeliver, vars, client
    <3> QED
      BY <3>1, <3>2, <3>3, StepKinds
  <2> QED
    BY <2>2, <2>3, <2>4
<1>4. ASSUME NEW a \in late' PROVE SoundAt(a.id, a.event)'
  <2>1. a \in late \/ \E c \in Callers : pc[c] # "ready" /\ a = pending[c]
    <3>1. ASSUME NEW c \in Callers, RequestStep(c)
          PROVE  a \in late \/ (pc[c] # "ready" /\ a = pending[c])
      <4>1. late' = late \/ (pc[c] = "append" /\ late' = late \cup {pending[c]})
        BY <3>1 DEF RequestStep
      <4> QED
        BY <4>1
    <3>2. CASE DecideLate
      BY <3>2 DEF DecideLate
    <3>3. ASSUME NEW c \in Callers, AppendOk(c) \/ Publishes(c) PROVE a \in late
      BY <3>3 DEF AppendOk, Publishes, PublishInSave, PublishFails, stored
    <3>4. CASE Dispatch \/ Mark \/ Redeliver \/ UNCHANGED vars
      BY <3>4 DEF Dispatch, Mark, Redeliver, vars, stored
    <3> QED
      BY <3>1, <3>2, <3>3, <3>4, StepKinds
  <2>2. a \in Decisions
    BY <2>1 DEF LifeInv, DecisionsOK
  <2>3. SoundAt(a.id, a.event)
    BY <2>1 DEF Grounded
  <2> QED
    BY <1>1, <2>2, <2>3, SoundStays DEF Decisions
<1> QED
  BY <1>2, <1>3, <1>4 DEF Grounded

(***************************************************************************)
(* The outbox is the streams, interleaved: every stored event has one      *)
(* entry, and an order is placed before it is shipped there, too.          *)
(***************************************************************************)
EntriesAreStored ==
  \A k \in 1..Len(outbox) :
     LET stream == streams[outbox[k].id]
         i      == Position(outbox[k].event.type)
     IN i <= Len(stream) /\ stream[i] = outbox[k].event

StoredAreEntered ==
  hasOutbox =>
    \A id \in OrderIDs : \A i \in 1..Len(streams[id]) :
      \E k \in 1..Len(outbox) : outbox[k].id = id /\ outbox[k].event = streams[id][i]

EnteredOnce ==
  \A j, k \in 1..Len(outbox) :
     outbox[j].id = outbox[k].id /\ outbox[j].event.type = outbox[k].event.type => j = k

PlacedFirst ==
  \A k \in 1..Len(outbox) :
     outbox[k].event.type = "OrderShipped" =>
       \E j \in 1..(k - 1) : outbox[j].id = outbox[k].id /\ outbox[j].event.type = "OrderPlaced"

Ledger == EntriesAreStored /\ StoredAreEntered /\ EnteredOnce /\ PlacedFirst

(***************************************************************************)
(* Storing an event that fits adds the one entry to the outbox that it     *)
(* lacks.                                                                  *)
(***************************************************************************)
LEMMA StoreKeepsLedger ==
  ASSUME LifeInv, LifeInv', Typed, hasOutbox, hasOutbox' = hasOutbox, Ledger,
         NEW a \in Decisions, Stores(a)
  PROVE  Ledger'
<1> DEFINE n == Len(outbox) + 1
<1>1. StreamsOK /\ HeadFits(a) /\ Store(a)
  BY DEF LifeInv, Stores
<1>2. /\ a.id \in OrderIDs /\ a.event \in Events
      /\ a.expected \in {0, 1} /\ (a.expected = 0 <=> a.event.type = "OrderPlaced")
      /\ Len(streams[a.id]) = a.expected
      /\ Len(streams'[a.id]) = a.expected + 1
      /\ streams'[a.id][a.expected + 1] = a.event
      /\ \A i \in 1..a.expected : streams'[a.id][i] = streams[a.id][i]
      /\ \A id \in OrderIDs : id # a.id => streams'[id] = streams[id]
  BY <1>1, StoreAdds
<1>3. /\ n \in Nat \ {0} /\ Len(outbox') = n
      /\ outbox'[n].id = a.id /\ outbox'[n].event = a.event
      /\ \A k \in 1..Len(outbox) : outbox'[k] = outbox[k]
      /\ \A k \in 1..n : k = n \/ k \in 1..Len(outbox)
  <2>1. Len(outbox) \in Nat
    BY DEF Typed
  <2>2. \A k \in 1..n : k = n \/ k \in 1..Len(outbox)
    BY <2>1
  <2>3. outbox'[n] = [id |-> a.id, event |-> a.event] /\ Len(outbox') = n
    BY <1>1, OutboxAdds
  <2>4. outbox'[n].id = a.id /\ outbox'[n].event = a.event
    BY <2>3
  <2>5. \A k \in 1..Len(outbox) : outbox'[k] = outbox[k]
    BY <1>1, OutboxAdds
  <2> QED
    BY <2>1, <2>2, <2>3, <2>4, <2>5
<1>4. Position(a.event.type) = a.expected + 1
  BY <1>2, EventTypes DEF Position
<1>5. \A k \in 1..Len(outbox) : outbox[k].id \in OrderIDs /\ outbox[k].event \in Events
  BY OutboxEntries
<1> HIDE DEF n
<1>6. EntriesAreStored'
  <2> SUFFICES ASSUME NEW k \in 1..n
               PROVE  LET stream == streams'[outbox'[k].id]
                          i      == Position(outbox'[k].event.type)
                      IN i <= Len(stream) /\ stream[i] = outbox'[k].event
    BY <1>3 DEF EntriesAreStored, Position
  <2>1. CASE k = n
    BY <1>2, <1>3, <1>4, <2>1
  <2>2. CASE k \in 1..Len(outbox)
    <3>1. PICK id \in OrderIDs, e \in Events : id = outbox[k].id /\ e = outbox[k].event
      BY <1>5, <2>2
    <3>2. /\ Position(e.type) \in {1, 2} /\ Position(e.type) <= Len(streams[id])
          /\ streams[id][Position(e.type)] = e
      BY <2>2, <3>1 DEF Ledger, EntriesAreStored, Position
    <3>3. Position(e.type) <= Len(streams'[id]) /\ streams'[id][Position(e.type)] = e
      <4>1. CASE id = a.id
        <5>1. Position(e.type) \in 1..a.expected
          BY <1>2, <3>2, <4>1
        <5> QED
          BY <1>2, <3>2, <4>1, <5>1, SMTT(20)
      <4>2. CASE id # a.id
        BY <1>2, <3>2, <4>2
      <4> QED
        BY <4>1, <4>2
    <3> QED
      BY <1>3, <2>2, <3>1, <3>3
  <2> QED
    BY <1>3, <2>1, <2>2
<1>7. StoredAreEntered'
  <2> SUFFICES ASSUME NEW id \in OrderIDs, NEW i \in 1..Len(streams'[id])
               PROVE  \E k \in 1..n : outbox'[k].id = id /\ outbox'[k].event = streams'[id][i]
    BY <1>3 DEF StoredAreEntered
  <2>1. CASE id = a.id /\ i = a.expected + 1
    BY <1>2, <1>3, <2>1
  <2>2. CASE ~(id = a.id /\ i = a.expected + 1)
    <3>1. i \in 1..Len(streams[id]) /\ streams'[id][i] = streams[id][i]
      BY <1>2, <2>2, SMTT(30)
    <3>2. PICK k \in 1..Len(outbox) : outbox[k].id = id /\ outbox[k].event = streams[id][i]
      BY <3>1 DEF Ledger, StoredAreEntered
    <3>3. k \in 1..n
      BY <1>3 DEF n
    <3> QED
      BY <1>3, <3>1, <3>2, <3>3
  <2> QED
    BY <2>1, <2>2
<1>8. \A j \in 1..Len(outbox) : ~(outbox[j].id = a.id /\ outbox[j].event.type = a.event.type)
  BY <1>2, <1>4 DEF Ledger, EntriesAreStored
<1>9. EnteredOnce'
  <2> SUFFICES ASSUME NEW j \in 1..n, NEW k \in 1..n,
                      outbox'[j].id = outbox'[k].id,
                      outbox'[j].event.type = outbox'[k].event.type
               PROVE  j = k
    BY <1>3 DEF EnteredOnce
  <2> QED
    BY <1>3, <1>8 DEF Ledger, EnteredOnce
<1>10. PlacedFirst'
  <2> SUFFICES ASSUME NEW k \in 1..n, outbox'[k].event.type = "OrderShipped"
               PROVE  \E j \in 1..(k - 1) : /\ outbox'[j].id = outbox'[k].id
                                            /\ outbox'[j].event.type = "OrderPlaced"
    BY <1>3 DEF PlacedFirst
  <2>1. CASE k = n
    <3>1. a.expected = 1 /\ 1 \in 1..Len(streams[a.id])
      BY <1>2, <1>3, <2>1
    <3>2. streams[a.id][1].type = "OrderPlaced"
      BY <1>2, <3>1 DEF LifeInv, StreamsOK, LifeOK
    <3>3. PICK j \in 1..Len(outbox) : outbox[j].id = a.id /\ outbox[j].event = streams[a.id][1]
      BY <1>2, <3>1 DEF Ledger, StoredAreEntered
    <3>4. j \in 1..(k - 1)
      BY <2>1 DEF n, Typed
    <3> QED
      BY <1>3, <2>1, <3>2, <3>3, <3>4
  <2>2. CASE k \in 1..Len(outbox)
    <3>1. PICK j \in 1..(k - 1) : /\ outbox[j].id = outbox[k].id
                                  /\ outbox[j].event.type = "OrderPlaced"
      BY <1>3, <2>2 DEF Ledger, PlacedFirst
    <3>2. j \in 1..Len(outbox)
      BY <2>2 DEF Typed
    <3> QED
      BY <1>3, <2>2, <3>1, <3>2
  <2> QED
    BY <1>3, <2>1, <2>2
<1> QED
  BY <1>6, <1>7, <1>9, <1>10 DEF Ledger

(***************************************************************************)
(* The outbox goes on being the streams, interleaved.                      *)
(***************************************************************************)
LEMMA LedgerStep ==
  ASSUME LifeInv, LifeInv', Typed, Grounded, Ledger, [Next]_vars
  PROVE  Ledger'
<1>1. Typed' /\ hasOutbox' = hasOutbox
  BY StepsTyped DEF Kept
<1>2. CASE ~hasOutbox
  BY <1>1, <1>2 DEF Typed, Ledger, EntriesAreStored, StoredAreEntered, EnteredOnce, PlacedFirst
<1>3. CASE hasOutbox /\ StoresNothing
  BY <1>1, <1>3, SMTT(30)
  DEF StoresNothing, Ledger, EntriesAreStored, StoredAreEntered, EnteredOnce, PlacedFirst
<1>4. CASE hasOutbox /\ \E a \in Decisions : Stores(a)
  BY <1>1, <1>4, StoreKeepsLedger
<1> QED
  BY <1>2, <1>3, <1>4, StepsStore

-----------------------------------------------------------------------------
(* What callers are told over a store without outbox.                      *)

(***************************************************************************)
(* Streams only grow at their ends.                                        *)
(***************************************************************************)
LEMMA StreamsGrow ==
  ASSUME LifeInv, Typed, Grounded, [Next]_vars, NEW id \in OrderIDs, NEW i \in 1..Len(streams[id])
  PROVE  i \in 1..Len(streams'[id]) /\ streams'[id][i] = streams[id][i]
<1>1. CASE StoresNothing
  BY <1>1 DEF StoresNothing
<1>2. ASSUME NEW a \in Decisions, Stores(a)
      PROVE  i \in 1..Len(streams'[id]) /\ streams'[id][i] = streams[id][i]
  <2>1. StreamsOK /\ HeadFits(a) /\ Store(a)
    BY <1>2 DEF Stores, LifeInv
  <2>2. CASE id = a.id
    <3>1. i \in 1..a.expected /\ Len(streams'[id]) = a.expected + 1 /\ a.expected \in {0, 1}
      BY <2>1, <2>2, StoreAdds
    <3>2. streams'[id][i] = streams[id][i]
      BY <2>1, <2>2, <3>1, StoreAdds
    <3> QED
      BY <3>1, <3>2
  <2>3. CASE id # a.id
    BY <2>1, <2>3, StoreAdds
  <2> QED
    BY <2>2, <2>3
<1> QED
  BY <1>1, <1>2, StepsStore

(***************************************************************************)
(* A caller is at its publish step from AppendOk until it has published.   *)
(***************************************************************************)
LEMMA PublishersMove ==
  ASSUME LifeInv, Typed, Grounded, [Next]_vars, NEW d \in Callers
  PROVE  /\ pc[d] = "publish" =>
              \/ pc'[d] = "publish" /\ pending'[d] = pending[d]
              \/ Publishes(d)
         /\ pc'[d] = "publish" =>
              /\ pending'[d] = pending[d]
              /\ pc[d] = "publish" \/ AppendOk(d)
<1>1. /\ pc \in [Callers -> {"ready", "append", "publish"}]
      /\ pending \in [Callers -> Decisions \cup {NoAppend}]
  BY DEF LifeInv, DecisionsOK
<1>2. ASSUME NEW c \in Callers, RequestStep(c), d # c
      PROVE  pc'[d] = pc[d] /\ pending'[d] = pending[d]
  BY <1>1, <1>2 DEF RequestStep
<1>3. ASSUME RequestStep(d)
      PROVE  pc[d] # "publish" /\ pc'[d] # "publish"
  BY <1>1, <1>3 DEF RequestStep
<1>4. ASSUME NEW c \in Callers, AppendOk(c) \/ Publishes(c), d # c
      PROVE  pc'[d] = pc[d] /\ pending'[d] = pending[d]
  BY <1>1, <1>4 DEF AppendOk, Publishes, PublishInSave, PublishFails, Acknowledge
<1>5. ASSUME AppendOk(d)
      PROVE  pc[d] # "publish" /\ (pc'[d] = "publish" => pending'[d] = pending[d])
  BY <1>1, <1>5 DEF AppendOk, Acknowledge
<1>6. ASSUME Publishes(d)
      PROVE  pc'[d] # "publish"
  BY <1>1, <1>6 DEF Publishes, PublishInSave, PublishFails, Acknowledge
<1>7. ASSUME DecideLate \/ Dispatch \/ Mark \/ Redeliver \/ UNCHANGED vars
      PROVE  pc'[d] = pc[d] /\ pending'[d] = pending[d]
  BY <1>7 DEF DecideLate, Dispatch, Mark, Redeliver, vars, client
<1> QED
  BY <1>2, <1>3, <1>4, <1>5, <1>6, <1>7, StepKinds

(***************************************************************************)
(* What a caller publishes is in its stream, at the place it was decided   *)
(* for.                                                                    *)
(***************************************************************************)
InStream ==
  \A c \in Callers : pc[c] = "publish" =>
    LET a == pending[c]
    IN a.expected + 1 \in 1..Len(streams[a.id]) /\ streams[a.id][a.expected + 1] = a.event

(***************************************************************************)
(* What is stored stays in its stream, so that what is published goes on   *)
(* being in it.                                                            *)
(***************************************************************************)
LEMMA InStreamStep ==
  ASSUME LifeInv, Typed, Grounded, InStream, [Next]_vars
  PROVE  InStream'
<1> SUFFICES ASSUME NEW c \in Callers, pc'[c] = "publish", NEW a, a = pending'[c]
             PROVE  /\ a.expected + 1 \in 1..Len(streams'[a.id])
                    /\ streams'[a.id][a.expected + 1] = a.event
  BY DEF InStream
<1>1. pending'[c] = pending[c] /\ (pc[c] = "publish" \/ AppendOk(c))
  BY PublishersMove
<1>2. a \in Decisions /\ a.id \in OrderIDs
  BY <1>1 DEF LifeInv, DecisionsOK, AppendOk, Decisions
<1>3. CASE pc[c] = "publish"
  <2>1. a.expected + 1 \in 1..Len(streams[a.id]) /\ streams[a.id][a.expected + 1] = a.event
    BY <1>1, <1>3 DEF InStream
  <2> QED
    BY <1>2, <2>1, StreamsGrow
<1>4. CASE AppendOk(c)
  <2>1. StreamsOK /\ HeadFits(a) /\ Store(a)
    BY <1>1, <1>4 DEF AppendOk, LifeInv
  <2> QED
    BY <1>2, <2>1, StoreAdds
<1> QED
  BY <1>1, <1>3, <1>4

(***************************************************************************)
(* Over a store without outbox only AppendOk stores.                       *)
(***************************************************************************)
LEMMA PlainStores ==
  ASSUME LifeInv, Typed, Grounded, [Next]_vars, ~hasOutbox
  PROVE  streams' = streams \/ \E c \in Callers : AppendOk(c)
<1>1. ~DecideLate
  BY DEF DecideLate, Typed
<1>2. \A c \in Callers : RequestStep(c) \/ Publishes(c) => streams' = streams
  BY DEF RequestStep, Publishes, PublishInSave, PublishFails, stored
<1>3. Dispatch \/ Mark \/ Redeliver \/ UNCHANGED vars => streams' = streams
  BY DEF Dispatch, Mark, Redeliver, vars, stored
<1> QED
  BY <1>1, <1>2, <1>3, StepKinds

(***************************************************************************)
(* A caller has stored event e of order id and has not published it.       *)
(***************************************************************************)
ToPublish(id, e) ==
  \E c \in Callers : pc[c] = "publish" /\ pending[c].id = id /\ pending[c].event = e

(***************************************************************************)
(* It remains so until that caller publishes the event.                    *)
(***************************************************************************)
LEMMA ToPublishStep ==
  ASSUME LifeInv, Typed, Grounded, [Next]_vars, NEW id, NEW e, ToPublish(id, e)
  PROVE  \/ ToPublish(id, e)'
         \/ \E c \in Callers : Publishes(c) /\ pending[c].id = id /\ pending[c].event = e
<1>1. PICK c \in Callers : pc[c] = "publish" /\ pending[c].id = id /\ pending[c].event = e
  BY DEF ToPublish
<1>2. (pc'[c] = "publish" /\ pending'[c] = pending[c]) \/ Publishes(c)
  BY <1>1, PublishersMove
<1> QED
  BY <1>1, <1>2 DEF ToPublish

(***************************************************************************)
(* Over a store without outbox, an event that is new to its stream is to   *)
(* be published.                                                           *)
(***************************************************************************)
LEMMA StoredToPublish ==
  ASSUME LifeInv, LifeInv', Typed, Grounded, [Next]_vars, ~hasOutbox,
         NEW id \in OrderIDs, NEW i \in 1..Len(streams'[id]), NEW e, e = streams'[id][i]
  PROVE  (i \in 1..Len(streams[id]) /\ e = streams[id][i]) \/ ToPublish(id, e)'
<1>1. ASSUME NEW c \in Callers, AppendOk(c), ~(i \in 1..Len(streams[id]) /\ e = streams[id][i])
      PROVE  pc'[c] = "publish" /\ pending'[c].id = id /\ pending'[c].event = e
  <2>1. PICK a \in Decisions : a = pending[c]
    BY <1>1 DEF AppendOk, LifeInv, DecisionsOK
  <2>2. StreamsOK /\ HeadFits(a) /\ Store(a) /\ pc'[c] = "publish" /\ pending'[c] = a
    BY <1>1, <2>1 DEF AppendOk, LifeInv, DecisionsOK
  <2>3. id = a.id
    BY <1>1, <2>2, StoreAdds
  <2>4. i = a.expected + 1
    <3>1. /\ Len(streams'[id]) = a.expected + 1 /\ a.expected \in {0, 1}
          /\ Len(streams[id]) = a.expected
      BY <2>2, <2>3, StoreAdds
    <3>2. \A j \in 1..a.expected : streams'[id][j] = streams[id][j]
      BY <2>2, <2>3, StoreAdds
    <3> QED
      BY <1>1, <3>1, <3>2
  <2> QED
    BY <2>2, <2>3, <2>4, StoreAdds
<1> QED
  BY <1>1, PlainStores DEF ToPublish

(***************************************************************************)
(* Over a store without outbox the caller whose append was stored goes on  *)
(* to publish and is then told.                                            *)
(***************************************************************************)
LEMMA StoredIsToldStep ==
  ASSUME LifeInv, LifeInv', Typed, Grounded, StoredIsTold, [Next]_vars
  PROVE  StoredIsTold'
<1> SUFFICES ASSUME ~hasOutbox, ~others, NEW id \in OrderIDs,
                    NEW i \in 1..Len(streams'[id]), NEW e, e = streams'[id][i]
             PROVE  [id |-> id, type |-> e.type] \in acked' \/ ToPublish(id, e)'
  <2>1. hasOutbox' = hasOutbox /\ others' = others
    BY StepsTyped DEF Kept
  <2>2. \A x \in OrderIDs : DOMAIN streams'[x] = 1..Len(streams'[x])
    BY DEF LifeInv, StreamsOK
  <2> QED
    BY <2>1, <2>2 DEF StoredIsTold, Acked, ToPublish
<1>1. CASE i \in 1..Len(streams[id]) /\ e = streams[id][i]
  <2>1. DOMAIN streams[id] = 1..Len(streams[id])
    BY DEF LifeInv, StreamsOK
  <2>2. [id |-> id, type |-> e.type] \in acked \/ ToPublish(id, e)
    BY <1>1, <2>1 DEF StoredIsTold, Acked, ToPublish
  <2>3. acked \subseteq acked'
    BY StepsTyped DEF Kept
  <2>4. ASSUME NEW c \in Callers, Publishes(c), pending[c].id = id, pending[c].event = e
        PROVE  [id |-> id, type |-> e.type] \in acked'
    BY <2>4 DEF Publishes, PublishInSave, PublishFails, Acknowledge
  <2> QED
    BY <2>2, <2>3, <2>4, ToPublishStep
<1> QED
  BY <1>1, StoredToPublish

-----------------------------------------------------------------------------
(* What the projection shows.                                              *)

(***************************************************************************)
(* It shows no order and no shipping that is not stored, and the details   *)
(* as stored.                                                              *)
(***************************************************************************)
Reflects ==
  viaApp \/ hasOutbox =>
    \A id \in OrderIDs : Found(id) =>
      /\ Len(streams[id]) >= 1
      /\ summary[id].details = streams[id][1].details
      /\ summary[id].shipped => Len(streams[id]) = 2

(***************************************************************************)
(* It shows what the dispatcher has handed over and, over an outbox, while *)
(* nothing is redelivered, no shipping but that.                           *)
(***************************************************************************)
ShowsHanded ==
  \A k \in 1..handed :
    /\ Found(outbox[k].id)
    /\ outbox[k].event.type = "OrderShipped" => summary[outbox[k].id].shipped

ShippedIsHanded ==
  hasOutbox /\ redeliveries = 0 =>
    \A id \in OrderIDs : ShowsShipped(id) =>
      \E k \in 1..handed : outbox[k].id = id /\ outbox[k].event.type = "OrderShipped"

(***************************************************************************)
(* It shows what clients of the service have been told of.                 *)
(***************************************************************************)
ShowsTold ==
  viaApp /\ ~hasOutbox =>
    \A id \in OrderIDs :
      /\ Acked(id, "OrderPlaced") => Found(id)
      /\ Acked(id, "OrderShipped") => ShowsShipped(id)

(***************************************************************************)
(* Over a store without outbox it shows what is stored, but for what has   *)
(* yet to be published, also when nobody is told because another           *)
(* subscriber fails.                                                       *)
(***************************************************************************)
Shows(id, e) == Found(id) /\ (e.type = "OrderShipped" => summary[id].shipped)

ShowsStored ==
  viaApp /\ ~hasOutbox =>
    \A id \in OrderIDs : \A i \in 1..Len(streams[id]) :
      Shows(id, streams[id][i]) \/ ToPublish(id, streams[id][i])

Projected == Reflects /\ ShowsHanded /\ ShippedIsHanded /\ ShowsTold /\ ShowsStored

ProjInv == TellInv /\ Typed /\ Grounded /\ Ledger /\ InStream /\ StoredIsTold /\ Projected

(***************************************************************************)
(* An event on its way to the projection is stored, and one that ships     *)
(* finds a record.                                                         *)
(***************************************************************************)
Due(id, e) ==
  /\ Publish(id, e)
  /\ Position(e.type) \in 1..Len(streams[id]) /\ streams[id][Position(e.type)] = e
  /\ (viaApp \/ hasOutbox) /\ e.type = "OrderShipped" => Found(id)

(***************************************************************************)
(* What the dispatcher hands over is due: the outbox lists what is stored, *)
(* and lists the placing of an order first.                                *)
(***************************************************************************)
LEMMA DispatchIsDue ==
  ASSUME ProjInv, Dispatch
  PROVE  /\ handed + 1 \in 1..Len(outbox)
         /\ outbox[handed + 1].id \in OrderIDs /\ outbox[handed + 1].event \in Events
         /\ Due(outbox[handed + 1].id, outbox[handed + 1].event)
<1>1. handed \in Nat /\ handed + 1 \in 1..Len(outbox)
  BY DEF Dispatch, ProjInv, Typed
<1>2. PICK k \in 1..Len(outbox) : k = handed + 1
  BY <1>1
<1>3. PICK id \in OrderIDs, e \in Events : id = outbox[k].id /\ e = outbox[k].event
  BY OutboxEntries DEF ProjInv
<1>4. Publish(id, e)
  BY <1>2, <1>3, NotesSurvive DEF Dispatch
<1>5. Position(e.type) \in 1..Len(streams[id]) /\ streams[id][Position(e.type)] = e
  <2>1. Position(e.type) <= Len(streams[id]) /\ streams[id][Position(e.type)] = e
    BY <1>3 DEF ProjInv, Ledger, EntriesAreStored
  <2>2. Position(e.type) \in {1, 2} /\ streams[id] \in Seq(Events)
    BY DEF Position, ProjInv, TellInv, LifeInv, StreamsOK
  <2> QED
    BY <2>1, <2>2
<1>6. ASSUME e.type = "OrderShipped" PROVE Found(id)
  <2>1. PICK j \in 1..(k - 1) : outbox[j].id = id /\ outbox[j].event.type = "OrderPlaced"
    BY <1>3, <1>6 DEF ProjInv, Ledger, PlacedFirst
  <2>2. j \in 1..handed
    BY <1>1, <1>2
  <2> QED
    BY <2>1, <2>2 DEF ProjInv, Projected, ShowsHanded
<1>7. Due(id, e)
  BY <1>4, <1>5, <1>6 DEF Due
<1> QED
  BY <1>2, <1>3, <1>7

(***************************************************************************)
(* What Save publishes is due: it is in its stream and, if it ships an     *)
(* order, the service has told a client of that order, so that the         *)
(* projection shows it.                                                    *)
(***************************************************************************)
LEMMA PublishingIsDue ==
  ASSUME ProjInv, NEW c \in Callers, Publishes(c)
  PROVE  /\ pending[c].id \in OrderIDs /\ pending[c].event \in Events
         /\ ~hasOutbox
         /\ Due(pending[c].id, pending[c].event)
<1>1. PICK a \in Decisions : a = pending[c]
  BY DEF Publishes, PublishInSave, PublishFails, ProjInv, TellInv, LifeInv, DecisionsOK
<1>2. a.id \in OrderIDs /\ a.event \in Events /\ Position(a.event.type) = a.expected + 1
  BY EventTypes DEF Decisions, Position
<1>3. pc[c] = "publish" /\ Publish(a.id, a.event) /\ ~hasOutbox
  BY <1>1 DEF Publishes, PublishInSave, PublishFails, ProjInv, Typed
<1>4. a.expected + 1 \in 1..Len(streams[a.id]) /\ streams[a.id][a.expected + 1] = a.event
  BY <1>1, <1>3 DEF ProjInv, InStream
<1>5. ASSUME viaApp \/ hasOutbox, a.event.type = "OrderShipped" PROVE Found(a.id)
  <2>1. [id |-> a.id, type |-> "OrderPlaced"] \in acked
    BY <1>1, <1>3, <1>5 DEF ProjInv, Grounded, SoundAt
  <2> QED
    BY <1>2, <1>3, <1>5, <2>1 DEF ProjInv, Projected, ShowsTold, Acked
<1>6. Due(a.id, a.event)
  BY <1>2, <1>3, <1>4, <1>5 DEF Due
<1> QED
  BY <1>1, <1>2, <1>3, <1>6

(***************************************************************************)
(* The projection changes only by events that are due.                     *)
(***************************************************************************)
LEMMA OnlyDueShows ==
  ASSUME ProjInv, [Next]_vars
  PROVE  \/ summary' = summary
         \/ /\ streams' = streams
            /\ \E id \in OrderIDs, e \in Events : Due(id, e)
<1>1. CASE Dispatch
  BY <1>1, DispatchIsDue DEF Dispatch, stored
<1>2. ASSUME NEW c \in Callers, Publishes(c)
      PROVE  streams' = streams /\ \E id \in OrderIDs, e \in Events : Due(id, e)
  BY <1>2, PublishingIsDue DEF Publishes, PublishInSave, PublishFails, stored
<1>3. ASSUME NEW c \in Callers, RequestStep(c) \/ AppendOk(c)
      PROVE  summary' = summary
  BY <1>3 DEF RequestStep, AppendOk
<1>4. CASE DecideLate \/ Mark \/ Redeliver \/ UNCHANGED vars
  BY <1>4 DEF DecideLate, Mark, Redeliver, vars
<1> QED
  BY <1>1, <1>2, <1>3, <1>4, StepKinds DEF ProjInv, TellInv

(***************************************************************************)
(* A well-formed stream has two events at most.                            *)
(***************************************************************************)
LEMMA LivesAreShort ==
  ASSUME NEW stream, LifeOK(stream)
  PROVE  Len(stream) \in 0..2
<1>1. PICK n \in Nat : n = Len(stream)
  BY DEF LifeOK
<1>2. n <= 2
  BY <1>1 DEF LifeOK
<1> QED
  BY <1>1, <1>2

(***************************************************************************)
(* An event that is due writes what its stream says.                       *)
(***************************************************************************)
LEMMA ReflectsStep ==
  ASSUME ProjInv, [Next]_vars
  PROVE  Reflects'
<1> SUFFICES ASSUME viaApp \/ hasOutbox, NEW id \in OrderIDs, summary'[id] # NoSummary
             PROVE  /\ Len(streams'[id]) >= 1
                    /\ summary'[id].details = streams'[id][1].details
                    /\ summary'[id].shipped => Len(streams'[id]) = 2
  <2>1. Kept
    BY StepsTyped DEF ProjInv, TellInv
  <2> QED
    BY <2>1 DEF Kept, Reflects, Found
<1>1. LifeInv /\ LifeInv' /\ Typed /\ Grounded
  BY LifeInvStep DEF ProjInv, TellInv
<1>2. Len(streams[id]) \in 0..2 /\ Len(streams'[id]) \in 0..2
  BY <1>1, LivesAreShort DEF LifeInv, StreamsOK
<1>3. CASE summary'[id] = summary[id]
  <2>1. /\ Len(streams[id]) >= 1
        /\ summary[id].details = streams[id][1].details
        /\ summary[id].shipped => Len(streams[id]) = 2
    BY <1>3 DEF ProjInv, Projected, Reflects, Found
  <2>2. 1 \in 1..Len(streams[id])
    BY <1>2, <2>1
  <2>3. 1 \in 1..Len(streams'[id]) /\ streams'[id][1] = streams[id][1]
    BY <1>1, <2>2, StreamsGrow
  <2>4. summary[id].shipped => 2 \in 1..Len(streams'[id])
    <3>1. Len(streams[id]) = 2 => 2 \in 1..Len(streams[id])
      BY <1>2
    <3> QED
      BY <1>1, <2>1, <3>1, StreamsGrow
  <2>5. /\ Len(streams'[id]) >= 1
        /\ 2 \in 1..Len(streams'[id]) => Len(streams'[id]) = 2
    <3>1. PICK n \in 0..2 : n = Len(streams'[id])
      BY <1>2
    <3>2. 1 <= n
      BY <2>3, <3>1
    <3>3. 2 \in 1..n => n = 2
      OBVIOUS
    <3> QED
      BY <3>1, <3>2, <3>3
  <2>6. summary[id].shipped => Len(streams'[id]) = 2
    BY <2>4, <2>5
  <2> QED
    BY <1>3, <2>1, <2>3, <2>5, <2>6, Zenon
<1>4. ASSUME streams' = streams, NEW x \in OrderIDs, NEW e \in Events, Due(x, e),
             summary'[id] # summary[id]
      PROVE  /\ Len(streams[id]) >= 1
             /\ summary'[id].details = streams[id][1].details
             /\ summary'[id].shipped => Len(streams[id]) = 2
  <2>1. Publish(x, e) /\ Position(e.type) \in 1..Len(streams[x])
        /\ streams[x][Position(e.type)] = e
        /\ (e.type = "OrderShipped" => Found(x))
    BY <1>4 DEF Due
  <2>2. x = id
    BY <1>1, <1>4, <2>1, PublishShows
  <2>3. /\ summary'[id].shipped = (e.type = "OrderShipped")
        /\ e.type = "OrderPlaced" => summary'[id].details = e.details
        /\ e.type = "OrderShipped" /\ Found(id) => summary'[id].details = summary[id].details
    BY <1>1, <2>1, <2>2, PublishShows
  <2>4. CASE e.type = "OrderPlaced"
    <3>1. Position(e.type) = 1
      BY <2>4 DEF Position
    <3>2. Len(streams[id]) >= 1 /\ streams[id][1] = e
      BY <1>2, <2>1, <2>2, <3>1
    <3>3. ~summary'[id].shipped
      BY <2>3, <2>4
    <3> QED
      BY <2>3, <2>4, <3>2, <3>3, Zenon
  <2>5. CASE e.type = "OrderShipped"
    <3>1. Position(e.type) = 2
      BY <2>5 DEF Position
    <3>2. Found(id) /\ summary[id].details = streams[id][1].details
      BY <2>1, <2>2, <2>5 DEF ProjInv, Projected, Reflects
    <3>3. Len(streams[id]) = 2 /\ Len(streams[id]) >= 1
      BY <1>2, <2>1, <2>2, <3>1
    <3> QED
      BY <2>3, <2>5, <3>2, <3>3, Zenon
  <2> QED
    BY <2>4, <2>5, EventTypes
<1> QED
  BY <1>3, <1>4, OnlyDueShows

(***************************************************************************)
(* The dispatcher hands over one entry more, or fewer are left handed over *)
(* after a commit that failed.                                             *)
(***************************************************************************)
LEMMA HandedStep ==
  ASSUME ProjInv, [Next]_vars
  PROVE  ShowsHanded' /\ ShippedIsHanded'
<1>1. LifeInv /\ Typed /\ Grounded /\ ShowsHanded /\ ShippedIsHanded
  BY DEF ProjInv, TellInv, Projected
<1>2. Typed' /\ hasOutbox' = hasOutbox
  BY <1>1, StepsTyped DEF Kept
<1>3. \A k \in 1..Len(outbox) : outbox[k].id \in OrderIDs /\ outbox[k].event \in Events
  BY <1>1, OutboxEntries
<1>4. handed \in Nat /\ handed <= Len(outbox) /\ Len(outbox) \in Nat
  BY <1>1 DEF Typed
<1>5. CASE Dispatch
  <2>1. PICK n \in 1..Len(outbox) : n = handed + 1
    BY <1>5, DispatchIsDue
  <2>2. PICK x \in OrderIDs, e \in Events : x = outbox[n].id /\ e = outbox[n].event
    BY <1>3
  <2>3. Publish(x, e) /\ outbox' = outbox /\ handed' = n /\ redeliveries' = redeliveries
    BY <1>5, <2>1, <2>2, DispatchIsDue DEF Due, Dispatch, stored
  <2>4. /\ \A o \in OrderIDs : o # x => summary'[o] = summary[o]
        /\ summary'[x] # NoSummary
        /\ summary'[x].shipped = (e.type = "OrderShipped")
    BY <1>1, <2>3, PublishShows
  <2>5. \A k \in 1..n : k = n \/ (k \in 1..handed /\ k \in 1..Len(outbox))
    BY <1>4, <2>1
  <2>6. ASSUME e.type = "OrderPlaced", NEW k \in 1..handed, k \in 1..Len(outbox),
               outbox[k].id = x, outbox[k].event.type = "OrderShipped"
        PROVE  FALSE
    <3>1. PICK j \in 1..(k - 1) : outbox[j].id = x /\ outbox[j].event.type = "OrderPlaced"
      BY <2>6 DEF ProjInv, Ledger, PlacedFirst
    <3>2. j \in 1..Len(outbox) /\ j # n
      BY <1>4, <2>1
    <3> QED
      BY <2>2, <2>6, <3>1, <3>2 DEF ProjInv, Ledger, EnteredOnce
  <2>7. ShowsHanded'
    <3> SUFFICES ASSUME NEW k \in 1..n
                 PROVE  /\ summary'[outbox[k].id] # NoSummary
                        /\ outbox[k].event.type = "OrderShipped" => summary'[outbox[k].id].shipped
      BY <2>3 DEF ShowsHanded, Found
    <3>1. CASE k = n
      BY <2>2, <2>4, <3>1
    <3>2. CASE k \in 1..handed /\ k \in 1..Len(outbox)
      <4>1. PICK o \in OrderIDs : o = outbox[k].id
        BY <1>3, <3>2
      <4>2. /\ summary[o] # NoSummary
            /\ outbox[k].event.type = "OrderShipped" => summary[o].shipped
        BY <1>1, <3>2, <4>1 DEF ShowsHanded, Found
      <4>3. CASE o # x
        BY <2>4, <4>1, <4>2, <4>3
      <4>4. CASE o = x
        BY <2>4, <2>6, <3>2, <4>1, <4>4, EventTypes
      <4> QED
        BY <4>3, <4>4
    <3> QED
      BY <2>5, <3>1, <3>2
  <2>8. ShippedIsHanded'
    <3> SUFFICES ASSUME hasOutbox, redeliveries = 0, NEW id \in OrderIDs,
                        summary'[id] # NoSummary, summary'[id].shipped
                 PROVE  \E k \in 1..n : outbox[k].id = id /\ outbox[k].event.type = "OrderShipped"
      BY <1>2, <2>3 DEF ShippedIsHanded, ShowsShipped, Found
    <3>1. CASE id = x
      <4>1. e.type = "OrderShipped"
        BY <2>4, <3>1, Zenon
      <4>2. n \in 1..n
        BY <1>4, <2>1
      <4> QED
        BY <2>2, <3>1, <4>1, <4>2
    <3>2. CASE id # x
      <4>1. PICK k \in 1..handed : outbox[k].id = id /\ outbox[k].event.type = "OrderShipped"
        BY <1>1, <2>4, <3>2 DEF ShippedIsHanded, ShowsShipped, Found
      <4>2. k \in 1..n
        BY <1>4, <2>1
      <4> QED
        BY <4>1, <4>2
    <3> QED
      BY <3>1, <3>2
  <2> QED
    BY <2>7, <2>8
<1>6. CASE Mark \/ Redeliver
  <2>1. /\ outbox' = outbox /\ summary' = summary
        /\ handed' \in Nat /\ handed' <= handed
        /\ (handed' = handed /\ redeliveries' = redeliveries) \/ redeliveries' # 0
    BY <1>1, <1>2, <1>6 DEF Mark, Redeliver, stored, Typed
  <2>2. ShowsHanded'
    BY <1>1, <1>4, <2>1 DEF ShowsHanded, Found
  <2>3. ShippedIsHanded'
    BY <1>1, <1>2, <2>1 DEF ShippedIsHanded, ShowsShipped, Found
  <2> QED
    BY <2>2, <2>3
<1>7. ASSUME summary' = summary, UNCHANGED dispatcher,
             StoresNothing \/ \E a \in Decisions : Stores(a)
      PROVE  ShowsHanded' /\ ShippedIsHanded'
  <2>1. \A k \in 1..Len(outbox) : outbox'[k] = outbox[k]
    BY <1>1, <1>2, <1>7, OutboxAdds DEF StoresNothing, Stores
  <2>2. handed' = handed /\ redeliveries' = redeliveries
    BY <1>7 DEF dispatcher
  <2>3. \A k \in 1..handed : outbox'[k] = outbox[k]
    BY <1>4, <2>1
  <2> QED
    BY <1>1, <1>2, <1>7, <2>2, <2>3 DEF ShowsHanded, ShippedIsHanded, ShowsShipped, Found
<1>8. ASSUME NEW c \in Callers, Publishes(c)
      PROVE  ShowsHanded' /\ ShippedIsHanded'
  <2>1. ~hasOutbox
    BY <1>8, PublishingIsDue
  <2>2. Len(outbox') = 0 /\ handed' = 0
    BY <1>2, <2>1 DEF Typed
  <2> QED
    BY <1>2, <2>1, <2>2 DEF ShowsHanded, ShippedIsHanded
<1>9. ASSUME NEW c \in Callers, RequestStep(c) \/ AppendOk(c)
      PROVE  summary' = summary /\ UNCHANGED dispatcher
  BY <1>9 DEF RequestStep, AppendOk
<1>10. ASSUME DecideLate \/ UNCHANGED vars
       PROVE  summary' = summary /\ UNCHANGED dispatcher
  BY <1>10 DEF DecideLate, vars
<1> QED
  BY <1>1, <1>5, <1>6, <1>7, <1>8, <1>9, <1>10, StepKinds, StepsStore

(***************************************************************************)
(* Save publishes an event that nobody has been told of.  That is not the  *)
(* first event of an order that has been shipped.                          *)
(***************************************************************************)
LEMMA PlacedBeforeShipped ==
  ASSUME LifeInv, Grounded, viaApp, ~hasOutbox, NEW id \in OrderIDs, Len(streams[id]) = 2
  PROVE  [id |-> id, type |-> "OrderPlaced"] \in acked
<1>1. 2 \in 1..Len(streams[id]) /\ streams[id][2].type = "OrderShipped"
  BY DEF LifeInv, StreamsOK, LifeOK
<1> QED
  BY <1>1 DEF Grounded, SoundAt

(***************************************************************************)
(* A caller is told when its event has been published, and no record is    *)
(* deleted.                                                                *)
(***************************************************************************)
LEMMA ShowsToldStep ==
  ASSUME ProjInv, [Next]_vars
  PROVE  ShowsTold'
<1>1. LifeInv /\ Typed /\ Grounded /\ TellInv /\ ShowsTold
  BY DEF ProjInv, TellInv, Projected
<1>2. Kept
  BY <1>1, StepsTyped
<1> SUFFICES ASSUME viaApp, ~hasOutbox, NEW id \in OrderIDs
             PROVE  /\ [id |-> id, type |-> "OrderPlaced"] \in acked' => summary'[id] # NoSummary
                    /\ [id |-> id, type |-> "OrderShipped"] \in acked' =>
                         summary'[id] # NoSummary /\ summary'[id].shipped
  BY <1>2 DEF Kept, ShowsTold, ShowsShipped, Found, Acked
<1>3. CASE summary'[id] = summary[id]
           /\ \A t : [id |-> id, type |-> t] \in acked' => [id |-> id, type |-> t] \in acked
  BY <1>1, <1>3 DEF ShowsTold, ShowsShipped, Found, Acked
<1>4. ASSUME NEW c \in Callers, Publishes(c)
      PROVE  /\ [id |-> id, type |-> "OrderPlaced"] \in acked' => summary'[id] # NoSummary
             /\ [id |-> id, type |-> "OrderShipped"] \in acked' =>
                  summary'[id] # NoSummary /\ summary'[id].shipped
  <2>1. PICK x \in OrderIDs, e \in Events :
          /\ x = pending[c].id /\ e = pending[c].event /\ Due(x, e)
    BY <1>4, PublishingIsDue
  <2>2. /\ acked' \subseteq acked \cup {[id |-> x, type |-> e.type]}
        /\ [id |-> x, type |-> e.type] \notin acked
    BY <1>1, <1>4, <2>1 DEF Publishes, PublishInSave, PublishFails, Acknowledge, TellInv,
       PublishersApart, Told
  <2>3. /\ \A o \in OrderIDs : o # x => summary'[o] = summary[o]
        /\ summary'[x] # NoSummary
        /\ summary'[x].shipped = (e.type = "OrderShipped")
    BY <1>1, <2>1, PublishShows DEF Due
  <2>4. CASE x # id
    BY <1>1, <2>2, <2>3, <2>4 DEF ShowsTold, ShowsShipped, Found, Acked
  <2>5. CASE x = id /\ e.type = "OrderShipped"
    BY <2>3, <2>5
  <2>6. CASE x = id /\ e.type = "OrderPlaced"
    <3>1. [id |-> id, type |-> "OrderShipped"] \notin acked
      <4>1. CASE [id |-> id, type |-> "OrderShipped"] \in acked
        <5>1. Len(streams[id]) >= 2
          <6>1. PICK t \in acked : t = [id |-> id, type |-> "OrderShipped"]
            BY <4>1
          <6>2. Len(streams[t.id]) >= Position(t.type)
            BY <1>1 DEF TellInv, Happened
          <6> QED
            BY <6>1, <6>2 DEF Position
        <5>2. Len(streams[id]) = 2
          <6>1. PICK n \in 0..2 : n = Len(streams[id])
            BY <1>1, LivesAreShort DEF LifeInv, StreamsOK
          <6>2. n >= 2
            BY <5>1, <6>1
          <6> QED
            BY <6>1, <6>2
        <5> QED
          BY <1>1, <2>2, <2>6, <5>2, PlacedBeforeShipped
      <4> QED
        BY <4>1
    <3> QED
      BY <2>2, <2>3, <2>6, <3>1
  <2> QED
    BY <2>4, <2>5, <2>6, EventTypes
<1>5. ASSUME NEW c \in Callers, RequestStep(c) \/ AppendOk(c)
      PROVE  summary' = summary /\ acked' = acked
  BY <1>5 DEF RequestStep, AppendOk
<1>6. CASE DecideLate \/ Mark \/ Redeliver \/ UNCHANGED vars
  BY <1>3, <1>6 DEF DecideLate, Mark, Redeliver, vars
<1>7. ~Dispatch
  BY <1>1 DEF Dispatch, Typed
<1> QED
  BY <1>1, <1>3, <1>4, <1>5, <1>6, <1>7, StepKinds

(***************************************************************************)
(* What is stored is published next, and what is shown stays shown: the    *)
(* first event of an order that has been shipped is not published again.   *)
(***************************************************************************)
LEMMA ShowsStoredStep ==
  ASSUME ProjInv, [Next]_vars
  PROVE  ShowsStored'
<1>1. LifeInv /\ LifeInv' /\ Typed /\ Grounded /\ TellInv /\ ShowsStored
  BY LifeInvStep DEF ProjInv, TellInv, Projected
<1>2. Kept
  BY <1>1, StepsTyped
<1> SUFFICES ASSUME viaApp, ~hasOutbox, NEW id \in OrderIDs,
                    NEW i \in 1..Len(streams'[id]), NEW e, e = streams'[id][i]
             PROVE  Shows(id, e)' \/ ToPublish(id, e)'
  BY <1>2 DEF Kept, ShowsStored, Shows, Found, ToPublish
<1>3. ASSUME i \in 1..Len(streams[id]), e = streams[id][i], NEW c \in Callers, Publishes(c),
             Shows(id, e) \/ (pending[c].id = id /\ pending[c].event = e)
      PROVE  Shows(id, e)'
  <2>1. PICK x \in OrderIDs, f \in Events :
          x = pending[c].id /\ f = pending[c].event /\ Due(x, f)
    BY <1>3, PublishingIsDue
  <2>2. [id |-> x, type |-> f.type] \notin acked
    BY <1>1, <1>3, <2>1
       DEF Publishes, PublishInSave, PublishFails, TellInv, PublishersApart, Told
  <2>3. /\ \A o \in OrderIDs : o # x => summary'[o] = summary[o]
        /\ summary'[x] # NoSummary
        /\ summary'[x].shipped = (f.type = "OrderShipped")
    BY <1>1, <2>1, PublishShows DEF Due
  <2>4. CASE x # id
    BY <1>3, <2>1, <2>3, <2>4 DEF Shows, Found
  <2>5. CASE x = id /\ f.type = "OrderShipped"
    BY <2>3, <2>5 DEF Shows, Found
  <2>6. CASE x = id /\ f.type = "OrderPlaced"
    <3>1. ASSUME e.type = "OrderShipped" PROVE FALSE
      <4>1. PICK n \in 0..2 : n = Len(streams[id])
        BY <1>1, LivesAreShort DEF LifeInv, StreamsOK
      <4>2. n >= 1 /\ i \in 1..n
        BY <1>3, <4>1
      <4>3. streams[id][1].type = "OrderPlaced"
        BY <1>1, <4>1, <4>2 DEF LifeInv, StreamsOK, LifeOK
      <4>4. i # 1
        BY <1>3, <3>1, <4>3
      <4>5. n = 2
        BY <4>2, <4>4
      <4>6. Len(streams[id]) = 2
        BY <4>1, <4>5
      <4> QED
        BY <1>1, <2>2, <2>6, <4>6, PlacedBeforeShipped
    <3> QED
      BY <2>3, <2>6, <3>1 DEF Shows, Found
  <2> QED
    BY <2>4, <2>5, <2>6, EventTypes
<1>4. CASE i \in 1..Len(streams[id]) /\ e = streams[id][i]
  <2>1. Shows(id, e) \/ ToPublish(id, e)
    BY <1>4 DEF ShowsStored, ProjInv, Projected
  <2>2. CASE ToPublish(id, e)
    BY <1>1, <1>3, <1>4, <2>2, ToPublishStep
  <2>3. CASE Shows(id, e)
    <3>1. CASE summary' = summary
      BY <2>3, <3>1 DEF Shows, Found
    <3>2. ASSUME NEW c \in Callers, RequestStep(c) \/ AppendOk(c)
          PROVE  summary' = summary
      BY <3>2 DEF RequestStep, AppendOk
    <3>3. DecideLate \/ Mark \/ Redeliver \/ UNCHANGED vars => summary' = summary
      BY DEF DecideLate, Mark, Redeliver, vars
    <3>4. ~Dispatch
      BY <1>1 DEF Dispatch, Typed
    <3> QED
      BY <1>1, <1>3, <1>4, <2>3, <3>1, <3>2, <3>3, <3>4, StepKinds
  <2> QED
    BY <2>1, <2>2, <2>3
<1> QED
  BY <1>1, <1>4, StoredToPublish

-----------------------------------------------------------------------------
(* The theorems.                                                           *)

(***************************************************************************)
(* An order that exists is shipped exactly if its stream has two events.   *)
(***************************************************************************)
LEMMA StatusTellsLength ==
  ASSUME NEW stream, LifeOK(stream), stream # <<>>
  PROVE  Len(stream) \in {1, 2} /\ (Status(stream) = "shipped" <=> Len(stream) = 2)
<1>1. PICK n \in 0..2 : n = Len(stream)
  BY LivesAreShort
<1>2. n # 0
  BY <1>1, EmptySeq DEF LifeOK
<1>3. CASE n = 1
  <2>1. Last(stream).type = "OrderPlaced"
    BY <1>1, <1>3 DEF LifeOK, Last
  <2> QED
    BY <1>1, <1>3, <2>1 DEF Status
<1>4. CASE n = 2
  <2>1. Last(stream).type = "OrderShipped"
    BY <1>1, <1>4 DEF LifeOK, Last
  <2> QED
    BY <1>1, <1>4, <2>1 DEF Status
<1> QED
  BY <1>1, <1>2, <1>3, <1>4

(***************************************************************************)
(* The invariant holds before the first request.                           *)
(***************************************************************************)
LEMMA ProjInvInit == Init => ProjInv
<1> SUFFICES ASSUME Init PROVE ProjInv
  OBVIOUS
<1>1. TellInv
  BY TellInvInit
<1>2. \A id \in OrderIDs : Len(streams[id]) = 0 /\ DOMAIN streams[id] = {}
  BY DEF Init
<1>3. outbox = <<>> /\ Len(outbox) = 0 /\ handed = 0 /\ late = {} /\ acked = {}
      /\ \A c \in Callers : pc[c] = "ready"
  BY DEF Init
<1>4. Typed
  BY OrdersAssumption DEF Init, Typed
<1>5. Grounded /\ InStream /\ StoredIsTold
  BY <1>2, <1>3 DEF Grounded, InStream, StoredIsTold
<1>6. Ledger
  BY <1>2, <1>3 DEF Ledger, EntriesAreStored, StoredAreEntered, EnteredOnce, PlacedFirst
<1>7. \A id \in OrderIDs : ~Found(id)
  BY DEF Init, Found
<1>8. Projected
  BY <1>2, <1>3, <1>7 DEF Projected, Reflects, ShowsHanded, ShippedIsHanded, ShowsTold,
     ShowsShipped, Acked, ShowsStored
<1> QED
  BY <1>1, <1>4, <1>5, <1>6, <1>8 DEF ProjInv

(***************************************************************************)
(* Every step keeps the invariant.                                         *)
(***************************************************************************)
LEMMA ProjInvStep == ProjInv /\ [Next]_vars => ProjInv'
<1> SUFFICES ASSUME ProjInv, [Next]_vars PROVE ProjInv'
  OBVIOUS
<1>1. TellInv /\ LifeInv /\ Typed /\ Grounded /\ Ledger /\ InStream /\ StoredIsTold
  BY DEF ProjInv, TellInv
<1>2. TellInv' /\ LifeInv'
  BY <1>1, TellInvStep DEF TellInv
<1>3. Typed' /\ Grounded' /\ Ledger' /\ InStream' /\ StoredIsTold'
  BY <1>1, <1>2, StepsTyped, GroundedStep, LedgerStep, InStreamStep, StoredIsToldStep
<1>4. Projected'
  BY ReflectsStep, HandedStep, ShowsToldStep, ShowsStoredStep DEF Projected
<1> QED
  BY <1>2, <1>3, <1>4 DEF ProjInv

(***************************************************************************)
(* The inductive invariant of the projection holds in every state: the     *)
(* life of an order and its promises, the types, the service behind every  *)
(* event, the outbox as the interleaved streams, and what the projection   *)
(* shows of them.                                                          *)
(***************************************************************************)
THEOREM ProjectionInvariant == Spec => []ProjInv
  BY ProjInvInit, ProjInvStep, PTL DEF Spec

(***************************************************************************)
(* What callers have been told.                                            *)
(***************************************************************************)
AnswersOK ==
  /\ reply \in [Callers -> Replies]
  /\ acked \subseteq [id : OrderIDs, type : {"OrderPlaced", "OrderShipped"}]

(***************************************************************************)
(* Callers are answered with the replies of the handlers, about events of  *)
(* orders.                                                                 *)
(***************************************************************************)
LEMMA AnswersStep ==
  ASSUME AnswersOK, ProjInv, [Next]_vars
  PROVE  AnswersOK'
<1>1. ASSUME NEW c \in Callers, NEW r \in Replies, Answer(c, r) PROVE AnswersOK'
  BY <1>1 DEF AnswersOK, Answer
<1>2. ASSUME NEW c \in Callers, Acknowledge(c), pc[c] # "ready" PROVE AnswersOK'
  <2>1. pending[c] \in Decisions
    BY <1>2 DEF ProjInv, TellInv, LifeInv, DecisionsOK
  <2>2. pending[c].id \in OrderIDs /\ pending[c].event \in Events
    BY <2>1 DEF Decisions
  <2>3. pending[c].event.type \in {"OrderPlaced", "OrderShipped"}
    BY <2>2, EventTypes
  <2>4. "ok" \in Replies
    BY DEF Replies
  <2> QED
    BY <1>2, <2>2, <2>3, <2>4 DEF AnswersOK, Acknowledge
<1>3. ASSUME NEW c \in Callers, NEW id, NEW event, Decide(c, id, event) PROVE AnswersOK'
  BY <1>3 DEF AnswersOK, Decide, Replies
<1>4. ASSUME UNCHANGED <<reply, acked>> PROVE AnswersOK'
  BY <1>4 DEF AnswersOK
<1>5. ASSUME NEW c \in Callers, NEW id, NEW details, Place(c, id, details) PROVE AnswersOK'
  BY <1>1, <1>3, <1>5 DEF Place, Replies
<1>6. ASSUME NEW c \in Callers,
             AppPlaceOrder(c) \/ BusPlaceOrder(c) \/ ShipOrder(c) \/ GetOrder(c)
      PROVE  AnswersOK'
  <2>1. CASE AppPlaceOrder(c)
    BY <1>1, <1>5, <2>1 DEF AppPlaceOrder, Rejected, Accepted, Replies
  <2>2. CASE BusPlaceOrder(c)
    BY <1>5, <2>2 DEF BusPlaceOrder
  <2>3. CASE ShipOrder(c)
    BY <1>1, <1>3, <2>3 DEF ShipOrder, Ship, Replies
  <2>4. CASE GetOrder(c)
    BY <1>1, <2>4 DEF GetOrder, Shown, Replies
  <2> QED
    BY <1>6, <2>1, <2>2, <2>3, <2>4
<1>7. ASSUME NEW c \in Callers,
             BadID(c) \/ BadJSON(c) \/ Fails(c) \/ AppendConflict(c) \/ AppendGivenUp(c)
      PROVE  AnswersOK'
  <2>1. CASE AppendGivenUp(c)
    BY <2>1 DEF AppendGivenUp, GivesUp, AnswersOK, Replies
  <2> QED
    BY <1>1, <1>7, <2>1 DEF BadID, BadJSON, Refuse, Fails, AppendConflict, Replies
<1>8. ASSUME NEW c \in Callers, AppendOk(c) PROVE AnswersOK'
  BY <1>2, <1>4, <1>8 DEF AppendOk
<1>9. ASSUME NEW c \in Callers, Publishes(c) PROVE AnswersOK'
  <2>1. CASE PublishInSave(c)
    BY <1>2, <2>1 DEF PublishInSave
  <2>2. CASE PublishFails(c)
    BY <2>2 DEF PublishFails, AnswersOK, Replies
  <2> QED
    BY <1>9, <2>1, <2>2 DEF Publishes
<1>10. CASE DecideLate \/ Dispatch \/ Mark \/ Redeliver \/ UNCHANGED vars
  BY <1>4, <1>10 DEF DecideLate, Dispatch, Mark, Redeliver, client, vars
<1> QED
  BY <1>6, <1>7, <1>8, <1>9, <1>10 DEF Next, Publishes

(***************************************************************************)
(* Variables keep their types; the cursors of the dispatcher stay in order *)
(* and within the outbox, and a caller has an append exactly while it runs *)
(* one.                                                                    *)
(***************************************************************************)
THEOREM Typing == Spec => []TypeOK
<1>1. Init => AnswersOK
  BY DEF Init, AnswersOK, Replies
<1>2. ProjInv /\ AnswersOK => TypeOK
  <2> SUFFICES ASSUME ProjInv, AnswersOK PROVE TypeOK
    OBVIOUS
  <2>1. \A id \in OrderIDs : Range(streams[id]) \subseteq Events
    BY DEF ProjInv, TellInv, LifeInv, StreamsOK, Range
  <2>2. AppendsOK
    BY DEF ProjInv, TellInv, LifeInv, DecisionsOK, Decisions, AppendsOK, Typed, NoAppend
  <2> QED
    BY <2>1, <2>2 DEF AnswersOK, ProjInv, TellInv, LifeInv, DecisionsOK, Typed, TypeOK, Records
<1> QED
  BY <1>1, <1>2, AnswersStep, ProjectionInvariant, PTL DEF Spec

(***************************************************************************)
(* Over a store without outbox, as long as nobody but Wire's handlers      *)
(* subscribes, every stored event is one that its caller has been told of, *)
(* or is about to be: an error means that nothing was stored.              *)
(***************************************************************************)
THEOREM StoredIsAlwaysTold == Spec => []StoredIsTold
BY ProjectionInvariant, PTL DEF ProjInv

(***************************************************************************)
(* Over a store without outbox, clients of the HTTP service read their own *)
(* writes.                                                                 *)
(***************************************************************************)
THEOREM WritesAreRead == Spec => []ReadsOwnWrites
<1>1. ProjInv => ReadsOwnWrites
  BY DEF ProjInv, Projected, ShowsTold, ReadsOwnWrites, Shown, Http
<1> QED
  BY <1>1, ProjectionInvariant, PTL

(***************************************************************************)
(* What GetOrder shows is what the client asked for, and nothing the       *)
(* parsers reject, however the events came to the projection.              *)
(***************************************************************************)
THEOREM SummaryIsAsAsked == Spec => []SummaryAsAsked
<1>1. ProjInv => SummaryAsAsked
  <2> SUFFICES ASSUME ProjInv, NEW id \in OrderIDs, viaApp, Found(id)
               PROVE  /\ asked[id] # NotAsked
                      /\ summary[id].details.name = asked[id].name /\ asked[id].name # "blank"
                      /\ summary[id].details.amount = asked[id].amount /\ asked[id].amount > 0
                      /\ asked[id].note \in {"absent", "ring"}
                      /\ summary[id].details.notes =
                           IF asked[id].note = "absent" THEN None ELSE Some("ring")
    BY DEF SummaryAsAsked
  <2>1. Len(streams[id]) >= 1 /\ summary[id].details = streams[id][1].details
    BY DEF ProjInv, Projected, Reflects
  <2>2. 1 \in 1..Len(streams[id]) /\ streams[id][1].type = "OrderPlaced"
    BY <2>1 DEF ProjInv, TellInv, LifeInv, StreamsOK, LifeOK
  <2>3. /\ asked[id] # NotAsked /\ BadFields(asked[id]) = {}
        /\ streams[id][1].details = Parsed(asked[id])
    BY <2>2 DEF ProjInv, Grounded, SoundAt
  <2>4. PICK input \in Inputs : input = asked[id]
    BY <2>3 DEF ProjInv, Typed
  <2>5. input.name # "blank" /\ input.amount # 0 /\ input.note \notin {"blank", "long"}
    BY <2>3, <2>4 DEF BadFields, ParseFails
  <2>6. input.amount \in {0, 1} /\ input.note \in {"absent", "blank", "long", "ring"}
    BY DEF Inputs
  <2> QED
    BY <2>1, <2>3, <2>4, <2>5, <2>6 DEF Parsed
<1> QED
  BY <1>1, ProjectionInvariant, PTL

(***************************************************************************)
(* When everything stored has been delivered, redeliveries included, the   *)
(* summary of every order says what its stream says.                       *)
(***************************************************************************)
THEOREM SummaryAgreesWhenSettled == Spec => []SummaryAgrees
<1>1. ProjInv => SummaryAgrees
  <2> SUFFICES ASSUME ProjInv, viaApp \/ hasOutbox, NEW id \in OrderIDs, Settled(id)
               PROVE  IF streams[id] = <<>>
                        THEN ~Found(id)
                        ELSE summary[id] = [details |-> streams[id][1].details,
                                            shipped |-> Status(streams[id]) = "shipped"]
    BY DEF SummaryAgrees
  <2>1. LifeOK(streams[id]) /\ Len(streams[id]) \in 0..2
    BY LivesAreShort DEF ProjInv, TellInv, LifeInv, StreamsOK
  <2>2. Found(id) => /\ Len(streams[id]) >= 1
                     /\ summary[id].details = streams[id][1].details
                     /\ summary[id].shipped => Len(streams[id]) = 2
    BY DEF ProjInv, Projected, Reflects
  <2>3. CASE streams[id] = <<>>
    BY <2>2, <2>3
  <2>4. CASE streams[id] # <<>>
    <3>1. Len(streams[id]) \in {1, 2} /\ (Status(streams[id]) = "shipped" <=> Len(streams[id]) = 2)
      BY <2>1, <2>4, StatusTellsLength
    <3>2. ASSUME NEW i \in 1..Len(streams[id])
          PROVE  Found(id) /\ (streams[id][i].type = "OrderShipped" => summary[id].shipped)
      <4>1. CASE hasOutbox
        <5>1. PICK k \in 1..Len(outbox) : outbox[k].id = id /\ outbox[k].event = streams[id][i]
          BY <4>1 DEF ProjInv, Ledger, StoredAreEntered
        <5>2. k \in 1..handed
          BY DEF Settled
        <5> QED
          BY <5>1, <5>2 DEF ProjInv, Projected, ShowsHanded
      <4>2. CASE ~hasOutbox
        BY <4>2 DEF ProjInv, Projected, ShowsStored, Shows, ToPublish, Settled
      <4> QED
        BY <4>1, <4>2
    <3>3. Found(id)
      <4>1. 1 \in 1..Len(streams[id])
        BY <3>1
      <4> QED
        BY <3>2, <4>1
    <3>4. summary[id].shipped <=> Len(streams[id]) = 2
      <4>1. CASE Len(streams[id]) = 2
        <5>1. 2 \in 1..Len(streams[id]) /\ streams[id][2].type = "OrderShipped"
          BY <2>1, <4>1 DEF LifeOK
        <5> QED
          BY <3>2, <4>1, <5>1
      <4>2. CASE Len(streams[id]) # 2
        BY <2>2, <3>3, <4>2
      <4> QED
        BY <4>1, <4>2
    <3>5. summary[id] \in Records /\ summary[id].shipped \in BOOLEAN
      BY <3>3 DEF Found, ProjInv, Typed, Records
    <3>6. summary[id].shipped = (Status(streams[id]) = "shipped")
      BY <3>1, <3>4, <3>5
    <3>7. summary[id] = [details |-> summary[id].details, shipped |-> summary[id].shipped]
      BY <3>5 DEF Records
    <3> QED
      BY <2>2, <2>4, <3>3, <3>6, <3>7
  <2> QED
    BY <2>3, <2>4
<1> QED
  BY <1>1, ProjectionInvariant, PTL

(***************************************************************************)
(* An order that has been shown as shipped is not shown as placed again,   *)
(* unless the dispatcher redelivers: the event that would do it has been   *)
(* handed over, or its caller told, before.                                *)
(***************************************************************************)
LEMMA StaysShown ==
  ASSUME ProjInv, [Next]_vars, viaApp \/ hasOutbox, redeliveries = 0,
         NEW id \in OrderIDs, ShowsShipped(id)
  PROVE  ShowsShipped(id)'
<1>1. Typed /\ LifeInv /\ Grounded
  BY DEF ProjInv, TellInv
<1>2. ASSUME NEW x \in OrderIDs, NEW e \in Events, Due(x, e), x = id => e.type = "OrderShipped"
      PROVE  ShowsShipped(id)'
  <2>1. /\ \A o \in OrderIDs : o # x => summary'[o] = summary[o]
        /\ summary'[x] # NoSummary
        /\ summary'[x].shipped = (e.type = "OrderShipped")
    BY <1>1, <1>2, PublishShows DEF Due
  <2> QED
    BY <1>2, <2>1 DEF ShowsShipped, Found
<1>3. CASE Dispatch
  <2>1. PICK n \in 1..Len(outbox) : n = handed + 1
    BY <1>3, DispatchIsDue
  <2>2. PICK x \in OrderIDs, e \in Events : x = outbox[n].id /\ e = outbox[n].event /\ Due(x, e)
    BY <1>3, <2>1, DispatchIsDue
  <2>3. ASSUME x = id, e.type = "OrderPlaced" PROVE FALSE
    <3>1. hasOutbox
      BY <1>1, <2>1 DEF Typed
    <3>2. PICK k \in 1..handed : outbox[k].id = id /\ outbox[k].event.type = "OrderShipped"
      BY <3>1 DEF ProjInv, Projected, ShippedIsHanded
    <3>3. handed \in Nat /\ k \in 1..Len(outbox)
      BY <1>1, <2>1 DEF Typed
    <3>4. PICK j \in 1..(k - 1) : outbox[j].id = id /\ outbox[j].event.type = "OrderPlaced"
      BY <3>2, <3>3 DEF ProjInv, Ledger, PlacedFirst
    <3>5. j \in 1..Len(outbox) /\ j # n
      BY <2>1, <3>3
    <3> QED
      BY <2>2, <2>3, <3>4, <3>5 DEF ProjInv, Ledger, EnteredOnce
  <2> QED
    BY <1>2, <2>2, <2>3, EventTypes
<1>4. ASSUME NEW c \in Callers, Publishes(c) PROVE ShowsShipped(id)'
  <2>1. PICK x \in OrderIDs, e \in Events :
          x = pending[c].id /\ e = pending[c].event /\ Due(x, e) /\ ~hasOutbox
    BY <1>4, PublishingIsDue
  <2>2. ASSUME x = id, e.type = "OrderPlaced" PROVE FALSE
    <3>1. [id |-> id, type |-> "OrderPlaced"] \notin acked
      BY <1>4, <2>1, <2>2 DEF Publishes, PublishInSave, PublishFails, ProjInv, TellInv,
         PublishersApart, Told
    <3>2. Len(streams[id]) = 2
      BY DEF ProjInv, Projected, Reflects, ShowsShipped
    <3> QED
      BY <1>1, <2>1, <3>1, <3>2, PlacedBeforeShipped
  <2> QED
    BY <1>2, <2>1, <2>2, EventTypes
<1>5. ASSUME summary' = summary PROVE ShowsShipped(id)'
  BY <1>5 DEF ShowsShipped, Found
<1>6. ASSUME NEW c \in Callers, RequestStep(c) \/ AppendOk(c)
      PROVE  summary' = summary
  BY <1>6 DEF RequestStep, AppendOk
<1>7. ASSUME DecideLate \/ Mark \/ Redeliver \/ UNCHANGED vars
      PROVE  summary' = summary
  BY <1>7 DEF DecideLate, Mark, Redeliver, vars
<1> QED
  BY <1>1, <1>3, <1>4, <1>5, <1>6, <1>7, StepKinds

(***************************************************************************)
(* An order that has been shown as shipped is not shown as placed again,   *)
(* unless the dispatcher redelivers.                                       *)
(***************************************************************************)
THEOREM ShippedStaysShown == Spec => NeverUnshipped
<1>1. ProjInv /\ [Next]_vars =>
        [(viaApp \/ hasOutbox) /\ redeliveries = 0 =>
           \A id \in OrderIDs : ShowsShipped(id) => ShowsShipped(id)']_vars
  BY StaysShown
<1> QED
  BY <1>1, ProjectionInvariant, PTL DEF Spec, NeverUnshipped
=============================================================================
