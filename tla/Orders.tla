------------------------------- MODULE Orders -------------------------------
(***************************************************************************)
(* The orders example: callers place and ship orders through the handlers  *)
(* of domain.Wire, and the summary projection follows the stored events.   *)
(*                                                                         *)
(* Commands come through the application service, which parses the input   *)
(* and issues a fresh id for every order, or straight from the command     *)
(* bus, under ids of the sender's choice.  The events come from Save (a    *)
(* store without outbox) or from one dispatcher that may redeliver.        *)
(***************************************************************************)
EXTENDS Naturals, SequencesExt, Maybe

CONSTANTS
  OrderIDs,
  Callers,           \* goroutines that handle one request at a time
  MaxRedeliveries    \* bound on the batches that are delivered again

ASSUME OrdersAssumption == MaxRedeliveries \in Nat

VARIABLES
  viaApp,            \* do the callers use package app?  Fixed for good
  hasOutbox,         \* does the store implement event.Outbox?  Fixed for good
  others,            \* do handlers that may fail subscribe, too?  Fixed for good
  streams,           \* the stored events of each order
  outbox,            \* the same events in the order of the outbox
  marked,            \* how many outbox entries are marked dispatched
  handed,            \* how many the dispatcher has published
  redeliveries,
  late,              \* appends whose callers have been told of an error
  pc,                \* where each caller is in its command handler
  pending,           \* the append each caller has decided on
  reply,             \* what each caller was last told
  summary,           \* SummaryProjection.records
  asked,             \* ghost: the input each issued id answers
  acked              \* ghost: what callers have been told is done

fixed == <<viaApp, hasOutbox, others>>
dispatcher == <<marked, handed, redeliveries>>
stored == <<streams, outbox, late>>

client == <<pc, pending, reply>>

vars == <<fixed, stored, dispatcher, client, summary, asked, acked>>

NoAppend  == [id |-> "none"]
NoSummary == [record |-> "none"]
NotAsked  == [name |-> "none"]

-----------------------------------------------------------------------------
(* Inputs, value objects and events.                                       *)

(***************************************************************************)
(* "blank" is what is empty after trimming, "long" a note of more than 500 *)
(* bytes, "absent" a nil pointer, and 0 any amount that is not positive.   *)
(***************************************************************************)
Inputs ==
  [name : {"ann", "blank"}, amount : {0, 1}, note : {"absent", "blank", "long", "ring"}]

ParseFails(field, input) ==
  \/ field = "customer_name" /\ input.name = "blank"
  \/ field = "amount" /\ input.amount = 0
  \/ field = "notes" /\ input.note \in {"blank", "long"}

RequiredOnly(input) ==   \* mutant: the optional field is not checked
  {f \in {"customer_name", "amount"} : ParseFails(f, input)}

(***************************************************************************)
(* The Validator: the fields that validation.Error lists.                  *)
(***************************************************************************)
BadFields(input) ==
  {f \in {"customer_name", "amount", "notes"} : ParseFails(f, input)}

Parsed(input) ==
  [name   |-> input.name,
   amount |-> input.amount,
   notes  |-> IF input.note = "absent" THEN None ELSE Some(input.note)]

Details     == [name : {"ann"}, amount : {1}, notes : MaybeOf({"ring"})]
ZeroDetails == [name |-> "", amount |-> 0, notes |-> None]   \* of OrderSummary{}

OrderPlaced(details) == [type |-> "OrderPlaced", details |-> details]
OrderShipped == [type |-> "OrderShipped"]
Events == {OrderPlaced(d) : d \in Details} \cup {OrderShipped}

(***************************************************************************)
(* A note as a JSON string, and back.                                      *)
(***************************************************************************)
noteJSON == [n \in {"blank", "long", "ring"} |-> <<"string", n>>]
jsonNote == [j \in {noteJSON[n] : n \in DOMAIN noteJSON} |-> j[2]]

(***************************************************************************)
(* The notes of an event that has been through the outbox's JSON column.   *)
(***************************************************************************)
OverJSON(notes) == UnmarshalJSON(None, MarshalJSON(notes, noteJSON), jsonNote)

(***************************************************************************)
(* How a request ends: nil, a summary, a validation.Error, a refusal of    *)
(* the domain, ErrNotFound (of a stream or of a summary; the service makes *)
(* them one), ErrConcurrencyConflict, or another error.                    *)
(***************************************************************************)
Replies ==
  {"none", "ok", "found", "invalid", "malformed", "refused", "not_found", "conflict", "failed"}

(***************************************************************************)
(* The status of the HTTP response; 200 stands for 201 and 204 as well.    *)
(***************************************************************************)
Http(r) ==
  CASE r \in {"ok", "found"} -> 200
    [] r = "invalid"         -> 422
    [] r = "not_found"       -> 404
    [] OTHER                 -> 400

(***************************************************************************)
(* Order.Apply, over a whole stream: the last event decides.               *)
(***************************************************************************)
Status(stream) ==
  CASE stream = <<>>                     -> "new"
    [] stream # <<>> /\ Last(stream).type = "OrderPlaced"  -> "placed"
    [] stream # <<>> /\ Last(stream).type = "OrderShipped" -> "shipped"

Init ==
  /\ viaApp \in BOOLEAN
  /\ hasOutbox \in BOOLEAN
  /\ others \in BOOLEAN
  /\ streams = [id \in OrderIDs |-> <<>>]
  /\ outbox = <<>>
  /\ marked = 0 /\ handed = 0 /\ redeliveries = 0
  /\ late = {}
  /\ pc = [c \in Callers |-> "ready"]
  /\ pending = [c \in Callers |-> NoAppend]
  /\ reply = [c \in Callers |-> "none"]
  /\ summary = [id \in OrderIDs |-> NoSummary]
  /\ asked = [id \in OrderIDs |-> NotAsked]
  /\ acked = {}

-----------------------------------------------------------------------------
(* Command handlers: load the order, decide, then Save.                    *)

(***************************************************************************)
(* The request ends with r, and nothing was stored on its behalf.          *)
(***************************************************************************)
Answer(c, r) ==
  /\ reply' = [reply EXCEPT ![c] = r]
  /\ pc' = [pc EXCEPT ![c] = "ready"]
  /\ pending' = [pending EXCEPT ![c] = NoAppend]
  /\ UNCHANGED <<stored, summary, acked>>

(***************************************************************************)
(* The handler has raised the event and calls Append.                      *)
(***************************************************************************)
Decide(c, id, event) ==
  /\ pc' = [pc EXCEPT ![c] = "append"]
  /\ pending' = [pending EXCEPT
       ![c] = [id |-> id, event |-> event, expected |-> Len(streams[id])]]
  /\ reply' = [reply EXCEPT ![c] = "none"]
  /\ UNCHANGED <<stored, summary, acked>>

(***************************************************************************)
(* An order can be placed while its stream does not exist.                 *)
(***************************************************************************)
Place(c, id, details) ==
  IF Status(streams[id]) = "new"
    THEN Decide(c, id, OrderPlaced(details))
    ELSE Answer(c, "refused")

BusPlaceOrder(c) ==
  /\ ~viaApp
  /\ pc[c] = "ready"
  /\ \E id \in OrderIDs, details \in Details : Place(c, id, details)
  /\ UNCHANGED <<fixed, dispatcher, asked>>

(***************************************************************************)
(* The service parses the input and sends the command under a fresh id.    *)
(***************************************************************************)
Rejected(c, input) ==
  /\ BadFields(input) # {}
  /\ Answer(c, "invalid")
  /\ UNCHANGED asked

Accepted(c, input, id) ==
  /\ BadFields(input) = {}
  /\ asked[id] = NotAsked
  /\ asked' = [asked EXCEPT ![id] = input]
  /\ Place(c, id, Parsed(input))

AppPlaceOrder(c) ==
  /\ viaApp
  /\ pc[c] = "ready"
  /\ \E input \in Inputs :
       \/ Rejected(c, input)
       \/ \E id \in OrderIDs : Accepted(c, input, id)
  /\ UNCHANGED <<fixed, dispatcher>>

(***************************************************************************)
(* Ids that a client can name: those it was told, and those nobody has.    *)
(***************************************************************************)
Nameable(id) ==
  viaApp => asked[id] = NotAsked \/ [id |-> id, type |-> "OrderPlaced"] \in acked

Ship(c, id) ==
  IF Status(streams[id]) = "shipped"
    THEN Answer(c, "refused")
    ELSE Decide(c, id, OrderShipped)

(***************************************************************************)
(* Load does not find an empty stream, so that Ship never sees status new. *)
(***************************************************************************)
ShipOrder(c) ==
  /\ pc[c] = "ready"
  /\ \E id \in OrderIDs :
       /\ Nameable(id)
       /\ IF streams[id] = <<>> THEN Answer(c, "not_found") ELSE Ship(c, id)
  /\ UNCHANGED <<fixed, dispatcher, asked>>

(***************************************************************************)
(* GetOrder finds a record, and the record says that the order is shipped. *)
(***************************************************************************)
Found(id) == summary[id] # NoSummary
ShowsShipped(id) == Found(id) /\ summary[id].shipped

Shown(id) == IF Found(id) THEN "found" ELSE "not_found"

GetOrder(c) ==
  /\ viaApp
  /\ pc[c] = "ready"
  /\ \E id \in OrderIDs : Nameable(id) /\ Answer(c, Shown(id))
  /\ UNCHANGED <<fixed, dispatcher, asked>>

(***************************************************************************)
(* ShipOrder or GetOrder with an id that is not a UUID, and POST /orders   *)
(* with a body that does not decode.                                       *)
(***************************************************************************)
Refuse(c, r) ==
  viaApp /\ pc[c] = "ready" /\ Answer(c, r) /\ UNCHANGED <<fixed, dispatcher, asked>>

BadID(c)   == Refuse(c, "invalid")
BadJSON(c) == ~hasOutbox /\ Refuse(c, "malformed")

(***************************************************************************)
(* Load or Append returns an error and nothing is stored.                  *)
(***************************************************************************)
Fails(c) ==
  /\ pc[c] \in {"ready", "append"}
  /\ Answer(c, "failed")
  /\ UNCHANGED <<fixed, dispatcher, asked>>

AnyHead(a) == TRUE   \* mutant: Append does not compare versions

HeadFits(a) == Len(streams[a.id]) = a.expected

Store(a) ==
  /\ streams' = [streams EXCEPT ![a.id] = Append(@, a.event)]
  /\ outbox' = IF hasOutbox THEN Append(outbox, [id |-> a.id, event |-> a.event])
                            ELSE outbox

(***************************************************************************)
(* Save returns nil.                                                       *)
(***************************************************************************)
Acknowledge(c) ==
  /\ reply' = [reply EXCEPT ![c] = "ok"]
  /\ acked' = acked \cup {[id |-> pending[c].id, type |-> pending[c].event.type]}
  /\ pc' = [pc EXCEPT ![c] = "ready"]
  /\ pending' = [pending EXCEPT ![c] = NoAppend]

NeverPublishes(c) ==   \* mutant: Save takes every store for an outbox
  /\ pc[c] = "append"
  /\ HeadFits(pending[c])
  /\ Store(pending[c])
  /\ Acknowledge(c)
  /\ UNCHANGED <<fixed, dispatcher, late, summary, asked>>

AppendOk(c) ==
  /\ pc[c] = "append"
  /\ HeadFits(pending[c])
  /\ Store(pending[c])
  /\ IF hasOutbox
       THEN Acknowledge(c)
       ELSE pc' = [pc EXCEPT ![c] = "publish"] /\ UNCHANGED <<reply, acked, pending>>
  /\ UNCHANGED <<fixed, dispatcher, late, summary, asked>>

ConflictSwallowed(c) ==   \* mutant: the handler takes a conflict for success
  /\ pc[c] = "append"
  /\ ~HeadFits(pending[c])
  /\ Acknowledge(c)
  /\ UNCHANGED <<fixed, dispatcher, stored, summary, asked>>

(***************************************************************************)
(* The caller is told that the order changed under it.                     *)
(***************************************************************************)
AppendConflict(c) ==
  /\ pc[c] = "append"
  /\ ~HeadFits(pending[c])
  /\ Answer(c, "conflict")
  /\ UNCHANGED <<fixed, dispatcher, asked>>

GivesUp(c) ==   \* as a mutant of AppendGivenUp: a plain store goes on, too
  /\ pc[c] = "append"
  /\ late' = late \cup {pending[c]}
  /\ reply' = [reply EXCEPT ![c] = "failed"]
  /\ pc' = [pc EXCEPT ![c] = "ready"]
  /\ pending' = [pending EXCEPT ![c] = NoAppend]
  /\ UNCHANGED <<fixed, dispatcher, streams, outbox, summary, asked, acked>>

(***************************************************************************)
(* Append returns an error while its transaction is still under way.       *)
(***************************************************************************)
AppendGivenUp(c) == hasOutbox /\ GivesUp(c)

DecideLate ==
  \E a \in late :
    /\ late' = late \ {a}
    /\ \/ HeadFits(a) /\ Store(a)
       \/ UNCHANGED <<streams, outbox>>
    /\ UNCHANGED <<fixed, dispatcher, client, summary, asked, acked>>

-----------------------------------------------------------------------------
(* The projection, and the two ways events get to it.                      *)

OnOrderPlaced(id, details) ==
  summary' = [summary EXCEPT ![id] = [details |-> details, shipped |-> FALSE]]

FreshRecord(id) ==   \* mutant: the handler does not read the record first
  summary' = [summary EXCEPT ![id] = [details |-> ZeroDetails, shipped |-> TRUE]]

(***************************************************************************)
(* The map's zero record stands in for a missing one.                      *)
(***************************************************************************)
OnOrderShipped(id) ==
  summary' = [summary EXCEPT
    ![id] = [details |-> IF @ = NoSummary THEN ZeroDetails ELSE @.details, shipped |-> TRUE]]

Publish(id, event) ==
  IF event.type = "OrderPlaced" THEN OnOrderPlaced(id, event.details)
                                ELSE OnOrderShipped(id)

(***************************************************************************)
(* Over a store without outbox, Save publishes before it returns.          *)
(***************************************************************************)
PublishInSave(c) ==
  /\ pc[c] = "publish"
  /\ Publish(pending[c].id, pending[c].event)
  /\ Acknowledge(c)
  /\ UNCHANGED <<fixed, dispatcher, stored, asked>>

(***************************************************************************)
(* The handlers of Wire never return an error.  When another subscriber    *)
(* does, the bus has run the projection's handler all the same, and Save   *)
(* returns the error of an event that is stored.  (Over an outbox the      *)
(* dispatcher leaves the entry unmarked then: see Redeliver.)              *)
(***************************************************************************)
PublishFails(c) ==
  /\ others
  /\ pc[c] = "publish"
  /\ Publish(pending[c].id, pending[c].event)
  /\ reply' = [reply EXCEPT ![c] = "failed"]
  /\ pc' = [pc EXCEPT ![c] = "ready"]
  /\ pending' = [pending EXCEPT ![c] = NoAppend]
  /\ UNCHANGED <<fixed, dispatcher, stored, asked, acked>>

(***************************************************************************)
(* What Claim makes of the stored event.                                   *)
(***************************************************************************)
Unmarshalled(event) ==
  IF event.type = "OrderPlaced"
    THEN OrderPlaced([event.details EXCEPT !.notes = OverJSON(@)])
    ELSE event

LatestFirst ==   \* mutant: ORDER BY id DESC
  /\ handed < Len(outbox)
  /\ LET entry == outbox[Len(outbox) - handed] IN Publish(entry.id, entry.event)
  /\ handed' = handed + 1
  /\ UNCHANGED <<fixed, stored, marked, redeliveries, client, asked, acked>>

(***************************************************************************)
(* One dispatcher hands the entries over in their order.                   *)
(***************************************************************************)
Dispatch ==
  /\ handed < Len(outbox)
  /\ Publish(outbox[handed + 1].id, Unmarshalled(outbox[handed + 1].event))
  /\ handed' = handed + 1
  /\ UNCHANGED <<fixed, stored, marked, redeliveries, client, asked, acked>>

MarkAll ==   \* mutant: the commit marks what was not handed over
  /\ handed < Len(outbox)
  /\ marked' = Len(outbox) /\ handed' = Len(outbox)
  /\ UNCHANGED <<fixed, stored, redeliveries, client, summary, asked, acked>>

Mark ==
  /\ marked < handed
  /\ marked' = handed
  /\ UNCHANGED <<fixed, stored, handed, redeliveries, client, summary, asked, acked>>

RedeliverAll ==   \* mutant: the dispatcher starts over
  /\ marked < handed
  /\ redeliveries < MaxRedeliveries
  /\ handed' = 0
  /\ redeliveries' = redeliveries + 1
  /\ UNCHANGED <<fixed, stored, marked, client, summary, asked, acked>>

(***************************************************************************)
(* The commit of the claim fails, or another subscriber does: the entries  *)
(* are claimed again.                                                      *)
(***************************************************************************)
Redeliver ==
  /\ marked < handed
  /\ redeliveries < MaxRedeliveries
  /\ handed' = marked
  /\ redeliveries' = redeliveries + 1
  /\ UNCHANGED <<fixed, stored, marked, client, summary, asked, acked>>

Next ==
  \/ \E c \in Callers :
       \/ AppPlaceOrder(c) \/ BusPlaceOrder(c) \/ ShipOrder(c)
       \/ GetOrder(c) \/ BadID(c) \/ BadJSON(c)
       \/ Fails(c) \/ AppendOk(c) \/ AppendConflict(c) \/ AppendGivenUp(c)
       \/ PublishInSave(c) \/ PublishFails(c)
  \/ DecideLate
  \/ Dispatch \/ Mark \/ Redeliver

Spec == Init /\ [][Next]_vars

(***************************************************************************)
(* A goroutine that has appended goes on to publish, and the dispatcher    *)
(* goes on.  Nobody has to send a command or to decide a late append.      *)
(***************************************************************************)
Fairness ==
  /\ \A c \in Callers : WF_vars(PublishInSave(c))
  /\ WF_vars(Dispatch)
  /\ WF_vars(Mark)

FairSpec == Spec /\ Fairness

-----------------------------------------------------------------------------
(***************************************************************************)
(* The type invariant, with the two cursors of the dispatcher.             *)
(***************************************************************************)
AppendsOK ==
  LET Appends == [id : OrderIDs, event : Events, expected : {0, 1}]
  IN /\ late \subseteq Appends
     /\ \A c \in Callers : pending[c] = NoAppend <=> pc[c] = "ready"
     /\ \A c \in Callers : pc[c] # "ready" => pending[c] \in Appends

TypeOK ==
  /\ viaApp \in BOOLEAN /\ hasOutbox \in BOOLEAN /\ others \in BOOLEAN
  /\ \A id \in OrderIDs : Range(streams[id]) \subseteq Events
  /\ marked <= handed /\ handed <= Len(outbox)
  /\ redeliveries \in 0..MaxRedeliveries
  /\ pc \in [Callers -> {"ready", "append", "publish"}]
  /\ AppendsOK
  /\ reply \in [Callers -> Replies]
  /\ summary \in [OrderIDs -> [details : Details \cup {ZeroDetails}, shipped : BOOLEAN] \cup {NoSummary}]
  /\ asked \in [OrderIDs -> Inputs \cup {NotAsked}]
  /\ acked \subseteq [id : OrderIDs, type : {"OrderPlaced", "OrderShipped"}]

Acked(id, type) == [id |-> id, type |-> type] \in acked

(***************************************************************************)
(* However many callers place and ship an order at once, and whatever      *)
(* late appends do: it is placed once, and shipped at most once, after     *)
(* that.                                                                   *)
(***************************************************************************)
OneLife ==
  \A id \in OrderIDs :
    /\ Len(streams[id]) <= 2
    /\ Len(streams[id]) >= 1 => streams[id][1].type = "OrderPlaced"
    /\ Len(streams[id]) = 2 => streams[id][2].type = "OrderShipped"

(***************************************************************************)
(* Of the callers that place or ship one order, one at most is told that   *)
(* it did.                                                                 *)
(***************************************************************************)
OneIsTold ==
  [][\A c \in Callers :
       (reply[c] # "ok" /\ reply'[c] = "ok") =>
          ~Acked(pending[c].id, pending[c].event.type)]_vars

(***************************************************************************)
(* Over a store without outbox, a client of the HTTP service reads its own *)
(* writes: GET finds the order it placed, never a 404, and shows it as     *)
(* shipped once the request to ship it has succeeded.                      *)
(***************************************************************************)
ReadsOwnWrites ==
  viaApp /\ ~hasOutbox =>
    \A id \in OrderIDs :
      /\ Acked(id, "OrderPlaced") => Http(Shown(id)) = 200
      /\ Acked(id, "OrderShipped") => ShowsShipped(id)

(***************************************************************************)
(* Over a store without outbox, as long as nobody but Wire's handlers      *)
(* subscribes, an error means that nothing was stored, so that a client    *)
(* may ask again: every stored event is one that its caller has been told  *)
(* of, or is about to be.  (PlaceOrder issues a new id for every attempt.  *)
(* Where another subscriber fails, or over an outbox, where an append can  *)
(* land late, a retry may place the order a second time.)                  *)
(***************************************************************************)
StoredIsTold ==
  ~hasOutbox /\ ~others =>
    \A id \in OrderIDs : \A i \in DOMAIN streams[id] :
      \/ Acked(id, streams[id][i].type)
      \/ \E c \in Callers : pc[c] = "publish" /\ pending[c].id = id /\ pending[c].event = streams[id][i]

(***************************************************************************)
(* An order that has been shown as shipped is not shown as placed again,   *)
(* unless the dispatcher redelivers.                                       *)
(***************************************************************************)
NeverUnshipped ==
  [][(viaApp \/ hasOutbox) /\ redeliveries = 0 =>
       \A id \in OrderIDs : ShowsShipped(id) => ShowsShipped(id)']_vars

(***************************************************************************)
(* No event of the order is on its way to the projection.                  *)
(***************************************************************************)
Settled(id) ==
  /\ handed = Len(outbox)
  /\ \A c \in Callers : ~(pc[c] = "publish" /\ pending[c].id = id)

(***************************************************************************)
(* When everything has been delivered, redeliveries included, the summary  *)
(* says what the stream says.  Without an outbox this needs ids that are   *)
(* not known before Save has returned, as the service issues them.         *)
(***************************************************************************)
SummaryAgrees ==
  viaApp \/ hasOutbox =>
    \A id \in OrderIDs : Settled(id) =>
      IF streams[id] = <<>>
        THEN ~Found(id)
        ELSE summary[id] = [details |-> streams[id][1].details,
                            shipped |-> Status(streams[id]) = "shipped"]

(***************************************************************************)
(* What GetOrder shows is what the client asked for, a note exactly if it  *)
(* gave one, and nothing the parsers reject.                               *)
(***************************************************************************)
SummaryAsAsked ==
  \A id \in OrderIDs : (viaApp /\ Found(id)) =>
    /\ asked[id] # NotAsked
    /\ summary[id].details.name = asked[id].name /\ asked[id].name # "blank"
    /\ summary[id].details.amount = asked[id].amount /\ asked[id].amount > 0
    /\ asked[id].note \in {"absent", "ring"}
    /\ summary[id].details.notes = IF asked[id].note = "absent" THEN None ELSE Some("ring")

(***************************************************************************)
(* An order that is shipped in the store is some day shown as shipped, and *)
(* from then on for good.                                                  *)
(***************************************************************************)
ShippingShows ==
  viaApp \/ hasOutbox =>
    \A id \in OrderIDs :
      Len(streams[id]) = 2 ~> []ShowsShipped(id)

=============================================================================
