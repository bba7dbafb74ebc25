----------------------------- MODULE Repository -----------------------------
(***************************************************************************)
(* aggregate.Base and aggregate.Repository: goroutines that create or load *)
(* an aggregate, raise events on it and save it, against a store that      *)
(* keeps the contract of event.Store (module EventStore).                  *)
(*                                                                         *)
(* Save has two modes.  A store with an outbox only appends, and its       *)
(* Append can fail without telling whether the batch was stored, or will   *)
(* be.  A plain store (memory.Store) appends under a mutex, and Save then  *)
(* publishes the events itself, one by one.                                *)
(***************************************************************************)
EXTENDS Naturals, SequencesExt

CONSTANTS
  Aggregates,
  Workers,        \* goroutines, each with at most one aggregate object
  MaxRaised       \* bound on the events each worker raises in its life

ASSUME RepositoryAssumption == MaxRaised \in Nat

VARIABLES
  hasOutbox,      \* does the store implement event.Outbox?  Fixed for good
  streams,        \* the stored envelopes of each aggregate
  late,           \* Appends given up by their callers and still under way
  object,         \* the aggregate in the hands of each worker
  pc,             \* where each worker is in Save
  outgoing,       \* the envelopes Save has still to publish
  published,      \* events whose Publish returned nil
  saved,          \* events on an object whose last Save returned nil
  forgotten,      \* events that a Save stored and failed to publish
  raised          \* how many events each worker has raised

vars == <<hasOutbox, streams, late, object, pc, outgoing, published, saved, forgotten, raised>>

(***************************************************************************)
(* An event, known by who raised it, with the events its aggregate had     *)
(* applied by then: what the decision to raise it was based on.            *)
(***************************************************************************)
Names == Workers \X (1..MaxRaised)
Events == [name : Names, basis : Seq(Names)]
Envelopes == [event : Events, sequence : Nat \ {0}]

NoObject == [agg |-> "none"]

(***************************************************************************)
(* Base: "applied" is the aggregate's state, the events applied to it; its *)
(* length is currentVersion.                                               *)
(***************************************************************************)
Objects ==
  [agg : Aggregates, applied : Seq(Names), committed : Nat, uncommitted : Seq(Events)]

Init ==
  /\ hasOutbox \in BOOLEAN
  /\ streams = [g \in Aggregates |-> <<>>]
  /\ late = {}
  /\ object = [w \in Workers |-> NoObject]
  /\ pc = [w \in Workers |-> "ready"]
  /\ outgoing = [w \in Workers |-> <<>>]
  /\ published = {}
  /\ saved = {}
  /\ forgotten = {}
  /\ raised = [w \in Workers |-> 0]

NamesOf(envelopes) == [i \in DOMAIN envelopes |-> envelopes[i].event.name]
NamesIn(envelopes) == Range(NamesOf(envelopes))

Ready(w) == pc[w] = "ready" /\ object[w] # NoObject

-----------------------------------------------------------------------------
(* The aggregate.                                                          *)

(***************************************************************************)
(* A fresh aggregate under an id of the caller's choice, stored or not.    *)
(***************************************************************************)
New(w, g) ==
  /\ pc[w] = "ready"
  /\ object[w] = NoObject
  /\ object' = [object EXCEPT ![w] =
                  [agg |-> g, applied |-> <<>>, committed |-> 0, uncommitted |-> <<>>]]
  /\ UNCHANGED <<hasOutbox, streams, late, pc, outgoing, published, saved, forgotten, raised>>

Exists(g) == streams[g] # <<>>

(***************************************************************************)
(* Load: ErrStreamNotFound for an empty stream, otherwise rehydrate counts *)
(* every replayed event into both versions.                                *)
(***************************************************************************)
Load(w, g) ==
  /\ pc[w] = "ready"
  /\ object[w] = NoObject
  /\ Exists(g)
  /\ object' = [object EXCEPT ![w] =
                  [agg         |-> g,
                   applied     |-> NamesOf(streams[g]),
                   committed   |-> Len(streams[g]),
                   uncommitted |-> <<>>]]
  /\ UNCHANGED <<hasOutbox, streams, late, pc, outgoing, published, saved, forgotten, raised>>

Raise(w) ==
  /\ Ready(w)
  /\ raised[w] < MaxRaised
  /\ LET name == <<w, raised[w] + 1>>
     IN object' = [object EXCEPT
          ![w].applied     = Append(@, name),
          ![w].uncommitted = Append(@, [name |-> name, basis |-> object[w].applied])]
  /\ raised' = [raised EXCEPT ![w] = @ + 1]
  /\ UNCHANGED <<hasOutbox, streams, late, pc, outgoing, published, saved, forgotten>>

(***************************************************************************)
(* The worker lets its object go.                                          *)
(***************************************************************************)
Discard(w) ==
  /\ Ready(w)
  /\ object' = [object EXCEPT ![w] = NoObject]
  /\ UNCHANGED <<hasOutbox, streams, late, pc, outgoing, published, saved, forgotten, raised>>

-----------------------------------------------------------------------------
(* Save.                                                                   *)

(***************************************************************************)
(* Nothing is pending: nil.                                                *)
(***************************************************************************)
NothingToSave(w) ==
  /\ Ready(w)
  /\ object[w].uncommitted = <<>>
  /\ saved' = saved \cup Range(object[w].applied)
  /\ UNCHANGED <<hasOutbox, streams, late, object, pc, outgoing, published, forgotten, raised>>

PublishFirst(w) ==   \* mutant: Save publishes before it appends
  /\ Ready(w)
  /\ object[w].uncommitted # <<>>
  /\ pc' = [pc EXCEPT ![w] = "append"]
  /\ published' = published \cup {e.name : e \in Range(object[w].uncommitted)}
  /\ UNCHANGED <<hasOutbox, streams, late, object, outgoing, saved, forgotten, raised>>

BeginSave(w) ==
  /\ Ready(w)
  /\ object[w].uncommitted # <<>>
  /\ pc' = [pc EXCEPT ![w] = "append"]
  /\ UNCHANGED <<hasOutbox, streams, late, object, outgoing, published, saved, forgotten, raised>>

HeadAsExpected(w) == Len(streams[object[w].agg])   \* mutant: Save asks the store for its head

ExpectedVersion(w) == object[w].committed

FromCurrent(w) ==   \* mutant: envelopes are numbered from currentVersion
  [i \in DOMAIN object[w].uncommitted |->
     [event    |-> object[w].uncommitted[i],
      sequence |-> Len(object[w].applied) + i]]

(***************************************************************************)
(* The envelopes of Save, numbered from expectedVersion + 1.               *)
(***************************************************************************)
Pending(w) ==
  [i \in DOMAIN object[w].uncommitted |->
     [event    |-> object[w].uncommitted[i],
      sequence |-> ExpectedVersion(w) + i]]

HeadFits(w) == Len(streams[object[w].agg]) = ExpectedVersion(w)

Extend(g, envelopes) == streams' = [streams EXCEPT ![g] = @ \o envelopes]

ClearedOnly(o) == [o EXCEPT !.uncommitted = <<>>]   \* mutant: committedVersion stays

MarkedOnly(o) ==   \* mutant: the uncommitted events stay
  [o EXCEPT !.committed = Len(o.applied)]

MarkCommitted(o) ==
  [o EXCEPT !.uncommitted = <<>>, !.committed = Len(o.applied)]

(***************************************************************************)
(* Append returns nil.  Save is over if the store has an outbox.           *)
(***************************************************************************)
AppendOk(w) ==
  /\ pc[w] = "append"
  /\ HeadFits(w)
  /\ Extend(object[w].agg, Pending(w))
  /\ object' = [object EXCEPT ![w] = MarkCommitted(@)]
  /\ IF hasOutbox
       THEN /\ pc' = [pc EXCEPT ![w] = "ready"]
            /\ saved' = saved \cup Range(object[w].applied)
            /\ UNCHANGED outgoing
       ELSE /\ pc' = [pc EXCEPT ![w] = "publish"]
            /\ outgoing' = [outgoing EXCEPT ![w] = Pending(w)]
            /\ UNCHANGED saved
  /\ UNCHANGED <<hasOutbox, late, published, forgotten, raised>>

MarkAnyway(w) ==   \* mutant: a failed Append is followed by markCommitted too
  /\ pc[w] = "append"
  /\ ~HeadFits(w)
  /\ pc' = [pc EXCEPT ![w] = "ready"]
  /\ object' = [object EXCEPT ![w] = MarkCommitted(@)]
  /\ UNCHANGED <<hasOutbox, streams, late, outgoing, published, saved, forgotten, raised>>

(***************************************************************************)
(* ErrConcurrencyConflict: the object keeps its events and its versions.   *)
(***************************************************************************)
AppendConflict(w) ==
  /\ pc[w] = "append"
  /\ ~HeadFits(w)
  /\ pc' = [pc EXCEPT ![w] = "ready"]
  /\ UNCHANGED <<hasOutbox, streams, late, object, outgoing, published, saved, forgotten, raised>>

(***************************************************************************)
(* Append returns an error and nothing is stored (for a plain store, its   *)
(* context was cancelled).                                                 *)
(***************************************************************************)
AppendFails(w) ==
  /\ pc[w] = "append"
  /\ pc' = [pc EXCEPT ![w] = "ready"]
  /\ UNCHANGED <<hasOutbox, streams, late, object, outgoing, published, saved, forgotten, raised>>

(***************************************************************************)
(* Append returns an error, but the transaction is still under way.        *)
(***************************************************************************)
AppendGivenUp(w) ==
  /\ hasOutbox
  /\ pc[w] = "append"
  /\ late' = late \cup {[agg |-> object[w].agg, expected |-> ExpectedVersion(w),
                         envelopes |-> Pending(w)]}
  /\ pc' = [pc EXCEPT ![w] = "ready"]
  /\ UNCHANGED <<hasOutbox, streams, object, outgoing, published, saved, forgotten, raised>>

(***************************************************************************)
(* The store decides an Append whose caller is gone: it takes effect if it *)
(* still fits, or has none.                                                *)
(***************************************************************************)
DecideLate ==
  \E a \in late :
     /\ late' = late \ {a}
     /\ \/ Len(streams[a.agg]) = a.expected /\ Extend(a.agg, a.envelopes)
        \/ UNCHANGED streams
     /\ UNCHANGED <<hasOutbox, object, pc, outgoing, published, saved, forgotten, raised>>

PublishFirstOnly(w) ==   \* mutant: the loop returns what the first Publish returned
  /\ pc[w] = "publish"
  /\ published' = published \cup {Head(outgoing[w]).event.name}
  /\ outgoing' = [outgoing EXCEPT ![w] = <<>>]
  /\ pc' = [pc EXCEPT ![w] = "ready"]
  /\ saved' = saved \cup Range(object[w].applied)
  /\ UNCHANGED <<hasOutbox, streams, late, object, forgotten, raised>>

PublishOk(w) ==
  /\ pc[w] = "publish"
  /\ published' = published \cup {Head(outgoing[w]).event.name}
  /\ outgoing' = [outgoing EXCEPT ![w] = Tail(@)]
  /\ IF Len(outgoing[w]) = 1
       THEN /\ pc' = [pc EXCEPT ![w] = "ready"]
            /\ saved' = saved \cup Range(object[w].applied)
       ELSE UNCHANGED <<pc, saved>>
  /\ UNCHANGED <<hasOutbox, streams, late, object, forgotten, raised>>

(***************************************************************************)
(* Publish returns an error: Save returns it and forgets the rest.         *)
(***************************************************************************)
PublishFails(w) ==
  /\ pc[w] = "publish"
  /\ pc' = [pc EXCEPT ![w] = "ready"]
  /\ outgoing' = [outgoing EXCEPT ![w] = <<>>]
  /\ forgotten' = forgotten \cup NamesIn(outgoing[w])
  /\ UNCHANGED <<hasOutbox, streams, late, object, published, saved, raised>>

Save(w) ==
  \/ NothingToSave(w) \/ BeginSave(w)
  \/ AppendOk(w) \/ AppendConflict(w) \/ AppendFails(w) \/ AppendGivenUp(w)
  \/ PublishOk(w) \/ PublishFails(w)

Next ==
  \/ DecideLate
  \/ \E w \in Workers :
       \/ \E g \in Aggregates : New(w, g) \/ Load(w, g)
       \/ Raise(w) \/ Discard(w) \/ Save(w)

Spec == Init /\ [][Next]_vars

-----------------------------------------------------------------------------
(***************************************************************************)
(* The type invariant, with the versions of Base: currentVersion counts    *)
(* the committed and the uncommitted events.                               *)
(***************************************************************************)
ObjectOK(o) ==
  /\ o.agg \in Aggregates
  /\ \A i \in DOMAIN o.applied : o.applied[i] \in Names
  /\ o.committed + Len(o.uncommitted) = Len(o.applied)

TypeOK ==
  /\ hasOutbox \in BOOLEAN
  /\ \A g \in Aggregates : \A i \in DOMAIN streams[g] :
       streams[g][i].event.name \in Names /\ streams[g][i].sequence \in Nat \ {0}
  /\ \A w \in Workers : object[w] = NoObject \/ ObjectOK(object[w])
  /\ pc \in [Workers -> {"ready", "append", "publish"}]
  /\ \A w \in Workers : outgoing[w] # <<>> <=> pc[w] = "publish"
  /\ published \subseteq Names /\ saved \subseteq Names
  /\ raised \in [Workers -> 0..MaxRaised]

Stored   == UNION {NamesIn(streams[g]) : g \in Aggregates}
Outgoing == UNION {NamesIn(outgoing[w]) : w \in Workers}

(***************************************************************************)
(* No event is decided on a stale state: an event in a stream was raised   *)
(* by an aggregate that had applied exactly the events before it.          *)
(***************************************************************************)
DecidedOnHistory ==
  \A g \in Aggregates : \A i \in DOMAIN streams[g] :
     streams[g][i].event.basis = SubSeq(NamesOf(streams[g]), 1, i - 1)

(***************************************************************************)
(* A raised event is stored at most once, even when Save is called again   *)
(* after an error that did not say whether the events were stored.         *)
(***************************************************************************)
StoredOnce ==
  \A g, k \in Aggregates : \A i \in DOMAIN streams[g], j \in DOMAIN streams[k] :
     streams[g][i].event.name = streams[k][j].event.name => (g = k /\ i = j)

(***************************************************************************)
(* The sequence numbers in the envelopes are the positions in the stream:  *)
(* no store has to renumber them, and none does.                           *)
(***************************************************************************)
SequenceIsPosition ==
  \A g \in Aggregates : \A i \in DOMAIN streams[g] : streams[g][i].sequence = i

(***************************************************************************)
(* When Save has returned nil, every event of its object is stored.        *)
(***************************************************************************)
SavedIsStored == saved \subseteq Stored

(***************************************************************************)
(* No handler hears of an event that is not in its stream.                 *)
(***************************************************************************)
PublishedIsStored == published \subseteq Stored

(***************************************************************************)
(* Over a plain store every stored event is in exactly one place:          *)
(* published, with the Save that is publishing, or forgotten by a Save     *)
(* that reported an error.  So the Save that stored an event never says    *)
(* nil without having published it, and no later Save publishes what was   *)
(* published or forgotten, however often Save is called.                   *)
(***************************************************************************)
PublishedOrForgotten ==
  ~hasOutbox =>
     /\ Stored = published \cup Outgoing \cup forgotten
     /\ published \cap Outgoing = {}
     /\ forgotten \cap (published \cup Outgoing) = {}

(***************************************************************************)
(* "markCommitted [is called] never on a failed [append], so               *)
(* committedVersion always reflects what the store actually holds": an     *)
(* event that an object holds as uncommitted is not in the store.          *)
(***************************************************************************)
CommittedReflectsStore ==
  \A w \in Workers : Ready(w) =>
     {e.name : e \in Range(object[w].uncommitted)} \cap Stored = {}
=============================================================================
