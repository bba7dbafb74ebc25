------------------------------ MODULE Pipeline ------------------------------
(***************************************************************************)
(* The way of an event: postgres.Store.Append writes it to the tables      *)
(* events and outbox (PostgresStore), event.Dispatcher claims its outbox   *)
(* row and publishes it (Dispatcher), the subscribed handlers process it.  *)
(*                                                                         *)
(* The two modules share the table outbox and nothing else.  Appends draw  *)
(* their outbox ids before they commit, so that rows of different          *)
(* aggregates become visible out of id order, and a dispatcher that        *)
(* already marked id 2 may find id 1 afterwards.                           *)
(***************************************************************************)
EXTENDS Naturals

CONSTANTS
  Aggregates, Connections, MaxSequence, MaxBatch, MaxOutboxId,
  Handlers, Dispatchers, BatchSize, MaxFailures, MaxLosses

ASSUME PipelineAssumption ==
  /\ MaxSequence \in Nat /\ MaxBatch \in Nat /\ MaxOutboxId \in Nat
  /\ BatchSize \in Nat /\ MaxFailures \in Nat /\ MaxLosses \in Nat

VARIABLES
  events, outbox, nextId, pc, request, reply, written, txEvents, txOutbox,
  dispatched, ghosts, at, handled, faults, losses

Store == INSTANCE PostgresStore

(***************************************************************************)
(* What a claim reads of a row.                                            *)
(***************************************************************************)
Claimable(o) == [id |-> o.id, agg |-> o.agg]

outboxRows == {Claimable(o) : o \in outbox}

Disp == INSTANCE Dispatcher WITH
          Rows    <- [id : Nat \ {0}, agg : Aggregates],
          NewRows <- {},
          rows    <- outboxRows

storeVars == <<events, outbox, nextId, pc, request, reply, written, txEvents, txOutbox>>
dispVars  == <<dispatched, ghosts, at, handled, faults, losses>>
vars      == <<storeVars, dispVars>>

Init == Store!Init /\ Disp!Init /\ \A d \in Dispatchers : at[d].knowsAll

(***************************************************************************)
(* Callers append something, behind the version they have loaded: the head *)
(* as it is when they call, or as it was before.                           *)
(***************************************************************************)
Append(c) ==
  /\ Store!Invoke(c)
  /\ request'[c].count > 0
  /\ request'[c].expected <= Store!HeadOf(request'[c].agg)

Next ==
  \/ /\ UNCHANGED dispVars
     /\ \E c \in Connections :
          Append(c) \/ Store!Statement(c) \/ Store!Fail(c) \/ Store!GiveUp(c) \/ Store!DropSession(c)
  \/ UNCHANGED storeVars /\ Disp!Dispatch

(***************************************************************************)
(* The fairness of the two parts.                                          *)
(***************************************************************************)
Fairness ==
  /\ \A c \in Connections :
       WF_vars(UNCHANGED dispVars /\ (Store!Statement(c) \/ Store!DropSession(c)))
  /\ WF_vars(UNCHANGED storeVars /\ Disp!GhostEnds)
  /\ \A d \in Dispatchers : WF_vars(UNCHANGED storeVars /\ Disp!GoesOn(d))

Spec == Init /\ [][Next]_vars

FairSpec == Spec /\ Fairness

-----------------------------------------------------------------------------
(***************************************************************************)
(* The store feeds the dispatcher as the dispatcher's module assumes:      *)
(* whole batches, for each aggregate in the order of their ids.            *)
(***************************************************************************)
StoreFeedsDispatcher ==
  [][(outboxRows' # outboxRows) => Disp!Arrive(outboxRows' \ outboxRows)]_vars

Position(h, g) ==
  {o.sequence : o \in {p \in outbox : p.agg = g /\ Claimable(p) \in handled[h]}}

EndToEnd ==
  INSTANCE Delivery WITH
    stored <- [g \in Aggregates |-> Store!Sequences(g)],
    heard  <- [h \in Handlers |-> [g \in Aggregates |-> Position(h, g)]]

(***************************************************************************)
(* Every handler hears the events of each aggregate in the order of their  *)
(* sequence numbers, after their Append has committed, without a gap.      *)
(***************************************************************************)
HeardInOrder == EndToEnd!Spec

(***************************************************************************)
(* Once stored, an event is heard by every handler in the end, in          *)
(* whatever order concurrent Appends commit and whatever fails.            *)
(***************************************************************************)
StoredIsHeard ==
  \A g \in Aggregates, n \in 1..MaxSequence :
     n \in Store!Sequences(g) ~> \A h \in Handlers : n \in Position(h, g)
=============================================================================
