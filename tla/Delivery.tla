------------------------------ MODULE Delivery ------------------------------
(***************************************************************************)
(* What goaxon promises from end to end with a single, undisturbed         *)
(* dispatcher: events are stored in streams, and every handler hears the   *)
(* events of a stream in order, none before it is stored, none skipped.    *)
(* A handler may hear an event again; that changes nothing here.           *)
(***************************************************************************)
EXTENDS Naturals

CONSTANTS Aggregates, Handlers, MaxSequence

VARIABLES
  stored,       \* the sequence numbers of the events of each aggregate
  heard         \* those each handler has processed at least once

vars == <<stored, heard>>

Init ==
  /\ stored = [g \in Aggregates |-> {}]
  /\ heard = [h \in Handlers |-> [g \in Aggregates |-> {}]]

Store(g) ==
  \E m, n \in 0..MaxSequence :
     /\ stored[g] = 1..m /\ m < n
     /\ stored' = [stored EXCEPT ![g] = 1..n]
     /\ UNCHANGED heard

(***************************************************************************)
(* An event is published: those handlers that have not heard it yet and    *)
(* do not fail now have heard everything before it.                        *)
(***************************************************************************)
Hear(g, n) ==
  /\ n \in stored[g]
  /\ \E new \in SUBSET Handlers :
       /\ \A h \in new : heard[h][g] = 1..(n - 1)
       /\ heard' = [h \in Handlers |->
            IF h \in new THEN [heard[h] EXCEPT ![g] = 1..n] ELSE heard[h]]
  /\ UNCHANGED stored

Next == \E g \in Aggregates : Store(g) \/ \E n \in 1..MaxSequence : Hear(g, n)

Spec == Init /\ [][Next]_vars
=============================================================================
