---------------------------- MODULE MCDispatcher ----------------------------
(***************************************************************************)
(* Instances of Dispatcher for TLC.                                        *)
(***************************************************************************)
EXTENDS Dispatcher, TLC

CONSTANTS a, b

(***************************************************************************)
(* Two streams with interleaved outbox ids, and one with two.              *)
(***************************************************************************)
TwoStreams == {[id |-> i, agg |-> IF i = 2 THEN b ELSE a] : i \in 1..4}
OneStream  == {r \in TwoStreams : r.id \in {1, 3}}
SecondRow  == {[id |-> 3, agg |-> a]}
NoRows     == {}

Symmetry == Permutations(Handlers) \cup Permutations(Dispatchers)
=============================================================================
