-------------------------- MODULE MCPostgresStore ---------------------------
(***************************************************************************)
(* Instances of PostgresStore for TLC.                                     *)
(***************************************************************************)
EXTENDS PostgresStore, TLC

CONSTANTS g1, g2, c1, c2, c3

OneAggregate    == {g1}
TwoAggregates   == {g1, g2}
TwoConnections  == {c1, c2}
ThreeConnections == {c1, c2, c3}

Symmetry == Permutations(Aggregates) \cup Permutations(Connections)
=============================================================================
