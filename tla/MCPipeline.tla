----------------------------- MODULE MCPipeline -----------------------------
(***************************************************************************)
(* Instances of Pipeline for TLC.                                          *)
(***************************************************************************)
EXTENDS Pipeline

CONSTANTS a, b, c1, c2

TwoAggregates  == {a, b}
TwoConnections == {c1, c2}
=============================================================================
