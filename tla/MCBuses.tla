------------------------------ MODULE MCBuses ------------------------------
EXTENDS Buses
CONSTANTS g1, g2

AllRouted == {"commands", "queries", "types"}
=============================================================================
