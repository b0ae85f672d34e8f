---------------------------- MODULE MCFleetView ----------------------------
EXTENDS FleetView
CONSTANTS k1, k2
=============================================================================
