---------------------------- MODULE MCWebConsole ----------------------------
EXTENDS WebConsole
CONSTANTS k1, k2
=============================================================================
