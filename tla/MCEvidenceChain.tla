--------------------------- MODULE MCEvidenceChain --------------------------
(***************************************************************************)
(* Instances of EvidenceChain for TLC.  The verdict on a body is the one   *)
(* DecisionEngine computes for the readings the body stands for.           *)
(***************************************************************************)
EXTENDS EvidenceChain, TLC

CONSTANTS m1, m2, s1, w1, w2, urgent

Engine == INSTANCE DecisionEngine

Reading(water, rise) ==
    [rain |-> 96, water |-> water, secondary |-> water, rise |-> rise,
     confidence |-> 91, failed |-> {}, motion |-> "PARKED"]

Readings == urgent :> Reading(140, 10)

VerdictOf(bodies) ==
    [b \in bodies |-> Engine!Decision(Readings[b], Engine!DefaultPolicy)]

OneBody == {urgent}
VerdictOfOne == VerdictOf(OneBody)

\* A row an earlier version stored, whose hash covers a captured_at of 1.
LegacyRow ==
    [report |-> [msg |-> m1, scope |-> s1, body |-> urgent, cap |-> 1],
     marker |-> "unknown", receivedAt |-> 0]

OldTables == {<<>>, <<LegacyRow>>}

\* Workers are alike; messages are not, a legacy row names one of them.
WorkerSymmetry == Permutations({w1, w2})
=============================================================================
