------------------------------ MODULE MCDemoRun -----------------------------
(***************************************************************************)
(* The scenario demo/scenarios/rainstorm-p5-120s.json with 5 seconds as    *)
(* the unit of time.  The verdicts are those of DecisionEngine.            *)
(***************************************************************************)
EXTENDS DemoRun, TLC

CONSTANTS demo, e1, e2, s1, s2

Engine == INSTANCE DecisionEngine

Reading(rain, water, secondary, rise, confidence) ==
    [rain |-> rain, water |-> water, secondary |-> secondary, rise |-> rise,
     confidence |-> confidence, failed |-> {}, motion |-> "PARKED"]

Readings ==
    "urgent" :> Reading(96, 140, 135, 10, 91)
      @@ "late" :> Reading(108, 220, 223, 12, 90)

BodyNames == DOMAIN Readings

Verdicts == [b \in BodyNames |-> Engine!Decision(Readings[b], Engine!DefaultPolicy)]

At(at, action, body) == [at |-> at, action |-> action, body |-> body]

Rainstorm ==
    <<At(0, "telemetry", "urgent"), At(1, "authorize", None), At(2, "command", None),
      At(3, "events", None), At(4, "telemetry", "late"), At(5, "latest", "late")>>

Samples == <<"urgent", "late">>

MessageIds == {<<"demo", i>> : i \in {1, 5}} \union {<<"edge", n>> : n \in 1..2}

Clock == 0..MaxClock

EmptyTable == {<<>>}

\* A run starts at 0 and is followed until it ends, and the edge sends its second
\* sample only before the run.
RunGoesOn ==
    /\ run.phase \notin {"passed", "failed"}
    /\ run.started = 0
    /\ edge.sent = 2 => run.phase = "ready"

ASSUME PacedScript

EdgeSymmetry == Permutations({e1, e2})
=============================================================================
