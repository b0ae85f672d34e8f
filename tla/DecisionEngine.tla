--------------------------- MODULE DecisionEngine ---------------------------
(***************************************************************************)
(* The deterministic decision engine: backend/app/decision_engine.py and   *)
(* its browser twin src/decision-engine.js.                                *)
(*                                                                         *)
(* Readings are integers: water in millimetres, the rise rate in           *)
(* millimetres per minute, confidence in per cent, times in thousandths of *)
(* a minute.  With the policy's 5 km/h one metre of route takes exactly 12 *)
(* units, so no quotient is rounded.  The quotient remaining / rise is     *)
(* never formed: "latest_start <= h" is multiplied through by the rate.    *)
(***************************************************************************)
EXTENDS Integers

Gates ==
    {"route-dry", "route-open", "occupants", "charging", "vehicle",
     "positioning", "network", "operator", "water-contact"}

\* The gates whose failure stops a vehicle that is already moving.
LinkGates == {"positioning", "network", "operator", "vehicle", "water-contact"}

\* What one telemetry message says; failed is the set of gates not passed.
Telemetry ==
    [rain: Nat, water: Nat, secondary: Nat, rise: Nat, confidence: 0..100,
     failed: SUBSET Gates, motion: {"PARKED", "MOVING"}]

Policy ==
    [danger: Nat \ {0}, rainWatch: Nat, minConfidence: 0..100,
     maxDisagreement: Nat, routeDistance: Nat, queueAhead: Nat,
     batchSize: Nat \ {0}, batchInterval: Nat, safetyBuffer: Nat,
     prepareHorizon: Nat, migrateHorizon: Nat]

DefaultPolicy ==
    [danger |-> 220, rainWatch |-> 50, minConfidence |-> 72,
     maxDisagreement |-> 50, routeDistance |-> 260, queueAhead |-> 2,
     batchSize |-> 3, batchInterval |-> 700, safetyBuffer |-> 3000,
     prepareHorizon |-> 20000, migrateHorizon |-> 7000]

-----------------------------------------------------------------------------
(***************************************************************************)
(* The timing window.                                                      *)
(***************************************************************************)

\* math.ceil(queue_ahead / batch_size)
QueueBatches(p) == (p.queueAhead + p.batchSize - 1) \div p.batchSize

RouteTime(p) == 12 * p.routeDistance

\* All that is subtracted from time_to_threshold.
Overhead(p) ==
    RouteTime(p) + QueueBatches(p) * p.batchInterval + p.safetyBuffer

\* latest_start <= h; latest_start is infinite when the water does not rise.
LatestStartWithin(t, p, h) ==
    IF t.water >= p.danger
      THEN 0 <= h + Overhead(p)
      ELSE /\ t.rise > 0
           /\ 1000 * (p.danger - t.water) <= t.rise * (h + Overhead(p))

WindowClosed(t, p) == LatestStartWithin(t, p, 0)

Disagreement(t) ==
    IF t.water >= t.secondary THEN t.water - t.secondary
                              ELSE t.secondary - t.water

-----------------------------------------------------------------------------
(***************************************************************************)
(* evaluate_decision: the order of the tests is the safety argument, a     *)
(* denial is never reached through a branch below it.                      *)
(***************************************************************************)

MotionFault(t) == t.motion = "MOVING" /\ t.failed \intersect LinkGates # {}

EvidenceUncertain(t, p) ==
    t.confidence < p.minConfidence \/ Disagreement(t) > p.maxDisagreement

\* Mutation: rain is looked at before the preparation horizon.
LadderRainFirst(t, p) ==
    IF LatestStartWithin(t, p, p.migrateHorizon) THEN "MIGRATE_NOW"
    ELSE IF t.rain >= p.rainWatch \/ t.rise >= 5 THEN "WATCH"
    ELSE IF LatestStartWithin(t, p, p.prepareHorizon) THEN "PREPARE"
    ELSE "STAY"

\* Below the denials: the ladder of horizons.
Ladder(t, p) ==
    IF LatestStartWithin(t, p, p.migrateHorizon) THEN "MIGRATE_NOW"
    ELSE IF LatestStartWithin(t, p, p.prepareHorizon) THEN "PREPARE"
    ELSE IF t.rain >= p.rainWatch \/ t.rise >= 5 THEN "WATCH"
    ELSE "STAY"

\* Mutation: the closed window is tested only after the horizons.
LadderBeforeClosedWindow(t, p) ==
    IF MotionFault(t) THEN "EMERGENCY_STOP"
    ELSE IF t.failed # {} \/ t.water >= p.danger THEN "NO_GO"
    ELSE IF EvidenceUncertain(t, p) THEN "VERIFY_ONLY"
    ELSE Ladder(t, p)

Decision(t, p) ==
    IF MotionFault(t) THEN "EMERGENCY_STOP"
    ELSE IF t.failed # {} \/ t.water >= p.danger THEN "NO_GO"
    ELSE IF EvidenceUncertain(t, p) THEN "VERIFY_ONLY"
    ELSE IF WindowClosed(t, p) THEN "NO_GO"
    ELSE Ladder(t, p)

-----------------------------------------------------------------------------
(***************************************************************************)
(* _risk: a second ladder, written apart from the decision's.              *)
(***************************************************************************)

\* Mutation: the horizon is tested before the closed window.
RiskHorizonFirst(t, p) ==
    IF t.failed # {} \/ LatestStartWithin(t, p, p.migrateHorizon) THEN "HIGH"
    ELSE IF WindowClosed(t, p) THEN "CRITICAL"
    ELSE IF LatestStartWithin(t, p, p.prepareHorizon) \/ t.rain >= p.rainWatch
      THEN "MEDIUM"
    ELSE "LOW"

Risk(t, p) ==
    IF \/ "water-contact" \in t.failed
       \/ t.water >= p.danger
       \/ WindowClosed(t, p) THEN "CRITICAL"
    ELSE IF t.failed # {} \/ LatestStartWithin(t, p, p.migrateHorizon)
      THEN "HIGH"
    ELSE IF LatestStartWithin(t, p, p.prepareHorizon) \/ t.rain >= p.rainWatch
      THEN "MEDIUM"
    ELSE "LOW"

-----------------------------------------------------------------------------
(***************************************************************************)
(* The browser engine.  Its inputs are what a form holds, so the readings  *)
(* may be negative or out of range; a non-number is out of the model.      *)
(***************************************************************************)

InvalidInput(t, p) ==
    \/ t.rain < 0 \/ t.water < 0 \/ t.secondary < 0 \/ p.danger <= 0
    \/ t.confidence < 0 \/ t.confidence > 100

\* evaluateDecision of src/decision-engine.js; calculateTiming clamps the rate.
BrowserDecision(t, p) ==
    LET clamped == [t EXCEPT !.rise = IF @ < 0 THEN 0 ELSE @]
    IN  IF InvalidInput(t, p) THEN "SYSTEM_HOLD"
        ELSE IF MotionFault(t) THEN "EMERGENCY_STOP"
        ELSE IF t.failed # {} THEN "NO_GO"
        ELSE IF t.water >= p.danger THEN "NO_GO"
        ELSE IF EvidenceUncertain(t, p) THEN "VERIFY_ONLY"
        ELSE IF WindowClosed(clamped, p) THEN "NO_GO"
        ELSE IF LatestStartWithin(clamped, p, p.migrateHorizon) THEN "MIGRATE_NOW"
        ELSE IF LatestStartWithin(clamped, p, p.prepareHorizon) THEN "PREPARE"
        ELSE IF t.rain >= p.rainWatch \/ t.rise >= 5 THEN "WATCH"
        ELSE "STAY"
=============================================================================
