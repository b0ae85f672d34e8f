-------------------------- MODULE FloodWatchProofs ---------------------------
(***************************************************************************)
(* Theorems about FloodWatch, for any scenarios and slider positions: the  *)
(* readings are any natural numbers, not the few TLC moves through.        *)
(***************************************************************************)
EXTENDS FloodWatch, TLAPS

-----------------------------------------------------------------------------
(***************************************************************************)
(* The form always holds a telemetry record.                               *)
(***************************************************************************)

FormOK == form \in Telemetry

LEMMA TelemetryFields ==
    ASSUME NEW t \in Telemetry
    PROVE  /\ t.rain \in Nat /\ t.water \in Nat /\ t.secondary \in Nat /\ t.rise \in Nat
           /\ t.confidence \in 0..100 /\ t.failed \subseteq Gates
  BY DEF Telemetry

LEMMA SnapIsLevel ==
    ASSUME NEW x \in Nat
    PROVE  Snap(x) \in Nat
<1>1. (x + 250) \div 500 \in Nat
  OBVIOUS
<1> QED
  BY <1>1 DEF Snap, MaxLevel

LEMMA FormInit == Init => FormOK
  BY FormAssumption DEF Init, FormOK

LEMMA FormNext == FormOK /\ [Next]_form => FormOK'
<1> SUFFICES ASSUME FormOK, [Next]_form PROVE FormOK'
  OBVIOUS
<1>1. CASE ApplyScenario
  BY <1>1, FormAssumption DEF ApplyScenario, FormOK
<1>2. CASE StepOneMinute
  <2>1. /\ form.water \in Nat /\ form.secondary \in Nat /\ form.rise \in Nat
    BY TelemetryFields DEF FormOK
  <2>2. PICK w \in Nat : w = Snap(100 * (form.water + form.rise))
    BY <2>1, SnapIsLevel
  <2>3. PICK s \in Nat : s = Snap(100 * form.secondary + 96 * form.rise)
    <3>1. 100 * form.secondary + 96 * form.rise \in Nat
      BY <2>1
    <3> QED
      BY <3>1, SnapIsLevel
  <2>4. form' = [form EXCEPT !.water = w, !.secondary = s]
    BY <1>2, <2>2, <2>3 DEF StepOneMinute, AfterOneMinute, FormOK, Telemetry
  <2> QED
    BY <2>4 DEF FormOK, Telemetry
<1>3. CASE MoveLevel
  <2>1. PICK w \in Nat : \/ form' = [form EXCEPT !.water = w]
                         \/ form' = [form EXCEPT !.secondary = w]
    BY <1>3, FormAssumption DEF MoveLevel
  <2> QED
    BY <2>1 DEF FormOK, Telemetry
<1>4. CASE MoveRate
  <2>1. PICK r \in Nat : form' = [form EXCEPT !.rise = r]
    BY <1>4, FormAssumption DEF MoveRate
  <2> QED
    BY <2>1 DEF FormOK, Telemetry
<1>5. CASE MoveRain
  <2>1. PICK r \in Nat : form' = [form EXCEPT !.rain = r]
    BY <1>5, FormAssumption DEF MoveRain
  <2> QED
    BY <2>1 DEF FormOK, Telemetry
<1>6. CASE MoveConfidence
  <2>1. PICK c \in 0..100 : form' = [form EXCEPT !.confidence = c]
    BY <1>6, FormAssumption DEF MoveConfidence
  <2> QED
    BY <2>1 DEF FormOK, Telemetry
<1>7. CASE ToggleBox
  <2>1. PICK g \in Gates :
          form' = [form EXCEPT !.failed = IF g \in @ THEN @ \ {g} ELSE @ \union {g}]
    BY <1>7, FormAssumption DEF ToggleBox
  <2>2. PICK f \in SUBSET Gates :
          f = IF g \in form.failed THEN form.failed \ {g} ELSE form.failed \union {g}
    BY TelemetryFields DEF FormOK
  <2>3. form' = [form EXCEPT !.failed = f]
    BY <2>1, <2>2
  <2> QED
    BY <2>3 DEF FormOK, Telemetry
<1>8. CASE UNCHANGED form
  BY <1>8 DEF FormOK
<1> QED
  BY <1>1, <1>2, <1>3, <1>4, <1>5, <1>6, <1>7, <1>8 DEF Next

LEMMA FormInvariant == Spec => []FormOK
  BY FormInit, FormNext, PTL DEF Spec

-----------------------------------------------------------------------------
(***************************************************************************)
(* The ladder over the default policy, where all times are known.          *)
(***************************************************************************)

LEMMA DefaultTimes ==
    /\ Overhead(DefaultPolicy) = 6820
    /\ DefaultPolicy.danger = 220 /\ DefaultPolicy.rainWatch = 50
    /\ DefaultPolicy.migrateHorizon = 7000 /\ DefaultPolicy.prepareHorizon = 20000
<1>1. /\ DefaultPolicy.danger = 220 /\ DefaultPolicy.rainWatch = 50
      /\ DefaultPolicy.migrateHorizon = 7000 /\ DefaultPolicy.prepareHorizon = 20000
      /\ DefaultPolicy.routeDistance = 260 /\ DefaultPolicy.queueAhead = 2
      /\ DefaultPolicy.batchSize = 3 /\ DefaultPolicy.batchInterval = 700
      /\ DefaultPolicy.safetyBuffer = 3000
  BY DEF DefaultPolicy
<1>2. (2 + 3 - 1) \div 3 = 1
  OBVIOUS
<1> QED
  BY <1>1, <1>2 DEF Overhead, RouteTime, QueueBatches

LEMMA DefaultWindow ==
    ASSUME NEW t \in Telemetry, t.water < 220, NEW h \in Nat
    PROVE  LatestStartWithin(t, DefaultPolicy, h) <=>
              t.rise > 0 /\ 1000 * (220 - t.water) <= t.rise * (h + 6820)
<1>1. ~(t.water >= DefaultPolicy.danger)
  BY DefaultTimes, TelemetryFields
<1> QED
  BY <1>1, DefaultTimes DEF LatestStartWithin

LEMMA BrowserDecides ==
    ASSUME NEW t \in Telemetry
    PROVE  BrowserDecision(t, DefaultPolicy) = Decision(t, DefaultPolicy)
<1>1. /\ t.rain \in Nat /\ t.water \in Nat /\ t.secondary \in Nat /\ t.rise \in Nat
      /\ t.confidence \in 0..100
  BY TelemetryFields
<1>2. ~InvalidInput(t, DefaultPolicy)
  BY <1>1, DefaultTimes DEF InvalidInput
<1>3. PICK c : c = [t EXCEPT !.rise = IF @ < 0 THEN 0 ELSE @]
  OBVIOUS
<1>4. c.water = t.water /\ c.rise = t.rise
  BY <1>1, <1>3 DEF Telemetry
<1>5. \A h : LatestStartWithin(c, DefaultPolicy, h) <=> LatestStartWithin(t, DefaultPolicy, h)
  BY <1>4 DEF LatestStartWithin
<1> QED
  BY <1>2, <1>3, <1>5 DEF BrowserDecision, Decision, Ladder, WindowClosed

\* A window that has closed is within every horizon, the nearer in the farther.
LEMMA HorizonsAreNested ==
    ASSUME NEW t \in Telemetry
    PROVE  /\ WindowClosed(t, DefaultPolicy) =>
                LatestStartWithin(t, DefaultPolicy, DefaultPolicy.migrateHorizon)
           /\ LatestStartWithin(t, DefaultPolicy, DefaultPolicy.migrateHorizon) =>
                LatestStartWithin(t, DefaultPolicy, DefaultPolicy.prepareHorizon)
  BY DefaultTimes, TelemetryFields DEF WindowClosed, LatestStartWithin

-----------------------------------------------------------------------------
(***************************************************************************)
(* The three ladders coded apart, evaluateDecision of the browser,         *)
(* evaluate_decision and _risk of the server, agree on every reading.      *)
(***************************************************************************)
THEOREM TheLaddersAgree == Spec => []LaddersAgree
<1>1. ASSUME FormOK PROVE LaddersAgree
  <2>1. BrowserDecision(form, DefaultPolicy) = Now
    BY <1>1, BrowserDecides DEF FormOK, Now
  <2>2. /\ WindowClosed(form, DefaultPolicy) =>
             LatestStartWithin(form, DefaultPolicy, DefaultPolicy.migrateHorizon)
        /\ LatestStartWithin(form, DefaultPolicy, DefaultPolicy.migrateHorizon) =>
             LatestStartWithin(form, DefaultPolicy, DefaultPolicy.prepareHorizon)
    BY <1>1, HorizonsAreNested DEF FormOK
  <2>3. Risk(form, DefaultPolicy) = "CRITICAL" =>
           Now \in {"NO_GO", "EMERGENCY_STOP", "VERIFY_ONLY"}
    BY DEF Risk, Now, Decision
  <2>4. Now = "NO_GO" /\ form.failed = {} => Risk(form, DefaultPolicy) = "CRITICAL"
    BY DEF Risk, Now, Decision, Ladder
  <2>5. Now = "MIGRATE_NOW" => Risk(form, DefaultPolicy) = "HIGH"
    BY DEF Risk, Now, Decision, Ladder
  <2>6. Now = "PREPARE" => Risk(form, DefaultPolicy) = "MEDIUM"
    BY <2>2 DEF Risk, Now, Decision, Ladder
  <2>7. Now = "STAY" => Risk(form, DefaultPolicy) = "LOW"
    BY <2>2 DEF Risk, Now, Decision, Ladder
  <2> QED
    BY <2>1, <2>3, <2>4, <2>5, <2>6, <2>7 DEF LaddersAgree
<1> QED
  BY <1>1, FormInvariant, PTL

(***************************************************************************)
(* A vehicle told to migrate that drives at once is off the route before   *)
(* the water reaches the danger level, whatever the readings.              *)
(***************************************************************************)
THEOREM DeparturesClear == Spec => []DepartureClearsTheRoute
<1>1. ASSUME FormOK PROVE DepartureClearsTheRoute
  <2>1. SUFFICES ASSUME Now = "MIGRATE_NOW"
                 PROVE  1000 * form.water + form.rise * 6820 < 1000 * 220
    BY DefaultTimes DEF DepartureClearsTheRoute
  <2>2. form \in Telemetry /\ form.water \in Nat /\ form.rise \in Nat
    BY <1>1, TelemetryFields DEF FormOK
  <2>3. form.water < 220 /\ ~LatestStartWithin(form, DefaultPolicy, 0)
    BY <2>1, <2>2, DefaultTimes DEF Now, Decision, WindowClosed
  <2>4. LatestStartWithin(form, DefaultPolicy, 7000)
    BY <2>1, DefaultTimes DEF Now, Decision, Ladder
  <2> QED
    BY <2>2, <2>3, <2>4, DefaultWindow
<1> QED
  BY <1>1, FormInvariant, PTL

\* A worse flood is within every horizon the milder one was within.
LEMMA HorizonsStayReached ==
    ASSUME NEW s \in Telemetry, NEW t \in Telemetry,
           s.water <= t.water, s.rise <= t.rise, t.water < 220, NEW h \in Nat,
           LatestStartWithin(s, DefaultPolicy, h)
    PROVE  LatestStartWithin(t, DefaultPolicy, h)
<1>1. /\ s.water \in Nat /\ t.water \in Nat /\ s.rise \in Nat /\ t.rise \in Nat
      /\ s.water < 220
  BY TelemetryFields
<1>2. s.rise > 0 /\ 1000 * (220 - s.water) <= s.rise * (h + 6820)
  BY <1>1, DefaultWindow
<1>3. s.rise * (h + 6820) <= t.rise * (h + 6820)
  BY <1>1
<1>4. 1000 * (220 - t.water) <= t.rise * (h + 6820)
  BY <1>1, <1>2, <1>3
<1> QED
  BY <1>1, <1>2, <1>4, DefaultWindow

(***************************************************************************)
(* A flood that only gets worse never relaxes the advice, between any two  *)
(* readings.                                                               *)
(***************************************************************************)
THEOREM EscalationIsKept == Spec => EscalationNeverRelaxes
<1>1. ASSUME FormOK, FormOK', FloodWorsens
      PROVE  Urgency(Decision(form', DefaultPolicy)) >= Urgency(Now)
  <2>1. PICK s \in Telemetry, t \in Telemetry : s = form /\ t = form'
    BY <1>1 DEF FormOK
  <2>2. /\ t.water - s.water = t.secondary - s.secondary
        /\ s.water <= t.water /\ s.rise <= t.rise /\ s.rain <= t.rain
        /\ t.failed = s.failed /\ t.motion = s.motion /\ t.confidence = s.confidence
    BY <1>1, <2>1, TelemetryFields DEF FloodWorsens, Telemetry
  <2>3. /\ s.water \in Nat /\ s.secondary \in Nat /\ s.rise \in Nat /\ s.rain \in Nat
        /\ t.water \in Nat /\ t.secondary \in Nat /\ t.rise \in Nat /\ t.rain \in Nat
    BY TelemetryFields
  <2>4. Disagreement(t) = Disagreement(s)
    BY <2>2, <2>3 DEF Disagreement
  <2>5. /\ MotionFault(t) <=> MotionFault(s)
        /\ EvidenceUncertain(t, DefaultPolicy) <=> EvidenceUncertain(s, DefaultPolicy)
    BY <2>2, <2>4 DEF MotionFault, EvidenceUncertain
  <2>6. Urgency(Decision(s, DefaultPolicy)) \in 0..4
    BY DEF Urgency
  <2>7. CASE \/ MotionFault(t) \/ t.failed # {} \/ t.water >= 220
             \/ EvidenceUncertain(t, DefaultPolicy) \/ WindowClosed(t, DefaultPolicy)
    <3>1. Decision(t, DefaultPolicy) \in {"EMERGENCY_STOP", "NO_GO", "VERIFY_ONLY"}
      BY <2>7, DefaultTimes DEF Decision
    <3>2. Urgency(Decision(t, DefaultPolicy)) = 4
      BY <3>1 DEF Urgency
    <3> QED
      BY <2>1, <2>6, <3>2 DEF Now
  <2>8. CASE ~ \/ MotionFault(t) \/ t.failed # {} \/ t.water >= 220
               \/ EvidenceUncertain(t, DefaultPolicy) \/ WindowClosed(t, DefaultPolicy)
    <3>1. t.water < 220 /\ ~(s.water >= DefaultPolicy.danger) /\ ~(t.water >= DefaultPolicy.danger)
      BY <2>2, <2>3, <2>8, DefaultTimes
    <3>2. \A h \in Nat : LatestStartWithin(s, DefaultPolicy, h) =>
                            LatestStartWithin(t, DefaultPolicy, h)
      BY <2>2, <3>1, HorizonsStayReached
    <3>3. ~WindowClosed(s, DefaultPolicy)
      BY <2>8, <3>2 DEF WindowClosed
    <3>4. /\ Decision(s, DefaultPolicy) = Ladder(s, DefaultPolicy)
          /\ Decision(t, DefaultPolicy) = Ladder(t, DefaultPolicy)
      BY <2>2, <2>5, <2>8, <3>1, <3>3 DEF Decision
    <3>5. /\ LatestStartWithin(s, DefaultPolicy, 7000) => LatestStartWithin(t, DefaultPolicy, 7000)
          /\ LatestStartWithin(s, DefaultPolicy, 20000) => LatestStartWithin(t, DefaultPolicy, 20000)
          /\ s.rain >= 50 \/ s.rise >= 5 => t.rain >= 50 \/ t.rise >= 5
      BY <2>2, <2>3, <3>2
    <3>6. Urgency(Ladder(t, DefaultPolicy)) >= Urgency(Ladder(s, DefaultPolicy))
      BY <3>5, DefaultTimes DEF Ladder, Urgency
    <3> QED
      BY <2>1, <3>4, <3>6 DEF Now
  <2> QED
    BY <2>7, <2>8
<1> QED
  BY <1>1, FormInvariant, PTL DEF EscalationNeverRelaxes
=============================================================================
