----------------------------- MODULE FloodWatch -----------------------------
(***************************************************************************)
(* The console form of src/app.js as a driver of the decision engine: the  *)
(* scenarios, the sliders, the gate boxes and the one-minute step move the *)
(* readings, and after every change the engine decides again.              *)
(*                                                                         *)
(* The level sliders of index.html have a step of 0.5 cm, so the browser   *)
(* rounds what stepOneMinute writes to the nearest 5 mm.                   *)
(***************************************************************************)
EXTENDS DecisionEngine

CONSTANTS Scenarios,   \* the telemetry records of the SCENARIOS table
          Levels,      \* water slider positions a user picks, in mm
          Rates,       \* rise-rate slider positions
          Rains,       \* rainfall slider positions
          Confidences, \* confidence slider positions
          Boxes        \* gates whose boxes the user toggles

ASSUME FormAssumption ==
    /\ Scenarios \subseteq Telemetry
    /\ Levels \subseteq 0..300 /\ Rates \subseteq Nat /\ Rains \subseteq Nat
    /\ Confidences \subseteq 0..100 /\ Boxes \subseteq Gates

VARIABLE form  \* the readings the form holds

MaxLevel == 300

\* A range input keeps the nearest multiple of its step; x is in 1/100 mm.
Snap(x) ==
    LET mm == 5 * ((x + 250) \div 500)
    IN  IF mm > MaxLevel THEN MaxLevel ELSE mm

Init == form \in Scenarios

ApplyScenario == form' \in Scenarios

\* The cross-check sensor is simulated to see 96% of the rise.
AfterOneMinute(f) ==
    [f EXCEPT !.water = Snap(100 * (@ + f.rise)),
              !.secondary = Snap(100 * @ + 96 * f.rise)]

StepOneMinute == form' = AfterOneMinute(form)

MoveLevel ==
    \E w \in Levels : \/ form' = [form EXCEPT !.water = w]
                      \/ form' = [form EXCEPT !.secondary = w]

MoveRate == \E r \in Rates : form' = [form EXCEPT !.rise = r]

MoveRain == \E r \in Rains : form' = [form EXCEPT !.rain = r]

MoveConfidence == \E c \in Confidences : form' = [form EXCEPT !.confidence = c]

ToggleBox ==
    \E g \in Boxes :
        form' = [form EXCEPT !.failed = IF g \in @ THEN @ \ {g} ELSE @ \union {g}]

Next ==
    \/ ApplyScenario \/ StepOneMinute
    \/ MoveLevel \/ MoveRate \/ MoveRain \/ MoveConfidence \/ ToggleBox

Spec == Init /\ [][Next]_form

-----------------------------------------------------------------------------
Now == Decision(form, DefaultPolicy)

Urgency(code) ==
    CASE code = "STAY" -> 0 [] code = "WATCH" -> 1 [] code = "PREPARE" -> 2
      [] code = "MIGRATE_NOW" -> 3 [] OTHER -> 4

\* A step that only makes the flood worse: both gauges rise alike, the rate
\* and the rain do not fall, and nothing else changes.
FloodWorsens ==
    /\ form'.water - form.water = form'.secondary - form.secondary
    /\ form'.water >= form.water
    /\ form'.rise >= form.rise
    /\ form'.rain >= form.rain
    /\ form' = [form EXCEPT !.water = form'.water, !.secondary = form'.secondary,
                            !.rise = form'.rise, !.rain = form'.rain]

(***************************************************************************)
(* A worsening flood never relaxes the advice: along STAY, WATCH, PREPARE, *)
(* MIGRATE_NOW, NO_GO the decision of evaluate_decision only moves towards *)
(* NO_GO.  It relates two evaluations and every threshold of the ladder.   *)
(***************************************************************************)
EscalationNeverRelaxes ==
    [][FloodWorsens => Urgency(Decision(form', DefaultPolicy)) >= Urgency(Now)]_form

(***************************************************************************)
(* A vehicle told to migrate that drives at once leaves the route before   *)
(* the water reaches the danger level: at the present rate the level after *)
(* queue, route and buffer is still below it.                              *)
(***************************************************************************)
DepartureClearsTheRoute ==
    Now = "MIGRATE_NOW" =>
        1000 * form.water + form.rise * Overhead(DefaultPolicy)
            < 1000 * DefaultPolicy.danger

(***************************************************************************)
(* Three ladders over the same thresholds, coded apart, agree for every    *)
(* input the form can hold: the browser decides as the server does, and    *)
(* the risk never contradicts the decision.  A CRITICAL risk never goes    *)
(* with advice that lets the owner wait or move, a refusal for lack of     *)
(* time or depth is CRITICAL, and a decision to migrate is HIGH.           *)
(***************************************************************************)
LaddersAgree ==
    LET risk == Risk(form, DefaultPolicy)
    IN  /\ BrowserDecision(form, DefaultPolicy) = Now
        /\ risk = "CRITICAL" => Now \in {"NO_GO", "EMERGENCY_STOP", "VERIFY_ONLY"}
        /\ Now = "NO_GO" /\ form.failed = {} => risk = "CRITICAL"
        /\ Now = "MIGRATE_NOW" => risk = "HIGH"
        /\ Now = "PREPARE" => risk = "MEDIUM"
        /\ Now = "STAY" => risk = "LOW"
=============================================================================
