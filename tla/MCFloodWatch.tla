---------------------------- MODULE MCFloodWatch ----------------------------
(***************************************************************************)
(* The six scenarios of src/app.js (lines 16-67), in the engine's units,   *)
(* and a few positions for each slider.                                    *)
(***************************************************************************)
EXTENDS FloodWatch

Reading(rain, water, secondary, rise, confidence, failed, motion) ==
    [rain |-> rain, water |-> water, secondary |-> secondary, rise |-> rise,
     confidence |-> confidence, failed |-> failed, motion |-> motion]

MCScenarios ==
    {Reading(35, 40, 40, 2, 94, {}, "PARKED"),
     Reading(96, 140, 135, 10, 91, {}, "PARKED"),
     Reading(78, 90, 180, 7, 65, {}, "PARKED"),
     Reading(91, 130, 135, 9, 94, {"route-open"}, "PARKED"),
     Reading(90, 140, 140, 10, 94, {"occupants"}, "PARKED"),
     Reading(98, 150, 150, 11, 94, {"network"}, "MOVING")}

MCLevels == {0, 220}
MCRates == {4, 20}
MCRains == {49, 50}
MCConfidences == {71}
MCBoxes == {"network"}
=============================================================================
