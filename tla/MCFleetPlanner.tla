--------------------------- MODULE MCFleetPlanner ---------------------------
(***************************************************************************)
(* Snapshots of three vehicles drawn from profiles that reach every        *)
(* allocation status, on sites that differ in batches and capacity.        *)
(***************************************************************************)
EXTENDS FleetPlanner

Reading(water, rise, confidence, failed, motion) ==
    [rain |-> 96, water |-> water, secondary |-> water, rise |-> rise,
     confidence |-> confidence, failed |-> failed, motion |-> motion]

Vehicle(reading, danger, route) ==
    [telemetry |-> reading, danger |-> danger, route |-> route]

\* Latest starts without a queue: 1.9, 5.9, 4.2, 5.9 minutes, then none.
Profiles ==
    {Vehicle(Reading(140, 10, 91, {}, "PARKED"), Null, Null),
     Vehicle(Reading(100, 10, 91, {}, "PARKED"), Null, Null),
     Vehicle(Reading(100, 10, 91, {}, "PARKED"), Null, 400),
     Vehicle(Reading(60, 5, 91, {}, "PARKED"), 120, Null),
     Vehicle(Reading(50, 9, 91, {}, "PARKED"), Null, Null),
     Vehicle(Reading(100, 10, 65, {}, "PARKED"), Null, Null),
     Vehicle(Reading(140, 10, 91, {"network"}, "MOVING"), Null, Null)}

MCFleets == [Vehicles -> Profiles]

Point(priority, capacity, available) ==
    [priority |-> priority, capacity |-> capacity, available |-> available]

MCPoints ==
    {<<Point(2, 1, TRUE), Point(1, 1, TRUE)>>,
     <<Point(1, 2, TRUE), Point(1, 1, FALSE)>>,
     <<Point(1, 2, TRUE), Point(1, 1, TRUE)>>}

MCSites ==
    [online: BOOLEAN, age: {300, 301}, ageAtCapture: {300, 301}, batchSize: {1, 2},
     batchInterval: {0, 2000, 3000}, points: MCPoints]
=============================================================================
