\* plan_fleet on every snapshot of three vehicles and two safe points.
CONSTANTS
    Vehicles = {1, 2, 3}
    Points = {1, 2}
    Fleets <- MCFleets
    Sites <- MCSites
    SiteMaxAge = 300
    Null = Null
SPECIFICATION Spec
\* The planner returns when every vehicle has a plan.
CHECK_DEADLOCK FALSE
INVARIANTS
    TypeOK
    ScheduledClearsTheRoute
    PointsGoToTheUrgent
    WindowClosedForTime
    PlansAgree
