---------------------------- MODULE FleetPlanner ----------------------------
(***************************************************************************)
(* plan_fleet of backend/app/fleet_planner.py: one pass over the vehicles  *)
(* that must leave, the most urgent first, giving each a slot on a high    *)
(* safe point and deciding again with its place in the queue.  A step is   *)
(* one iteration of the loop.                                              *)
(*                                                                         *)
(* planFleet of src/fleet-planner.js is the same rule written for the      *)
(* browser and is given here in closed form.  Vehicle and safe-point ids   *)
(* are numbers: only their order is used.                                  *)
(***************************************************************************)
EXTENDS DecisionEngine, FiniteSets, FiniteSetsExt

CONSTANTS Vehicles, Points, \* identifiers
          Fleets,           \* the vehicles of the snapshots submitted
          Sites,            \* the site states of the snapshots submitted
          SiteMaxAge,       \* site_max_age_seconds
          Null              \* an optional field left out

VehicleInput ==
    [telemetry: Telemetry, danger: (Nat \ {0}) \union {Null},
     route: (Nat \ {0}) \union {Null}]

SafePoint == [priority: Nat, capacity: Nat \ {0}, available: BOOLEAN]

\* The age of the site's observation at the server's clock and at captured_at.
FleetSiteState ==
    [online: BOOLEAN, age: Int, ageAtCapture: Int, batchSize: Nat \ {0}, batchInterval: Nat,
     points: [Points -> SafePoint]]

ASSUME SnapshotAssumption ==
    /\ Vehicles \subseteq Nat /\ IsFiniteSet(Vehicles)
    /\ Points \subseteq Nat /\ IsFiniteSet(Points)
    /\ Null \notin Nat
    /\ SiteMaxAge \in Nat
    /\ Fleets \subseteq [Vehicles -> VehicleInput]
    /\ Sites \subseteq FleetSiteState

VARIABLES fleet,     \* the snapshot's vehicles
          site,      \* the snapshot's site
          plans,     \* the vehicle plans appended so far
          slotIndex  \* slots handed out

vars == <<fleet, site, plans, slotIndex>>

-----------------------------------------------------------------------------
(***************************************************************************)
(* The decision on a vehicle that has queueAhead vehicles before it.       *)
(***************************************************************************)

OrElse(value, default) == IF value = Null THEN default ELSE value

\* Mutation: the base decision keeps the default policy's queue.
VehiclePolicyDefaultQueue(v, queueAhead) ==
    [DefaultPolicy EXCEPT !.danger = OrElse(fleet[v].danger, @),
                          !.routeDistance = OrElse(fleet[v].route, @),
                          !.queueAhead = IF queueAhead = 0 THEN @ ELSE queueAhead,
                          !.batchSize = site.batchSize,
                          !.batchInterval = site.batchInterval]

\* vehicle_policy
VehiclePolicy(v, queueAhead) ==
    [DefaultPolicy EXCEPT !.danger = OrElse(fleet[v].danger, @),
                          !.routeDistance = OrElse(fleet[v].route, @),
                          !.queueAhead = queueAhead,
                          !.batchSize = site.batchSize,
                          !.batchInterval = site.batchInterval]

DecisionAt(v, queueAhead) ==
    Decision(fleet[v].telemetry, VehiclePolicy(v, queueAhead))

Candidates == {v \in Vehicles : DecisionAt(v, 0) = "MIGRATE_NOW"}

\* latest_start multiplied by the rise rate, which is positive for candidates.
Slack(v) ==
    LET t == fleet[v].telemetry
        p == VehiclePolicy(v, 0)
    IN  1000 * (p.danger - t.water) - t.rise * Overhead(p)

\* Mutation: candidates are taken in the order of their ids.
PrecedesById(u, v) == u < v

\* The sort key (latest_start, vehicle_id).
Precedes(u, v) ==
    LET a == Slack(u) * fleet[v].telemetry.rise
        b == Slack(v) * fleet[u].telemetry.rise
    IN  a < b \/ (a = b /\ u < v)

-----------------------------------------------------------------------------
(***************************************************************************)
(* The slots: the ids of the available points by priority and id, each     *)
(* repeated capacity times.                                                *)
(***************************************************************************)

Capacity(points) == MapThenSumSet(LAMBDA p : site.points[p].capacity, points)

AvailablePoints == {p \in Points : site.points[p].available}

Preferred(p, q) ==
    \/ site.points[p].priority < site.points[q].priority
    \/ site.points[p].priority = site.points[q].priority /\ p < q

SlotCount == Capacity(AvailablePoints)

\* The point of slots[i], counting from 0.
PointOfSlot(i) ==
    CHOOSE p \in AvailablePoints :
        LET before == Capacity({q \in AvailablePoints : Preferred(q, p)})
        IN  before <= i /\ i < before + site.points[p].capacity

SiteAvailable == site.online /\ site.age <= SiteMaxAge

-----------------------------------------------------------------------------
(***************************************************************************)
(* The loop.                                                               *)
(***************************************************************************)

NewPlan(status, rank, batch, queueAhead, point) ==
    [status |-> status, rank |-> rank, batch |-> batch,
     queueAhead |-> queueAhead, point |-> point]

\* Mutation: a code that has no entry of its own is passed on as the status.
DirectStatusPassedOn(code) ==
    CASE code \in {"STAY", "WATCH"} -> "NOT_REQUIRED"
      [] code = "PREPARE"           -> "PREPARE_ONLY"
      [] OTHER                      -> code

\* DIRECT_STATUS
DirectStatus(code) ==
    CASE code \in {"STAY", "WATCH"} -> "NOT_REQUIRED"
      [] code = "PREPARE"           -> "PREPARE_ONLY"
      [] code = "VERIFY_ONLY"       -> "VERIFY_ONLY"
      [] OTHER                      -> "DENIED"

Waiting == Candidates \ DOMAIN plans

\* The candidate of this iteration and its rank.
Current(v) == v \in Waiting /\ \A u \in Waiting \ {v} : Precedes(v, u)

Rank == Cardinality(DOMAIN plans) + 1

\* Mutation: the rank is divided where the queue should be.
BatchOfRank(queueAhead) == ((queueAhead + 1) \div site.batchSize) + 1

BatchOf(queueAhead) == (queueAhead \div site.batchSize) + 1

Record(v, plan) ==
    plans' = [u \in DOMAIN plans \union {v} |-> IF u = v THEN plan ELSE plans[u]]

Init ==
    /\ fleet \in Fleets
    /\ site \in Sites
    /\ plans = << >>
    /\ slotIndex = 0

PlaceUnavailable(v) ==
    /\ Current(v)
    /\ ~SiteAvailable
    /\ Record(v, NewPlan("SITE_UNAVAILABLE", Rank, Null, Null, Null))
    /\ UNCHANGED <<fleet, site, slotIndex>>

RunOutOfCapacity(v) ==
    /\ Current(v)
    /\ SiteAvailable
    /\ slotIndex >= SlotCount
    /\ Record(v, NewPlan("NO_CAPACITY", Rank, Null, Null, Null))
    /\ UNCHANGED <<fleet, site, slotIndex>>

\* The slot stays consumed: a freed place is not handed to a later vehicle.
CloseWindow(v) ==
    LET queueAhead == Rank - 1
    IN  /\ Current(v)
        /\ SiteAvailable
        /\ slotIndex < SlotCount
        /\ DecisionAt(v, queueAhead) # "MIGRATE_NOW"
        /\ slotIndex' = slotIndex + 1
        /\ Record(v, NewPlan("WINDOW_CLOSED", Rank, BatchOf(queueAhead), queueAhead, Null))
        /\ UNCHANGED <<fleet, site>>

\* Mutation: the decision without a queue is trusted.
ScheduleOnBaseDecision(v) ==
    LET queueAhead == Rank - 1
    IN  /\ Current(v)
        /\ SiteAvailable
        /\ slotIndex < SlotCount
        /\ slotIndex' = slotIndex + 1
        /\ Record(v, NewPlan("SCHEDULED_SHADOW", Rank, BatchOf(queueAhead), queueAhead,
                             PointOfSlot(slotIndex)))
        /\ UNCHANGED <<fleet, site>>

Schedule(v) ==
    LET queueAhead == Rank - 1
    IN  /\ Current(v)
        /\ SiteAvailable
        /\ slotIndex < SlotCount
        /\ DecisionAt(v, queueAhead) = "MIGRATE_NOW"
        /\ slotIndex' = slotIndex + 1
        /\ Record(v, NewPlan("SCHEDULED_SHADOW", Rank, BatchOf(queueAhead), queueAhead,
                             PointOfSlot(slotIndex)))
        /\ UNCHANGED <<fleet, site>>

\* direct_plans
PlanOthers ==
    /\ Waiting = {}
    /\ DOMAIN plans # Vehicles
    /\ plans' = [v \in Vehicles |->
                    IF v \in DOMAIN plans THEN plans[v]
                    ELSE NewPlan(DirectStatus(DecisionAt(v, 0)), Null, Null, Null, Null)]
    /\ UNCHANGED <<fleet, site, slotIndex>>

Next ==
    \/ \E v \in Vehicles : \/ PlaceUnavailable(v)
                           \/ RunOutOfCapacity(v)
                           \/ CloseWindow(v)
                           \/ Schedule(v)
    \/ PlanOthers

Spec == Init /\ [][Next]_vars

Scheduled == {v \in DOMAIN plans : plans[v].status = "SCHEDULED_SHADOW"}

WithStatus(status) == {v \in DOMAIN plans : plans[v].status = status}

-----------------------------------------------------------------------------
(***************************************************************************)
(* The browser's planner.                                                  *)
(***************************************************************************)

\* evaluateDecision(telemetryToDecisionInputs(vehicle, site)) with a queue
BrowserDecisionAt(v, queueAhead) ==
    BrowserDecision(fleet[v].telemetry,
        [DefaultPolicy EXCEPT !.danger = OrElse(fleet[v].danger, @),
                              !.routeDistance = OrElse(fleet[v].route, @),
                              !.queueAhead = queueAhead,
                              !.batchSize = site.batchSize,
                              !.batchInterval = site.batchInterval])

\* The browser has no clock of the server: it judges the age at captured_at.
BrowserSiteAvailable == site.online /\ site.ageAtCapture <= SiteMaxAge

\* Every iteration that gets as far as the slots takes one: slotIndex = rank - 1.
BrowserPlan(v) ==
    LET candidates == {u \in Vehicles : BrowserDecisionAt(u, 0) = "MIGRATE_NOW"}
        queueAhead == Cardinality({u \in candidates : Precedes(u, v)})
        rank  == queueAhead + 1
        batch == (queueAhead \div site.batchSize) + 1
    IN  IF v \notin candidates
          THEN NewPlan(DirectStatus(BrowserDecisionAt(v, 0)), Null, Null, Null, Null)
        ELSE IF ~BrowserSiteAvailable
          THEN NewPlan("SITE_UNAVAILABLE", rank, Null, Null, Null)
        ELSE IF queueAhead >= SlotCount
          THEN NewPlan("NO_CAPACITY", rank, Null, Null, Null)
        ELSE IF BrowserDecisionAt(v, queueAhead) # "MIGRATE_NOW"
          THEN NewPlan("WINDOW_CLOSED", rank, batch, queueAhead, Null)
        ELSE NewPlan("SCHEDULED_SHADOW", rank, batch, queueAhead, PointOfSlot(queueAhead))

-----------------------------------------------------------------------------
Statuses ==
    {"NOT_REQUIRED", "PREPARE_ONLY", "VERIFY_ONLY", "SCHEDULED_SHADOW",
     "NO_CAPACITY", "WINDOW_CLOSED", "SITE_UNAVAILABLE", "DENIED"}

Plans ==
    [status: Statuses, rank: Nat \union {Null}, batch: Nat \union {Null},
     queueAhead: Nat \union {Null}, point: Points \union {Null}]

\* Every plan has the shape of FleetVehiclePlan and belongs to one vehicle.
TypeOK ==
    /\ fleet \in Fleets /\ site \in Sites
    /\ DOMAIN plans \subseteq Vehicles
    /\ \A v \in DOMAIN plans : plans[v] \in Plans
    /\ slotIndex \in 0..SlotCount

(***************************************************************************)
(* A scheduled vehicle that leaves with its batch is off the route before  *)
(* the water reaches its own danger level: batches are counted by rounding *)
(* down, the time in the queue by rounding up, and the two must agree on   *)
(* the safe side.                                                          *)
(***************************************************************************)
ScheduledClearsTheRoute ==
    \A v \in Scheduled :
        LET t == fleet[v].telemetry
            p == VehiclePolicy(v, 0)
            departure == (plans[v].batch - 1) * site.batchInterval
        IN  1000 * t.water + t.rise * (departure + RouteTime(p) + p.safetyBuffer)
                < 1000 * p.danger

(***************************************************************************)
(* No safe point is given to more vehicles than it holds, and none that is *)
(* not available is given to any.  What there is goes to the vehicles with *)
(* the least time: one that is refused for capacity has no earlier latest  *)
(* start than any that was scheduled, and of two scheduled ones the more   *)
(* urgent is in no later batch.                                            *)
(***************************************************************************)
PointsGoToTheUrgent ==
    LET Sooner(u, w) ==
            Slack(u) * fleet[w].telemetry.rise < Slack(w) * fleet[u].telemetry.rise
    IN  /\ \A p \in Points :
              LET guests == {v \in Scheduled : plans[v].point = p}
              IN  /\ Cardinality(guests) <= site.points[p].capacity
                  /\ guests # {} => site.points[p].available
        /\ \A v \in Scheduled :
              /\ \A u \in WithStatus("NO_CAPACITY") : ~Sooner(u, v)
              /\ \A u \in Scheduled : Sooner(u, v) => plans[u].batch <= plans[v].batch

(***************************************************************************)
(* A vehicle is reported WINDOW_CLOSED only because its window closed: the *)
(* code tests for any other decision than MIGRATE_NOW, and the reason it   *)
(* prints is true because waiting longer can only close the window.        *)
(***************************************************************************)
WindowClosedForTime ==
    \A v \in WithStatus("WINDOW_CLOSED") :
        LET p == VehiclePolicy(v, plans[v].queueAhead)
        IN  /\ DecisionAt(v, plans[v].queueAhead) = "NO_GO"
            /\ 1000 * (p.danger - fleet[v].telemetry.water)
                  <= fleet[v].telemetry.rise * Overhead(p)

\* The same plan, up to who could place the vehicle at all.
Agree(stored, shown) ==
    IF SiteAvailable <=> BrowserSiteAvailable
      THEN stored = shown
      ELSE /\ stored.rank = shown.rank
           /\ stored.rank = Null => stored = shown
           /\ stored.rank # Null =>
                 /\ stored.status = "SITE_UNAVAILABLE" <=> ~SiteAvailable
                 /\ shown.status = "SITE_UNAVAILABLE" <=> ~BrowserSiteAvailable

(***************************************************************************)
(* The browser shows the plan the server stores: for every vehicle planned *)
(* so far, planFleet gives the same status, rank, batch, queue and point.  *)
(* The two judge the site at different times; where it was too old for one *)
(* of them only, that one says SITE_UNAVAILABLE of exactly the vehicles    *)
(* the other places or refuses, at the same ranks.                         *)
(***************************************************************************)
PlansAgree == \A v \in DOMAIN plans : Agree(plans[v], BrowserPlan(v))
=============================================================================
