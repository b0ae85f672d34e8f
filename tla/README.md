# Verification of xpeng-highground-ai

TLA+ models of the flood-evacuation advisor in this repository, the TLC runs
that check them, and proofs checked by TLAPS. Source paths below are relative
to the repository root.

## The system

Gauges and an edge client report rain and water levels of a parking site. A
deterministic engine turns the readings into one of seven decisions (`STAY`,
`WATCH`, `PREPARE`, `MIGRATE_NOW`, `NO_GO`, `VERIFY_ONLY`, `EMERGENCY_STOP`). The
server keeps the evidence, grants a single-use authorization for an event that
asks for migration, and records, but never sends, a command. A fleet planner
assigns the places on high ground. A web console and a head unit in the car show
the result.

### Inventory

| component | state | operations | what makes it correct | what is hard |
|---|---|---|---|---|
| Decision engine, `backend/app/decision_engine.py`; twin `src/decision-engine.js` | none | `evaluate_decision` | denials before advice; a vehicle told to go arrives in time; both programs agree | two ladders over the same thresholds, boundaries |
| Console form, `src/app.js`, `index.html` | form readings | scenario, sliders, boxes, one minute | the decision follows the form | range inputs round what is written to them |
| Evidence chain, `backend/app/main.py`, `database.py`, `actuator.py` | SQLite: telemetry, decisions, authorizations, commands | ingest, authorize, command | single-use fresh tokens, nothing done for superseded events, idempotent retries | handlers run in a thread pool; clock read before the transaction; crashes; old schema |
| Fleet planner, `backend/app/fleet_planner.py`; twin `src/fleet-planner.js` | none | `plan_fleet` | capacity, urgency, timing in the queue | a decision changes with the place in the queue |
| Fleet run store, `main.py`, `database.py` | SQLite: fleet_runs | submit, read latest, read by id | one stored run per snapshot, no run on stale captures | retries planned anew, hash over defaults |
| Head unit, `p5-headunit` | service fields, preferences, bridge, light | start, stop, poll, reconnect, test | the light follows the last decision, is given back, the intent survives restarts | two threads, failing bridge calls, killed process |
| Console requests, `src/app.js`, `src/app-request-state.js` | generations, current event | connect, submit, authorize and command | no answer of an earlier request is committed | everything after an `await` |
| Fleet view, `src/fleet-view.js`, `src/fleet-view-state.js` | generations, shown plan | stage, submit, retry, disconnect | evidence shown belongs to the stage | a retry racing a stage change |
| Edge client, `backend/edge_client.py` | its loop counter | post a sample, pause, until one fails | the server takes its readings in the order it sent them | a handler outlives the request it served |
| Demo, `demo/run_scenario.py`, `video_evidence.py`, `render_video.py` | records of the steps, the report file | play the scenario over HTTP, accept the report, draw the film | an accepted report is true, the film shows it in order | others write to the same database, answers and the runner itself are late |
| API key, `main.py` | none | compare a header | - | - |
| Fleet demo script, benchmarks | files | sequential scripts | - | - |

The console and the edge client post telemetry to the server; the fleet view
posts snapshots; the head unit polls the latest decision every 15 seconds. The
demo runner is one more client of the evidence chain, and of its read-only
endpoints; what it writes is read later by the validator and the renderer. The
server's handlers share nothing but the database. In the browser the panels
share the API session through an event. In the head unit the main thread and one
executor thread share the service's fields.

## The modules

| module | models | how |
|---|---|---|
| `DecisionEngine` | both engines | Operators `Decision`, `Risk`, `BrowserDecision`. Millimetres, per cent and thousandths of a minute: with the policy's 5 km/h nothing is rounded. The quotient that can be infinite is multiplied out. |
| `FloodWatch` | the console form | One variable, the form; an action for each control. Drives both engines through every threshold. |
| `FloodWatchProofs` | - | Theorems about `DecisionEngine` on the readings the form can hold: agreement of the ladders, departures, escalation. |
| `CommandAuthority` | abstract specification | At most one live event per vehicle; a token is granted for a live event and spent once, while it is live; a retired event stays retired. |
| `EvidenceChain` | the three endpoints that write, over SQLite | A handler is a job that goes through phases; a phase ends at the next read of the clock or of the database, so any handlers interleave there. `BEGIN IMMEDIATE` .. commit is one step. Any phase may fail; the process may crash. |
| `EvidenceChainProofs` | - | Theorems about `EvidenceChain`: types, tokens and supersession; what ingest stores and acknowledges; the refinement of `CommandAuthority`. |
| `DemoRun` | the demo runner, the edge client, the acceptance of the report, the film | Extends `EvidenceChain`: a client's request is the server's action that starts the job, its answer the one that ends it, conjoined with what the client does. `run` holds the runner's locals and the records of its report, `edge` the loop of the edge client. `Accepted` is the validator as far as it depends on what happened; `ShownStep` and `ShownEvent` are the lookups of the renderer. `prompt` and `stored` are history. |
| `DemoRunProofs` | - | Theorems about `DemoRun`: its server part is a run of `EvidenceChain`, and what follows; the order in which clients are heard; what an accepted report and its film are worth, and that a run in time is accepted. |
| `FleetPlanner` | `plan_fleet`; `planFleet` in closed form | One iteration of the loop a step: `PlaceUnavailable`, `RunOutOfCapacity`, `CloseWindow`, `Schedule`, then `PlanOthers`. |
| `FleetPlannerProofs` | - | Theorems about `FleetPlanner`: the loop against its closed form, slots, safe points and windows. |
| `FleetStore` | the fleet endpoints over fleet_runs | Like `EvidenceChain`; of a plan only the bit that depends on the clock is kept. |
| `FleetStoreProofs` | - | Theorems about `FleetStore`: types, one run an id, fresh runs, readers. |
| `WebConsole` | the requests of `app.js` | One variable for the globals and controls of the page, one operator for each function that changes them, composed as the code composes them; sets of requests under way. What runs between two awaits is one step. The server is its answers: stored, recorded, or a failure of one of the three kinds `classifyApiFailure` tells apart. |
| `WebConsoleProofs` | - | Theorems about `WebConsole`: consent, lock, command and session. |
| `FleetView` | `fleet-view.js` | The same way. A submission goes from fetch to wait or body; its index stands for its `snapshot_id`. The other page enters as the sender of session events. |
| `FleetViewProofs` | - | Theorems about `FleetView`: current evidence, late requests. |
| `P5Monitor` | `HighGroundMonitorService` and `XpengP5Bridge` | Main thread and executor; a step ends where the other thread can interfere (two volatile writes, a call without the lock). The server is a decision per vehicle that changes or becomes stale. |
| `P5MonitorProofs` | - | Theorems about `P5Monitor`: display, latched intent, bridges, the all-clear. |

`MC*` modules hold instances for TLC.

How state corresponds: the index in `rows` is the rowid and stands for the
event id; the index in `auths` stands for the token; `report` is what the stored
hash covers; `marker` is `captured_at_provided` (1, 0 or NULL). `acked`, `refused`
and `seen` are history variables: what clients were told. In `P5Monitor`
`bridge.id` is the identity of the Java object and `config.number` that of the
`BackendConfig` object, because the code compares references.

## The runs

Expected to pass:

| run | instance | shows |
|---|---|---|
| `form` (`MCFloodWatch.cfg`) | all six scenarios, sliders on both sides of the thresholds, any number of minutes | `LaddersAgree` (both engines, decision and risk), `DepartureClearsTheRoute`, `EscalationNeverRelaxes` |
| `evidence` (`MCEvidenceChain.cfg`) | 2 handlers, 2 messages of one vehicle, 1 token, times 0..3, a capture time that is ahead, in time and too old in turn, a row of the earlier schema | `OneTokenOneCommand`, `SpentTokensWereFresh`, `SupersededIsFinal`, `AcknowledgedIsStored`, `FutureCaptureNeverStored`, `RetryNeverRefreshes`, refinement `ImplementsAuthority` |
| `demo` (`MCDemoRun.cfg`) | the runner and an edge client with 2 samples, 3 handlers, 2 vehicles, 6 steps | `AcceptedReportsAreTrue`, `PassedRunsAreAccepted`, `FilmTellsTheRun`, `SendersAreHeardInOrder` |
| `planner` (`MCFleetPlanner.cfg`) | all fleets of 3 vehicles from 7 profiles, 144 sites | `ScheduledClearsTheRoute`, `PointsGoToTheUrgent`, `WindowClosedForTime`, `PlansAgree` |
| `fleet_store` (`MCFleetStore.cfg`) | 2 handlers, 3 snapshots with 2 ids, 3 requests | `RepliesNameOneRun`, `StoredRunsWereFresh`, `ReadersNeverGoBack` |
| `console` (`MCWebConsole.cfg`) | 2 keys, 3 connections, generations up to 7 | `ConsentIsForTheShownEvent`, `LockCoversCommand`, `CommandUnderUnbrokenConsent`, `RefusalEndsItsOwnSession`, `ControlsComeBack` (liveness) |
| `fleet_view` (`MCFleetView.cfg`) | 2 stages, 2 keys, 2 submissions, 2 connections, 1 session event | `FreshEvidenceIsCurrent`, `LateRequestsOnlyWithdraw`, `BusyStatusEnds` (liveness) |
| `headunit` (`MCP5Monitor.cfg`) | 1 vehicle, 2 events, 2 starts, up to 2 faults of calls, connections or polls | `AllClearRestoresTheLight`, `AlarmReachesTheLight` (liveness) |
| `headunit_restart` (`MCP5Restart.cfg`) | 2 vehicles, start pressed at any time, a kill or a failed `close` | `ShownIsOfCurrentTarget`, `IntentIsLatched` |

Each module's type invariant is checked by its first run; `FloodWatch` has one variable, the form, and none.

Expected to be violated, because the program does not do what is written:

| run | property | disagreement |
|---|---|---|
| `fleet_bare` | `RepeatsNeverConflict` | The same snapshot sent twice conflicts with itself when its telemetry has no `message_id`: the hash covers the generated one. |
| `headunit_stop` | `StopEndsTheWarning` | A light task that has read the intent runs after the owner's stop and lights the warning; while the activity is bound nothing turns it off. |
| `headunit_kill` | `AllClearRestoresTheLight` | After a kill the new bridge takes the warning for the driver's setting. |

Met while modelling, and not stated as runs:

* `stepOneMinute` (`app.js:293`) writes to a range input whose step is 0.5 cm,
  which swallows the 0.2 cm/min of the "normal" scenario (`AfterOneMinute`).
* Of two commands with one token both call the record-only actuator, because the
  token is consumed after the call (`CallActuator`, `ConsumeToken`); the second
  is refused.
* A late failure of a fleet submission is shown, and a late 401 ends a session
  opened since, because `fleet-view.js:410-432` does not test again after the body
  (`BodyOfFailure`). The design (section 11.2) says that a change of stage
  invalidates old answers; `LateRequestsOnlyWithdraw` states what remains true.
* Disconnecting the fleet page before its scenario is there throws in
  `renderBrowserStage`, so the status line keeps saying "connected"
  (`SwitchToBrowserMode`).
* After a command whose answer was lost the owner may withdraw the consent and
  reads that no command was recorded (`app.js:825`), which the server may have done.

### Bounds

Two handlers suffice for the races in the server: every conflict is between two
transactions, or between one transaction and an earlier read. Two messages give
a newer and an older event, or a repeated one. One token is issued in the
`evidence` run, which is enough for two commands to compete for it; the proofs
are about any number. The clock
takes more values than the lifetimes, so tokens expire and events become stale
while a handler is on its way. `MaxRows`, `MaxTokens`, `MaxRuns`, `MaxRequests`,
`MaxEvents`, `MaxStarts`, `MaxFaults` and `MaxClock` bound counters in guards;
reaching one disables the action. In the planner three
vehicles give a first, a middle and a last place, batches of one and two, and
fewer slots than candidates; the site's age is in or out of its limit at the server's
clock and at the capture time, which the browser goes by, in all four combinations. The
planner stops when all have plans, hence
`CHECK_DEADLOCK FALSE` there. The faults of the head unit are bounded: without a
bound no liveness property could hold, and with two of them a restoration can
fail again. In the web page every invalidation advances a generation, so `MaxGeneration`
bounds how much the owner does: seven are enough for two events, each with two
flows and a withdrawal between them. Two submissions give a late and a current
one. Symmetry is used only in runs without liveness properties, over
workers, and over messages where no legacy row names one.

The `demo` run plays a scenario shortened to six steps, two of them readings, one
before and one after the command. Its unit is 5 seconds, the default timeout of
both clients and the tolerance of the validator, and every pause is one unit
(between 5 and 25 seconds in the scenario file). The accepted length, 119.5 to
130 seconds for 120, becomes 5 to 7 units for 5; lifetimes are as `run_demo.ps1`
sets them (120, 300 and 30 seconds); two frames a unit are enough to have frames
on and between the steps. A listing holds 3 events where the server's default
is 20, one more than the run reads and one less than all that can be stored. A run
begins at 0 and is followed to its end, and the edge client posts two samples
before the run or one during it, of the same vehicle or another; the
constraint `RunGoesOn` says so. A server crash is in the model at every step.

In the head unit a preference counts as kept from its `apply()` on. Android writes it
to the disk later; a kill in between, which loses it, is not modelled, so
`IntentIsLatched` is about intents that have been written.

`headunit` has `PressWhileMonitoring = FALSE`. A start pressed while monitoring
reads the preference between the two writes of `setWarningLightWanted` and then
drops the intent; `AlarmReachesTheLight` does not cover that press.

### Fairness

`headunit`, `console` and `fleet_view` check liveness properties, so their modules
state fairness. In the web page it is that of the browser: a fetch, a body and a
timer settle sooner or later, with a result or an error; the owner, the other page
and the loading of the scenario have none.
The Android looper and the executor run what is queued: weak fairness of the main
thread's and of the running task's steps. The executor's queue is first in first
out and polls and the reconnection check have a fixed delay, so each kind of task
gets its turn again and again: strong fairness of `BeginPoll`, `BeginRestore` and
`PostReconnect`. A sticky service is started again. Owner, server and faults have
no fairness. The server, the demo runner and the edge client are checked for safety only:
what they promise is about runs that end well.

## The proofs

Eight modules prove, for every value of the constants that the modules' own
assumptions admit: any number of workers, messages, vehicles, rows, snapshots,
requests, generations, events and faults, any legacy table that is well formed, any
script that `load_scenario` accepts, any policy, fleet and site. Every state
invariant and action property that a passing run checks is stated by a theorem. In
`EvidenceChainProofs`:

* `TypeCorrect`: `Spec => []TypeOK`. The invariant is `TypeInv`: the types alone
  are not inductive, since a job that is about to insert must carry a report and
  one that is about to consume must carry an event that exists.
* `SingleUse`: `Spec => []OneTokenOneCommand`. Consumption is one step that
  tests `usedAt` and appends the command, which keeps the correspondence between
  spent tokens and commands one to one.
* `RetriesNeverRefresh`: `Spec => RetryNeverRefreshes`, action by action.
* `Freshness`: `Spec => []SpentTokensWereFresh`, by the invariant `FreshInv`: a
  job that is past its staleness test carries a clock reading that is not in the
  future and at which its event was fresh (`FreshJobs`), and tokens are for
  eligible events and no younger than the reading that dates their expiry
  (`SoundTokens`). Rows only grow and keep their receipt times, so what was
  tested on entry still holds when the token is consumed.
* `SupersessionIsFinal`: `Spec => SupersededIsFinal`. Appending a row cannot make
  an older row the latest again, since `Later` is a total order on rowids and
  receipt times, and both transactions test for the latest event inside.
* `AcknowledgedStays`: `Spec => []AcknowledgedIsStored`, by `StoredInv`: messages
  are unique in the table, a row marked `provided` has a capture time, and the
  marker `AdoptRetry` fills in never turns a row into one its earlier answers
  contradict.
* `NoFutureCapture`: `Spec => []FutureCaptureNeverStored`. The check and the
  insertion are separate steps and a failed check is waived for known messages, so
  the invariant says of each job that its capture time was in tolerance on entry
  or its message is stored, which bars the insertion; the clock does not go back
  in between.
* `ChainImplementsAuthority`: `Spec => ImplementsAuthority`. Insertion observes an
  event, issuing grants, consuming spends, every other step stutters. What has to
  be added to the types is `ScopesHaveLatest`: every vehicle with events has a
  latest one. It holds of any legacy table because receipt times and rowids of a
  finite table have a greatest element (`LeastNatural`, by well-founded
  minimality), and an insertion keeps it because the new row either is the latest
  or loses to the one that is. Without the tie-break on rowid two rows of one
  instant would both be retired.

In `FleetStoreProofs`:

* `StoreTypeCorrect`: `Spec => []TypeOK`. As with the chain, the types need to say
  what a job carries: one that submits an input (`CarriesInput`), one that is about
  to answer a reader a stored run (`CarriesRun`).
* `RepliesAgree`: `Spec => []RepliesNameOneRun`, by `ReplyInv`: snapshot ids are
  unique in the table, because the insertion tests for the id in its own
  transaction, and what was answered is stored and never changes.
* `RunsWereFresh`: `Spec => []StoredRunsWereFresh`, by `FreshInv`. Its part
  `CheckedSnapshots` says that a job past its check of the captures passed it, or
  its id is stored, and then it inserts nothing.
* `ReadersGoForward`: `Spec => ReadersNeverGoBack`, by `ReaderInv`: the run a
  reader is about to be given was the latest of its site when it was read, so it is
  received no earlier than the one this reader has (`ReadsAreRecent`).

In `DemoRunProofs`:

* `DemoRunsTheServer`: `DemoSpec => Spec`. `EvidenceChain` admits every request of
  its sets; what has to be shown is that those the runner builds from earlier
  answers are among them. `RunSound` says so: a run that is under way has an event
  before its first question, because a script begins with telemetry, its token is
  none or one that was issued, and it never passes the last step.
* `DemoKeepsTheChain`: hence every run of the demo has the chain's invariants, its
  finality, and implements `CommandAuthority`.
* `ClientsAreHeardInOrder`: `DemoSpec => []SendersAreHeardInOrder`, by `SpeechInv`:
  of each client at most the last message is still unstored, and its handler is the
  only one that carries it, because a client that gives up says nothing more.
* `ClientsTypeCorrect` and `ReportsAreTrue`: `DemoSpec => []DemoTypeOK` and
  `DemoSpec => []AcceptedReportsAreTrue`, by `ReportInv`. Each record in the report
  says something that was true when it was written and cannot become false
  (`RecordsTell`), the job that answers the runner is the one of its step
  (`JobsMatchTheStep`), and no command is recorded before the runner asks for its
  own (`OneCommand`).
* `FilmsTellTheRun`: `DemoSpec => []FilmTellsTheRun`. A step shown at a time is the last
  one that has begun then, and every step has a frame of its own because steps are at
  least two frames apart, so the last frame may jump to the end of the film. The reading
  shown is the last one before that time; its receipt lies within the tolerance of its
  step, and a reading that is later for the server belongs to a later step
  (`SendersAreHeardInOrder`), which has not begun.
* `AnswersInTimeAreAccepted`: `PacedScript` implies
  `DemoSpec => []PassedRunsAreAccepted`, by `PaceInv`. While the run keeps its
  time (`RunKeepsTime`) no step begins before it is due, and a prompt one exactly then,
  because the answer before it came within a timeout that fits the pause. The stored
  reading is the one the script has for the step, captured when the request was sent and
  received before its answer (`JobFitsTheStep`, `RecordsFit`); the event asked about is
  one of them (`KnowsReading`, `AsksAboutReading`); and a query finds all readings
  before it and none after. The acceptance then follows clause by clause.

In `FloodWatchProofs`, with the arithmetic that was multiplied out in the model:

* `TheLaddersAgree`, `DeparturesClear`: the form holds admissible readings
  (`FormOK`), and for each of them the conditions of the three ladders exclude or imply
  each other.
* `EscalationIsKept`: `Spec => EscalationNeverRelaxes`. A level that is closer or
  rises faster reaches any height sooner, so every window that was closed stays closed.

In `FleetPlannerProofs`:

* `BrowserShowsTheStoredPlan`: `Spec => []PlansAgree`. The two planners are compared for
  any two judgements of the site's age; the sort key and the list of slots, which both
  programs have in the same form, are the same operators in the model. `PlanInv` says
  what the loop has done so far in closed form: the vehicles planned are the most urgent
  ones (`UrgentFirst`), each has the plan `PlanOf` gives it from its rank, and the slots
  taken are those of the vehicles scheduled before (`SlotsTaken`).
* `PlanTypeCorrect`, `ScheduledVehiclesClear`, `ClosedWindowsAreClosed` and
  `PointsGoToTheMostUrgent` follow. The second uses that a queue rounded up is never
  shorter than batches counted by rounding down; the third that a longer queue turns
  `MIGRATE_NOW` into `NO_GO` only; the fourth that the guests of a point
  have different places in the point's stretch of the list of slots.

In `WebConsoleProofs`, for any number of requests and generations:

* `PageTypeCorrect`: `Spec => []TypeOK`, function by function of the page.
* `ConsentIsNotReused`, `LockIsOfOneCommand`, `ConsentIsUnbroken`,
  `SessionsEndByTheirOwnKey`: by `ConsoleInv`. Requests of one kind have different generations, none of the
  future (`GenerationsAreFresh`); a current telemetry request was sent in the present
  session, and so was a flow of the shown event (`CurrentIsOfTheSession`); a flow
  with the current generation and the shown event has an unbroken consent
  (`FlowsHoldConsent`). So two comparisons of numbers stand for session and
  consent, which is what the code relies on.

In `FleetViewProofs`:

* `ViewTypeCorrect`, `EvidenceIsCurrent`, `LateAnswersPutNothingUp`: by `ViewInv`. The
  label fits the plan (`LabelFits`, `BrowserFits`), an open session has its key
  (`KeyIsHeld`), and the submission that may commit was sent for the stage and under
  the key of the page (`CurrentFits`). Every function that changes stage, mode or key is
  shown to withdraw the label with it.

In `P5MonitorProofs`, for any number of vehicles, events, starts and faults:

* `MonitorTypeCorrect`, `DisplayIsOfTheTarget`, `IntentStaysLatched`: by `ServiceInv`,
  under every kind of fault and with start pressed at any time. Two parts are more
  than types: a decision that is being applied is fresh and that of the present
  configuration (`AppliedFits`, which the lock keeps true between two volatile
  writes), and every bridge after the first answers to a fault of its own
  (`BridgeFits`), so that the service does not connect again and again without a reason.
* `AllClearIsRestored`: `Spec => []AllClearRestoresTheLight` under `OrdinaryFaults`, by
  `ClearInv`. Calls, connections and polls may fail any number of times. `PollFits`
  follows a decision from the answer to the intent and the remembered event;
  `LightFits` says that a warning can always be taken back by the bridge that is up,
  that a task aiming at a bridge that was replaced finds the light restored, and that
  after an all-clear the warning is off, or the bridge has asked to be replaced, or
  the light is being tested. `OrdinaryFaults` leaves out three things: a kill, for
  which the property is false (`headunit_kill`); a restoration that fails in `close()`,
  whose exception the code swallows; and start pressed while monitoring (see Bounds).

The assumptions are those `Settings.validate` enforces and those about a legacy
table that `Database.initialize` finds, and for the demo those `load_scenario` checks of
a script, and that a message id with a random part (`run_scenario.py:298`,
`edge_client.py:88`) is new: no earlier row has it. For the film (`FilmAssumption`), steps
are a unit of time or more apart and a unit has two frames or more, as the canonical
sequence of the acceptance and the choices of `--fps` make it. In the head unit null is
no target, number or record. TLC evaluates the assumptions in each run.

`PacedScript` is the hypothesis of one theorem and not an assumption, since
`load_scenario` and `--timeout` admit other scripts and timeouts: the pauses are no shorter
than the timeout (the shortest of the scenario file is 5 seconds, the default), only the
last reading comes after the listing, and one reading asks for migration. `MCDemoRun` has
TLC evaluate it for the scenario of the run.

Checked by TLC only: the liveness properties (`ControlsComeBack`, `BusyStatusEnds`,
`AlarmReachesTheLight`), which are out of the prover's reach.

## Not modelled

* Floating point and the rounding of displayed times: the models compute exactly.
* A server clock that steps back.
* Reasons, evidence texts, hashes as such, HTTP formats, the API key check,
  notifications, voice, speed, gear and weather of the head unit. A failed spoken
  alarm enters as `ReportError`, because it asks for a reconnection.
* A preference lost because the process is killed before it reaches the disk (see Bounds).
* Answers of a server that breaks its own response model: a fleet plan that comes with
  both hashes but without its summary or vehicles (`FleetPlan`, `fleet_models.py:129`)
  would make `renderPlan` throw after it has replaced the plan on display.
* The ageing of an event or a token while its command is being handled: the handler
  reads the clock once, and `SpentTokensWereFresh` goes by that reading as the code does.
* A bridge with some of its three services: `up` means the ambient light is there.
* The light itself is external: it keeps what was set, also when the app dies.
* Of the demo: field formats and hashes of the report (the modelled report is one
  the runner wrote, nobody edits it), time scales other than 1, file names and
  screen captures with the seconds 85, 90 and 115 written into the renderer,
  drawing, subtitles and encoding. The timeout of a request is a bound on the whole
  answer; `urllib` applies it to each socket operation. The runner's preflight and
  its two queries are one step each: they change nothing at the server.
* The fleet demo script and the benchmarks: sequential scripts in one process.
* The digital demo that the console plays for a recorded command, the selection of
  a vehicle in the fleet view, and all drawing.

## Plan

1. Compose `WebConsole` and `FleetView` over the shared key and session event, and
   the console with `CommandAuthority` in place of free answers.
2. A run on the start pressed while monitoring (see Bounds).
