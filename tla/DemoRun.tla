------------------------------- MODULE DemoRun ------------------------------
(***************************************************************************)
(* The canonical two-minute demo (demo/run_scenario.py) played over HTTP   *)
(* against the server of EvidenceChain, while an edge client               *)
(* (backend/edge_client.py) posts samples of its own, perhaps of the same  *)
(* vehicle; then the acceptance of the report (demo/video_evidence.py) and *)
(* the film drawn from it (demo/render_video.py).                          *)
(*                                                                         *)
(* Both clients wait for an answer before they go on and give up at the    *)
(* first failure, but a handler they no longer wait for runs to its end.   *)
(* The runner sleeps until a step is due; it may wake up late.  Formats,   *)
(* hashes and field checks of the validator are left out: a report is one  *)
(* the runner wrote.                                                       *)
(***************************************************************************)
EXTENDS EvidenceChain, FiniteSets

CONSTANTS
    Script,            \* the steps of the scenario: [at, action, body]
    MinimumCount,      \* expect.minimum_count of the events step
    EventsLimit,       \* the limit of a listing when none is asked for
    DemoScope,         \* site_id and vehicle_id of the scenario
    DemoThread,        \* the thread that serves the runner
    RequestTimeout,    \* --timeout of both clients
    TimelineTolerance, \* how far a receipt may lie from the timeline
    MinWall, MaxWall,  \* accepted length of a run
    Fps,               \* frames of the film in a unit of time
    EdgeReadings       \* the bodies of the samples, --rise-per-sample applied

Actions == {"telemetry", "authorize", "command", "events", "latest"}

StepsOf(action) == {i \in DOMAIN Script : Script[i].action = action}

TheStep(action) == CHOOSE i \in StepsOf(action) : TRUE

Telemetry == StepsOf("telemetry")
Authorize == TheStep("authorize")
Command   == TheStep("command")
Listing   == TheStep("events")
Latest    == TheStep("latest")

LastTelemetry == CHOOSE i \in Telemetry : \A j \in Telemetry : j <= i

Duration == Script[Len(Script)].at

DemoMessage(i) == <<"demo", i>>
EdgeMessage(n) == <<"edge", n>>

\* A message_id has a random part: no row of an earlier run has one of these.
ClientMessages ==
    {DemoMessage(i) : i \in Telemetry} \union {EdgeMessage(n) : n \in DOMAIN EdgeReadings}

\* load_scenario, and CANONICAL_STEP_SEQUENCE as far as the runner needs it.
\* The body of the latest step is one of the decision it expects.
CanonicalScript ==
    /\ Script \in Seq([at: Nat, action: Actions, body: Bodies \union {None}])
    /\ Script[1].at = 0 /\ Script[1].action = "telemetry"
    /\ \A i, j \in DOMAIN Script : i < j => Script[i].at <= Script[j].at
    /\ \A i \in Telemetry \union {Latest} : Script[i].body \in Bodies
    /\ \A action \in Actions \ {"telemetry"} : Cardinality(StepsOf(action)) = 1
    /\ Authorize < Command
    /\ Latest = Len(Script)

ASSUME DemoAssumption ==
    /\ CanonicalScript
    /\ ClientMessages \subseteq Messages
    /\ \A table \in LegacyTables : \A i \in 1..Len(table) :
          table[i].report.msg \notin ClientMessages
    /\ DemoScope \in Scopes /\ DemoThread \in Workers
    /\ 0..MaxClock \subseteq Captures
    /\ EdgeReadings \in Seq(Bodies)
    /\ EventsLimit \in Nat /\ EventsLimit > Cardinality(Telemetry)
    /\ RequestTimeout \in Nat /\ TimelineTolerance \in Nat
    /\ MinWall \in Nat /\ MaxWall \in Nat /\ Fps \in Nat \ {0}
    /\ MaxRows = Cardinality(Telemetry) + Len(EdgeReadings)

\* The acceptance admits the steps of CANONICAL_STEP_SEQUENCE only, which are seconds
\* apart, and a film has 24 frames a second or more.
ASSUME FilmAssumption ==
    /\ \A i, j \in DOMAIN Script : i < j => Script[i].at < Script[j].at
    /\ Fps >= 2

\* The default timeout fits the pauses of the canonical script; before its listing are
\* all readings but the last, and one of all asks for migration.
PacedScript ==
    /\ Authorize < Listing /\ Listing < LastTelemetry
    /\ \A i \in Telemetry \ {LastTelemetry} : i < Listing
    /\ \A i, j \in Telemetry :
          {Verdict[Script[i].body], Verdict[Script[j].body]} = {"MIGRATE_NOW"} => i = j
    /\ \A i \in 1..(Len(Script) - 1) : Script[i].at + RequestTimeout <= Script[i + 1].at
    /\ RequestTimeout <= TimelineTolerance
    /\ Duration \in MinWall..MaxWall

VARIABLES
    run,  \* the runner: its locals, and answers, the records of its report
    edge  \* the edge client

demoVars == <<vars, run, edge>>

NoRun ==
    [phase |-> "ready", answers |-> <<>>, event |-> 0, token |-> 0,
     started |-> 0, since |-> 0, prompt |-> TRUE]

\* A run that fails leaves no report.
Failed == [NoRun EXCEPT !.phase = "failed"]

DemoInit ==
    /\ Init
    /\ run = NoRun
    /\ edge \in [phase: {"pause"}, scope: Scopes, sent: {0}, since: {0}]

-----------------------------------------------------------------------------
(***************************************************************************)
(* The runner.                                                             *)
(***************************************************************************)

\* GET /healthz
PassPreflight ==
    /\ run.phase = "ready"
    /\ ActuatorMode = "record-only"
    /\ run' = [run EXCEPT !.phase = "sleeping", !.started = clock, !.since = clock]
    /\ UNCHANGED <<vars, edge>>

Turn == Script[Len(run.answers) + 1]

\* Mutation: each pause is measured from the end of the previous step.
DueAfterPause ==
    run.since + Turn.at
        - (IF run.answers = <<>> THEN 0 ELSE Script[Len(run.answers)].at)

Due == run.started + Turn.at

Wakes(action) ==
    run.phase = "sleeping" /\ Turn.action = action /\ clock >= Due

\* prompt is history: every step began when it was due or right after an answer.
Sent ==
    [run EXCEPT !.phase = "waiting", !.since = clock,
                !.prompt = @ /\ clock \in {Due, run.since}]

SendTelemetry ==
    /\ Wakes("telemetry")
    /\ SubmitTelemetry(DemoThread, [msg |-> DemoMessage(Len(run.answers) + 1),
                                    scope |-> DemoScope,
                                    body |-> Turn.body, cap |-> clock])
    /\ run' = Sent
    /\ UNCHANGED edge

SendAuthorization ==
    /\ Wakes("authorize")
    /\ RequestAuthorization(DemoThread, run.event)
    /\ run' = Sent
    /\ UNCHANGED edge

SendCommand ==
    /\ Wakes("command")
    /\ RequestMigration(DemoThread, run.event, run.token)
    /\ run' = Sent
    /\ UNCHANGED edge

\* Mutation: the last step is not noticed.
AnsweredNeverLast(r, events, stored) ==
    [r EXCEPT !.phase = "sleeping", !.since = clock,
              !.answers = Append(@, [events |-> events, stored |-> stored])]

\* An answer that passes the assertions of its step becomes a record; events
\* are those it names, stored is history: how many a query found in the table.
Answered(r, events, stored) ==
    [r EXCEPT !.phase = IF Len(r.answers) + 1 = Len(Script) THEN "passed"
                                                            ELSE "sleeping",
              !.since = clock,
              !.answers = Append(@, [events |-> events, stored |-> stored])]

EventsOf(scope) == {e \in Events : rows[e].report.scope = scope}

\* ORDER BY received_at DESC LIMIT: of events of one instant any may be cut off.
Newest(events, limit) ==
    {listed \in SUBSET events :
        /\ Cardinality(listed) <= limit
        /\ listed = events \/ Cardinality(listed) = limit
        /\ \A e \in listed, f \in events \ listed :
              rows[e].receivedAt >= rows[f].receivedAt}

\* Mutation: the runner asks for as many events as it expects.
ListEventsExpected == Newest(EventsOf(DemoScope), MinimumCount)

\* GET /api/v1/events
ListEvents == Newest(EventsOf(DemoScope), EventsLimit)

GetEvents ==
    /\ Wakes("events")
    /\ UNCHANGED <<vars, edge>>
    /\ \E listed \in ListEvents :
          run' = IF Cardinality(listed) >= MinimumCount
                   THEN Answered(Sent, listed, Len(rows)) ELSE Failed

\* GET /api/v1/decisions/latest
LatestFresh == {e \in EventsOf(DemoScope) : IsLatest(e) /\ ~Stale(e, clock)}

GetLatest ==
    /\ Wakes("latest")
    /\ UNCHANGED <<vars, edge>>
    /\ run' = IF \E e \in LatestFresh :
                    Verdict[rows[e].report.body] = Verdict[Turn.body]
                THEN Answered(Sent, LatestFresh, Len(rows)) ELSE Failed

\* The answer of what has been committed may be lost on its way.
Hear(r, events) ==
    /\ run' \in IF run.phase = "waiting" THEN {Answered(r, events, 0), Failed} ELSE {run}
    /\ UNCHANGED edge

HearTelemetry ==
    /\ InsertTelemetry(DemoThread)
    /\ Hear([run EXCEPT !.event = Len(rows) + 1], {Len(rows) + 1})

HearAuthorization ==
    /\ GrantAuthorization(DemoThread)
    /\ Hear([run EXCEPT !.token = Len(auths) + 1], {job[DemoThread].event})

HearCommand ==
    /\ ConsumeToken(DemoThread)
    /\ Hear(run, {job[DemoThread].event})

GivesUp == run' = IF run.phase = "waiting" THEN Failed ELSE run

\* The job ends without an answer the runner accepts.
HearRefusal ==
    /\ \/ RefuseAuthorization(DemoThread)
       \/ ValidateToken(DemoThread) /\ job'[DemoThread] = Idle
       \/ RefuseCommand(DemoThread)
       \/ RequestFails(DemoThread)
    /\ GivesUp
    /\ UNCHANGED edge

RequestTimesOut ==
    /\ run.phase = "waiting" /\ clock - run.since = RequestTimeout
    /\ run' = Failed
    /\ UNCHANGED <<vars, edge>>

\* The request does not reach its handler: no connection, 401, refused on entry.
RequestRejected ==
    /\ run.phase = "ready" \/ (run.phase = "sleeping" /\ clock >= Due)
    /\ run' = Failed
    /\ UNCHANGED <<vars, edge>>

-----------------------------------------------------------------------------
(***************************************************************************)
(* The edge client: one sample after the other, each with an id and a      *)
(* capture time of its own, until one fails.  It may pause for any time.   *)
(***************************************************************************)

EdgeStopped == [edge EXCEPT !.phase = "stopped", !.since = 0]

PostSample(w) ==
    /\ edge.phase = "pause" /\ edge.sent < Len(EdgeReadings)
    /\ SubmitTelemetry(w, [msg |-> EdgeMessage(edge.sent + 1), scope |-> edge.scope,
                           body |-> EdgeReadings[edge.sent + 1], cap |-> clock])
    /\ edge' = [edge EXCEPT !.phase = "waiting", !.sent = @ + 1, !.since = clock]
    /\ UNCHANGED run

\* w serves the sample the client waits for.
Awaited(w) == edge.phase = "waiting" /\ job[w].report.msg = EdgeMessage(edge.sent)

HearSample(w) ==
    /\ InsertTelemetry(w)
    /\ edge' \in IF Awaited(w)
                   THEN {[edge EXCEPT !.phase = "pause", !.since = 0], EdgeStopped}
                   ELSE {edge}
    /\ UNCHANGED run

SampleFails(w) ==
    /\ RequestFails(w)
    /\ edge' = IF Awaited(w) THEN EdgeStopped ELSE edge
    /\ UNCHANGED run

\* Mutation: the loop goes on with the next sample.
SampleTimesOutAndGoesOn ==
    /\ edge.phase = "waiting" /\ clock - edge.since = RequestTimeout
    /\ edge' = [edge EXCEPT !.phase = "pause", !.since = 0]
    /\ UNCHANGED <<vars, run>>

SampleTimesOut ==
    /\ edge.phase = "waiting" /\ clock - edge.since = RequestTimeout
    /\ edge' = EdgeStopped
    /\ UNCHANGED <<vars, run>>

-----------------------------------------------------------------------------
\* A phase of a handler that answers nothing yet.
Proceed(w) ==
    /\ StampReceipt(w) \/ ValidateToken(w) \/ CallActuator(w)
    /\ job'[w] # Idle
    /\ UNCHANGED <<run, edge>>

ServerDies ==
    /\ Crash
    /\ GivesUp
    /\ edge' = IF edge.phase = "waiting" THEN EdgeStopped ELSE edge

\* A client gives up at the timeout, not later.
TimePasses ==
    /\ run.phase = "waiting" => clock - run.since < RequestTimeout
    /\ edge.phase = "waiting" => clock - edge.since < RequestTimeout
    /\ Tick
    /\ UNCHANGED <<run, edge>>

DemoNext ==
    \/ PassPreflight \/ SendTelemetry \/ SendAuthorization \/ SendCommand
    \/ GetEvents \/ GetLatest
    \/ HearTelemetry \/ HearAuthorization \/ HearCommand \/ HearRefusal
    \/ RequestTimesOut \/ RequestRejected
    \/ \E w \in Workers \ {DemoThread} :
          PostSample(w) \/ HearSample(w) \/ SampleFails(w)
    \/ SampleTimesOut
    \/ \E w \in Workers : Proceed(w)
    \/ ServerDies \/ TimePasses

DemoSpec == DemoInit /\ [][DemoNext]_demoVars

-----------------------------------------------------------------------------
(***************************************************************************)
(* The acceptance of a report (validate_inputs), as far as it depends on   *)
(* what happened during the run.                                           *)
(***************************************************************************)

\* The event a record of the report names.
EventAt(i) == CHOOSE e \in run.answers[i].events : TRUE

Told(steps) == {EventAt(i) : i \in steps}

Listed == run.answers[Listing].events

EventChainValid ==
    LET told == Told(Telemetry)
        authorized == EventAt(Authorize)
    IN  /\ Cardinality(told) = Cardinality(Telemetry)
        /\ {e \in told : Eligible(e)} = {authorized}
        /\ EventAt(Command) = authorized
        /\ authorized \in Listed
        /\ Listed = Told(Telemetry \intersect 1..(Listing - 1))
        /\ EventAt(Latest) = EventAt(LastTelemetry)

Received(i) == rows[EventAt(i)].receivedAt

Gap(a, b) == IF a < b THEN b - a ELSE a - b

\* The run ended when its last answer came.
RunTimingValid ==
    \A i \in Telemetry :
        /\ run.started <= Received(i) /\ Received(i) <= run.since
        /\ \A j \in Telemetry : i < j => Received(i) <= Received(j)
        /\ Gap(Received(i), run.started + Script[i].at) <= TimelineTolerance

\* The readings as the server returned them, in the listing and as the latest.
PayloadsValid ==
    LET persisted == Listed \union {EventAt(Latest)}
    IN  /\ EventAt(Latest) \notin Listed
        /\ {rows[e].report.msg : e \in persisted} =
               {DemoMessage(i) : i \in Telemetry}
        /\ \A e \in persisted :
              /\ run.started <= rows[e].report.cap
              /\ rows[e].report.cap <= rows[e].receivedAt
              /\ rows[e].receivedAt <= run.since
        /\ \A i \in Telemetry :
              rows[EventAt(i)].report.scope = DemoScope
                /\ rows[EventAt(i)].report.body = Script[i].body

Accepted ==
    /\ run.phase = "passed"
    /\ run.since - run.started \in MinWall..MaxWall
    /\ EventChainValid
    /\ RunTimingValid
    /\ PayloadsValid

-----------------------------------------------------------------------------
(***************************************************************************)
(* The film.  Times are counted in frames.                                 *)
(***************************************************************************)

FrameCount == Duration * Fps

\* Mutation: the last frame has its own time.
FrameSecondPlain(f) == f

FrameSecond(f) == IF f = FrameCount - 1 THEN FrameCount ELSE f

\* state_at: bisect_right, the last step that has begun
ShownStep(t) ==
    CHOOSE i \in DOMAIN Script :
        /\ Script[i].at * Fps <= t
        /\ \A j \in DOMAIN Script : Script[j].at * Fps <= t => j <= i

\* The decision shown is the last one the records up to this step hold.
ShownEvent(t) ==
    LET decided == (Telemetry \union {Latest})
                     \intersect 1..ShownStep(t)
    IN  EventAt(CHOOSE i \in decided : \A j \in decided : j <= i)

-----------------------------------------------------------------------------
(***************************************************************************)
(* Properties.                                                             *)
(***************************************************************************)

(***************************************************************************)
(* Runner and edge client have the shape of their locals; a run has passed *)
(* exactly when every step has its record, and names events and tokens     *)
(* that are stored.                                                        *)
(***************************************************************************)
DemoTypeOK ==
    /\ run \in [phase: {"ready", "sleeping", "waiting", "passed", "failed"},
                answers: Seq([events: SUBSET Events, stored: 0..Len(rows)]),
                event: 0..Len(rows), token: 0..Len(auths),
                started: 0..clock, since: 0..clock, prompt: BOOLEAN]
    /\ run.phase = "passed" <=> Len(run.answers) = Len(Script)
    /\ edge \in [phase: {"pause", "waiting", "stopped"}, scope: Scopes,
                 sent: 0..Len(EdgeReadings), since: 0..clock]

(***************************************************************************)
(* What an accepted report tells is true of the database, although others  *)
(* may write to it at any time: one command is recorded for the events of  *)
(* the run, and it is for the one that asked for migration; nobody else    *)
(* had reported on the vehicle when the events were listed; and what had   *)
(* come in when the run ended is not later than its last reading.          *)
(***************************************************************************)
AcceptedReportsAreTrue ==
    Accepted =>
        LET told == Told(Telemetry)
            final == EventAt(LastTelemetry)
        IN  /\ \E c \in 1..Len(commands) :
                  /\ Eligible(commands[c].event)
                  /\ {d \in 1..Len(commands) : commands[d].event \in told} = {c}
            /\ \A e \in EventsOf(DemoScope) \ told :
                  /\ e > run.answers[Listing].stored
                  /\ e <= run.answers[Latest].stored => Later(final, e)

(***************************************************************************)
(* A run that passed, began each step in time and had the vehicle for      *)
(* itself gives a report the film accepts: answers that take up to the     *)
(* timeout of a request delay no step beyond the tolerance of the          *)
(* timeline, because the pauses are measured from the start of the run.    *)
(***************************************************************************)
PassedRunsAreAccepted ==
    /\ run.phase = "passed" /\ run.prompt
    /\ EventsOf(DemoScope) = Told(Telemetry)
    => Accepted

(***************************************************************************)
(* The film of an accepted report shows every step, and at any time a      *)
(* decision the vehicle had then, up to the tolerance: taken no later, and *)
(* not replaced by one the run had received before.                        *)
(***************************************************************************)
FilmTellsTheRun ==
    Accepted =>
        LET times == {FrameSecond(f) : f \in 0..(FrameCount - 1)}
            told == Told(Telemetry)
            elapsed == [e \in told |-> (rows[e].receivedAt - run.started) * Fps]
            slip == TimelineTolerance * Fps
        IN  /\ {ShownStep(t) : t \in times} = DOMAIN Script
            /\ \A t \in times :
                  LET shown == ShownEvent(t)
                  IN  /\ elapsed[shown] <= t + slip
                      /\ \A e \in told : Later(e, shown) => elapsed[e] > t - slip

(***************************************************************************)
(* A sender that waits for its answer is heard in the order it speaks:     *)
(* of two stored readings the one sent later is the later one for the      *)
(* server, although handlers overlap and outlive the client's patience.    *)
(***************************************************************************)
SendersAreHeardInOrder ==
    \A e, f \in Events :
        LET m == rows[e].report.msg
            n == rows[f].report.msg
        IN  {m, n} \subseteq ClientMessages /\ m[1] = n[1] /\ m[2] < n[2]
                => Later(f, e)
=============================================================================
