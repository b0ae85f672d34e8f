----------------------------- MODULE WebConsole -----------------------------
(***************************************************************************)
(* The requests of the single-vehicle page, src/src/app.js: connecting,    *)
(* submitting telemetry, and the two requests of a migration command, each *)
(* guarded by a generation counter against answers that come too late.     *)
(* FloodWatch has the form whose values are submitted.                     *)
(*                                                                         *)
(* The page has one thread: what runs between two awaits is one step.  A   *)
(* response and its body are one step here: between the two nothing is     *)
(* done that the test after the body does not decide again.                *)
(***************************************************************************)
EXTENDS Integers

CONSTANTS
    Keys,    \* the API keys an owner may type
    None,
    MaxGeneration, MaxConnections \* bounds of an instance

ASSUME ConsoleAssumption ==
    None \notin Keys /\ MaxGeneration \in Nat /\ MaxConnections \in Nat

VARIABLES
    page,       \* the globals of the module and the state of its controls
    telemetry,  \* telemetry requests under way
    connects,   \* connection requests under way
    flows,      \* command flows under way: authorization, then command
    consent,    \* history: the event the owner last ticked the box for, or 0
    withdrawals \* history: how often the owner withdrew a consent

vars == <<page, telemetry, connects, flows, consent, withdrawals>>

\* An event is named by the generation of the telemetry request it answers; 0 is
\* null.  migrate is currentResult.decision = MIGRATE_NOW.
PageType ==
    [apiMode: BOOLEAN, apiKey: Keys \union {None},
     field: Keys \union {None},                    \* api-key-input
     event: Nat, migrate: BOOLEAN, recorded: Nat,  \* recordedCommandId, of that event
     checked: BOOLEAN, locked: BOOLEAN,            \* owner-authorized, and disabled
     command: BOOLEAN, run: BOOLEAN,               \* buttons that are enabled
     pending: BOOLEAN,                             \* the connection controls are disabled
     telemetryGen: Nat, commandGen: Nat, connectionGen: Nat]

Init ==
    /\ page = [apiMode |-> FALSE, apiKey |-> None, field |-> None, event |-> 0,
               migrate |-> FALSE, recorded |-> 0, checked |-> FALSE, locked |-> FALSE,
               command |-> FALSE, run |-> TRUE, pending |-> FALSE,
               telemetryGen |-> 0, commandGen |-> 0, connectionGen |-> 0]
    /\ telemetry = {} /\ connects = {} /\ flows = {}
    /\ consent = 0 /\ withdrawals = 0

-----------------------------------------------------------------------------
(***************************************************************************)
(* What the functions of app.js do to the page.                            *)
(***************************************************************************)

Eligible(p) == p.apiMode /\ p.event # 0 /\ p.migrate /\ p.checked

UpdateCommandAvailability(p) == [p EXCEPT !.command = Eligible(p)]

\* Mutation: the tick stays for the next event.
InvalidateEventOnly(p) ==
    UpdateCommandAvailability([p EXCEPT !.commandGen = @ + 1, !.event = 0])

InvalidateEvent(p) ==
    UpdateCommandAvailability(
        [p EXCEPT !.commandGen = @ + 1, !.event = 0, !.checked = FALSE])

\* Mutation: the run button is left to the request that was dropped.
InvalidateTelemetryNotRun(p) ==
    [InvalidateEvent(p) EXCEPT !.telemetryGen = @ + 1, !.recorded = 0]

InvalidateTelemetry(p) ==
    [InvalidateEvent(p) EXCEPT !.telemetryGen = @ + 1, !.recorded = 0, !.run = TRUE]

MarkDirty(p) == IF p.apiMode THEN InvalidateTelemetry(p) ELSE p

Disconnect(p) ==
    UpdateCommandAvailability(
        InvalidateTelemetry([p EXCEPT !.apiMode = FALSE, !.apiKey = None]))

Render(p, event, migrate) ==
    UpdateCommandAvailability([p EXCEPT !.event = event, !.migrate = migrate])

\* Mutation: the local result takes the place of an event, with no name.
RunLocallyUnnamed(p, migrate) == Render(p, None, migrate)

\* The result of the form, computed in the browser: no event of the server.
RunLocally(p, migrate) == Render(p, 0, migrate)

-----------------------------------------------------------------------------
(***************************************************************************)
(* What the owner does.                                                    *)
(***************************************************************************)

MayInvalidate ==
    page.telemetryGen < MaxGeneration /\ page.commandGen < MaxGeneration

\* A slider, a box of the form other than the consent, or the one-minute button.
EditForm(migrate) ==
    /\ MayInvalidate
    /\ page' = RunLocally([MarkDirty(page) EXCEPT !.recorded = 0], migrate)
    /\ UNCHANGED <<telemetry, connects, flows, consent, withdrawals>>

\* A scenario fills the whole form, the consent included; the one that comes with
\* a consent is a vehicle in motion, which is never told to migrate.
ApplyScenario(authorized, migrate) ==
    /\ MayInvalidate
    /\ authorized => ~migrate
    /\ page' = RunLocally([MarkDirty(page) EXCEPT !.recorded = 0, !.checked = authorized],
                          migrate)
    /\ UNCHANGED <<telemetry, connects, flows, consent, withdrawals>>

TickConsent(migrate) ==
    /\ ~page.locked /\ ~page.checked
    /\ page' = IF page.apiMode
                 THEN UpdateCommandAvailability(
                          [page EXCEPT !.recorded = 0, !.checked = page.event # 0])
                 ELSE RunLocally([page EXCEPT !.recorded = 0, !.checked = TRUE], migrate)
    /\ consent' = page.event
    /\ UNCHANGED <<telemetry, connects, flows, withdrawals>>

\* Mutation: a withdrawal does not touch the generation.
WithdrawWithoutGeneration(migrate) ==
    /\ MayInvalidate
    /\ ~page.locked /\ page.checked
    /\ LET p == [page EXCEPT !.recorded = 0, !.checked = FALSE]
       IN  page' = IF page.apiMode THEN UpdateCommandAvailability(p)
                   ELSE RunLocally(p, migrate)
    /\ consent' = 0
    /\ withdrawals' = withdrawals + (IF page.event # 0 THEN 1 ELSE 0)
    /\ UNCHANGED <<telemetry, connects, flows>>

WithdrawConsent(migrate) ==
    /\ MayInvalidate
    /\ ~page.locked /\ page.checked
    /\ LET p == [page EXCEPT !.recorded = 0, !.checked = FALSE]
       IN  page' = IF ~page.apiMode THEN RunLocally(p, migrate)
                   ELSE UpdateCommandAvailability(
                            [p EXCEPT !.commandGen = @ + (IF p.event # 0 THEN 1 ELSE 0)])
    /\ consent' = 0
    /\ withdrawals' = withdrawals + (IF page.event # 0 THEN 1 ELSE 0)
    /\ UNCHANGED <<telemetry, connects, flows>>

\* The run button: runApiDecision up to its request, or the browser's own result.
PressRun(migrate) ==
    /\ MayInvalidate
    /\ page.run
    /\ IF page.apiMode
         THEN /\ page' = [InvalidateEvent(page) EXCEPT
                             !.recorded = 0, !.run = FALSE, !.telemetryGen = @ + 1]
              /\ telemetry' = telemetry \union
                     {[generation |-> page'.telemetryGen, key |-> page.apiKey]}
         ELSE /\ page' = RunLocally([page EXCEPT !.recorded = 0], migrate)
              /\ UNCHANGED telemetry
    /\ UNCHANGED <<connects, flows, consent, withdrawals>>

TypeKey(k) ==
    /\ ~page.pending
    /\ page' = [page EXCEPT !.field = k]
    /\ UNCHANGED <<telemetry, connects, flows, consent, withdrawals>>

\* connectApi up to its request.
PressConnect ==
    /\ ~page.pending
    /\ page.connectionGen < MaxConnections
    /\ LET p == [page EXCEPT !.connectionGen = @ + 1]
       IN  IF page.field = None
             THEN page' = Disconnect(p) /\ UNCHANGED connects
             ELSE /\ page' = [p EXCEPT !.pending = TRUE]
                  /\ connects' = connects \union
                         {[generation |-> p.connectionGen, key |-> page.field]}
    /\ UNCHANGED <<telemetry, flows, consent, withdrawals>>

\* recordMigrationCommand up to its first request.
PressCommand ==
    /\ MayInvalidate
    /\ page.command
    /\ IF page.apiMode /\ page.event # 0 /\ page.checked
         THEN /\ page' = [page EXCEPT !.commandGen = @ + 1, !.command = FALSE]
              /\ flows' = flows \union
                     {[event |-> page.event, generation |-> page'.commandGen,
                       key |-> page.apiKey, phase |-> "authorize",
                       withdrawals |-> withdrawals]}
         ELSE page' = UpdateCommandAvailability(page) /\ UNCHANGED flows
    /\ UNCHANGED <<telemetry, connects, consent, withdrawals>>

-----------------------------------------------------------------------------
(***************************************************************************)
(* Answers.  A failure is classified by classifyApiFailure: "session" ends *)
(* the session, "event" the event, "other" (the network too) neither.      *)
(***************************************************************************)
Failures == {"session", "event", "other"}

TelemetryCurrent(t) == t.generation = page.telemetryGen

TelemetryStored(t, migrate) ==
    /\ t \in telemetry
    /\ telemetry' = telemetry \ {t}
    /\ page' = IF TelemetryCurrent(t)
                 THEN [Render(page, t.generation, migrate) EXCEPT !.run = TRUE]
                 ELSE page
    /\ UNCHANGED <<connects, flows, consent, withdrawals>>

TelemetryFails(t, failure) ==
    /\ t \in telemetry
    /\ telemetry' = telemetry \ {t}
    /\ page' = CASE ~TelemetryCurrent(t) -> page
                 [] TelemetryCurrent(t) /\ failure = "session" -> Disconnect(page)
                 [] TelemetryCurrent(t) /\ failure = "event" ->
                        [InvalidateEvent(page) EXCEPT !.run = TRUE]
                 [] TelemetryCurrent(t) /\ failure = "other" -> [page EXCEPT !.run = TRUE]
    /\ UNCHANGED <<connects, flows, consent, withdrawals>>

ConnectionCanCommit(c) ==
    c.generation = page.connectionGen /\ c.key = page.field

\* The finally clause of connectApi.
ConnectionDone(c, p) ==
    IF c.generation = page.connectionGen THEN [p EXCEPT !.pending = FALSE] ELSE p

ConnectionVerified(c) ==
    /\ c \in connects
    /\ connects' = connects \ {c}
    /\ page' = ConnectionDone(c,
           IF ConnectionCanCommit(c)
             THEN InvalidateTelemetry([page EXCEPT !.apiMode = TRUE, !.apiKey = c.key])
             ELSE IF c.generation = page.connectionGen THEN Disconnect(page) ELSE page)
    /\ UNCHANGED <<telemetry, flows, consent, withdrawals>>

ConnectionFails(c) ==
    /\ c \in connects
    /\ connects' = connects \ {c}
    /\ page' = ConnectionDone(c,
           IF c.generation = page.connectionGen THEN Disconnect(page) ELSE page)
    /\ UNCHANGED <<telemetry, flows, consent, withdrawals>>

CommandCanContinue(f) ==
    f.generation = page.commandGen /\ f.event = page.event /\ page.checked

\* Mutation: the owner may untick while the command is under way.
AuthorizedWithoutLock(f) ==
    /\ f \in flows /\ f.phase = "authorize"
    /\ flows' = (flows \ {f}) \union
           (IF CommandCanContinue(f) THEN {[f EXCEPT !.phase = "command"]} ELSE {})
    /\ UNCHANGED <<page, telemetry, connects, consent, withdrawals>>

\* The token arrived: the command is sent, with the box locked, or the flow ends.
Authorized(f) ==
    /\ f \in flows /\ f.phase = "authorize"
    /\ IF CommandCanContinue(f)
         THEN /\ page' = [page EXCEPT !.locked = TRUE]
              /\ flows' = (flows \ {f}) \union {[f EXCEPT !.phase = "command"]}
         ELSE UNCHANGED page /\ flows' = flows \ {f}
    /\ UNCHANGED <<telemetry, connects, consent, withdrawals>>

\* The finally clause of recordMigrationCommand.
FlowDone(f, p) == IF f.phase = "command" THEN [p EXCEPT !.locked = FALSE] ELSE p

CommandRecorded(f) ==
    /\ f \in flows /\ f.phase = "command"
    /\ flows' = flows \ {f}
    /\ page' = FlowDone(f,
           IF CommandCanContinue(f)
             THEN [InvalidateEvent(page) EXCEPT !.recorded = f.event] ELSE page)
    /\ UNCHANGED <<telemetry, connects, consent, withdrawals>>

\* Mutation: the failure of a flow is taken for one of the shown event.
AfterFailureOfAny(f, failure) ==
    CASE failure = "session" -> Disconnect(page)
      [] failure = "event" -> InvalidateEvent(page)
      [] failure = "other" /\ f.generation # page.commandGen -> page
      [] failure = "other" /\ f.generation = page.commandGen ->
             UpdateCommandAvailability(page)

\* The catch clause of recordMigrationCommand.
AfterFailure(f, failure) ==
    CASE f.event # page.event -> page
      [] f.event = page.event /\ failure = "session" -> Disconnect(page)
      [] f.event = page.event /\ failure = "event" -> InvalidateEvent(page)
      [] f.event = page.event /\ failure = "other" ->
             IF f.generation = page.commandGen THEN UpdateCommandAvailability(page) ELSE page

\* An answer that is no evidence of a record-only command fails as "other".
FlowFails(f, failure) ==
    /\ f \in flows
    /\ flows' = flows \ {f}
    /\ page' = FlowDone(f, AfterFailure(f, failure))
    /\ UNCHANGED <<telemetry, connects, consent, withdrawals>>

-----------------------------------------------------------------------------
OwnerActs ==
    \/ \E migrate \in BOOLEAN :
          \/ EditForm(migrate)
          \/ \E authorized \in BOOLEAN : ApplyScenario(authorized, migrate)
          \/ TickConsent(migrate)
          \/ WithdrawConsent(migrate)
          \/ PressRun(migrate)
    \/ \E k \in Keys \union {None} : TypeKey(k)
    \/ PressConnect
    \/ PressCommand

TelemetryAnswered ==
    \E t \in telemetry :
       \/ \E migrate \in BOOLEAN : TelemetryStored(t, migrate)
       \/ \E failure \in Failures : TelemetryFails(t, failure)

ConnectionAnswered == \E c \in connects : ConnectionVerified(c) \/ ConnectionFails(c)

FlowAnswered ==
    \E f \in flows :
       \/ Authorized(f)
       \/ CommandRecorded(f)
       \/ \E failure \in Failures : FlowFails(f, failure)

Next == OwnerActs \/ TelemetryAnswered \/ ConnectionAnswered \/ FlowAnswered

Spec == Init /\ [][Next]_vars

\* A fetch settles sooner or later, with an answer or with an error.
FairSpec ==
    Spec /\ WF_vars(TelemetryAnswered) /\ WF_vars(ConnectionAnswered)
         /\ WF_vars(FlowAnswered)

-----------------------------------------------------------------------------
RequestType == [generation: Nat, key: Keys \union {None}]

TypeOK ==
    /\ page \in PageType
    /\ telemetry \subseteq RequestType /\ connects \subseteq RequestType
    /\ flows \subseteq [event: Nat, generation: Nat, key: Keys \union {None},
                        phase: {"authorize", "command"}, withdrawals: Nat]
    /\ consent \in Nat /\ withdrawals \in Nat

(***************************************************************************)
(* A tick seen beside an event of the server was made for that event, with *)
(* whatever scenarios, edits, reconnections and answers came in between:   *)
(* "本次事件授权已确认，不跨事件复用" (app.js, renderEvidence), not reused     *)
(* across events.                                                          *)
(***************************************************************************)
ConsentIsForTheShownEvent ==
    page.apiMode /\ page.checked /\ page.event # 0 => consent = page.event

(***************************************************************************)
(* A command is sent only for the shown event, under the consent given to  *)
(* it, and without that consent having been withdrawn between the click    *)
(* and the arrival of the token, even if it was given again.               *)
(***************************************************************************)
CommandUnderUnbrokenConsent ==
    [][\A f \in flows' \ flows : f.phase = "command" =>
          /\ f.event = page.event /\ consent = page.event
          /\ f.withdrawals = withdrawals]_vars

(***************************************************************************)
(* The box is locked exactly while a command is under way, there is never  *)
(* a second one, and as long as its event is shown the consent stands: the *)
(* finally clause of one flow never unlocks the box of another.            *)
(***************************************************************************)
LockCoversCommand ==
    LET sent == {f \in flows : f.phase = "command"}
    IN  /\ page.locked <=> sent # {}
        /\ \A f, g \in sent : f = g
        /\ \A f \in sent : f.event = page.event =>
              page.checked /\ f.generation = page.commandGen

(***************************************************************************)
(* A session ends by its own key only: by its own request refused, by a    *)
(* new connection that fails or by connecting without a key, never by the  *)
(* late refusal of a request sent with the key of a former session.        *)
(***************************************************************************)
RefusalEndsItsOwnSession ==
    [][\A r \in (telemetry \ telemetry') \union (flows \ flows') :
          page.apiMode /\ ~page'.apiMode => r.key = page.apiKey]_vars

(***************************************************************************)
(* No control stays disabled: the run button, the connection controls and  *)
(* the consent box come back, also when the answer that would have enabled *)
(* them is dropped as late; so does the command button, unless what it     *)
(* needs (session, event, decision, consent) is gone by then.              *)
(***************************************************************************)
ControlsComeBack ==
    /\ ~page.run ~> page.run
    /\ page.pending ~> ~page.pending
    /\ page.locked ~> ~page.locked
    /\ ~page.command /\ Eligible(page) ~> page.command \/ ~Eligible(page)
=============================================================================
