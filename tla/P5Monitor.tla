----------------------------- MODULE P5Monitor ------------------------------
(***************************************************************************)
(* The head-unit app of p5-headunit: HighGroundMonitorService polls the    *)
(* latest decision of its vehicle and shows alarms on the ambient light    *)
(* through a VehicleBridge.                                                *)
(*                                                                         *)
(* Two threads run.  The main thread takes the owner's commands, the       *)
(* system's, and the reconnection of the bridge; one executor thread takes *)
(* polls, restorations of the light and light tests, one task at a time.   *)
(* They share volatile fields; only start, stop and the end of a poll hold *)
(* the service's lock.  A step ends where the other thread can interfere.  *)
(***************************************************************************)
EXTENDS Naturals

CONSTANTS
    Targets,    \* what a BackendConfig points at
    Codes,      \* decision codes the server answers with
    Faults,     \* kinds of faults: "call", "connect", "fetch", "close", "kill"
    None,       \* null
    PressWhileMonitoring, \* whether start is also pressed while monitoring
    MaxEvents, MaxStarts, MaxFaults \* bounds of an instance

ASSUME P5Assumption ==
    /\ Faults \subseteq {"call", "connect", "fetch", "close", "kill"}
    /\ PressWhileMonitoring \in BOOLEAN
    /\ MaxEvents \in Nat /\ MaxStarts \in Nat /\ MaxFaults \in Nat
    /\ None \notin Targets /\ None \notin Nat /\ None \notin {"driver", "warning"}
    /\ None \notin [target: Targets, number: Nat]
    /\ None \notin [target: Targets, event: Nat, code: Codes]

VARIABLES
    server,     \* the latest decision of each target; event 0 before the first
    alive,      \* the service instance exists
    monitoring, \* volatile fields of the service
    config,     \* backendConfig: target and identity of the object
    wanted,     \* warningLightWanted
    lastEvent,  \* lastEventId
    shown,      \* latestDecision
    prefs,      \* SharedPreferences
    bridge,     \* vehicleBridge: its identity and fields
    light,      \* the ambient light: as the driver set it, or the warning
    exec,       \* the executor's running task
    restores,   \* bridges with a queued restoration of the warning
    test,       \* the light test
    main,       \* where the main thread is
    posted,     \* vehicleReconnectQueued
    starts, faults \* counters for the bounds

service == <<alive, monitoring, config, wanted, lastEvent, shown>>
queue == <<restores, test, posted>>
counters == <<starts, faults>>
vars == <<server, service, prefs, bridge, light, exec, main, queue, counters>>

\* AlertPolicy.evaluate(...).warningLight
WarningLight(code) ==
    code \in {"EMERGENCY_STOP", "NO_GO", "MIGRATE_NOW", "PREPARE"}

IdleTask == [phase |-> "idle", config |-> None, result |-> None, target |-> 0, on |-> FALSE]

\* synchronized (this)
LockFree == exec.phase \notin {"save", "light"} /\ main # "stopLight"

Fault(kind) == kind \in Faults /\ faults < MaxFaults /\ faults' = faults + 1

-----------------------------------------------------------------------------
(***************************************************************************)
(* The bridge.                                                             *)
(***************************************************************************)

NewBridge(id, up) == [id |-> id, up |-> up, asked |-> FALSE, saved |-> None]

\* Mutation: every call saves the light's present state.
TakeEffectAlwaysSaving(on) ==
    IF on
      THEN /\ light' = "warning"
           /\ bridge' = [bridge EXCEPT !.saved = light]
      ELSE /\ light' = IF bridge.saved = None THEN light ELSE bridge.saved
           /\ bridge' = [bridge EXCEPT !.saved = None]

\* The first warning saves what the driver had set; the end restores it.
TakeEffect(on) ==
    IF on
      THEN /\ light' = "warning"
           /\ bridge' = [bridge EXCEPT !.saved = IF @ = None THEN light ELSE @]
      ELSE /\ light' = IF bridge.saved = None THEN light ELSE bridge.saved
           /\ bridge' = [bridge EXCEPT !.saved = None]

\* A call that throws has reached some of its steps: the driver's setting is
\* saved before the light is changed and forgotten after it is restored.
FailHalfway(on) ==
    /\ Fault("call")
    /\ \/ /\ bridge' = [bridge EXCEPT !.asked = TRUE]
          /\ light' \in {light, IF on \/ bridge.saved = None THEN light ELSE bridge.saved}
       \/ /\ on
          /\ bridge' = [bridge EXCEPT !.asked = TRUE,
                                       !.saved = IF @ = None THEN light ELSE @]
          /\ light' \in {light, "warning"}

\* setWarningLighting on the bridge with this identity; a call that fails for
\* want of the service does not ask for a reconnection, one that throws does.
SetWarningLighting(id, on) ==
    IF id # bridge.id \/ ~bridge.up
      THEN UNCHANGED <<bridge, light, faults>>
      ELSE \/ TakeEffect(on) /\ UNCHANGED faults
           \/ FailHalfway(on)

\* close(): the restoration is best effort, its exception is swallowed.
CloseBridge ==
    \/ /\ light' = IF bridge.up /\ bridge.saved # None THEN bridge.saved ELSE light
       /\ UNCHANGED faults
    \/ bridge.up /\ bridge.saved # None /\ Fault("close") /\ UNCHANGED light

NeedsReconnect == bridge.asked \/ ~bridge.up

\* Mutation: nothing is restored on a new bridge.
QueueRestoreNever(id, intent) == UNCHANGED restores

\* queueWarningLightingRestore for the current bridge
QueueRestore(id, intent) ==
    restores' = IF bridge.up /\ intent THEN restores \union {id} ELSE restores

-----------------------------------------------------------------------------
Init ==
    /\ server = [t \in Targets |-> [event |-> 0, code |-> None, stale |-> FALSE]]
    /\ alive = FALSE /\ monitoring = FALSE /\ config = None
    /\ wanted = FALSE /\ lastEvent = None /\ shown = None
    /\ prefs = [enabled |-> FALSE, wanted |-> FALSE, target |-> None]
    /\ bridge = NewBridge(0, FALSE)
    /\ light = "driver"
    /\ exec = IdleTask
    /\ restores = {} /\ test = "none" /\ posted = FALSE
    /\ main = "idle"
    /\ starts = 0 /\ faults = 0

(***************************************************************************)
(* The server.                                                             *)
(***************************************************************************)

DecideAnew(t, code) ==
    /\ server[t].event < MaxEvents
    /\ server' = [server EXCEPT ![t] =
                    [event |-> @.event + 1, code |-> code, stale |-> FALSE]]
    /\ UNCHANGED <<service, prefs, bridge, light, exec, main, queue, counters>>

GoStale(t) ==
    /\ server[t].event > 0 /\ ~server[t].stale
    /\ server' = [server EXCEPT ![t].stale = TRUE]
    /\ UNCHANGED <<service, prefs, bridge, light, exec, main, queue, counters>>

-----------------------------------------------------------------------------
(***************************************************************************)
(* The main thread: start.                                                 *)
(***************************************************************************)

\* onCreate, when there is no instance: a new bridge, nothing to restore yet.
CreateIfNeeded ==
    IF alive THEN UNCHANGED <<alive, bridge, faults>>
    ELSE /\ alive' = TRUE
         /\ \/ bridge' = NewBridge(0, TRUE) /\ UNCHANGED faults
            \/ bridge' = NewBridge(0, FALSE) /\ Fault("connect")

\* An activity on the screen binds the service, which is created for it.
Bind ==
    /\ main = "idle" /\ ~alive
    /\ CreateIfNeeded
    /\ UNCHANGED <<server, monitoring, config, wanted, lastEvent, shown, prefs, light,
                   exec, main, queue, starts>>

PressStart(t) ==
    /\ main = "idle"
    /\ starts < MaxStarts /\ starts' = starts + 1
    /\ ~monitoring \/ PressWhileMonitoring
    /\ prefs' = [prefs EXCEPT !.enabled = TRUE, !.target = t]
    /\ CreateIfNeeded
    /\ main' = "readIntent"
    /\ UNCHANGED <<server, monitoring, config, wanted, lastEvent, shown, light,
                   exec, queue>>

\* START_STICKY: the system starts the service again after it died.
RestartSticky ==
    /\ main = "idle" /\ ~monitoring /\ prefs.enabled
    /\ CreateIfNeeded
    /\ main' = "readIntent"
    /\ UNCHANGED <<server, monitoring, config, wanted, lastEvent, shown, prefs, light,
                   exec, queue, starts>>

\* onStartCommand reads the latched intent without the lock.
ReadIntent ==
    /\ main = "readIntent"
    /\ wanted' = prefs.wanted
    /\ main' = "start"
    /\ UNCHANGED <<server, alive, monitoring, config, lastEvent, shown, prefs, bridge,
                   light, exec, queue, counters>>

TargetChanged == config = None \/ config.target # prefs.target

\* startMonitoring: a new BackendConfig object, whatever its content.  The
\* reconnection is posted unless one was tried within the last 60 seconds.
StartMonitoring ==
    /\ main = "start" /\ LockFree
    /\ IF ~monitoring \/ TargetChanged
         THEN lastEvent' = None /\ shown' = None
         ELSE UNCHANGED <<lastEvent, shown>>
    /\ config' = [target |-> prefs.target,
                  number |-> starts]
    /\ posted' \in {posted, posted \/ NeedsReconnect}
    /\ monitoring' = TRUE
    /\ IF monitoring THEN UNCHANGED restores ELSE QueueRestore(bridge.id, wanted)
    /\ main' = "idle"
    /\ UNCHANGED <<server, alive, wanted, prefs, bridge, light, exec, test, counters>>

-----------------------------------------------------------------------------
(***************************************************************************)
(* The main thread: stop.                                                  *)
(***************************************************************************)

\* Mutation: the configuration outlives the monitoring.
PressStopKeepingConfig ==
    /\ main = "idle" /\ monitoring /\ LockFree
    /\ monitoring' = FALSE /\ wanted' = FALSE
    /\ prefs' = [prefs EXCEPT !.enabled = FALSE, !.wanted = FALSE]
    /\ main' = "stopLight"
    /\ UNCHANGED <<server, alive, config, lastEvent, shown, bridge, light, exec, queue,
                   counters>>

\* stopMonitoringInternal(true, true) up to the call of the bridge.
PressStop ==
    /\ main = "idle" /\ monitoring /\ LockFree
    /\ monitoring' = FALSE /\ config' = None /\ wanted' = FALSE
    /\ prefs' = [prefs EXCEPT !.enabled = FALSE, !.wanted = FALSE]
    /\ main' = "stopLight"
    /\ UNCHANGED <<server, alive, lastEvent, shown, bridge, light, exec, queue, counters>>

StopLight ==
    /\ main = "stopLight"
    /\ SetWarningLighting(bridge.id, FALSE)
    /\ main' = "idle"
    /\ UNCHANGED <<server, service, prefs, exec, queue, starts>>

\* stopSelf: onDestroy comes when no activity is bound any more.
Destroy ==
    /\ main = "idle" /\ alive /\ ~monitoring /\ LockFree
    /\ CloseBridge
    /\ alive' = FALSE /\ wanted' = FALSE /\ lastEvent' = None /\ shown' = None
    /\ bridge' = NewBridge(0, FALSE)
    /\ exec' = IdleTask
    /\ restores' = {} /\ test' = "none" /\ posted' = FALSE
    /\ UNCHANGED <<server, monitoring, config, prefs, main, starts>>

\* The process is killed: fields are lost, preferences and light are not.  A
\* preference counts as kept from its apply() on; a kill before Android has written
\* it to the disk is left out.
Kill ==
    /\ alive /\ Fault("kill")
    /\ alive' = FALSE /\ monitoring' = FALSE /\ config' = None
    /\ wanted' = FALSE /\ lastEvent' = None /\ shown' = None
    /\ bridge' = NewBridge(0, FALSE)
    /\ exec' = IdleTask
    /\ restores' = {} /\ test' = "none" /\ posted' = FALSE
    /\ main' = "idle"
    /\ UNCHANGED <<server, prefs, light, starts>>

-----------------------------------------------------------------------------
(***************************************************************************)
(* The main thread: connectVehicleBridge, posted by the 60-second check.   *)
(***************************************************************************)

\* The ContextInfo service reports an error, or a spoken alarm fails.
ReportError ==
    /\ bridge.up /\ Fault("call")
    /\ bridge' = [bridge EXCEPT !.asked = TRUE]
    /\ UNCHANGED <<server, service, prefs, light, exec, main, queue, starts>>

PostReconnect ==
    /\ alive /\ exec.phase = "idle"
    /\ NeedsReconnect /\ ~posted
    /\ posted' = TRUE
    /\ UNCHANGED <<server, service, prefs, bridge, light, exec, main, restores, test,
                   counters>>

ClosePrevious ==
    /\ main = "idle" /\ alive /\ posted
    /\ CloseBridge
    /\ bridge' = [bridge EXCEPT !.up = FALSE]
    /\ main' = "replace"
    /\ UNCHANGED <<server, service, prefs, exec, queue, starts>>

ReplaceBridge ==
    /\ main = "replace"
    /\ bridge' = NewBridge(bridge.id + 1, FALSE)
    /\ main' = "connect"
    /\ UNCHANGED <<server, service, prefs, light, exec, queue, counters>>

Connect ==
    /\ main = "connect"
    /\ \/ bridge' = [bridge EXCEPT !.up = TRUE] /\ UNCHANGED faults
       \/ bridge' = [bridge EXCEPT !.asked = TRUE] /\ Fault("connect")
    /\ main' = "restore"
    /\ UNCHANGED <<server, service, prefs, light, exec, queue, starts>>

FinishReconnect ==
    /\ main = "restore"
    /\ QueueRestore(bridge.id, monitoring /\ wanted)
    /\ posted' = FALSE
    /\ main' = "idle"
    /\ UNCHANGED <<server, service, prefs, bridge, light, exec, test, counters>>

\* testLighting
PressTest ==
    /\ main = "idle" /\ alive /\ test = "none"
    /\ test' = "queued"
    /\ UNCHANGED <<server, service, prefs, bridge, light, exec, main, restores, posted,
                   counters>>

-----------------------------------------------------------------------------
(***************************************************************************)
(* The executor: pollOnce.                                                 *)
(***************************************************************************)

BeginPoll ==
    /\ exec.phase = "idle" /\ monitoring
    /\ exec' = [IdleTask EXCEPT !.phase = "fetch", !.config = config]
    /\ UNCHANGED <<server, service, prefs, bridge, light, main, queue, counters>>

\* A 404 or any other failure changes nothing but the status text.
Fetch ==
    LET answer == server[exec.config.target]
    IN  /\ exec.phase = "fetch"
        /\ \/ /\ exec' = IF answer.event = 0 THEN IdleTask
                         ELSE [exec EXCEPT !.phase = "got", !.result = answer]
              /\ UNCHANGED faults
           \/ exec' = IdleTask /\ Fault("fetch")
        /\ UNCHANGED <<server, service, prefs, bridge, light, main, queue, starts>>

\* Mutation: a result is taken whatever the configuration is by now.
OutdatedWhenStopped == ~monitoring

Outdated == ~monitoring \/ exec.config # config

DiscardPoll ==
    /\ exec.phase = "got" /\ LockFree
    /\ Outdated
    /\ exec' = IdleTask
    /\ UNCHANGED <<server, service, prefs, bridge, light, main, queue, counters>>

\* Mutation: an answer 410 is taken as the end of the risk.
TakeStaleAsSafe ==
    /\ exec.phase = "got" /\ LockFree
    /\ ~Outdated /\ exec.result.stale
    /\ shown' = None /\ lastEvent' = None /\ wanted' = FALSE
    /\ prefs' = [prefs EXCEPT !.wanted = FALSE]
    /\ exec' = IdleTask
    /\ UNCHANGED <<server, alive, monitoring, config, bridge, light,
                   main, queue, counters>>

\* 410: stale data is unknown, not safe; the intent is retained.
TakeStale ==
    /\ exec.phase = "got" /\ LockFree
    /\ ~Outdated /\ exec.result.stale
    /\ shown' = None /\ lastEvent' = None
    /\ exec' = IdleTask
    /\ UNCHANGED <<server, alive, monitoring, config, wanted, prefs, bridge, light,
                   main, queue, counters>>

\* Under the lock; applyNewDecision begins with the volatile field.
TakeDecision ==
    /\ exec.phase = "got" /\ LockFree
    /\ ~Outdated /\ ~exec.result.stale
    /\ shown' = [target |-> exec.config.target, event |-> exec.result.event,
                 code |-> exec.result.code]
    /\ IF exec.result.event = lastEvent
         THEN exec' = IdleTask /\ UNCHANGED wanted
         ELSE /\ wanted' = WarningLight(exec.result.code)
              /\ exec' = [exec EXCEPT !.phase = "save"]
    /\ UNCHANGED <<server, alive, monitoring, config, lastEvent, prefs, bridge, light,
                   main, queue, counters>>

SaveIntent ==
    /\ exec.phase = "save"
    /\ prefs' = [prefs EXCEPT !.wanted = WarningLight(exec.result.code)]
    /\ exec' = [exec EXCEPT !.phase = "light", !.target = bridge.id]
    /\ UNCHANGED <<server, service, bridge, light, main, queue, counters>>

\* The event counts as handled even when the light could not be set.
LightDecision ==
    /\ exec.phase = "light"
    /\ SetWarningLighting(exec.target, WarningLight(exec.result.code))
    /\ lastEvent' = exec.result.event
    /\ exec' = IdleTask
    /\ UNCHANGED <<server, alive, monitoring, config, wanted, shown, prefs, main, queue,
                   starts>>

-----------------------------------------------------------------------------
(***************************************************************************)
(* The executor: restorations and light tests.                             *)
(***************************************************************************)

BeginRestore ==
    \E id \in restores :
        /\ exec.phase = "idle"
        /\ restores' = restores \ {id}
        /\ exec' = IF monitoring /\ bridge.id = id /\ wanted
                     THEN [IdleTask EXCEPT !.phase = "restore", !.target = id]
                     ELSE IdleTask
        /\ UNCHANGED <<server, service, prefs, bridge, light, main, test, posted, counters>>

RestoreLight ==
    /\ exec.phase = "restore"
    /\ SetWarningLighting(exec.target, TRUE)
    /\ exec' = IdleTask
    /\ UNCHANGED <<server, service, prefs, main, queue, starts>>

\* The end of a test is scheduled only when the call of the bridge returned true.
BeginTest ==
    /\ exec.phase = "idle" /\ test = "queued"
    /\ \/ bridge.up /\ TakeEffect(TRUE) /\ UNCHANGED faults /\ test' = "lit"
       \/ bridge.up /\ FailHalfway(TRUE) /\ test' = "none"
       \/ ~bridge.up /\ UNCHANGED <<bridge, light, faults>> /\ test' = "none"
    /\ UNCHANGED <<server, service, prefs, exec, main, restores, posted, starts>>

\* Five seconds later the intent is read and handed to the bridge.
ReadForTest ==
    /\ exec.phase = "idle" /\ test = "lit"
    /\ exec' = [IdleTask EXCEPT !.phase = "testEnd", !.target = bridge.id, !.on = wanted]
    /\ UNCHANGED <<server, service, prefs, bridge, light, main, queue, counters>>

EndTest ==
    /\ exec.phase = "testEnd"
    /\ SetWarningLighting(exec.target, exec.on)
    /\ test' = "none"
    /\ exec' = IdleTask
    /\ UNCHANGED <<server, service, prefs, main, restores, posted, starts>>

Executor ==
    \/ BeginPoll \/ Fetch \/ DiscardPoll \/ TakeStale \/ TakeDecision
    \/ SaveIntent \/ LightDecision
    \/ BeginRestore \/ RestoreLight
    \/ BeginTest \/ ReadForTest \/ EndTest

MainThread ==
    \/ ReadIntent \/ StartMonitoring \/ StopLight
    \/ ClosePrevious \/ ReplaceBridge \/ Connect \/ FinishReconnect

Environment ==
    \/ \E t \in Targets : \/ PressStart(t) \/ GoStale(t)
                          \/ \E code \in Codes : DecideAnew(t, code)
    \/ Bind \/ PressStop \/ PressTest \/ Destroy \/ ReportError \/ Kill

Next == Executor \/ MainThread \/ Environment \/ PostReconnect \/ RestartSticky

Spec == Init /\ [][Next]_vars

-----------------------------------------------------------------------------
TypeOK ==
    /\ server \in [Targets -> [event: 0..MaxEvents, code: Codes \union {None},
                               stale: BOOLEAN]]
    /\ alive \in BOOLEAN /\ monitoring \in BOOLEAN /\ wanted \in BOOLEAN
    /\ config \in [target: Targets, number: 0..MaxStarts] \union {None}
    /\ monitoring <=> config # None
    /\ lastEvent \in 0..MaxEvents \union {None}
    /\ shown \in [target: Targets, event: 1..MaxEvents, code: Codes] \union {None}
    /\ prefs \in [enabled: BOOLEAN, wanted: BOOLEAN, target: Targets \union {None}]
    /\ bridge \in [id: 0..(MaxFaults + 1), up: BOOLEAN, asked: BOOLEAN,
                   saved: {None, "driver", "warning"}]
    /\ light \in {"driver", "warning"}
    /\ exec.phase \in {"idle", "fetch", "got", "save", "light", "restore", "testEnd"}
    /\ restores \subseteq 0..bridge.id
    /\ test \in {"none", "queued", "lit"}
    /\ main \in {"idle", "readIntent", "start", "stopLight", "replace", "connect",
                 "restore"}

\* No thread is in the middle of something and the bridge is in order.
Quiet ==
    /\ alive /\ exec.phase = "idle" /\ main = "idle"
    /\ restores = {} /\ test = "none" /\ ~posted /\ ~NeedsReconnect

(***************************************************************************)
(* The decision on display and the one that is remembered as handled       *)
(* belong to the vehicle that is monitored now: an answer that was under   *)
(* way when the owner changed the target is dropped.                       *)
(***************************************************************************)
ShownIsOfCurrentTarget ==
    shown # None /\ monitoring => shown.target = config.target

(***************************************************************************)
(* When the last decision taken asks for no warning and nothing is going   *)
(* on, the light is back as the driver had set it, whatever bridge calls   *)
(* and connections failed and were repeated on the way ("when the risk is  *)
(* over ... the previous setting is restored", p5-headunit/README.md:13).  *)
(***************************************************************************)
AllClearRestoresTheLight ==
    Quiet /\ monitoring /\ shown # None /\ lastEvent = shown.event
        /\ ~WarningLight(shown.code) => light = "driver"

(***************************************************************************)
(* "or the service stops" (p5-headunit/README.md:13): once the owner has   *)
(* stopped monitoring and nothing is going on, the light is back as it was.*)
(***************************************************************************)
StopEndsTheWarning == Quiet /\ ~monitoring => light = "driver"

(***************************************************************************)
(* A latched intent is withdrawn only by a fresh decision or by the owner  *)
(* stopping (p5-headunit/README.md:11): not by an answer 410, an error, a  *)
(* reconnection or a restart of the service that is still enabled.         *)
(***************************************************************************)
IntentIsLatched ==
    [][prefs.wanted /\ ~prefs'.wanted =>
          \/ main' = "stopLight"
          \/ exec.phase = "save" /\ ~exec.result.stale
                                 /\ ~WarningLight(exec.result.code)]_vars

(***************************************************************************)
(* Liveness.  Both threads keep running their tasks, polls come with a     *)
(* fixed delay, the reconnection check every 60 seconds, and the system    *)
(* restarts a sticky service.  The faults of an instance are finitely many.*)
(***************************************************************************)
Fairness ==
    /\ WF_vars(MainThread) /\ WF_vars(PostReconnect) /\ WF_vars(RestartSticky)
    /\ WF_vars(exec.phase # "idle" /\ Executor)
    /\ SF_vars(BeginRestore) /\ SF_vars(BeginPoll) /\ SF_vars(PostReconnect)

FairSpec == Spec /\ Fairness

Alarming(t) ==
    /\ monitoring /\ config.target = t
    /\ server[t].event > 0 /\ ~server[t].stale /\ WarningLight(server[t].code)

(***************************************************************************)
(* While the server keeps answering with an alarm, the warning comes on    *)
(* and stays on, though calls of the bridge fail, its service is away for  *)
(* a while and the event was already marked as handled: the reconnection   *)
(* brings the light back (p5-headunit/README.md:15).                       *)
(***************************************************************************)
AlarmReachesTheLight ==
    \A t \in Targets : <>[]Alarming(t) => <>[](light = "warning")
=============================================================================
