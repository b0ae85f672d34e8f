--------------------------- MODULE P5MonitorProofs ---------------------------
(***************************************************************************)
(* Theorems about P5Monitor, for any targets and codes and any number of   *)
(* events, starts and faults.                                              *)
(***************************************************************************)
EXTENDS P5Monitor, TLAPS

-----------------------------------------------------------------------------
(***************************************************************************)
(* The inductive invariant of every instance, whatever faults there are.   *)
(***************************************************************************)

Configs == [target: Targets, number: 0..MaxStarts]
Decisions == [event: 1..MaxEvents, code: Codes, stale: BOOLEAN]

ExecType ==
    [phase: {"idle", "fetch", "got", "save", "light", "restore", "testEnd"},
     config: Configs \union {None}, result: Decisions \union {None},
     target: Nat, on: BOOLEAN]

\* A task holds what its phase uses.
ExecFits ==
    /\ exec \in ExecType
    /\ exec.phase \in {"fetch", "got", "save", "light"} => exec.config \in Configs
    /\ exec.phase \in {"got", "save", "light"} => exec.result \in Decisions

\* A decision that is being applied is fresh and that of the monitored vehicle.
AppliedFits ==
    exec.phase \in {"save", "light"} =>
        ~exec.result.stale /\ monitoring /\ exec.config = config

ServerFits == \A t \in Targets : server[t].event > 0 => server[t].code \in Codes

\* Without an instance of the service nothing of it is left.
DeadFits ==
    ~alive => /\ ~monitoring /\ main = "idle" /\ ~posted
              /\ exec = IdleTask /\ restores = {} /\ test = "none"
              /\ bridge = NewBridge(0, FALSE)

\* A start always has a target to monitor.
TargetFits ==
    /\ prefs.enabled => prefs.target \in Targets
    /\ main \in {"readIntent", "start"} => prefs.enabled

\* A reconnection stays posted while it runs, and ends with a bridge that is up or
\* that asks for the next one.
MainFits ==
    /\ main \in {"replace", "connect", "restore"} => posted
    /\ main = "restore" => bridge.up \/ bridge.asked

\* A bridge that is going to be replaced; a new one is on its way in "connect".
Doomed ==
    IF main \in {"connect", "restore"} THEN bridge.asked
    ELSE posted \/ bridge.asked \/ ~bridge.up

\* Every bridge after the first answers to a fault of its own.
BridgeFits ==
    alive => bridge.id <= faults /\ (Doomed => bridge.id + 1 <= faults)

CountersFit == posted \in BOOLEAN /\ starts \in 0..MaxStarts /\ faults \in 0..MaxFaults

ServiceInv ==
    /\ TypeOK /\ CountersFit
    /\ ExecFits /\ AppliedFits /\ ServerFits /\ DeadFits /\ TargetFits
    /\ MainFits /\ BridgeFits
    /\ ShownIsOfCurrentTarget

(***************************************************************************)
(* The inductive invariant behind AllClearRestoresTheLight, for instances  *)
(* without kills and without failing close() and in which start is not     *)
(* pressed while monitoring.                                               *)
(***************************************************************************)

\* A light that shows the warning can always be put back as it was.
LightIsRestorable ==
    /\ bridge.saved # "warning"
    /\ light = "warning" => bridge.up /\ bridge.saved = "driver"

\* An answer is what the server said, unless it has gone on since.
AnswerFits ==
    exec.phase \in {"got", "save", "light"} =>
        LET s == server[exec.config.target]
        IN  /\ exec.result.event <= s.event
            /\ exec.result.event = s.event => exec.result.code = s.code

\* The executor's answers come in order.
AnswersInOrder ==
    monitoring /\ lastEvent # None /\ exec.phase = "got" /\ exec.config = config =>
        /\ lastEvent <= exec.result.event
        /\ lastEvent = exec.result.event => (wanted <=> WarningLight(exec.result.code))

\* The event counted as handled is not ahead of the server, and while it is the
\* latest there, the intent is what it asks for.
HandledFits ==
    monitoring /\ lastEvent # None =>
        LET s == server[config.target]
        IN  /\ lastEvent <= s.event
            /\ lastEvent = s.event => (wanted <=> WarningLight(s.code))

\* While a decision is applied, it is on display and its event is not handled yet.
ApplyingFits ==
    exec.phase \in {"save", "light"} =>
        /\ shown # None /\ shown.event = exec.result.event /\ shown.code = exec.result.code
        /\ wanted <=> WarningLight(exec.result.code)
        /\ lastEvent # None => lastEvent < exec.result.event

\* Otherwise a handled event is on display and the intent is what it asks for.
ShownFits ==
    monitoring /\ lastEvent # None /\ exec.phase \notin {"save", "light"} =>
        shown # None /\ shown.event = lastEvent /\ (wanted <=> WarningLight(shown.code))

\* A queued warning was wanted when it was read, and is still, or nothing has been
\* handled since the start.
OldIntentFits ==
    /\ monitoring /\ lastEvent # None /\ exec.phase = "restore" => wanted
    /\ monitoring /\ lastEvent # None /\ exec.phase = "testEnd" => (exec.on => wanted)

\* A call on a bridge that was replaced meanwhile finds the light restored.
ReplacedFits ==
    exec.phase \in {"light", "restore", "testEnd"} /\ exec.target # bridge.id =>
        light = "driver"

\* Once an all-clear is handled the warning is off, or the bridge has asked to be
\* replaced, or the light is being tested.
ClearedFits ==
    monitoring /\ lastEvent # None /\ ~wanted /\ exec.phase \notin {"save", "light"} =>
        light = "driver" \/ bridge.asked \/ test = "lit"

\* Start is pressed and the service restarted only while nothing is monitored, and a
\* bridge that is being replaced is down.
ThreadFits ==
    /\ main \in {"readIntent", "start"} => ~monitoring
    /\ main \in {"replace", "connect"} => ~bridge.up

PollFits ==
    /\ AnswerFits /\ AnswersInOrder /\ HandledFits
    /\ ApplyingFits /\ ShownFits /\ OldIntentFits

LightFits == LightIsRestorable /\ ReplacedFits /\ ClearedFits

ClearInv == ServiceInv /\ ThreadFits /\ PollFits /\ LightFits

\* Bridge calls, connections and polls may fail.
OrdinaryFaults == ~PressWhileMonitoring /\ {"close", "kill"} \intersect Faults = {}

-----------------------------------------------------------------------------
(***************************************************************************)
(* Types, with the sets named.                                             *)
(***************************************************************************)

Servers == [Targets -> [event: 0..MaxEvents, code: Codes \union {None}, stale: BOOLEAN]]
Shows == [target: Targets, event: 1..MaxEvents, code: Codes]
Preferences == [enabled: BOOLEAN, wanted: BOOLEAN, target: Targets \union {None}]

Bridges ==
    [id: 0..(MaxFaults + 1), up: BOOLEAN, asked: BOOLEAN, saved: {None, "driver", "warning"}]

LEMMA Bounds == MaxEvents \in Nat /\ MaxStarts \in Nat /\ MaxFaults \in Nat
BY P5Assumption

Types ==
    /\ server \in Servers
    /\ alive \in BOOLEAN /\ monitoring \in BOOLEAN /\ wanted \in BOOLEAN
    /\ config \in Configs \union {None}
    /\ monitoring <=> config # None
    /\ lastEvent \in 0..MaxEvents \union {None}
    /\ shown \in Shows \union {None}
    /\ prefs \in Preferences
    /\ bridge \in Bridges
    /\ light \in {"driver", "warning"}
    /\ exec.phase \in {"idle", "fetch", "got", "save", "light", "restore", "testEnd"}
    /\ restores \subseteq 0..bridge.id
    /\ test \in {"none", "queued", "lit"}
    /\ main \in {"idle", "readIntent", "start", "stopLight", "replace", "connect",
                 "restore"}

LEMMA TypesOK == (TypeOK <=> Types) /\ (TypeOK' <=> Types')
BY DEF TypeOK, Types, Servers, Configs, Shows, Preferences, Bridges

LEMMA BridgeNumbers ==
    ASSUME ServiceInv
    PROVE  /\ bridge.id \in Nat /\ faults \in Nat
           /\ bridge.up \in BOOLEAN /\ bridge.asked \in BOOLEAN
<1>1. bridge \in Bridges /\ faults \in 0..MaxFaults
  BY TypesOK DEF ServiceInv, Types, CountersFit
<1> QED
  BY <1>1, P5Assumption DEF Bridges

-----------------------------------------------------------------------------
(***************************************************************************)
(* The bridge.                                                             *)
(***************************************************************************)

\* A call leaves the bridge the same one; it asks for a reconnection with a fault.
LEMMA LightCall ==
    ASSUME bridge \in Bridges, light \in {"driver", "warning"}, faults \in 0..MaxFaults,
           NEW on \in BOOLEAN, NEW id, SetWarningLighting(id, on)
    PROVE  /\ bridge' \in Bridges /\ light' \in {"driver", "warning"}
           /\ faults' \in 0..MaxFaults
           /\ bridge'.id = bridge.id /\ bridge'.up = bridge.up
           /\ \/ bridge'.asked = bridge.asked /\ faults' = faults
              \/ bridge'.asked /\ faults' = faults + 1
<1>1. CASE UNCHANGED <<bridge, light, faults>>
  BY <1>1
<1>2. CASE TakeEffect(on) /\ UNCHANGED faults
  <2>1. ASSUME NEW s \in {None, "driver", "warning"}
        PROVE  /\ [bridge EXCEPT !.saved = s] \in Bridges
               /\ [bridge EXCEPT !.saved = s].id = bridge.id
               /\ [bridge EXCEPT !.saved = s].up = bridge.up
               /\ [bridge EXCEPT !.saved = s].asked = bridge.asked
    BY DEF Bridges
  <2>2. bridge.saved \in {None, "driver", "warning"}
    BY DEF Bridges
  <2>3. /\ light' \in {"driver", "warning"}
        /\ \E s \in {None, "driver", "warning"} : bridge' = [bridge EXCEPT !.saved = s]
    BY <1>2, <2>2 DEF TakeEffect
  <2> QED
    BY <1>2, <2>1, <2>3
<1>3. CASE FailHalfway(on)
  <2>1. ASSUME NEW s \in {None, "driver", "warning"}
        PROVE  /\ [bridge EXCEPT !.asked = TRUE, !.saved = s] \in Bridges
               /\ [bridge EXCEPT !.asked = TRUE, !.saved = s].id = bridge.id
               /\ [bridge EXCEPT !.asked = TRUE, !.saved = s].up = bridge.up
               /\ [bridge EXCEPT !.asked = TRUE, !.saved = s].asked
    BY DEF Bridges
  <2>2. bridge.saved \in {None, "driver", "warning"}
    BY DEF Bridges
  <2>3. [bridge EXCEPT !.asked = TRUE] = [bridge EXCEPT !.asked = TRUE, !.saved = bridge.saved]
    BY DEF Bridges
  <2>4. /\ light' \in {"driver", "warning"}
        /\ \E s \in {None, "driver", "warning"} :
              bridge' = [bridge EXCEPT !.asked = TRUE, !.saved = s]
    BY <1>3, <2>2, <2>3 DEF FailHalfway
  <2>5. faults' = faults + 1 /\ faults' \in 0..MaxFaults
    BY <1>3, P5Assumption DEF FailHalfway, Fault
  <2> QED
    BY <2>1, <2>4, <2>5
<1> QED
  BY <1>1, <1>2, <1>3 DEF SetWarningLighting

LEMMA BridgeClosed ==
    ASSUME bridge \in Bridges, light \in {"driver", "warning"}, faults \in 0..MaxFaults,
           CloseBridge
    PROVE  /\ light' \in {"driver", "warning"}
           /\ faults' \in 0..MaxFaults /\ faults' >= faults
BY P5Assumption DEF CloseBridge, Fault, Bridges

-----------------------------------------------------------------------------
(***************************************************************************)
(* The server.                                                             *)
(***************************************************************************)

LEMMA DecideAnewKeeps ==
    ASSUME ServiceInv, NEW t \in Targets, NEW code \in Codes, DecideAnew(t, code) PROVE ServiceInv'
<1>1. UNCHANGED <<alive, monitoring, config, wanted, lastEvent, shown, prefs, bridge, light,
                  exec, main, restores, test, posted, starts, faults>>
  BY DEF DecideAnew, service, queue, counters
<1>2. /\ server' \in Servers
      /\ \A u \in Targets : server'[u].event > 0 => server'[u].code \in Codes
  <2> DEFINE s == [event |-> server[t].event + 1, code |-> code, stale |-> FALSE]
  <2>1. server' = [server EXCEPT ![t] = s] /\ server[t].event < MaxEvents
    BY DEF DecideAnew
  <2>2. server[t] \in [event: 0..MaxEvents, code: Codes \union {None}, stale: BOOLEAN]
    BY DEF ServiceInv, TypeOK
  <2>3. s \in [event: 0..MaxEvents, code: Codes \union {None}, stale: BOOLEAN]
        /\ s.code \in Codes
    BY <2>1, <2>2, P5Assumption
  <2> HIDE DEF s
  <2> QED
    BY <2>1, <2>3 DEF ServiceInv, TypeOK, ServerFits, Servers
<1>3. TypeOK'
  BY <1>1, <1>2, TypesOK DEF ServiceInv, Types
<1>4. CountersFit' /\ ServerFits' /\ TargetFits'
  BY <1>1, <1>2 DEF ServiceInv, CountersFit, ServerFits, TargetFits
<1>5. ExecFits' /\ AppliedFits'
  BY <1>1, <1>2 DEF ServiceInv, ExecFits, AppliedFits
<1>6. DeadFits'
  BY <1>1, <1>2 DEF ServiceInv, DeadFits
<1>7. MainFits' /\ BridgeFits'
  BY <1>1, <1>2 DEF ServiceInv, MainFits, BridgeFits, Doomed
<1>8. ShownIsOfCurrentTarget'
  BY <1>1, <1>2 DEF ServiceInv, TypeOK, ShownIsOfCurrentTarget
<1> QED
  BY <1>3, <1>4, <1>5, <1>6, <1>7, <1>8 DEF ServiceInv

LEMMA GoStaleKeeps ==
    ASSUME ServiceInv, NEW t \in Targets, GoStale(t) PROVE ServiceInv'
<1>1. UNCHANGED <<alive, monitoring, config, wanted, lastEvent, shown, prefs, bridge, light,
                  exec, main, restores, test, posted, starts, faults>>
  BY DEF GoStale, service, queue, counters
<1>2. /\ server' \in Servers
      /\ \A u \in Targets : server'[u].event > 0 => server'[u].code \in Codes
  <2> DEFINE s == [server[t] EXCEPT !.stale = TRUE]
  <2>1. server' = [server EXCEPT ![t] = s]
    BY DEF GoStale
  <2>2. server[t] \in [event: 0..MaxEvents, code: Codes \union {None}, stale: BOOLEAN]
    BY DEF ServiceInv, TypeOK
  <2>3. /\ s \in [event: 0..MaxEvents, code: Codes \union {None}, stale: BOOLEAN]
        /\ s.code = server[t].code /\ s.event = server[t].event
    BY <2>2
  <2> HIDE DEF s
  <2> QED
    BY <2>1, <2>3 DEF ServiceInv, TypeOK, ServerFits, Servers
<1>3. TypeOK'
  BY <1>1, <1>2, TypesOK DEF ServiceInv, Types
<1>4. CountersFit' /\ ServerFits' /\ TargetFits'
  BY <1>1, <1>2 DEF ServiceInv, CountersFit, ServerFits, TargetFits
<1>5. ExecFits' /\ AppliedFits'
  BY <1>1, <1>2 DEF ServiceInv, ExecFits, AppliedFits
<1>6. DeadFits'
  BY <1>1, <1>2 DEF ServiceInv, DeadFits
<1>7. MainFits' /\ BridgeFits'
  BY <1>1, <1>2 DEF ServiceInv, MainFits, BridgeFits, Doomed
<1>8. ShownIsOfCurrentTarget'
  BY <1>1, <1>2 DEF ServiceInv, TypeOK, ShownIsOfCurrentTarget
<1> QED
  BY <1>3, <1>4, <1>5, <1>6, <1>7, <1>8 DEF ServiceInv

-----------------------------------------------------------------------------
(***************************************************************************)
(* The main thread.                                                        *)
(***************************************************************************)

LEMMA RestoreQueued ==
    ASSUME restores \subseteq 0..bridge.id, bridge \in Bridges, NEW intent,
           QueueRestore(bridge.id, intent)
    PROVE  restores' \subseteq 0..bridge.id
<1>1. bridge.id \in 0..bridge.id
  BY P5Assumption DEF Bridges
<1>2. restores' \in {restores, restores \union {bridge.id}}
  BY DEF QueueRestore
<1> QED
  BY <1>1, <1>2

LEMMA ReadIntentKeeps ==
    ASSUME ServiceInv, ReadIntent PROVE ServiceInv'
<1>1. UNCHANGED <<server, alive, monitoring, config, lastEvent, shown, prefs, bridge,
                  light, exec, restores, test, posted, starts, faults>>
  BY DEF ReadIntent, service, queue, counters
<1>2. main = "readIntent" /\ wanted' = prefs.wanted /\ main' = "start"
  BY DEF ReadIntent
<1>3. prefs.wanted \in BOOLEAN
  BY DEF ServiceInv, TypeOK
<1>4. TypeOK'
  BY <1>1, <1>2, <1>3, TypesOK DEF ServiceInv, Types
<1>5. CountersFit' /\ ServerFits' /\ TargetFits'
  BY <1>1, <1>2, <1>3 DEF ServiceInv, CountersFit, ServerFits, TargetFits
<1>6. ExecFits' /\ AppliedFits'
  BY <1>1, <1>2, <1>3 DEF ServiceInv, ExecFits, AppliedFits
<1>7. DeadFits'
  BY <1>1, <1>2, <1>3 DEF ServiceInv, DeadFits
<1>8. MainFits'
  BY <1>1, <1>2, <1>3 DEF ServiceInv, MainFits
<1>9. BridgeFits'
  BY <1>1, <1>2, <1>3, BridgeNumbers DEF ServiceInv, BridgeFits, Doomed
<1>10. ShownIsOfCurrentTarget'
  BY <1>1, <1>2, <1>3 DEF ServiceInv, TypeOK, ShownIsOfCurrentTarget
<1> QED
  BY <1>4, <1>5, <1>6, <1>7, <1>8, <1>9, <1>10 DEF ServiceInv

\* An instance that is created begins with a bridge that is up or with a fault.
LEMMA Created ==
    ASSUME ServiceInv, CreateIfNeeded
    PROVE  /\ alive' = TRUE /\ bridge' \in Bridges /\ faults' \in 0..MaxFaults /\ faults' >= faults
           /\ alive => bridge' = bridge /\ faults' = faults
           /\ ~alive => /\ bridge'.id = 0 /\ ~bridge'.asked
                        /\ bridge'.up \/ faults' = faults + 1
<1>1. bridge \in Bridges /\ faults \in 0..MaxFaults
  BY DEF ServiceInv, TypeOK, CountersFit, Bridges
<1>2. /\ NewBridge(0, TRUE) \in Bridges /\ NewBridge(0, FALSE) \in Bridges
      /\ NewBridge(0, TRUE).id = 0 /\ NewBridge(0, FALSE).id = 0
      /\ NewBridge(0, TRUE).up /\ ~NewBridge(0, TRUE).asked /\ ~NewBridge(0, FALSE).asked
  BY P5Assumption DEF NewBridge, Bridges
<1>3. CASE alive
  BY <1>1, <1>3 DEF CreateIfNeeded
<1>4. CASE ~alive
  <2>1. \/ bridge' = NewBridge(0, TRUE) /\ faults' = faults
        \/ bridge' = NewBridge(0, FALSE) /\ faults' = faults + 1 /\ faults < MaxFaults
    BY <1>4 DEF CreateIfNeeded, Fault
  <2>2. alive' = TRUE
    BY <1>4 DEF CreateIfNeeded
  <2>3. faults' \in 0..MaxFaults /\ faults' >= faults
    <3>1. faults' = faults \/ (faults' = faults + 1 /\ faults < MaxFaults)
      BY <2>1
    <3> QED
      BY <1>1, <3>1, Bounds
  <2>4. bridge' \in Bridges /\ bridge'.id = 0 /\ ~bridge'.asked
    BY <1>2, <2>1
  <2>5. bridge'.up \/ faults' = faults + 1
    BY <1>2, <2>1
  <2> QED
    BY <1>4, <2>2, <2>3, <2>4, <2>5
<1> QED
  BY <1>3, <1>4

LEMMA CreatedBridge ==
    ASSUME ServiceInv, main = "idle", main' \in {"idle", "readIntent"}, posted' = posted,
           alive' = TRUE, faults' \in 0..MaxFaults, faults' >= faults,
           alive => bridge' = bridge /\ faults' = faults,
           ~alive => /\ bridge'.id = 0 /\ ~bridge'.asked
                     /\ bridge'.up \/ faults' = faults + 1
    PROVE  BridgeFits'
<1>1. main \notin {"connect", "restore"} /\ main' \notin {"connect", "restore"}
  OBVIOUS
<1>2. CASE alive
  BY <1>1, <1>2 DEF ServiceInv, BridgeFits, Doomed
<1>3. CASE ~alive
  <2>1. ~posted
    BY <1>3 DEF ServiceInv, DeadFits
  <2>2. faults \in Nat /\ faults' \in Nat
    BY BridgeNumbers, Bounds
  <2> QED
    BY <1>1, <1>3, <2>1, <2>2 DEF BridgeFits, Doomed
<1> QED
  BY <1>2, <1>3

LEMMA BindKeeps ==
    ASSUME ServiceInv, Bind PROVE ServiceInv'
<1>1. UNCHANGED <<server, monitoring, config, wanted, lastEvent, shown, prefs, light,
                  exec, main, restores, test, posted, starts>>
  BY DEF Bind, service, queue, counters
<1>2. /\ alive' = TRUE /\ bridge' \in Bridges /\ faults' \in 0..MaxFaults /\ faults' >= faults
      /\ alive => bridge' = bridge /\ faults' = faults
      /\ ~alive => /\ bridge'.id = 0 /\ ~bridge'.asked
                   /\ bridge'.up \/ faults' = faults + 1
  BY Created DEF Bind
<1>3. ~alive /\ main = "idle"
  BY DEF Bind
<1>4. TypeOK'
  BY <1>1, <1>2, <1>3, TypesOK DEF ServiceInv, Types, DeadFits
<1>5. CountersFit' /\ ServerFits' /\ TargetFits'
  BY <1>1, <1>2, <1>3 DEF ServiceInv, CountersFit, ServerFits, TargetFits
<1>6. ExecFits' /\ AppliedFits'
  BY <1>1, <1>2, <1>3 DEF ServiceInv, ExecFits, AppliedFits
<1>7. DeadFits'
  BY <1>1, <1>2, <1>3 DEF ServiceInv, DeadFits
<1>8. MainFits'
  BY <1>1, <1>2, <1>3 DEF ServiceInv, MainFits
<1>9. BridgeFits'
  BY <1>1, <1>2, <1>3, CreatedBridge, BridgeNumbers DEF ServiceInv, BridgeFits, Doomed
<1>10. ShownIsOfCurrentTarget'
  BY <1>1, <1>2, <1>3 DEF ServiceInv, TypeOK, ShownIsOfCurrentTarget
<1> QED
  BY <1>4, <1>5, <1>6, <1>7, <1>8, <1>9, <1>10 DEF ServiceInv

LEMMA PressStartKeeps ==
    ASSUME ServiceInv, NEW t \in Targets, PressStart(t) PROVE ServiceInv'
<1>1. UNCHANGED <<server, monitoring, config, wanted, lastEvent, shown, light, exec,
                  restores, test, posted>>
  BY DEF PressStart, service, queue, counters
<1>2. /\ alive' = TRUE /\ bridge' \in Bridges /\ faults' \in 0..MaxFaults /\ faults' >= faults
      /\ alive => bridge' = bridge /\ faults' = faults
      /\ ~alive => /\ bridge'.id = 0 /\ ~bridge'.asked
                   /\ bridge'.up \/ faults' = faults + 1
  BY Created DEF PressStart
<1>3. main = "idle" /\ main' = "readIntent"
  BY DEF PressStart
<1>4. starts' \in 0..MaxStarts
  BY P5Assumption DEF PressStart, ServiceInv, CountersFit
<1>5. /\ prefs' \in Preferences
      /\ prefs'.target \in Targets /\ prefs'.enabled
  BY DEF PressStart, ServiceInv, TypeOK, Preferences
<1>6. TypeOK'
  BY <1>1, <1>2, <1>3, <1>4, <1>5, TypesOK DEF ServiceInv, Types, DeadFits
<1>7. CountersFit' /\ ServerFits' /\ TargetFits'
  BY <1>1, <1>2, <1>3, <1>4, <1>5 DEF ServiceInv, CountersFit, ServerFits, TargetFits
<1>8. ExecFits' /\ AppliedFits'
  BY <1>1, <1>2, <1>3, <1>4, <1>5 DEF ServiceInv, ExecFits, AppliedFits
<1>9. DeadFits'
  BY <1>1, <1>2, <1>3, <1>4, <1>5 DEF ServiceInv, DeadFits
<1>10. MainFits'
  BY <1>1, <1>2, <1>3, <1>4, <1>5 DEF ServiceInv, MainFits
<1>11. BridgeFits'
  BY <1>1, <1>2, <1>3, CreatedBridge, BridgeNumbers DEF ServiceInv, BridgeFits, Doomed
<1>12. ShownIsOfCurrentTarget'
  BY <1>1, <1>2, <1>3, <1>4, <1>5 DEF ServiceInv, TypeOK, ShownIsOfCurrentTarget
<1> QED
  BY <1>6, <1>7, <1>8, <1>9, <1>10, <1>11, <1>12 DEF ServiceInv

LEMMA RestartStickyKeeps ==
    ASSUME ServiceInv, RestartSticky PROVE ServiceInv'
<1>1. UNCHANGED <<server, monitoring, config, wanted, lastEvent, shown, prefs, light,
                  exec, restores, test, posted, starts>>
  BY DEF RestartSticky, service, queue, counters
<1>2. /\ alive' = TRUE /\ bridge' \in Bridges /\ faults' \in 0..MaxFaults /\ faults' >= faults
      /\ alive => bridge' = bridge /\ faults' = faults
      /\ ~alive => /\ bridge'.id = 0 /\ ~bridge'.asked
                   /\ bridge'.up \/ faults' = faults + 1
  BY Created DEF RestartSticky
<1>3. main = "idle" /\ main' = "readIntent" /\ prefs.enabled
  BY DEF RestartSticky
<1>4. TypeOK'
  BY <1>1, <1>2, <1>3, TypesOK DEF ServiceInv, Types, DeadFits
<1>5. CountersFit' /\ ServerFits' /\ TargetFits'
  BY <1>1, <1>2, <1>3 DEF ServiceInv, CountersFit, ServerFits, TargetFits
<1>6. ExecFits' /\ AppliedFits'
  BY <1>1, <1>2, <1>3 DEF ServiceInv, ExecFits, AppliedFits
<1>7. DeadFits'
  BY <1>1, <1>2, <1>3 DEF ServiceInv, DeadFits
<1>8. MainFits'
  BY <1>1, <1>2, <1>3 DEF ServiceInv, MainFits
<1>9. BridgeFits'
  BY <1>1, <1>2, <1>3, CreatedBridge, BridgeNumbers DEF ServiceInv, BridgeFits, Doomed
<1>10. ShownIsOfCurrentTarget'
  BY <1>1, <1>2, <1>3 DEF ServiceInv, TypeOK, ShownIsOfCurrentTarget
<1> QED
  BY <1>4, <1>5, <1>6, <1>7, <1>8, <1>9, <1>10 DEF ServiceInv

LEMMA StartMonitoringKeeps ==
    ASSUME ServiceInv, StartMonitoring PROVE ServiceInv'
<1>1. UNCHANGED <<server, alive, wanted, prefs, bridge, light, exec, test, starts,
                  faults>>
  BY DEF StartMonitoring, service, queue, counters
<1>2. /\ main = "start" /\ main' = "idle" /\ monitoring'
      /\ exec.phase \notin {"save", "light"}
      /\ IF ~monitoring \/ TargetChanged
           THEN lastEvent' = None /\ shown' = None
           ELSE UNCHANGED <<lastEvent, shown>>
      /\ config' = [target |-> prefs.target, number |-> starts]
  BY DEF StartMonitoring, LockFree
<1>3. config' \in Configs /\ config' # None /\ config'.target = prefs.target
  BY <1>2, P5Assumption DEF ServiceInv, TargetFits, CountersFit, Configs
<1>4. posted' \in {posted, posted \/ NeedsReconnect} /\ alive
  BY <1>2 DEF StartMonitoring, ServiceInv, DeadFits
<1>5. restores' \subseteq 0..bridge.id
  <2>1. restores' = restores \/ QueueRestore(bridge.id, wanted)
    BY DEF StartMonitoring
  <2>2. restores \subseteq 0..bridge.id /\ bridge \in Bridges
    BY DEF ServiceInv, TypeOK, Bridges
  <2> QED
    BY <2>1, <2>2, RestoreQueued
<1>6. TypeOK'
  BY <1>1, <1>2, <1>3, <1>4, <1>5, TypesOK DEF ServiceInv, Types
<1>7. CountersFit' /\ ServerFits' /\ TargetFits'
  BY <1>1, <1>2, <1>3, <1>4, <1>5 DEF ServiceInv, CountersFit, ServerFits, TargetFits, NeedsReconnect
<1>8. ExecFits' /\ AppliedFits'
  BY <1>1, <1>2, <1>3, <1>4, <1>5 DEF ServiceInv, ExecFits, AppliedFits
<1>9. DeadFits'
  BY <1>1, <1>2, <1>3, <1>4, <1>5 DEF ServiceInv, DeadFits
<1>10. MainFits'
  BY <1>1, <1>2, <1>3, <1>4, <1>5 DEF ServiceInv, MainFits
<1>11. BridgeFits'
  BY <1>1, <1>2, <1>3, <1>4, <1>5, BridgeNumbers DEF ServiceInv, BridgeFits, Doomed, NeedsReconnect
<1>12. ShownIsOfCurrentTarget'
  BY <1>1, <1>2, <1>3, <1>4, <1>5 DEF ServiceInv, TypeOK, ShownIsOfCurrentTarget, TargetChanged
<1> QED
  BY <1>6, <1>7, <1>8, <1>9, <1>10, <1>11, <1>12 DEF ServiceInv

LEMMA PressStopKeeps ==
    ASSUME ServiceInv, PressStop PROVE ServiceInv'
<1>1. UNCHANGED <<server, alive, lastEvent, shown, bridge, light, exec, restores, test,
                  posted, starts, faults>>
  BY DEF PressStop, service, queue, counters
<1>2. /\ main = "idle" /\ main' = "stopLight" /\ monitoring
      /\ ~monitoring' /\ config' = None /\ ~wanted' /\ wanted' = FALSE
      /\ exec.phase \notin {"save", "light"} /\ monitoring' = FALSE
  BY DEF PressStop, LockFree
<1>3. /\ prefs' \in Preferences
      /\ ~prefs'.enabled
  BY DEF PressStop, ServiceInv, TypeOK, Preferences
<1>4. TypeOK'
  BY <1>1, <1>2, <1>3, TypesOK DEF ServiceInv, Types
<1>5. CountersFit' /\ ServerFits' /\ TargetFits'
  BY <1>1, <1>2, <1>3 DEF ServiceInv, CountersFit, ServerFits, TargetFits
<1>6. ExecFits' /\ AppliedFits'
  BY <1>1, <1>2, <1>3 DEF ServiceInv, ExecFits, AppliedFits
<1>7. DeadFits'
  BY <1>1, <1>2, <1>3 DEF ServiceInv, DeadFits
<1>8. MainFits'
  BY <1>1, <1>2, <1>3 DEF ServiceInv, MainFits
<1>9. BridgeFits'
  BY <1>1, <1>2, <1>3, BridgeNumbers DEF ServiceInv, BridgeFits, Doomed
<1>10. ShownIsOfCurrentTarget'
  BY <1>1, <1>2, <1>3 DEF ServiceInv, TypeOK, ShownIsOfCurrentTarget
<1> QED
  BY <1>4, <1>5, <1>6, <1>7, <1>8, <1>9, <1>10 DEF ServiceInv

LEMMA PressTestKeeps ==
    ASSUME ServiceInv, PressTest PROVE ServiceInv'
<1>1. UNCHANGED <<server, alive, monitoring, config, wanted, lastEvent, shown, prefs,
                  bridge, light, exec, main, restores, posted, starts, faults>>
  BY DEF PressTest, service, queue, counters
<1>2. test' = "queued" /\ alive
  BY DEF PressTest
<1>3. TypeOK'
  BY <1>1, <1>2, TypesOK DEF ServiceInv, Types
<1>4. CountersFit' /\ ServerFits' /\ TargetFits'
  BY <1>1, <1>2 DEF ServiceInv, CountersFit, ServerFits, TargetFits
<1>5. ExecFits' /\ AppliedFits'
  BY <1>1, <1>2 DEF ServiceInv, ExecFits, AppliedFits
<1>6. DeadFits'
  BY <1>1, <1>2 DEF ServiceInv, DeadFits
<1>7. MainFits'
  BY <1>1, <1>2 DEF ServiceInv, MainFits
<1>8. BridgeFits'
  BY <1>1, <1>2, BridgeNumbers DEF ServiceInv, BridgeFits, Doomed
<1>9. ShownIsOfCurrentTarget'
  BY <1>1, <1>2 DEF ServiceInv, TypeOK, ShownIsOfCurrentTarget
<1> QED
  BY <1>3, <1>4, <1>5, <1>6, <1>7, <1>8, <1>9 DEF ServiceInv

LEMMA PostReconnectKeeps ==
    ASSUME ServiceInv, PostReconnect PROVE ServiceInv'
<1>1. UNCHANGED <<server, alive, monitoring, config, wanted, lastEvent, shown, prefs,
                  bridge, light, exec, main, restores, test, starts, faults>>
  BY DEF PostReconnect, service, queue, counters
<1>2. posted' = TRUE /\ alive /\ NeedsReconnect
  BY DEF PostReconnect
<1>3. TypeOK'
  BY <1>1, <1>2, TypesOK DEF ServiceInv, Types
<1>4. CountersFit' /\ ServerFits' /\ TargetFits'
  BY <1>1, <1>2 DEF ServiceInv, CountersFit, ServerFits, TargetFits
<1>5. ExecFits' /\ AppliedFits'
  BY <1>1, <1>2 DEF ServiceInv, ExecFits, AppliedFits
<1>6. DeadFits'
  BY <1>1, <1>2 DEF ServiceInv, DeadFits
<1>7. MainFits'
  BY <1>1, <1>2 DEF ServiceInv, MainFits
<1>8. BridgeFits'
  BY <1>1, <1>2, BridgeNumbers DEF ServiceInv, BridgeFits, Doomed, NeedsReconnect
<1>9. ShownIsOfCurrentTarget'
  BY <1>1, <1>2 DEF ServiceInv, TypeOK, ShownIsOfCurrentTarget
<1> QED
  BY <1>3, <1>4, <1>5, <1>6, <1>7, <1>8, <1>9 DEF ServiceInv

\* What a call of the bridge leaves of the two conditions on it.
Called ==
    /\ bridge' \in Bridges /\ light' \in {"driver", "warning"} /\ faults' \in 0..MaxFaults
    /\ bridge'.id = bridge.id /\ bridge'.up = bridge.up
    /\ \/ bridge'.asked = bridge.asked /\ faults' = faults
       \/ bridge'.asked /\ faults' = faults + 1

LEMMA CallsCall ==
    ASSUME ServiceInv, NEW on \in BOOLEAN, NEW id, SetWarningLighting(id, on) PROVE Called
<1>1. bridge \in Bridges /\ light \in {"driver", "warning"} /\ faults \in 0..MaxFaults
  BY TypesOK DEF ServiceInv, Types, CountersFit
<1> QED
  BY <1>1, LightCall DEF Called

LEMMA CalledBridge ==
    ASSUME ServiceInv, Called, posted' = posted, alive' = alive,
           main' = main \/ {main, main'} \intersect {"replace", "connect", "restore"} = {}
    PROVE  BridgeFits' /\ MainFits'
<1>1. faults \in Nat /\ bridge.id \in Nat /\ faults' \in Nat
  BY BridgeNumbers, Bounds DEF Called
<1>2. MainFits'
  BY DEF ServiceInv, MainFits, Called
<1>3. CASE bridge'.asked = bridge.asked /\ faults' = faults
  BY <1>1, <1>2, <1>3 DEF ServiceInv, BridgeFits, Doomed, Called
<1>4. CASE bridge'.asked /\ faults' = faults + 1
  BY <1>1, <1>2, <1>4 DEF ServiceInv, BridgeFits, Doomed, Called
<1> QED
  BY <1>2, <1>3, <1>4 DEF Called

LEMMA StopLightKeeps ==
    ASSUME ServiceInv, StopLight PROVE ServiceInv'
<1>1. UNCHANGED <<server, alive, monitoring, config, wanted, lastEvent, shown, prefs,
                  exec, restores, test, posted, starts>>
  BY DEF StopLight, service, queue, counters
<1>2. Called
  BY CallsCall DEF StopLight
<1>3. main = "stopLight" /\ main' = "idle" /\ alive
  BY DEF StopLight, ServiceInv, DeadFits
<1>4. BridgeFits' /\ MainFits'
  BY <1>1, <1>2, <1>3, CalledBridge
<1>5. /\ bridge' \in Bridges /\ light' \in {"driver", "warning"}
      /\ faults' \in 0..MaxFaults /\ bridge'.id = bridge.id
  BY <1>2 DEF Called
<1>6. TypeOK'
  BY <1>1, <1>3, <1>5, TypesOK DEF ServiceInv, Types
<1>7. CountersFit' /\ ServerFits' /\ TargetFits'
  BY <1>1, <1>3, <1>5 DEF ServiceInv, CountersFit, ServerFits, TargetFits
<1>8. ExecFits' /\ AppliedFits'
  BY <1>1, <1>3, <1>5 DEF ServiceInv, ExecFits, AppliedFits
<1>9. DeadFits'
  BY <1>1, <1>3, <1>5 DEF ServiceInv, DeadFits
<1>10. ShownIsOfCurrentTarget'
  BY <1>1, <1>3, <1>5 DEF ServiceInv, TypeOK, ShownIsOfCurrentTarget
<1> QED
  BY <1>6, <1>7, <1>8, <1>9, <1>10, <1>4 DEF ServiceInv

LEMMA DestroyKeeps ==
    ASSUME ServiceInv, Destroy PROVE ServiceInv'
<1>1. UNCHANGED <<server, monitoring, config, prefs, main, starts>>
  BY DEF Destroy, service, queue, counters
<1>2. /\ main = "idle" /\ ~monitoring
      /\ alive' = FALSE /\ wanted' = FALSE /\ lastEvent' = None /\ shown' = None
      /\ bridge' = NewBridge(0, FALSE) /\ exec' = IdleTask
      /\ restores' = {} /\ test' = "none" /\ posted' = FALSE
  BY DEF Destroy
<1>3. NewBridge(0, FALSE) \in Bridges /\ IdleTask \in ExecType /\ IdleTask.phase = "idle"
  BY Bounds DEF NewBridge, Bridges, IdleTask, ExecType
<1>4. /\ light' \in {"driver", "warning"}
      /\ faults' \in 0..MaxFaults /\ faults' >= faults
  <2>1. bridge \in Bridges /\ light \in {"driver", "warning"} /\ faults \in 0..MaxFaults
    BY TypesOK DEF ServiceInv, Types, CountersFit
  <2> QED
    BY <2>1, BridgeClosed DEF Destroy
<1>5. TypeOK'
  BY <1>1, <1>2, <1>3, <1>4, TypesOK DEF ServiceInv, Types
<1>6. CountersFit' /\ ServerFits' /\ TargetFits'
  BY <1>1, <1>2, <1>3, <1>4 DEF ServiceInv, CountersFit, ServerFits, TargetFits
<1>7. ExecFits' /\ AppliedFits'
  BY <1>1, <1>2, <1>3, <1>4 DEF ServiceInv, ExecFits, AppliedFits
<1>8. DeadFits'
  BY <1>1, <1>2, <1>3, <1>4 DEF ServiceInv, DeadFits
<1>9. MainFits'
  BY <1>1, <1>2, <1>3, <1>4 DEF ServiceInv, MainFits
<1>10. BridgeFits'
  BY <1>1, <1>2, <1>3, <1>4, BridgeNumbers DEF ServiceInv, BridgeFits, Doomed
<1>11. ShownIsOfCurrentTarget'
  BY <1>1, <1>2, <1>3, <1>4 DEF ServiceInv, TypeOK, ShownIsOfCurrentTarget
<1> QED
  BY <1>5, <1>6, <1>7, <1>8, <1>9, <1>10, <1>11 DEF ServiceInv

LEMMA KillKeeps ==
    ASSUME ServiceInv, Kill PROVE ServiceInv'
<1>1. UNCHANGED <<server, prefs, light, starts>>
  BY DEF Kill, service, queue, counters
<1>2. /\ monitoring' = FALSE /\ config' = None /\ main' = "idle"
      /\ alive' = FALSE /\ wanted' = FALSE /\ lastEvent' = None /\ shown' = None
      /\ bridge' = NewBridge(0, FALSE) /\ exec' = IdleTask
      /\ restores' = {} /\ test' = "none" /\ posted' = FALSE
  BY DEF Kill
<1>3. NewBridge(0, FALSE) \in Bridges /\ IdleTask \in ExecType /\ IdleTask.phase = "idle"
  BY Bounds DEF NewBridge, Bridges, IdleTask, ExecType
<1>4. faults' \in 0..MaxFaults
  BY Bounds DEF Kill, Fault, ServiceInv, CountersFit
<1>5. TypeOK'
  BY <1>1, <1>2, <1>3, <1>4, TypesOK DEF ServiceInv, Types
<1>6. CountersFit' /\ ServerFits' /\ TargetFits'
  BY <1>1, <1>2, <1>3, <1>4 DEF ServiceInv, CountersFit, ServerFits, TargetFits
<1>7. ExecFits' /\ AppliedFits'
  BY <1>1, <1>2, <1>3, <1>4 DEF ServiceInv, ExecFits, AppliedFits
<1>8. DeadFits'
  BY <1>1, <1>2, <1>3, <1>4 DEF ServiceInv, DeadFits
<1>9. MainFits'
  BY <1>1, <1>2, <1>3, <1>4 DEF ServiceInv, MainFits
<1>10. BridgeFits'
  BY <1>1, <1>2, <1>3, <1>4, BridgeNumbers DEF ServiceInv, BridgeFits, Doomed
<1>11. ShownIsOfCurrentTarget'
  BY <1>1, <1>2, <1>3, <1>4 DEF ServiceInv, TypeOK, ShownIsOfCurrentTarget
<1> QED
  BY <1>5, <1>6, <1>7, <1>8, <1>9, <1>10, <1>11 DEF ServiceInv

LEMMA ReportErrorKeeps ==
    ASSUME ServiceInv, ReportError PROVE ServiceInv'
<1>1. UNCHANGED <<server, alive, monitoring, config, wanted, lastEvent, shown, prefs,
                  exec, main, restores, test, posted, starts>>
  BY DEF ReportError, service, queue, counters
<1>2. Called
  <2>1. /\ bridge' = [bridge EXCEPT !.asked = TRUE] /\ light' = light
        /\ faults' = faults + 1 /\ faults < MaxFaults
    BY DEF ReportError, Fault
  <2>2. bridge \in Bridges /\ light \in {"driver", "warning"} /\ faults \in 0..MaxFaults
    BY TypesOK DEF ServiceInv, Types, CountersFit
  <2>3. faults' \in 0..MaxFaults
    BY <2>1, <2>2, Bounds
  <2>4. /\ bridge' \in Bridges
        /\ bridge'.id = bridge.id /\ bridge'.up = bridge.up /\ bridge'.asked
    BY <2>1, <2>2 DEF Bridges
  <2> QED
    BY <2>1, <2>2, <2>3, <2>4 DEF Called
<1>3. alive
  BY DEF ReportError, ServiceInv, DeadFits, NewBridge
<1>4. BridgeFits' /\ MainFits'
  BY <1>1, <1>2, <1>3, CalledBridge
<1>5. /\ bridge' \in Bridges /\ light' \in {"driver", "warning"}
      /\ faults' \in 0..MaxFaults /\ bridge'.id = bridge.id
  BY <1>2 DEF Called
<1>6. TypeOK'
  BY <1>1, <1>3, <1>5, TypesOK DEF ServiceInv, Types
<1>7. CountersFit' /\ ServerFits' /\ TargetFits'
  BY <1>1, <1>3, <1>5 DEF ServiceInv, CountersFit, ServerFits, TargetFits
<1>8. ExecFits' /\ AppliedFits'
  BY <1>1, <1>3, <1>5 DEF ServiceInv, ExecFits, AppliedFits
<1>9. DeadFits'
  BY <1>1, <1>3, <1>5 DEF ServiceInv, DeadFits
<1>10. ShownIsOfCurrentTarget'
  BY <1>1, <1>3, <1>5 DEF ServiceInv, TypeOK, ShownIsOfCurrentTarget
<1> QED
  BY <1>6, <1>7, <1>8, <1>9, <1>10, <1>4 DEF ServiceInv

LEMMA ClosePreviousKeeps ==
    ASSUME ServiceInv, ClosePrevious PROVE ServiceInv'
<1>1. UNCHANGED <<server, alive, monitoring, config, wanted, lastEvent, shown, prefs,
                  exec, restores, test, posted, starts>>
  BY DEF ClosePrevious, service, queue, counters
<1>2. main = "idle" /\ main' = "replace" /\ alive /\ posted
  BY DEF ClosePrevious
<1>3. /\ light' \in {"driver", "warning"}
      /\ faults' \in 0..MaxFaults /\ faults' >= faults
  <2>1. bridge \in Bridges /\ light \in {"driver", "warning"} /\ faults \in 0..MaxFaults
    BY TypesOK DEF ServiceInv, Types, CountersFit
  <2> QED
    BY <2>1, BridgeClosed DEF ClosePrevious
<1>4. bridge' \in Bridges /\ bridge'.id = bridge.id
  <2>1. bridge \in Bridges /\ light \in {"driver", "warning"} /\ faults \in 0..MaxFaults
    BY TypesOK DEF ServiceInv, Types, CountersFit
  <2> QED
    BY <2>1 DEF ClosePrevious, Bridges
<1>5. BridgeFits'
  <2>1. faults' \in Nat
    BY <1>3, Bounds
  <2> QED
    BY <1>1, <1>2, <1>3, <1>4, <2>1, BridgeNumbers DEF ServiceInv, BridgeFits, Doomed
<1>6. TypeOK'
  BY <1>1, <1>2, <1>3, <1>4, TypesOK DEF ServiceInv, Types
<1>7. CountersFit' /\ ServerFits' /\ TargetFits'
  BY <1>1, <1>2, <1>3, <1>4 DEF ServiceInv, CountersFit, ServerFits, TargetFits
<1>8. ExecFits' /\ AppliedFits'
  BY <1>1, <1>2, <1>3, <1>4 DEF ServiceInv, ExecFits, AppliedFits
<1>9. DeadFits'
  BY <1>1, <1>2, <1>3, <1>4 DEF ServiceInv, DeadFits
<1>10. MainFits'
  BY <1>1, <1>2, <1>3, <1>4 DEF ServiceInv, MainFits
<1>11. BridgeFits'
  BY <1>5, BridgeNumbers DEF ServiceInv, BridgeFits, Doomed
<1>12. ShownIsOfCurrentTarget'
  BY <1>1, <1>2, <1>3, <1>4 DEF ServiceInv, TypeOK, ShownIsOfCurrentTarget
<1> QED
  BY <1>6, <1>7, <1>8, <1>9, <1>10, <1>11, <1>12 DEF ServiceInv

LEMMA ReplaceBridgeKeeps ==
    ASSUME ServiceInv, ReplaceBridge PROVE ServiceInv'
<1>1. UNCHANGED <<server, alive, monitoring, config, wanted, lastEvent, shown, prefs,
                  light, exec, restores, test, posted, starts, faults>>
  BY DEF ReplaceBridge, service, queue, counters
<1>2. main = "replace" /\ main' = "connect" /\ alive /\ posted
  BY DEF ReplaceBridge, ServiceInv, DeadFits, MainFits
<1>3. bridge.id + 1 <= faults /\ faults \in 0..MaxFaults
  BY <1>2 DEF ServiceInv, BridgeFits, Doomed, CountersFit
<1>4. /\ bridge' \in Bridges /\ bridge'.id = bridge.id + 1
      /\ ~bridge'.asked
  BY <1>3, BridgeNumbers, Bounds DEF ReplaceBridge, NewBridge, Bridges
<1>5. restores' \subseteq 0..bridge'.id
  <2>1. restores \subseteq 0..bridge.id
    BY DEF ServiceInv, TypeOK
  <2>2. 0..bridge.id \subseteq 0..(bridge.id + 1)
    BY BridgeNumbers
  <2> QED
    BY <1>1, <1>4, <2>1, <2>2
<1>6. TypeOK'
  BY <1>1, <1>2, <1>3, <1>4, <1>5, TypesOK DEF ServiceInv, Types
<1>7. CountersFit' /\ ServerFits' /\ TargetFits'
  BY <1>1, <1>2, <1>3, <1>4, <1>5 DEF ServiceInv, CountersFit, ServerFits, TargetFits
<1>8. ExecFits' /\ AppliedFits'
  BY <1>1, <1>2, <1>3, <1>4, <1>5 DEF ServiceInv, ExecFits, AppliedFits
<1>9. DeadFits'
  BY <1>1, <1>2, <1>3, <1>4, <1>5 DEF ServiceInv, DeadFits
<1>10. MainFits'
  BY <1>1, <1>2, <1>3, <1>4, <1>5 DEF ServiceInv, MainFits
<1>11. BridgeFits'
  BY <1>1, <1>2, <1>3, <1>4, <1>5, BridgeNumbers DEF ServiceInv, BridgeFits, Doomed
<1>12. ShownIsOfCurrentTarget'
  BY <1>1, <1>2, <1>3, <1>4, <1>5 DEF ServiceInv, TypeOK, ShownIsOfCurrentTarget
<1> QED
  BY <1>6, <1>7, <1>8, <1>9, <1>10, <1>11, <1>12 DEF ServiceInv

LEMMA ConnectKeeps ==
    ASSUME ServiceInv, Connect PROVE ServiceInv'
<1>1. UNCHANGED <<server, alive, monitoring, config, wanted, lastEvent, shown, prefs,
                  light, exec, restores, test, posted, starts>>
  BY DEF Connect, service, queue, counters
<1>2. main = "connect" /\ main' = "restore" /\ alive /\ posted
  BY DEF Connect, ServiceInv, DeadFits, MainFits
<1>3. bridge \in Bridges /\ faults \in 0..MaxFaults
  BY TypesOK DEF ServiceInv, Types, CountersFit
<1>4. /\ bridge' \in Bridges /\ bridge'.id = bridge.id
      /\ \/ bridge'.asked = bridge.asked /\ faults' = faults /\ bridge'.up
         \/ bridge'.asked /\ faults' = faults + 1 /\ faults < MaxFaults
  BY <1>3 DEF Connect, Fault, Bridges
<1>5. faults' \in 0..MaxFaults
  BY <1>3, <1>4, Bounds
<1>6. TypeOK'
  BY <1>1, <1>2, <1>4, <1>5, TypesOK DEF ServiceInv, Types
<1>7. CountersFit' /\ ServerFits' /\ TargetFits'
  BY <1>1, <1>2, <1>4, <1>5 DEF ServiceInv, CountersFit, ServerFits, TargetFits
<1>8. ExecFits' /\ AppliedFits'
  BY <1>1, <1>2, <1>4, <1>5 DEF ServiceInv, ExecFits, AppliedFits
<1>9. DeadFits'
  BY <1>1, <1>2, <1>4, <1>5 DEF ServiceInv, DeadFits
<1>10. MainFits'
  BY <1>1, <1>2, <1>4, <1>5 DEF ServiceInv, MainFits
<1>11. BridgeFits'
  BY <1>1, <1>2, <1>4, <1>5, BridgeNumbers DEF ServiceInv, BridgeFits, Doomed
<1>12. ShownIsOfCurrentTarget'
  BY <1>1, <1>2, <1>4, <1>5 DEF ServiceInv, TypeOK, ShownIsOfCurrentTarget
<1> QED
  BY <1>6, <1>7, <1>8, <1>9, <1>10, <1>11, <1>12 DEF ServiceInv

LEMMA FinishReconnectKeeps ==
    ASSUME ServiceInv, FinishReconnect PROVE ServiceInv'
<1>1. UNCHANGED <<server, alive, monitoring, config, wanted, lastEvent, shown, prefs,
                  bridge, light, exec, test, starts, faults>>
  BY DEF FinishReconnect, service, queue, counters
<1>2. main = "restore" /\ main' = "idle" /\ posted' = FALSE /\ alive
  BY DEF FinishReconnect, ServiceInv, DeadFits
<1>3. restores' \subseteq 0..bridge.id
  <2>1. restores \subseteq 0..bridge.id /\ bridge \in Bridges
    BY DEF ServiceInv, TypeOK, Bridges
  <2> QED
    BY <2>1, RestoreQueued DEF FinishReconnect
<1>4. bridge.up \/ bridge.asked
  BY <1>2 DEF ServiceInv, MainFits
<1>5. TypeOK'
  BY <1>1, <1>2, <1>3, <1>4, TypesOK DEF ServiceInv, Types
<1>6. CountersFit' /\ ServerFits' /\ TargetFits'
  BY <1>1, <1>2, <1>3, <1>4 DEF ServiceInv, CountersFit, ServerFits, TargetFits
<1>7. ExecFits' /\ AppliedFits'
  BY <1>1, <1>2, <1>3, <1>4 DEF ServiceInv, ExecFits, AppliedFits
<1>8. DeadFits'
  BY <1>1, <1>2, <1>3, <1>4 DEF ServiceInv, DeadFits
<1>9. MainFits'
  BY <1>1, <1>2, <1>3, <1>4 DEF ServiceInv, MainFits
<1>10. BridgeFits'
  BY <1>1, <1>2, <1>3, <1>4, BridgeNumbers DEF ServiceInv, BridgeFits, Doomed
<1>11. ShownIsOfCurrentTarget'
  BY <1>1, <1>2, <1>3, <1>4 DEF ServiceInv, TypeOK, ShownIsOfCurrentTarget
<1> QED
  BY <1>5, <1>6, <1>7, <1>8, <1>9, <1>10, <1>11 DEF ServiceInv

-----------------------------------------------------------------------------
(***************************************************************************)
(* The executor.                                                           *)
(***************************************************************************)

LEMMA Idle == IdleTask \in ExecType /\ IdleTask.phase = "idle"
BY DEF IdleTask, ExecType

LEMMA TaskIsAlive == ASSUME ServiceInv, exec.phase # "idle" PROVE alive
BY Idle DEF ServiceInv, DeadFits

LEMMA TaskType == ASSUME ServiceInv PROVE exec \in ExecType
BY DEF ServiceInv, ExecFits

LEMMA BeginPollKeeps ==
    ASSUME ServiceInv, BeginPoll PROVE ServiceInv'
<1>1. UNCHANGED <<server, alive, monitoring, config, wanted, lastEvent, shown, prefs,
                  bridge, light, main, restores, test, posted, starts, faults>>
  BY DEF BeginPoll, service, queue, counters
<1>2. alive /\ monitoring /\ config \in Configs
  BY TypesOK DEF BeginPoll, ServiceInv, DeadFits, Types
<1>3. exec' \in ExecType /\ exec'.phase = "fetch" /\ exec'.config \in Configs
  BY <1>2 DEF BeginPoll, IdleTask, ExecType
<1>4. TypeOK'
  BY <1>1, <1>2, <1>3, TypesOK DEF ServiceInv, Types
<1>5. CountersFit' /\ ServerFits' /\ TargetFits'
  BY <1>1, <1>2, <1>3 DEF ServiceInv, CountersFit, ServerFits, TargetFits
<1>6. ExecFits' /\ AppliedFits'
  BY <1>1, <1>2, <1>3 DEF ServiceInv, ExecFits, AppliedFits
<1>7. DeadFits'
  BY <1>1, <1>2, <1>3 DEF ServiceInv, DeadFits
<1>8. MainFits'
  BY <1>1, <1>2, <1>3 DEF ServiceInv, MainFits
<1>9. BridgeFits'
  BY <1>1, <1>2, <1>3, BridgeNumbers DEF ServiceInv, BridgeFits, Doomed
<1>10. ShownIsOfCurrentTarget'
  BY <1>1, <1>2, <1>3 DEF ServiceInv, TypeOK, ShownIsOfCurrentTarget
<1> QED
  BY <1>4, <1>5, <1>6, <1>7, <1>8, <1>9, <1>10 DEF ServiceInv

LEMMA FetchKeeps ==
    ASSUME ServiceInv, Fetch PROVE ServiceInv'
<1>1. UNCHANGED <<server, alive, monitoring, config, wanted, lastEvent, shown, prefs,
                  bridge, light, main, restores, test, posted, starts>>
  BY DEF Fetch, service, queue, counters
<1>2. exec.phase = "fetch" /\ exec \in ExecType /\ exec.config \in Configs /\ alive
  BY TaskIsAlive DEF Fetch, ServiceInv, ExecFits
<1> DEFINE answer == server[exec.config.target]
           task == [exec EXCEPT !.phase = "got", !.result = answer]
<1>3. \/ exec' = (IF answer.event = 0 THEN IdleTask ELSE task) /\ faults' = faults
      \/ exec' = IdleTask /\ faults < MaxFaults /\ faults' = faults + 1
  BY DEF Fetch, Fault
<1>4. /\ exec' \in ExecType /\ (exec'.config \in Configs \/ exec'.phase = "idle")
      /\ exec'.phase \in {"idle", "got"}
      /\ exec'.phase = "got" => exec'.result \in Decisions
  <2>1. CASE exec' = IdleTask
    BY <2>1, Idle
  <2>2. CASE exec' # IdleTask
    <3>1. exec' = task /\ answer.event # 0
      BY <1>3, <2>2
    <3>2. /\ answer \in [event: 0..MaxEvents, code: Codes \union {None}, stale: BOOLEAN]
          /\ answer.event > 0 => answer.code \in Codes
      BY <1>2 DEF ServiceInv, TypeOK, ServerFits, Configs
    <3>3. answer.event > 0
      BY <3>1, <3>2, Bounds
    <3>4. answer \in Decisions
      BY <3>2, <3>3, Bounds DEF Decisions
    <3> HIDE DEF answer
    <3> QED
      BY <1>2, <3>1, <3>4 DEF ExecType
  <2> QED
    BY <2>1, <2>2
<1>5. faults' \in 0..MaxFaults /\ faults' >= faults
  <2>1. faults \in 0..MaxFaults
    BY DEF ServiceInv, CountersFit
  <2>2. faults' = faults \/ (faults < MaxFaults /\ faults' = faults + 1)
    BY <1>3
  <2> QED
    BY <2>1, <2>2, Bounds
<1>6. BridgeFits'
  <2>1. faults' \in Nat
    BY <1>5, Bounds
  <2> HIDE DEF task
  <2> QED
    BY <1>1, <1>5, <2>1, BridgeNumbers DEF ServiceInv, BridgeFits, Doomed
<1>7. TypeOK'
  BY <1>1, <1>2, <1>4, <1>5, TypesOK DEF ServiceInv, Types
<1>8. CountersFit' /\ ServerFits' /\ TargetFits'
  BY <1>1, <1>2, <1>4, <1>5 DEF ServiceInv, CountersFit, ServerFits, TargetFits
<1>9. ExecFits' /\ AppliedFits'
  BY <1>1, <1>2, <1>4, <1>5 DEF ServiceInv, ExecFits, AppliedFits
<1>10. DeadFits'
  BY <1>1, <1>2, <1>4, <1>5 DEF ServiceInv, DeadFits
<1>11. MainFits'
  BY <1>1, <1>2, <1>4, <1>5 DEF ServiceInv, MainFits
<1>12. BridgeFits'
  BY <1>6, BridgeNumbers DEF ServiceInv, BridgeFits, Doomed
<1>13. ShownIsOfCurrentTarget'
  BY <1>1, <1>2, <1>4, <1>5 DEF ServiceInv, TypeOK, ShownIsOfCurrentTarget
<1> QED
  BY <1>7, <1>8, <1>9, <1>10, <1>11, <1>12, <1>13 DEF ServiceInv

LEMMA DiscardPollKeeps ==
    ASSUME ServiceInv, DiscardPoll PROVE ServiceInv'
<1>1. UNCHANGED <<server, alive, monitoring, config, wanted, lastEvent, shown, prefs,
                  bridge, light, main, restores, test, posted, starts, faults>>
  BY DEF DiscardPoll, service, queue, counters
<1>2. alive
  BY TaskIsAlive DEF DiscardPoll
<1>3. exec' \in ExecType /\ exec'.phase = "idle"
  BY Idle DEF DiscardPoll
<1>4. TypeOK'
  BY <1>1, <1>2, <1>3, TypesOK DEF ServiceInv, Types
<1>5. CountersFit' /\ ServerFits' /\ TargetFits'
  BY <1>1, <1>2, <1>3 DEF ServiceInv, CountersFit, ServerFits, TargetFits
<1>6. ExecFits' /\ AppliedFits'
  BY <1>1, <1>2, <1>3 DEF ServiceInv, ExecFits, AppliedFits
<1>7. DeadFits'
  BY <1>1, <1>2, <1>3 DEF ServiceInv, DeadFits
<1>8. MainFits'
  BY <1>1, <1>2, <1>3 DEF ServiceInv, MainFits
<1>9. BridgeFits'
  BY <1>1, <1>2, <1>3, BridgeNumbers DEF ServiceInv, BridgeFits, Doomed
<1>10. ShownIsOfCurrentTarget'
  BY <1>1, <1>2, <1>3 DEF ServiceInv, TypeOK, ShownIsOfCurrentTarget
<1> QED
  BY <1>4, <1>5, <1>6, <1>7, <1>8, <1>9, <1>10 DEF ServiceInv

LEMMA TakeStaleKeeps ==
    ASSUME ServiceInv, TakeStale PROVE ServiceInv'
<1>1. UNCHANGED <<server, alive, monitoring, config, wanted, prefs, bridge, light, main,
                  restores, test, posted, starts, faults>>
  BY DEF TakeStale, service, queue, counters
<1>2. alive /\ shown' = None /\ lastEvent' = None
  BY TaskIsAlive DEF TakeStale
<1>3. exec' \in ExecType /\ exec'.phase = "idle"
  BY Idle DEF TakeStale
<1>4. TypeOK'
  BY <1>1, <1>2, <1>3, TypesOK DEF ServiceInv, Types
<1>5. CountersFit' /\ ServerFits' /\ TargetFits'
  BY <1>1, <1>2, <1>3 DEF ServiceInv, CountersFit, ServerFits, TargetFits
<1>6. ExecFits' /\ AppliedFits'
  BY <1>1, <1>2, <1>3 DEF ServiceInv, ExecFits, AppliedFits
<1>7. DeadFits'
  BY <1>1, <1>2, <1>3 DEF ServiceInv, DeadFits
<1>8. MainFits'
  BY <1>1, <1>2, <1>3 DEF ServiceInv, MainFits
<1>9. BridgeFits'
  BY <1>1, <1>2, <1>3, BridgeNumbers DEF ServiceInv, BridgeFits, Doomed
<1>10. ShownIsOfCurrentTarget'
  BY <1>1, <1>2, <1>3 DEF ServiceInv, TypeOK, ShownIsOfCurrentTarget
<1> QED
  BY <1>4, <1>5, <1>6, <1>7, <1>8, <1>9, <1>10 DEF ServiceInv

LEMMA TakeDecisionKeeps ==
    ASSUME ServiceInv, TakeDecision PROVE ServiceInv'
<1>1. UNCHANGED <<server, alive, monitoring, config, lastEvent, prefs, bridge, light,
                  main, restores, test, posted, starts, faults>>
  BY DEF TakeDecision, service, queue, counters
<1>2. /\ alive /\ exec.phase = "got" /\ exec \in ExecType
      /\ exec.result \in Decisions /\ ~exec.result.stale
      /\ monitoring /\ exec.config = config /\ config \in Configs
  BY TaskIsAlive DEF TakeDecision, Outdated, ServiceInv, ExecFits
<1>3. /\ shown' = [target |-> exec.config.target, event |-> exec.result.event,
                   code |-> exec.result.code]
      /\ \/ exec' = IdleTask /\ wanted' = wanted
         \/ /\ wanted' = WarningLight(exec.result.code)
            /\ exec' = [exec EXCEPT !.phase = "save"]
  BY DEF TakeDecision
<1>4. shown' \in Shows /\ shown'.target = config.target
  BY <1>2, <1>3 DEF Shows, Decisions, Configs
<1>5. wanted' \in BOOLEAN
  <2>1. WarningLight(exec.result.code) \in BOOLEAN
    BY DEF WarningLight
  <2> QED
    BY <1>3, <2>1 DEF ServiceInv, TypeOK
<1>6. \/ exec' = IdleTask
      \/ /\ exec' \in ExecType /\ exec'.phase = "save"
         /\ exec'.config = exec.config /\ exec'.result = exec.result
  BY <1>2, <1>3 DEF ExecType
<1>7. TypeOK'
  BY <1>1, <1>2, <1>4, <1>5, <1>6, Idle, TypesOK DEF ServiceInv, Types
<1>8. CountersFit' /\ ServerFits' /\ TargetFits'
  BY <1>1, <1>2, <1>4, <1>5, <1>6, Idle DEF ServiceInv, CountersFit, ServerFits, TargetFits
<1>9. ExecFits' /\ AppliedFits'
  BY <1>1, <1>2, <1>4, <1>5, <1>6, Idle DEF ServiceInv, ExecFits, AppliedFits
<1>10. DeadFits'
  BY <1>1, <1>2, <1>4, <1>5, <1>6, Idle DEF ServiceInv, DeadFits
<1>11. MainFits'
  BY <1>1, <1>2, <1>4, <1>5, <1>6, Idle DEF ServiceInv, MainFits
<1>12. BridgeFits'
  BY <1>1, <1>2, <1>4, <1>5, <1>6, Idle, BridgeNumbers DEF ServiceInv, BridgeFits, Doomed
<1>13. ShownIsOfCurrentTarget'
  BY <1>1, <1>2, <1>4, <1>5, <1>6, Idle DEF ServiceInv, TypeOK, ShownIsOfCurrentTarget
<1> QED
  BY <1>7, <1>8, <1>9, <1>10, <1>11, <1>12, <1>13 DEF ServiceInv

LEMMA SaveIntentKeeps ==
    ASSUME ServiceInv, SaveIntent PROVE ServiceInv'
<1>1. UNCHANGED <<server, alive, monitoring, config, wanted, lastEvent, shown, bridge,
                  light, main, restores, test, posted, starts, faults>>
  BY DEF SaveIntent, service, queue, counters
<1>2. /\ alive /\ exec.phase = "save" /\ exec \in ExecType /\ bridge.id \in Nat
  BY TaskIsAlive, BridgeNumbers DEF SaveIntent, ServiceInv, ExecFits
<1>3. /\ exec' \in ExecType /\ exec'.phase = "light"
      /\ exec'.config = exec.config /\ exec'.result = exec.result
  BY <1>2 DEF SaveIntent, ExecType
<1>4. /\ prefs' \in Preferences
      /\ prefs'.enabled = prefs.enabled /\ prefs'.target = prefs.target
  <2>1. prefs \in Preferences
    BY TypesOK DEF ServiceInv, Types
  <2>2. WarningLight(exec.result.code) \in BOOLEAN
    BY DEF WarningLight
  <2> QED
    BY <2>1, <2>2 DEF SaveIntent, Preferences
<1>5. TypeOK'
  BY <1>1, <1>2, <1>3, <1>4, TypesOK DEF ServiceInv, Types
<1>6. CountersFit' /\ ServerFits' /\ TargetFits'
  BY <1>1, <1>2, <1>3, <1>4 DEF ServiceInv, CountersFit, ServerFits, TargetFits
<1>7. ExecFits' /\ AppliedFits'
  BY <1>1, <1>2, <1>3, <1>4 DEF ServiceInv, ExecFits, AppliedFits
<1>8. DeadFits'
  BY <1>1, <1>2, <1>3, <1>4 DEF ServiceInv, DeadFits
<1>9. MainFits'
  BY <1>1, <1>2, <1>3, <1>4 DEF ServiceInv, MainFits
<1>10. BridgeFits'
  BY <1>1, <1>2, <1>3, <1>4, BridgeNumbers DEF ServiceInv, BridgeFits, Doomed
<1>11. ShownIsOfCurrentTarget'
  BY <1>1, <1>2, <1>3, <1>4 DEF ServiceInv, TypeOK, ShownIsOfCurrentTarget
<1> QED
  BY <1>5, <1>6, <1>7, <1>8, <1>9, <1>10, <1>11 DEF ServiceInv

LEMMA LightDecisionKeeps ==
    ASSUME ServiceInv, LightDecision PROVE ServiceInv'
<1>1. UNCHANGED <<server, alive, monitoring, config, wanted, shown, prefs, main,
                  restores, test, posted, starts>>
  BY DEF LightDecision, service, queue, counters
<1>2. Called
  <2>1. WarningLight(exec.result.code) \in BOOLEAN
    BY DEF WarningLight
  <2> QED
    BY <2>1, CallsCall DEF LightDecision
<1>3. exec' = IdleTask /\ exec.phase = "light" /\ alive
  BY TaskIsAlive DEF LightDecision
<1>4. exec' \in ExecType /\ exec'.phase = "idle"
  BY <1>3, Idle
<1>5. lastEvent' \in 0..MaxEvents
  BY <1>3, Bounds DEF LightDecision, ServiceInv, ExecFits, Decisions
<1>6. BridgeFits' /\ MainFits'
  BY <1>1, <1>2, <1>3, <1>4, <1>5, CalledBridge
<1>7. /\ bridge' \in Bridges /\ light' \in {"driver", "warning"}
      /\ faults' \in 0..MaxFaults /\ bridge'.id = bridge.id
  BY <1>2 DEF Called
<1>8. TypeOK'
  BY <1>1, <1>3, <1>4, <1>5, <1>7, TypesOK DEF ServiceInv, Types
<1>9. CountersFit' /\ ServerFits' /\ TargetFits'
  BY <1>1, <1>3, <1>4, <1>5, <1>7 DEF ServiceInv, CountersFit, ServerFits, TargetFits
<1>10. ExecFits' /\ AppliedFits'
  BY <1>1, <1>3, <1>4, <1>5, <1>7 DEF ServiceInv, ExecFits, AppliedFits
<1>11. DeadFits'
  BY <1>1, <1>3, <1>4, <1>5, <1>7 DEF ServiceInv, DeadFits
<1>12. ShownIsOfCurrentTarget'
  BY <1>1, <1>3, <1>4, <1>5, <1>7 DEF ServiceInv, TypeOK, ShownIsOfCurrentTarget
<1> QED
  BY <1>8, <1>9, <1>10, <1>11, <1>12, <1>6 DEF ServiceInv

LEMMA RestoreLightKeeps ==
    ASSUME ServiceInv, RestoreLight PROVE ServiceInv'
<1>1. UNCHANGED <<server, alive, monitoring, config, wanted, lastEvent, shown, prefs,
                  main, restores, test, posted, starts>>
  BY DEF RestoreLight, service, queue, counters
<1>2. Called
  BY CallsCall DEF RestoreLight
<1>3. exec' = IdleTask /\ exec.phase = "restore" /\ alive
  BY TaskIsAlive DEF RestoreLight
<1>4. exec' \in ExecType /\ exec'.phase = "idle"
  BY <1>3, Idle
<1>5. BridgeFits' /\ MainFits'
  BY <1>1, <1>2, <1>3, <1>4, CalledBridge
<1>6. /\ bridge' \in Bridges /\ light' \in {"driver", "warning"}
      /\ faults' \in 0..MaxFaults /\ bridge'.id = bridge.id
  BY <1>2 DEF Called
<1>7. TypeOK'
  BY <1>1, <1>3, <1>4, <1>6, TypesOK DEF ServiceInv, Types
<1>8. CountersFit' /\ ServerFits' /\ TargetFits'
  BY <1>1, <1>3, <1>4, <1>6 DEF ServiceInv, CountersFit, ServerFits, TargetFits
<1>9. ExecFits' /\ AppliedFits'
  BY <1>1, <1>3, <1>4, <1>6 DEF ServiceInv, ExecFits, AppliedFits
<1>10. DeadFits'
  BY <1>1, <1>3, <1>4, <1>6 DEF ServiceInv, DeadFits
<1>11. ShownIsOfCurrentTarget'
  BY <1>1, <1>3, <1>4, <1>6 DEF ServiceInv, TypeOK, ShownIsOfCurrentTarget
<1> QED
  BY <1>7, <1>8, <1>9, <1>10, <1>11, <1>5 DEF ServiceInv

LEMMA EndTestKeeps ==
    ASSUME ServiceInv, EndTest PROVE ServiceInv'
<1>1. UNCHANGED <<server, alive, monitoring, config, wanted, lastEvent, shown, prefs,
                  main, restores, posted, starts>>
  BY DEF EndTest, service, queue, counters
<1>2. Called
  <2>1. exec.on \in BOOLEAN
    BY TaskType DEF ExecType
  <2> QED
    BY <2>1, CallsCall DEF EndTest
<1>3. exec' = IdleTask /\ exec.phase = "testEnd" /\ alive /\ test' = "none"
  BY TaskIsAlive DEF EndTest
<1>4. exec' \in ExecType /\ exec'.phase = "idle"
  BY <1>3, Idle
<1>5. BridgeFits' /\ MainFits'
  BY <1>1, <1>2, <1>3, <1>4, CalledBridge
<1>6. /\ bridge' \in Bridges /\ light' \in {"driver", "warning"}
      /\ faults' \in 0..MaxFaults /\ bridge'.id = bridge.id
  BY <1>2 DEF Called
<1>7. TypeOK'
  BY <1>1, <1>3, <1>4, <1>6, TypesOK DEF ServiceInv, Types
<1>8. CountersFit' /\ ServerFits' /\ TargetFits'
  BY <1>1, <1>3, <1>4, <1>6 DEF ServiceInv, CountersFit, ServerFits, TargetFits
<1>9. ExecFits' /\ AppliedFits'
  BY <1>1, <1>3, <1>4, <1>6 DEF ServiceInv, ExecFits, AppliedFits
<1>10. DeadFits'
  BY <1>1, <1>3, <1>4, <1>6 DEF ServiceInv, DeadFits
<1>11. ShownIsOfCurrentTarget'
  BY <1>1, <1>3, <1>4, <1>6 DEF ServiceInv, TypeOK, ShownIsOfCurrentTarget
<1> QED
  BY <1>7, <1>8, <1>9, <1>10, <1>11, <1>5 DEF ServiceInv

\* A test calls the bridge; when it does not turn on, the bridge asks to be replaced
\* or nothing has changed.
LEMMA BeginTestCalls ==
    ASSUME ServiceInv, BeginTest
    PROVE  /\ SetWarningLighting(bridge.id, TRUE)
           /\ test' = "lit" \/ bridge'.asked \/ UNCHANGED <<bridge, light>>
<1>1. bridge \in Bridges
  BY TypesOK DEF ServiceInv, Types
<1>2. SetWarningLighting(bridge.id, TRUE)
  BY DEF BeginTest, SetWarningLighting
<1>3. test' = "lit" \/ FailHalfway(TRUE) \/ UNCHANGED <<bridge, light>>
  BY DEF BeginTest
<1>4. FailHalfway(TRUE) => bridge'.asked
  BY <1>1 DEF FailHalfway, Bridges
<1> QED
  BY <1>2, <1>3, <1>4

LEMMA BeginTestKeeps ==
    ASSUME ServiceInv, BeginTest PROVE ServiceInv'
<1>1. UNCHANGED <<server, alive, monitoring, config, wanted, lastEvent, shown, prefs,
                  exec, main, restores, posted, starts>>
  BY DEF BeginTest, service, queue, counters
<1>2. Called
  BY BeginTestCalls, CallsCall
<1>3. alive /\ test' \in {"lit", "none"}
  BY DEF BeginTest, ServiceInv, DeadFits
<1>4. BridgeFits' /\ MainFits'
  BY <1>1, <1>2, <1>3, CalledBridge
<1>5. /\ bridge' \in Bridges /\ light' \in {"driver", "warning"}
      /\ faults' \in 0..MaxFaults /\ bridge'.id = bridge.id
  BY <1>2 DEF Called
<1>6. TypeOK'
  BY <1>1, <1>3, <1>5, TypesOK DEF ServiceInv, Types
<1>7. CountersFit' /\ ServerFits' /\ TargetFits'
  BY <1>1, <1>3, <1>5 DEF ServiceInv, CountersFit, ServerFits, TargetFits
<1>8. ExecFits' /\ AppliedFits'
  BY <1>1, <1>3, <1>5 DEF ServiceInv, ExecFits, AppliedFits
<1>9. DeadFits'
  BY <1>1, <1>3, <1>5 DEF ServiceInv, DeadFits
<1>10. ShownIsOfCurrentTarget'
  BY <1>1, <1>3, <1>5 DEF ServiceInv, TypeOK, ShownIsOfCurrentTarget
<1> QED
  BY <1>6, <1>7, <1>8, <1>9, <1>10, <1>4 DEF ServiceInv

LEMMA BeginRestoreKeeps ==
    ASSUME ServiceInv, BeginRestore PROVE ServiceInv'
<1>1. UNCHANGED <<server, alive, monitoring, config, wanted, lastEvent, shown, prefs,
                  bridge, light, main, test, posted, starts, faults>>
  BY DEF BeginRestore, service, queue, counters
<1>2. PICK id \in restores :
         /\ restores' = restores \ {id}
         /\ exec' = IF monitoring /\ bridge.id = id /\ wanted
                      THEN [IdleTask EXCEPT !.phase = "restore", !.target = id]
                      ELSE IdleTask
  BY Zenon DEF BeginRestore
<1>3. alive
  BY <1>2 DEF ServiceInv, DeadFits
<1>4. restores' \subseteq 0..bridge.id /\ id \in Nat
  <2>1. restores \subseteq 0..bridge.id
    BY DEF ServiceInv, TypeOK
  <2> QED
    BY <1>2, <2>1, BridgeNumbers
<1>5. exec' \in ExecType /\ exec'.phase \in {"idle", "restore"}
  <2>1. /\ [IdleTask EXCEPT !.phase = "restore", !.target = id] \in ExecType
        /\ [IdleTask EXCEPT !.phase = "restore", !.target = id].phase = "restore"
    BY <1>4 DEF IdleTask, ExecType
  <2> QED
    BY <1>2, <2>1, Idle
<1>6. TypeOK'
  BY <1>1, <1>3, <1>4, <1>5, TypesOK DEF ServiceInv, Types
<1>7. CountersFit' /\ ServerFits' /\ TargetFits'
  BY <1>1, <1>3, <1>4, <1>5 DEF ServiceInv, CountersFit, ServerFits, TargetFits
<1>8. ExecFits' /\ AppliedFits'
  BY <1>1, <1>3, <1>4, <1>5 DEF ServiceInv, ExecFits, AppliedFits
<1>9. DeadFits'
  BY <1>1, <1>3, <1>4, <1>5 DEF ServiceInv, DeadFits
<1>10. MainFits'
  BY <1>1, <1>3, <1>4, <1>5 DEF ServiceInv, MainFits
<1>11. BridgeFits'
  BY <1>1, <1>3, <1>4, <1>5, BridgeNumbers DEF ServiceInv, BridgeFits, Doomed
<1>12. ShownIsOfCurrentTarget'
  BY <1>1, <1>3, <1>4, <1>5 DEF ServiceInv, TypeOK, ShownIsOfCurrentTarget
<1> QED
  BY <1>6, <1>7, <1>8, <1>9, <1>10, <1>11, <1>12 DEF ServiceInv

LEMMA ReadForTestKeeps ==
    ASSUME ServiceInv, ReadForTest PROVE ServiceInv'
<1>1. UNCHANGED <<server, alive, monitoring, config, wanted, lastEvent, shown, prefs,
                  bridge, light, main, restores, test, posted, starts, faults>>
  BY DEF ReadForTest, service, queue, counters
<1>2. alive /\ wanted \in BOOLEAN
  BY DEF ReadForTest, ServiceInv, DeadFits, TypeOK
<1>3. exec' \in ExecType /\ exec'.phase = "testEnd"
  BY <1>2, BridgeNumbers DEF ReadForTest, IdleTask, ExecType
<1>4. TypeOK'
  BY <1>1, <1>2, <1>3, TypesOK DEF ServiceInv, Types
<1>5. CountersFit' /\ ServerFits' /\ TargetFits'
  BY <1>1, <1>2, <1>3 DEF ServiceInv, CountersFit, ServerFits, TargetFits
<1>6. ExecFits' /\ AppliedFits'
  BY <1>1, <1>2, <1>3 DEF ServiceInv, ExecFits, AppliedFits
<1>7. DeadFits'
  BY <1>1, <1>2, <1>3 DEF ServiceInv, DeadFits
<1>8. MainFits'
  BY <1>1, <1>2, <1>3 DEF ServiceInv, MainFits
<1>9. BridgeFits'
  BY <1>1, <1>2, <1>3, BridgeNumbers DEF ServiceInv, BridgeFits, Doomed
<1>10. ShownIsOfCurrentTarget'
  BY <1>1, <1>2, <1>3 DEF ServiceInv, TypeOK, ShownIsOfCurrentTarget
<1> QED
  BY <1>4, <1>5, <1>6, <1>7, <1>8, <1>9, <1>10 DEF ServiceInv

-----------------------------------------------------------------------------
(***************************************************************************)
(* The theorems for every instance.                                        *)
(***************************************************************************)

LEMMA ServiceInvStarts == Init => ServiceInv
<1> SUFFICES ASSUME Init PROVE ServiceInv
  OBVIOUS
<1>1. NewBridge(0, FALSE) \in Bridges
  BY Bounds DEF NewBridge, Bridges
<1>2. server \in Servers /\ ServerFits
  BY Bounds DEF Init, Servers, ServerFits
<1>3. prefs \in Preferences
  BY DEF Init, Preferences
<1>4. TypeOK
  BY <1>1, <1>2, <1>3, TypesOK, Idle DEF Init, Types
<1>5. CountersFit /\ TargetFits
  <2>1. CountersFit
    <3>1. posted = FALSE /\ starts = 0 /\ faults = 0
      BY DEF Init
    <3>2. 0 \in 0..MaxStarts /\ 0 \in 0..MaxFaults
      BY Bounds
    <3> QED
      BY <3>1, <3>2 DEF CountersFit
  <2>2. TargetFits
    BY DEF Init, TargetFits
  <2> QED
    BY <2>1, <2>2
<1>6. ExecFits /\ AppliedFits
  BY Idle DEF Init, ExecFits, AppliedFits
<1>7. DeadFits /\ MainFits /\ BridgeFits /\ ShownIsOfCurrentTarget
  BY DEF Init, DeadFits, MainFits, BridgeFits, ShownIsOfCurrentTarget
<1> QED
  BY <1>2, <1>4, <1>5, <1>6, <1>7 DEF ServiceInv

LEMMA ServiceInvSteps == ServiceInv /\ [Next]_vars => ServiceInv'
<1> SUFFICES ASSUME ServiceInv, [Next]_vars PROVE ServiceInv'
  OBVIOUS
<1>1. CASE Executor
  BY <1>1, BeginPollKeeps, FetchKeeps, DiscardPollKeeps, TakeStaleKeeps, TakeDecisionKeeps,
     SaveIntentKeeps, LightDecisionKeeps, BeginRestoreKeeps, RestoreLightKeeps,
     BeginTestKeeps, ReadForTestKeeps, EndTestKeeps DEF Executor
<1>2. CASE MainThread
  BY <1>2, ReadIntentKeeps, StartMonitoringKeeps, StopLightKeeps, ClosePreviousKeeps,
     ReplaceBridgeKeeps, ConnectKeeps, FinishReconnectKeeps DEF MainThread
<1>3. CASE Environment
  BY <1>3, PressStartKeeps, GoStaleKeeps, DecideAnewKeeps, BindKeeps, PressStopKeeps,
     PressTestKeeps, DestroyKeeps, ReportErrorKeeps, KillKeeps DEF Environment
<1>4. CASE PostReconnect \/ RestartSticky
  BY <1>4, PostReconnectKeeps, RestartStickyKeeps
<1>5. CASE UNCHANGED vars
  <2>1. UNCHANGED <<server, alive, monitoring, config, wanted, lastEvent, shown, prefs,
                    bridge, light, exec, main, restores, test, posted, starts, faults>>
    BY <1>5 DEF vars, service, queue, counters
  <2>2. TypeOK'
    BY <2>1, TypesOK DEF ServiceInv, Types
  <2>3. CountersFit' /\ ServerFits' /\ TargetFits'
    BY <2>1 DEF ServiceInv, CountersFit, ServerFits, TargetFits
  <2>4. ExecFits' /\ AppliedFits' /\ DeadFits'
    BY <2>1 DEF ServiceInv, ExecFits, AppliedFits, DeadFits
  <2>5. MainFits' /\ BridgeFits' /\ ShownIsOfCurrentTarget'
    BY <2>1 DEF ServiceInv, MainFits, BridgeFits, Doomed, ShownIsOfCurrentTarget
  <2> QED
    BY <2>2, <2>3, <2>4, <2>5 DEF ServiceInv
<1> QED
  BY <1>1, <1>2, <1>3, <1>4, <1>5 DEF Next

(***************************************************************************)
(* Both threads keep their types, and each bridge answers to a fault: the  *)
(* service does not connect again without a reason (connectVehicleBridge   *)
(* and its 60-second check), though connections, calls and polls fail, the *)
(* process is killed and start is pressed at any time.                     *)
(***************************************************************************)
THEOREM MonitorTypeCorrect == Spec => []TypeOK
<1>1. ServiceInv => TypeOK
  BY DEF ServiceInv
<1> QED
  BY <1>1, ServiceInvStarts, ServiceInvSteps, PTL DEF Spec

(***************************************************************************)
(* A decision on display is that of the vehicle monitored now: the answer  *)
(* of a poll begun under another BackendConfig object is dropped under the *)
(* lock, and a start under a new target forgets what was shown (pollOnce,  *)
(* startMonitoring).                                                       *)
(***************************************************************************)
THEOREM DisplayIsOfTheTarget == Spec => []ShownIsOfCurrentTarget
<1>1. ServiceInv => ShownIsOfCurrentTarget
  BY DEF ServiceInv
<1> QED
  BY <1>1, ServiceInvStarts, ServiceInvSteps, PTL DEF Spec

(***************************************************************************)
(* The latched intent is withdrawn only by a fresh decision of the vehicle *)
(* or by the owner's stop, whatever fails and whenever the process dies    *)
(* (applyNewDecision, setWarningLightWanted, stopMonitoringInternal).      *)
(***************************************************************************)
THEOREM IntentStaysLatched == Spec => IntentIsLatched
<1>1. ASSUME ServiceInv, [Next]_vars, prefs.wanted, ~prefs'.wanted
      PROVE  \/ main' = "stopLight"
             \/ exec.phase = "save" /\ ~exec.result.stale
                                    /\ ~WarningLight(exec.result.code)
  <2>1. prefs \in Preferences
    BY <1>1, TypesOK DEF ServiceInv, Types
  <2>2. prefs' # prefs
    BY <1>1
  <2>3. Executor => SaveIntent
    <3>1. ~BeginPoll /\ ~Fetch /\ ~DiscardPoll /\ ~TakeStale
      BY <2>2 DEF BeginPoll, Fetch, DiscardPoll, TakeStale
    <3>2. ~TakeDecision
      BY <2>2 DEF TakeDecision
    <3>3. ~LightDecision /\ ~RestoreLight
      BY <2>2 DEF LightDecision, RestoreLight
    <3>4. ~BeginRestore
      BY <2>2, Zenon DEF BeginRestore
    <3>5. ~BeginTest /\ ~ReadForTest /\ ~EndTest
      BY <2>2 DEF BeginTest, ReadForTest, EndTest
    <3> QED
      BY <3>1, <3>2, <3>3, <3>4, <3>5 DEF Executor
  <2>4. ~MainThread /\ ~PostReconnect /\ ~RestartSticky /\ ~UNCHANGED vars
    BY <2>2 DEF MainThread, ReadIntent, StartMonitoring, StopLight, ClosePrevious,
                ReplaceBridge, Connect, FinishReconnect, PostReconnect, RestartSticky, vars
  <2>5. Environment => PressStop \/ \E t \in Targets : PressStart(t)
    BY <2>2 DEF Environment, GoStale, DecideAnew, Bind, PressTest, Destroy, ReportError, Kill
  <2>6. ASSUME NEW t \in Targets, PressStart(t) PROVE FALSE
    <3>1. prefs'.wanted = prefs.wanted
      BY <2>1, <2>6 DEF PressStart, Preferences
    <3> QED
      BY <1>1, <3>1
  <2>7. CASE PressStop
    BY <2>7 DEF PressStop
  <2>8. CASE SaveIntent
    <3> DEFINE w == WarningLight(exec.result.code)
    <3>1. exec.phase = "save" /\ ~exec.result.stale
      BY <1>1, <2>8 DEF SaveIntent, ServiceInv, AppliedFits
    <3>2. prefs' = [prefs EXCEPT !.wanted = w]
      BY <2>8 DEF SaveIntent
    <3>3. prefs'.wanted = w
      <4> HIDE DEF w
      <4> QED
        BY <2>1, <3>2 DEF Preferences
    <3> QED
      BY <1>1, <3>1, <3>3
  <2> QED
    BY <1>1, <2>3, <2>4, <2>5, <2>6, <2>7, <2>8 DEF Next
<1>2. ServiceInv /\ [Next]_vars =>
          [prefs.wanted /\ ~prefs'.wanted =>
              \/ main' = "stopLight"
              \/ exec.phase = "save" /\ ~exec.result.stale
                                     /\ ~WarningLight(exec.result.code)]_vars
  BY <1>1
<1> QED
  BY <1>2, ServiceInvStarts, ServiceInvSteps, PTL DEF Spec, IntentIsLatched

-----------------------------------------------------------------------------
(***************************************************************************)
(* The all-clear: what the polls keep.                                     *)
(***************************************************************************)

\* A step that touches nothing a poll depends on.
LEMMA PollsUntouched ==
    ASSUME PollFits, UNCHANGED <<server, monitoring, config, wanted, lastEvent, shown, exec>>
    PROVE  PollFits'
BY DEF PollFits, AnswerFits, AnswersInOrder, HandledFits, ApplyingFits, ShownFits,
       OldIntentFits

\* The server's events only go on.
LEMMA ServerMoves ==
    ASSUME ServiceInv, PollFits,
           UNCHANGED <<monitoring, config, wanted, lastEvent, shown, exec>>,
           server' \in Servers,
           \A u \in Targets : \/ server'[u].event > server[u].event
                              \/ /\ server'[u].event = server[u].event
                                 /\ server'[u].code = server[u].code
    PROVE  PollFits'
<1>1. \A u \in Targets : server[u].event \in Nat /\ server'[u].event \in Nat
  BY TypesOK, Bounds DEF ServiceInv, Types, Servers
<1>2. AnswerFits'
  <2>1. exec.phase \in {"got", "save", "light"} =>
            exec.config.target \in Targets /\ exec.result.event \in Nat
    BY Bounds DEF ServiceInv, ExecFits, Configs, Decisions
  <2> QED
    BY <1>1, <2>1 DEF PollFits, AnswerFits
<1>3. HandledFits'
  <2>1. monitoring => config.target \in Targets
    BY TypesOK DEF ServiceInv, Types, Configs
  <2>2. lastEvent # None => lastEvent \in Nat
    BY TypesOK, Bounds DEF ServiceInv, Types
  <2> QED
    BY <1>1, <2>1, <2>2 DEF PollFits, HandledFits
<1>4. AnswersInOrder' /\ ApplyingFits' /\ ShownFits' /\ OldIntentFits'
  BY DEF PollFits, AnswersInOrder, ApplyingFits, ShownFits, OldIntentFits
<1> QED
  BY <1>2, <1>3, <1>4 DEF PollFits

\* Nothing is monitored, or nothing has been handled since the start.
LEMMA PollsForgotten ==
    ASSUME PollFits, ~monitoring' \/ lastEvent' = None, server' = server,
           exec' \in {exec, IdleTask}, exec'.phase \notin {"save", "light"}
    PROVE  PollFits'
<1>1. AnswerFits'
  BY Idle DEF PollFits, AnswerFits
<1>2. AnswersInOrder' /\ HandledFits' /\ ApplyingFits' /\ ShownFits' /\ OldIntentFits'
  BY DEF AnswersInOrder, HandledFits, ApplyingFits, ShownFits, OldIntentFits
<1> QED
  BY <1>1, <1>2 DEF PollFits

\* A task without an answer begins or ends.
LEMMA TasksChange ==
    ASSUME PollFits, UNCHANGED <<server, monitoring, config, wanted, lastEvent, shown>>,
           exec.phase \notin {"save", "light"}, exec'.phase \notin {"got", "save", "light"},
           exec'.phase = "restore" => wanted,
           exec'.phase = "testEnd" => (exec'.on => wanted)
    PROVE  PollFits'
BY DEF PollFits, AnswerFits, AnswersInOrder, HandledFits, ApplyingFits, ShownFits,
       OldIntentFits

LEMMA FetchAnswers ==
    ASSUME ServiceInv, PollFits, Fetch PROVE PollFits'
<1>1. /\ UNCHANGED <<server, monitoring, config, wanted, lastEvent, shown>>
      /\ exec.phase = "fetch"
  BY DEF Fetch, service
<1> DEFINE answer == server[exec.config.target]
<1>2. exec' = IdleTask \/ exec' = [exec EXCEPT !.phase = "got", !.result = answer]
  BY DEF Fetch
<1>3. CASE exec' = IdleTask
  BY <1>1, <1>3, Idle, TasksChange
<1>4. CASE exec' # IdleTask
  <2>1. exec \in ExecType
    BY TaskType
  <2>2. exec'.phase = "got" /\ exec'.result = answer /\ exec'.config = exec.config
    <3> HIDE DEF answer
    <3> QED
      BY <1>2, <1>4, <2>1 DEF ExecType
  <2>3. AnswerFits'
    <3>1. server[exec.config.target].event \in Nat
      BY <1>1, Bounds DEF ServiceInv, TypeOK, ExecFits, Configs
    <3> QED
      BY <1>1, <2>2, <3>1 DEF AnswerFits
  <2>4. AnswersInOrder'
    BY <1>1, <2>2 DEF PollFits, HandledFits, AnswersInOrder
  <2>5. HandledFits' /\ ApplyingFits' /\ ShownFits' /\ OldIntentFits'
    BY <1>1, <2>2 DEF PollFits, HandledFits, ApplyingFits, ShownFits, OldIntentFits
  <2> QED
    BY <2>3, <2>4, <2>5 DEF PollFits
<1> QED
  BY <1>3, <1>4

LEMMA TakingKeepsPolls ==
    ASSUME ServiceInv, PollFits, TakeDecision PROVE PollFits'
<1>1. /\ UNCHANGED <<server, monitoring, config, lastEvent>>
      /\ exec.phase = "got" /\ monitoring /\ exec.config = config
  BY DEF TakeDecision, Outdated
<1> DEFINE event == exec.result.event
           code == exec.result.code
<1>2. shown' = [target |-> exec.config.target, event |-> event, code |-> code]
  BY DEF TakeDecision
<1>3. /\ exec \in ExecType /\ exec.result \in Decisions /\ event \in Nat
      /\ lastEvent # None => lastEvent \in Nat
  BY <1>1, TypesOK, Bounds DEF ServiceInv, ExecFits, Decisions, Types
<1>4. shown' # None /\ shown'.event = event /\ shown'.code = code
  <2>1. exec.config \in Configs /\ code \in Codes
    BY <1>1, <1>3 DEF ServiceInv, ExecFits, Decisions
  <2>2. shown' \in [target: Targets, event: Nat, code: Codes]
    BY <1>2, <1>3, <2>1 DEF Configs
  <2>3. shown' # None
    BY <2>2, P5Assumption
  <2> QED
    BY <1>2, <2>3
<1>5. lastEvent # None =>
          lastEvent <= event /\ (lastEvent = event => (wanted <=> WarningLight(code)))
  BY <1>1 DEF PollFits, AnswersInOrder
<1>6. CASE event = lastEvent
  <2>1. exec' = IdleTask /\ wanted' = wanted
    BY <1>6 DEF TakeDecision
  <2>2. AnswerFits' /\ AnswersInOrder' /\ ApplyingFits' /\ OldIntentFits'
    BY <2>1, Idle DEF AnswerFits, AnswersInOrder, ApplyingFits, OldIntentFits
  <2>3. HandledFits'
    BY <1>1, <2>1 DEF PollFits, HandledFits
  <2>4. ShownFits'
    BY <1>1, <1>4, <1>5, <1>6, <2>1 DEF ShownFits
  <2> QED
    BY <2>2, <2>3, <2>4 DEF PollFits
<1>7. CASE event # lastEvent
  <2>1. wanted' = WarningLight(code) /\ exec' = [exec EXCEPT !.phase = "save"]
    BY <1>7 DEF TakeDecision
  <2>2. exec'.phase = "save" /\ exec'.result = exec.result /\ exec'.config = exec.config
    BY <1>3, <2>1 DEF ExecType
  <2>3. lastEvent # None => lastEvent < event
    BY <1>3, <1>5, <1>7
  <2>4. AnswerFits'
    BY <1>1, <2>2 DEF PollFits, AnswerFits
  <2>5. HandledFits'
    <3>1. event <= server[config.target].event /\ server[config.target].event \in Nat
      BY <1>1, Bounds DEF PollFits, AnswerFits, ServiceInv, TypeOK, ExecFits, Configs
    <3> QED
      BY <1>1, <1>3, <2>3, <3>1 DEF HandledFits
  <2>6. ApplyingFits'
    BY <1>1, <1>4, <2>1, <2>2, <2>3 DEF ApplyingFits
  <2>7. AnswersInOrder' /\ ShownFits' /\ OldIntentFits'
    BY <2>2 DEF AnswersInOrder, ShownFits, OldIntentFits
  <2> QED
    BY <2>4, <2>5, <2>6, <2>7 DEF PollFits
<1> QED
  BY <1>6, <1>7

LEMMA SavingKeepsPolls ==
    ASSUME ServiceInv, PollFits, SaveIntent PROVE PollFits'
<1>1. /\ UNCHANGED <<server, monitoring, config, wanted, lastEvent, shown>>
      /\ exec.phase = "save"
  BY DEF SaveIntent, service
<1>2. exec'.phase = "light" /\ exec'.result = exec.result /\ exec'.config = exec.config
  BY <1>1, TaskType DEF SaveIntent, ExecType
<1> QED
  BY <1>1, <1>2 DEF PollFits, AnswerFits, AnswersInOrder, HandledFits, ApplyingFits,
                    ShownFits, OldIntentFits

LEMMA LightingKeepsPolls ==
    ASSUME ServiceInv, PollFits, LightDecision PROVE PollFits'
<1>1. /\ UNCHANGED <<server, monitoring, config, wanted, shown>>
      /\ exec.phase = "light" /\ exec' = IdleTask /\ lastEvent' = exec.result.event
  BY DEF LightDecision
<1>2. exec.config = config /\ monitoring
  BY <1>1 DEF ServiceInv, AppliedFits
<1>3. /\ shown # None /\ shown.event = lastEvent' /\ shown.code = exec.result.code
      /\ wanted <=> WarningLight(exec.result.code)
  BY <1>1 DEF PollFits, ApplyingFits
<1>4. HandledFits'
  BY <1>1, <1>2, <1>3 DEF PollFits, AnswerFits, HandledFits
<1>5. ShownFits'
  BY <1>1, <1>3 DEF ShownFits
<1>6. AnswerFits' /\ AnswersInOrder' /\ ApplyingFits' /\ OldIntentFits'
  BY <1>1, Idle DEF AnswerFits, AnswersInOrder, ApplyingFits, OldIntentFits
<1> QED
  BY <1>4, <1>5, <1>6 DEF PollFits

-----------------------------------------------------------------------------
(***************************************************************************)
(* The all-clear: what the steps keep of the light.                        *)
(***************************************************************************)

\* A light as the driver set it, on a bridge that has saved no warning.
LEMMA DriverLight ==
    ASSUME light' = "driver", bridge'.saved # "warning" PROVE LightFits'
BY DEF LightFits, LightIsRestorable, ReplacedFits, ClearedFits

\* Steps that leave bridge and light alone: a task aims at the present bridge, and
\* an all-clear is not handled by them.
LEMMA LightUntouched ==
    ASSUME LightFits, UNCHANGED <<light, bridge>>, test' = test \/ test # "lit",
           \/ exec' = exec
           \/ exec'.phase \notin {"light", "restore", "testEnd"}
           \/ exec'.target = bridge.id
           \/ exec'.target = exec.target /\ exec.phase \in {"light", "restore", "testEnd"},
           monitoring' /\ lastEvent' # None /\ ~wanted' /\ exec'.phase \notin {"save", "light"}
               => monitoring /\ lastEvent # None /\ ~wanted
                      /\ exec.phase \notin {"save", "light"}
    PROVE  LightFits'
<1>1. LightIsRestorable'
  BY DEF LightFits, LightIsRestorable
<1>2. ReplacedFits'
  BY DEF LightFits, ReplacedFits
<1>3. ClearedFits'
  BY DEF LightFits, ClearedFits
<1> QED
  BY <1>1, <1>2, <1>3 DEF LightFits

\* A call keeps the light restorable, and one that turns the warning off does it,
\* fails and asks for a reconnection, or comes to a bridge that was replaced.
LEMMA CallRestores ==
    ASSUME ServiceInv, LightIsRestorable, NEW on \in BOOLEAN, NEW id,
           SetWarningLighting(id, on)
    PROVE  /\ LightIsRestorable'
           /\ id # bridge.id => light' = light
           /\ ~on => \/ light' = "driver"
                     \/ light' = light /\ (bridge'.asked \/ id # bridge.id)
           /\ light = "driver" /\ ~on => light' = "driver"
           /\ bridge.asked => bridge'.asked
<1>1. bridge \in Bridges /\ light \in {"driver", "warning"}
  BY TypesOK DEF ServiceInv, Types
<1>2. bridge.saved \in {None, "driver"} /\ None # "driver" /\ None # "warning"
  BY <1>1, P5Assumption DEF Bridges, LightIsRestorable
<1>3. CASE UNCHANGED <<bridge, light, faults>> /\ (id # bridge.id \/ ~bridge.up)
  BY <1>1, <1>3 DEF LightIsRestorable
<1>4. CASE id = bridge.id /\ bridge.up /\ TakeEffect(on)
  <2>1. CASE on
    <3>1. /\ light' = "warning"
          /\ bridge' = [bridge EXCEPT !.saved = IF @ = None THEN light ELSE @]
      BY <1>4, <2>1 DEF TakeEffect
    <3>2. bridge.saved = None => light = "driver"
      BY <1>1, <1>2 DEF LightIsRestorable
    <3>3. bridge'.saved = "driver" /\ bridge'.up = bridge.up /\ bridge'.asked = bridge.asked
      BY <1>1, <1>2, <3>1, <3>2 DEF Bridges
    <3> QED
      BY <1>4, <2>1, <3>1, <3>3 DEF LightIsRestorable
  <2>2. CASE ~on
    <3>1. /\ light' = IF bridge.saved = None THEN light ELSE bridge.saved
          /\ bridge' = [bridge EXCEPT !.saved = None]
      BY <1>4, <2>2 DEF TakeEffect
    <3>2. bridge'.saved = None /\ bridge'.up = bridge.up /\ bridge'.asked = bridge.asked
      BY <1>1, <3>1 DEF Bridges
    <3>3. light' = "driver"
      BY <1>1, <1>2, <3>1 DEF LightIsRestorable
    <3> QED
      BY <1>2, <2>2, <3>2, <3>3, <1>4 DEF LightIsRestorable
  <2> QED
    BY <2>1, <2>2
<1>5. CASE id = bridge.id /\ bridge.up /\ FailHalfway(on)
  <2>1. CASE /\ bridge' = [bridge EXCEPT !.asked = TRUE]
             /\ light' \in {light, IF on \/ bridge.saved = None THEN light ELSE bridge.saved}
    <3>1. bridge'.asked /\ bridge'.saved = bridge.saved /\ bridge'.up = bridge.up
      BY <1>1, <2>1 DEF Bridges
    <3>2. light' = light \/ (~on /\ light' = "driver")
      BY <1>2, <2>1
    <3> QED
      BY <1>1, <1>5, <3>1, <3>2 DEF LightIsRestorable
  <2>2. CASE /\ on
             /\ bridge' = [bridge EXCEPT !.asked = TRUE,
                                         !.saved = IF @ = None THEN light ELSE @]
             /\ light' \in {light, "warning"}
    <3> DEFINE s == IF bridge.saved = None THEN light ELSE bridge.saved
               a == [bridge EXCEPT !.asked = TRUE]
    <3>1. bridge' = [a EXCEPT !.saved = s]
      <4>1. a.saved = bridge.saved
        BY <1>1 DEF Bridges
      <4> QED
        BY <2>2, <4>1
    <3>2. a \in Bridges /\ a.asked /\ a.up = bridge.up
      BY <1>1 DEF Bridges
    <3>3. s = "driver"
      BY <1>1, <1>2 DEF LightIsRestorable
    <3>4. bridge'.asked /\ bridge'.saved = "driver" /\ bridge'.up = bridge.up
      <4> HIDE DEF a, s
      <4> QED
        BY <3>1, <3>2, <3>3 DEF Bridges
    <3> QED
      BY <1>1, <1>5, <2>2, <3>4 DEF LightIsRestorable
  <2> QED
    BY <1>5, <2>1, <2>2, Zenon DEF FailHalfway
<1> QED
  BY <1>3, <1>4, <1>5 DEF SetWarningLighting

\* close() that does not fail puts the light back.
LEMMA ClosingRestores ==
    ASSUME ServiceInv, OrdinaryFaults, LightIsRestorable, CloseBridge
    PROVE  light' = "driver"
<1>1. bridge \in Bridges /\ light \in {"driver", "warning"}
  BY TypesOK DEF ServiceInv, Types
<1>2. bridge.saved \in {None, "driver"} /\ None # "driver"
  BY <1>1, P5Assumption DEF Bridges, LightIsRestorable
<1>3. light' = IF bridge.up /\ bridge.saved # None THEN bridge.saved ELSE light
  BY DEF CloseBridge, Fault, OrdinaryFaults
<1> QED
  BY <1>1, <1>2, <1>3 DEF LightIsRestorable

\* A service that is created has no warning to put back.
LEMMA CreatingKeepsLight ==
    ASSUME ServiceInv, LightFits, CreateIfNeeded,
           UNCHANGED <<light, test, exec, monitoring, lastEvent, wanted>>
    PROVE  LightFits'
<1>1. CASE alive
  <2>1. bridge' = bridge
    BY <1>1 DEF CreateIfNeeded
  <2> QED
    BY <2>1, LightUntouched
<1>2. CASE ~alive
  <2>1. bridge = NewBridge(0, FALSE) /\ light \in {"driver", "warning"}
    BY <1>2 DEF ServiceInv, DeadFits, TypeOK
  <2>2. ~NewBridge(0, FALSE).up /\ None # "warning"
    BY P5Assumption DEF NewBridge
  <2>3. light' = "driver"
    BY <2>1, <2>2 DEF LightFits, LightIsRestorable
  <2>4. bridge' \in {NewBridge(0, TRUE), NewBridge(0, FALSE)}
    BY <1>2 DEF CreateIfNeeded
  <2>5. bridge'.saved = None
    BY <2>4 DEF NewBridge
  <2> QED
    BY <2>2, <2>3, <2>5, DriverLight
<1> QED
  BY <1>1, <1>2

-----------------------------------------------------------------------------
(***************************************************************************)
(* The all-clear: every step keeps its invariant.                          *)
(***************************************************************************)

LEMMA NoKill == ASSUME OrdinaryFaults PROVE ~Kill
BY DEF OrdinaryFaults, Kill, Fault

LEMMA ServerKeepsPolls ==
    ASSUME ServiceInv, PollFits, NEW t \in Targets,
           GoStale(t) \/ \E code \in Codes : DecideAnew(t, code)
    PROVE  PollFits'
<1>1. /\ UNCHANGED <<monitoring, config, wanted, lastEvent, shown, exec>>
      /\ server \in Servers
  BY TypesOK DEF GoStale, DecideAnew, service, ServiceInv, Types
<1>2. server' \in Servers
  BY ServiceInvSteps, TypesOK DEF ServiceInv, Types, Next, Environment
<1>3. \A u \in Targets : server[u].event \in Nat
  BY <1>1, Bounds DEF Servers
<1>4. CASE GoStale(t)
  <2> DEFINE s == [server[t] EXCEPT !.stale = TRUE]
  <2>1. server' = [server EXCEPT ![t] = s]
    BY <1>4 DEF GoStale
  <2>2. s.event = server[t].event /\ s.code = server[t].code
    BY <1>1 DEF Servers
  <2>3. \A u \in Targets : server'[u].event = server[u].event
                           /\ server'[u].code = server[u].code
    <3> HIDE DEF s
    <3> QED
      BY <1>1, <2>1, <2>2 DEF Servers
  <2> QED
    BY <1>1, <1>2, <2>3, ServerMoves
<1>5. ASSUME NEW code \in Codes, DecideAnew(t, code) PROVE PollFits'
  <2> DEFINE s == [event |-> server[t].event + 1, code |-> code, stale |-> FALSE]
  <2>1. server' = [server EXCEPT ![t] = s]
    BY <1>5 DEF DecideAnew
  <2>2. s.event > server[t].event
    BY <1>3
  <2>3. \A u \in Targets : \/ server'[u].event > server[u].event
                           \/ /\ server'[u].event = server[u].event
                              /\ server'[u].code = server[u].code
    <3> HIDE DEF s
    <3> QED
      BY <1>1, <2>1, <2>2 DEF Servers
  <2> QED
    BY <1>1, <1>2, <2>3, ServerMoves
<1> QED
  BY <1>4, <1>5

LEMMA ExecutorKeepsPolls ==
    ASSUME ServiceInv, PollFits, Executor PROVE PollFits'
<1>1. CASE DiscardPoll
  <2>1. /\ UNCHANGED <<server, monitoring, config, wanted, lastEvent, shown>>
        /\ exec.phase = "got" /\ exec' = IdleTask
    BY <1>1 DEF DiscardPoll, service
  <2> QED
    BY <2>1, Idle, TasksChange
<1>2. CASE TakeStale
  <2>1. server' = server /\ lastEvent' = None /\ exec' = IdleTask
    BY <1>2 DEF TakeStale
  <2> QED
    BY <2>1, Idle, PollsForgotten
<1>3. CASE BeginPoll
  <2>1. /\ UNCHANGED <<server, monitoring, config, wanted, lastEvent, shown>>
        /\ exec.phase = "idle"
        /\ exec' = [IdleTask EXCEPT !.phase = "fetch", !.config = config]
    BY <1>3 DEF BeginPoll, service
  <2>2. exec'.phase = "fetch"
    BY <2>1 DEF IdleTask
  <2> QED
    BY <2>1, <2>2, TasksChange
<1>4. CASE BeginRestore
  <2>1. PICK id \in restores :
            /\ exec.phase = "idle"
            /\ exec' = IF monitoring /\ bridge.id = id /\ wanted
                         THEN [IdleTask EXCEPT !.phase = "restore", !.target = id]
                         ELSE IdleTask
            /\ UNCHANGED <<server, service>>
    BY <1>4, Zenon DEF BeginRestore
  <2>2. [IdleTask EXCEPT !.phase = "restore", !.target = id].phase = "restore"
    BY DEF IdleTask
  <2>3. UNCHANGED <<server, monitoring, config, wanted, lastEvent, shown>>
    BY <2>1 DEF service
  <2>4. exec'.phase \in {"restore", "idle"} /\ (exec'.phase = "restore" => wanted)
    BY <2>1, <2>2, Idle
  <2> QED
    BY <2>1, <2>3, <2>4, TasksChange
<1>5. CASE RestoreLight \/ EndTest
  <2>1. /\ UNCHANGED <<server, monitoring, config, wanted, lastEvent, shown>>
        /\ exec.phase \in {"restore", "testEnd"} /\ exec' = IdleTask
    BY <1>5 DEF RestoreLight, EndTest, service
  <2> QED
    BY <2>1, Idle, TasksChange
<1>6. CASE ReadForTest
  <2>1. /\ UNCHANGED <<server, monitoring, config, wanted, lastEvent, shown>>
        /\ exec.phase = "idle"
        /\ exec' = [IdleTask EXCEPT !.phase = "testEnd", !.target = bridge.id, !.on = wanted]
    BY <1>6 DEF ReadForTest, service
  <2>2. exec'.phase = "testEnd" /\ exec'.on = wanted
    BY <2>1 DEF IdleTask
  <2> QED
    BY <2>1, <2>2, TasksChange
<1>7. CASE BeginTest
  BY <1>7, PollsUntouched DEF BeginTest, service
<1> QED
  BY <1>1, <1>2, <1>3, <1>4, <1>5, <1>6, <1>7, FetchAnswers, TakingKeepsPolls,
     SavingKeepsPolls, LightingKeepsPolls DEF Executor

LEMMA MainKeepsPolls ==
    ASSUME ServiceInv, ThreadFits, PollFits, MainThread PROVE PollFits'
<1>1. CASE ReadIntent
  <2>1. server' = server /\ monitoring' = monitoring /\ exec' = exec /\ main = "readIntent"
    BY <1>1 DEF ReadIntent
  <2>2. ~monitoring /\ exec.phase \notin {"save", "light"}
    BY <2>1 DEF ThreadFits, ServiceInv, AppliedFits
  <2> QED
    BY <2>1, <2>2, PollsForgotten
<1>2. CASE StartMonitoring
  <2>1. server' = server /\ exec' = exec /\ main = "start"
    BY <1>2 DEF StartMonitoring
  <2>2. ~monitoring /\ exec.phase \notin {"save", "light"}
    BY <2>1 DEF ThreadFits, ServiceInv, AppliedFits
  <2>3. lastEvent' = None
    BY <1>2, <2>2 DEF StartMonitoring
  <2> QED
    BY <2>1, <2>2, <2>3, PollsForgotten
<1>3. CASE StopLight \/ ClosePrevious \/ ReplaceBridge \/ Connect \/ FinishReconnect
  <2>1. UNCHANGED <<server, monitoring, config, wanted, lastEvent, shown, exec>>
    BY <1>3 DEF StopLight, ClosePrevious, ReplaceBridge, Connect, FinishReconnect, service
  <2> QED
    BY <2>1, PollsUntouched
<1> QED
  BY <1>1, <1>2, <1>3 DEF MainThread

LEMMA EnvironmentKeepsPolls ==
    ASSUME OrdinaryFaults, ServiceInv, PollFits, Environment PROVE PollFits'
<1>1. CASE \E t \in Targets : GoStale(t) \/ \E code \in Codes : DecideAnew(t, code)
  BY <1>1, ServerKeepsPolls
<1>2. ASSUME NEW t \in Targets, PressStart(t) PROVE PollFits'
  BY <1>2, PollsUntouched DEF PressStart
<1>3. CASE Bind \/ PressTest \/ ReportError
  BY <1>3, PollsUntouched DEF Bind, PressTest, ReportError, service
<1>4. CASE PressStop
  <2>1. server' = server /\ exec' = exec /\ ~monitoring' /\ LockFree
    BY <1>4 DEF PressStop
  <2> QED
    BY <2>1, PollsForgotten DEF LockFree
<1>5. CASE Destroy
  <2>1. server' = server /\ exec' = IdleTask /\ ~monitoring'
    BY <1>5 DEF Destroy
  <2> QED
    BY <2>1, Idle, PollsForgotten
<1> QED
  BY <1>1, <1>2, <1>3, <1>4, <1>5, NoKill DEF Environment

LEMMA PollsKept ==
    ASSUME OrdinaryFaults, ServiceInv, ThreadFits, PollFits, [Next]_vars PROVE PollFits'
<1>1. CASE PostReconnect \/ RestartSticky \/ UNCHANGED vars
  <2>1. UNCHANGED <<server, monitoring, config, wanted, lastEvent, shown, exec>>
    BY <1>1 DEF PostReconnect, RestartSticky, vars, service
  <2> QED
    BY <2>1, PollsUntouched
<1> QED
  BY <1>1, ExecutorKeepsPolls, MainKeepsPolls, EnvironmentKeepsPolls DEF Next

\* A call for a task: one that turns the warning on does it while no all-clear is
\* handled.
LEMMA TaskCallKeepsLight ==
    ASSUME ServiceInv, LightFits, NEW on \in BOOLEAN, NEW id,
           SetWarningLighting(id, on),
           id # bridge.id => light = "driver",
           exec'.phase \notin {"light", "restore", "testEnd"},
           monitoring' /\ lastEvent' # None /\ ~wanted' => ~on
    PROVE  LightFits'
<1>1. /\ LightIsRestorable'
      /\ id # bridge.id => light' = light
      /\ ~on => \/ light' = "driver"
                \/ light' = light /\ (bridge'.asked \/ id # bridge.id)
  BY CallRestores DEF LightFits
<1>2. ClearedFits'
  BY <1>1 DEF ClearedFits
<1> QED
  BY <1>1, <1>2 DEF LightFits, ReplacedFits

LEMMA DecidingKeepsLight ==
    ASSUME ServiceInv, PollFits, LightFits, LightDecision PROVE LightFits'
<1> DEFINE on == WarningLight(exec.result.code)
<1>1. /\ SetWarningLighting(exec.target, on) /\ exec' = IdleTask
      /\ wanted' = wanted /\ exec.phase = "light"
  BY DEF LightDecision
<1>2. wanted <=> on
  BY <1>1 DEF PollFits, ApplyingFits
<1>3. on \in BOOLEAN
  BY DEF WarningLight
<1>4. exec.target # bridge.id => light = "driver"
  BY <1>1 DEF LightFits, ReplacedFits
<1> HIDE DEF on
<1> QED
  BY <1>1, <1>2, <1>3, <1>4, Idle, TaskCallKeepsLight

LEMMA RestoringKeepsLight ==
    ASSUME ServiceInv, PollFits, LightFits, RestoreLight PROVE LightFits'
<1>1. /\ SetWarningLighting(exec.target, TRUE) /\ exec' = IdleTask
      /\ UNCHANGED <<monitoring, lastEvent, wanted>> /\ exec.phase = "restore"
  BY DEF RestoreLight, service
<1>2. monitoring /\ lastEvent # None => wanted
  BY <1>1 DEF PollFits, OldIntentFits
<1>3. exec.target # bridge.id => light = "driver"
  BY <1>1 DEF LightFits, ReplacedFits
<1> QED
  BY <1>1, <1>2, <1>3, Idle, TaskCallKeepsLight

LEMMA EndTestKeepsLight ==
    ASSUME ServiceInv, PollFits, LightFits, EndTest PROVE LightFits'
<1>1. /\ SetWarningLighting(exec.target, exec.on) /\ exec' = IdleTask
      /\ UNCHANGED <<monitoring, lastEvent, wanted>> /\ exec.phase = "testEnd"
  BY DEF EndTest, service
<1>2. monitoring /\ lastEvent # None => (exec.on => wanted)
  BY <1>1 DEF PollFits, OldIntentFits
<1>3. exec.on \in BOOLEAN
  BY TaskType DEF ExecType
<1>4. exec.target # bridge.id => light = "driver"
  BY <1>1 DEF LightFits, ReplacedFits
<1> QED
  BY <1>1, <1>2, <1>3, <1>4, Idle, TaskCallKeepsLight

\* While the light is tested it may show the warning after an all-clear.
LEMMA BeginTestKeepsLight ==
    ASSUME ServiceInv, LightFits, BeginTest PROVE LightFits'
<1>1. /\ UNCHANGED <<monitoring, lastEvent, wanted, exec>>
      /\ exec.phase = "idle" /\ test = "queued"
  BY DEF BeginTest, service
<1>2. LightIsRestorable'
  BY BeginTestCalls, CallRestores DEF LightFits
<1>3. ClearedFits'
  BY <1>1, BeginTestCalls DEF LightFits, ClearedFits
<1> QED
  BY <1>1, <1>2, <1>3 DEF LightFits, ReplacedFits

LEMMA ExecutorKeepsLight ==
    ASSUME ServiceInv, PollFits, LightFits, Executor PROVE LightFits'
<1>1. CASE BeginPoll
  <2>1. /\ UNCHANGED <<monitoring, lastEvent, wanted, light, bridge, test>>
        /\ exec.phase = "idle"
        /\ exec' = [IdleTask EXCEPT !.phase = "fetch", !.config = config]
    BY <1>1 DEF BeginPoll, service, queue
  <2>2. exec'.phase = "fetch"
    BY <2>1 DEF IdleTask
  <2> QED
    BY <2>1, <2>2, LightUntouched
<1>2. CASE Fetch
  <2> DEFINE answer == server[exec.config.target]
  <2>1. /\ UNCHANGED <<monitoring, lastEvent, wanted, light, bridge, test>>
        /\ exec.phase = "fetch"
        /\ exec' = IdleTask \/ exec' = [exec EXCEPT !.phase = "got", !.result = answer]
    BY <1>2 DEF Fetch, service, queue
  <2>2. exec'.phase \in {"idle", "got"}
    <3> HIDE DEF answer
    <3> QED
      BY <2>1, Idle, TaskType DEF ExecType
  <2> QED
    BY <2>1, <2>2, LightUntouched
<1>3. CASE DiscardPoll \/ TakeStale
  <2>1. /\ UNCHANGED <<monitoring, wanted, light, bridge, test>>
        /\ lastEvent' \in {lastEvent, None} /\ exec.phase = "got" /\ exec' = IdleTask
    BY <1>3 DEF DiscardPoll, TakeStale, service, queue
  <2> QED
    BY <2>1, Idle, LightUntouched
<1>4. CASE TakeDecision
  <2>1. /\ UNCHANGED <<monitoring, lastEvent, light, bridge, test>> /\ exec.phase = "got"
        /\ \/ exec' = IdleTask /\ wanted' = wanted
           \/ exec' = [exec EXCEPT !.phase = "save"]
    BY <1>4 DEF TakeDecision, queue
  <2>2. [exec EXCEPT !.phase = "save"].phase = "save"
    BY TaskType DEF ExecType
  <2>3. CASE exec' = IdleTask /\ wanted' = wanted
    BY <2>1, <2>3, Idle, LightUntouched
  <2>4. CASE exec' = [exec EXCEPT !.phase = "save"]
    BY <2>1, <2>2, <2>4, LightUntouched
  <2> QED
    BY <2>1, <2>3, <2>4
<1>5. CASE SaveIntent
  <2>1. /\ UNCHANGED <<monitoring, lastEvent, wanted, light, bridge, test>>
        /\ exec.phase = "save"
        /\ exec' = [exec EXCEPT !.phase = "light", !.target = bridge.id]
    BY <1>5 DEF SaveIntent, service, queue
  <2>2. exec'.phase = "light" /\ exec'.target = bridge.id
    BY <2>1, TaskType DEF ExecType
  <2> QED
    BY <2>1, <2>2, LightUntouched
<1>6. CASE BeginRestore
  <2>1. PICK id \in restores :
            /\ exec.phase = "idle"
            /\ exec' = IF monitoring /\ bridge.id = id /\ wanted
                         THEN [IdleTask EXCEPT !.phase = "restore", !.target = id]
                         ELSE IdleTask
            /\ UNCHANGED <<service, bridge, light, test>>
    BY <1>6, Zenon DEF BeginRestore
  <2>2. UNCHANGED <<monitoring, lastEvent, wanted, light, bridge, test>>
    BY <2>1 DEF service
  <2>3. [IdleTask EXCEPT !.phase = "restore", !.target = id].target = id
        /\ [IdleTask EXCEPT !.phase = "restore", !.target = id].phase = "restore"
    BY DEF IdleTask
  <2>4. exec'.phase = "idle" \/ (exec'.phase = "restore" /\ exec'.target = bridge.id)
    BY <2>1, <2>3, Idle
  <2> QED
    BY <2>1, <2>2, <2>4, LightUntouched
<1>7. CASE ReadForTest
  <2>1. /\ UNCHANGED <<monitoring, lastEvent, wanted, light, bridge, test>>
        /\ exec.phase = "idle"
        /\ exec' = [IdleTask EXCEPT !.phase = "testEnd", !.target = bridge.id, !.on = wanted]
    BY <1>7 DEF ReadForTest, service, queue
  <2>2. exec'.phase = "testEnd" /\ exec'.target = bridge.id
    BY <2>1 DEF IdleTask
  <2> QED
    BY <2>1, <2>2, LightUntouched
<1> QED
  BY <1>1, <1>2, <1>3, <1>4, <1>5, <1>6, <1>7, DecidingKeepsLight, RestoringKeepsLight,
     BeginTestKeepsLight, EndTestKeepsLight DEF Executor

\* A bridge that is taken down or just made has nothing to put back.
LEMMA FreshBridgeKeepsLight ==
    ASSUME ServiceInv, ThreadFits, LightFits, ReplaceBridge \/ Connect PROVE LightFits'
<1>1. ~bridge.up /\ light' = light
  BY DEF ReplaceBridge, Connect, ThreadFits
<1>2. light \in {"driver", "warning"} /\ bridge \in Bridges
  BY TypesOK DEF ServiceInv, Types
<1>3. light' = "driver"
  BY <1>1, <1>2 DEF LightFits, LightIsRestorable
<1>4. bridge'.saved # "warning"
  <2>1. CASE ReplaceBridge
    <3>1. bridge' = NewBridge(bridge.id + 1, FALSE)
      BY <2>1 DEF ReplaceBridge
    <3> QED
      BY <3>1, P5Assumption DEF NewBridge
  <2>2. CASE Connect
    <3>1. bridge' = [bridge EXCEPT !.up = TRUE] \/ bridge' = [bridge EXCEPT !.asked = TRUE]
      BY <2>2 DEF Connect
    <3>2. bridge'.saved = bridge.saved
      BY <1>2, <3>1 DEF Bridges
    <3> QED
      BY <3>2 DEF LightFits, LightIsRestorable
  <2> QED
    BY <2>1, <2>2
<1> QED
  BY <1>3, <1>4, DriverLight

LEMMA ClosingKeepsLight ==
    ASSUME OrdinaryFaults, ServiceInv, LightFits, ClosePrevious \/ Destroy PROVE LightFits'
<1>1. bridge \in Bridges
  BY TypesOK DEF ServiceInv, Types
<1>2. light' = "driver"
  BY ClosingRestores DEF ClosePrevious, Destroy, LightFits
<1>3. bridge' = [bridge EXCEPT !.up = FALSE] \/ bridge' = NewBridge(0, FALSE)
  BY DEF ClosePrevious, Destroy
<1>4. bridge'.saved \in {bridge.saved, None}
  BY <1>1, <1>3 DEF Bridges, NewBridge
<1> QED
  BY <1>2, <1>4, DriverLight, P5Assumption DEF LightFits, LightIsRestorable

LEMMA MainKeepsLight ==
    ASSUME OrdinaryFaults, ServiceInv, ThreadFits, LightFits, MainThread PROVE LightFits'
<1>1. CASE ReadIntent
  <2>1. /\ UNCHANGED <<monitoring, lastEvent, light, bridge, test, exec>>
        /\ main = "readIntent"
    BY <1>1 DEF ReadIntent, queue
  <2> QED
    BY <2>1, LightUntouched DEF ThreadFits
<1>2. CASE StartMonitoring
  <2>1. UNCHANGED <<wanted, light, bridge, test, exec>> /\ main = "start"
    BY <1>2 DEF StartMonitoring
  <2>2. lastEvent' = None
    BY <1>2, <2>1 DEF StartMonitoring, ThreadFits
  <2> QED
    BY <2>1, <2>2, LightUntouched
<1>3. CASE StopLight
  <2>1. /\ SetWarningLighting(bridge.id, FALSE)
        /\ UNCHANGED <<monitoring, lastEvent, wanted, test, exec>>
        /\ main = "stopLight"
    BY <1>3 DEF StopLight, service, queue
  <2>2. /\ LightIsRestorable'
        /\ light' = "driver" \/ (light' = light /\ bridge'.asked)
        /\ light = "driver" => light' = "driver"
        /\ bridge'.id = bridge.id
    BY <2>1, CallRestores, CallsCall DEF LightFits, Called
  <2> QED
    BY <2>1, <2>2 DEF LightFits, ReplacedFits, ClearedFits
<1>4. CASE FinishReconnect
  <2>1. UNCHANGED <<monitoring, lastEvent, wanted, light, bridge, test, exec>>
    BY <1>4 DEF FinishReconnect, service
  <2> QED
    BY <2>1, LightUntouched
<1> QED
  BY <1>1, <1>2, <1>3, <1>4, FreshBridgeKeepsLight, ClosingKeepsLight DEF MainThread

LEMMA EnvironmentKeepsLight ==
    ASSUME OrdinaryFaults, ServiceInv, LightFits, Environment PROVE LightFits'
<1>1. ASSUME NEW t \in Targets, GoStale(t) \/ \E code \in Codes : DecideAnew(t, code)
      PROVE  LightFits'
  <2>1. UNCHANGED <<monitoring, lastEvent, wanted, light, bridge, test, exec>>
    BY <1>1 DEF GoStale, DecideAnew, service, queue
  <2> QED
    BY <2>1, LightUntouched
<1>2. ASSUME NEW t \in Targets, PressStart(t) PROVE LightFits'
  <2>1. /\ CreateIfNeeded
        /\ UNCHANGED <<monitoring, lastEvent, wanted, light, test, exec>>
    BY <1>2 DEF PressStart, queue
  <2> QED
    BY <2>1, CreatingKeepsLight
<1>3. CASE Bind
  <2>1. /\ CreateIfNeeded
        /\ UNCHANGED <<monitoring, lastEvent, wanted, light, test, exec>>
    BY <1>3 DEF Bind, queue
  <2> QED
    BY <2>1, CreatingKeepsLight
<1>4. CASE PressStop
  <2>1. UNCHANGED <<light, bridge, test, exec>> /\ ~monitoring'
    BY <1>4 DEF PressStop, queue
  <2> QED
    BY <2>1, LightUntouched
<1>5. CASE PressTest
  <2>1. /\ UNCHANGED <<monitoring, lastEvent, wanted, light, bridge, exec>>
        /\ test = "none"
    BY <1>5 DEF PressTest, service
  <2> QED
    BY <2>1, LightUntouched
<1>6. CASE ReportError
  <2>1. /\ UNCHANGED <<monitoring, lastEvent, wanted, light, test, exec>>
        /\ bridge' = [bridge EXCEPT !.asked = TRUE]
    BY <1>6 DEF ReportError, service, queue
  <2>2. bridge \in Bridges
    BY TypesOK DEF ServiceInv, Types
  <2>3. bridge'.asked /\ UNCHANGED <<bridge.id, bridge.up, bridge.saved>>
    BY <2>1, <2>2 DEF Bridges
  <2> QED
    BY <2>1, <2>3 DEF LightFits, LightIsRestorable, ReplacedFits, ClearedFits
<1>7. CASE Destroy
  BY <1>7, ClosingKeepsLight
<1> QED
  BY <1>1, <1>2, <1>3, <1>4, <1>5, <1>6, <1>7, NoKill DEF Environment

LEMMA LightKept ==
    ASSUME OrdinaryFaults, ServiceInv, ThreadFits, PollFits, LightFits, [Next]_vars
    PROVE  LightFits'
<1>1. CASE PostReconnect \/ UNCHANGED vars
  <2>1. UNCHANGED <<monitoring, lastEvent, wanted, light, bridge, test, exec>>
    BY <1>1 DEF PostReconnect, vars, service, queue
  <2> QED
    BY <2>1, LightUntouched
<1>2. CASE RestartSticky
  <2>1. /\ CreateIfNeeded
        /\ UNCHANGED <<monitoring, lastEvent, wanted, light, test, exec>>
    BY <1>2 DEF RestartSticky, queue
  <2> QED
    BY <2>1, CreatingKeepsLight
<1> QED
  BY <1>1, <1>2, ExecutorKeepsLight, MainKeepsLight, EnvironmentKeepsLight DEF Next

LEMMA ExecutorKeepsThreads ==
    ASSUME ServiceInv, ThreadFits, Executor PROVE ThreadFits'
<1>1. main' = main /\ monitoring' = monitoring
  BY Zenon DEF Executor, BeginPoll, Fetch, DiscardPoll, TakeStale, TakeDecision, SaveIntent,
               LightDecision, BeginRestore, RestoreLight, BeginTest, ReadForTest, EndTest,
               service
<1>2. bridge'.up = bridge.up
  <2>1. CASE LightDecision
    <3>1. WarningLight(exec.result.code) \in BOOLEAN
      BY DEF WarningLight
    <3> QED
      BY <2>1, <3>1, CallsCall DEF LightDecision, Called
  <2>2. CASE RestoreLight
    BY <2>2, CallsCall DEF RestoreLight, Called
  <2>3. CASE BeginTest
    BY <2>3, BeginTestCalls, CallsCall DEF Called
  <2>4. CASE EndTest
    <3>1. exec.on \in BOOLEAN
      BY TaskType DEF ExecType
    <3> QED
      BY <2>4, <3>1, CallsCall DEF EndTest, Called
  <2>5. CASE BeginRestore
    BY <2>5, Zenon DEF BeginRestore
  <2> QED
    BY <2>1, <2>2, <2>3, <2>4, <2>5 DEF Executor, BeginPoll, Fetch, DiscardPoll, TakeStale,
       TakeDecision, SaveIntent, ReadForTest
<1> QED
  BY <1>1, <1>2 DEF ThreadFits

LEMMA ThreadsKept ==
    ASSUME OrdinaryFaults, ServiceInv, ThreadFits, [Next]_vars PROVE ThreadFits'
<1>1. bridge \in Bridges
  BY TypesOK DEF ServiceInv, Types
<1>2. CASE MainThread
  <2>1. CASE ReadIntent
    BY <2>1 DEF ReadIntent, ThreadFits
  <2>2. CASE StartMonitoring \/ StopLight \/ Connect \/ FinishReconnect
    <3>1. main' \in {"idle", "restore"}
      BY <2>2 DEF StartMonitoring, StopLight, Connect, FinishReconnect
    <3> QED
      BY <3>1 DEF ThreadFits
  <2>3. CASE ClosePrevious
    <3>1. main' = "replace" /\ bridge' = [bridge EXCEPT !.up = FALSE]
      BY <2>3 DEF ClosePrevious
    <3> QED
      BY <1>1, <3>1 DEF ThreadFits, Bridges
  <2>4. CASE ReplaceBridge
    BY <2>4 DEF ReplaceBridge, NewBridge, ThreadFits
  <2> QED
    BY <1>2, <2>1, <2>2, <2>3, <2>4 DEF MainThread
<1>3. CASE Environment
  <2>1. ASSUME NEW t \in Targets, GoStale(t) \/ \E code \in Codes : DecideAnew(t, code)
        PROVE  ThreadFits'
    BY <2>1 DEF GoStale, DecideAnew, service, ThreadFits
  <2>2. ASSUME NEW t \in Targets, PressStart(t) PROVE ThreadFits'
    BY <2>2 DEF PressStart, OrdinaryFaults, ThreadFits
  <2>3. CASE Bind \/ PressTest \/ Destroy
    <3>1. main' = "idle"
      BY <2>3 DEF Bind, PressTest, Destroy
    <3> QED
      BY <3>1 DEF ThreadFits
  <2>4. CASE PressStop
    BY <2>4 DEF PressStop, ThreadFits
  <2>5. CASE ReportError
    <3>1. UNCHANGED <<main, monitoring>> /\ bridge' = [bridge EXCEPT !.asked = TRUE]
      BY <2>5 DEF ReportError, service
    <3> QED
      BY <1>1, <3>1 DEF ThreadFits, Bridges
  <2> QED
    BY <1>3, <2>1, <2>2, <2>3, <2>4, <2>5, NoKill DEF Environment
<1>4. CASE RestartSticky
  BY <1>4 DEF RestartSticky, ThreadFits
<1>5. CASE PostReconnect \/ UNCHANGED vars
  BY <1>5 DEF PostReconnect, vars, service, ThreadFits
<1> QED
  BY <1>2, <1>3, <1>4, <1>5, ExecutorKeepsThreads DEF Next

LEMMA ClearInvStarts == Init => ClearInv
<1> SUFFICES ASSUME Init PROVE ClearInv
  OBVIOUS
<1>1. /\ main = "idle" /\ ~monitoring /\ light = "driver" /\ exec = IdleTask
      /\ bridge = NewBridge(0, FALSE)
  BY DEF Init
<1>2. ThreadFits
  BY <1>1 DEF ThreadFits
<1>3. PollFits
  BY <1>1, Idle DEF PollFits, AnswerFits, AnswersInOrder, HandledFits, ApplyingFits,
                    ShownFits, OldIntentFits
<1>4. LightFits
  <2>1. bridge.saved # "warning"
    BY <1>1, P5Assumption DEF NewBridge
  <2> QED
    BY <1>1, <2>1 DEF LightFits, LightIsRestorable, ReplacedFits, ClearedFits
<1> QED
  BY <1>2, <1>3, <1>4, ServiceInvStarts DEF ClearInv

LEMMA ClearInvSteps == OrdinaryFaults /\ ClearInv /\ [Next]_vars => ClearInv'
BY ServiceInvSteps, ThreadsKept, PollsKept, LightKept DEF ClearInv

\* What the invariant says when nothing is going on.
LEMMA ClearWhenQuiet == ClearInv => AllClearRestoresTheLight
<1> SUFFICES ASSUME ClearInv, Quiet, monitoring, shown # None, lastEvent = shown.event,
                    ~WarningLight(shown.code)
             PROVE  light = "driver"
  BY DEF AllClearRestoresTheLight
<1>1. exec.phase = "idle" /\ test = "none" /\ ~bridge.asked
  BY DEF Quiet, NeedsReconnect
<1>2. lastEvent # None
  <2>1. shown \in Shows
    BY TypesOK DEF ClearInv, ServiceInv, Types
  <2> QED
    BY <2>1, P5Assumption, Bounds DEF Shows
<1>3. ~wanted
  BY <1>1, <1>2 DEF ClearInv, PollFits, ShownFits
<1> QED
  BY <1>1, <1>2, <1>3 DEF ClearInv, LightFits, ClearedFits

(***************************************************************************)
(* When the risk is over the driver's own light is back: bridge calls,     *)
(* connections and polls may fail at any step and any number of times, the *)
(* bridge be replaced under a running task, and the light be tested in     *)
(* between (applyNewDecision, setWarningLighting, connectVehicleBridge,    *)
(* testLighting).  Left out are what breaks it or may: the process being   *)
(* killed, a restoration that fails in close(), and start pressed while    *)
(* monitoring.                                                             *)
(***************************************************************************)
THEOREM AllClearIsRestored ==
    ASSUME OrdinaryFaults
    PROVE  Spec => []AllClearRestoresTheLight
<1>1. Init => ClearInv
  BY ClearInvStarts
<1>2. ClearInv /\ [Next]_vars => ClearInv'
  BY ClearInvSteps
<1> QED
  BY <1>1, <1>2, ClearWhenQuiet, PTL DEF Spec
=============================================================================
