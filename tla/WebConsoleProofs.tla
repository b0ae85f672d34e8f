-------------------------- MODULE WebConsoleProofs --------------------------
(***************************************************************************)
(* Theorems about WebConsole, for any keys and any number of requests.     *)
(***************************************************************************)
EXTENDS WebConsole, TLAPS

LEMMA UpdateType ==
    ASSUME NEW p \in PageType
    PROVE  UpdateCommandAvailability(p) \in PageType
<1>1. Eligible(p) \in BOOLEAN
  BY DEF Eligible, PageType
<1> HIDE DEF Eligible
<1> QED
  BY <1>1 DEF UpdateCommandAvailability, PageType

LEMMA InvalidateEventType ==
    ASSUME NEW p \in PageType PROVE InvalidateEvent(p) \in PageType
<1> DEFINE q == [p EXCEPT !.commandGen = @ + 1]
           r == [q EXCEPT !.event = 0, !.checked = FALSE]
<1>1. q \in PageType
  BY DEF PageType
<1>2. r \in PageType
  <2> HIDE DEF q
  <2> QED
    BY <1>1 DEF PageType
<1>3. InvalidateEvent(p) = UpdateCommandAvailability(r)
  BY DEF InvalidateEvent
<1> QED
  BY <1>2, <1>3, UpdateType

LEMMA InvalidateTelemetryType ==
    ASSUME NEW p \in PageType PROVE InvalidateTelemetry(p) \in PageType
<1> DEFINE q == InvalidateEvent(p)
           r == [q EXCEPT !.telemetryGen = @ + 1]
<1>1. q \in PageType
  BY InvalidateEventType
<1>2. r \in PageType
  <2> HIDE DEF q
  <2> QED
    BY <1>1 DEF PageType
<1>3. [r EXCEPT !.recorded = 0, !.run = TRUE] \in PageType
  <2> HIDE DEF r
  <2> QED
    BY <1>2 DEF PageType
<1>4. InvalidateTelemetry(p) = [r EXCEPT !.recorded = 0, !.run = TRUE]
  BY DEF InvalidateTelemetry
<1> QED
  BY <1>3, <1>4

LEMMA MarkDirtyType ==
    ASSUME NEW p \in PageType PROVE MarkDirty(p) \in PageType
BY InvalidateTelemetryType DEF MarkDirty

LEMMA DisconnectType ==
    ASSUME NEW p \in PageType PROVE Disconnect(p) \in PageType
<1> DEFINE r == [p EXCEPT !.apiMode = FALSE, !.apiKey = None]
<1>1. r \in PageType
  BY DEF PageType
<1> HIDE DEF r
<1> QED
  BY <1>1, InvalidateTelemetryType, UpdateType DEF Disconnect, r

LEMMA RenderType ==
    ASSUME NEW p \in PageType, NEW event \in Nat, NEW migrate \in BOOLEAN
    PROVE  Render(p, event, migrate) \in PageType
<1> DEFINE r == [p EXCEPT !.event = event, !.migrate = migrate]
<1>1. r \in PageType
  BY DEF PageType
<1> HIDE DEF r
<1> QED
  BY <1>1, UpdateType DEF Render, r

LEMMA RunLocallyType ==
    ASSUME NEW p \in PageType, NEW migrate \in BOOLEAN
    PROVE  RunLocally(p, migrate) \in PageType
BY RenderType DEF RunLocally

\* What the functions leave in the fields that guard requests.
LEMMA UpdateFields ==
    ASSUME NEW p \in PageType
    PROVE LET q == UpdateCommandAvailability(p) IN
        /\ q.command = Eligible(p)
        /\ q.apiMode = p.apiMode /\ q.apiKey = p.apiKey /\ q.event = p.event
        /\ q.checked = p.checked /\ q.locked = p.locked
        /\ q.telemetryGen = p.telemetryGen /\ q.commandGen = p.commandGen
BY DEF UpdateCommandAvailability, PageType

LEMMA InvalidateEventFields ==
    ASSUME NEW p \in PageType
    PROVE LET q == InvalidateEvent(p) IN
        /\ q.event = 0 /\ ~q.checked /\ ~q.command
        /\ q.commandGen = p.commandGen + 1 /\ q.telemetryGen = p.telemetryGen
        /\ q.apiMode = p.apiMode /\ q.apiKey = p.apiKey /\ q.locked = p.locked
BY DEF InvalidateEvent, UpdateCommandAvailability, Eligible, PageType

LEMMA InvalidateTelemetryFields ==
    ASSUME NEW p \in PageType
    PROVE LET q == InvalidateTelemetry(p) IN
        /\ q.event = 0 /\ ~q.checked /\ ~q.command
        /\ q.commandGen = p.commandGen + 1 /\ q.telemetryGen = p.telemetryGen + 1
        /\ q.apiMode = p.apiMode /\ q.apiKey = p.apiKey /\ q.locked = p.locked
BY InvalidateEventFields, InvalidateEventType DEF InvalidateTelemetry, PageType

LEMMA MarkDirtyFields ==
    ASSUME NEW p \in PageType
    PROVE LET q == MarkDirty(p) IN
        /\ p.apiMode => q = InvalidateTelemetry(p)
        /\ ~p.apiMode => q = p
BY DEF MarkDirty

LEMMA DisconnectFields ==
    ASSUME NEW p \in PageType
    PROVE LET q == Disconnect(p) IN
        /\ q.event = 0 /\ ~q.checked /\ ~q.command
        /\ q.commandGen = p.commandGen + 1 /\ q.telemetryGen = p.telemetryGen + 1
        /\ ~q.apiMode /\ q.apiKey = None /\ q.locked = p.locked
<1> DEFINE r == [p EXCEPT !.apiMode = FALSE, !.apiKey = None]
<1>1. /\ r \in PageType /\ r.apiMode = FALSE /\ r.apiKey = None /\ r.locked = p.locked
      /\ r.commandGen = p.commandGen /\ r.telemetryGen = p.telemetryGen
  BY DEF PageType
<1> HIDE DEF r
<1>2. InvalidateTelemetry(r) \in PageType
  BY <1>1, InvalidateTelemetryType
<1>3. Disconnect(p) = UpdateCommandAvailability(InvalidateTelemetry(r))
  BY DEF Disconnect, r
<1> DEFINE t == InvalidateTelemetry(r)
<1>4. /\ t.event = 0 /\ ~t.checked
      /\ t.commandGen = p.commandGen + 1 /\ t.telemetryGen = p.telemetryGen + 1
      /\ ~t.apiMode /\ t.apiKey = None /\ t.locked = p.locked
  BY <1>1, InvalidateTelemetryFields
<1> HIDE DEF t
<1>5. ~Eligible(t)
  BY <1>4 DEF Eligible
<1> QED
  BY <1>2, <1>3, <1>4, <1>5, UpdateFields DEF t

LEMMA RunLocallyFields ==
    ASSUME NEW p \in PageType, NEW migrate \in BOOLEAN
    PROVE LET q == RunLocally(p, migrate) IN
        /\ q.event = 0 /\ ~q.command /\ q.checked = p.checked
        /\ q.commandGen = p.commandGen /\ q.telemetryGen = p.telemetryGen
        /\ q.apiMode = p.apiMode /\ q.apiKey = p.apiKey /\ q.locked = p.locked
BY DEF RunLocally, Render, UpdateCommandAvailability, Eligible, PageType

-----------------------------------------------------------------------------
(***************************************************************************)
(* Types.                                                                  *)
(***************************************************************************)

FlowType ==
    [event: Nat, generation: Nat, key: Keys \union {None},
     phase: {"authorize", "command"}, withdrawals: Nat]

LEMMA OwnerKeepsTypes == TypeOK /\ OwnerActs => TypeOK'
<1> SUFFICES ASSUME TypeOK, OwnerActs PROVE TypeOK'
  OBVIOUS
<1> USE DEF TypeOK
<1>0. MarkDirty(page) \in PageType /\ page \in PageType
  BY MarkDirtyType
<1>1. ASSUME NEW migrate \in BOOLEAN, EditForm(migrate)
      PROVE  TypeOK'
  <2>1. [MarkDirty(page) EXCEPT !.recorded = 0] \in PageType
    BY <1>0 DEF PageType
  <2> QED
    BY <1>1, <2>1, RunLocallyType DEF EditForm
<1>2. ASSUME NEW migrate \in BOOLEAN, NEW authorized \in BOOLEAN,
             ApplyScenario(authorized, migrate)
      PROVE  TypeOK'
  <2>1. [MarkDirty(page) EXCEPT !.recorded = 0, !.checked = authorized] \in PageType
    BY <1>0 DEF PageType
  <2> QED
    BY <1>2, <2>1, RunLocallyType DEF ApplyScenario
<1>3. ASSUME NEW migrate \in BOOLEAN, TickConsent(migrate)
      PROVE  TypeOK'
  <2>1. ASSUME NEW b \in BOOLEAN
        PROVE  [page EXCEPT !.recorded = 0, !.checked = b] \in PageType
    BY <1>0 DEF PageType
  <2>2. (page.event # 0) \in BOOLEAN /\ TRUE \in BOOLEAN
    OBVIOUS
  <2>3. /\ [page EXCEPT !.recorded = 0, !.checked = page.event # 0] \in PageType
        /\ [page EXCEPT !.recorded = 0, !.checked = TRUE] \in PageType
    BY <2>1, <2>2
  <2>4. page' \in PageType
    BY <1>3, <2>3, RunLocallyType, UpdateType DEF TickConsent
  <2>5. page.event \in Nat
    BY DEF PageType
  <2> QED
    BY <1>3, <2>4, <2>5 DEF TickConsent
<1>4. ASSUME NEW migrate \in BOOLEAN, WithdrawConsent(migrate)
      PROVE  TypeOK'
  <2> DEFINE p == [page EXCEPT !.recorded = 0, !.checked = FALSE]
             n == IF p.event # 0 THEN 1 ELSE 0
             m == IF page.event # 0 THEN 1 ELSE 0
  <2>1. p \in PageType /\ n \in Nat /\ m \in Nat
    BY <1>0 DEF PageType
  <2>2. [p EXCEPT !.commandGen = @ + n] \in PageType
    <3> HIDE DEF p, n
    <3> QED
      BY <2>1 DEF PageType
  <2>3. page' = IF ~page.apiMode THEN RunLocally(p, migrate)
                ELSE UpdateCommandAvailability([p EXCEPT !.commandGen = @ + n])
    BY <1>4 DEF WithdrawConsent
  <2>4. page' \in PageType
    <3> HIDE DEF p, n
    <3> QED
      BY <2>1, <2>2, <2>3, RunLocallyType, UpdateType
  <2>5. consent' = 0 /\ withdrawals' = withdrawals + m
    BY <1>4 DEF WithdrawConsent
  <2>6. consent' \in Nat /\ withdrawals' \in Nat
    <3> HIDE DEF m
    <3> QED
      BY <2>1, <2>5
  <2> QED
    BY <1>4, <2>4, <2>6 DEF WithdrawConsent
<1>5. ASSUME NEW migrate \in BOOLEAN, PressRun(migrate)
      PROVE  TypeOK'
  <2>1. CASE page.apiMode
    <3> DEFINE q == InvalidateEvent(page)
               r == [q EXCEPT !.recorded = 0, !.run = FALSE]
    <3>1. q \in PageType
      BY InvalidateEventType
    <3>2. r \in PageType
      <4> HIDE DEF q
      <4> QED
        BY <3>1 DEF PageType
    <3>3. page' = [r EXCEPT !.telemetryGen = @ + 1]
      BY <1>5, <2>1 DEF PressRun
    <3>4. page' \in PageType
      <4> HIDE DEF r
      <4> QED
        BY <3>2, <3>3 DEF PageType
    <3>5. [generation |-> page'.telemetryGen, key |-> page.apiKey] \in RequestType
      BY <3>4, <1>0 DEF PageType, RequestType
    <3> QED
      BY <1>5, <2>1, <3>4, <3>5 DEF PressRun
  <2>2. CASE ~page.apiMode
    <3>1. [page EXCEPT !.recorded = 0] \in PageType
      BY DEF PageType
    <3> QED
      BY <1>5, <2>2, <3>1, RunLocallyType DEF PressRun
  <2> QED
    BY <2>1, <2>2
<1>6. ASSUME NEW k \in Keys \union {None}, TypeKey(k)
      PROVE  TypeOK'
  <2>1. page' \in PageType
    BY <1>6 DEF TypeKey, PageType
  <2> QED
    BY <1>6, <2>1 DEF TypeKey
<1>7. CASE PressConnect
  <2> DEFINE p == [page EXCEPT !.connectionGen = @ + 1]
  <2>1. p \in PageType
    BY DEF PageType
  <2>2. [p EXCEPT !.pending = TRUE] \in PageType
    <3> HIDE DEF p
    <3> QED
      BY <2>1 DEF PageType
  <2>3. [generation |-> p.connectionGen, key |-> page.field] \in RequestType
    <3>1. p.connectionGen \in Nat /\ page.field \in Keys \union {None}
      <4> HIDE DEF p
      <4> QED
        BY <2>1 DEF PageType
    <3> QED
      BY <3>1 DEF RequestType
  <2>4. \/ page' = Disconnect(p) /\ UNCHANGED connects
        \/ /\ page' = [p EXCEPT !.pending = TRUE]
           /\ connects' = connects \union {[generation |-> p.connectionGen, key |-> page.field]}
    BY <1>7 DEF PressConnect
  <2>5. page' \in PageType /\ connects' \subseteq RequestType
    <3> HIDE DEF p
    <3> QED
      BY <2>1, <2>2, <2>3, <2>4, DisconnectType
  <2> QED
    BY <1>7, <2>5 DEF PressConnect
<1>8. CASE PressCommand
  <2>1. CASE page.apiMode /\ page.event # 0 /\ page.checked
    <3> DEFINE q == [page EXCEPT !.commandGen = @ + 1]
    <3>0. page' = [q EXCEPT !.command = FALSE] /\ q \in PageType
      BY <1>0, <1>8, <2>1 DEF PressCommand, PageType
    <3>1. page' \in PageType
      <4> HIDE DEF q
      <4> QED
        BY <3>0 DEF PageType
    <3>2. [event |-> page.event, generation |-> page'.commandGen, key |-> page.apiKey,
           phase |-> "authorize", withdrawals |-> withdrawals] \in FlowType
      BY <3>1, <1>0 DEF PageType, FlowType
    <3> QED
      BY <1>8, <2>1, <3>1, <3>2 DEF PressCommand, FlowType
  <2>2. CASE ~(page.apiMode /\ page.event # 0 /\ page.checked)
    BY <1>8, <2>2, UpdateType DEF PressCommand
  <2> QED
    BY <2>1, <2>2
<1> QED
  BY <1>1, <1>2, <1>3, <1>4, <1>5, <1>6, <1>7, <1>8 DEF OwnerActs

LEMMA FlagsKeepTypes ==
    ASSUME NEW p \in PageType
    PROVE  /\ [p EXCEPT !.run = TRUE] \in PageType
           /\ [p EXCEPT !.pending = FALSE] \in PageType
           /\ [p EXCEPT !.locked = TRUE] \in PageType
           /\ [p EXCEPT !.locked = FALSE] \in PageType
BY DEF PageType

LEMMA AnswersKeepTypes ==
    TypeOK /\ (TelemetryAnswered \/ ConnectionAnswered \/ FlowAnswered) => TypeOK'
<1> SUFFICES ASSUME TypeOK, TelemetryAnswered \/ ConnectionAnswered \/ FlowAnswered
             PROVE  TypeOK'
  OBVIOUS
<1> USE DEF TypeOK
<1>0. page \in PageType
  OBVIOUS
<1>1. ASSUME NEW t \in telemetry, NEW migrate \in BOOLEAN, TelemetryStored(t, migrate)
      PROVE  TypeOK'
  <2>1. t.generation \in Nat
    BY DEF RequestType
  <2>2. Render(page, t.generation, migrate) \in PageType
    BY <2>1, RenderType
  <2> QED
    BY <1>1, <2>2, FlagsKeepTypes DEF TelemetryStored
<1>2. ASSUME NEW t \in telemetry, NEW failure \in Failures, TelemetryFails(t, failure)
      PROVE  TypeOK'
  <2>1. InvalidateEvent(page) \in PageType /\ Disconnect(page) \in PageType
    BY InvalidateEventType, DisconnectType
  <2>2. page' \in PageType
    BY <1>2, <2>1, FlagsKeepTypes DEF TelemetryFails, Failures
  <2> QED
    BY <1>2, <2>2 DEF TelemetryFails
<1>3. ASSUME NEW c \in connects, ConnectionVerified(c)
      PROVE  TypeOK'
  <2>1. c.key \in Keys \union {None}
    BY DEF RequestType
  <2>2. [page EXCEPT !.apiMode = TRUE, !.apiKey = c.key] \in PageType
    BY <2>1 DEF PageType
  <2>3. /\ InvalidateTelemetry([page EXCEPT !.apiMode = TRUE, !.apiKey = c.key]) \in PageType
        /\ Disconnect(page) \in PageType
    BY <2>2, InvalidateTelemetryType, DisconnectType
  <2>4. page' \in PageType
    BY <1>3, <2>3, FlagsKeepTypes DEF ConnectionVerified, ConnectionDone
  <2> QED
    BY <1>3, <2>4 DEF ConnectionVerified
<1>4. ASSUME NEW c \in connects, ConnectionFails(c)
      PROVE  TypeOK'
  <2>1. page' \in PageType
    BY <1>4, DisconnectType, FlagsKeepTypes DEF ConnectionFails, ConnectionDone
  <2> QED
    BY <1>4, <2>1 DEF ConnectionFails
<1>5. ASSUME NEW f \in flows, Authorized(f)
      PROVE  TypeOK'
  <2>1. page' \in PageType
    BY <1>5, FlagsKeepTypes DEF Authorized
  <2>2. [f EXCEPT !.phase = "command"] \in FlowType
    BY DEF FlowType
  <2> QED
    BY <1>5, <2>1, <2>2 DEF Authorized, FlowType
<1>6. ASSUME NEW f \in flows, CommandRecorded(f)
      PROVE  TypeOK'
  <2>1. f.event \in Nat /\ InvalidateEvent(page) \in PageType
    BY InvalidateEventType
  <2>2. [InvalidateEvent(page) EXCEPT !.recorded = f.event] \in PageType
    BY <2>1 DEF PageType
  <2>3. page' \in PageType
    BY <1>6, <2>2, FlagsKeepTypes DEF CommandRecorded, FlowDone
  <2> QED
    BY <1>6, <2>3 DEF CommandRecorded
<1>7. ASSUME NEW f \in flows, NEW failure \in Failures, FlowFails(f, failure)
      PROVE  TypeOK'
  <2>1. AfterFailure(f, failure) \in PageType
    BY InvalidateEventType, DisconnectType, UpdateType DEF AfterFailure, Failures
  <2>2. page' \in PageType
    BY <1>7, <2>1, FlagsKeepTypes DEF FlowFails, FlowDone
  <2> QED
    BY <1>7, <2>2 DEF FlowFails
<1> QED
  BY <1>1, <1>2, <1>3, <1>4, <1>5, <1>6, <1>7
  DEF TelemetryAnswered, ConnectionAnswered, FlowAnswered

(***************************************************************************)
(* The globals and controls of the page and its requests always have the   *)
(* shape the functions of app.js expect.                                   *)
(***************************************************************************)
THEOREM PageTypeCorrect == Spec => []TypeOK
<1>1. Init => TypeOK
  BY DEF Init, TypeOK, PageType
<1>2. TypeOK /\ [Next]_vars => TypeOK'
  <2>1. TypeOK /\ UNCHANGED vars => TypeOK'
    BY DEF TypeOK, vars
  <2> QED
    BY <2>1, OwnerKeepsTypes, AnswersKeepTypes DEF Next
<1> QED
  BY <1>1, <1>2, PTL DEF Spec

-----------------------------------------------------------------------------
(***************************************************************************)
(* The inductive invariant.                                                *)
(***************************************************************************)

\* Generations count up, so requests of one kind are told apart by theirs, and the
\* event a telemetry request will name has not been shown or commanded yet.
GenerationsAreFresh ==
    /\ page.event <= page.telemetryGen
    /\ \A t \in telemetry :
          /\ t.generation \in 1..page.telemetryGen
          /\ t.generation # page.event
          /\ \A f \in flows : t.generation # f.event
          /\ \A u \in telemetry : t.generation = u.generation => t = u
    /\ \A f \in flows :
          /\ f.generation \in 1..page.commandGen
          /\ f.event \in 1..page.telemetryGen
          /\ \A g \in flows : f.generation = g.generation => f = g

\* What is current belongs to the open session, and while a telemetry request is
\* current there is no event and no tick.
CurrentIsOfTheSession ==
    /\ page.event # 0 => page.apiMode
    /\ \A t \in telemetry : t.generation = page.telemetryGen =>
          page.apiMode /\ t.key = page.apiKey /\ page.event = 0 /\ ~page.checked
    /\ \A f \in flows : f.event = page.event => f.key = page.apiKey

\* A flow that may continue has the consent it was started with, and no other can
\* be started.
FlowsHoldConsent ==
    \A f \in flows : f.generation = page.commandGen /\ f.event = page.event =>
        page.checked /\ ~page.command /\ f.withdrawals = withdrawals

\* Beside the command of a former event there is no consent.
NoConsentBesideFormerCommand ==
    \A f \in flows :
        f.phase = "command" /\ page.event # 0 /\ page.event # f.event => ~page.checked

ConsoleInv ==
    /\ TypeOK
    /\ GenerationsAreFresh
    /\ CurrentIsOfTheSession
    /\ FlowsHoldConsent
    /\ ConsentIsForTheShownEvent
    /\ NoConsentBesideFormerCommand
    /\ LockCoversCommand

-----------------------------------------------------------------------------
(***************************************************************************)
(* Most steps either drop the event or leave alone what the flows depend   *)
(* on.                                                                     *)
(***************************************************************************)

LockFollows == page.locked <=> \E f \in flows : f.phase = "command"

LEMMA EventDropped ==
    ASSUME ConsoleInv, TypeOK',
           page'.event = 0,
           page.telemetryGen <= page'.telemetryGen, page.commandGen <= page'.commandGen,
           telemetry' \subseteq telemetry, flows' \subseteq flows,
           \A t \in telemetry' : t.generation = page'.telemetryGen =>
               /\ t.generation = page.telemetryGen /\ page'.apiMode = page.apiMode
               /\ page'.apiKey = page.apiKey /\ ~page'.checked,
           LockFollows'
    PROVE  ConsoleInv'
<1>0. /\ page \in PageType /\ page' \in PageType
      /\ telemetry \subseteq RequestType /\ flows \subseteq FlowType
  BY DEF ConsoleInv, TypeOK, FlowType
<1>1. GenerationsAreFresh'
  BY <1>0 DEF ConsoleInv, GenerationsAreFresh, PageType, RequestType, FlowType
<1>2. \A f \in flows' : f.event # page'.event
  BY <1>0 DEF ConsoleInv, GenerationsAreFresh, FlowType
<1>3. CurrentIsOfTheSession'
  BY <1>2 DEF ConsoleInv, CurrentIsOfTheSession
<1>4. FlowsHoldConsent' /\ ConsentIsForTheShownEvent' /\ NoConsentBesideFormerCommand'
  BY <1>2 DEF FlowsHoldConsent, ConsentIsForTheShownEvent, NoConsentBesideFormerCommand
<1>5. LockCoversCommand'
  BY <1>2 DEF ConsoleInv, LockCoversCommand, LockFollows
<1> QED
  BY <1>1, <1>3, <1>4, <1>5 DEF ConsoleInv

LEMMA EventKept ==
    ASSUME ConsoleInv, TypeOK',
           page'.event = page.event, page'.checked = page.checked,
           page'.apiMode = page.apiMode, page'.apiKey = page.apiKey,
           page'.telemetryGen = page.telemetryGen, page'.commandGen = page.commandGen,
           UNCHANGED <<consent, withdrawals>>,
           telemetry' \subseteq telemetry, flows' \subseteq flows,
           page'.command =>
               \/ page.command
               \/ \A f \in flows' : f.generation # page.commandGen \/ f.event # page.event,
           LockFollows'
    PROVE  ConsoleInv'
<1>1. GenerationsAreFresh'
  BY DEF ConsoleInv, GenerationsAreFresh
<1>2. CurrentIsOfTheSession'
  BY DEF ConsoleInv, CurrentIsOfTheSession
<1>3. FlowsHoldConsent'
  BY DEF ConsoleInv, FlowsHoldConsent
<1>4. ConsentIsForTheShownEvent' /\ NoConsentBesideFormerCommand'
  BY DEF ConsoleInv, ConsentIsForTheShownEvent, NoConsentBesideFormerCommand
<1>5. LockCoversCommand'
  BY DEF ConsoleInv, LockCoversCommand, LockFollows
<1> QED
  BY <1>1, <1>2, <1>3, <1>4, <1>5 DEF ConsoleInv

LEMMA LockStays ==
    ASSUME ConsoleInv, page'.locked = page.locked, UNCHANGED flows
    PROVE  LockFollows'
BY DEF ConsoleInv, LockCoversCommand, LockFollows

LEMMA LockAfterFlow ==
    ASSUME ConsoleInv, NEW f \in flows, flows' = flows \ {f},
           page'.locked = IF f.phase = "command" THEN FALSE ELSE page.locked
    PROVE  LockFollows'
BY DEF ConsoleInv, LockCoversCommand, LockFollows

LEMMA NoneCurrentOutside ==
    ASSUME ConsoleInv, ~page.apiMode
    PROVE  \A t \in telemetry : t.generation # page.telemetryGen
BY DEF ConsoleInv, CurrentIsOfTheSession

LEMMA NoneAhead ==
    ASSUME ConsoleInv
    PROVE  \A t \in telemetry : t.generation # page.telemetryGen + 1
BY DEF ConsoleInv, GenerationsAreFresh, TypeOK, PageType

-----------------------------------------------------------------------------
(***************************************************************************)
(* The steps.                                                              *)
(***************************************************************************)

\* The form was edited, in a page p that lost its event when it had a session.
LEMMA DirtyFields ==
    ASSUME page \in PageType, NEW p \in PageType,
           \E q \in PageType :
              /\ q = MarkDirty(page)
              /\ p.apiMode = q.apiMode /\ p.apiKey = q.apiKey /\ p.locked = q.locked
              /\ p.telemetryGen = q.telemetryGen /\ p.commandGen = q.commandGen
    PROVE  /\ p.apiMode = page.apiMode /\ p.apiKey = page.apiKey
           /\ p.locked = page.locked
           /\ page.telemetryGen <= p.telemetryGen /\ page.commandGen <= p.commandGen
           /\ page.apiMode => p.telemetryGen = page.telemetryGen + 1
BY MarkDirtyFields, InvalidateTelemetryFields DEF PageType

LEMMA EditKeepsInv ==
    ASSUME ConsoleInv, TypeOK', NEW migrate \in BOOLEAN,
           \/ EditForm(migrate)
           \/ \E authorized \in BOOLEAN : ApplyScenario(authorized, migrate)
    PROVE  ConsoleInv'
<1>0. page \in PageType /\ page' \in PageType
  BY DEF ConsoleInv, TypeOK
<1> DEFINE q == MarkDirty(page)
<1>1. q \in PageType
  BY <1>0, MarkDirtyType
<1>2. PICK p \in PageType :
         /\ page' = RunLocally(p, migrate)
         /\ p.apiMode = q.apiMode /\ p.apiKey = q.apiKey /\ p.locked = q.locked
         /\ p.telemetryGen = q.telemetryGen /\ p.commandGen = q.commandGen
  <2>1. CASE EditForm(migrate)
    <3> DEFINE r == [q EXCEPT !.recorded = 0]
    <3>1. page' = RunLocally(r, migrate)
      BY <2>1 DEF EditForm
    <3>2. r \in PageType
          /\ r.apiMode = q.apiMode /\ r.apiKey = q.apiKey /\ r.locked = q.locked
          /\ r.telemetryGen = q.telemetryGen /\ r.commandGen = q.commandGen
      <4> HIDE DEF q
      <4> QED
        BY <1>1 DEF PageType
    <3> QED
      BY <3>1, <3>2
  <2>2. ASSUME NEW authorized \in BOOLEAN, ApplyScenario(authorized, migrate)
        PROVE  \E p \in PageType :
                  /\ page' = RunLocally(p, migrate)
                  /\ p.apiMode = q.apiMode /\ p.apiKey = q.apiKey /\ p.locked = q.locked
                  /\ p.telemetryGen = q.telemetryGen /\ p.commandGen = q.commandGen
    <3> DEFINE r == [q EXCEPT !.recorded = 0, !.checked = authorized]
    <3>1. page' = RunLocally(r, migrate)
      BY <2>2 DEF ApplyScenario
    <3>2. r \in PageType
          /\ r.apiMode = q.apiMode /\ r.apiKey = q.apiKey /\ r.locked = q.locked
          /\ r.telemetryGen = q.telemetryGen /\ r.commandGen = q.commandGen
      <4> HIDE DEF q
      <4> QED
        BY <1>1 DEF PageType
    <3> QED
      BY <3>1, <3>2
  <2> QED
    BY <2>1, <2>2
<1>3. /\ page'.event = 0
      /\ page'.apiMode = page.apiMode /\ page'.apiKey = page.apiKey
      /\ page'.locked = page.locked
      /\ page.telemetryGen <= page'.telemetryGen /\ page.commandGen <= page'.commandGen
      /\ page.apiMode => page'.telemetryGen = page.telemetryGen + 1
      /\ ~page.apiMode => page'.telemetryGen = page.telemetryGen
  BY <1>0, <1>1, <1>2, DirtyFields, MarkDirtyFields, RunLocallyFields
<1>4. UNCHANGED <<telemetry, flows>>
  BY DEF EditForm, ApplyScenario
<1>5. \A t \in telemetry' : t.generation # page'.telemetryGen
  BY <1>3, <1>4, NoneCurrentOutside, NoneAhead
<1>6. LockFollows'
  BY <1>3, <1>4, LockStays
<1> QED
  BY <1>3, <1>4, <1>5, <1>6, EventDropped

LEMMA TickKeepsInv ==
    ASSUME ConsoleInv, TypeOK', NEW migrate \in BOOLEAN, TickConsent(migrate)
    PROVE  ConsoleInv'
<1>0. /\ page \in PageType /\ page' \in PageType
      /\ ~page.locked /\ ~page.checked /\ consent' = page.event
      /\ UNCHANGED <<telemetry, flows, withdrawals>>
  BY DEF ConsoleInv, TypeOK, TickConsent
<1>1. CASE page.apiMode
  <2> DEFINE b == page.event # 0
             q == [page EXCEPT !.recorded = 0, !.checked = b]
  <2>1. page' = UpdateCommandAvailability(q)
    BY <1>1 DEF TickConsent
  <2>2. b \in BOOLEAN
    OBVIOUS
  <2>3. /\ q \in PageType /\ q.checked = b
        /\ q.event = page.event /\ q.apiMode = page.apiMode /\ q.apiKey = page.apiKey
        /\ q.locked = page.locked
        /\ q.telemetryGen = page.telemetryGen /\ q.commandGen = page.commandGen
    <3> HIDE DEF b
    <3> QED
      BY <1>0, <2>2 DEF PageType
  <2>4. /\ page'.checked = b
        /\ page'.event = page.event /\ page'.apiMode = page.apiMode
        /\ page'.apiKey = page.apiKey /\ page'.locked = page.locked
        /\ page'.telemetryGen = page.telemetryGen /\ page'.commandGen = page.commandGen
    <3> HIDE DEF b, q
    <3> QED
      BY <2>1, <2>3, UpdateFields
  <2>5. GenerationsAreFresh'
    BY <1>0, <2>4 DEF ConsoleInv, GenerationsAreFresh
  <2>6. CurrentIsOfTheSession'
    BY <1>0, <2>4 DEF ConsoleInv, CurrentIsOfTheSession
  <2>7. FlowsHoldConsent'
    BY <1>0, <2>4 DEF ConsoleInv, FlowsHoldConsent
  <2>8. ConsentIsForTheShownEvent'
    BY <1>0, <2>4 DEF ConsentIsForTheShownEvent
  <2>9. NoConsentBesideFormerCommand' /\ LockCoversCommand'
    BY <1>0, <2>4 DEF ConsoleInv, NoConsentBesideFormerCommand, LockCoversCommand
  <2> QED
    BY <2>5, <2>6, <2>7, <2>8, <2>9 DEF ConsoleInv
<1>2. CASE ~page.apiMode
  <2> DEFINE q == [page EXCEPT !.recorded = 0, !.checked = TRUE]
  <2>1. page' = RunLocally(q, migrate)
    BY <1>2 DEF TickConsent
  <2>2. /\ q \in PageType
        /\ q.apiMode = page.apiMode /\ q.apiKey = page.apiKey /\ q.locked = page.locked
        /\ q.telemetryGen = page.telemetryGen /\ q.commandGen = page.commandGen
    BY <1>0 DEF PageType
  <2>3. /\ page'.event = 0 /\ page'.locked = page.locked
        /\ page'.telemetryGen = page.telemetryGen /\ page'.commandGen = page.commandGen
    <3> HIDE DEF q
    <3> QED
      BY <2>1, <2>2, RunLocallyFields
  <2>4. page.telemetryGen <= page'.telemetryGen /\ page.commandGen <= page'.commandGen
    BY <1>0, <2>3 DEF PageType
  <2> QED
    BY <1>0, <1>2, <2>3, <2>4, NoneCurrentOutside, LockStays, EventDropped
<1> QED
  BY <1>1, <1>2

LEMMA WithdrawKeepsInv ==
    ASSUME ConsoleInv, TypeOK', NEW migrate \in BOOLEAN, WithdrawConsent(migrate)
    PROVE  ConsoleInv'
<1> DEFINE p == [page EXCEPT !.recorded = 0, !.checked = FALSE]
<1>0. /\ page \in PageType /\ page' \in PageType
      /\ ~page.locked /\ page.checked
      /\ UNCHANGED <<telemetry, flows>>
  BY DEF ConsoleInv, TypeOK, WithdrawConsent
<1>1. /\ p \in PageType /\ ~p.checked /\ p.event = page.event
      /\ p.apiMode = page.apiMode /\ p.apiKey = page.apiKey /\ p.locked = page.locked
      /\ p.telemetryGen = page.telemetryGen /\ p.commandGen = page.commandGen
  BY <1>0 DEF PageType
<1>2. CASE page.apiMode
  <2>1. PICK n \in Nat : n = IF page.event # 0 THEN 1 ELSE 0
    OBVIOUS
  <2> DEFINE q == [p EXCEPT !.commandGen = @ + n]
  <2>2. page' = UpdateCommandAvailability(q)
    BY <1>1, <1>2, <2>1 DEF WithdrawConsent
  <2>3. /\ q \in PageType /\ ~q.checked /\ q.event = page.event
        /\ q.apiMode = page.apiMode /\ q.apiKey = page.apiKey /\ q.locked = page.locked
        /\ q.telemetryGen = page.telemetryGen /\ q.commandGen = page.commandGen + n
    <3> HIDE DEF p
    <3> QED
      BY <1>1 DEF PageType
  <2>4. /\ ~page'.checked /\ page'.event = page.event
        /\ page'.apiMode = page.apiMode /\ page'.apiKey = page.apiKey
        /\ page'.locked = page.locked
        /\ page'.telemetryGen = page.telemetryGen /\ page'.commandGen = page.commandGen + n
    <3> HIDE DEF q
    <3> QED
      BY <2>2, <2>3, UpdateFields
  <2>5. page.commandGen \in Nat /\ page.event \in Nat
    BY <1>0 DEF PageType
  <2>6. GenerationsAreFresh'
    BY <1>0, <2>4, <2>5 DEF ConsoleInv, TypeOK, GenerationsAreFresh
  <2>7. CurrentIsOfTheSession'
    BY <1>0, <2>4 DEF ConsoleInv, CurrentIsOfTheSession
  <2>8. FlowsHoldConsent'
    \* The generation moves on exactly when a flow could have been for the event.
    <3>1. ASSUME NEW f \in flows PROVE f.generation # page'.commandGen \/ f.event # page.event
      BY <1>0, <2>1, <2>4, <2>5, <3>1 DEF ConsoleInv, GenerationsAreFresh
    <3> QED
      BY <1>0, <2>4, <3>1 DEF FlowsHoldConsent
  <2>9. ConsentIsForTheShownEvent' /\ NoConsentBesideFormerCommand'
    BY <2>4 DEF ConsentIsForTheShownEvent, NoConsentBesideFormerCommand
  <2>10. LockCoversCommand'
    BY <1>0, <2>4 DEF ConsoleInv, LockCoversCommand
  <2> QED
    BY <2>6, <2>7, <2>8, <2>9, <2>10 DEF ConsoleInv
<1>3. CASE ~page.apiMode
  <2>1. page' = RunLocally(p, migrate)
    BY <1>3 DEF WithdrawConsent
  <2>2. /\ page'.event = 0 /\ page'.locked = page.locked
        /\ page'.telemetryGen = page.telemetryGen /\ page'.commandGen = page.commandGen
    <3> HIDE DEF p
    <3> QED
      BY <2>1, <1>1, RunLocallyFields
  <2>3. page.telemetryGen <= page'.telemetryGen /\ page.commandGen <= page'.commandGen
    BY <1>0, <2>2 DEF PageType
  <2> QED
    BY <1>0, <1>3, <2>2, <2>3, NoneCurrentOutside, LockStays, EventDropped
<1> QED
  BY <1>2, <1>3

\* A new request is current, in the session of its key.
LEMMA RunKeepsInv ==
    ASSUME ConsoleInv, TypeOK', NEW migrate \in BOOLEAN, PressRun(migrate)
    PROVE  ConsoleInv'
<1>0. page \in PageType /\ page' \in PageType /\ UNCHANGED flows
  BY DEF ConsoleInv, TypeOK, PressRun
<1>1. CASE page.apiMode
  <2> DEFINE q == InvalidateEvent(page)
  <2>1. page' = [q EXCEPT !.recorded = 0, !.run = FALSE, !.telemetryGen = @ + 1]
    BY <1>1 DEF PressRun
  <2>2. q \in PageType
    BY <1>0, InvalidateEventType
  <2>3. /\ page'.event = q.event /\ page'.checked = q.checked
        /\ page'.apiMode = q.apiMode /\ page'.apiKey = q.apiKey /\ page'.locked = q.locked
        /\ page'.telemetryGen = q.telemetryGen + 1 /\ page'.commandGen = q.commandGen
    <3> HIDE DEF q
    <3> QED
      BY <2>1, <2>2 DEF PageType
  <2>4. /\ page'.event = 0 /\ ~page'.checked
        /\ page'.apiMode /\ page'.apiKey = page.apiKey /\ page'.locked = page.locked
        /\ page'.telemetryGen = page.telemetryGen + 1
        /\ page'.commandGen = page.commandGen + 1
    BY <1>0, <1>1, <2>3, InvalidateEventFields
  <2>5. PICK new \in RequestType :
           /\ new.generation = page'.telemetryGen /\ new.key = page.apiKey
           /\ telemetry' = telemetry \union {new}
    <3>1. [generation |-> page'.telemetryGen, key |-> page.apiKey] \in RequestType
      BY <1>0 DEF PageType, RequestType
    <3> QED
      BY <1>1, <3>1 DEF PressRun
  <2>6. page.telemetryGen \in Nat /\ page.commandGen \in Nat
    BY <1>0 DEF PageType
  <2>7. GenerationsAreFresh'
    <3>1. \A f \in flows : f.event # page.telemetryGen + 1
      BY <2>6 DEF ConsoleInv, GenerationsAreFresh
    <3>2. /\ \A t \in telemetry : t.generation \in 1..page.telemetryGen
          /\ \A t \in telemetry : t.generation # page.telemetryGen + 1 /\ t.generation # 0
          /\ \A f \in flows : f.generation \in 1..page.commandGen
          /\ \A f \in flows : f.event \in 1..page.telemetryGen
      BY <2>6 DEF ConsoleInv, GenerationsAreFresh
    <3>3. page'.event <= page'.telemetryGen
      BY <2>4, <2>6
    <3>4. ASSUME NEW t \in telemetry'
          PROVE  /\ t.generation \in 1..page'.telemetryGen
                 /\ t.generation # page'.event
                 /\ \A f \in flows' : t.generation # f.event
                 /\ \A u \in telemetry' : t.generation = u.generation => t = u
      BY <1>0, <2>4, <2>5, <2>6, <3>1, <3>2 DEF ConsoleInv, GenerationsAreFresh
    <3>5. ASSUME NEW f \in flows'
          PROVE  /\ f.generation \in 1..page'.commandGen
                 /\ f.event \in 1..page'.telemetryGen
                 /\ \A g \in flows' : f.generation = g.generation => f = g
      BY <1>0, <2>4, <2>6, <3>2 DEF ConsoleInv, GenerationsAreFresh
    <3> QED
      BY <3>3, <3>4, <3>5 DEF GenerationsAreFresh
  <2>8. \A f \in flows' : f.event # page'.event
    BY <1>0, <2>4 DEF ConsoleInv, GenerationsAreFresh
  <2>9. CurrentIsOfTheSession'
    BY <2>4, <2>5, <2>8, NoneAhead DEF CurrentIsOfTheSession
  <2>10. FlowsHoldConsent' /\ ConsentIsForTheShownEvent' /\ NoConsentBesideFormerCommand'
    BY <2>4, <2>8
    DEF FlowsHoldConsent, ConsentIsForTheShownEvent, NoConsentBesideFormerCommand
  <2>11. LockCoversCommand'
    BY <1>0, <2>4, <2>8 DEF ConsoleInv, LockCoversCommand
  <2> QED
    BY <2>7, <2>9, <2>10, <2>11 DEF ConsoleInv
<1>2. CASE ~page.apiMode
  <2> DEFINE p == [page EXCEPT !.recorded = 0]
  <2>1. page' = RunLocally(p, migrate) /\ UNCHANGED telemetry
    BY <1>2 DEF PressRun
  <2>2. /\ p \in PageType /\ p.locked = page.locked
        /\ p.telemetryGen = page.telemetryGen /\ p.commandGen = page.commandGen
    BY <1>0 DEF PageType
  <2>3. /\ page'.event = 0 /\ page'.locked = page.locked
        /\ page'.telemetryGen = page.telemetryGen /\ page'.commandGen = page.commandGen
    <3> HIDE DEF p
    <3> QED
      BY <2>1, <2>2, RunLocallyFields
  <2>4. page.telemetryGen <= page'.telemetryGen /\ page.commandGen <= page'.commandGen
    BY <1>0, <2>3 DEF PageType
  <2> QED
    BY <1>0, <1>2, <2>1, <2>3, <2>4, NoneCurrentOutside, LockStays, EventDropped
<1> QED
  BY <1>1, <1>2

\* The session ends: nothing is current any more.
LEMMA DisconnectKeepsInv ==
    ASSUME ConsoleInv, TypeOK', NEW p \in PageType,
           p.locked = page.locked, p.telemetryGen = page.telemetryGen,
           p.commandGen = page.commandGen,
           page' = Disconnect(p) \/ page' = [Disconnect(p) EXCEPT !.pending = FALSE],
           telemetry' \subseteq telemetry, UNCHANGED flows
    PROVE  ConsoleInv'
<1>1. page \in PageType /\ Disconnect(p) \in PageType
  BY DisconnectType DEF ConsoleInv, TypeOK
<1>2. /\ page'.event = Disconnect(p).event /\ page'.locked = Disconnect(p).locked
      /\ page'.telemetryGen = Disconnect(p).telemetryGen
      /\ page'.commandGen = Disconnect(p).commandGen
  BY <1>1 DEF PageType
<1>3. /\ page'.event = 0 /\ page'.locked = page.locked
      /\ page'.telemetryGen = page.telemetryGen + 1
      /\ page'.commandGen = page.commandGen + 1
  BY <1>2, DisconnectFields
<1>4. page.telemetryGen <= page'.telemetryGen /\ page.commandGen <= page'.commandGen
  BY <1>1, <1>3 DEF PageType
<1> QED
  BY <1>3, <1>4, NoneAhead, LockStays, EventDropped

LEMMA ConnectKeepsInv == ASSUME ConsoleInv, TypeOK', PressConnect PROVE ConsoleInv'
<1> DEFINE p == [page EXCEPT !.connectionGen = @ + 1]
<1>0. page \in PageType /\ UNCHANGED <<telemetry, flows, consent, withdrawals>>
  BY DEF ConsoleInv, TypeOK, PressConnect
<1>1. /\ p \in PageType /\ p.locked = page.locked /\ p.telemetryGen = page.telemetryGen
      /\ p.commandGen = page.commandGen /\ p.event = page.event
      /\ p.checked = page.checked /\ p.apiMode = page.apiMode /\ p.apiKey = page.apiKey
      /\ p.command = page.command
  BY <1>0 DEF PageType
<1>2. CASE page' = Disconnect(p)
  BY <1>0, <1>1, <1>2, DisconnectKeepsInv
<1>3. CASE page' = [p EXCEPT !.pending = TRUE]
  <2>1. /\ page'.locked = page.locked /\ page'.telemetryGen = page.telemetryGen
        /\ page'.commandGen = page.commandGen /\ page'.event = page.event
        /\ page'.checked = page.checked /\ page'.apiMode = page.apiMode
        /\ page'.apiKey = page.apiKey /\ page'.command = page.command
    <3> HIDE DEF p
    <3> QED
      BY <1>1, <1>3 DEF PageType
  <2> QED
    BY <1>0, <2>1, LockStays, EventKept
<1> QED
  BY <1>2, <1>3 DEF PressConnect

LEMMA TypeKeyKeepsInv ==
    ASSUME ConsoleInv, TypeOK', NEW k \in Keys \union {None}, TypeKey(k)
    PROVE  ConsoleInv'
<1>1. page \in PageType /\ page' = [page EXCEPT !.field = k]
      /\ UNCHANGED <<telemetry, flows, consent, withdrawals>>
  BY DEF ConsoleInv, TypeOK, TypeKey
<1>2. /\ page'.locked = page.locked /\ page'.telemetryGen = page.telemetryGen
      /\ page'.commandGen = page.commandGen /\ page'.event = page.event
      /\ page'.checked = page.checked /\ page'.apiMode = page.apiMode
      /\ page'.apiKey = page.apiKey /\ page'.command = page.command
  BY <1>1 DEF PageType
<1> QED
  BY <1>1, <1>2, LockStays, EventKept

\* A new flow has the only generation that may continue.
LEMMA CommandKeepsInv == ASSUME ConsoleInv, TypeOK', PressCommand PROVE ConsoleInv'
<1>0. /\ page \in PageType /\ page' \in PageType /\ page.command
      /\ UNCHANGED <<telemetry, connects, consent, withdrawals>>
  BY DEF ConsoleInv, TypeOK, PressCommand
<1>1. CASE page.apiMode /\ page.event # 0 /\ page.checked
  <2>1. page' = [page EXCEPT !.commandGen = @ + 1, !.command = FALSE]
    BY <1>1 DEF PressCommand
  <2>2. /\ ~page'.command /\ page'.commandGen = page.commandGen + 1
        /\ page'.locked = page.locked /\ page'.telemetryGen = page.telemetryGen
        /\ page'.event = page.event /\ page'.checked = page.checked
        /\ page'.apiMode = page.apiMode /\ page'.apiKey = page.apiKey
    BY <1>0, <2>1 DEF PageType
  <2>3. PICK new \in FlowType :
           /\ new.event = page.event /\ new.generation = page'.commandGen
           /\ new.key = page.apiKey /\ new.phase = "authorize"
           /\ new.withdrawals = withdrawals
           /\ flows' = flows \union {new}
    <3> DEFINE new == [event |-> page.event, generation |-> page'.commandGen,
                       key |-> page.apiKey, phase |-> "authorize",
                       withdrawals |-> withdrawals]
    <3>1. /\ page.event \in Nat /\ page'.commandGen \in Nat
          /\ page.apiKey \in Keys \union {None} /\ withdrawals \in Nat
      BY <1>0 DEF ConsoleInv, TypeOK, PageType
    <3>2. new \in FlowType
      BY <3>1 DEF FlowType
    <3>3. flows' = flows \union {new}
      BY <1>1 DEF PressCommand
    <3> QED
      BY <3>2, <3>3
  <2>4. page.event \in Nat /\ page.commandGen \in Nat /\ page.telemetryGen \in Nat
    BY <1>0 DEF PageType
  <2>5. \A f \in flows : f.generation \in 1..page.commandGen
    BY DEF ConsoleInv, GenerationsAreFresh
  <2>6. GenerationsAreFresh'
    BY <1>0, <1>1, <2>2, <2>3, <2>4, <2>5 DEF ConsoleInv, GenerationsAreFresh
  <2>7. CurrentIsOfTheSession'
    BY <1>0, <1>1, <2>2, <2>3 DEF ConsoleInv, CurrentIsOfTheSession
  <2>8. FlowsHoldConsent'
    BY <1>0, <1>1, <2>2, <2>3, <2>4, <2>5 DEF ConsoleInv, FlowsHoldConsent
  <2>9. ConsentIsForTheShownEvent' /\ NoConsentBesideFormerCommand'
    BY <1>0, <2>2, <2>3
    DEF ConsoleInv, ConsentIsForTheShownEvent, NoConsentBesideFormerCommand
  <2>10. LockCoversCommand'
    \* No command of this event is under way: the button would be off.
    <3>1. \A f \in flows : f.phase = "command" => f.event # page.event
      BY <1>0 DEF ConsoleInv, LockCoversCommand, FlowsHoldConsent
    <3>2. {f \in flows' : f.phase = "command"} = {f \in flows : f.phase = "command"}
      BY <2>3
    <3> QED
      BY <2>2, <3>1, <3>2 DEF ConsoleInv, LockCoversCommand
  <2> QED
    BY <2>6, <2>7, <2>8, <2>9, <2>10 DEF ConsoleInv
<1>2. CASE ~(page.apiMode /\ page.event # 0 /\ page.checked)
  <2>1. page' = UpdateCommandAvailability(page) /\ UNCHANGED flows
    BY <1>2 DEF PressCommand
  <2>2. /\ page'.locked = page.locked /\ page'.telemetryGen = page.telemetryGen
        /\ page'.commandGen = page.commandGen /\ page'.event = page.event
        /\ page'.checked = page.checked /\ page'.apiMode = page.apiMode
        /\ page'.apiKey = page.apiKey
    BY <1>0, <2>1, UpdateFields
  <2> QED
    BY <1>0, <2>1, <2>2, LockStays, EventKept
<1> QED
  BY <1>1, <1>2

\* The fields that EventKept compares.
SamePage(p) ==
    /\ p.locked = page.locked /\ p.telemetryGen = page.telemetryGen
    /\ p.commandGen = page.commandGen /\ p.event = page.event
    /\ p.checked = page.checked /\ p.apiMode = page.apiMode
    /\ p.apiKey = page.apiKey /\ p.command = page.command

LEMMA FlagsKeepPage ==
    ASSUME page \in PageType
    PROVE  /\ SamePage(page)
           /\ SamePage([page EXCEPT !.run = TRUE])
           /\ SamePage([page EXCEPT !.pending = FALSE])
BY DEF SamePage, PageType

LEMMA AnswerKeepsPage ==
    ASSUME ConsoleInv, TypeOK', SamePage(page'), telemetry' \subseteq telemetry,
           UNCHANGED <<flows, consent, withdrawals>>
    PROVE  ConsoleInv'
BY LockStays, EventKept DEF SamePage

\* The new event finds no tick.
LEMMA StoredKeepsInv ==
    ASSUME ConsoleInv, TypeOK', NEW t \in telemetry, NEW migrate \in BOOLEAN,
           TelemetryStored(t, migrate)
    PROVE  ConsoleInv'
<1>0. /\ page \in PageType /\ page' \in PageType /\ t.generation \in Nat
      /\ telemetry' = telemetry \ {t}
      /\ UNCHANGED <<flows, consent, withdrawals>>
  BY DEF ConsoleInv, TypeOK, RequestType, TelemetryStored
<1>1. CASE TelemetryCurrent(t)
  <2> DEFINE q == [page EXCEPT !.event = t.generation, !.migrate = migrate]
             r == Render(page, t.generation, migrate)
  <2>1. /\ q \in PageType /\ q.event = t.generation /\ q.checked = page.checked
        /\ q.apiMode = page.apiMode /\ q.apiKey = page.apiKey /\ q.locked = page.locked
        /\ q.telemetryGen = page.telemetryGen /\ q.commandGen = page.commandGen
    BY <1>0 DEF PageType
  <2>2. r = UpdateCommandAvailability(q) /\ page' = [r EXCEPT !.run = TRUE]
    BY <1>1 DEF Render, TelemetryStored
  <2>3. r \in PageType
    BY <1>0, RenderType
  <2>4. /\ page'.event = r.event /\ page'.checked = r.checked
        /\ page'.apiMode = r.apiMode /\ page'.apiKey = r.apiKey /\ page'.locked = r.locked
        /\ page'.telemetryGen = r.telemetryGen /\ page'.commandGen = r.commandGen
    <3> HIDE DEF r
    <3> QED
      BY <2>2, <2>3 DEF PageType
  <2>5. /\ page'.event = t.generation /\ page'.checked = page.checked
        /\ page'.apiMode = page.apiMode /\ page'.apiKey = page.apiKey
        /\ page'.locked = page.locked
        /\ page'.telemetryGen = page.telemetryGen /\ page'.commandGen = page.commandGen
    <3> HIDE DEF q, r
    <3> QED
      BY <2>1, <2>2, <2>4, UpdateFields
  <2>6. page.apiMode /\ ~page.checked
    BY <1>1 DEF ConsoleInv, CurrentIsOfTheSession, TelemetryCurrent
  <2>7. /\ \A f \in flows : f.event # t.generation
        /\ \A u \in telemetry \ {t} : u.generation # t.generation
        /\ t.generation = page.telemetryGen
    BY <1>1 DEF ConsoleInv, GenerationsAreFresh, TelemetryCurrent
  <2>8. GenerationsAreFresh'
    BY <1>0, <2>5, <2>7 DEF ConsoleInv, GenerationsAreFresh
  <2>9. CurrentIsOfTheSession' /\ FlowsHoldConsent'
    BY <1>0, <2>5, <2>6, <2>7 DEF CurrentIsOfTheSession, FlowsHoldConsent
  <2>10. ConsentIsForTheShownEvent' /\ NoConsentBesideFormerCommand'
    BY <2>5, <2>6 DEF ConsentIsForTheShownEvent, NoConsentBesideFormerCommand
  <2>11. LockCoversCommand'
    BY <1>0, <2>5, <2>7 DEF ConsoleInv, LockCoversCommand
  <2> QED
    BY <2>8, <2>9, <2>10, <2>11 DEF ConsoleInv
<1>2. CASE ~TelemetryCurrent(t)
  <2>1. page' = page
    BY <1>2 DEF TelemetryStored
  <2> QED
    BY <1>0, <2>1, FlagsKeepPage, AnswerKeepsPage
<1> QED
  BY <1>1, <1>2

LEMMA TelemetryFailureKeepsInv ==
    ASSUME ConsoleInv, TypeOK', NEW t \in telemetry, NEW failure \in Failures,
           TelemetryFails(t, failure)
    PROVE  ConsoleInv'
<1>0. /\ page \in PageType /\ page' \in PageType
      /\ telemetry' = telemetry \ {t}
      /\ UNCHANGED <<flows, consent, withdrawals>>
  BY DEF ConsoleInv, TypeOK, TelemetryFails
<1>1. CASE ~TelemetryCurrent(t)
  <2>1. page' = page
    BY <1>1 DEF TelemetryFails
  <2> QED
    BY <1>0, <2>1, FlagsKeepPage, AnswerKeepsPage
<1>2. CASE TelemetryCurrent(t) /\ failure = "session"
  <2>1. page' = Disconnect(page)
    BY <1>2 DEF TelemetryFails
  <2> QED
    BY <1>0, <2>1, DisconnectKeepsInv
<1>3. CASE TelemetryCurrent(t) /\ failure = "event"
  <2> DEFINE q == InvalidateEvent(page)
  <2>1. page' = [q EXCEPT !.run = TRUE] /\ q \in PageType
    BY <1>0, <1>3, InvalidateEventType DEF TelemetryFails
  <2>2. /\ page'.event = q.event /\ page'.locked = q.locked
        /\ page'.telemetryGen = q.telemetryGen /\ page'.commandGen = q.commandGen
    <3> HIDE DEF q
    <3> QED
      BY <2>1 DEF PageType
  <2>3. /\ page'.event = 0 /\ page'.locked = page.locked
        /\ page'.telemetryGen = page.telemetryGen
        /\ page'.commandGen = page.commandGen + 1
    BY <1>0, <2>2, InvalidateEventFields
  <2>4. page.telemetryGen <= page'.telemetryGen /\ page.commandGen <= page'.commandGen
    BY <1>0, <2>3 DEF PageType
  <2>5. \A u \in telemetry' : u.generation # page'.telemetryGen
    BY <1>0, <1>3, <2>3 DEF ConsoleInv, GenerationsAreFresh, TelemetryCurrent
  <2> QED
    BY <1>0, <2>3, <2>4, <2>5, LockStays, EventDropped
<1>4. CASE TelemetryCurrent(t) /\ failure = "other"
  <2>1. page' = [page EXCEPT !.run = TRUE]
    BY <1>4 DEF TelemetryFails
  <2> QED
    BY <1>0, <2>1, FlagsKeepPage, AnswerKeepsPage
<1> QED
  BY <1>1, <1>2, <1>3, <1>4 DEF Failures

LEMMA VerifiedKeepsInv ==
    ASSUME ConsoleInv, TypeOK', NEW c \in connects, ConnectionVerified(c)
    PROVE  ConsoleInv'
<1>0. /\ page \in PageType /\ c.key \in Keys \union {None}
      /\ UNCHANGED <<telemetry, flows, consent, withdrawals>>
  BY DEF ConsoleInv, TypeOK, RequestType, ConnectionVerified
<1>1. CASE ConnectionCanCommit(c)
  <2> DEFINE p == [page EXCEPT !.apiMode = TRUE, !.apiKey = c.key]
             q == InvalidateTelemetry(p)
  <2>1. /\ p \in PageType /\ p.locked = page.locked
        /\ p.telemetryGen = page.telemetryGen /\ p.commandGen = page.commandGen
    BY <1>0 DEF PageType
  <2>2. page' = [q EXCEPT !.pending = FALSE]
    BY <1>1 DEF ConnectionVerified, ConnectionDone, ConnectionCanCommit
  <2>3. /\ q \in PageType /\ q.event = 0 /\ q.locked = page.locked
        /\ q.telemetryGen = page.telemetryGen + 1
        /\ q.commandGen = page.commandGen + 1
    <3> HIDE DEF p
    <3> QED
      BY <2>1, InvalidateTelemetryType, InvalidateTelemetryFields
  <2>4. /\ page'.event = 0 /\ page'.locked = page.locked
        /\ page'.telemetryGen = page.telemetryGen + 1
        /\ page'.commandGen = page.commandGen + 1
    <3> HIDE DEF q
    <3> QED
      BY <2>2, <2>3 DEF PageType
  <2>5. page.telemetryGen <= page'.telemetryGen /\ page.commandGen <= page'.commandGen
    BY <1>0, <2>4 DEF PageType
  <2> QED
    BY <1>0, <2>4, <2>5, NoneAhead, LockStays, EventDropped
<1>2. CASE ~ConnectionCanCommit(c) /\ c.generation = page.connectionGen
  <2>1. page' = [Disconnect(page) EXCEPT !.pending = FALSE]
    BY <1>2 DEF ConnectionVerified, ConnectionDone
  <2> QED
    BY <1>0, <2>1, DisconnectKeepsInv
<1>3. CASE ~ConnectionCanCommit(c) /\ c.generation # page.connectionGen
  <2>1. page' = page
    BY <1>3 DEF ConnectionVerified, ConnectionDone
  <2> QED
    BY <1>0, <2>1, FlagsKeepPage, AnswerKeepsPage
<1> QED
  BY <1>1, <1>2, <1>3

LEMMA ConnectionFailureKeepsInv ==
    ASSUME ConsoleInv, TypeOK', NEW c \in connects, ConnectionFails(c)
    PROVE  ConsoleInv'
<1>0. page \in PageType /\ UNCHANGED <<telemetry, flows, consent, withdrawals>>
  BY DEF ConsoleInv, TypeOK, ConnectionFails
<1>1. CASE c.generation = page.connectionGen
  <2>1. page' = [Disconnect(page) EXCEPT !.pending = FALSE]
    BY <1>1 DEF ConnectionFails, ConnectionDone
  <2> QED
    BY <1>0, <2>1, DisconnectKeepsInv
<1>2. CASE c.generation # page.connectionGen
  <2>1. page' = page
    BY <1>2 DEF ConnectionFails, ConnectionDone
  <2> QED
    BY <1>0, <2>1, FlagsKeepPage, AnswerKeepsPage
<1> QED
  BY <1>1, <1>2

\* No other command is under way when this one is sent.
LEMMA AuthorizedKeepsInv ==
    ASSUME ConsoleInv, TypeOK', NEW f \in flows, Authorized(f)
    PROVE  ConsoleInv'
<1>0. /\ page \in PageType /\ f \in FlowType /\ f.phase = "authorize"
      /\ UNCHANGED <<telemetry, connects, consent, withdrawals>>
  BY DEF ConsoleInv, TypeOK, Authorized, FlowType
<1>1. CASE CommandCanContinue(f)
  <2>1. page' = [page EXCEPT !.locked = TRUE]
    BY <1>1 DEF Authorized
  <2>2. /\ page'.locked /\ page'.telemetryGen = page.telemetryGen
        /\ page'.commandGen = page.commandGen /\ page'.event = page.event
        /\ page'.checked = page.checked /\ page'.apiMode = page.apiMode
        /\ page'.apiKey = page.apiKey /\ page'.command = page.command
    BY <1>0, <2>1 DEF PageType
  <2>3. PICK sent \in FlowType :
           /\ sent.event = f.event /\ sent.generation = f.generation /\ sent.key = f.key
           /\ sent.withdrawals = f.withdrawals /\ sent.phase = "command"
           /\ flows' = (flows \ {f}) \union {sent}
    <3>1. [f EXCEPT !.phase = "command"] \in FlowType
      BY <1>0 DEF FlowType
    <3> QED
      BY <1>0, <1>1, <3>1 DEF Authorized, FlowType
  <2>4. f.generation = page.commandGen /\ f.event = page.event /\ page.checked
    BY <1>1 DEF CommandCanContinue
  <2>5. f.event # 0
    BY DEF ConsoleInv, GenerationsAreFresh
  <2>6. \A g \in flows : g.phase # "command"
    <3> SUFFICES ASSUME NEW g \in flows, g.phase = "command" PROVE FALSE
      OBVIOUS
    <3>1. CASE g.event = page.event
      <4>1. g.generation = page.commandGen
        BY <3>1 DEF ConsoleInv, LockCoversCommand
      <4> QED
        BY <1>0, <2>4, <4>1 DEF ConsoleInv, GenerationsAreFresh
    <3>2. CASE g.event # page.event
      BY <2>4, <2>5, <3>2 DEF ConsoleInv, NoConsentBesideFormerCommand
    <3> QED
      BY <3>1, <3>2
  <2>7. GenerationsAreFresh'
    BY <1>0, <2>2, <2>3 DEF ConsoleInv, GenerationsAreFresh
  <2>8. CurrentIsOfTheSession' /\ FlowsHoldConsent'
    BY <1>0, <2>2, <2>3 DEF ConsoleInv, CurrentIsOfTheSession, FlowsHoldConsent
  <2>9. ConsentIsForTheShownEvent' /\ NoConsentBesideFormerCommand'
    BY <1>0, <2>2, <2>3, <2>4, <2>6
    DEF ConsoleInv, ConsentIsForTheShownEvent, NoConsentBesideFormerCommand
  <2>10. LockCoversCommand'
    <3>1. {g \in flows' : g.phase = "command"} = {sent}
      BY <2>3, <2>6
    <3> QED
      BY <2>2, <2>3, <2>4, <3>1 DEF LockCoversCommand
  <2> QED
    BY <2>7, <2>8, <2>9, <2>10 DEF ConsoleInv
<1>2. CASE ~CommandCanContinue(f)
  <2>1. UNCHANGED page /\ flows' = flows \ {f}
    BY <1>2 DEF Authorized
  <2>2. LockFollows'
    BY <1>0, <2>1, LockAfterFlow
  <2> QED
    BY <1>0, <2>1, <2>2, EventKept
<1> QED
  BY <1>1, <1>2

\* A flow ends, in a page p that lost its event or is what it was.
LEMMA FlowDoneKeepsInv ==
    ASSUME ConsoleInv, TypeOK', NEW f \in flows, NEW p \in PageType,
           page' = FlowDone(f, p), flows' = flows \ {f},
           p.locked = page.locked,
           UNCHANGED <<telemetry, consent, withdrawals>>,
           \/ /\ p.event = 0
              /\ page.telemetryGen <= p.telemetryGen /\ page.commandGen <= p.commandGen
              /\ p.telemetryGen = page.telemetryGen =>
                    p.apiMode = page.apiMode /\ p.apiKey = page.apiKey /\ ~p.checked
              /\ p.telemetryGen # page.telemetryGen =>
                    p.telemetryGen = page.telemetryGen + 1
           \/ /\ p.event = page.event /\ p.checked = page.checked
              /\ p.apiMode = page.apiMode /\ p.apiKey = page.apiKey
              /\ p.telemetryGen = page.telemetryGen /\ p.commandGen = page.commandGen
              /\ \/ p.command = page.command
                 \/ f.generation = page.commandGen
    PROVE  ConsoleInv'
<1>1. /\ page'.locked = IF f.phase = "command" THEN FALSE ELSE page.locked
      /\ page'.event = p.event /\ page'.checked = p.checked
      /\ page'.apiMode = p.apiMode /\ page'.apiKey = p.apiKey
      /\ page'.telemetryGen = p.telemetryGen /\ page'.commandGen = p.commandGen
      /\ page'.command = p.command
  BY DEF FlowDone, PageType
<1>2. LockFollows'
  BY <1>1, LockAfterFlow
<1>3. CASE p.event = 0 /\ page.telemetryGen <= p.telemetryGen
             /\ page.commandGen <= p.commandGen
             /\ (p.telemetryGen = page.telemetryGen =>
                   p.apiMode = page.apiMode /\ p.apiKey = page.apiKey /\ ~p.checked)
             /\ (p.telemetryGen # page.telemetryGen =>
                   p.telemetryGen = page.telemetryGen + 1)
  <2>1. \A t \in telemetry' : t.generation = page'.telemetryGen =>
            /\ t.generation = page.telemetryGen /\ page'.apiMode = page.apiMode
            /\ page'.apiKey = page.apiKey /\ ~page'.checked
    BY <1>1, <1>3, NoneAhead
  <2> QED
    BY <1>1, <1>2, <1>3, <2>1, EventDropped
<1>4. CASE p.event = page.event /\ p.checked = page.checked
             /\ p.apiMode = page.apiMode /\ p.apiKey = page.apiKey
             /\ p.telemetryGen = page.telemetryGen /\ p.commandGen = page.commandGen
             /\ (p.command = page.command \/ f.generation = page.commandGen)
  <2>1. page'.command =>
            \/ page.command
            \/ \A g \in flows' : g.generation # page.commandGen \/ g.event # page.event
    <3>1. f.generation = page.commandGen => \A g \in flows' : g.generation # page.commandGen
      BY DEF ConsoleInv, GenerationsAreFresh
    <3> QED
      BY <1>1, <1>4, <3>1
  <2> QED
    BY <1>1, <1>2, <1>4, <2>1, EventKept
<1> QED
  BY <1>3, <1>4

LEMMA RecordedKeepsInv ==
    ASSUME ConsoleInv, TypeOK', NEW f \in flows, CommandRecorded(f)
    PROVE  ConsoleInv'
<1>0. /\ page \in PageType /\ f.event \in Nat /\ flows' = flows \ {f}
      /\ UNCHANGED <<telemetry, consent, withdrawals>>
  BY DEF ConsoleInv, TypeOK, CommandRecorded
<1>1. CASE CommandCanContinue(f)
  <2> DEFINE q == InvalidateEvent(page)
             p == [q EXCEPT !.recorded = f.event]
  <2>1. page' = FlowDone(f, p)
    BY <1>1 DEF CommandRecorded
  <2>2. q \in PageType
    BY <1>0, InvalidateEventType
  <2>3. /\ p \in PageType /\ p.event = q.event /\ p.checked = q.checked
        /\ p.locked = q.locked /\ p.apiMode = q.apiMode /\ p.apiKey = q.apiKey
        /\ p.telemetryGen = q.telemetryGen /\ p.commandGen = q.commandGen
    <3> HIDE DEF q
    <3> QED
      BY <1>0, <2>2 DEF PageType
  <2>4. /\ p.event = 0 /\ ~p.checked /\ p.locked = page.locked
        /\ p.apiMode = page.apiMode /\ p.apiKey = page.apiKey
        /\ p.telemetryGen = page.telemetryGen /\ p.commandGen = page.commandGen + 1
    BY <1>0, <2>3, InvalidateEventFields
  <2>5. page.telemetryGen <= p.telemetryGen /\ page.commandGen <= p.commandGen
    <3> HIDE DEF p
    <3> QED
      BY <1>0, <2>4 DEF PageType
  <2> HIDE DEF p
  <2> QED
    BY <1>0, <2>1, <2>3, <2>4, <2>5, FlowDoneKeepsInv
<1>2. CASE ~CommandCanContinue(f)
  <2>1. page' = FlowDone(f, page)
    BY <1>2 DEF CommandRecorded
  <2> QED
    BY <1>0, <2>1, FlowDoneKeepsInv
<1> QED
  BY <1>1, <1>2

LEMMA FlowFailureKeepsInv ==
    ASSUME ConsoleInv, TypeOK', NEW f \in flows, NEW failure \in Failures,
           FlowFails(f, failure)
    PROVE  ConsoleInv'
<1> DEFINE p == AfterFailure(f, failure)
<1>0. /\ page \in PageType /\ page' = FlowDone(f, p) /\ flows' = flows \ {f}
      /\ UNCHANGED <<telemetry, consent, withdrawals>>
      /\ page.telemetryGen \in Nat /\ page.commandGen \in Nat
  BY DEF ConsoleInv, TypeOK, FlowFails, PageType
<1>1. CASE p = page
  BY <1>0, <1>1, FlowDoneKeepsInv
<1>2. CASE p = Disconnect(page)
  <2>1. /\ p \in PageType /\ p.event = 0 /\ p.locked = page.locked
        /\ p.telemetryGen = page.telemetryGen + 1 /\ p.commandGen = page.commandGen + 1
    BY <1>0, <1>2, DisconnectType, DisconnectFields
  <2> HIDE DEF p
  <2> QED
    BY <1>0, <2>1, FlowDoneKeepsInv
<1>3. CASE p = InvalidateEvent(page)
  <2>1. /\ p \in PageType /\ p.event = 0 /\ p.locked = page.locked /\ ~p.checked
        /\ p.apiMode = page.apiMode /\ p.apiKey = page.apiKey
        /\ p.telemetryGen = page.telemetryGen /\ p.commandGen = page.commandGen + 1
    BY <1>0, <1>3, InvalidateEventType, InvalidateEventFields
  <2> HIDE DEF p
  <2> QED
    BY <1>0, <2>1, FlowDoneKeepsInv
<1>4. CASE p = UpdateCommandAvailability(page) /\ f.generation = page.commandGen
  <2>1. /\ p \in PageType /\ p.event = page.event /\ p.locked = page.locked
        /\ p.checked = page.checked /\ p.apiMode = page.apiMode /\ p.apiKey = page.apiKey
        /\ p.telemetryGen = page.telemetryGen /\ p.commandGen = page.commandGen
    BY <1>0, <1>4, UpdateType, UpdateFields
  <2> HIDE DEF p
  <2> QED
    BY <1>0, <1>4, <2>1, FlowDoneKeepsInv
<1> QED
  BY <1>1, <1>2, <1>3, <1>4 DEF AfterFailure, Failures

-----------------------------------------------------------------------------
(***************************************************************************)
(* The theorems.                                                           *)
(***************************************************************************)

LEMMA ConsoleInit == Init => ConsoleInv
<1> SUFFICES ASSUME Init PROVE ConsoleInv
  OBVIOUS
<1>1. TypeOK
  BY DEF Init, TypeOK, PageType
<1>2. /\ page.event = 0 /\ page.telemetryGen = 0 /\ ~page.locked
      /\ telemetry = {} /\ flows = {}
  BY DEF Init
<1> QED
  BY <1>1, <1>2
  DEF ConsoleInv, GenerationsAreFresh, CurrentIsOfTheSession, FlowsHoldConsent,
      ConsentIsForTheShownEvent, NoConsentBesideFormerCommand, LockCoversCommand

LEMMA ConsoleNext == ConsoleInv /\ [Next]_vars => ConsoleInv'
<1> SUFFICES ASSUME ConsoleInv, [Next]_vars PROVE ConsoleInv'
  OBVIOUS
<1>0. CASE UNCHANGED vars
  BY <1>0
  DEF vars, ConsoleInv, TypeOK, GenerationsAreFresh, CurrentIsOfTheSession,
      FlowsHoldConsent, ConsentIsForTheShownEvent, NoConsentBesideFormerCommand,
      LockCoversCommand
<1>1. CASE OwnerActs
  <2>1. TypeOK'
    BY <1>1, OwnerKeepsTypes DEF ConsoleInv
  <2> QED
    BY <1>1, <2>1, EditKeepsInv, TickKeepsInv, WithdrawKeepsInv, RunKeepsInv,
       TypeKeyKeepsInv, ConnectKeepsInv, CommandKeepsInv DEF OwnerActs
<1>2. CASE TelemetryAnswered \/ ConnectionAnswered \/ FlowAnswered
  <2>1. TypeOK'
    BY <1>2, AnswersKeepTypes DEF ConsoleInv
  <2> QED
    BY <1>2, <2>1, StoredKeepsInv, TelemetryFailureKeepsInv, VerifiedKeepsInv,
       ConnectionFailureKeepsInv, AuthorizedKeepsInv, RecordedKeepsInv, FlowFailureKeepsInv
    DEF TelemetryAnswered, ConnectionAnswered, FlowAnswered
<1> QED
  BY <1>0, <1>1, <1>2 DEF Next

LEMMA ConsoleIsSound == Spec => []ConsoleInv
BY ConsoleInit, ConsoleNext, PTL DEF Spec

(***************************************************************************)
(* A tick beside an event of the server was made for that event, whatever  *)
(* was edited, answered or reconnected in between (renderEvidence).        *)
(***************************************************************************)
THEOREM ConsentIsNotReused == Spec => []ConsentIsForTheShownEvent
BY ConsoleIsSound, PTL DEF ConsoleInv

(***************************************************************************)
(* The consent box is locked exactly while the one command of the page is  *)
(* under way, and as long as its event is shown the consent stands.        *)
(***************************************************************************)
THEOREM LockIsOfOneCommand == Spec => []LockCoversCommand
BY ConsoleIsSound, PTL DEF ConsoleInv

(***************************************************************************)
(* A command is sent only for the shown event and under a consent that     *)
(* was not withdrawn since the owner pressed the button, for any number of *)
(* flows and whatever they wait for (recordMigrationCommand).              *)
(***************************************************************************)
THEOREM ConsentIsUnbroken == Spec => CommandUnderUnbrokenConsent
<1>1. ConsoleInv /\ [Next]_vars =>
        [\A f \in flows' \ flows : f.phase = "command" =>
            /\ f.event = page.event /\ consent = page.event
            /\ f.withdrawals = withdrawals]_vars
  <2> SUFFICES ASSUME ConsoleInv, Next, NEW f \in flows' \ flows, f.phase = "command"
               PROVE  /\ f.event = page.event /\ consent = page.event
                      /\ f.withdrawals = withdrawals
    OBVIOUS
  <2>1. PICK g \in flows : Authorized(g) /\ CommandCanContinue(g)
                             /\ f = [g EXCEPT !.phase = "command"]
    <3>1. ~PressCommand
      BY DEF PressCommand
    <3>2. ASSUME NEW g \in flows, Authorized(g)
          PROVE  CommandCanContinue(g) /\ f = [g EXCEPT !.phase = "command"]
      BY <3>2 DEF Authorized
    <3> QED
      BY <3>1, <3>2
      DEF Next, OwnerActs, EditForm, ApplyScenario, TickConsent, WithdrawConsent, PressRun,
          TypeKey, PressConnect, TelemetryAnswered, TelemetryStored, TelemetryFails,
          ConnectionAnswered, ConnectionVerified, ConnectionFails,
          FlowAnswered, CommandRecorded, FlowFails
  <2>2. g \in FlowType
    BY DEF ConsoleInv, TypeOK, FlowType
  <2>3. f.event = g.event /\ f.withdrawals = g.withdrawals
    BY <2>1, <2>2 DEF FlowType
  <2>4. g.event # 0 /\ g.event = page.event /\ page.checked /\ g.generation = page.commandGen
    BY <2>1 DEF ConsoleInv, GenerationsAreFresh, CommandCanContinue
  <2>5. g.withdrawals = withdrawals
    BY <2>4 DEF ConsoleInv, FlowsHoldConsent
  <2>6. consent = page.event
    BY <2>4 DEF ConsoleInv, CurrentIsOfTheSession, ConsentIsForTheShownEvent
  <2> QED
    BY <2>3, <2>4, <2>5, <2>6
<1> QED
  BY <1>1, ConsoleIsSound, PTL DEF Spec, CommandUnderUnbrokenConsent

(***************************************************************************)
(* Of the requests that are answered, only one sent with the key of the    *)
(* open session ends that session (classifyApiFailure and the generations).*)
(***************************************************************************)
THEOREM SessionsEndByTheirOwnKey == Spec => RefusalEndsItsOwnSession
<1>1. ConsoleInv /\ [Next]_vars =>
        [\A r \in (telemetry \ telemetry') \union (flows \ flows') :
            page.apiMode /\ ~page'.apiMode => r.key = page.apiKey]_vars
  <2> SUFFICES ASSUME ConsoleInv, Next, page.apiMode, ~page'.apiMode,
                      NEW r \in (telemetry \ telemetry') \union (flows \ flows')
               PROVE  r.key = page.apiKey
    OBVIOUS
  <2>0. page \in PageType
    BY DEF ConsoleInv, TypeOK
  <2>1. ASSUME NEW t \in telemetry, telemetry' = telemetry \ {t}, UNCHANGED flows,
               TelemetryCurrent(t)
        PROVE  r.key = page.apiKey
    BY <2>1 DEF ConsoleInv, CurrentIsOfTheSession, TelemetryCurrent
  <2>2. ASSUME NEW t \in telemetry,
               \/ \E migrate \in BOOLEAN : TelemetryStored(t, migrate)
               \/ \E failure \in Failures : TelemetryFails(t, failure)
        PROVE  r.key = page.apiKey
    <3>1. TelemetryCurrent(t)
      BY <2>2 DEF TelemetryStored, TelemetryFails
    <3>2. telemetry' = telemetry \ {t} /\ UNCHANGED flows
      BY <2>2 DEF TelemetryStored, TelemetryFails
    <3> QED
      BY <2>1, <3>1, <3>2
  <2>3. ASSUME NEW f \in flows, Authorized(f)
        PROVE  FALSE
    BY <2>0, <2>3 DEF Authorized, PageType
  <2>4. ASSUME NEW f \in flows, CommandRecorded(f)
        PROVE  FALSE
    <3>1. f.event \in Nat
      BY DEF ConsoleInv, TypeOK
    <3> DEFINE q == InvalidateEvent(page)
               p == IF CommandCanContinue(f) THEN [q EXCEPT !.recorded = f.event] ELSE page
    <3>2. q \in PageType /\ q.apiMode = page.apiMode
      BY <2>0, InvalidateEventType, InvalidateEventFields
    <3>3. p \in PageType /\ p.apiMode = page.apiMode
      <4> HIDE DEF q
      <4> QED
        BY <2>0, <3>1, <3>2 DEF PageType
    <3>4. page' = FlowDone(f, p)
      BY <2>4 DEF CommandRecorded
    <3> HIDE DEF p
    <3> QED
      BY <3>3, <3>4 DEF FlowDone, PageType
  <2>5. ASSUME NEW f \in flows, NEW failure \in Failures, FlowFails(f, failure)
        PROVE  r.key = page.apiKey
    <3> DEFINE p == AfterFailure(f, failure)
    <3>1. page' = FlowDone(f, p) /\ telemetry' = telemetry /\ flows' = flows \ {f}
      BY <2>5 DEF FlowFails
    <3>2. CASE f.event = page.event
      BY <3>1, <3>2 DEF ConsoleInv, CurrentIsOfTheSession
    <3>3. CASE f.event # page.event
      <4>1. p = page
        BY <3>3 DEF AfterFailure
      <4> QED
        BY <2>0, <3>1, <4>1 DEF FlowDone, PageType
    <3> QED
      BY <3>2, <3>3
  <2>6. \/ \E t \in telemetry : \/ \E migrate \in BOOLEAN : TelemetryStored(t, migrate)
                                \/ \E failure \in Failures : TelemetryFails(t, failure)
        \/ FlowAnswered
    BY DEF Next, OwnerActs, EditForm, ApplyScenario, TickConsent, WithdrawConsent, PressRun,
           TypeKey, PressConnect, PressCommand, TelemetryAnswered,
           ConnectionAnswered, ConnectionVerified, ConnectionFails
  <2> QED
    BY <2>2, <2>3, <2>4, <2>5, <2>6 DEF FlowAnswered
<1> QED
  BY <1>1, ConsoleIsSound, PTL DEF Spec, RefusalEndsItsOwnSession
=============================================================================
