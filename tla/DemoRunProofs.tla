---------------------------- MODULE DemoRunProofs ----------------------------
(***************************************************************************)
(* The server under the demo runner and the edge client is the server of   *)
(* EvidenceChain: its theorems hold of every demo run.                     *)
(***************************************************************************)
EXTENDS DemoRun, EvidenceChainProofs, FiniteSetTheorems

-----------------------------------------------------------------------------
(***************************************************************************)
(* The locals of the clients.                                              *)
(***************************************************************************)

Records == [events: SUBSET Nat, stored: Nat]

RunPhases == {"ready", "sleeping", "waiting", "passed", "failed"}

EdgePhases == {"pause", "waiting", "stopped"}

RunRecords ==
    [phase: RunPhases, answers: Seq(Records), event: Nat, token: Nat,
     started: Int, since: Int, prompt: BOOLEAN]

EdgeRecords == [phase: EdgePhases, scope: Scopes, sent: Nat, since: Int]

LEMMA SentFields ==
    ASSUME run \in RunRecords, clock \in Int
    PROVE  /\ Sent \in RunRecords
           /\ Sent.phase = "waiting" /\ Sent.answers = run.answers
           /\ Sent.event = run.event /\ Sent.token = run.token
<1> DEFINE b == run.prompt /\ clock \in {Due, run.since}
           p == [run EXCEPT !.phase = "waiting"]
           q == [p EXCEPT !.since = clock]
<1>1. b \in BOOLEAN
  OBVIOUS
<1>2. p \in RunRecords
  BY DEF RunRecords, RunPhases
<1> HIDE DEF b
<1>3. q \in RunRecords
  <2> HIDE DEF p
  <2> QED
    BY <1>2 DEF RunRecords
<1>4. [q EXCEPT !.prompt = b] \in RunRecords
  <2> HIDE DEF q
  <2> QED
    BY <1>1, <1>3 DEF RunRecords
<1>5. Sent = [q EXCEPT !.prompt = b]
  BY DEF Sent, b
<1> QED
  BY <1>4, <1>5 DEF RunRecords

LEMMA AnsweredFields ==
    ASSUME NEW r \in RunRecords, clock \in Int,
           NEW events \in SUBSET Nat, NEW stored \in Nat,
           NEW a, a = Answered(r, events, stored)
    PROVE  /\ a \in RunRecords
           /\ Len(a.answers) = Len(r.answers) + 1
           /\ a.phase = IF Len(r.answers) + 1 = Len(Script) THEN "passed"
                                                            ELSE "sleeping"
           /\ a.event = r.event /\ a.token = r.token
<1> DEFINE record == [events |-> events, stored |-> stored]
           to == IF Len(r.answers) + 1 = Len(Script) THEN "passed" ELSE "sleeping"
           longer == Append(r.answers, record)
           p == [r EXCEPT !.phase = to]
           q == [p EXCEPT !.since = clock]
<1>1. longer \in Seq(Records) /\ Len(longer) = Len(r.answers) + 1
  <2>1. record \in Records /\ r.answers \in Seq(Records)
    BY DEF Records, RunRecords
  <2> HIDE DEF record
  <2> QED
    BY <2>1, AppendProperties
<1>2. p \in RunRecords /\ p.answers = r.answers
  <2>1. to \in RunPhases
    BY DEF RunPhases
  <2> HIDE DEF to
  <2> QED
    BY <2>1 DEF RunRecords
<1> HIDE DEF longer
<1>3. q \in RunRecords
  <2> HIDE DEF p
  <2> QED
    BY <1>2 DEF RunRecords
<1>4. [q EXCEPT !.answers = longer] \in RunRecords
  <2> HIDE DEF q
  <2> QED
    BY <1>1, <1>3 DEF RunRecords
<1>5. a = [q EXCEPT !.answers = longer]
  BY DEF Answered, longer
<1> QED
  BY <1>1, <1>4, <1>5 DEF RunRecords

LEMMA ClientInit ==
    NoRun \in RunRecords /\ Failed \in RunRecords
      /\ NoRun.phase = "ready" /\ NoRun.token = 0 /\ Len(NoRun.answers) = 0
      /\ Failed.phase = "failed" /\ Failed.token = 0
<1>1. NoRun \in RunRecords /\ Len(NoRun.answers) = 0
  BY DEF NoRun, RunRecords, RunPhases
<1> QED
  BY <1>1 DEF Failed, NoRun, RunRecords, RunPhases

\* What a canonical script says of its steps.
LEMMA ScriptFacts ==
    /\ Len(Script) \in Nat \ {0}
    /\ Script[1].action = "telemetry"
    /\ \A i \in 1..Len(Script) :
          Script[i].action = "telemetry" =>
             Script[i].body \in Bodies /\ DemoMessage(i) \in Messages
<1>1. Script \in Seq([at: Nat, action: Actions, body: Bodies \union {None}])
  BY DemoAssumption DEF CanonicalScript
<1>2. Len(Script) \in Nat /\ DOMAIN Script = 1..Len(Script)
  BY <1>1, LenProperties
<1>3. StepsOf("latest") # {}
  <2>1. Cardinality(StepsOf("latest")) = 1
    BY DemoAssumption DEF CanonicalScript, Actions
  <2> QED
    BY <2>1, FS_EmptySet
<1>4. Len(Script) # 0
  BY <1>2, <1>3 DEF StepsOf
<1>5. \A i \in Telemetry : Script[i].body \in Bodies /\ DemoMessage(i) \in Messages
  BY DemoAssumption DEF CanonicalScript, ClientMessages
<1> QED
  BY <1>2, <1>4, <1>5, DemoAssumption DEF CanonicalScript, Telemetry, StepsOf

-----------------------------------------------------------------------------
(***************************************************************************)
(* A run that is under way has an event to ask about before its first      *)
(* query, since its first step is telemetry, and never runs past the last  *)
(* step of its script.                                                     *)
(***************************************************************************)

UnderWay == {"ready", "sleeping", "waiting"}

RunSound ==
    /\ run \in RunRecords
    /\ run.token \in 0..Len(auths)
    /\ run.phase \in UnderWay =>
          /\ Len(run.answers) < Len(Script)
          /\ Len(run.answers) # 0 => run.event \in Events
          /\ job[DemoThread].phase \in EventPhases => Len(run.answers) # 0

DemoInv ==
    /\ TypeInv
    /\ clock <= MaxClock
    /\ RunSound
    /\ edge \in EdgeRecords

LEMMA ScriptTurn ==
    ASSUME RunSound, run.phase \in UnderWay
    PROVE  /\ Len(run.answers) + 1 \in 1..Len(Script)
           /\ Turn.action # "telemetry" => Len(run.answers) # 0 /\ run.event \in Events
<1>1. Len(run.answers) \in Nat
  BY LenProperties DEF RunSound, RunRecords
<1> QED
  BY <1>1, ScriptFacts DEF RunSound, Turn

\* Every step of the composition is a step of the server or leaves it alone.
LEMMA ServerSteps ==
    ASSUME DemoInv, [DemoNext]_demoVars
    PROVE  [Next]_vars
<1>0. /\ TypeOK /\ RunSound /\ edge \in EdgeRecords /\ clock \in Nat
      /\ clock \in Captures /\ DemoThread \in Workers /\ DemoScope \in Scopes
  BY DemoAssumption, DataAssumption DEF DemoInv, TypeInv, TypeOK
<1>1. CASE UNCHANGED demoVars \/ PassPreflight \/ GetEvents \/ GetLatest
             \/ RequestTimesOut \/ RequestRejected \/ SampleTimesOut
  BY <1>1 DEF demoVars, PassPreflight, GetEvents, GetLatest, RequestTimesOut,
              RequestRejected, SampleTimesOut
<1>2. CASE SendTelemetry
  <2> DEFINE r == [msg |-> DemoMessage(Len(run.answers) + 1), scope |-> DemoScope,
                   body |-> Turn.body, cap |-> clock]
  <2>1. /\ DemoMessage(Len(run.answers) + 1) \in Messages
        /\ Turn.body \in Bodies
    BY <1>0, <1>2, ScriptTurn, ScriptFacts DEF SendTelemetry, Wakes, Turn, UnderWay
  <2>2. r \in Reports
    BY <1>0, <2>1 DEF Reports
  <2>3. SubmitTelemetry(DemoThread, r)
    BY <1>2 DEF SendTelemetry
  <2> HIDE DEF r
  <2> QED
    BY <1>0, <2>2, <2>3 DEF Next, Step
<1>3. CASE SendAuthorization
  <2>1. run.event \in Events
    BY <1>0, <1>3, ScriptTurn DEF SendAuthorization, Wakes, UnderWay
  <2> QED
    BY <1>0, <1>3, <2>1 DEF SendAuthorization, Next, Step
<1>4. CASE SendCommand
  <2>1. run.event \in Events /\ run.token \in 0..Len(auths)
    BY <1>0, <1>4, ScriptTurn DEF SendCommand, Wakes, UnderWay, RunSound
  <2> QED
    BY <1>0, <1>4, <2>1 DEF SendCommand, Next, Step
<1>5. CASE HearTelemetry \/ HearAuthorization \/ HearCommand \/ HearRefusal
  BY <1>0, <1>5 DEF HearTelemetry, HearAuthorization, HearCommand, HearRefusal, Next, Step
<1>6. ASSUME NEW w \in Workers, PostSample(w) PROVE Next
  <2> DEFINE r == [msg |-> EdgeMessage(edge.sent + 1), scope |-> edge.scope,
                   body |-> EdgeReadings[edge.sent + 1], cap |-> clock]
  <2>1. edge.sent + 1 \in DOMAIN EdgeReadings
    BY <1>0, <1>6, DemoAssumption, LenProperties DEF PostSample, EdgeRecords
  <2>2. /\ EdgeMessage(edge.sent + 1) \in Messages
        /\ EdgeReadings[edge.sent + 1] \in Bodies
    BY <2>1, DemoAssumption, ElementOfSeq, LenProperties DEF ClientMessages
  <2>3. r \in Reports
    BY <1>0, <2>2 DEF Reports, EdgeRecords
  <2>4. SubmitTelemetry(w, r)
    BY <1>6 DEF PostSample
  <2> HIDE DEF r
  <2> QED
    BY <2>3, <2>4 DEF Next, Step
<1>7. ASSUME NEW w \in Workers, HearSample(w) \/ SampleFails(w) \/ Proceed(w) PROVE Next
  BY <1>7 DEF HearSample, SampleFails, Proceed, Next, Step
<1>8. CASE ServerDies \/ TimePasses
  BY <1>8 DEF ServerDies, TimePasses, Next
<1> QED
  BY <1>1, <1>2, <1>3, <1>4, <1>5, <1>6, <1>7, <1>8 DEF DemoNext

-----------------------------------------------------------------------------
(***************************************************************************)
(* The ways a step may change the runner.  All but the last keep what the  *)
(* runner waits for.                                                       *)
(***************************************************************************)

\* What the server's part of a step gives.
TablesGrow ==
    /\ clock \in Int
    /\ Len(auths) \in Nat /\ Len(auths') \in Nat /\ Len(auths) <= Len(auths')
    /\ Len(rows) \in Nat /\ Len(rows') \in Nat
    /\ Events \subseteq Events'

LEMMA ServerGrows ==
    ASSUME DemoInv, [Next]_vars
    PROVE  TypeInv' /\ clock' <= MaxClock /\ TablesGrow
<1>1. TypeInv /\ TypeInv' /\ TypeOK /\ TypeOK'
  BY TypeNext DEF DemoInv, TypeInv
<1>2. clock' <= MaxClock
  <2>1. UNCHANGED clock \/ Tick
    BY DEF Next, vars, Crash, Step, SubmitTelemetry, LookUpMessage, StampReceipt,
           InsertTelemetry, AnswerDuplicate, AdoptRetry, RejectConflict,
           RequestAuthorization, GrantAuthorization, RefuseAuthorization,
           RequestMigration, ValidateToken, CallActuator, ConsumeToken, RefuseCommand,
           RequestFails
  <2>2. clock \in Nat /\ MaxClock \in Nat
    BY <1>1, DataAssumption DEF TypeOK
  <2> QED
    BY <2>1, <2>2 DEF DemoInv, Tick
<1>3. Events \subseteq Events'
  BY <1>1, EventsAreKept
<1>4. /\ clock \in Int /\ Len(rows) \in Nat /\ Len(rows') \in Nat
      /\ Len(auths) \in Nat /\ Len(auths') \in Nat
  BY <1>1, LenProperties DEF TypeOK
<1>5. Len(auths) <= Len(auths')
  <2>1. Tokens \subseteq Tokens'
    BY <1>1, TokensAreKept
  <2> QED
    BY <1>4, <2>1 DEF Tokens
<1> QED
  BY <1>1, <1>2, <1>3, <1>4, <1>5 DEF TablesGrow

\* A job takes up questions about an event only when the runner asks one.
NoNewQuestion ==
    job'[DemoThread].phase \in EventPhases => job[DemoThread].phase \in EventPhases

LEMMA RunStays ==
    ASSUME RunSound, TablesGrow, NoNewQuestion, UNCHANGED run
    PROVE  RunSound'
BY DEF RunSound, TablesGrow, NoNewQuestion

LEMMA RunFails ==
    ASSUME TablesGrow, run' = Failed
    PROVE  RunSound'
<1>1. "failed" \notin UnderWay
  BY DEF UnderWay
<1> QED
  BY <1>1, ClientInit DEF RunSound, TablesGrow

LEMMA RunSends ==
    ASSUME RunSound, TablesGrow, run.phase = "sleeping", run' = Sent,
           NoNewQuestion \/ Len(run.answers) # 0
    PROVE  RunSound'
<1>1. run.phase \in UnderWay
  BY DEF UnderWay
<1>2. /\ run' \in RunRecords /\ run'.answers = run.answers
      /\ run'.event = run.event /\ run'.token = run.token
  BY SentFields DEF RunSound, TablesGrow
<1> QED
  BY <1>1, <1>2 DEF RunSound, TablesGrow, NoNewQuestion

\* r is the runner with the event or the token it was just told.
LEMMA RunHears ==
    ASSUME RunSound, TablesGrow, run.phase \in UnderWay,
           NEW r \in RunRecords, r.answers = run.answers,
           r.event \in Events', r.token \in 0..Len(auths'),
           NEW events \in SUBSET Nat, NEW stored \in Nat,
           run' = Answered(r, events, stored)
    PROVE  RunSound'
<1>1. /\ Len(run.answers) \in Nat /\ Len(Script) \in Nat
      /\ Len(run.answers) < Len(Script)
  BY ScriptFacts, LenProperties DEF RunSound, RunRecords
<1>2. /\ run' \in RunRecords
      /\ Len(run'.answers) = Len(run.answers) + 1
      /\ run'.phase = IF Len(run.answers) + 1 = Len(Script) THEN "passed" ELSE "sleeping"
      /\ run'.event = r.event /\ run'.token = r.token
  <2>1. PICK a : a = Answered(r, events, stored)
    OBVIOUS
  <2> QED
    BY <2>1, AnsweredFields DEF TablesGrow
<1>3. "passed" \notin UnderWay
  BY DEF UnderWay
<1>4. run'.phase \in UnderWay => Len(run'.answers) < Len(Script)
  BY <1>1, <1>2, <1>3
<1>5. Len(run'.answers) # 0 /\ run'.event \in Events' /\ run'.token \in 0..Len(auths')
  BY <1>1, <1>2
<1> QED
  BY <1>2, <1>4, <1>5 DEF RunSound

-----------------------------------------------------------------------------
(***************************************************************************)
(* The job of the runner's thread.                                         *)
(***************************************************************************)

LEMMA OtherJobs ==
    ASSUME DemoInv, NEW w \in Workers, Step(w)
    PROVE  w # DemoThread => job'[DemoThread] = job[DemoThread]
<1>1. job \in [Workers -> Jobs]
  BY DEF DemoInv, TypeInv, TypeOK
<1>2. \E j : job' = [job EXCEPT ![w] = j]
  BY DEF Step, SubmitTelemetry, LookUpMessage, StampReceipt, InsertTelemetry,
         AnswerDuplicate, AdoptRetry, RejectConflict, RequestAuthorization,
         GrantAuthorization, RefuseAuthorization, RequestMigration, ValidateToken,
         CallActuator, ConsumeToken, RefuseCommand, RequestFails, Start, Advance, Finish
<1> QED
  BY <1>1, <1>2, DemoAssumption

LEMMA JobEndsOrGoesOn ==
    ASSUME DemoInv, NEW w \in Workers,
           \/ Finish(w)
           \/ StampReceipt(w)
           \/ ValidateToken(w)
           \/ CallActuator(w)
           \/ \E r \in Reports : SubmitTelemetry(w, r)
    PROVE  job'[w].phase \in EventPhases => job[w].phase \in EventPhases
<1>1. job \in [Workers -> Jobs] /\ job[w] \in Jobs /\ Idle.phase = "idle"
  BY DEF DemoInv, TypeInv, TypeOK, Idle, NewJob
<1>2. CASE Finish(w)
  BY <1>1, <1>2 DEF Finish, EventPhases
<1>3. CASE StampReceipt(w)
  BY <1>1, <1>3 DEF StampReceipt, NewJob, EventPhases
<1>4. CASE ValidateToken(w) \/ CallActuator(w)
  <2>1. job[w].phase \in EventPhases
    BY <1>4 DEF ValidateToken, CallActuator, EventPhases
  <2> QED
    BY <2>1
<1>5. ASSUME NEW r \in Reports, SubmitTelemetry(w, r)
      PROVE  job'[w].phase \notin EventPhases
  BY <1>1, <1>5 DEF SubmitTelemetry, Start, NewJob, EventPhases
<1> QED
  BY <1>2, <1>3, <1>4, <1>5

\* The steps of clients and server that ask the server nothing about an event.
LEMMA NoQuestion ==
    ASSUME DemoInv, NEW w \in Workers,
           Step(w),
           \/ w # DemoThread
           \/ Finish(w)
           \/ StampReceipt(w)
           \/ ValidateToken(w)
           \/ CallActuator(w)
           \/ \E r \in Reports : SubmitTelemetry(w, r)
    PROVE  NoNewQuestion
BY OtherJobs, JobEndsOrGoesOn DEF NoNewQuestion

-----------------------------------------------------------------------------
(***************************************************************************)
(* The steps.                                                              *)
(***************************************************************************)

LEMMA RunHearsOrFails ==
    ASSUME RunSound, TablesGrow, NoNewQuestion,
           NEW r \in RunRecords, r.answers = run.answers,
           run.phase = "waiting" => r.event \in Events',
           r.token \in 0..Len(auths'),
           NEW events \in SUBSET Nat, Hear(r, events)
    PROVE  RunSound'
<1>1. "waiting" \in UnderWay
  BY DEF UnderWay
<1>2. CASE run.phase = "waiting"
  <2>1. run' = Answered(r, events, 0) \/ run' = Failed
    BY <1>2 DEF Hear
  <2> QED
    BY <1>1, <1>2, <2>1, RunHears, RunFails
<1>3. CASE run.phase # "waiting"
  BY <1>3, RunStays DEF Hear
<1> QED
  BY <1>2, <1>3

LEMMA RunGivesUp ==
    ASSUME RunSound, TablesGrow, NoNewQuestion, GivesUp
    PROVE  RunSound'
BY RunStays, RunFails DEF GivesUp

\* Of a job that is about to grant or to consume the run has begun.
LEMMA QuestionHasEvent ==
    ASSUME RunSound, job[DemoThread].phase \in EventPhases, run.phase = "waiting"
    PROVE  run.event \in Events
BY DEF RunSound, UnderWay

LEMMA RunnerKeepsSound ==
    ASSUME DemoInv, TablesGrow,
           \/ SendTelemetry \/ SendAuthorization \/ SendCommand
           \/ HearTelemetry \/ HearAuthorization \/ HearCommand \/ HearRefusal
    PROVE  RunSound'
<1>0. /\ RunSound /\ DemoThread \in Workers /\ run \in RunRecords
      /\ TypeInv /\ TypeOK
  BY DemoAssumption DEF DemoInv, RunSound, TypeInv
<1>1. CASE SendTelemetry
  <2>1. \E r : SubmitTelemetry(DemoThread, r)
    BY <1>1 DEF SendTelemetry
  <2>2. NoNewQuestion
    BY <1>0, <2>1 DEF NoNewQuestion, SubmitTelemetry, Start, NewJob, EventPhases, TypeOK
  <2> QED
    BY <1>0, <1>1, <2>2, RunSends DEF SendTelemetry, Wakes
<1>2. CASE SendAuthorization \/ SendCommand
  <2>1. Len(run.answers) # 0
    BY <1>0, <1>2, ScriptTurn DEF SendAuthorization, SendCommand, Wakes, UnderWay
  <2> QED
    BY <1>0, <1>2, <2>1, RunSends DEF SendAuthorization, SendCommand, Wakes
<1>3. CASE HearTelemetry
  <2> DEFINE n == Len(rows) + 1
             r == [run EXCEPT !.event = n]
  <2>1. NoNewQuestion
    BY <1>0, <1>3, NoQuestion DEF HearTelemetry, InsertTelemetry, Step
  <2>2. n \in Nat /\ n \in Events'
    BY <1>0, <1>3, RowAppended DEF TablesGrow, HearTelemetry, Events, TypeInv
  <2>3. /\ r \in RunRecords /\ r.answers = run.answers /\ r.event = n
        /\ r.token = run.token /\ r.token \in 0..Len(auths')
    <3> HIDE DEF n
    <3> QED
      BY <1>0, <2>2 DEF RunRecords, RunSound, TablesGrow
  <2>4. Hear(r, {n}) /\ {n} \in SUBSET Nat
    BY <1>3, <2>2 DEF HearTelemetry
  <2> HIDE DEF r, n
  <2> QED
    BY <1>0, <2>1, <2>2, <2>3, <2>4, RunHearsOrFails
<1>4. CASE HearAuthorization
  <2> DEFINE n == Len(auths) + 1
             r == [run EXCEPT !.token = n]
             e == job[DemoThread].event
  <2>1. NoNewQuestion
    BY <1>0, <1>4, NoQuestion DEF HearAuthorization, GrantAuthorization, Step
  <2>2. job[DemoThread].phase \in EventPhases /\ e \in Events
    BY <1>0, <1>4
    DEF HearAuthorization, GrantAuthorization, EventPhases, TypeInv, CarriesEvent
  <2>3. n \in Nat /\ n \in 0..Len(auths')
    BY <1>0, <1>4, TokenIssued DEF TablesGrow, HearAuthorization, TypeInv
  <2>4. /\ r \in RunRecords /\ r.answers = run.answers /\ r.token = n
        /\ r.event = run.event
    <3> HIDE DEF n
    <3> QED
      BY <1>0, <2>3 DEF RunRecords
  <2>5. run.phase = "waiting" => r.event \in Events'
    BY <1>0, <2>2, <2>4, QuestionHasEvent DEF TablesGrow
  <2>6. Hear(r, {e}) /\ {e} \in SUBSET Nat
    BY <1>4, <2>2 DEF HearAuthorization, Events
  <2> HIDE DEF r, n, e
  <2> QED
    BY <1>0, <2>1, <2>3, <2>4, <2>5, <2>6, RunHearsOrFails
<1>5. CASE HearCommand
  <2> DEFINE e == job[DemoThread].event
  <2>1. NoNewQuestion
    BY <1>0, <1>5, NoQuestion DEF HearCommand, ConsumeToken, Step
  <2>2. job[DemoThread].phase \in EventPhases /\ e \in Events
    BY <1>0, <1>5 DEF HearCommand, ConsumeToken, EventPhases, TypeInv, CarriesEvent
  <2>3. run.phase = "waiting" => run.event \in Events'
    BY <1>0, <2>2, QuestionHasEvent DEF TablesGrow
  <2>4. run.token \in 0..Len(auths')
    BY <1>0 DEF RunSound, TablesGrow
  <2>5. Hear(run, {e}) /\ {e} \in SUBSET Nat
    BY <1>5, <2>2 DEF HearCommand, Events
  <2> HIDE DEF e
  <2>6. PICK r : r = run
    OBVIOUS
  <2> QED
    BY <1>0, <2>1, <2>3, <2>4, <2>5, <2>6, RunHearsOrFails
<1>6. CASE HearRefusal
  <2>1. NoNewQuestion
    BY <1>0, <1>6, NoQuestion
    DEF HearRefusal, RefuseAuthorization, RefuseCommand, RequestFails, Step
  <2> QED
    BY <1>0, <1>6, <2>1, RunGivesUp DEF HearRefusal
<1> QED
  BY <1>1, <1>2, <1>3, <1>4, <1>5, <1>6

LEMMA QueriesKeepSound ==
    ASSUME DemoInv, TablesGrow, GetEvents \/ GetLatest
    PROVE  RunSound'
<1>0. /\ RunSound /\ run \in RunRecords /\ clock \in Int
      /\ run.phase = "sleeping" /\ run.phase \in UnderWay
      /\ UNCHANGED vars
  BY DEF DemoInv, RunSound, TablesGrow, GetEvents, GetLatest, Wakes, UnderWay
<1>1. PICK r : r = Sent
  OBVIOUS
<1>2. /\ r \in RunRecords /\ r.answers = run.answers
      /\ r.event = run.event /\ r.token = run.token
  BY <1>0, <1>1, SentFields
<1>3. r.event \in Events' /\ r.token \in 0..Len(auths')
  <2>1. run.event \in Events
    BY <1>0, ScriptTurn DEF GetEvents, GetLatest, Wakes
  <2> QED
    BY <1>0, <1>2, <2>1 DEF RunSound, TablesGrow
<1>4. Len(rows) \in Nat
  BY DEF TablesGrow
<1>5. ASSUME NEW events \in SUBSET Nat, run' = Answered(r, events, Len(rows))
      PROVE  RunSound'
  BY <1>0, <1>2, <1>3, <1>4, <1>5, RunHears
<1>6. CASE GetEvents
  <2>1. PICK listed \in ListEvents :
           run' = Answered(Sent, listed, Len(rows)) \/ run' = Failed
    BY <1>6 DEF GetEvents
  <2>2. listed \in SUBSET Nat
    BY DEF ListEvents, Newest, EventsOf, Events
  <2> QED
    BY <1>1, <1>5, <2>1, <2>2, RunFails
<1>7. CASE GetLatest
  <2>1. run' = Answered(Sent, LatestFresh, Len(rows)) \/ run' = Failed
    BY <1>7 DEF GetLatest
  <2>2. LatestFresh \in SUBSET Nat
    BY DEF LatestFresh, EventsOf, Events
  <2> QED
    BY <1>1, <1>5, <2>1, <2>2, RunFails
<1> QED
  BY <1>6, <1>7

LEMMA OthersKeepSound ==
    ASSUME DemoInv, TablesGrow,
           \/ UNCHANGED demoVars \/ PassPreflight \/ RequestTimesOut \/ RequestRejected
           \/ \E w \in Workers \ {DemoThread} :
                 PostSample(w) \/ HearSample(w) \/ SampleFails(w)
           \/ SampleTimesOut
           \/ \E w \in Workers : Proceed(w)
           \/ ServerDies \/ TimePasses
    PROVE  RunSound'
<1>0. /\ RunSound /\ DemoThread \in Workers /\ run \in RunRecords /\ clock \in Int
      /\ job \in [Workers -> Jobs]
  BY DemoAssumption DEF DemoInv, RunSound, TypeInv, TypeOK, TablesGrow
<1>1. CASE UNCHANGED demoVars \/ SampleTimesOut \/ TimePasses
  <2>1. UNCHANGED <<job, run>>
    BY <1>1 DEF demoVars, vars, SampleTimesOut, TimePasses, Tick
  <2> QED
    BY <1>0, <2>1, RunStays DEF NoNewQuestion
<1>2. CASE PassPreflight
  <2> DEFINE p == [run EXCEPT !.phase = "sleeping"]
             q == [p EXCEPT !.started = clock]
  <2>1. p \in RunRecords
    BY <1>0 DEF RunRecords, RunPhases
  <2>2. q \in RunRecords
    <3> HIDE DEF p
    <3> QED
      BY <1>0, <2>1 DEF RunRecords
  <2>3. [q EXCEPT !.since = clock] \in RunRecords
    <3> HIDE DEF q
    <3> QED
      BY <1>0, <2>2 DEF RunRecords
  <2>4. run' = [q EXCEPT !.since = clock]
    BY <1>2 DEF PassPreflight
  <2>5. run' \in RunRecords
    BY <2>3, <2>4
  <2>6. /\ run'.answers = run.answers /\ run'.event = run.event
        /\ run'.token = run.token
    BY <1>0, <2>4 DEF RunRecords
  <2>7. run.phase \in UnderWay /\ UNCHANGED <<rows, auths, job>>
    BY <1>2 DEF PassPreflight, UnderWay, vars
  <2> HIDE DEF p, q
  <2> QED
    BY <1>0, <2>5, <2>6, <2>7 DEF RunSound, Events
<1>3. CASE RequestTimesOut \/ RequestRejected
  BY <1>3, RunFails DEF RequestTimesOut, RequestRejected
<1>4. ASSUME NEW w \in Workers, w # DemoThread,
             PostSample(w) \/ HearSample(w) \/ SampleFails(w)
      PROVE  RunSound'
  <2>1. UNCHANGED run /\ \E j : job' = [job EXCEPT ![w] = j]
    BY <1>4 DEF PostSample, HearSample, SampleFails, SubmitTelemetry, InsertTelemetry,
                RequestFails, Start, Finish
  <2>2. job'[DemoThread] = job[DemoThread]
    BY <1>0, <1>4, <2>1
  <2> QED
    BY <1>0, <2>1, <2>2, RunStays DEF NoNewQuestion
<1>5. ASSUME NEW w \in Workers, Proceed(w) PROVE RunSound'
  <2>1. UNCHANGED run /\ (StampReceipt(w) \/ ValidateToken(w) \/ CallActuator(w))
    BY <1>5 DEF Proceed
  <2>2. Step(w)
    BY <2>1 DEF Step
  <2>3. NoNewQuestion
    BY <2>1, <2>2, NoQuestion
  <2> QED
    BY <1>0, <2>1, <2>3, RunStays
<1>6. CASE ServerDies
  <2>1. GivesUp /\ job'[DemoThread] = Idle
    BY <1>0, <1>6 DEF ServerDies, Crash
  <2>2. NoNewQuestion
    BY <2>1 DEF NoNewQuestion, Idle, NewJob, EventPhases
  <2> QED
    BY <1>0, <2>1, <2>2, RunGivesUp
<1> QED
  BY <1>1, <1>2, <1>3, <1>4, <1>5, <1>6

\* The edge client's locals.
LEMMA EdgeNext ==
    ASSUME DemoInv, TablesGrow, [DemoNext]_demoVars
    PROVE  edge' \in EdgeRecords
<1>0. edge \in EdgeRecords /\ clock \in Int
  BY DEF DemoInv, TablesGrow
<1>1. ASSUME NEW p \in EdgePhases, NEW n \in Nat, NEW t \in Int
      PROVE  /\ [edge EXCEPT !.phase = p, !.since = t] \in EdgeRecords
             /\ [edge EXCEPT !.phase = p, !.sent = n, !.since = t] \in EdgeRecords
  <2> DEFINE a == [edge EXCEPT !.phase = p]
             b == [a EXCEPT !.sent = n]
  <2>1. a \in EdgeRecords
    BY <1>0 DEF EdgeRecords
  <2>2. b \in EdgeRecords
    <3> HIDE DEF a
    <3> QED
      BY <2>1 DEF EdgeRecords
  <2>3. [b EXCEPT !.since = t] \in EdgeRecords
    <3> HIDE DEF b
    <3> QED
      BY <2>2 DEF EdgeRecords
  <2>4. [a EXCEPT !.since = t] \in EdgeRecords
    <3> HIDE DEF a
    <3> QED
      BY <2>1 DEF EdgeRecords
  <2> QED
    BY <2>3, <2>4
<1>2. EdgeStopped \in EdgeRecords
  <2>1. PICK zero \in Int : zero = 0
    OBVIOUS
  <2> QED
    BY <1>1, <2>1, Zenon DEF EdgeStopped, EdgePhases
<1>3. [edge EXCEPT !.phase = "pause", !.since = 0] \in EdgeRecords
  <2>1. PICK zero \in Int : zero = 0
    OBVIOUS
  <2> QED
    BY <1>1, <2>1, Zenon DEF EdgePhases
<1>4. [edge EXCEPT !.phase = "waiting", !.sent = edge.sent + 1, !.since = clock]
         \in EdgeRecords
  <2>1. edge.sent + 1 \in Nat
    BY <1>0 DEF EdgeRecords
  <2> QED
    BY <1>0, <1>1, <2>1 DEF EdgePhases
<1>5. \/ UNCHANGED edge
      \/ edge' \in {EdgeStopped,
                    [edge EXCEPT !.phase = "pause", !.since = 0],
                    [edge EXCEPT !.phase = "waiting", !.sent = edge.sent + 1,
                                 !.since = clock]}
  <2>1. ASSUME NEW w \in Workers, PostSample(w) \/ HearSample(w) \/ SampleFails(w)
        PROVE  \/ edge' = edge \/ edge' = EdgeStopped
               \/ edge' = [edge EXCEPT !.phase = "pause", !.since = 0]
               \/ edge' = [edge EXCEPT !.phase = "waiting", !.sent = edge.sent + 1,
                                       !.since = clock]
    BY <2>1 DEF PostSample, HearSample, SampleFails
  <2>2. CASE SampleTimesOut \/ ServerDies
    BY <2>2 DEF SampleTimesOut, ServerDies
  <2>3. CASE \/ UNCHANGED demoVars \/ PassPreflight \/ SendTelemetry
             \/ SendAuthorization \/ SendCommand \/ GetEvents \/ GetLatest
             \/ HearTelemetry \/ HearAuthorization \/ HearCommand \/ HearRefusal
             \/ RequestTimesOut \/ RequestRejected \/ TimePasses
             \/ \E w \in Workers : Proceed(w)
    BY <2>3 DEF demoVars, PassPreflight, SendTelemetry, SendAuthorization, SendCommand,
                GetEvents, GetLatest, HearTelemetry, HearAuthorization, HearCommand,
                HearRefusal, Hear, RequestTimesOut, RequestRejected, TimePasses, Proceed
  <2> QED
    BY <2>1, <2>2, <2>3 DEF DemoNext
<1> QED
  BY <1>0, <1>2, <1>3, <1>4, <1>5

LEMMA DemoInitSound == DemoInit => DemoInv
<1> SUFFICES ASSUME DemoInit PROVE DemoInv
  OBVIOUS
<1>1. TypeInv /\ clock <= MaxClock
  BY TypeInit, DataAssumption DEF DemoInit, Init
<1>2. job[DemoThread].phase = "idle" /\ auths = <<>>
  BY DemoAssumption DEF DemoInit, Init, Idle, NewJob
<1>3. RunSound
  <2>1. run = NoRun /\ 0 \in 0..Len(auths) /\ "idle" \notin EventPhases
    BY <1>2 DEF DemoInit, EventPhases
  <2> QED
    BY <1>2, <2>1, ClientInit, ScriptFacts DEF RunSound
<1>4. edge \in EdgeRecords
  BY DEF DemoInit, EdgeRecords, EdgePhases
<1> QED
  BY <1>1, <1>3, <1>4 DEF DemoInv

LEMMA DemoNextSound == DemoInv /\ [DemoNext]_demoVars => DemoInv'
<1> SUFFICES ASSUME DemoInv, [DemoNext]_demoVars PROVE DemoInv'
  OBVIOUS
<1>1. [Next]_vars
  BY ServerSteps
<1>2. TypeInv' /\ clock' <= MaxClock /\ TablesGrow
  BY <1>1, ServerGrows
<1>3. RunSound'
  <2>1. CASE \/ SendTelemetry \/ SendAuthorization \/ SendCommand
             \/ HearTelemetry \/ HearAuthorization \/ HearCommand \/ HearRefusal
    BY <1>2, <2>1, RunnerKeepsSound
  <2>2. CASE GetEvents \/ GetLatest
    BY <1>2, <2>2, QueriesKeepSound
  <2>3. CASE \/ UNCHANGED demoVars \/ PassPreflight \/ RequestTimesOut \/ RequestRejected
             \/ \E w \in Workers \ {DemoThread} :
                   PostSample(w) \/ HearSample(w) \/ SampleFails(w)
             \/ SampleTimesOut
             \/ \E w \in Workers : Proceed(w)
             \/ ServerDies \/ TimePasses
    BY <1>2, <2>3, OthersKeepSound
  <2> QED
    BY <2>1, <2>2, <2>3 DEF DemoNext
<1>4. edge' \in EdgeRecords
  BY <1>2, EdgeNext
<1> QED
  BY <1>2, <1>3, <1>4 DEF DemoInv

(***************************************************************************)
(* Whatever the demo runner and an edge client do, and whenever they give  *)
(* up, the server's part of the run is a run of the evidence chain: every  *)
(* request the runner builds from its script and from earlier answers is   *)
(* one the server's model covers.                                          *)
(***************************************************************************)
THEOREM DemoRunsTheServer == DemoSpec => Spec
<1>1. DemoInit => DemoInv /\ Init
  BY DemoInitSound DEF DemoInit
<1>2. DemoInv /\ [DemoNext]_demoVars => DemoInv'
  BY DemoNextSound
<1>3. DemoInv /\ [DemoNext]_demoVars => [Next]_vars
  BY ServerSteps
<1> QED
  BY <1>1, <1>2, <1>3, PTL DEF DemoSpec, Spec

(***************************************************************************)
(* So every demo run keeps what the evidence chain promises: one command a *)
(* token, fresh and in time; acknowledged telemetry stored; superseded     *)
(* events never live again.                                                *)
(***************************************************************************)
THEOREM DemoKeepsTheChain ==
    DemoSpec => /\ [](OneTokenOneCommand /\ SpentTokensWereFresh /\ AcknowledgedIsStored)
                /\ SupersededIsFinal
                /\ ImplementsAuthority
BY DemoRunsTheServer, SingleUse, Freshness, AcknowledgedStays, SupersessionIsFinal,
   ChainImplementsAuthority, PTL

-----------------------------------------------------------------------------
(***************************************************************************)
(* Senders are heard in the order they speak.  A client has at most one    *)
(* telemetry job at a time, also one it no longer waits for, because it    *)
(* never speaks again after it gave up; and that job carries its newest    *)
(* message, stamped no earlier than any row it has stored.                 *)
(***************************************************************************)

CarriesTelemetry(w) == job[w].phase \in TelemetryPhases

IsOfClient(m, sender) == m \in ClientMessages /\ m[1] = sender

RowsArePast ==
    /\ \A e \in Events : rows[e].receivedAt <= clock
    /\ \A w \in Workers : job[w].phase = "insert" => job[w].now <= clock

JobsAreNewest ==
    \A w \in Workers, e \in Events :
        LET m == rows[e].report.msg
            n == job[w].report.msg
        IN  CarriesTelemetry(w) /\ m \in ClientMessages /\ m[1] = n[1] =>
                /\ m[2] < n[2]
                /\ job[w].phase = "insert" => rows[e].receivedAt <= job[w].now

RunnerSpeaks ==
    /\ run.phase \in {"ready", "sleeping"} => job[DemoThread].phase = "idle"
    /\ CarriesTelemetry(DemoThread) =>
          /\ IsOfClient(job[DemoThread].report.msg, "demo")
          /\ run.phase = "waiting" =>
                job[DemoThread].report.msg = DemoMessage(Len(run.answers) + 1)
    /\ run.phase \in UnderWay =>
          \A e \in Events : IsOfClient(rows[e].report.msg, "demo") =>
                               rows[e].report.msg[2] <= Len(run.answers)

EdgeSpeaks ==
    /\ \A w \in Workers \ {DemoThread} : CarriesTelemetry(w) =>
          /\ edge.phase # "pause"
          /\ job[w].report.msg = EdgeMessage(edge.sent)
          /\ IsOfClient(job[w].report.msg, "edge")
          /\ \A v \in Workers \ {DemoThread} : CarriesTelemetry(v) => v = w
    /\ \A e \in Events : IsOfClient(rows[e].report.msg, "edge") =>
                            rows[e].report.msg[2] <= edge.sent

ServerOrder == RowsArePast /\ JobsAreNewest /\ SendersAreHeardInOrder

SpeechInv == ServerOrder /\ RunnerSpeaks /\ EdgeSpeaks

LEMMA MessageParts ==
    /\ \A m \in ClientMessages : m[2] \in Nat
    /\ \A i \in Telemetry : IsOfClient(DemoMessage(i), "demo") /\ DemoMessage(i)[2] = i
    /\ \A n \in DOMAIN EdgeReadings :
          IsOfClient(EdgeMessage(n), "edge") /\ EdgeMessage(n)[2] = n
    /\ \A m : ~(IsOfClient(m, "demo") /\ IsOfClient(m, "edge"))
<1>1. Telemetry \subseteq Nat
  <2>1. Script \in Seq([at: Nat, action: Actions, body: Bodies \union {None}])
    BY DemoAssumption DEF CanonicalScript
  <2>2. DOMAIN Script \subseteq Nat
    BY <2>1, LenProperties
  <2> QED
    BY <2>2 DEF Telemetry, StepsOf
<1>2. DOMAIN EdgeReadings \subseteq Nat
  BY DemoAssumption, LenProperties
<1> QED
  BY <1>1, <1>2 DEF IsOfClient, ClientMessages, DemoMessage, EdgeMessage

-----------------------------------------------------------------------------
(***************************************************************************)
(* The order of the server's rows and jobs, step by step.                  *)
(***************************************************************************)

\* No row is added and no job takes up telemetry.
LEMMA QuietKeepsOrder ==
    ASSUME TypeInv, TypeInv', ServerOrder, UNCHANGED rows, clock <= clock',
           \A w \in Workers : CarriesTelemetry(w)' => job'[w] = job[w]
    PROVE  ServerOrder'
<1>1. clock \in Int /\ clock' \in Int
  BY DEF TypeInv, TypeOK
<1>2. Events' = Events
  BY DEF Events
<1>3. \A e \in Events : rows[e].receivedAt \in Int
  BY RowsAreTyped DEF TypeInv
<1>4. \A w \in Workers : job[w].now \in Int
  BY DEF TypeInv, TypeOK, Jobs
<1>5. RowsArePast'
  <2>1. \A w \in Workers : job'[w].phase = "insert" => job'[w] = job[w]
    BY DEF CarriesTelemetry, TelemetryPhases
  <2> QED
    BY <1>1, <1>2, <1>3, <1>4, <2>1 DEF ServerOrder, RowsArePast
<1>6. JobsAreNewest'
  BY <1>2 DEF ServerOrder, JobsAreNewest, CarriesTelemetry
<1>7. SendersAreHeardInOrder'
  BY <1>2 DEF ServerOrder, SendersAreHeardInOrder, Later
<1> QED
  BY <1>5, <1>6, <1>7 DEF ServerOrder

\* A client submits a message that is newer than all it has stored.
LEMMA SubmitKeepsOrder ==
    ASSUME TypeInv, ServerOrder, NEW w \in Workers, NEW r, SubmitTelemetry(w, r),
           \A e \in Events :
              rows[e].report.msg \in ClientMessages /\ rows[e].report.msg[1] = r.msg[1] =>
                 rows[e].report.msg[2] < r.msg[2]
    PROVE  ServerOrder'
<1>1. /\ UNCHANGED <<clock, rows>> /\ Events' = Events
      /\ job \in [Workers -> Jobs]
  BY DEF SubmitTelemetry, Events, TypeInv, TypeOK
<1>2. /\ job'[w].phase \in {"lookup", "stamp"} /\ job'[w].report = r
      /\ \A v \in Workers : v # w => job'[v] = job[v]
  BY <1>1 DEF SubmitTelemetry, Start, NewJob
<1>3. RowsArePast'
  BY <1>1, <1>2 DEF ServerOrder, RowsArePast
<1>4. JobsAreNewest'
  BY <1>1, <1>2 DEF ServerOrder, JobsAreNewest, CarriesTelemetry
<1>5. SendersAreHeardInOrder'
  BY <1>1 DEF ServerOrder, SendersAreHeardInOrder, Later
<1> QED
  BY <1>3, <1>4, <1>5 DEF ServerOrder

\* A receipt is stamped when all rows are of the past.
LEMMA StampKeepsOrder ==
    ASSUME TypeInv, ServerOrder, NEW w \in Workers, StampReceipt(w)
    PROVE  ServerOrder'
<1>1. /\ UNCHANGED <<clock, rows>> /\ Events' = Events
      /\ job \in [Workers -> Jobs] /\ clock \in Int
  BY DEF StampReceipt, Events, TypeInv, TypeOK
<1>2. /\ job'[w].report = job[w].report /\ job'[w].now = clock
      /\ CarriesTelemetry(w)
      /\ \A v \in Workers : v # w => job'[v] = job[v]
  BY <1>1 DEF StampReceipt, NewJob, CarriesTelemetry, TelemetryPhases
<1>3. RowsArePast'
  BY <1>1, <1>2 DEF ServerOrder, RowsArePast
<1>4. JobsAreNewest'
  <2>1. ASSUME NEW v \in Workers, NEW e \in Events, CarriesTelemetry(v)',
               rows[e].report.msg \in ClientMessages,
               rows[e].report.msg[1] = job'[v].report.msg[1]
        PROVE  /\ rows[e].report.msg[2] < job'[v].report.msg[2]
               /\ job'[v].phase = "insert" => rows[e].receivedAt <= job'[v].now
    <3>1. CASE v = w
      BY <1>1, <1>2, <2>1, <3>1 DEF ServerOrder, RowsArePast, JobsAreNewest
    <3>2. CASE v # w
      BY <1>1, <1>2, <2>1, <3>2 DEF ServerOrder, JobsAreNewest, CarriesTelemetry
    <3> QED
      BY <3>1, <3>2
  <2> QED
    BY <1>1, <2>1 DEF JobsAreNewest
<1>5. SendersAreHeardInOrder'
  BY <1>1 DEF ServerOrder, SendersAreHeardInOrder, Later
<1> QED
  BY <1>3, <1>4, <1>5 DEF ServerOrder

\* A row is added by the only telemetry job of its sender.
LEMMA InsertKeepsOrder ==
    ASSUME TypeInv, ServerOrder, NEW w \in Workers, InsertTelemetry(w),
           \A v \in Workers : CarriesTelemetry(v) /\ v # w =>
              job[v].report.msg[1] # job[w].report.msg[1]
    PROVE  ServerOrder'
<1> DEFINE n == Len(rows) + 1
           msg == job[w].report.msg
<1>1. /\ UNCHANGED clock /\ clock \in Int /\ job \in [Workers -> Jobs]
      /\ job[w].phase = "insert" /\ CarriesTelemetry(w)
  BY DEF InsertTelemetry, TypeInv, TypeOK, CarriesTelemetry, TelemetryPhases
<1>2. /\ Events' = Events \union {n} /\ n \notin Events /\ \A e \in Events : e < n
      /\ \A e \in Events : rows'[e] = rows[e]
      /\ rows'[n].report = job[w].report /\ rows'[n].receivedAt = job[w].now
  <2>1. /\ Len(rows') = Len(rows) + 1 /\ Len(rows) \in Nat
        /\ \A e \in Events : rows'[e] = rows[e]
        /\ rows'[n].report = job[w].report /\ rows'[n].receivedAt = job[w].now
    BY RowAppended, LenProperties DEF TypeInv, TypeOK
  <2> QED
    BY <2>1 DEF Events
<1>3. /\ job'[w].phase = "idle"
      /\ \A v \in Workers : v # w => job'[v] = job[v]
  BY <1>1 DEF InsertTelemetry, Finish, Idle, NewJob
<1> HIDE DEF n
<1>4. RowsArePast'
  <2>1. job[w].now <= clock
    BY <1>1 DEF ServerOrder, RowsArePast
  <2>2. \A e \in Events' : rows'[e].receivedAt <= clock
    BY <1>2, <2>1 DEF ServerOrder, RowsArePast
  <2>3. \A v \in Workers : job'[v].phase = "insert" => job'[v].now <= clock
    BY <1>3 DEF ServerOrder, RowsArePast
  <2> QED
    BY <1>1, <2>2, <2>3 DEF RowsArePast
<1>5. JobsAreNewest'
  <2>1. ASSUME NEW v \in Workers, NEW e \in Events', CarriesTelemetry(v)',
               rows'[e].report.msg \in ClientMessages,
               rows'[e].report.msg[1] = job'[v].report.msg[1]
        PROVE  /\ rows'[e].report.msg[2] < job'[v].report.msg[2]
               /\ job'[v].phase = "insert" => rows'[e].receivedAt <= job'[v].now
    <3>1. v # w /\ job'[v] = job[v] /\ CarriesTelemetry(v)
      BY <1>3, <2>1 DEF CarriesTelemetry, TelemetryPhases
    <3>2. e # n
      BY <1>2, <2>1, <3>1
    <3>3. e \in Events /\ rows'[e] = rows[e]
      BY <1>2, <3>2
    <3> QED
      BY <2>1, <3>1, <3>3 DEF ServerOrder, JobsAreNewest
  <2> QED
    BY <2>1 DEF JobsAreNewest
<1>6. SendersAreHeardInOrder'
  <2>1. \A e \in Events : rows[e].receivedAt \in Int
    BY RowsAreTyped DEF TypeInv
  <2>2. job[w].now \in Int
    BY <1>1 DEF Jobs
  <2>3. ASSUME NEW e \in Events', NEW f \in Events',
               rows'[e].report.msg \in ClientMessages,
               rows'[f].report.msg \in ClientMessages,
               rows'[e].report.msg[1] = rows'[f].report.msg[1],
               rows'[e].report.msg[2] < rows'[f].report.msg[2]
        PROVE  Later(f, e)'
    <3>1. CASE e \in Events /\ f \in Events
      BY <1>2, <2>3, <3>1 DEF ServerOrder, SendersAreHeardInOrder, Later
    <3>2. CASE e \in Events /\ f = n
      <4>1. rows[e].receivedAt <= job[w].now
        BY <1>1, <1>2, <2>3, <3>2 DEF ServerOrder, JobsAreNewest
      <4> QED
        BY <1>2, <2>1, <2>2, <3>2, <4>1 DEF Later
    <3>3. CASE e = n /\ f \in Events
      <4>1. rows[f].report.msg[2] < msg[2]
        BY <1>1, <1>2, <2>3, <3>3 DEF ServerOrder, JobsAreNewest
      <4>2. msg[2] \in Nat /\ rows[f].report.msg[2] \in Nat
        BY <1>2, <2>3, <3>3, MessageParts
      <4> QED
        BY <1>2, <2>3, <3>3, <4>1, <4>2
    <3>4. CASE e = n /\ f = n
      <4>1. msg[2] \in Nat
        BY <1>2, <2>3, <3>4, MessageParts
      <4> QED
        BY <2>3, <3>4, <4>1, <1>2
    <3> QED
      BY <1>2, <3>1, <3>2, <3>3, <3>4
  <2> QED
    BY <2>3 DEF SendersAreHeardInOrder
<1> QED
  BY <1>4, <1>5, <1>6 DEF ServerOrder

-----------------------------------------------------------------------------
(***************************************************************************)
(* What each client has said, by what a step does to it.                   *)
(***************************************************************************)

\* A worker's job is over or carries the telemetry it carried.
SameTelemetry(w) ==
    CarriesTelemetry(w)' => CarriesTelemetry(w) /\ job'[w].report = job[w].report

OldRow(e) == e \in Events /\ rows'[e].report = rows[e].report

LEMMA RunnerStaysHeard ==
    ASSUME RunnerSpeaks, SameTelemetry(DemoThread),
           job[DemoThread].phase = "idle" => job'[DemoThread].phase = "idle",
           run' = run \/ run'.phase \notin UnderWay,
           \A e \in Events' : IsOfClient(rows'[e].report.msg, "demo") =>
                                 OldRow(e) \/ run'.phase \notin UnderWay
    PROVE  RunnerSpeaks'
<1>1. {"ready", "sleeping", "waiting"} \subseteq UnderWay
  BY DEF UnderWay
<1>2. CASE run'.phase \notin UnderWay
  BY <1>1, <1>2 DEF RunnerSpeaks, SameTelemetry
<1>3. CASE run' = run /\ run'.phase \in UnderWay
  BY <1>1, <1>3 DEF RunnerSpeaks, SameTelemetry, OldRow
<1> QED
  BY <1>2, <1>3

LEMMA RunnerGoesOnHeard ==
    ASSUME RunnerSpeaks, run.phase \in UnderWay,
           Len(run.answers) \in Nat, Len(run'.answers) \in Nat,
           Len(run.answers) <= Len(run'.answers),
           job'[DemoThread].phase = "idle",
           \A e \in Events' : IsOfClient(rows'[e].report.msg, "demo") =>
                                 OldRow(e) \/ rows'[e].report.msg[2] <= Len(run'.answers)
    PROVE  RunnerSpeaks'
<1>1. ~CarriesTelemetry(DemoThread)'
  BY DEF CarriesTelemetry, TelemetryPhases
<1>2. ASSUME NEW e \in Events', IsOfClient(rows'[e].report.msg, "demo"), OldRow(e)
      PROVE  rows'[e].report.msg[2] <= Len(run'.answers)
  <2>1. rows'[e].report.msg[2] <= Len(run.answers)
    BY <1>2 DEF RunnerSpeaks, OldRow
  <2>2. rows'[e].report.msg[2] \in Nat
    BY <1>2, MessageParts DEF IsOfClient
  <2> QED
    BY <2>1, <2>2
<1> QED
  BY <1>1, <1>2 DEF RunnerSpeaks

LEMMA RunnerSpeaksNext ==
    ASSUME RunnerSpeaks, run.phase \in UnderWay,
           run'.phase = "waiting", run'.answers = run.answers, UNCHANGED rows,
           CarriesTelemetry(DemoThread)' =>
              /\ job'[DemoThread].report.msg = DemoMessage(Len(run.answers) + 1)
              /\ IsOfClient(job'[DemoThread].report.msg, "demo")
    PROVE  RunnerSpeaks'
BY DEF RunnerSpeaks, Events

LEMMA EdgeStaysHeard ==
    ASSUME EdgeSpeaks, edge'.sent = edge.sent,
           \A w \in Workers \ {DemoThread} : SameTelemetry(w),
           \/ edge'.phase = "pause" => edge.phase = "pause"
           \/ \A w \in Workers \ {DemoThread} : ~CarriesTelemetry(w)',
           \A e \in Events' : IsOfClient(rows'[e].report.msg, "edge") =>
                                 OldRow(e) \/ rows'[e].report.msg[2] <= edge.sent
    PROVE  EdgeSpeaks'
<1>1. ASSUME NEW w \in Workers \ {DemoThread}, CarriesTelemetry(w)'
      PROVE  /\ edge'.phase # "pause"
             /\ job'[w].report.msg = EdgeMessage(edge'.sent)
             /\ IsOfClient(job'[w].report.msg, "edge")
             /\ \A v \in Workers \ {DemoThread} : CarriesTelemetry(v)' => v = w
  BY <1>1 DEF EdgeSpeaks, SameTelemetry
<1>2. \A e \in Events' : IsOfClient(rows'[e].report.msg, "edge") =>
                            rows'[e].report.msg[2] <= edge'.sent
  BY DEF EdgeSpeaks, OldRow
<1> QED
  BY <1>1, <1>2 DEF EdgeSpeaks

\* The rows a step keeps are old ones.
LEMMA SameRows ==
    ASSUME UNCHANGED rows
    PROVE  Events' = Events /\ \A e \in Events' : OldRow(e)
BY DEF Events, OldRow

\* Of a step of worker w that ends its job or moves it on without telemetry.
LEMMA QuietJobs ==
    ASSUME TypeInv, NEW w \in Workers, NEW j, job' = [job EXCEPT ![w] = j],
           j.phase \notin TelemetryPhases
    PROVE  /\ \A v \in Workers : CarriesTelemetry(v)' => job'[v] = job[v]
           /\ \A v \in Workers : SameTelemetry(v)
<1>1. \A v \in Workers : job'[v] = IF v = w THEN j ELSE job[v]
  BY DEF TypeInv, TypeOK
<1> QED
  BY <1>1 DEF CarriesTelemetry, SameTelemetry

LEMMA IdleIsQuiet == Idle.phase = "idle" /\ "idle" \notin TelemetryPhases
BY DEF Idle, NewJob, TelemetryPhases

LEMMA SendsAreHeard ==
    ASSUME DemoInv, SpeechInv, SendTelemetry
    PROVE  SpeechInv'
<1> DEFINE n == Len(run.answers) + 1
           r == [msg |-> DemoMessage(n), scope |-> DemoScope,
                 body |-> Turn.body, cap |-> clock]
<1>0. /\ TypeInv /\ RunSound /\ DemoThread \in Workers /\ job \in [Workers -> Jobs]
      /\ run.phase = "sleeping" /\ run.phase \in UnderWay /\ clock \in Int
      /\ run \in RunRecords /\ Len(run.answers) \in Nat
  BY DemoAssumption, LenProperties
  DEF DemoInv, TypeInv, TypeOK, SendTelemetry, Wakes, UnderWay, RunSound, RunRecords
<1>1. SubmitTelemetry(DemoThread, r) /\ UNCHANGED edge /\ run' = Sent
  BY <1>0 DEF SendTelemetry
<1>2. n \in Telemetry
  <2>1. n \in DOMAIN Script /\ Turn.action = "telemetry"
    <3>1. Script \in Seq([at: Nat, action: Actions, body: Bodies \union {None}])
      BY DemoAssumption DEF CanonicalScript
    <3> QED
      BY <1>0, <3>1, ScriptTurn, LenProperties DEF SendTelemetry, Wakes
  <2> QED
    BY <2>1 DEF Telemetry, StepsOf, Turn
<1>3. IsOfClient(DemoMessage(n), "demo") /\ DemoMessage(n)[2] = n
  BY <1>2, MessageParts
<1>4. /\ UNCHANGED rows /\ job[DemoThread].phase = "idle"
      /\ job'[DemoThread].report.msg = DemoMessage(n)
      /\ \A v \in Workers : v # DemoThread => job'[v] = job[v]
  BY <1>0, <1>1 DEF SubmitTelemetry, Start, NewJob
<1>5. run'.phase = "waiting" /\ run'.answers = run.answers
  BY <1>0, <1>1, SentFields
<1>6. ServerOrder'
  <2>1. r.msg = DemoMessage(n)
    OBVIOUS
  <2>2. ASSUME NEW e \in Events, rows[e].report.msg \in ClientMessages,
               rows[e].report.msg[1] = r.msg[1]
        PROVE  rows[e].report.msg[2] < r.msg[2]
    <3>1. IsOfClient(rows[e].report.msg, "demo")
      BY <1>3, <2>1, <2>2 DEF IsOfClient
    <3>2. rows[e].report.msg[2] <= Len(run.answers) /\ rows[e].report.msg[2] \in Nat
      BY <1>0, <2>2, <3>1, MessageParts DEF SpeechInv, RunnerSpeaks
    <3> QED
      BY <1>0, <1>3, <2>1, <3>2
  <2> HIDE DEF r
  <2> QED
    BY <1>0, <1>1, <2>2, SubmitKeepsOrder DEF SpeechInv
<1>7. RunnerSpeaks'
  BY <1>0, <1>3, <1>4, <1>5, RunnerSpeaksNext DEF SpeechInv
<1>8. EdgeSpeaks'
  <2>1. \A v \in Workers \ {DemoThread} : SameTelemetry(v)
    BY <1>4 DEF SameTelemetry, CarriesTelemetry
  <2> QED
    BY <1>1, <1>4, <2>1, SameRows, EdgeStaysHeard DEF SpeechInv
<1> QED
  BY <1>6, <1>7, <1>8 DEF SpeechInv

LEMMA AsksAreQuiet ==
    ASSUME DemoInv, SpeechInv, TypeInv', SendAuthorization \/ SendCommand
    PROVE  SpeechInv'
<1>0. /\ TypeInv /\ DemoThread \in Workers /\ clock \in Int
      /\ run.phase \in UnderWay /\ run \in RunRecords /\ run' = Sent
      /\ UNCHANGED <<clock, rows, edge>>
  BY DemoAssumption
  DEF DemoInv, TypeInv, TypeOK, SendAuthorization, SendCommand, RequestAuthorization,
      RequestMigration, Wakes, UnderWay, RunSound
<1>1. PICK j : job' = [job EXCEPT ![DemoThread] = j] /\ j.phase \notin TelemetryPhases
  BY DEF SendAuthorization, SendCommand, RequestAuthorization, RequestMigration, Start,
         NewJob, TelemetryPhases
<1>2. /\ \A v \in Workers : CarriesTelemetry(v)' => job'[v] = job[v]
      /\ \A v \in Workers : SameTelemetry(v)
  BY <1>0, <1>1, QuietJobs
<1>3. ~CarriesTelemetry(DemoThread)'
  BY <1>0, <1>1 DEF CarriesTelemetry, TypeInv, TypeOK
<1>4. run'.phase = "waiting" /\ run'.answers = run.answers
  BY <1>0, SentFields
<1>5. ServerOrder'
  BY <1>0, <1>2, QuietKeepsOrder DEF SpeechInv
<1>6. RunnerSpeaks'
  BY <1>0, <1>3, <1>4, RunnerSpeaksNext DEF SpeechInv
<1>7. EdgeSpeaks'
  BY <1>0, <1>2, SameRows, EdgeStaysHeard DEF SpeechInv
<1> QED
  BY <1>5, <1>6, <1>7 DEF SpeechInv

\* A step the server takes no part in.
LEMMA ClientsAlone ==
    ASSUME DemoInv, SpeechInv, TypeInv',
           \/ UNCHANGED demoVars \/ PassPreflight \/ GetEvents \/ GetLatest
           \/ RequestTimesOut \/ RequestRejected \/ SampleTimesOut
    PROVE  SpeechInv'
<1>0. /\ TypeInv /\ DemoThread \in Workers /\ clock \in Int /\ run \in RunRecords
      /\ UNCHANGED <<clock, rows, job>> /\ "failed" \notin UnderWay
      /\ Len(run.answers) \in Nat /\ Len(rows) \in Nat
  <2>1. UNCHANGED vars
    BY DEF demoVars, PassPreflight, GetEvents, GetLatest, RequestTimesOut,
           RequestRejected, SampleTimesOut
  <2>2. UNCHANGED <<clock, rows, job>>
    BY <2>1 DEF vars
  <2>3. TypeInv /\ clock \in Int /\ run \in RunRecords /\ Len(rows) \in Nat
    BY LenProperties DEF DemoInv, TypeInv, TypeOK, RunSound
  <2>4. Len(run.answers) \in Nat
    BY <2>3, LenProperties DEF RunRecords
  <2> QED
    BY <2>2, <2>3, <2>4, DemoAssumption DEF UnderWay
<1>1. \A w \in Workers : CarriesTelemetry(w)' => job'[w] = job[w]
  BY <1>0
<1>2. \A w \in Workers : SameTelemetry(w)
  BY <1>0 DEF SameTelemetry, CarriesTelemetry
<1>3. ServerOrder'
  BY <1>0, <1>1, QuietKeepsOrder DEF SpeechInv
<1>4. RunnerSpeaks'
  <2>1. CASE UNCHANGED demoVars \/ SampleTimesOut \/ RequestTimesOut \/ RequestRejected
    <3>1. run' = run \/ run'.phase \notin UnderWay
      BY <1>0, <2>1, ClientInit DEF demoVars, SampleTimesOut, RequestTimesOut, RequestRejected
    <3> QED
      BY <1>0, <1>2, <3>1, SameRows, RunnerStaysHeard DEF SpeechInv
  <2>2. CASE PassPreflight
    <3>1. run.phase \in UnderWay /\ job'[DemoThread].phase = "idle"
      BY <1>0, <2>2 DEF PassPreflight, UnderWay, SpeechInv, RunnerSpeaks
    <3>2. run'.answers = run.answers
      BY <1>0, <2>2 DEF PassPreflight, RunRecords
    <3> QED
      BY <1>0, <3>1, <3>2, SameRows, RunnerGoesOnHeard DEF SpeechInv
  <2>3. CASE GetEvents \/ GetLatest
    <3>1. run.phase \in UnderWay /\ job'[DemoThread].phase = "idle"
      BY <1>0, <2>3 DEF GetEvents, GetLatest, Wakes, UnderWay, SpeechInv, RunnerSpeaks
    <3>2. PICK r : r = Sent
      OBVIOUS
    <3>3. r \in RunRecords /\ r.answers = run.answers
      BY <1>0, <3>2, SentFields
    <3>4. ASSUME NEW events \in SUBSET Nat, run' = Answered(r, events, Len(rows))
          PROVE  Len(run'.answers) = Len(run.answers) + 1
      <4>1. PICK a : a = Answered(r, events, Len(rows))
        OBVIOUS
      <4> QED
        BY <1>0, <3>3, <3>4, <4>1, AnsweredFields
    <3>5. run' = Failed \/ Len(run'.answers) = Len(run.answers) + 1
      <4>1. CASE GetEvents
        <5>1. PICK listed \in ListEvents :
                 run' = Answered(Sent, listed, Len(rows)) \/ run' = Failed
          BY <4>1 DEF GetEvents
        <5>2. listed \in SUBSET Nat
          BY DEF ListEvents, Newest, EventsOf, Events
        <5> QED
          BY <3>2, <3>4, <5>1, <5>2
      <4>2. CASE GetLatest
        <5>1. run' = Answered(Sent, LatestFresh, Len(rows)) \/ run' = Failed
          BY <4>2 DEF GetLatest
        <5>2. LatestFresh \in SUBSET Nat
          BY DEF LatestFresh, EventsOf, Events
        <5> QED
          BY <3>2, <3>4, <5>1, <5>2
      <4> QED
        BY <2>3, <4>1, <4>2
    <3>6. CASE run' = Failed
      BY <1>0, <1>2, <3>6, ClientInit, SameRows, RunnerStaysHeard DEF SpeechInv
    <3>7. CASE Len(run'.answers) = Len(run.answers) + 1
      BY <1>0, <3>1, <3>7, SameRows, RunnerGoesOnHeard DEF SpeechInv
    <3> QED
      BY <3>5, <3>6, <3>7
  <2> QED
    BY <2>1, <2>2, <2>3
<1>5. EdgeSpeaks'
  <2>1. edge'.sent = edge.sent /\ (edge'.phase = "pause" => edge.phase = "pause")
    BY DEF demoVars, PassPreflight, GetEvents, GetLatest, RequestTimesOut, RequestRejected,
           SampleTimesOut, EdgeStopped, DemoInv, EdgeRecords
  <2> QED
    BY <1>0, <1>2, <2>1, SameRows, EdgeStaysHeard DEF SpeechInv
<1> QED
  BY <1>3, <1>4, <1>5 DEF SpeechInv

\* The runner hears, or no longer waits.
LEMMA HearKinds ==
    ASSUME DemoInv, NEW r \in RunRecords, r.answers = run.answers,
           NEW events \in SUBSET Nat, Hear(r, events)
    PROVE  \/ run' = run /\ run.phase # "waiting"
           \/ run'.phase \notin UnderWay
           \/ run.phase = "waiting" /\ Len(run'.answers) = Len(run.answers) + 1
<1>0. clock \in Int /\ 0 \in Nat /\ "failed" \notin UnderWay
  BY DEF DemoInv, TypeInv, TypeOK, UnderWay
<1>1. PICK a : a = Answered(r, events, 0)
  OBVIOUS
<1>2. Len(a.answers) = Len(run.answers) + 1
  BY <1>0, <1>1, AnsweredFields
<1> QED
  BY <1>0, <1>1, <1>2, ClientInit DEF Hear

LEMMA QuietSteps ==
    ASSUME TypeInv, NEW w \in Workers,
           Finish(w) \/ ValidateToken(w) \/ CallActuator(w)
    PROVE  /\ \A v \in Workers : CarriesTelemetry(v)' => job'[v] = job[v]
           /\ \A v \in Workers : SameTelemetry(v)
           /\ \A v \in Workers : job[v].phase = "idle" => job'[v].phase = "idle"
<1>1. job \in [Workers -> Jobs] /\ job[w] \in Jobs
  BY DEF TypeInv, TypeOK
<1>2. PICK j : job' = [job EXCEPT ![w] = j] /\ j.phase \notin TelemetryPhases
  <2>1. CASE Finish(w)
    BY <2>1, IdleIsQuiet DEF Finish
  <2>2. ASSUME NEW p \in {"actuate", "consume"}, job' = [job EXCEPT ![w].phase = p]
        PROVE  \E j : job' = [job EXCEPT ![w] = j] /\ j.phase \notin TelemetryPhases
    <3>1. [job[w] EXCEPT !.phase = p].phase = p
      BY <1>1 DEF Jobs
    <3> QED
      BY <2>2, <3>1 DEF TelemetryPhases
  <2> QED
    BY <2>1, <2>2 DEF ValidateToken, CallActuator, Advance
<1>3. \A v \in Workers : job[v].phase = "idle" => job'[v].phase = "idle"
  <2>1. job[w].phase = "idle" => job'[w].phase = "idle"
    BY <1>1, IdleIsQuiet DEF ValidateToken, CallActuator, Finish
  <2>2. \A v \in Workers : v # w => job'[v] = job[v]
    BY <1>1, <1>2
  <2> QED
    BY <2>1, <2>2
<1> QED
  BY <1>2, <1>3, QuietJobs

\* The row an insertion adds, and the jobs it leaves alone.
LEMMA InsertedRow ==
    ASSUME TypeInv, NEW w \in Workers, InsertTelemetry(w)
    PROVE  /\ \A e \in Events' : OldRow(e) \/ rows'[e].report = job[w].report
           /\ CarriesTelemetry(w) /\ job'[w].phase = "idle"
           /\ \A v \in Workers : v # w => job'[v] = job[v]
           /\ \A v \in Workers : SameTelemetry(v)
<1>1. /\ job[w].phase = "insert" /\ job \in [Workers -> Jobs]
      /\ job' = [job EXCEPT ![w] = Idle]
  BY DEF InsertTelemetry, Finish, TypeInv, TypeOK
<1>2. /\ CarriesTelemetry(w) /\ job'[w].phase = "idle"
      /\ \A v \in Workers : v # w => job'[v] = job[v]
  BY <1>1, IdleIsQuiet DEF CarriesTelemetry, TelemetryPhases
<1>3. \A e \in Events' : OldRow(e) \/ rows'[e].report = job[w].report
  <2>1. /\ Len(rows') = Len(rows) + 1 /\ Len(rows) \in Nat
        /\ \A e \in Events : rows'[e] = rows[e]
        /\ rows'[Len(rows) + 1].report = job[w].report
    BY RowAppended, LenProperties DEF TypeInv, TypeOK
  <2> QED
    BY <2>1 DEF Events, OldRow
<1>4. \A v \in Workers : SameTelemetry(v)
  BY <1>1, QuietJobs, IdleIsQuiet DEF TypeInv
<1> QED
  BY <1>2, <1>3, <1>4

LEMMA RunnerHearsTelemetry ==
    ASSUME DemoInv, SpeechInv, HearTelemetry
    PROVE  SpeechInv'
<1> DEFINE n == Len(rows) + 1
           r == [run EXCEPT !.event = n]
           msg == job[DemoThread].report.msg
<1>0. /\ TypeInv /\ DemoThread \in Workers /\ run \in RunRecords
      /\ Len(run.answers) \in Nat /\ n \in Nat
      /\ InsertTelemetry(DemoThread) /\ UNCHANGED edge /\ Hear(r, {n})
      /\ "waiting" \in UnderWay
  BY DemoAssumption, LenProperties
  DEF DemoInv, TypeInv, TypeOK, RunSound, RunRecords, HearTelemetry, Hear, UnderWay
<1>1. r \in RunRecords /\ r.answers = run.answers
  <2> HIDE DEF n
  <2> QED
    BY <1>0 DEF RunRecords
<1>2. /\ \A e \in Events' : OldRow(e) \/ rows'[e].report = job[DemoThread].report
      /\ CarriesTelemetry(DemoThread) /\ job'[DemoThread].phase = "idle"
      /\ \A v \in Workers : SameTelemetry(v)
  BY <1>0, InsertedRow
<1>3. /\ IsOfClient(msg, "demo")
      /\ run.phase = "waiting" => msg = DemoMessage(Len(run.answers) + 1)
      /\ run.phase \notin {"ready", "sleeping"}
  BY <1>2 DEF SpeechInv, RunnerSpeaks, CarriesTelemetry, TelemetryPhases
<1>4. ServerOrder'
  <2>1. \A v \in Workers : CarriesTelemetry(v) /\ v # DemoThread =>
           job[v].report.msg[1] # msg[1]
    BY <1>3 DEF SpeechInv, EdgeSpeaks, IsOfClient
  <2> QED
    BY <1>0, <2>1, InsertKeepsOrder DEF SpeechInv
<1>5. RunnerSpeaks'
  <2>1. \/ run'.phase \notin UnderWay
        \/ run.phase = "waiting" /\ Len(run'.answers) = Len(run.answers) + 1
    <3>1. run.phase # "waiting" => run.phase \notin UnderWay
      BY <1>3 DEF UnderWay
    <3>2. {n} \in SUBSET Nat
      BY <1>0
    <3> HIDE DEF r, n
    <3> QED
      BY <1>0, <1>1, <3>1, <3>2, HearKinds
  <2>2. CASE run'.phase \notin UnderWay
    BY <1>2, <2>2, <1>0, RunnerStaysHeard DEF SpeechInv
  <2>3. CASE run.phase = "waiting" /\ Len(run'.answers) = Len(run.answers) + 1
    <3>1. msg[2] = Len(run'.answers)
      BY <1>3, <2>3 DEF DemoMessage
    <3>2. \A e \in Events' : OldRow(e) \/ rows'[e].report.msg[2] <= Len(run'.answers)
      BY <1>0, <1>2, <2>3, <3>1
    <3> QED
      BY <1>0, <1>2, <2>3, <3>2, RunnerGoesOnHeard DEF SpeechInv
  <2> QED
    BY <2>1, <2>2, <2>3
<1>6. EdgeSpeaks'
  <2>1. \A e \in Events' : IsOfClient(rows'[e].report.msg, "edge") => OldRow(e)
    BY <1>2, <1>3, MessageParts
  <2> QED
    BY <1>0, <1>2, <2>1, EdgeStaysHeard DEF SpeechInv
<1> QED
  BY <1>4, <1>5, <1>6 DEF SpeechInv

LEMMA RunnerHearsOthers ==
    ASSUME DemoInv, SpeechInv, TypeInv', HearAuthorization \/ HearCommand \/ HearRefusal
    PROVE  SpeechInv'
<1>0. /\ TypeInv /\ DemoThread \in Workers /\ run \in RunRecords /\ clock \in Int
      /\ Len(run.answers) \in Nat /\ UNCHANGED <<clock, rows, edge>>
      /\ "failed" \notin UnderWay /\ "waiting" \in UnderWay
  <2>1. UNCHANGED <<clock, rows, edge>>
    BY DEF HearAuthorization, HearCommand, HearRefusal, Hear, GrantAuthorization,
           ConsumeToken, RefuseAuthorization, ValidateToken, RefuseCommand, RequestFails
  <2>2. TypeInv /\ clock \in Int /\ run \in RunRecords
    BY DEF DemoInv, TypeInv, TypeOK, RunSound
  <2>3. Len(run.answers) \in Nat
    BY <2>2, LenProperties DEF RunRecords
  <2> QED
    BY <2>1, <2>2, <2>3, DemoAssumption DEF UnderWay
<1>1. /\ \A v \in Workers : CarriesTelemetry(v)' => job'[v] = job[v]
      /\ \A v \in Workers : SameTelemetry(v)
      /\ job'[DemoThread].phase = "idle"
  <2>1. Finish(DemoThread) \/ ValidateToken(DemoThread)
    BY DEF HearAuthorization, HearCommand, HearRefusal, GrantAuthorization, ConsumeToken,
           RefuseAuthorization, RefuseCommand, RequestFails
  <2>2. job'[DemoThread].phase = "idle"
    BY <1>0, IdleIsQuiet
    DEF HearAuthorization, HearCommand, HearRefusal, GrantAuthorization, ConsumeToken,
        RefuseAuthorization, RefuseCommand, RequestFails, Finish, TypeInv, TypeOK
  <2> QED
    BY <1>0, <2>1, <2>2, QuietSteps
<1>2. ServerOrder'
  BY <1>0, <1>1, QuietKeepsOrder DEF SpeechInv
<1>3. EdgeSpeaks'
  BY <1>0, <1>1, SameRows, EdgeStaysHeard DEF SpeechInv
<1>4. \/ run' = run \/ run'.phase \notin UnderWay
      \/ run.phase = "waiting" /\ Len(run'.answers) = Len(run.answers) + 1
  <2>1. CASE HearRefusal
    BY <1>0, <2>1, ClientInit DEF HearRefusal, GivesUp
  <2>2. CASE HearAuthorization
    <3> DEFINE n == Len(auths) + 1
               r == [run EXCEPT !.token = n]
               e == job[DemoThread].event
    <3>1. n \in Nat /\ e \in Nat
      BY <1>0, LenProperties DEF TypeInv, TypeOK, Jobs
    <3>2. r \in RunRecords /\ r.answers = run.answers
      <4> HIDE DEF n
      <4> QED
        BY <1>0, <3>1 DEF RunRecords
    <3>3. Hear(r, {e}) /\ {e} \in SUBSET Nat
      BY <2>2, <3>1 DEF HearAuthorization
    <3> HIDE DEF r, n, e
    <3> QED
      BY <3>2, <3>3, HearKinds
  <2>3. CASE HearCommand
    <3>1. Hear(run, {job[DemoThread].event}) /\ {job[DemoThread].event} \in SUBSET Nat
      BY <1>0, <2>3 DEF HearCommand, TypeInv, TypeOK, Jobs
    <3> QED
      BY <1>0, <3>1, HearKinds
  <2> QED
    BY <2>1, <2>2, <2>3
<1>5. RunnerSpeaks'
  <2>1. CASE run' = run \/ run'.phase \notin UnderWay
    BY <1>0, <1>1, <2>1, SameRows, RunnerStaysHeard DEF SpeechInv
  <2>2. CASE run.phase = "waiting" /\ Len(run'.answers) = Len(run.answers) + 1
    BY <1>0, <1>1, <2>2, SameRows, RunnerGoesOnHeard DEF SpeechInv
  <2> QED
    BY <1>4, <2>1, <2>2
<1> QED
  BY <1>2, <1>3, <1>5 DEF SpeechInv

LEMMA SamplesAreHeard ==
    ASSUME DemoInv, SpeechInv, NEW w \in Workers, w # DemoThread, PostSample(w)
    PROVE  SpeechInv'
<1> DEFINE n == edge.sent + 1
           r == [msg |-> EdgeMessage(n), scope |-> edge.scope,
                 body |-> EdgeReadings[n], cap |-> clock]
<1>0. /\ TypeInv /\ DemoThread \in Workers /\ job \in [Workers -> Jobs]
      /\ edge \in EdgeRecords /\ edge.sent \in Nat
  BY DemoAssumption DEF DemoInv, TypeInv, TypeOK, EdgeRecords
<1>1. /\ SubmitTelemetry(w, r) /\ UNCHANGED run
      /\ edge'.sent = n /\ edge'.phase = "waiting" /\ edge.phase = "pause"
  BY <1>0 DEF PostSample, EdgeRecords
<1>2. n \in DOMAIN EdgeReadings
  BY <1>0, DemoAssumption, LenProperties DEF PostSample
<1>3. IsOfClient(EdgeMessage(n), "edge") /\ EdgeMessage(n)[2] = n
  BY <1>2, MessageParts
<1>4. /\ UNCHANGED rows /\ job[w].phase = "idle"
      /\ job'[w].report.msg = EdgeMessage(n)
      /\ \A v \in Workers : v # w => job'[v] = job[v]
  BY <1>0, <1>1 DEF SubmitTelemetry, Start, NewJob
<1>5. \A e \in Events : IsOfClient(rows[e].report.msg, "edge") =>
         rows[e].report.msg[2] < n
  <2>1. ASSUME NEW e \in Events, IsOfClient(rows[e].report.msg, "edge")
        PROVE  rows[e].report.msg[2] < n
    <3>1. rows[e].report.msg[2] <= edge.sent /\ rows[e].report.msg[2] \in Nat
      BY <2>1, MessageParts DEF SpeechInv, EdgeSpeaks, IsOfClient
    <3> QED
      BY <1>0, <3>1
  <2> QED
    BY <2>1
<1>6. ServerOrder'
  <2>1. r.msg = EdgeMessage(n)
    OBVIOUS
  <2>2. ASSUME NEW e \in Events, rows[e].report.msg \in ClientMessages,
               rows[e].report.msg[1] = r.msg[1]
        PROVE  rows[e].report.msg[2] < r.msg[2]
    <3>1. IsOfClient(rows[e].report.msg, "edge")
      BY <1>3, <2>1, <2>2 DEF IsOfClient
    <3> HIDE DEF n
    <3> QED
      BY <1>3, <1>5, <2>1, <3>1
  <2> HIDE DEF r
  <2> QED
    BY <1>0, <1>1, <2>2, SubmitKeepsOrder DEF SpeechInv
<1>7. RunnerSpeaks'
  <2>1. SameTelemetry(DemoThread) /\ job'[DemoThread] = job[DemoThread]
    BY <1>0, <1>4 DEF SameTelemetry, CarriesTelemetry
  <2> QED
    BY <1>1, <1>4, <2>1, SameRows, RunnerStaysHeard DEF SpeechInv
<1>8. EdgeSpeaks'
  <2>1. \A v \in Workers \ {DemoThread} : CarriesTelemetry(v)' => v = w
    BY <1>1, <1>4 DEF SpeechInv, EdgeSpeaks, CarriesTelemetry
  <2>2. Events' = Events
    BY <1>4 DEF Events
  <2>3. \A e \in Events' : IsOfClient(rows'[e].report.msg, "edge") =>
           rows'[e].report.msg[2] <= edge'.sent
    <3>1. \A e \in Events : IsOfClient(rows[e].report.msg, "edge") =>
             rows[e].report.msg[2] \in Nat /\ rows[e].report.msg[2] <= n
      BY <1>0, <1>5, MessageParts DEF IsOfClient
    <3> QED
      BY <1>1, <1>4, <2>2, <3>1
  <2>4. ASSUME NEW v \in Workers \ {DemoThread}, CarriesTelemetry(v)'
        PROVE  /\ edge'.phase # "pause"
               /\ job'[v].report.msg = EdgeMessage(edge'.sent)
               /\ IsOfClient(job'[v].report.msg, "edge")
               /\ \A u \in Workers \ {DemoThread} : CarriesTelemetry(u)' => u = v
    BY <1>1, <1>3, <1>4, <2>1, <2>4
  <2> QED
    BY <2>3, <2>4 DEF EdgeSpeaks
<1> QED
  BY <1>6, <1>7, <1>8 DEF SpeechInv

LEMMA SampleIsHeard ==
    ASSUME DemoInv, SpeechInv, NEW w \in Workers, w # DemoThread, HearSample(w)
    PROVE  SpeechInv'
<1>0. /\ TypeInv /\ DemoThread \in Workers /\ edge.sent \in Nat
      /\ InsertTelemetry(w) /\ UNCHANGED run
  BY DemoAssumption DEF DemoInv, EdgeRecords, HearSample
<1>1. /\ \A e \in Events' : OldRow(e) \/ rows'[e].report = job[w].report
      /\ CarriesTelemetry(w) /\ job'[w].phase = "idle"
      /\ \A v \in Workers : v # w => job'[v] = job[v]
      /\ \A v \in Workers : SameTelemetry(v)
  BY <1>0, InsertedRow
<1>2. /\ IsOfClient(job[w].report.msg, "edge")
      /\ job[w].report.msg = EdgeMessage(edge.sent)
      /\ \A v \in Workers \ {DemoThread} : CarriesTelemetry(v) => v = w
  BY <1>1 DEF SpeechInv, EdgeSpeaks
<1>3. ServerOrder'
  <2>1. \A v \in Workers : CarriesTelemetry(v) /\ v # w =>
           job[v].report.msg[1] # job[w].report.msg[1]
    BY <1>2 DEF SpeechInv, RunnerSpeaks, IsOfClient
  <2> QED
    BY <1>0, <2>1, InsertKeepsOrder DEF SpeechInv
<1>4. RunnerSpeaks'
  <2>1. \A e \in Events' : IsOfClient(rows'[e].report.msg, "demo") => OldRow(e)
    BY <1>1, <1>2, MessageParts
  <2> QED
    BY <1>0, <1>1, <2>1, RunnerStaysHeard DEF SpeechInv
<1>5. EdgeSpeaks'
  <2>1. edge'.sent = edge.sent
    BY DEF HearSample, EdgeStopped, DemoInv, EdgeRecords
  <2>2. \A v \in Workers \ {DemoThread} : ~CarriesTelemetry(v)'
    BY <1>1, <1>2 DEF SameTelemetry, CarriesTelemetry, TelemetryPhases
  <2>3. job[w].report.msg[2] <= edge.sent
    BY <1>0, <1>2 DEF EdgeMessage
  <2> QED
    BY <1>1, <2>1, <2>2, <2>3, EdgeStaysHeard DEF SpeechInv
<1> QED
  BY <1>3, <1>4, <1>5 DEF SpeechInv

\* The rest: jobs end or move on, the edge client gives up, time passes.
LEMMA OthersKeepOrder ==
    ASSUME DemoInv, SpeechInv, TypeInv',
           \/ \E w \in Workers \ {DemoThread} : SampleFails(w)
           \/ \E w \in Workers : Proceed(w)
           \/ ServerDies \/ TimePasses
    PROVE  SpeechInv'
<1>0. /\ TypeInv /\ TypeOK /\ DemoThread \in Workers /\ clock \in Int
      /\ job \in [Workers -> Jobs] /\ edge \in EdgeRecords /\ "failed" \notin UnderWay
  BY DemoAssumption DEF DemoInv, TypeInv, TypeOK, UnderWay
<1>1. UNCHANGED rows /\ clock <= clock'
  BY <1>0 DEF SampleFails, RequestFails, Proceed, StampReceipt, ValidateToken, CallActuator,
              ServerDies, Crash, TimePasses, Tick
<1>2. /\ \A v \in Workers : SameTelemetry(v)
      /\ \A v \in Workers : job[v].phase = "idle" => job'[v].phase = "idle"
      /\ ServerOrder'
  <2>1. ASSUME \A v \in Workers : CarriesTelemetry(v)' => job'[v] = job[v]
        PROVE  ServerOrder'
    BY <1>0, <1>1, <2>1, QuietKeepsOrder DEF SpeechInv
  <2>2. ASSUME NEW w \in Workers, SampleFails(w) \/ ValidateToken(w) \/ CallActuator(w)
        PROVE  /\ \A v \in Workers : SameTelemetry(v)
               /\ \A v \in Workers : job[v].phase = "idle" => job'[v].phase = "idle"
               /\ ServerOrder'
    <3>1. Finish(w) \/ ValidateToken(w) \/ CallActuator(w)
      BY <2>2 DEF SampleFails, RequestFails
    <3> QED
      BY <1>0, <2>1, <3>1, QuietSteps
  <2>3. ASSUME NEW w \in Workers, StampReceipt(w)
        PROVE  /\ \A v \in Workers : SameTelemetry(v)
               /\ \A v \in Workers : job[v].phase = "idle" => job'[v].phase = "idle"
               /\ ServerOrder'
    <3>1. /\ job'[w].report = job[w].report /\ job[w].phase = "stamp"
          /\ \A v \in Workers : v # w => job'[v] = job[v]
      BY <1>0, <2>3 DEF StampReceipt, NewJob
    <3>2. \A v \in Workers : SameTelemetry(v)
      BY <3>1 DEF SameTelemetry, CarriesTelemetry, TelemetryPhases
    <3>3. \A v \in Workers : job[v].phase = "idle" => job'[v].phase = "idle"
      BY <3>1
    <3>4. ServerOrder'
      BY <1>0, <2>3, StampKeepsOrder DEF SpeechInv
    <3> QED
      BY <3>2, <3>3, <3>4
  <2>4. CASE ServerDies
    <3>1. \A v \in Workers : job'[v].phase = "idle"
      BY <2>4, IdleIsQuiet DEF ServerDies, Crash
    <3>2. \A v \in Workers : ~CarriesTelemetry(v)'
      BY <3>1 DEF CarriesTelemetry, TelemetryPhases
    <3> QED
      BY <2>1, <3>1, <3>2 DEF SameTelemetry
  <2>5. CASE TimePasses
    <3>1. UNCHANGED job
      BY <2>5 DEF TimePasses, Tick
    <3>2. \A v \in Workers : SameTelemetry(v)
      BY <3>1 DEF SameTelemetry, CarriesTelemetry
    <3> QED
      BY <2>1, <3>1, <3>2
  <2> QED
    BY <2>2, <2>3, <2>4, <2>5 DEF Proceed
<1>3. run' = run \/ run'.phase \notin UnderWay
  BY <1>0, ClientInit DEF SampleFails, Proceed, ServerDies, GivesUp, TimePasses
<1>4. RunnerSpeaks'
  BY <1>0, <1>1, <1>2, <1>3, SameRows, RunnerStaysHeard DEF SpeechInv
<1>5. EdgeSpeaks'
  <2>1. edge'.sent = edge.sent /\ (edge'.phase = "pause" => edge.phase = "pause")
    BY <1>0 DEF SampleFails, Proceed, ServerDies, TimePasses, EdgeStopped, EdgeRecords
  <2> QED
    BY <1>0, <1>1, <1>2, <2>1, SameRows, EdgeStaysHeard DEF SpeechInv
<1> QED
  BY <1>2, <1>4, <1>5 DEF SpeechInv

LEMMA SpeechInit == DemoInit => SpeechInv
<1> SUFFICES ASSUME DemoInit PROVE SpeechInv
  OBVIOUS
<1>1. /\ \A w \in Workers : job[w].phase = "idle"
      /\ DemoThread \in Workers /\ clock = 0
      /\ run.phase = "ready" /\ edge.phase = "pause"
  BY DemoAssumption, IdleIsQuiet, ClientInit DEF DemoInit, Init
<1>2. \A w \in Workers : ~CarriesTelemetry(w)
  BY <1>1 DEF CarriesTelemetry, TelemetryPhases
<1>3. \A e \in Events : /\ rows[e].receivedAt <= clock
                        /\ rows[e].report.msg \notin ClientMessages
  <2>1. rows \in LegacyTables
    BY DEF DemoInit, Init
  <2> QED
    BY <1>1, <2>1, DemoAssumption, DataAssumption DEF Events
<1>4. ServerOrder
  BY <1>1, <1>2, <1>3
  DEF ServerOrder, RowsArePast, JobsAreNewest, SendersAreHeardInOrder
<1>5. RunnerSpeaks
  BY <1>1, <1>2, <1>3 DEF RunnerSpeaks, IsOfClient
<1>6. EdgeSpeaks
  BY <1>2, <1>3 DEF EdgeSpeaks, IsOfClient
<1> QED
  BY <1>4, <1>5, <1>6 DEF SpeechInv

LEMMA SpeechNext == DemoInv /\ SpeechInv /\ [DemoNext]_demoVars => SpeechInv'
<1> SUFFICES ASSUME DemoInv, SpeechInv, [DemoNext]_demoVars PROVE SpeechInv'
  OBVIOUS
<1>1. TypeInv'
  BY ServerSteps, ServerGrows
<1>2. CASE SendTelemetry
  BY <1>2, SendsAreHeard
<1>3. CASE SendAuthorization \/ SendCommand
  BY <1>1, <1>3, AsksAreQuiet
<1>4. CASE \/ UNCHANGED demoVars \/ PassPreflight \/ GetEvents \/ GetLatest
           \/ RequestTimesOut \/ RequestRejected \/ SampleTimesOut
  BY <1>1, <1>4, ClientsAlone
<1>5. CASE HearTelemetry
  BY <1>5, RunnerHearsTelemetry
<1>6. CASE HearAuthorization \/ HearCommand \/ HearRefusal
  BY <1>1, <1>6, RunnerHearsOthers
<1>7. ASSUME NEW w \in Workers \ {DemoThread}, PostSample(w) PROVE SpeechInv'
  BY <1>7, SamplesAreHeard
<1>8. ASSUME NEW w \in Workers \ {DemoThread}, HearSample(w) PROVE SpeechInv'
  BY <1>8, SampleIsHeard
<1>9. CASE \/ \E w \in Workers \ {DemoThread} : SampleFails(w)
           \/ \E w \in Workers : Proceed(w)
           \/ ServerDies \/ TimePasses
  BY <1>1, <1>9, OthersKeepOrder
<1> QED
  BY <1>2, <1>3, <1>4, <1>5, <1>6, <1>7, <1>8, <1>9 DEF DemoNext

(***************************************************************************)
(* Readings of one client are later for the server in the order in which   *)
(* the client took them, for any script, timeouts and number of threads:   *)
(* whoever gives up on an answer says nothing more, so that the handler it *)
(* left behind can be overtaken by nothing newer of the same sender.       *)
(***************************************************************************)
THEOREM ClientsAreHeardInOrder == DemoSpec => []SendersAreHeardInOrder
<1>1. DemoInit => DemoInv /\ SpeechInv
  BY DemoInitSound, SpeechInit
<1>2. DemoInv /\ SpeechInv /\ [DemoNext]_demoVars => (DemoInv /\ SpeechInv)'
  BY DemoNextSound, SpeechNext
<1>3. SpeechInv => SendersAreHeardInOrder
  BY DEF SpeechInv, ServerOrder
<1> QED
  BY <1>1, <1>2, <1>3, PTL DEF DemoSpec

-----------------------------------------------------------------------------
(***************************************************************************)
(* What the records of a run tell.  A listing that is not cut off holds    *)
(* all events of the vehicle stored by then, and an answer about the       *)
(* latest decision an event that is later than all stored by then.  Since  *)
(* only the runner's one command request can record a command, there is at *)
(* most one, also when its answer was lost.                                *)
(***************************************************************************)

AsksForCommand == job[DemoThread].phase \in CommandPhases

LocalsOK ==
    /\ run.event \in 0..Len(rows)
    /\ run.started \in 0..clock /\ run.since \in 0..clock
    /\ run.phase = "passed" => Len(run.answers) = Len(Script)
    /\ run.phase = "failed" => Len(run.answers) = 0
    /\ edge.sent \in 0..Len(EdgeReadings) /\ edge.since \in 0..clock

ScopeUpTo(n) == {e \in 1..n : rows[e].report.scope = DemoScope}

\* a is the record of step i.
RecordTells(i, a) ==
    /\ a.events \subseteq Events /\ a.stored \in 0..Len(rows)
    /\ Script[i].action = "telemetry" =>
          \E e \in Events : a.events = {e} /\ rows[e].report.msg = DemoMessage(i)
    /\ Script[i].action = "command" =>
          \E c \in 1..Len(commands) : a.events = {commands[c].event}
    /\ Script[i].action \in {"events", "latest"} => a.events \subseteq ScopeUpTo(a.stored)
    /\ Script[i].action = "events" =>
          a.events = ScopeUpTo(a.stored) \/ Cardinality(a.events) = EventsLimit
    /\ Script[i].action = "latest" =>
          /\ a.events # {}
          /\ \A e \in a.events, f \in 1..a.stored :
                rows[f].report.scope = DemoScope /\ f # e => Later(e, f)

RecordsTell == \A i \in 1..Len(run.answers) : RecordTells(i, run.answers[i])

JobsMatchTheStep ==
    /\ \A w \in Workers \ {DemoThread} : job[w].phase \notin EventPhases
    /\ run.phase = "waiting" =>
          /\ CarriesTelemetry(DemoThread) => Turn.action = "telemetry"
          /\ job[DemoThread].phase = "grant" => Turn.action = "authorize"
          /\ AsksForCommand => Turn.action = "command"

OneCommand ==
    /\ Len(commands) <= 1
    /\ AsksForCommand => Len(commands) = 0
    /\ run.phase \in UnderWay /\ Len(run.answers) < Command => Len(commands) = 0

ReportInv == LocalsOK /\ RecordsTell /\ JobsMatchTheStep /\ OneCommand

\* A record that tells the truth goes on doing so: what it names is kept.
LEMMA RecordsStayTrue ==
    ASSUME DemoInv, [Next]_vars, NEW i, NEW a, RecordTells(i, a)
    PROVE  RecordTells(i, a)'
<1>0. /\ TypeInv /\ TypeOK /\ TablesGrow /\ TypeInv' /\ Len(commands) \in Nat
  BY ServerGrows, LenProperties DEF DemoInv, TypeInv, TypeOK
<1>1. \A e \in Events : /\ e \in Events'
                        /\ rows'[e].report = rows[e].report
                        /\ rows'[e].receivedAt = rows[e].receivedAt
  BY <1>0, EventsAreKept
<1>2. Len(rows) \in Nat /\ Len(rows') \in Nat /\ Len(rows) <= Len(rows')
  <2>1. 1..Len(rows) \subseteq 1..Len(rows')
    BY <1>1 DEF Events
  <2> QED
    BY <1>0, <2>1 DEF TablesGrow
<1>3. \A c \in 1..Len(commands) : c \in 1..Len(commands') /\ commands'[c] = commands[c]
  <2>1. ASSUME NEW w \in Workers, ConsumeToken(w)
        PROVE  /\ Len(commands') = Len(commands) + 1
               /\ \A c \in 1..Len(commands) : commands'[c] = commands[c]
    BY <1>0, <2>1, TokenSpent
  <2> QED
    BY <1>0, <2>1, WritesToAuths
<1>4. \A e \in 1..a.stored : e \in Events
  BY <1>2 DEF RecordTells, Events
<1>5. a.events \subseteq Events' /\ a.stored \in 0..Len(rows')
  BY <1>1, <1>2 DEF RecordTells
<1>6. Script[i].action = "command" => \E c \in 1..Len(commands') : a.events = {commands'[c].event}
  BY <1>3 DEF RecordTells
<1>7. ScopeUpTo(a.stored)' = ScopeUpTo(a.stored)
  BY <1>1, <1>4 DEF ScopeUpTo
<1>8. Script[i].action = "latest" =>
          \A e \in a.events, f \in 1..a.stored :
             rows'[f].report.scope = DemoScope /\ f # e => Later(e, f)'
  BY <1>1, <1>4 DEF RecordTells, Later
<1>9. Script[i].action = "telemetry" =>
          \E e \in Events' : a.events = {e} /\ rows'[e].report.msg = DemoMessage(i)
  BY <1>1 DEF RecordTells
<1> QED
  BY <1>5, <1>6, <1>7, <1>8, <1>9 DEF RecordTells

(***************************************************************************)
(* The ways a step may change the runner, with what it records.            *)
(***************************************************************************)

GoesOn ==
    /\ run.phase \in UnderWay /\ run'.phase \in {"sleeping", "waiting"}
    /\ run'.phase = "waiting" => SendTelemetry \/ SendAuthorization \/ SendCommand
    /\ run'.answers = run.answers /\ run'.event = run.event
    /\ run'.started \in {run.started, clock} /\ run'.since = clock

Notes(i, a) ==
    /\ run.phase \in UnderWay /\ i = Len(run.answers) + 1
    /\ run'.answers = Append(run.answers, a)
    /\ run'.phase = IF i = Len(Script) THEN "passed" ELSE "sleeping"
    /\ run'.event \in 0..Len(rows')
    /\ run'.started = run.started /\ run'.since = clock

RunMoves ==
    \/ run' = run \/ run' = Failed \/ GoesOn
    \/ \E i \in Nat, a \in Records : Notes(i, a) /\ RecordTells(i, a)'

LEMMA AnswersAppended ==
    ASSUME DemoInv, NEW i, NEW a \in Records, Notes(i, a)
    PROVE  /\ Len(run'.answers) = i /\ Len(run.answers) \in Nat
           /\ run'.answers[i] = a
           /\ \A k \in 1..Len(run.answers) : run'.answers[k] = run.answers[k]
BY AppendProperties, LenProperties DEF DemoInv, RunSound, RunRecords, Notes

LEMMA FailedFields ==
    /\ Failed.phase = "failed" /\ Len(Failed.answers) = 0
    /\ Failed.event = 0 /\ Failed.started = 0 /\ Failed.since = 0
    /\ NoRun.event = 0 /\ NoRun.started = 0 /\ NoRun.since = 0
BY DEF Failed, NoRun

LEMMA RecordsTellNext ==
    ASSUME DemoInv, RecordsTell, [Next]_vars, RunMoves
    PROVE  RecordsTell'
<1>1. ASSUME NEW i \in 1..Len(run.answers) PROVE RecordTells(i, run.answers[i])'
                                                 \/ run'.answers # run.answers
  <2>1. PICK a : a = run.answers[i]
    OBVIOUS
  <2>2. RecordTells(i, a)
    BY <2>1 DEF RecordsTell
  <2>3. RecordTells(i, a)'
    BY <2>2, RecordsStayTrue
  <2> QED
    BY <2>1, <2>3
<1>2. CASE run'.answers = run.answers
  BY <1>1, <1>2 DEF RecordsTell
<1>3. CASE run' = Failed
  BY <1>3, FailedFields DEF RecordsTell
<1>4. ASSUME NEW i \in Nat, NEW a \in Records, Notes(i, a), RecordTells(i, a)'
      PROVE  RecordsTell'
  <2>1. /\ Len(run'.answers) = i /\ Len(run.answers) \in Nat /\ i = Len(run.answers) + 1
        /\ run'.answers[i] = a
        /\ \A k \in 1..Len(run.answers) : run'.answers[k] = run.answers[k]
    BY <1>4, AnswersAppended DEF Notes
  <2>2. ASSUME NEW k \in 1..Len(run'.answers)
        PROVE  RecordTells(k, run.answers[k])'
    <3>1. CASE k = i
      BY <1>4, <2>1, <3>1
    <3>2. CASE k \in 1..Len(run.answers)
      <4>1. PICK b : b = run.answers[k]
        OBVIOUS
      <4>2. RecordTells(k, b)'
        BY <3>2, <4>1, RecordsStayTrue DEF RecordsTell
      <4> QED
        BY <2>1, <3>2, <4>1, <4>2
    <3> QED
      BY <2>1, <3>1, <3>2
  <2> QED
    BY <2>2 DEF RecordsTell
<1> QED
  BY <1>2, <1>3, <1>4 DEF RunMoves, GoesOn

LEMMA LocalsNext ==
    ASSUME DemoInv, LocalsOK, [DemoNext]_demoVars, RunMoves
    PROVE  LocalsOK'
<1>0. /\ TypeInv /\ [Next]_vars /\ TablesGrow /\ clock \in Nat /\ clock' \in Nat
      /\ run \in RunRecords /\ edge \in EdgeRecords
  <2>1. [Next]_vars
    BY ServerSteps
  <2> QED
    BY <2>1, ServerGrows DEF DemoInv, TypeInv, TypeOK, RunSound
<1>1. clock <= clock'
  BY <1>0, ClockAdvances DEF TypeInv
<1>2. Len(rows) \in Nat /\ Len(rows') \in Nat /\ Len(rows) <= Len(rows')
  <2>1. 1..Len(rows) \subseteq 1..Len(rows')
    BY <1>0 DEF TablesGrow, Events
  <2> QED
    BY <1>0, <2>1 DEF TablesGrow
<1>3. /\ run'.event \in 0..Len(rows')
      /\ run'.started \in 0..clock' /\ run'.since \in 0..clock'
      /\ run'.phase = "passed" => Len(run'.answers) = Len(Script)
      /\ run'.phase = "failed" => Len(run'.answers) = 0
  <2>1. CASE run' = run
    BY <1>0, <1>1, <1>2, <2>1 DEF LocalsOK
  <2>2. CASE run' = Failed
    BY <1>0, <1>2, <2>2, FailedFields
  <2>3. CASE GoesOn
    <3>1. run'.event \in 0..Len(rows')
      BY <1>2, <2>3 DEF LocalsOK, GoesOn
    <3>2. run'.started \in 0..clock' /\ run'.since \in 0..clock'
      BY <1>0, <1>1, <2>3 DEF LocalsOK, GoesOn
    <3>3. run'.phase \notin {"passed", "failed"}
      BY <2>3 DEF GoesOn
    <3> QED
      BY <3>1, <3>2, <3>3
  <2>4. ASSUME NEW i \in Nat, NEW a \in Records, Notes(i, a)
        PROVE  /\ run'.event \in 0..Len(rows')
               /\ run'.started \in 0..clock' /\ run'.since \in 0..clock'
               /\ run'.phase = "passed" => Len(run'.answers) = Len(Script)
               /\ run'.phase = "failed" => Len(run'.answers) = 0
    <3>1. Len(run'.answers) = i
      BY <2>4, AnswersAppended
    <3> QED
      BY <1>0, <1>1, <2>4, <3>1 DEF LocalsOK, Notes
  <2> QED
    BY <2>1, <2>2, <2>3, <2>4 DEF RunMoves
<1>4. edge'.sent \in 0..Len(EdgeReadings) /\ edge'.since \in 0..clock'
  <2>1. Len(EdgeReadings) \in Nat
    BY DemoAssumption, LenProperties
  <2>2. ASSUME \/ edge'.sent = edge.sent
               \/ edge'.sent = edge.sent + 1 /\ edge.sent < Len(EdgeReadings),
               edge'.since \in {0, clock, edge.since}
        PROVE  edge'.sent \in 0..Len(EdgeReadings) /\ edge'.since \in 0..clock'
    BY <1>0, <1>1, <2>1, <2>2 DEF LocalsOK
  <2>3. ASSUME \/ \E w \in Workers : PostSample(w) \/ HearSample(w) \/ SampleFails(w)
               \/ SampleTimesOut \/ ServerDies
        PROVE  edge'.sent \in 0..Len(EdgeReadings) /\ edge'.since \in 0..clock'
    <3>1. ASSUME NEW w \in Workers, PostSample(w)
          PROVE  /\ edge'.sent = edge.sent + 1 /\ edge.sent < Len(EdgeReadings)
                 /\ edge'.since = clock
      BY <1>0, <3>1 DEF PostSample, EdgeRecords
    <3>2. \/ \E w \in Workers : PostSample(w)
          \/ edge' = edge \/ edge' = EdgeStopped
          \/ edge' = [edge EXCEPT !.phase = "pause", !.since = 0]
      BY <2>3 DEF HearSample, SampleFails, SampleTimesOut, ServerDies
    <3>3. \/ \E w \in Workers : PostSample(w)
          \/ edge'.sent = edge.sent /\ edge'.since \in {0, edge.since}
      BY <1>0, <3>2 DEF EdgeStopped, EdgeRecords
    <3>4. /\ \/ edge'.sent = edge.sent
             \/ edge'.sent = edge.sent + 1 /\ edge.sent < Len(EdgeReadings)
          /\ edge'.since \in {0, clock, edge.since}
      BY <3>1, <3>3
    <3> QED
      BY <2>2, <3>4
  <2>4. CASE \/ UNCHANGED demoVars \/ PassPreflight \/ SendTelemetry
             \/ SendAuthorization \/ SendCommand \/ GetEvents \/ GetLatest
             \/ HearTelemetry \/ HearAuthorization \/ HearCommand \/ HearRefusal
             \/ RequestTimesOut \/ RequestRejected \/ TimePasses
             \/ \E w \in Workers : Proceed(w)
    <3>1. UNCHANGED edge
      BY <2>4 DEF demoVars, PassPreflight, SendTelemetry, SendAuthorization, SendCommand,
                  GetEvents, GetLatest, HearTelemetry, HearAuthorization, HearCommand,
                  HearRefusal, Hear, RequestTimesOut, RequestRejected, TimePasses, Proceed
    <3> QED
      BY <1>0, <1>1, <2>1, <3>1 DEF LocalsOK
  <2> QED
    BY <2>2, <2>3, <2>4 DEF DemoNext
<1> QED
  BY <1>3, <1>4 DEF LocalsOK

LEMMA AnswerNotes ==
    ASSUME DemoInv, run.phase \in UnderWay,
           NEW r \in RunRecords, r.answers = run.answers, r.started = run.started,
           r.event \in 0..Len(rows'),
           NEW events \in SUBSET Nat, NEW stored \in Nat,
           run' = Answered(r, events, stored)
    PROVE  \E i \in Nat, a \in Records :
              /\ Notes(i, a)
              /\ i = Len(run.answers) + 1 /\ a.events = events /\ a.stored = stored
<1> DEFINE record == [events |-> events, stored |-> stored]
<1>1. /\ run'.answers = Append(r.answers, record)
      /\ run'.phase = IF Len(r.answers) + 1 = Len(Script) THEN "passed" ELSE "sleeping"
      /\ run'.event = r.event /\ run'.started = r.started /\ run'.since = clock
  BY DEF Answered, RunRecords
<1>2. record \in Records /\ record.events = events /\ record.stored = stored
  BY DEF Records
<1>3. Len(run.answers) + 1 \in Nat
  BY LenProperties DEF DemoInv, RunSound, RunRecords
<1> HIDE DEF record
<1>4. PICK i : i = Len(run.answers) + 1
  OBVIOUS
<1>5. Notes(i, record)
  BY <1>1, <1>4 DEF Notes
<1> QED
  BY <1>2, <1>3, <1>4, <1>5

LEMMA SentGoesOn ==
    ASSUME DemoInv, run.phase \in UnderWay, run' = Sent,
           SendTelemetry \/ SendAuthorization \/ SendCommand
    PROVE  GoesOn
BY DEF Sent, DemoInv, RunSound, RunRecords, GoesOn

\* The listing and the question about the latest decision.
LEMMA QueriesTell ==
    ASSUME DemoInv, GetEvents \/ GetLatest
    PROVE  RunMoves
<1>0. /\ TypeInv /\ run \in RunRecords /\ clock \in Int /\ run.phase \in UnderWay
      /\ UNCHANGED vars /\ Len(rows) \in Nat /\ Len(run.answers) \in Nat
      /\ run.event \in Nat
  BY LenProperties
  DEF DemoInv, TypeInv, TypeOK, RunSound, RunRecords, GetEvents, GetLatest, Wakes, UnderWay
<1>1. PICK r : r = Sent
  OBVIOUS
<1>2. /\ r \in RunRecords /\ r.answers = run.answers /\ r.event = run.event
      /\ r.started = run.started
  BY <1>0, <1>1, SentFields DEF Sent, RunRecords
<1>3. r.event \in 0..Len(rows')
  <2>1. run.event \in Events
    BY <1>0, ScriptTurn DEF DemoInv, GetEvents, GetLatest, Wakes
  <2> QED
    BY <1>0, <1>2, <2>1 DEF Events, vars
<1>4. ASSUME NEW events \in SUBSET Events, run' = Answered(r, events, Len(rows)),
             \A i \in Nat, a \in Records :
                i = Len(run.answers) + 1 /\ a.events = events /\ a.stored = Len(rows)
                   => RecordTells(i, a)
      PROVE  RunMoves
  <2>1. events \in SUBSET Nat
    BY DEF Events
  <2>2. PICK i \in Nat, a \in Records :
           /\ Notes(i, a)
           /\ i = Len(run.answers) + 1 /\ a.events = events /\ a.stored = Len(rows)
    BY <1>0, <1>2, <1>3, <1>4, <2>1, AnswerNotes
  <2>3. RecordTells(i, a)
    BY <1>4, <2>2
  <2>4. RecordTells(i, a)'
    BY <1>0, <2>3, RecordsStayTrue
  <2> QED
    BY <2>2, <2>4 DEF RunMoves
<1>5. CASE GetEvents
  <2>1. PICK events \in ListEvents :
           run' = Answered(Sent, events, Len(rows)) \/ run' = Failed
    BY <1>5 DEF GetEvents
  <2>2. /\ events \subseteq Events /\ events \subseteq EventsOf(DemoScope)
        /\ events = EventsOf(DemoScope) \/ Cardinality(events) = EventsLimit
    BY DEF ListEvents, Newest, EventsOf
  <2>3. Turn.action = "events"
    BY <1>5 DEF GetEvents, Wakes
  <2>4. ASSUME NEW i \in Nat, NEW a \in Records,
               i = Len(run.answers) + 1, a.events = events, a.stored = Len(rows)
        PROVE  RecordTells(i, a)
    BY <1>0, <2>2, <2>3, <2>4 DEF RecordTells, ScopeUpTo, Turn, EventsOf, Events
  <2> QED
    BY <1>1, <1>4, <2>1, <2>2, <2>4 DEF RunMoves
<1>6. CASE GetLatest
  <2>1. \/ run' = Answered(Sent, LatestFresh, Len(rows)) /\ LatestFresh # {}
        \/ run' = Failed
    BY <1>6 DEF GetLatest
  <2>2. LatestFresh \subseteq Events /\ LatestFresh \subseteq ScopeUpTo(Len(rows))
    BY DEF LatestFresh, ScopeUpTo, EventsOf, Events
  <2>3. Turn.action = "latest"
    BY <1>6 DEF GetLatest, Wakes
  <2>4. ASSUME NEW i \in Nat, NEW a \in Records, LatestFresh # {},
               i = Len(run.answers) + 1, a.events = LatestFresh, a.stored = Len(rows)
        PROVE  RecordTells(i, a)
    <3>1. \A e \in LatestFresh, f \in 1..Len(rows) :
             rows[f].report.scope = DemoScope /\ f # e => Later(e, f)
      BY DEF LatestFresh, EventsOf, IsLatest, Events
    <3> QED
      BY <1>0, <2>2, <2>3, <2>4, <3>1 DEF RecordTells, Turn
  <2> QED
    BY <1>1, <1>4, <2>1, <2>2, <2>4 DEF RunMoves
<1> QED
  BY <1>5, <1>6

\* What the server answers the runner.
LEMMA HearsTell ==
    ASSUME DemoInv, SpeechInv, JobsMatchTheStep, [Next]_vars,
           HearTelemetry \/ HearAuthorization \/ HearCommand
    PROVE  RunMoves
<1>0. /\ TypeInv /\ TypeOK /\ TablesGrow /\ DemoThread \in Workers /\ RunSound
      /\ run \in RunRecords /\ Len(rows') \in Nat /\ "waiting" \in UnderWay
  BY ServerGrows, DemoAssumption DEF DemoInv, TypeInv, RunSound, TablesGrow, UnderWay
<1>1. ASSUME NEW r \in RunRecords, r.answers = run.answers, r.started = run.started,
             NEW events, Hear(r, events),
             run.phase = "waiting" => r.event \in Events',
             events \subseteq Events', Turn.action # "events", Turn.action # "latest",
             Turn.action = "telemetry" =>
                \E e \in Events' : /\ events = {e}
                                   /\ rows'[e].report.msg = DemoMessage(Len(run.answers) + 1),
             Turn.action = "command" =>
                \E c \in 1..Len(commands') : events = {commands'[c].event}
      PROVE  RunMoves
  <2>1. CASE run.phase # "waiting" \/ run' = Failed
    BY <1>1, <2>1 DEF Hear, RunMoves
  <2>2. CASE run.phase = "waiting" /\ run' = Answered(r, events, 0)
    <3>1. events \in SUBSET Nat /\ r.event \in 0..Len(rows') /\ 0 \in Nat
      BY <1>0, <1>1, <2>2 DEF Events
    <3>2. PICK i \in Nat, a \in Records :
             /\ Notes(i, a)
             /\ i = Len(run.answers) + 1 /\ a.events = events /\ a.stored = 0
      BY <1>0, <1>1, <2>2, <3>1, AnswerNotes
    <3>3. Script[i].action = Turn.action
      BY <3>2 DEF Turn
    <3>4. RecordTells(i, a)'
      BY <1>0, <1>1, <3>2, <3>3 DEF RecordTells
    <3> QED
      BY <3>2, <3>4 DEF RunMoves
  <2> QED
    BY <1>1, <2>1, <2>2 DEF Hear
<1>2. CASE run.phase # "waiting"
  BY <1>2 DEF HearTelemetry, HearAuthorization, HearCommand, Hear, RunMoves
<1>3. CASE HearTelemetry /\ run.phase = "waiting"
  <2> DEFINE n == Len(rows) + 1
             r == [run EXCEPT !.event = n]
  <2>1. Turn.action = "telemetry"
    BY <1>3 DEF JobsMatchTheStep, CarriesTelemetry, TelemetryPhases, HearTelemetry,
                InsertTelemetry
  <2>2. n \in Events' /\ n \in Nat
    BY <1>0, <1>3, RowAppended DEF TablesGrow, HearTelemetry, Events, TypeInv
  <2>3. /\ r \in RunRecords /\ r.answers = run.answers /\ r.started = run.started
        /\ r.event = n
    <3> HIDE DEF n
    <3> QED
      BY <1>0, <2>2 DEF RunRecords
  <2>4. Hear(r, {n})
    BY <1>3 DEF HearTelemetry
  <2>5. rows'[n].report.msg = DemoMessage(Len(run.answers) + 1)
    <3>1. CarriesTelemetry(DemoThread)
      BY <1>3 DEF HearTelemetry, InsertTelemetry, CarriesTelemetry, TelemetryPhases
    <3>2. job[DemoThread].report.msg = DemoMessage(Len(run.answers) + 1)
      BY <1>3, <3>1 DEF SpeechInv, RunnerSpeaks
    <3>3. rows'[n].report = job[DemoThread].report
      BY <1>0, <1>3, RowAppended DEF HearTelemetry, TypeInv
    <3> QED
      BY <3>2, <3>3
  <2> HIDE DEF r, n
  <2> QED
    BY <1>1, <2>1, <2>2, <2>3, <2>4, <2>5
<1>4. CASE HearAuthorization /\ run.phase = "waiting"
  <2> DEFINE n == Len(auths) + 1
             r == [run EXCEPT !.token = n]
             e == job[DemoThread].event
  <2>1. Turn.action = "authorize"
    BY <1>4 DEF JobsMatchTheStep, HearAuthorization, GrantAuthorization
  <2>2. job[DemoThread].phase \in EventPhases /\ e \in Events
    BY <1>0, <1>4
    DEF HearAuthorization, GrantAuthorization, EventPhases, TypeInv, CarriesEvent
  <2>3. n \in Nat
    BY <1>0 DEF TablesGrow
  <2>4. /\ r \in RunRecords /\ r.answers = run.answers /\ r.started = run.started
        /\ r.event = run.event
    <3> HIDE DEF n
    <3> QED
      BY <1>0, <2>3 DEF RunRecords
  <2>5. r.event \in Events' /\ e \in Events'
    BY <1>0, <1>4, <2>2, <2>4, QuestionHasEvent DEF TablesGrow
  <2>6. Hear(r, {e})
    BY <1>4 DEF HearAuthorization
  <2> HIDE DEF r, n, e
  <2> QED
    BY <1>1, <2>1, <2>4, <2>5, <2>6
<1>5. CASE HearCommand /\ run.phase = "waiting"
  <2> DEFINE e == job[DemoThread].event
  <2>1. Turn.action = "command"
    BY <1>5 DEF JobsMatchTheStep, AsksForCommand, CommandPhases, HearCommand, ConsumeToken
  <2>2. job[DemoThread].phase \in EventPhases /\ e \in Events
    BY <1>0, <1>5 DEF HearCommand, ConsumeToken, EventPhases, TypeInv, CarriesEvent
  <2>3. \E c \in 1..Len(commands') : {e} = {commands'[c].event}
    <3>1. /\ Len(commands') = Len(commands) + 1 /\ Len(commands) \in Nat
          /\ commands'[Len(commands) + 1].event = e
      BY <1>0, <1>5, TokenSpent, LenProperties DEF HearCommand, TypeOK
    <3>2. Len(commands) + 1 \in 1..Len(commands')
      BY <3>1
    <3> QED
      BY <3>1, <3>2
  <2>4. run.event \in Events' /\ e \in Events'
    BY <1>0, <1>5, <2>2, QuestionHasEvent DEF TablesGrow
  <2>5. Hear(run, {e})
    BY <1>5 DEF HearCommand
  <2> HIDE DEF e
  <2>6. PICK r : r = run
    OBVIOUS
  <2> QED
    BY <1>0, <1>1, <2>1, <2>3, <2>4, <2>5, <2>6
<1> QED
  BY <1>2, <1>3, <1>4, <1>5

LEMMA RunMovesNext ==
    ASSUME DemoInv, SpeechInv, JobsMatchTheStep, [DemoNext]_demoVars
    PROVE  RunMoves
<1>0. [Next]_vars /\ run \in RunRecords
  BY ServerSteps DEF DemoInv, RunSound
<1>1. CASE GetEvents \/ GetLatest
  BY <1>1, QueriesTell
<1>2. CASE HearTelemetry \/ HearAuthorization \/ HearCommand
  BY <1>0, <1>2, HearsTell
<1>3. CASE SendTelemetry \/ SendAuthorization \/ SendCommand
  <2>1. run.phase \in UnderWay /\ run' = Sent
    BY <1>3 DEF SendTelemetry, SendAuthorization, SendCommand, Wakes, UnderWay
  <2> QED
    BY <1>3, <2>1, SentGoesOn DEF RunMoves
<1>4. CASE PassPreflight
  <2>1. run.phase \in UnderWay
    BY <1>4 DEF PassPreflight, UnderWay
  <2>2. /\ run'.phase = "sleeping" /\ run'.answers = run.answers /\ run'.event = run.event
        /\ run'.started = clock /\ run'.since = clock
    BY <1>0, <1>4 DEF PassPreflight, RunRecords
  <2> QED
    BY <2>1, <2>2 DEF RunMoves, GoesOn
<1>5. CASE \/ UNCHANGED demoVars \/ HearRefusal \/ RequestTimesOut \/ RequestRejected
           \/ \E w \in Workers \ {DemoThread} :
                 PostSample(w) \/ HearSample(w) \/ SampleFails(w)
           \/ SampleTimesOut
           \/ \E w \in Workers : Proceed(w)
           \/ ServerDies \/ TimePasses
  BY <1>5 DEF demoVars, HearRefusal, GivesUp, RequestTimesOut, RequestRejected, PostSample,
              HearSample, SampleFails, SampleTimesOut, Proceed, ServerDies, TimePasses, RunMoves
<1> QED
  BY <1>1, <1>2, <1>3, <1>4, <1>5 DEF DemoNext

(***************************************************************************)
(* The jobs keep to the step the runner waits for, and one asks for a      *)
(* command only once.                                                      *)
(***************************************************************************)

\* The job of w takes up no other kind of request.
NoNewRequest(w) ==
    /\ CarriesTelemetry(w)' => CarriesTelemetry(w)
    /\ job'[w].phase = "grant" => job[w].phase = "grant"
    /\ job'[w].phase \in CommandPhases => job[w].phase \in CommandPhases

LEMMA StepsOfAJob ==
    ASSUME TypeInv, NEW w \in Workers,
           Finish(w) \/ StampReceipt(w) \/ ValidateToken(w) \/ CallActuator(w)
    PROVE  \A v \in Workers : NoNewRequest(v)
<1>1. job \in [Workers -> Jobs] /\ job[w] \in Jobs
  BY DEF TypeInv, TypeOK
<1>2. \A v \in Workers : v # w => job'[v] = job[v]
  BY <1>1 DEF Finish, StampReceipt, ValidateToken, CallActuator, Advance
<1>3. CASE Finish(w)
  <2>1. job'[w].phase = "idle"
    BY <1>1, <1>3, IdleIsQuiet DEF Finish
  <2> QED
    BY <1>2, <2>1 DEF NoNewRequest, CarriesTelemetry, TelemetryPhases, CommandPhases
<1>4. CASE StampReceipt(w)
  <2>1. job'[w].phase = "insert" /\ job[w].phase = "stamp"
    BY <1>1, <1>4 DEF StampReceipt, NewJob
  <2> QED
    BY <1>2, <2>1 DEF NoNewRequest, CarriesTelemetry, TelemetryPhases, CommandPhases
<1>5. ASSUME NEW p \in {"actuate", "consume"}, job' = [job EXCEPT ![w].phase = p],
             job[w].phase \in CommandPhases
      PROVE  \A v \in Workers : NoNewRequest(v)
  <2>1. job'[w].phase = p
    BY <1>1, <1>5 DEF Jobs
  <2> QED
    BY <1>2, <1>5, <2>1 DEF NoNewRequest, CarriesTelemetry, TelemetryPhases, CommandPhases
<1> QED
  BY <1>3, <1>4, <1>5 DEF ValidateToken, CallActuator, Advance, CommandPhases

LEMMA RequestsAreSent ==
    ASSUME DemoInv, [DemoNext]_demoVars
    PROVE  \/ SendTelemetry \/ SendAuthorization \/ SendCommand
           \/ \E w \in Workers \ {DemoThread} : PostSample(w)
           \/ \A v \in Workers : NoNewRequest(v)
<1>0. TypeInv /\ DemoThread \in Workers
  BY DemoAssumption DEF DemoInv
<1>1. CASE UNCHANGED job
  BY <1>1 DEF NoNewRequest, CarriesTelemetry
<1>2. CASE \E w \in Workers :
              Finish(w) \/ StampReceipt(w) \/ ValidateToken(w) \/ CallActuator(w)
  BY <1>0, <1>2, StepsOfAJob
<1>3. CASE ServerDies
  <2>1. \A v \in Workers : job'[v].phase = "idle"
    BY <1>3, IdleIsQuiet DEF ServerDies, Crash
  <2> QED
    BY <2>1 DEF NoNewRequest, CarriesTelemetry, TelemetryPhases, CommandPhases
<1>4. CASE HearTelemetry \/ HearAuthorization \/ HearCommand \/ HearRefusal
  <2>1. Finish(DemoThread) \/ ValidateToken(DemoThread)
    BY <1>4 DEF HearTelemetry, HearAuthorization, HearCommand, HearRefusal, InsertTelemetry,
                GrantAuthorization, ConsumeToken, RefuseAuthorization, RefuseCommand,
                RequestFails
  <2> QED
    BY <1>0, <1>2, <2>1
<1>5. ASSUME NEW w \in Workers, HearSample(w) \/ SampleFails(w) \/ Proceed(w)
      PROVE  \A v \in Workers : NoNewRequest(v)
  BY <1>0, <1>5, StepsOfAJob
  DEF HearSample, SampleFails, Proceed, InsertTelemetry, RequestFails
<1>6. CASE \/ UNCHANGED demoVars \/ PassPreflight \/ GetEvents \/ GetLatest
           \/ RequestTimesOut \/ RequestRejected \/ SampleTimesOut \/ TimePasses
  BY <1>1, <1>6 DEF demoVars, vars, PassPreflight, GetEvents, GetLatest, RequestTimesOut,
              RequestRejected, SampleTimesOut, TimePasses, Tick
<1> QED
  BY <1>3, <1>4, <1>5, <1>6 DEF DemoNext

LEMMA JobsMatchNext ==
    ASSUME DemoInv, JobsMatchTheStep, [DemoNext]_demoVars, RunMoves
    PROVE  JobsMatchTheStep'
<1>0. /\ TypeInv /\ DemoThread \in Workers /\ run \in RunRecords
      /\ job \in [Workers -> Jobs]
  BY DemoAssumption DEF DemoInv, RunSound, TypeInv, TypeOK
<1>1. \/ SendTelemetry \/ SendAuthorization \/ SendCommand
      \/ run' = run \/ run'.phase # "waiting"
  BY FailedFields DEF RunMoves, GoesOn, Notes
<1>2. CASE SendTelemetry \/ SendAuthorization \/ SendCommand
  <2>1. \A w \in Workers \ {DemoThread} : job'[w] = job[w]
    BY <1>0, <1>2
    DEF SendTelemetry, SendAuthorization, SendCommand, SubmitTelemetry,
        RequestAuthorization, RequestMigration, Start
  <2>2. Turn' = Turn
    <3>1. run' = Sent
      BY <1>2 DEF SendTelemetry, SendAuthorization, SendCommand
    <3> QED
      BY <1>0, <3>1 DEF Sent, RunRecords, Turn
  <2>3. \/ job'[DemoThread].phase \in TelemetryPhases /\ Turn.action = "telemetry"
        \/ job'[DemoThread].phase = "grant" /\ Turn.action = "authorize"
        \/ job'[DemoThread].phase = "validate" /\ Turn.action = "command"
    BY <1>0, <1>2
    DEF SendTelemetry, SendAuthorization, SendCommand, Wakes, SubmitTelemetry,
        RequestAuthorization, RequestMigration, Start, NewJob, TelemetryPhases
  <2> QED
    BY <2>1, <2>2, <2>3
    DEF JobsMatchTheStep, CarriesTelemetry, AsksForCommand, TelemetryPhases, CommandPhases
<1>3. CASE \A v \in Workers : NoNewRequest(v)
  <2>1. \A w \in Workers \ {DemoThread} : job'[w].phase \notin EventPhases
    BY <1>3 DEF NoNewRequest, JobsMatchTheStep, EventPhases, CommandPhases
  <2>2. CASE run' = run
    <3>1. Turn' = Turn
      BY <2>2 DEF Turn
    <3>2. NoNewRequest(DemoThread)
      BY <1>0, <1>3
    <3> QED
      BY <2>1, <2>2, <3>1, <3>2 DEF JobsMatchTheStep, NoNewRequest, AsksForCommand
  <2>3. CASE run'.phase # "waiting"
    BY <2>1, <2>3 DEF JobsMatchTheStep
  <2> QED
    BY <1>1, <1>2, <2>2, <2>3
<1>4. ASSUME NEW v \in Workers, v # DemoThread, PostSample(v)
      PROVE  JobsMatchTheStep'
  <2>1. /\ UNCHANGED run /\ job'[v].phase \notin EventPhases
        /\ \A w \in Workers : w # v => job'[w] = job[w]
    BY <1>0, <1>4 DEF PostSample, SubmitTelemetry, Start, NewJob, EventPhases
  <2>2. Turn' = Turn
    BY <2>1 DEF Turn
  <2> QED
    BY <1>0, <1>4, <2>1, <2>2 DEF JobsMatchTheStep, CarriesTelemetry, AsksForCommand
<1> QED
  BY <1>2, <1>3, <1>4, RequestsAreSent

LEMMA OneCommandStep ==
    /\ Command \in 1..Len(Script)
    /\ \A i \in 1..Len(Script) : Script[i].action = "command" => i = Command
<1>1. DOMAIN Script = 1..Len(Script)
  BY DemoAssumption, LenProperties DEF CanonicalScript
<1>2. IsFiniteSet(StepsOf("command")) /\ Cardinality(StepsOf("command")) = 1
  <2>1. Len(Script) \in Nat
    BY ScriptFacts
  <2>2. IsFiniteSet(1..Len(Script))
    BY <2>1, FS_Interval
  <2>3. StepsOf("command") \in SUBSET (1..Len(Script))
    BY <1>1 DEF StepsOf
  <2> QED
    BY <2>2, <2>3, FS_Subset, DemoAssumption DEF CanonicalScript, Actions
<1>3. PICK x : StepsOf("command") = {x}
  BY <1>2, FS_Singleton
<1> QED
  BY <1>1, <1>3 DEF StepsOf, Command, TheStep

LEMMA OneCommandNext ==
    ASSUME DemoInv, SpeechInv, JobsMatchTheStep, OneCommand, [DemoNext]_demoVars, RunMoves
    PROVE  OneCommand'
<1>0. /\ TypeInv /\ TypeOK /\ DemoThread \in Workers /\ run \in RunRecords /\ RunSound
      /\ job \in [Workers -> Jobs] /\ Len(run.answers) \in Nat /\ Len(commands) \in Nat
  BY DemoAssumption, LenProperties DEF DemoInv, RunSound, RunRecords, TypeInv, TypeOK
<1>1. AsksForCommand /\ run.phase \in UnderWay => Len(run.answers) + 1 = Command
  <2> SUFFICES ASSUME AsksForCommand, run.phase \in UnderWay
               PROVE  Len(run.answers) + 1 = Command
    OBVIOUS
  <2>1. run.phase = "waiting"
    BY DEF AsksForCommand, CommandPhases, SpeechInv, RunnerSpeaks, UnderWay
  <2>2. Turn.action = "command"
    BY <2>1 DEF JobsMatchTheStep
  <2> QED
    BY <1>0, <2>2, ScriptTurn, OneCommandStep DEF Turn
<1>2. \/ run'.phase \notin UnderWay
      \/ run.phase \in UnderWay /\ Len(run'.answers) \in Nat
           /\ Len(run.answers) <= Len(run'.answers)
  <2>1. "failed" \notin UnderWay
    BY DEF UnderWay
  <2>2. ASSUME NEW i \in Nat, NEW a \in Records, Notes(i, a)
        PROVE  run.phase \in UnderWay /\ Len(run'.answers) = Len(run.answers) + 1
    BY <2>2, AnswersAppended DEF Notes
  <2> QED
    BY <1>0, <2>1, <2>2, FailedFields DEF RunMoves, GoesOn
<1>3. Command \in Nat
  BY OneCommandStep, ScriptFacts
<1>4. CASE HearCommand
  <2>1. Len(commands) = 0 /\ Len(commands') = 1
    BY <1>0, <1>4, TokenSpent
    DEF HearCommand, ConsumeToken, OneCommand, AsksForCommand, CommandPhases
  <2>2. ~AsksForCommand'
    BY <1>0, <1>4, IdleIsQuiet
    DEF HearCommand, ConsumeToken, Finish, AsksForCommand, CommandPhases
  <2>3. run'.phase \in UnderWay => Len(run'.answers) >= Command
    <3>1. AsksForCommand
      BY <1>4 DEF HearCommand, ConsumeToken, AsksForCommand, CommandPhases
    <3>2. \/ run'.phase \notin UnderWay
          \/ run.phase = "waiting" /\ Len(run'.answers) = Len(run.answers) + 1
      <4>1. Hear(run, {job[DemoThread].event}) /\ {job[DemoThread].event} \in SUBSET Nat
        BY <1>0, <1>4 DEF HearCommand, Jobs
      <4>2. run.phase # "waiting" => run.phase \notin UnderWay
        BY <3>1 DEF AsksForCommand, CommandPhases, SpeechInv, RunnerSpeaks, UnderWay
      <4> QED
        BY <1>0, <4>1, <4>2, HearKinds
    <3>3. "waiting" \in UnderWay
      BY DEF UnderWay
    <3> QED
      BY <1>1, <1>3, <3>1, <3>2, <3>3
  <2> QED
    BY <1>2, <1>3, <2>1, <2>2, <2>3 DEF OneCommand
<1>5. CASE SendCommand
  <2>1. UNCHANGED commands /\ Len(run.answers) + 1 = Command /\ run.phase \in UnderWay
    BY <1>0, <1>5, ScriptTurn, OneCommandStep
    DEF SendCommand, RequestMigration, Wakes, Turn, UnderWay
  <2>2. Len(commands) = 0
    BY <1>0, <1>3, <2>1 DEF OneCommand
  <2> QED
    BY <2>1, <2>2 DEF OneCommand
<1>6. CASE UNCHANGED commands /\ (AsksForCommand' => AsksForCommand)
  BY <1>0, <1>2, <1>3, <1>6 DEF OneCommand
<1>7. CASE ~HearCommand /\ ~SendCommand
  <2>1. UNCHANGED commands
    BY <1>7 DEF DemoNext, demoVars, vars, PassPreflight, SendTelemetry, SendAuthorization,
                GetEvents, GetLatest, HearTelemetry, HearAuthorization, HearRefusal,
                RequestTimesOut, RequestRejected, PostSample, HearSample, SampleFails,
                SampleTimesOut, Proceed, ServerDies, TimePasses, SubmitTelemetry,
                RequestAuthorization, InsertTelemetry, GrantAuthorization,
                RefuseAuthorization, ValidateToken, RefuseCommand, RequestFails,
                StampReceipt, CallActuator, Crash, Tick
  <2>2. AsksForCommand' => AsksForCommand
    <3>1. CASE SendTelemetry \/ SendAuthorization
      BY <1>0, <3>1
      DEF SendTelemetry, SendAuthorization, SubmitTelemetry, RequestAuthorization, Start,
          NewJob, AsksForCommand, CommandPhases
    <3>2. CASE \E w \in Workers \ {DemoThread} : PostSample(w)
      BY <1>0, <3>2 DEF PostSample, SubmitTelemetry, Start, AsksForCommand
    <3>3. CASE \A v \in Workers : NoNewRequest(v)
      BY <1>0, <3>3 DEF NoNewRequest, AsksForCommand
    <3> QED
      BY <1>7, <3>1, <3>2, <3>3, RequestsAreSent
  <2> QED
    BY <1>6, <2>1, <2>2
<1> QED
  BY <1>4, <1>5, <1>7

LEMMA ReportInit == DemoInit => ReportInv
<1> SUFFICES ASSUME DemoInit PROVE ReportInv
  OBVIOUS
<1>1. /\ \A w \in Workers : job[w].phase = "idle"
      /\ DemoThread \in Workers /\ clock = 0 /\ commands = <<>>
      /\ run = NoRun /\ edge.sent = 0 /\ edge.since = 0
  BY DemoAssumption, IdleIsQuiet DEF DemoInit, Init
<1>2. Len(rows) \in Nat /\ Len(EdgeReadings) \in Nat
  <2>1. TypeInv
    BY TypeInit DEF DemoInit
  <2> QED
    BY <2>1, DemoAssumption, LenProperties DEF TypeInv, TypeOK
<1>3. run.phase = "ready" /\ Len(run.answers) = 0
  BY <1>1, ClientInit
<1>4. LocalsOK
  BY <1>1, <1>2, <1>3, FailedFields DEF LocalsOK
<1>5. RecordsTell
  BY <1>3 DEF RecordsTell
<1>6. JobsMatchTheStep
  BY <1>1, <1>3 DEF JobsMatchTheStep, EventPhases
<1>7. OneCommand
  BY <1>1 DEF OneCommand
<1> QED
  BY <1>4, <1>5, <1>6, <1>7 DEF ReportInv

LEMMA ReportNext == DemoInv /\ SpeechInv /\ ReportInv /\ [DemoNext]_demoVars => ReportInv'
<1> SUFFICES ASSUME DemoInv, SpeechInv, ReportInv, [DemoNext]_demoVars PROVE ReportInv'
  OBVIOUS
<1>1. [Next]_vars /\ RunMoves
  BY ServerSteps, RunMovesNext DEF ReportInv
<1>2. LocalsOK'
  BY <1>1, LocalsNext DEF ReportInv
<1>3. RecordsTell'
  BY <1>1, RecordsTellNext DEF ReportInv
<1>4. JobsMatchTheStep'
  BY <1>1, JobsMatchNext DEF ReportInv
<1>5. OneCommand'
  BY <1>1, OneCommandNext DEF ReportInv
<1> QED
  BY <1>2, <1>3, <1>4, <1>5 DEF ReportInv

LEMMA ReportSound == DemoSpec => [](DemoInv /\ ReportInv)
<1>1. DemoInit => DemoInv /\ SpeechInv /\ ReportInv
  BY DemoInitSound, SpeechInit, ReportInit
<1>2. DemoInv /\ SpeechInv /\ ReportInv /\ [DemoNext]_demoVars
         => (DemoInv /\ SpeechInv /\ ReportInv)'
  BY DemoNextSound, SpeechNext, ReportNext
<1> QED
  BY <1>1, <1>2, PTL DEF DemoSpec

(***************************************************************************)
(* The locals of runner and edge client keep their shape, and a run has    *)
(* passed exactly when every step has its record: no step is recorded      *)
(* twice or skipped, and nothing is recorded after the last.               *)
(***************************************************************************)
THEOREM ClientsTypeCorrect == DemoSpec => []DemoTypeOK
<1>1. DemoInv /\ ReportInv => DemoTypeOK
  <2> SUFFICES ASSUME DemoInv, ReportInv PROVE DemoTypeOK
    OBVIOUS
  <2> DEFINE Stored == [events: SUBSET Events, stored: 0..Len(rows)]
  <2>1. /\ run \in RunRecords /\ edge \in EdgeRecords /\ LocalsOK /\ RecordsTell
        /\ run.token \in 0..Len(auths)
        /\ run.phase \in UnderWay => Len(run.answers) < Len(Script)
    BY DEF DemoInv, RunSound, ReportInv
  <2>2. run.answers \in Seq(Records) /\ Len(run.answers) \in Nat
    BY <2>1, LenProperties DEF RunRecords
  <2>3. \A i \in 1..Len(run.answers) : run.answers[i] \in Stored
    <3>1. \A i \in 1..Len(run.answers) :
             /\ run.answers[i] \in Records
             /\ run.answers[i].events \subseteq Events
             /\ run.answers[i].stored \in 0..Len(rows)
      BY <2>1, <2>2, ElementOfSeq DEF RecordsTell, RecordTells
    <3> QED
      BY <3>1 DEF Records
  <2>4. run.answers \in Seq(Stored)
    <3>1. run.answers \in [1..Len(run.answers) -> Records]
      BY <2>2, LenProperties
    <3> HIDE DEF Stored
    <3>2. run.answers \in [1..Len(run.answers) -> Stored]
      BY <2>3, <3>1
    <3> QED
      BY <2>2, <3>2, SeqDef
  <2>5. run \in [phase: RunPhases, answers: Seq(Stored), event: 0..Len(rows),
                 token: 0..Len(auths), started: 0..clock, since: 0..clock,
                 prompt: BOOLEAN]
    <3> HIDE DEF Stored
    <3> QED
      BY <2>1, <2>4 DEF RunRecords, LocalsOK
  <2>6. run.phase = "passed" <=> Len(run.answers) = Len(Script)
    <3>1. run.phase \in UnderWay \/ run.phase = "passed" \/ run.phase = "failed"
      BY <2>1 DEF RunRecords, RunPhases, UnderWay
    <3> QED
      BY <2>1, <2>2, <3>1, ScriptFacts DEF LocalsOK
  <2>7. edge \in [phase: {"pause", "waiting", "stopped"}, scope: Scopes,
                  sent: 0..Len(EdgeReadings), since: 0..clock]
    BY <2>1 DEF EdgeRecords, EdgePhases, LocalsOK
  <2> QED
    BY <2>5, <2>6, <2>7 DEF DemoTypeOK, RunPhases
<1> QED
  BY <1>1, ReportSound, PTL

-----------------------------------------------------------------------------
(***************************************************************************)
(* What the acceptance of a report adds.                                   *)
(***************************************************************************)

LEMMA NamedSteps ==
    /\ Listing \in 1..Len(Script) /\ Script[Listing].action = "events"
    /\ Latest \in 1..Len(Script) /\ Script[Latest].action = "latest"
    /\ Command \in 1..Len(Script) /\ Script[Command].action = "command"
    /\ \A i \in Telemetry : i \in 1..Len(Script) /\ Script[i].action = "telemetry"
    /\ IsFiniteSet(Telemetry) /\ LastTelemetry \in Telemetry
    /\ \A i \in Telemetry : i <= LastTelemetry
<1>1. DOMAIN Script = 1..Len(Script) /\ Len(Script) \in Nat \ {0}
  BY DemoAssumption, LenProperties, ScriptFacts DEF CanonicalScript
<1>2. ASSUME NEW action \in Actions \ {"telemetry"}
      PROVE  TheStep(action) \in 1..Len(Script) /\ Script[TheStep(action)].action = action
  <2>1. StepsOf(action) # {}
    <3>1. Cardinality(StepsOf(action)) = 1
      BY DemoAssumption DEF CanonicalScript
    <3> QED
      BY <3>1, FS_EmptySet
  <2>2. TheStep(action) \in StepsOf(action)
    BY <2>1 DEF TheStep
  <2> QED
    BY <1>1, <2>2 DEF StepsOf
<1>3. /\ Listing \in 1..Len(Script) /\ Script[Listing].action = "events"
      /\ Latest \in 1..Len(Script) /\ Script[Latest].action = "latest"
      /\ Command \in 1..Len(Script) /\ Script[Command].action = "command"
  BY <1>2 DEF Actions, Listing, Latest, Command
<1>4. Telemetry = {i \in 1..Len(Script) : Script[i].action = "telemetry"}
  BY <1>1 DEF Telemetry, StepsOf
<1>5. IsFiniteSet(Telemetry)
  <2>1. IsFiniteSet(1..Len(Script))
    BY <1>1, FS_Interval
  <2>2. Telemetry \in SUBSET (1..Len(Script))
    BY <1>4
  <2> QED
    BY <2>1, <2>2, FS_Subset
<1>6. \E i \in Telemetry : \A j \in Telemetry : j <= i
  <2> DEFINE Ahead == {Len(Script) - i : i \in Telemetry}
  <2>1. Ahead \subseteq Nat /\ Ahead # {}
    BY <1>1, <1>4, ScriptFacts
  <2> HIDE DEF Ahead
  <2>2. PICK n \in Ahead : \A k \in Ahead : n <= k
    BY <2>1, LeastNatural
  <2>3. PICK i \in Telemetry : n = Len(Script) - i
    BY DEF Ahead
  <2>4. ASSUME NEW j \in Telemetry PROVE j <= i
    <3>1. n <= Len(Script) - j
      BY <2>2 DEF Ahead
    <3> QED
      BY <1>1, <1>4, <2>3, <3>1
  <2> QED
    BY <2>4
<1>7. LastTelemetry \in Telemetry /\ \A i \in Telemetry : i <= LastTelemetry
  BY <1>6 DEF LastTelemetry
<1> QED
  BY <1>3, <1>4, <1>5, <1>7

\* The records of a run that passed, and so of one that is accepted.
LEMMA PassedRecords ==
    ASSUME DemoInv, ReportInv, run.phase = "passed"
    PROVE  /\ \A i \in 1..Len(Script) : RecordTells(i, run.answers[i])
           /\ IsFiniteSet(Told(Telemetry)) /\ Told(Telemetry) \subseteq Events
           /\ Len(rows) \in Nat
<1>1. Len(run.answers) = Len(Script)
  BY DEF ReportInv, LocalsOK
<1>2. \A i \in 1..Len(Script) : RecordTells(i, run.answers[i])
  BY <1>1 DEF ReportInv, RecordsTell
<1>3. Len(rows) \in Nat
  BY LenProperties DEF DemoInv, TypeInv, TypeOK
<1>4. \A i \in Telemetry : EventAt(i) \in Events
  BY <1>2, NamedSteps DEF RecordTells, EventAt
<1>5. Told(Telemetry) \subseteq Events
  BY <1>4 DEF Told
<1>6. IsFiniteSet(Told(Telemetry))
  <2>1. IsFiniteSet(Events)
    BY <1>3, FS_Interval DEF Events
  <2> QED
    BY <1>5, <2>1, FS_Subset
<1> QED
  BY <1>2, <1>3, <1>5, <1>6

LEMMA AcceptedRecords ==
    ASSUME DemoInv, ReportInv, Accepted
    PROVE  /\ \A i \in 1..Len(Script) : RecordTells(i, run.answers[i])
           /\ IsFiniteSet(Told(Telemetry)) /\ Told(Telemetry) \subseteq Events
           /\ Len(rows) \in Nat
BY PassedRecords DEF Accepted

\* One command was recorded, for the event the report calls authorized.
LEMMA AcceptedCommand ==
    ASSUME DemoInv, ReportInv, Accepted
    PROVE  \E c \in 1..Len(commands) :
              /\ Eligible(commands[c].event)
              /\ {d \in 1..Len(commands) : commands[d].event \in Told(Telemetry)} = {c}
<1>1. PICK c \in 1..Len(commands) : run.answers[Command].events = {commands[c].event}
  BY AcceptedRecords, NamedSteps DEF RecordTells
<1>2. EventAt(Command) = commands[c].event
  BY <1>1 DEF EventAt
<1>3. Eligible(EventAt(Command)) /\ EventAt(Command) \in Told(Telemetry)
  BY DEF Accepted, EventChainValid
<1>4. 1..Len(commands) = {c}
  <2>1. Len(commands) \in Nat /\ Len(commands) <= 1
    BY LenProperties DEF DemoInv, TypeInv, TypeOK, ReportInv, OneCommand
  <2> QED
    BY <2>1
<1> QED
  BY <1>2, <1>3, <1>4

\* The listing was not cut off, so it holds all events stored by then.
LEMMA AcceptedListing ==
    ASSUME DemoInv, ReportInv, Accepted,
           NEW e \in EventsOf(DemoScope), e \notin Told(Telemetry)
    PROVE  e > run.answers[Listing].stored
<1>1. /\ RecordTells(Listing, run.answers[Listing]) /\ Script[Listing].action = "events"
      /\ IsFiniteSet(Told(Telemetry)) /\ Len(rows) \in Nat
  BY AcceptedRecords, NamedSteps
<1>2. Listed \subseteq Told(Telemetry)
  BY DEF Accepted, EventChainValid, Told
<1>3. Cardinality(Listed) # EventsLimit
  <2>1. Cardinality(Listed) <= Cardinality(Told(Telemetry)) /\ IsFiniteSet(Listed)
    BY <1>1, <1>2, FS_Subset
  <2>2. Cardinality(Told(Telemetry)) = Cardinality(Telemetry)
    BY DEF Accepted, EventChainValid
  <2>3. Cardinality(Listed) \in Nat /\ Cardinality(Telemetry) \in Nat
    BY <1>1, <2>1, <2>2, FS_CardinalityType
  <2> QED
    BY <2>1, <2>2, <2>3, DemoAssumption
<1>4. Listed = {f \in 1..run.answers[Listing].stored : rows[f].report.scope = DemoScope}
  BY <1>1, <1>3 DEF RecordTells, ScopeUpTo, Listed
<1>5. e \notin 1..run.answers[Listing].stored
  BY <1>2, <1>4 DEF EventsOf
<1> QED
  BY <1>1, <1>5 DEF EventsOf, Events, RecordTells

\* The last reading was the latest of all stored when the run ended.
LEMMA AcceptedLatest ==
    ASSUME DemoInv, ReportInv, Accepted,
           NEW e \in EventsOf(DemoScope), e \notin Told(Telemetry),
           e <= run.answers[Latest].stored
    PROVE  Later(EventAt(LastTelemetry), e)
<1>1. /\ RecordTells(Latest, run.answers[Latest]) /\ Script[Latest].action = "latest"
      /\ Len(rows) \in Nat
  BY AcceptedRecords, NamedSteps
<1>2. EventAt(Latest) \in run.answers[Latest].events
  BY <1>1 DEF RecordTells, EventAt
<1>3. EventAt(Latest) = EventAt(LastTelemetry)
  BY DEF Accepted, EventChainValid
<1>4. EventAt(LastTelemetry) # e
  BY NamedSteps DEF Told
<1>5. e \in 1..run.answers[Latest].stored /\ rows[e].report.scope = DemoScope
  BY <1>1 DEF EventsOf, Events, RecordTells
<1> QED
  BY <1>1, <1>2, <1>3, <1>4, <1>5 DEF RecordTells

(***************************************************************************)
(* Whoever else reports, times out or crashes: a report the acceptance     *)
(* lets through tells the truth about the database.  Its listing is        *)
(* complete, because the limit exceeds the readings of the script; its     *)
(* last reading was the latest decision of the vehicle; and the command is *)
(* the only one, because the runner asks for one once.                     *)
(***************************************************************************)
THEOREM ReportsAreTrue == DemoSpec => []AcceptedReportsAreTrue
<1>1. DemoInv /\ ReportInv => AcceptedReportsAreTrue
  <2> SUFFICES ASSUME DemoInv, ReportInv, Accepted PROVE AcceptedReportsAreTrue
    BY DEF AcceptedReportsAreTrue
  <2>1. \A e \in EventsOf(DemoScope) \ Told(Telemetry) :
           /\ e > run.answers[Listing].stored
           /\ e <= run.answers[Latest].stored => Later(EventAt(LastTelemetry), e)
    BY AcceptedListing, AcceptedLatest
  <2> QED
    BY <2>1, AcceptedCommand DEF AcceptedReportsAreTrue
<1> QED
  BY <1>1, ReportSound, PTL


-----------------------------------------------------------------------------
(***************************************************************************)
(* The film.  Step i begins in frame FirstFrame(i); only the last frame,   *)
(* which shows the end of the run, does not have its own time.             *)
(***************************************************************************)

FirstFrame(i) == Script[i].at * Fps

LEMMA Scaled ==
    ASSUME NEW a \in Int, NEW b \in Int
    PROVE  /\ a * Fps \in Int
           /\ (a + b) * Fps = a * Fps + b * Fps
           /\ (a - b) * Fps = a * Fps - b * Fps
           /\ a <= b => a * Fps <= b * Fps
<1>1. Fps \in Nat
  BY DemoAssumption
<1>2. a <= b => 0 <= (b - a) * Fps
  BY <1>1
<1> QED
  BY <1>1, <1>2

LEMMA TwoFramesApart ==
    ASSUME NEW a \in Nat, NEW b \in Nat, a < b
    PROVE  a * Fps + 2 <= b * Fps
<1>1. Fps \in Nat /\ 2 <= Fps
  BY DemoAssumption, FilmAssumption
<1>2. (a + 1) * Fps <= b * Fps
  BY Scaled
<1>3. (a + 1) * Fps = a * Fps + 1 * Fps
  BY Scaled
<1>4. a * Fps \in Int /\ b * Fps \in Int /\ 1 * Fps = Fps
  BY <1>1, Scaled
<1> QED
  BY <1>1, <1>2, <1>3, <1>4

LEMMA FramesOfSteps ==
    /\ \A i \in 1..Len(Script) : FirstFrame(i) \in Nat
    /\ FirstFrame(1) = 0 /\ FirstFrame(Len(Script)) = FrameCount
    /\ \A i, j \in 1..Len(Script) : i < j => FirstFrame(i) + 2 <= FirstFrame(j)
    /\ 1 \in 1..Len(Script) /\ 2 <= FrameCount
<1>1. /\ Fps \in Nat /\ Fps >= 2 /\ DOMAIN Script = 1..Len(Script)
      /\ Len(Script) \in Nat \ {0}
      /\ \A i \in 1..Len(Script) : Script[i].at \in Nat
  <2>1. Script \in Seq([at: Nat, action: Actions, body: Bodies \union {None}])
    BY DemoAssumption DEF CanonicalScript
  <2>2. \A i \in 1..Len(Script) :
           Script[i] \in [at: Nat, action: Actions, body: Bodies \union {None}]
    BY <2>1, ElementOfSeq
  <2> QED
    BY <2>1, <2>2, DemoAssumption, FilmAssumption, ScriptFacts, LenProperties
<1>2. \A i \in 1..Len(Script) : FirstFrame(i) \in Nat
  BY <1>1 DEF FirstFrame
<1>3. FirstFrame(1) = 0 /\ FirstFrame(Len(Script)) = FrameCount
  BY <1>1, DemoAssumption DEF CanonicalScript, FirstFrame, FrameCount, Duration
<1>4. ASSUME NEW i \in 1..Len(Script), NEW j \in 1..Len(Script), i < j
      PROVE  FirstFrame(i) + 2 <= FirstFrame(j)
  <2>1. Script[i].at \in Nat /\ Script[j].at \in Nat /\ Script[i].at < Script[j].at
    BY <1>1, <1>4, FilmAssumption
  <2>2. Script[i].at * Fps + 2 <= Script[j].at * Fps
    BY <2>1, TwoFramesApart
  <2> QED
    BY <2>2 DEF FirstFrame
<1>5. 1 < Len(Script)
  <2>1. Latest \in 1..Len(Script) /\ Script[Latest].action = "latest"
    BY NamedSteps
  <2> QED
    BY <1>1, <2>1, ScriptFacts
<1> QED
  BY <1>1, <1>2, <1>3, <1>4, <1>5

LEMMA FirstFramesRise ==
    ASSUME NEW i \in 1..Len(Script), NEW j \in 1..Len(Script), NEW t \in Nat,
           i <= j, FirstFrame(j) <= t
    PROVE  FirstFrame(i) <= t
<1>1. FirstFrame(i) \in Nat /\ FirstFrame(j) \in Nat
  BY FramesOfSteps
<1>2. i = j \/ FirstFrame(i) + 2 <= FirstFrame(j)
  BY FramesOfSteps, ScriptFacts
<1> QED
  BY <1>1, <1>2

\* The step shown is the last to have begun.
LEMMA ShownStepIsLast ==
    ASSUME NEW t \in Nat
    PROVE  /\ ShownStep(t) \in 1..Len(Script)
           /\ FirstFrame(ShownStep(t)) <= t
           /\ \A j \in 1..Len(Script) : FirstFrame(j) <= t => j <= ShownStep(t)
<1> DEFINE Begun == {i \in 1..Len(Script) : FirstFrame(i) <= t}
           Ahead == {Len(Script) - i : i \in Begun}
<1>0. DOMAIN Script = 1..Len(Script) /\ Len(Script) \in Nat
  BY DemoAssumption, LenProperties DEF CanonicalScript
<1>1. Ahead \subseteq Nat /\ Ahead # {}
  BY <1>0, FramesOfSteps
<1> HIDE DEF Ahead
<1>2. PICK n \in Ahead : \A k \in Ahead : n <= k
  BY <1>1, LeastNatural
<1>3. PICK i \in Begun : n = Len(Script) - i
  BY DEF Ahead
<1>4. ASSUME NEW j \in Begun PROVE j <= i
  <2>1. n <= Len(Script) - j
    BY <1>2 DEF Ahead
  <2> QED
    BY <1>0, <1>3, <2>1
<1>5. \E k \in DOMAIN Script :
         /\ Script[k].at * Fps <= t
         /\ \A j \in DOMAIN Script : Script[j].at * Fps <= t => j <= k
  BY <1>0, <1>4 DEF FirstFrame
<1> QED
  BY <1>0, <1>5 DEF ShownStep, FirstFrame

\* A step is shown from its first frame on.
LEMMA StepIsShown ==
    ASSUME NEW i \in 1..Len(Script)
    PROVE  ShownStep(FirstFrame(i)) = i
<1>1. FirstFrame(i) \in Nat /\ Len(Script) \in Nat
  BY FramesOfSteps, ScriptFacts
<1>2. /\ ShownStep(FirstFrame(i)) \in 1..Len(Script)
      /\ FirstFrame(ShownStep(FirstFrame(i))) <= FirstFrame(i)
      /\ i <= ShownStep(FirstFrame(i))
  BY <1>1, ShownStepIsLast
<1> QED
  BY <1>1, <1>2, FramesOfSteps

FilmTimes == {FrameSecond(f) : f \in 0..(FrameCount - 1)}

LEMMA FilmShowsEveryStep ==
    FilmTimes \subseteq Nat /\ {ShownStep(t) : t \in FilmTimes} = DOMAIN Script
<1>0. FrameCount \in Nat /\ Len(Script) \in Nat /\ DOMAIN Script = 1..Len(Script)
  <2>1. FrameCount \in Nat
    BY FramesOfSteps, ScriptFacts
  <2> QED
    BY <2>1, DemoAssumption, LenProperties DEF CanonicalScript
<1>1. FilmTimes \subseteq Nat
  BY <1>0 DEF FilmTimes, FrameSecond
<1>2. ASSUME NEW i \in 1..Len(Script) PROVE FirstFrame(i) \in FilmTimes
  <2>1. CASE i = Len(Script)
    <3>1. FrameCount - 1 \in 0..(FrameCount - 1) /\ FrameSecond(FrameCount - 1) = FrameCount
      BY <1>0, FramesOfSteps DEF FrameSecond
    <3> QED
      BY <2>1, <3>1, FramesOfSteps DEF FilmTimes
  <2>2. CASE i < Len(Script)
    <3>1. FirstFrame(i) + 2 <= FrameCount /\ FirstFrame(i) \in Nat
      BY <1>0, <2>2, FramesOfSteps
    <3>2. FirstFrame(i) \in 0..(FrameCount - 1) /\ FrameSecond(FirstFrame(i)) = FirstFrame(i)
      BY <1>0, <3>1 DEF FrameSecond
    <3>3. \E f \in 0..(FrameCount - 1) : FirstFrame(i) = FrameSecond(f)
      BY <3>2
    <3> QED
      BY <3>3 DEF FilmTimes
  <2>3. i = Len(Script) \/ i < Len(Script)
    <3>1. Len(Script) \in Nat
      BY <1>0
    <3> QED
      BY <3>1
  <2> QED
    BY <2>1, <2>2, <2>3
<1>3. \A t \in FilmTimes : ShownStep(t) \in 1..Len(Script)
  BY <1>1, ShownStepIsLast
<1>4. \A i \in 1..Len(Script) : \E t \in FilmTimes : i = ShownStep(t)
  BY <1>2, StepIsShown
<1> QED
  BY <1>0, <1>1, <1>3, <1>4

\* The decision shown is that of the last reading whose step has begun.
LEMMA ShownIsLastReading ==
    ASSUME EventAt(Latest) = EventAt(LastTelemetry), NEW t \in Nat
    PROVE  \E k \in Telemetry :
              /\ ShownEvent(t) = EventAt(k) /\ FirstFrame(k) <= t
              /\ \A j \in Telemetry : k < j => t < FirstFrame(j)
<1> DEFINE s == ShownStep(t)
           decided == (Telemetry \union {Latest}) \intersect 1..s
           Ahead == {s - i : i \in decided}
           m == CHOOSE i \in decided : \A j \in decided : j <= i
<1>0. /\ s \in 1..Len(Script) /\ FirstFrame(s) <= t /\ Len(Script) \in Nat
      /\ \A j \in 1..Len(Script) : FirstFrame(j) <= t => j <= s
  BY ShownStepIsLast, ScriptFacts
<1>1. /\ \A i \in Telemetry : i \in 1..Len(Script) /\ i <= Latest
      /\ Latest = Len(Script) /\ LastTelemetry \in Telemetry
      /\ \A i \in Telemetry : i <= LastTelemetry
  BY NamedSteps, DemoAssumption, <1>0 DEF CanonicalScript
<1>2. 1 \in decided
  BY <1>0, ScriptFacts, DemoAssumption, LenProperties
  DEF CanonicalScript, Telemetry, StepsOf
<1> HIDE DEF s
<1>3. m \in decided /\ \A j \in decided : j <= m
  <2>1. Ahead \subseteq Nat /\ Ahead # {}
    BY <1>0, <1>2
  <2> HIDE DEF Ahead
  <2>2. PICK n \in Ahead : \A k \in Ahead : n <= k
    BY <2>1, LeastNatural
  <2>3. PICK i \in decided : n = s - i
    BY DEF Ahead
  <2>4. ASSUME NEW j \in decided PROVE j <= i
    <3>1. n <= s - j
      BY <2>2 DEF Ahead
    <3> QED
      BY <1>0, <2>3, <3>1
  <2> QED
    BY <2>4
<1>4. ShownEvent(t) = EventAt(m)
  BY DEF ShownEvent, s
<1> HIDE DEF m
<1>5. FirstFrame(m) <= t /\ m \in 1..Len(Script) /\ m <= s
  BY <1>0, <1>1, <1>3, FirstFramesRise
<1>6. \A j \in 1..Len(Script) : s < j => t < FirstFrame(j)
  BY <1>0, FramesOfSteps
<1>7. CASE m \in Telemetry
  BY <1>0, <1>1, <1>3, <1>4, <1>5, <1>6, <1>7
<1>8. CASE m = Latest
  <2>1. FirstFrame(LastTelemetry) <= t
    BY <1>0, <1>1, <1>5, <1>8, FirstFramesRise
  <2> QED
    BY <1>0, <1>1, <1>4, <1>8, <2>1
<1> QED
  BY <1>3, <1>7, <1>8

LEMMA GapBounds ==
    ASSUME NEW a \in Int, NEW b \in Int, NEW n \in Int, Gap(a, b) <= n
    PROVE  a <= b + n /\ b <= a + n
BY DEF Gap

\* When a reading was received, in frames of the film.
LEMMA ElapsedFrames ==
    ASSUME DemoInv, ReportInv, Accepted, NEW i \in Telemetry,
           NEW x, x = (Received(i) - run.started) * Fps
    PROVE  /\ x \in Int /\ TimelineTolerance * Fps \in Int
           /\ x <= FirstFrame(i) + TimelineTolerance * Fps
           /\ FirstFrame(i) <= x + TimelineTolerance * Fps
<1> DEFINE d == Received(i) - run.started
           a == Script[i].at
<1>1. EventAt(i) \in Events /\ rows \in Seq(Rows) /\ run.started \in Int
  BY AcceptedRecords DEF Told, DemoInv, TypeInv, TypeOK, RunSound, RunRecords
<1>2. Received(i) \in Int
  <2>1. rows[EventAt(i)] \in Rows
    BY <1>1, ElementOfSeq DEF Events
  <2> QED
    BY <2>1 DEF Rows, Received
<1>3. a \in Int /\ TimelineTolerance \in Int /\ d \in Int
  <2>1. Script[i] \in [at: Nat, action: Actions, body: Bodies \union {None}]
    BY NamedSteps, DemoAssumption, ElementOfSeq DEF CanonicalScript
  <2> QED
    BY <1>1, <1>2, <2>1, DemoAssumption
<1>4. d <= a + TimelineTolerance /\ a - TimelineTolerance <= d
  <2>1. Gap(Received(i), run.started + a) <= TimelineTolerance
    BY DEF Accepted, RunTimingValid
  <2> QED
    <3>1. run.started + a \in Int
      BY <1>1, <1>3
    <3>2. /\ Received(i) <= run.started + a + TimelineTolerance
          /\ run.started + a <= Received(i) + TimelineTolerance
      BY <1>2, <1>3, <2>1, <3>1, GapBounds
    <3> HIDE DEF a
    <3> QED
      BY <1>1, <1>2, <1>3, <3>2
<1> HIDE DEF d, a
<1>8. a + TimelineTolerance \in Int /\ a - TimelineTolerance \in Int
  BY <1>3
<1>5. /\ d * Fps <= (a + TimelineTolerance) * Fps
      /\ (a - TimelineTolerance) * Fps <= d * Fps
  BY <1>3, <1>4, <1>8, Scaled
<1>6. /\ (a + TimelineTolerance) * Fps = a * Fps + TimelineTolerance * Fps
      /\ (a - TimelineTolerance) * Fps = a * Fps - TimelineTolerance * Fps
      /\ a * Fps \in Int /\ TimelineTolerance * Fps \in Int /\ d * Fps \in Int
  BY <1>3, Scaled
<1>7. x = d * Fps /\ FirstFrame(i) = a * Fps
  BY DEF d, a, FirstFrame
<1> QED
  BY <1>5, <1>6, <1>7

\* The server orders two readings of the script as the runner sent them.
LEMMA LaterReadingIsLaterStep ==
    ASSUME DemoInv, ReportInv, SendersAreHeardInOrder, run.phase = "passed",
           NEW j \in Telemetry, NEW k \in Telemetry, Later(EventAt(j), EventAt(k))
    PROVE  k < j
<1>1. /\ j \in Nat /\ k \in Nat /\ EventAt(j) \in Events /\ EventAt(k) \in Events
      /\ rows \in Seq(Rows) /\ Len(rows) \in Nat
  <2>1. j \in 1..Len(Script) /\ k \in 1..Len(Script)
    BY NamedSteps
  <2> QED
    BY <2>1, ScriptFacts, PassedRecords DEF Told, DemoInv, TypeInv, TypeOK
<1>2. /\ rows[EventAt(j)].receivedAt \in Int /\ rows[EventAt(k)].receivedAt \in Int
      /\ EventAt(j) \in Nat /\ EventAt(k) \in Nat
  <2>1. rows[EventAt(j)] \in Rows /\ rows[EventAt(k)] \in Rows
    BY <1>1, ElementOfSeq DEF Events
  <2>2. EventAt(j) \in Nat /\ EventAt(k) \in Nat
    BY <1>1 DEF Events
  <2> QED
    BY <2>1, <2>2 DEF Rows
<1>3. ~Later(EventAt(k), EventAt(j)) /\ EventAt(j) # EventAt(k)
  BY <1>2 DEF Later
<1>4. ASSUME NEW i \in Telemetry
      PROVE  rows[EventAt(i)].report.msg = DemoMessage(i) /\ DemoMessage(i) \in ClientMessages
  <2>1. PICK e \in Events :
           run.answers[i].events = {e} /\ rows[e].report.msg = DemoMessage(i)
    BY PassedRecords, NamedSteps DEF RecordTells
  <2>2. EventAt(i) = e
    BY <2>1 DEF EventAt
  <2> QED
    BY <2>1, <2>2 DEF ClientMessages
<1>5. ~(j < k)
  <2> SUFFICES ASSUME j < k PROVE FALSE
    OBVIOUS
  <2>1. /\ {DemoMessage(j), DemoMessage(k)} \subseteq ClientMessages
        /\ DemoMessage(j)[1] = DemoMessage(k)[1] /\ DemoMessage(j)[2] < DemoMessage(k)[2]
    BY <1>4 DEF DemoMessage
  <2> QED
    BY <1>1, <1>3, <1>4, <2>1 DEF SendersAreHeardInOrder
<1> QED
  BY <1>1, <1>3, <1>5

(***************************************************************************)
(* For any canonical script and any film of two frames a step or more: the *)
(* film of an accepted report shows every step, although its last frame    *)
(* jumps to the end, and never a decision the vehicle did not have yet or  *)
(* no longer had, up to the tolerance of the acceptance.                   *)
(***************************************************************************)
THEOREM FilmsTellTheRun == DemoSpec => []FilmTellsTheRun
<1>1. DemoInv /\ ReportInv /\ SendersAreHeardInOrder => FilmTellsTheRun
  <2> SUFFICES ASSUME DemoInv, ReportInv, SendersAreHeardInOrder, Accepted
               PROVE  FilmTellsTheRun
    BY DEF FilmTellsTheRun
  <2> DEFINE told == Told(Telemetry)
             elapsed == [e \in told |-> (rows[e].receivedAt - run.started) * Fps]
             slip == TimelineTolerance * Fps
  <2>1. ASSUME NEW i \in Telemetry
        PROVE  /\ EventAt(i) \in told
               /\ elapsed[EventAt(i)] \in Int /\ slip \in Int /\ FirstFrame(i) \in Int
               /\ elapsed[EventAt(i)] <= FirstFrame(i) + slip
               /\ FirstFrame(i) <= elapsed[EventAt(i)] + slip
    <3>1. EventAt(i) \in told
      BY DEF Told
    <3>2. elapsed[EventAt(i)] = (Received(i) - run.started) * Fps
      BY <3>1 DEF Received
    <3>3. FirstFrame(i) \in Int
      BY NamedSteps, FramesOfSteps
    <3> HIDE DEF elapsed, told
    <3>4. PICK x : x = (Received(i) - run.started) * Fps
      OBVIOUS
    <3> QED
      BY <3>1, <3>2, <3>3, <3>4, ElapsedFrames
  <2> HIDE DEF elapsed, slip
  <2>2. ASSUME NEW t \in FilmTimes
        PROVE  /\ elapsed[ShownEvent(t)] <= t + slip
               /\ \A e \in told : Later(e, ShownEvent(t)) => elapsed[e] > t - slip
    <3>1. t \in Nat
      BY FilmShowsEveryStep
    <3>2. PICK k \in Telemetry :
             /\ ShownEvent(t) = EventAt(k) /\ FirstFrame(k) <= t
             /\ \A j \in Telemetry : k < j => t < FirstFrame(j)
      BY <3>1, ShownIsLastReading DEF Accepted, EventChainValid
    <3>3. elapsed[ShownEvent(t)] <= t + slip
      BY <2>1, <3>1, <3>2
    <3>4. ASSUME NEW j \in Telemetry, Later(EventAt(j), EventAt(k))
          PROVE  elapsed[EventAt(j)] > t - slip
      <4>1. t < FirstFrame(j)
        BY <3>2, <3>4, LaterReadingIsLaterStep DEF Accepted
      <4> QED
        BY <2>1, <3>1, <4>1
    <3> QED
      BY <3>2, <3>3, <3>4 DEF Told
  <2>3. {ShownStep(t) : t \in FilmTimes} = DOMAIN Script
    BY FilmShowsEveryStep
  <2> QED
    BY <2>2, <2>3 DEF FilmTellsTheRun, FilmTimes, elapsed, slip
<1> QED
  BY <1>1, ReportSound, ClientsAreHeardInOrder, PTL

-----------------------------------------------------------------------------
(***************************************************************************)
(* A run that kept its time.  If the pauses of the script are as long as   *)
(* the timeout, a step that was not late began when it was due, so that    *)
(* its reading is received within the timeout of its time.                 *)
(***************************************************************************)

\* When step i of the run is due.
DueAt(i) == run.started + Script[i].at

RunKeepsTime ==
    /\ run.phase = "ready" => Len(run.answers) = 0
    /\ run.phase \notin {"ready", "failed"} => run.started <= run.since
    /\ run.phase = "sleeping" /\ run.prompt => run.since <= Due
    /\ run.phase = "waiting" => clock - run.since <= RequestTimeout
    /\ run.phase = "waiting" /\ run.prompt => run.since = Due
    /\ run.phase = "passed" /\ run.prompt => run.since = DueAt(Len(Script))

\* The runner's job does what the runner waits for.
JobFitsTheStep ==
    run.phase = "waiting" =>
        /\ CarriesTelemetry(DemoThread) =>
              /\ job[DemoThread].report.scope = DemoScope
              /\ job[DemoThread].report.body = Turn.body
              /\ job[DemoThread].report.cap = run.since
        /\ job[DemoThread].phase = "insert" => run.since <= job[DemoThread].now

\* e is what the server stored of the reading of step i.
ReadingFits(i, e) ==
    /\ rows[e].report.scope = DemoScope
    /\ rows[e].report.body = Script[i].body
    /\ rows[e].report.cap \in run.started..rows[e].receivedAt
    /\ rows[e].receivedAt <= run.since
    /\ run.prompt => rows[e].receivedAt \in DueAt(i)..(DueAt(i) + RequestTimeout)

\* A telemetry step before i named e.
NamedBefore(i, e) ==
    \E k \in 1..(i - 1) :
        Script[k].action = "telemetry" /\ run.answers[k].events = {e}

\* a is the record of step i.
RecordFits(i, a) ==
    /\ Script[i].action = "telemetry" =>
          /\ \A e \in a.events : ReadingFits(i, e)
          /\ \A k \in 1..(i - 1) : \A e \in a.events : run.answers[k].stored < e
    /\ Script[i].action \in {"authorize", "command"} =>
          \E e \in Events : a.events = {e} /\ Eligible(e) /\ NamedBefore(i, e)
    /\ Script[i].action \in {"events", "latest"} =>
          \A k \in 1..(i - 1) : \A e \in run.answers[k].events : e <= a.stored

RecordsFit == \A i \in 1..Len(run.answers) : RecordFits(i, run.answers[i])

\* The event the runner asks about is one it was told.
KnowsReading ==
    run.phase \in UnderWay /\ Len(run.answers) # 0
        => NamedBefore(Len(run.answers) + 1, run.event)

AsksAboutReading ==
    run.phase = "waiting" /\ job[DemoThread].phase \in EventPhases
        => job[DemoThread].event = run.event

PaceInv ==
    RunKeepsTime /\ JobFitsTheStep /\ RecordsFit /\ KnowsReading /\ AsksAboutReading

LEMMA TurnIsDue ==
    ASSUME DemoInv, run.phase \in UnderWay
    PROVE  /\ Len(run.answers) \in Nat /\ Len(run.answers) + 1 \in 1..Len(Script)
           /\ Turn = Script[Len(run.answers) + 1] /\ Turn.at \in Nat
           /\ Due = DueAt(Len(run.answers) + 1) /\ Due \in Int
           /\ clock \in Nat /\ run.since \in Int /\ run.started \in Int
<1>1. /\ Len(run.answers) + 1 \in 1..Len(Script) /\ clock \in Nat
      /\ run.since \in Int /\ run.started \in Int /\ Len(run.answers) \in Nat
  BY ScriptTurn, LenProperties DEF DemoInv, TypeInv, TypeOK, RunSound, RunRecords
<1>2. Script[Len(run.answers) + 1] \in [at: Nat, action: Actions, body: Bodies \union {None}]
  BY <1>1, DemoAssumption, ElementOfSeq DEF CanonicalScript
<1> QED
  BY <1>1, <1>2 DEF Turn, Due, DueAt

\* A record comes of a query begun in time or of an answer waited for.
TimelyAnswer ==
    \/ /\ run.phase = "sleeping" /\ Due <= clock
       /\ run'.prompt => run.prompt /\ clock \in {Due, run.since}
    \/ run.phase = "waiting" /\ run'.prompt = run.prompt /\ Turn.action # "latest"

LEMMA SentPrompt ==
    ASSUME run \in RunRecords, clock \in Int
    PROVE  /\ Sent.prompt = (run.prompt /\ clock \in {Due, run.since})
           /\ Sent.started = run.started /\ Sent.since = clock
<1> DEFINE b == run.prompt /\ clock \in {Due, run.since}
<1> HIDE DEF b
<1>1. [run EXCEPT !.phase = "waiting", !.since = clock, !.prompt = b].prompt = b
  BY DEF RunRecords
<1>2. Sent.prompt = b
  BY <1>1 DEF Sent, b
<1> QED
  BY <1>2 DEF Sent, RunRecords, b

\* The run has one more record.
Answers ==
    /\ run.phase \in UnderWay
    /\ Len(run'.answers) = Len(run.answers) + 1
    /\ run'.phase = IF Len(run.answers) + 1 = Len(Script) THEN "passed" ELSE "sleeping"
    /\ run'.started = run.started /\ run'.since = clock
    /\ TimelyAnswer

LEMMA AnswersCome ==
    ASSUME DemoInv, run.phase \in UnderWay,
           NEW r \in RunRecords, r.answers = run.answers, r.started = run.started,
           NEW events \in SUBSET Nat, NEW stored \in Nat,
           run' = Answered(r, events, stored),
           run'.prompt = r.prompt => TimelyAnswer
    PROVE  Answers
<1>1. clock \in Int
  BY DEF DemoInv, TypeInv, TypeOK
<1>2. PICK a : a = Answered(r, events, stored)
  OBVIOUS
<1>3. /\ Len(a.answers) = Len(r.answers) + 1
      /\ a.phase = IF Len(r.answers) + 1 = Len(Script) THEN "passed" ELSE "sleeping"
  BY <1>1, <1>2, AnsweredFields
<1>4. a.started = r.started /\ a.since = clock /\ a.prompt = r.prompt
  BY <1>2 DEF Answered, RunRecords
<1> QED
  BY <1>2, <1>3, <1>4 DEF Answers

\* How a step may change the runner, as far as its time goes.
LEMMA TimelyMoves ==
    ASSUME DemoInv, JobsMatchTheStep, [DemoNext]_demoVars
    PROVE  \/ run' = run \/ run' = Failed \/ PassPreflight
           \/ SendTelemetry \/ SendAuthorization \/ SendCommand
           \/ Answers
<1>0. /\ run \in RunRecords /\ clock \in Int /\ 0 \in Nat /\ TypeOK
      /\ Len(rows) \in Nat /\ Len(auths) \in Nat /\ DemoThread \in Workers
  BY DemoAssumption, LenProperties DEF DemoInv, RunSound, TypeInv, TypeOK
<1>1. CASE GetEvents \/ GetLatest
  <2>1. PICK events \in SUBSET Events :
           run' = Answered(Sent, events, Len(rows)) \/ run' = Failed
    BY <1>1 DEF GetEvents, GetLatest, ListEvents, Newest, LatestFresh, EventsOf
  <2>2. CASE run' = Answered(Sent, events, Len(rows))
    <3>1. PICK r : r = Sent
      OBVIOUS
    <3>2. /\ r \in RunRecords /\ r.answers = run.answers /\ r.started = run.started
          /\ r.prompt = (run.prompt /\ clock \in {Due, run.since})
      BY <1>0, <3>1, SentFields, SentPrompt
    <3>3. run.phase = "sleeping" /\ run.phase \in UnderWay /\ clock >= Due
      BY <1>1 DEF GetEvents, GetLatest, Wakes, UnderWay
    <3>4. Due \in Int
      BY <3>3, TurnIsDue
    <3>5. run'.prompt = r.prompt => TimelyAnswer
      BY <1>0, <3>2, <3>3, <3>4 DEF TimelyAnswer
    <3>6. events \in SUBSET Nat
      BY DEF Events
    <3> QED
      BY <1>0, <2>2, <3>1, <3>2, <3>3, <3>5, <3>6, AnswersCome
  <2> QED
    BY <2>1, <2>2
<1>2. ASSUME NEW r \in RunRecords, r.answers = run.answers, r.started = run.started,
             r.prompt = run.prompt, NEW events \in SUBSET Nat, Hear(r, events),
             run.phase = "waiting" => Turn.action # "latest"
      PROVE  run' = run \/ run' = Failed \/ Answers
  <2>1. CASE run.phase = "waiting" /\ run' = Answered(r, events, 0)
    <3>1. run.phase \in UnderWay /\ (run'.prompt = r.prompt => TimelyAnswer)
      BY <1>2, <2>1 DEF TimelyAnswer, UnderWay
    <3> QED
      BY <1>0, <1>2, <2>1, <3>1, AnswersCome
  <2> QED
    BY <1>2, <2>1 DEF Hear
<1>3. CASE HearTelemetry
  <2> DEFINE n == Len(rows) + 1
             r == [run EXCEPT !.event = n]
  <2>1. n \in Nat /\ {n} \in SUBSET Nat
    BY <1>0
  <2>2. Hear(r, {n})
    BY <1>3 DEF HearTelemetry
  <2>3. run.phase = "waiting" => Turn.action # "latest"
    BY <1>3 DEF JobsMatchTheStep, HearTelemetry, InsertTelemetry, CarriesTelemetry,
                TelemetryPhases
  <2>4. /\ r \in RunRecords /\ r.answers = run.answers /\ r.started = run.started
        /\ r.prompt = run.prompt
    <3> HIDE DEF n
    <3> QED
      BY <1>0, <2>1 DEF RunRecords
  <2> HIDE DEF r, n
  <2> QED
    BY <1>2, <2>1, <2>2, <2>3, <2>4
<1>4. CASE HearAuthorization
  <2> DEFINE n == Len(auths) + 1
             r == [run EXCEPT !.token = n]
             e == job[DemoThread].event
  <2>1. n \in Nat /\ {e} \in SUBSET Nat
    BY <1>0 DEF TypeOK, Jobs
  <2>2. Hear(r, {e})
    BY <1>4 DEF HearAuthorization
  <2>3. run.phase = "waiting" => Turn.action # "latest"
    BY <1>4 DEF JobsMatchTheStep, HearAuthorization, GrantAuthorization
  <2>4. /\ r \in RunRecords /\ r.answers = run.answers /\ r.started = run.started
        /\ r.prompt = run.prompt
    <3> HIDE DEF n
    <3> QED
      BY <1>0, <2>1 DEF RunRecords
  <2> HIDE DEF r, n, e
  <2> QED
    BY <1>2, <2>1, <2>2, <2>3, <2>4
<1>5. CASE HearCommand
  <2>1. run.phase = "waiting" => Turn.action # "latest"
    BY <1>5 DEF JobsMatchTheStep, AsksForCommand, CommandPhases, HearCommand, ConsumeToken
  <2>2. Hear(run, {job[DemoThread].event}) /\ {job[DemoThread].event} \in SUBSET Nat
    BY <1>0, <1>5 DEF HearCommand, TypeOK, Jobs
  <2>3. PICK r : r = run
    OBVIOUS
  <2> QED
    BY <1>0, <1>2, <2>1, <2>2, <2>3
<1>6. CASE \/ UNCHANGED demoVars \/ HearRefusal \/ RequestTimesOut \/ RequestRejected
           \/ \E w \in Workers \ {DemoThread} :
                 PostSample(w) \/ HearSample(w) \/ SampleFails(w)
           \/ SampleTimesOut
           \/ \E w \in Workers : Proceed(w)
           \/ ServerDies \/ TimePasses
  BY <1>6 DEF demoVars, HearRefusal, GivesUp, RequestTimesOut, RequestRejected, PostSample,
              HearSample, SampleFails, SampleTimesOut, Proceed, ServerDies, TimePasses
<1> QED
  BY <1>1, <1>3, <1>4, <1>5, <1>6 DEF DemoNext

LEMMA StepsOnTime ==
    ASSUME PacedScript
    PROVE  /\ \A i \in 1..Len(Script) : Script[i].at \in Nat
           /\ \A i \in 1..(Len(Script) - 1) :
                 Script[i].at + RequestTimeout <= Script[i + 1].at
           /\ Script[1].at = 0 /\ RequestTimeout \in Nat /\ Len(Script) \in Nat \ {0}
           /\ Script[Len(Script)].action = "latest"
<1>1. \A i \in 1..Len(Script) :
         Script[i] \in [at: Nat, action: Actions, body: Bodies \union {None}]
  BY DemoAssumption, ElementOfSeq DEF CanonicalScript
<1>2. Script[Len(Script)].action = "latest"
  BY NamedSteps, DemoAssumption DEF CanonicalScript
<1> QED
  BY <1>1, <1>2, ScriptFacts, DemoAssumption DEF PacedScript, CanonicalScript

LEMMA AnswersKeepTime ==
    ASSUME PacedScript, DemoInv, LocalsOK, RunKeepsTime, Answers
    PROVE  RunKeepsTime'
<1> DEFINE i == Len(run.answers) + 1
<1>0. /\ i \in 1..Len(Script) /\ Turn = Script[i] /\ Due = DueAt(i) /\ Due \in Int
      /\ clock \in Nat /\ run.since \in Int /\ run.started \in Int
      /\ run.started <= clock /\ Len(run'.answers) = i
  BY TurnIsDue DEF Answers, LocalsOK
<1>1. /\ run'.phase = IF i = Len(Script) THEN "passed" ELSE "sleeping"
      /\ run'.started = run.started /\ run'.since = clock
  BY DEF Answers
<1>2. run'.prompt => clock <= Due + RequestTimeout
  <2> SUFFICES ASSUME run'.prompt PROVE clock <= Due + RequestTimeout
    OBVIOUS
  <2>0. RequestTimeout \in Nat
    BY DemoAssumption
  <2>1. CASE run.phase = "sleeping" /\ run.prompt /\ clock \in {Due, run.since}
    <3>1. run.since <= Due
      BY <2>1 DEF RunKeepsTime
    <3> QED
      BY <1>0, <2>0, <2>1, <3>1
  <2>2. CASE run.phase = "waiting" /\ run.prompt
    <3>1. run.since = Due /\ clock - run.since <= RequestTimeout
      BY <2>2 DEF RunKeepsTime
    <3> QED
      BY <1>0, <2>0, <3>1
  <2>3. \/ run.phase = "sleeping" /\ run.prompt /\ clock \in {Due, run.since}
        \/ run.phase = "waiting" /\ run.prompt
    BY DEF TimelyAnswer, Answers
  <2> QED
    BY <2>1, <2>2, <2>3
<1>3. run'.prompt /\ i = Len(Script) => clock = Due
  <2> SUFFICES ASSUME run'.prompt, i = Len(Script) PROVE clock = Due
    OBVIOUS
  <2>1. Turn.action = "latest"
    BY <1>0, StepsOnTime
  <2>2. run.phase = "sleeping" /\ Due <= clock /\ run.prompt /\ clock \in {Due, run.since}
    BY <2>1 DEF TimelyAnswer, Answers
  <2> QED
    BY <1>0, <2>2 DEF RunKeepsTime
<1> HIDE DEF i
<1>4. CASE i = Len(Script)
  <2>1. run'.prompt => run'.since = run'.started + Script[i].at
    BY <1>0, <1>1, <1>3, <1>4 DEF DueAt
  <2> QED
    BY <1>0, <1>1, <1>4, <2>1 DEF RunKeepsTime, DueAt
<1>5. CASE i # Len(Script)
  <2>1. i \in 1..(Len(Script) - 1) /\ i + 1 \in 1..Len(Script)
    BY <1>0, <1>5, ScriptFacts
  <2>2. Due' = run.started + Script[i + 1].at
    BY <1>0, <1>1 DEF Due, Turn
  <2>3. run'.prompt => run'.since <= Due'
    <3>1. /\ Script[i].at + RequestTimeout <= Script[i + 1].at
          /\ Script[i].at \in Nat /\ Script[i + 1].at \in Nat /\ RequestTimeout \in Nat
      BY <1>0, <2>1, StepsOnTime
    <3>2. Due = run.started + Script[i].at
      BY <1>0 DEF DueAt
    <3>3. Due + RequestTimeout <= Due'
      <4> DEFINE a == Script[i].at
                 b == Script[i + 1].at
      <4>1. a + RequestTimeout <= b /\ a \in Nat /\ b \in Nat
        BY <3>1
      <4>2. Due = run.started + a /\ Due' = run.started + b
        BY <2>2, <3>2
      <4>3. run.started \in Int /\ RequestTimeout \in Nat
        BY <1>0, <3>1
      <4> HIDE DEF a, b
      <4> QED
        BY <4>1, <4>2, <4>3
    <3>4. Due' \in Int
      BY <1>0, <2>2, <3>1
    <3>5. clock <= Due + RequestTimeout => clock <= Due'
      BY <1>0, <3>1, <3>3, <3>4
    <3> QED
      BY <1>1, <1>2, <3>5
  <2> QED
    BY <1>0, <1>1, <1>5, <2>3 DEF RunKeepsTime
<1> QED
  BY <1>4, <1>5

LEMMA SendsKeepTime ==
    ASSUME DemoInv, LocalsOK, RunKeepsTime, SendTelemetry \/ SendAuthorization \/ SendCommand
    PROVE  RunKeepsTime'
<1>0. /\ run.phase = "sleeping" /\ run.phase \in UnderWay /\ Due <= clock /\ run' = Sent
      /\ run \in RunRecords /\ UNCHANGED clock
  BY DEF SendTelemetry, SendAuthorization, SendCommand, Wakes, UnderWay, DemoInv, RunSound,
         SubmitTelemetry, RequestAuthorization, RequestMigration
<1>1. /\ clock \in Nat /\ Due \in Int /\ run.since \in Int /\ run.started \in Int
      /\ RequestTimeout \in Nat
  BY <1>0, TurnIsDue, DemoAssumption
<1>2. /\ run'.phase = "waiting" /\ run'.answers = run.answers
      /\ run'.prompt = (run.prompt /\ clock \in {Due, run.since})
      /\ run'.started = run.started /\ run'.since = clock
  BY <1>0, <1>1, SentFields, SentPrompt
<1>3. Due' = Due
  BY <1>2 DEF Due, Turn
<1>4. run'.prompt => clock = Due
  <2> SUFFICES ASSUME run'.prompt PROVE clock = Due
    OBVIOUS
  <2>1. run.prompt /\ clock \in {Due, run.since}
    BY <1>2
  <2>2. run.since <= Due
    BY <1>0, <2>1 DEF RunKeepsTime
  <2> QED
    BY <1>0, <1>1, <2>1, <2>2
<1>5. run.started <= clock /\ clock - clock <= RequestTimeout
  BY <1>1 DEF LocalsOK
<1> QED
  BY <1>0, <1>2, <1>3, <1>4, <1>5 DEF RunKeepsTime

LEMMA RunKeepsTimeNext ==
    ASSUME PacedScript, DemoInv, ReportInv, RunKeepsTime, [DemoNext]_demoVars
    PROVE  RunKeepsTime'
<1>0. LocalsOK /\ JobsMatchTheStep /\ run \in RunRecords
  BY DEF ReportInv, DemoInv, RunSound
<1>1. CASE Answers
  BY <1>0, <1>1, AnswersKeepTime
<1>2. CASE SendTelemetry \/ SendAuthorization \/ SendCommand
  BY <1>0, <1>2, SendsKeepTime
<1>3. CASE PassPreflight
  <2>1. /\ run'.phase = "sleeping" /\ run'.started = clock /\ run'.since = clock
        /\ run'.answers = run.answers /\ run.phase = "ready"
    BY <1>0, <1>3 DEF PassPreflight, RunRecords
  <2>2. Due' = clock + Script[1].at
    BY <2>1 DEF Due, Turn, RunKeepsTime
  <2>3. clock \in Nat /\ Script[1].at = 0
    BY StepsOnTime DEF DemoInv, TypeInv, TypeOK
  <2> QED
    BY <2>1, <2>2, <2>3 DEF RunKeepsTime
<1>4. CASE run' = Failed
  BY <1>4, FailedFields DEF RunKeepsTime
<1>5. CASE run' = run
  <2>1. Due' = Due /\ DueAt(Len(Script))' = DueAt(Len(Script))
    BY <1>5 DEF Due, Turn, DueAt
  <2>2. run.phase = "waiting" => clock' - run.since <= RequestTimeout
    <3>1. CASE UNCHANGED clock
      BY <1>5, <3>1 DEF RunKeepsTime
    <3>2. CASE TimePasses
      <4> SUFFICES ASSUME run.phase = "waiting" PROVE clock' - run.since <= RequestTimeout
        OBVIOUS
      <4>1. clock - run.since < RequestTimeout /\ clock' = clock + 1
        BY <3>2 DEF TimePasses, Tick
      <4>2. clock \in Nat /\ run.since \in Int /\ RequestTimeout \in Nat
        BY TurnIsDue, DemoAssumption DEF UnderWay
      <4> QED
        BY <4>1, <4>2
    <3>3. UNCHANGED clock \/ TimePasses
      BY DEF DemoNext, demoVars, vars, PassPreflight, SendTelemetry, SendAuthorization,
             SendCommand, GetEvents, GetLatest, HearTelemetry, HearAuthorization, HearCommand,
             HearRefusal, RequestTimesOut, RequestRejected, PostSample, HearSample,
             SampleFails, SampleTimesOut, Proceed, ServerDies, SubmitTelemetry,
             RequestAuthorization, RequestMigration, InsertTelemetry, GrantAuthorization,
             ConsumeToken, RefuseAuthorization, ValidateToken, RefuseCommand, RequestFails,
             StampReceipt, CallActuator, Crash
    <3> QED
      BY <3>1, <3>2, <3>3, Zenon
  <2> QED
    BY <1>5, <2>1, <2>2 DEF RunKeepsTime
<1> QED
  BY <1>0, <1>1, <1>2, <1>3, <1>4, <1>5, TimelyMoves

\* What a step makes of the job of the runner's thread.
LEMMA RunnersJob ==
    ASSUME DemoInv, [DemoNext]_demoVars
    PROVE  \/ SendTelemetry \/ SendAuthorization \/ SendCommand
           \/ job'[DemoThread] = job[DemoThread]
           \/ job'[DemoThread].phase = "idle"
           \/ StampReceipt(DemoThread)
           \/ ValidateToken(DemoThread) \/ CallActuator(DemoThread)
<1>0. DemoThread \in Workers /\ job \in [Workers -> Jobs]
  BY DemoAssumption DEF DemoInv, TypeInv, TypeOK
<1>1. CASE HearTelemetry \/ HearAuthorization \/ HearCommand \/ HearRefusal
  <2>1. Finish(DemoThread) \/ ValidateToken(DemoThread)
    BY <1>1 DEF HearTelemetry, HearAuthorization, HearCommand, HearRefusal, InsertTelemetry,
                GrantAuthorization, ConsumeToken, RefuseAuthorization, RefuseCommand,
                RequestFails
  <2>2. Finish(DemoThread) => job'[DemoThread].phase = "idle"
    BY <1>0, IdleIsQuiet DEF Finish
  <2> QED
    BY <2>1, <2>2
<1>2. ASSUME NEW w \in Workers \ {DemoThread}, PostSample(w) \/ HearSample(w) \/ SampleFails(w)
      PROVE  job'[DemoThread] = job[DemoThread]
  BY <1>0, <1>2 DEF PostSample, HearSample, SampleFails, SubmitTelemetry, InsertTelemetry,
                    RequestFails, Start, Finish
<1>3. ASSUME NEW w \in Workers, Proceed(w)
      PROVE  \/ job'[DemoThread] = job[DemoThread] \/ StampReceipt(DemoThread)
             \/ ValidateToken(DemoThread) \/ CallActuator(DemoThread)
  BY <1>0, <1>3 DEF Proceed, StampReceipt, ValidateToken, CallActuator, Advance, Finish
<1>4. CASE ServerDies
  BY <1>0, <1>4, IdleIsQuiet DEF ServerDies, Crash
<1>5. CASE \/ UNCHANGED demoVars \/ PassPreflight \/ GetEvents \/ GetLatest
           \/ RequestTimesOut \/ RequestRejected \/ SampleTimesOut \/ TimePasses
  BY <1>5 DEF demoVars, vars, PassPreflight, GetEvents, GetLatest, RequestTimesOut,
              RequestRejected, SampleTimesOut, TimePasses, Tick
<1> QED
  BY <1>1, <1>2, <1>3, <1>4, <1>5 DEF DemoNext

LEMMA JobFitsNext ==
    ASSUME DemoInv, ReportInv, JobFitsTheStep, [DemoNext]_demoVars
    PROVE  JobFitsTheStep'
<1> DEFINE j == job[DemoThread]
<1>0. /\ DemoThread \in Workers /\ job \in [Workers -> Jobs] /\ j \in Jobs
      /\ run \in RunRecords /\ clock \in Int
      /\ {"idle", "grant", "validate", "actuate", "consume"} \intersect TelemetryPhases = {}
      /\ "insert" \in TelemetryPhases
  BY DemoAssumption DEF DemoInv, TypeInv, TypeOK, RunSound, TelemetryPhases
<1>1. \/ SendTelemetry \/ SendAuthorization \/ SendCommand
      \/ run' = run \/ run'.phase # "waiting"
  <2>1. Answers => run'.phase # "waiting"
    BY DEF Answers
  <2>2. PassPreflight => run'.phase # "waiting"
    BY <1>0 DEF PassPreflight, RunRecords
  <2> QED
    BY <2>1, <2>2, TimelyMoves, FailedFields DEF ReportInv
<1>2. CASE SendTelemetry
  <2> DEFINE r == [msg |-> DemoMessage(Len(run.answers) + 1), scope |-> DemoScope,
                   body |-> Turn.body, cap |-> clock]
  <2>1. PICK p \in {"lookup", "stamp"} : job'[DemoThread] = NewJob(p, r, 0, 0, 0)
    BY <1>0, <1>2 DEF SendTelemetry, SubmitTelemetry, Start
  <2>2. /\ job'[DemoThread].phase # "insert" /\ job'[DemoThread].report.scope = DemoScope
        /\ job'[DemoThread].report.body = Turn.body /\ job'[DemoThread].report.cap = clock
    BY <2>1 DEF NewJob
  <2>3. run'.since = clock /\ run'.answers = run.answers
    BY <1>0, <1>2, SentFields, SentPrompt DEF SendTelemetry
  <2> QED
    BY <2>2, <2>3 DEF JobFitsTheStep, Turn
<1>3. CASE SendAuthorization \/ SendCommand
  <2>1. job'[DemoThread].phase \in {"grant", "validate"}
    BY <1>0, <1>3 DEF SendAuthorization, SendCommand, RequestAuthorization, RequestMigration,
                      Start, NewJob
  <2> QED
    BY <1>0, <2>1 DEF JobFitsTheStep, CarriesTelemetry
<1>4. CASE run'.phase # "waiting"
  BY <1>4 DEF JobFitsTheStep
<1>5. ASSUME run' = run, run.phase = "waiting",
             \/ job'[DemoThread].phase \notin TelemetryPhases
             \/ job'[DemoThread] = j
             \/ StampReceipt(DemoThread)
      PROVE  JobFitsTheStep'
  <2>1. Turn' = Turn
    BY <1>5 DEF Turn
  <2>2. CASE job'[DemoThread].phase \notin TelemetryPhases
    BY <1>0, <2>2 DEF JobFitsTheStep, CarriesTelemetry
  <2>3. CASE job'[DemoThread] = j
    BY <1>5, <2>1, <2>3 DEF JobFitsTheStep, CarriesTelemetry
  <2>4. CASE StampReceipt(DemoThread)
    <3>1. job'[DemoThread].report = j.report /\ job'[DemoThread].now = clock
      BY <1>0, <2>4 DEF StampReceipt, NewJob
    <3>2. CarriesTelemetry(DemoThread) /\ run.since <= clock
      BY <1>0, <2>4 DEF StampReceipt, CarriesTelemetry, TelemetryPhases, ReportInv, LocalsOK
    <3> QED
      BY <1>5, <2>1, <3>1, <3>2 DEF JobFitsTheStep
  <2> QED
    BY <1>5, <2>2, <2>3, <2>4
<1>6. ValidateToken(DemoThread) \/ CallActuator(DemoThread)
         => job'[DemoThread].phase \notin TelemetryPhases
  BY <1>0, IdleIsQuiet DEF ValidateToken, CallActuator, Advance, Finish, Jobs
<1>7. job'[DemoThread].phase = "idle" => job'[DemoThread].phase \notin TelemetryPhases
  BY <1>0
<1> QED
  BY <1>1, <1>2, <1>3, <1>4, <1>5, <1>6, <1>7, RunnersJob

-----------------------------------------------------------------------------
(***************************************************************************)
(* What the records of such a run say of the server's tables.              *)
(***************************************************************************)

\* The run keeps its records, and its time goes on.
RunGoesOnWith ==
    /\ \A k \in 1..Len(run.answers) : run'.answers[k] = run.answers[k]
    /\ run'.started = run.started /\ run.since <= run'.since /\ run'.since \in Int
    /\ run'.prompt => run.prompt

LEMMA NamedStays ==
    ASSUME RunGoesOnWith, Len(run.answers) \in Nat, NEW e,
           NEW i \in 1..(Len(run.answers) + 1), NamedBefore(i, e)
    PROVE  NamedBefore(i, e)' /\ NamedBefore(i + 1, e)'
<1>1. PICK k \in 1..(i - 1) : Script[k].action = "telemetry" /\ run.answers[k].events = {e}
  BY DEF NamedBefore
<1>2. k \in 1..Len(run.answers) /\ k \in 1..((i + 1) - 1)
  OBVIOUS
<1> QED
  BY <1>1, <1>2 DEF NamedBefore, RunGoesOnWith

LEMMA RowTimes ==
    ASSUME TypeInv, NEW e \in Events
    PROVE  rows[e].receivedAt \in Int /\ rows[e].report \in Reports
<1>1. rows[e] \in Rows
  BY ElementOfSeq DEF TypeInv, TypeOK, Events
<1> QED
  BY <1>1 DEF Rows

LEMMA RecordStaysFit ==
    ASSUME DemoInv, ReportInv, [Next]_vars, RunGoesOnWith,
           NEW i \in 1..Len(run.answers), NEW a, a = run.answers[i], RecordFits(i, a)
    PROVE  RecordFits(i, a)'
<1>0. /\ TypeInv /\ RecordTells(i, a) /\ Len(run.answers) \in Nat
      /\ run \in RunRecords /\ run.since \in Int
  BY LenProperties DEF DemoInv, ReportInv, RecordsTell, RunSound, RunRecords
<1>1. \A e \in Events : /\ e \in Events' /\ rows'[e].report = rows[e].report
                        /\ rows'[e].receivedAt = rows[e].receivedAt
                        /\ rows[e].receivedAt \in Int
  BY <1>0, EventsAreKept, RowTimes
<1>2. a.events \subseteq Events
  BY <1>0 DEF RecordTells
<1>3. DueAt(i)' = DueAt(i)
  BY DEF RunGoesOnWith, DueAt
<1>4. \A k \in 1..(i - 1) : run'.answers[k] = run.answers[k]
  BY <1>0 DEF RunGoesOnWith
<1>5. ASSUME NEW e \in a.events, ReadingFits(i, e) PROVE ReadingFits(i, e)'
  <2>1. rows[e].receivedAt <= run'.since
    BY <1>0, <1>1, <1>2, <1>5 DEF ReadingFits, RunGoesOnWith
  <2> QED
    BY <1>1, <1>2, <1>3, <1>5, <2>1 DEF ReadingFits, RunGoesOnWith
<1>6. ASSUME NEW e \in Events, Eligible(e), NamedBefore(i, e)
      PROVE  e \in Events' /\ Eligible(e)' /\ NamedBefore(i, e)'
  <2>1. NamedBefore(i, e)'
    BY <1>0, <1>6, NamedStays
  <2> QED
    BY <1>1, <1>6, <2>1 DEF Eligible
<1>7. Script[i].action = "telemetry" =>
         /\ \A e \in a.events : ReadingFits(i, e)'
         /\ \A k \in 1..(i - 1) : \A e \in a.events : run'.answers[k].stored < e
  BY <1>4, <1>5 DEF RecordFits
<1>8. Script[i].action \in {"authorize", "command"} =>
         \E e \in Events' : a.events = {e} /\ Eligible(e)' /\ NamedBefore(i, e)'
  BY <1>6 DEF RecordFits
<1>9. Script[i].action \in {"events", "latest"} =>
         \A k \in 1..(i - 1) : \A e \in run'.answers[k].events : e <= a.stored
  BY <1>4 DEF RecordFits
<1> QED
  BY <1>7, <1>8, <1>9 DEF RecordFits

LEMMA KeptRecordsFit ==
    ASSUME DemoInv, ReportInv, RecordsFit, [Next]_vars, RunGoesOnWith,
           Len(run'.answers) = Len(run.answers)
    PROVE  RecordsFit'
<1>1. ASSUME NEW i \in 1..Len(run'.answers) PROVE RecordFits(i, run.answers[i])'
  <2>1. PICK a : a = run.answers[i]
    OBVIOUS
  <2>2. RecordFits(i, a)' /\ run'.answers[i] = a
    BY <2>1, RecordStaysFit DEF RecordsFit, RunGoesOnWith
  <2> QED
    BY <2>1, <2>2
<1> QED
  BY <1>1 DEF RecordsFit

LEMMA NotedRecordsFit ==
    ASSUME DemoInv, ReportInv, RecordsFit, [Next]_vars, RunGoesOnWith,
           NEW i \in Nat, NEW a \in Records, Notes(i, a), RecordFits(i, a)'
    PROVE  RecordsFit'
<1>1. /\ Len(run'.answers) = i /\ Len(run.answers) \in Nat /\ i = Len(run.answers) + 1
      /\ run'.answers[i] = a
  BY AnswersAppended DEF Notes
<1>2. ASSUME NEW k \in 1..Len(run'.answers)
      PROVE  RecordFits(k, run.answers[k])'
  <2>1. CASE k = i
    BY <1>1, <2>1
  <2>2. CASE k \in 1..Len(run.answers)
    <3>1. PICK b : b = run.answers[k]
      OBVIOUS
    <3>2. RecordFits(k, b)' /\ run'.answers[k] = b
      BY <2>2, <3>1, RecordStaysFit DEF RecordsFit, RunGoesOnWith
    <3> QED
      BY <3>1, <3>2
  <2> QED
    BY <1>1, <2>1, <2>2
<1> QED
  BY <1>2 DEF RecordsFit

\* The new record of an answer, once the run goes on with it.
LEMMA AnswerFits ==
    ASSUME DemoInv, ReportInv, RecordsFit, [Next]_vars, run.phase \in UnderWay,
           NEW r \in RunRecords, r.answers = run.answers, r.started = run.started,
           r.event \in 0..Len(rows'), r.prompt => run.prompt,
           NEW events \in SUBSET Nat, NEW stored \in Nat,
           run' = Answered(r, events, stored),
           \A i \in Nat, a \in Records :
              /\ i = Len(run.answers) + 1 /\ a.events = events /\ a.stored = stored
              /\ Notes(i, a) /\ RunGoesOnWith
              => RecordFits(i, a)'
    PROVE  RecordsFit' /\ RunGoesOnWith /\ Len(run'.answers) = Len(run.answers) + 1
             /\ run'.answers[Len(run.answers) + 1].events = events /\ run'.event = r.event
<1>1. PICK i \in Nat, a \in Records :
         /\ Notes(i, a)
         /\ i = Len(run.answers) + 1 /\ a.events = events /\ a.stored = stored
  BY AnswerNotes
<1>2. /\ Len(run'.answers) = i /\ run'.answers[i] = a
      /\ \A k \in 1..Len(run.answers) : run'.answers[k] = run.answers[k]
  BY <1>1, AnswersAppended
<1>3. RunGoesOnWith
  <2>1. run'.prompt = r.prompt /\ run'.event = r.event
    BY DEF Answered, RunRecords
  <2>2. run'.started = run.started /\ run'.since = clock
    BY <1>1 DEF Notes
  <2>3. run.since <= clock /\ clock \in Int
    BY DEF ReportInv, LocalsOK, DemoInv, TypeInv, TypeOK
  <2> QED
    BY <1>2, <2>1, <2>2, <2>3 DEF RunGoesOnWith
<1>4. RecordFits(i, a)'
  BY <1>1, <1>3
<1>5. RecordsFit'
  BY <1>1, <1>3, <1>4, NotedRecordsFit
<1>6. run'.event = r.event
  BY DEF Answered, RunRecords
<1> QED
  BY <1>1, <1>2, <1>3, <1>5, <1>6

\* Every event an earlier record names was stored when a query was answered.
LEMMA QueriesFit ==
    ASSUME DemoInv, ReportInv, RecordsFit, GetEvents \/ GetLatest,
           run' # Failed
    PROVE  /\ RecordsFit' /\ RunGoesOnWith /\ run'.event = run.event
           /\ Len(run'.answers) = Len(run.answers) + 1
<1>0. /\ TypeInv /\ run \in RunRecords /\ clock \in Int /\ run.phase \in UnderWay
      /\ UNCHANGED vars /\ Len(rows) \in Nat /\ run.event \in Nat
      /\ run.event \in 0..Len(rows)
  BY LenProperties
  DEF DemoInv, TypeInv, TypeOK, RunSound, RunRecords, GetEvents, GetLatest, Wakes, UnderWay,
      ReportInv, LocalsOK
<1>1. PICK events \in SUBSET Events : run' = Answered(Sent, events, Len(rows))
  BY DEF GetEvents, GetLatest, ListEvents, Newest, LatestFresh, EventsOf
<1>2. PICK r : r = Sent
  OBVIOUS
<1>3. /\ r \in RunRecords /\ r.answers = run.answers /\ r.started = run.started
      /\ r.event = run.event
  BY <1>0, <1>2, SentFields, SentPrompt
<1>8. r.prompt => run.prompt
  BY <1>0, <1>2, SentPrompt
<1>4. /\ Turn.action \in {"events", "latest"} /\ Turn = Script[Len(run.answers) + 1]
      /\ Len(run.answers) \in Nat
  BY <1>0, TurnIsDue DEF GetEvents, GetLatest, Wakes
<1>5. ASSUME NEW i \in Nat, NEW a \in Records, i = Len(run.answers) + 1,
             a.stored = Len(rows), RunGoesOnWith
      PROVE  RecordFits(i, a)'
  <2>1. ASSUME NEW k \in 1..(i - 1), NEW e \in run'.answers[k].events
        PROVE  e <= a.stored
    <3>1. k \in 1..Len(run.answers) /\ run'.answers[k] = run.answers[k]
      BY <1>4, <1>5 DEF RunGoesOnWith
    <3>2. run.answers[k].events \subseteq Events
      BY <3>1 DEF ReportInv, RecordsTell, RecordTells
    <3> QED
      BY <1>0, <1>5, <3>1, <3>2 DEF Events
  <2> QED
    BY <1>4, <1>5, <2>1 DEF RecordFits
<1>6. events \in SUBSET Nat /\ r.event \in 0..Len(rows') /\ [Next]_vars
  <2>1. [Next]_vars
    BY <1>0
  <2>2. rows' = rows
    BY <1>0 DEF vars
  <2>3. events \in SUBSET Nat
    BY DEF Events
  <2>4. r.event \in 0..Len(rows')
    BY <1>0, <1>3, <2>2
  <2> QED
    BY <2>1, <2>3, <2>4
<1>7. run' = Answered(r, events, Len(rows))
  BY <1>1, <1>2
<1> QED
  <2>1. PICK n : n = Len(rows)
    OBVIOUS
  <2>2. \A i \in Nat, a \in Records :
           /\ i = Len(run.answers) + 1 /\ a.events = events /\ a.stored = n
           /\ Notes(i, a) /\ RunGoesOnWith
           => RecordFits(i, a)'
    BY <1>5, <2>1
  <2>3. n \in Nat /\ run' = Answered(r, events, n)
    BY <1>0, <1>7, <2>1
  <2>4. events \in SUBSET Nat /\ r.event \in 0..Len(rows')
    BY <1>6
  <2> QED
    BY <1>0, <1>3, <1>6, <1>8, <2>2, <2>3, <2>4, AnswerFits

\* A reading is stored while the runner waits for it, after all it asked before.
LEMMA HeardReadingFits ==
    ASSUME DemoInv, SpeechInv, PaceInv, ReportInv, HearTelemetry, run.phase = "waiting",
           NEW n, n = Len(rows) + 1, NEW i, i = Len(run.answers) + 1,
           run'.since = clock, RunGoesOnWith
    PROVE  ReadingFits(i, n)'
<1> DEFINE j == job[DemoThread]
<1>0. /\ TypeInv /\ TypeOK /\ CarriesReport /\ DemoThread \in Workers /\ j \in Jobs
      /\ clock \in Nat /\ InsertTelemetry(DemoThread) /\ UNCHANGED clock
  BY DemoAssumption DEF DemoInv, TypeInv, TypeOK, HearTelemetry, InsertTelemetry
<1>1. rows'[n].report = j.report /\ rows'[n].receivedAt = j.now
  BY <1>0, RowAppended
<1>2. j.phase = "insert" /\ CarriesTelemetry(DemoThread)
  BY <1>0 DEF InsertTelemetry, CarriesTelemetry, TelemetryPhases
<1>3. /\ j.report.scope = DemoScope /\ j.report.body = Turn.body
      /\ j.report.cap = run.since /\ run.since <= j.now /\ j.now <= clock /\ j.now \in Int
  BY <1>0, <1>2 DEF PaceInv, JobFitsTheStep, SpeechInv, ServerOrder, RowsArePast, Jobs
<1>4. /\ Turn = Script[i] /\ Due = DueAt(i) /\ Due \in Int
      /\ run.since \in Int /\ run.started \in Int /\ run.started <= run.since
      /\ RequestTimeout \in Nat /\ clock - run.since <= RequestTimeout
  BY TurnIsDue, DemoAssumption DEF UnderWay, PaceInv, RunKeepsTime
<1> HIDE DEF j
<1>5. rows'[n].report.cap \in run'.started..rows'[n].receivedAt
  BY <1>1, <1>3, <1>4 DEF RunGoesOnWith
<1>6. run'.prompt => rows'[n].receivedAt \in DueAt(i)'..(DueAt(i)' + RequestTimeout)
  <2> SUFFICES ASSUME run'.prompt
               PROVE  rows'[n].receivedAt \in DueAt(i)'..(DueAt(i)' + RequestTimeout)
    OBVIOUS
  <2>1. DueAt(i)' = Due
    BY <1>4 DEF DueAt, RunGoesOnWith
  <2>2. run.since = Due
    BY DEF RunGoesOnWith, PaceInv, RunKeepsTime
  <2>3. j.now <= Due + RequestTimeout
    BY <1>0, <1>3, <1>4, <2>2
  <2> QED
    BY <1>1, <1>3, <1>4, <2>1, <2>2, <2>3
<1> QED
  BY <1>1, <1>3, <1>4, <1>5, <1>6 DEF ReadingFits

LEMMA HearsTelemetryFit ==
    ASSUME DemoInv, SpeechInv, ReportInv, PaceInv, [Next]_vars,
           HearTelemetry, run.phase = "waiting", run' # Failed
    PROVE  RecordsFit' /\ KnowsReading'
<1> PICK n : n = Len(rows) + 1
  OBVIOUS
<1>0. /\ TypeOK /\ CarriesReport /\ run \in RunRecords /\ DemoThread \in Workers
      /\ run.phase \in UnderWay /\ Len(rows) \in Nat /\ clock \in Int
      /\ InsertTelemetry(DemoThread)
  BY DemoAssumption, LenProperties
  DEF DemoInv, TypeInv, TypeOK, RunSound, UnderWay, HearTelemetry
<1>1. Len(rows') = n /\ n \in Nat /\ {n} \in SUBSET Nat /\ n \in 0..Len(rows')
  BY <1>0, RowAppended
<1>2. PICK r \in RunRecords :
         /\ r.answers = run.answers /\ r.started = run.started /\ r.event = n
         /\ r.prompt = run.prompt /\ run' = Answered(r, {n}, 0)
  <2> DEFINE r == [run EXCEPT !.event = n]
  <2>1. run' = Answered(r, {n}, 0)
    BY DEF HearTelemetry, Hear
  <2>2. /\ r \in RunRecords /\ r.answers = run.answers /\ r.started = run.started
        /\ r.event = n /\ r.prompt = run.prompt
    BY <1>0, <1>1 DEF RunRecords
  <2> QED
    BY <2>1, <2>2
<1>4. r.prompt => run.prompt
  BY <1>2
<1>5. /\ Turn.action = "telemetry" /\ Turn = Script[Len(run.answers) + 1]
      /\ Len(run.answers) \in Nat
  BY <1>0, TurnIsDue
  DEF InsertTelemetry, ReportInv, JobsMatchTheStep, CarriesTelemetry, TelemetryPhases
<1>6. ASSUME NEW i \in Nat, NEW a \in Records, i = Len(run.answers) + 1, a.events = {n},
             Notes(i, a), RunGoesOnWith
      PROVE  RecordFits(i, a)'
  <2>1. ReadingFits(i, n)'
    BY <1>6, HeardReadingFits DEF Notes
  <2>2. ASSUME NEW k \in 1..(i - 1) PROVE run'.answers[k].stored < n
    <3>1. k \in 1..Len(run.answers) /\ run'.answers[k] = run.answers[k]
      BY <1>5, <1>6 DEF RunGoesOnWith
    <3>2. run.answers[k].stored \in 0..Len(rows)
      BY <3>1 DEF ReportInv, RecordsTell, RecordTells
    <3> QED
      BY <1>0, <1>1, <3>1, <3>2
  <2> QED
    BY <1>5, <1>6, <2>1, <2>2 DEF RecordFits
<1>7. /\ RecordsFit' /\ Len(run'.answers) = Len(run.answers) + 1
      /\ run'.answers[Len(run.answers) + 1].events = {n} /\ run'.event = n
  <2>1. PICK events, stored : events = {n} /\ stored = 0
    OBVIOUS
  <2>2. \A i \in Nat, a \in Records :
           /\ i = Len(run.answers) + 1 /\ a.events = events /\ a.stored = stored
           /\ Notes(i, a) /\ RunGoesOnWith
           => RecordFits(i, a)'
    BY <1>6, <2>1
  <2>3. /\ stored \in Nat /\ events \in SUBSET Nat /\ RecordsFit /\ r.event \in 0..Len(rows')
        /\ run' = Answered(r, events, stored)
    BY <1>1, <1>2, <1>2, <2>1 DEF PaceInv
  <2>4. /\ r \in RunRecords /\ r.answers = run.answers /\ r.started = run.started
        /\ run.phase \in UnderWay
    BY <1>0, <1>2
  <2>5. /\ RecordsFit' /\ RunGoesOnWith /\ Len(run'.answers) = Len(run.answers) + 1
        /\ run'.answers[Len(run.answers) + 1].events = events /\ run'.event = r.event
    BY <1>4, <2>2, <2>3, <2>4, AnswerFits, Zenon
  <2> QED
    BY <1>2, <2>1, <2>5
<1>8. KnowsReading'
  <2>1. Len(run.answers) + 1 \in 1..((Len(run.answers) + 1 + 1) - 1)
    BY <1>5
  <2> QED
    BY <1>5, <1>7, <2>1 DEF KnowsReading, NamedBefore
<1> QED
  BY <1>7, <1>8

LEMMA HearsOthersFit ==
    ASSUME DemoInv, ReportInv, PaceInv, FreshJobs, [Next]_vars,
           HearAuthorization \/ HearCommand, run.phase = "waiting", run' # Failed
    PROVE  RecordsFit' /\ KnowsReading'
<1> PICK e : e = job[DemoThread].event
  OBVIOUS
<1>0. /\ TypeInv /\ run \in RunRecords /\ DemoThread \in Workers /\ clock \in Int
      /\ run.phase \in UnderWay /\ UNCHANGED rows /\ Len(rows) \in Nat /\ Len(auths) \in Nat
      /\ run.event \in 0..Len(rows)
  BY DemoAssumption, LenProperties
  DEF DemoInv, TypeInv, TypeOK, RunSound, UnderWay, HearAuthorization, HearCommand,
      GrantAuthorization, ConsumeToken, ReportInv, LocalsOK
<1>1. job[DemoThread].phase \in EventPhases
  BY DEF HearAuthorization, HearCommand, GrantAuthorization, ConsumeToken, EventPhases
<1>2. /\ e \in Events /\ Eligible(e) /\ e = run.event /\ Len(run.answers) # 0
      /\ NamedBefore(Len(run.answers) + 1, e)
  BY <1>0, <1>1
  DEF TypeInv, CarriesEvent, FreshJobs, PaceInv, AsksAboutReading, KnowsReading, DemoInv,
      RunSound
<1>3. /\ Turn.action \in {"authorize", "command"} /\ Turn = Script[Len(run.answers) + 1]
      /\ Len(run.answers) \in Nat
  BY <1>0, TurnIsDue
  DEF HearAuthorization, HearCommand, GrantAuthorization, ConsumeToken, ReportInv,
      JobsMatchTheStep, AsksForCommand, CommandPhases
<1>4. PICK r \in RunRecords :
         /\ r.answers = run.answers /\ r.started = run.started /\ r.event = run.event
         /\ r.prompt = run.prompt /\ run' = Answered(r, {e}, 0)
  <2>1. CASE HearAuthorization
    <3> DEFINE n == Len(auths) + 1
               r == [run EXCEPT !.token = n]
    <3>1. n \in Nat /\ run' = Answered(r, {e}, 0)
      BY <1>0, <2>1 DEF HearAuthorization, Hear
    <3> HIDE DEF n
    <3>2. /\ r \in RunRecords /\ r.answers = run.answers /\ r.started = run.started
          /\ r.event = run.event /\ r.prompt = run.prompt
      BY <1>0, <3>1 DEF RunRecords
    <3> QED
      BY <3>1, <3>2
  <2>2. CASE HearCommand
    BY <1>0, <2>2 DEF HearCommand, Hear
  <2> QED
    BY <2>1, <2>2
<1>5. ASSUME NEW i \in Nat, NEW a \in Records, i = Len(run.answers) + 1, a.events = {e},
             RunGoesOnWith
      PROVE  RecordFits(i, a)'
  <2>1. NamedBefore(i, e)'
    BY <1>2, <1>3, <1>5, NamedStays
  <2>2. e \in Events' /\ Eligible(e)'
    BY <1>0, <1>2 DEF Events, Eligible
  <2> QED
    BY <1>3, <1>5, <2>1, <2>2 DEF RecordFits
<1>6. /\ RecordsFit' /\ RunGoesOnWith /\ Len(run'.answers) = Len(run.answers) + 1
      /\ run'.event = e
  <2>1. PICK events, stored : events = {e} /\ stored = 0
    OBVIOUS
  <2>2. \A i \in Nat, a \in Records :
           /\ i = Len(run.answers) + 1 /\ a.events = events /\ a.stored = stored
           /\ Notes(i, a) /\ RunGoesOnWith
           => RecordFits(i, a)'
    BY <1>5, <2>1
  <2>3. /\ stored \in Nat /\ events \in SUBSET Nat /\ RecordsFit /\ r.event \in 0..Len(rows')
        /\ run' = Answered(r, events, stored)
    BY <1>0, <1>2, <1>4, <2>1 DEF PaceInv, Events
  <2>4. r.prompt => run.prompt
    BY <1>4
  <2>5. r.answers = run.answers /\ r.started = run.started /\ r \in RunRecords
    BY <1>4
  <2>6. /\ RecordsFit' /\ RunGoesOnWith /\ Len(run'.answers) = Len(run.answers) + 1
        /\ run'.event = r.event
    BY <1>0, <2>2, <2>3, <2>4, <2>5, AnswerFits
  <2> QED
    BY <1>2, <1>4, <2>6
<1>7. KnowsReading'
  <2>1. PICK i : i = Len(run.answers) + 1
    OBVIOUS
  <2>2. i \in 1..(Len(run.answers) + 1) /\ NamedBefore(i, e)
    BY <1>2, <1>3, <2>1
  <2>3. NamedBefore(i + 1, e)'
    BY <1>3, <1>6, <2>2, NamedStays
  <2>4. Len(run'.answers) + 1 = i + 1 /\ run'.event = e
    BY <1>6, <2>1
  <2> QED
    BY <2>3, <2>4 DEF KnowsReading
<1> QED
  BY <1>6, <1>7

\* A step that adds no record, or the record of a query.
LEMMA KnownReadingStays ==
    ASSUME DemoInv, KnowsReading, run.phase \in UnderWay, RunGoesOnWith,
           run'.event = run.event,
           \/ Len(run'.answers) = Len(run.answers)
           \/ Len(run'.answers) = Len(run.answers) + 1 /\ Turn.action # "telemetry"
    PROVE  KnowsReading'
<1>1. PICK i, e : i = Len(run.answers) + 1 /\ e = run.event
  OBVIOUS
<1>2. /\ Len(run.answers) \in Nat /\ i \in 1..(Len(run.answers) + 1)
      /\ Turn.action # "telemetry" => Len(run.answers) # 0
  BY <1>1, ScriptTurn, LenProperties DEF DemoInv, RunSound, RunRecords
<1>3. CASE Len(run.answers) = 0
  BY <1>2, <1>3 DEF KnowsReading
<1>4. CASE Len(run.answers) # 0
  <2>1. NamedBefore(i, e)
    BY <1>1, <1>4 DEF KnowsReading
  <2>2. NamedBefore(i, e)' /\ NamedBefore(i + 1, e)'
    BY <1>2, <2>1, NamedStays
  <2>3. Len(run'.answers) + 1 \in {i, i + 1} /\ run'.event = e
    BY <1>1, <1>2
  <2> QED
    BY <2>2, <2>3 DEF KnowsReading
<1> QED
  BY <1>3, <1>4

LEMMA RecordsFitNext ==
    ASSUME DemoInv, SpeechInv, ReportInv, PaceInv, FreshJobs, [DemoNext]_demoVars
    PROVE  RecordsFit' /\ KnowsReading'
<1>0. /\ [Next]_vars /\ RecordsFit /\ KnowsReading /\ run \in RunRecords /\ clock \in Int
      /\ LocalsOK /\ RunKeepsTime
  BY ServerSteps DEF PaceInv, DemoInv, RunSound, TypeInv, TypeOK, ReportInv
<1>1. ASSUME Len(run'.answers) = 0 PROVE RecordsFit' /\ KnowsReading'
  BY <1>1 DEF RecordsFit, KnowsReading
<1>2. CASE run' = run
  <2>1. RunGoesOnWith
    BY <1>0, <1>2 DEF RunGoesOnWith, RunRecords
  <2>2. RecordsFit'
    BY <1>0, <1>2, <2>1, KeptRecordsFit
  <2>3. CASE run.phase \in UnderWay
    BY <1>0, <1>2, <2>1, <2>2, <2>3, KnownReadingStays
  <2>4. CASE run.phase \notin UnderWay
    BY <1>2, <2>2, <2>4 DEF KnowsReading
  <2> QED
    BY <2>3, <2>4
<1>3. CASE run' = Failed
  BY <1>1, <1>3, FailedFields
<1>4. CASE PassPreflight
  <2>1. Len(run'.answers) = 0
    BY <1>0, <1>4 DEF PassPreflight, RunKeepsTime, RunRecords
  <2> QED
    BY <1>1, <2>1
<1>5. CASE SendTelemetry \/ SendAuthorization \/ SendCommand
  <2>1. run' = Sent /\ run.phase \in UnderWay
    BY <1>5 DEF SendTelemetry, SendAuthorization, SendCommand, Wakes, UnderWay
  <2>2. /\ run'.answers = run.answers /\ run'.event = run.event /\ run'.started = run.started
        /\ run'.since = clock
    BY <1>0, <2>1, SentFields, SentPrompt
  <2>3. run'.prompt => run.prompt
    BY <1>0, <2>1, SentPrompt
  <2>4. run.since <= clock
    BY <1>0 DEF LocalsOK
  <2>5. RunGoesOnWith
    BY <1>0, <2>2, <2>3, <2>4 DEF RunGoesOnWith
  <2>6. RecordsFit'
    BY <1>0, <2>2, <2>5, KeptRecordsFit
  <2> QED
    BY <1>0, <2>1, <2>2, <2>5, <2>6, KnownReadingStays
<1>6. CASE GetEvents \/ GetLatest
  <2>1. CASE run' # Failed
    <3>1. /\ RecordsFit' /\ RunGoesOnWith /\ run'.event = run.event
          /\ Len(run'.answers) = Len(run.answers) + 1
      BY <1>0, <1>6, <2>1, QueriesFit
    <3>2. run.phase \in UnderWay /\ Turn.action # "telemetry"
      BY <1>6 DEF GetEvents, GetLatest, Wakes, UnderWay
    <3> QED
      BY <1>0, <3>1, <3>2, KnownReadingStays
  <2> QED
    BY <1>3, <2>1
<1>7. CASE HearTelemetry
  <2>1. CASE run.phase = "waiting" /\ run' # Failed
    BY <1>0, <1>7, <2>1, HearsTelemetryFit
  <2>2. run.phase # "waiting" => run' = run
    BY <1>7 DEF HearTelemetry, Hear
  <2> QED
    BY <1>2, <1>3, <2>1, <2>2
<1>8. CASE HearAuthorization \/ HearCommand
  <2>1. CASE run.phase = "waiting" /\ run' # Failed
    BY <1>0, <1>8, <2>1, HearsOthersFit
  <2>2. run.phase # "waiting" => run' = run
    BY <1>8 DEF HearAuthorization, HearCommand, Hear
  <2> QED
    BY <1>2, <1>3, <2>1, <2>2
<1>9. CASE \/ UNCHANGED demoVars \/ HearRefusal \/ RequestTimesOut \/ RequestRejected
           \/ \E w \in Workers \ {DemoThread} :
                 PostSample(w) \/ HearSample(w) \/ SampleFails(w)
           \/ SampleTimesOut
           \/ \E w \in Workers : Proceed(w)
           \/ ServerDies \/ TimePasses
  <2>1. run' = run \/ run' = Failed
    BY <1>9 DEF demoVars, HearRefusal, GivesUp, RequestTimesOut, RequestRejected, PostSample,
                HearSample, SampleFails, SampleTimesOut, Proceed, ServerDies, TimePasses
  <2> QED
    BY <1>2, <1>3, <2>1
<1> QED
  BY <1>4, <1>5, <1>6, <1>7, <1>8, <1>9 DEF DemoNext

\* A job that asks about an event was given the one the runner knows.
LEMMA AsksNext ==
    ASSUME DemoInv, ReportInv, AsksAboutReading, [DemoNext]_demoVars
    PROVE  AsksAboutReading'
<1>0. /\ DemoThread \in Workers /\ job \in [Workers -> Jobs] /\ run \in RunRecords
      /\ clock \in Int
      /\ {"idle", "lookup", "stamp", "insert"} \intersect EventPhases = {}
  BY DemoAssumption DEF DemoInv, TypeInv, TypeOK, RunSound, EventPhases
<1>1. CASE SendTelemetry
  <2>1. job'[DemoThread].phase \in {"lookup", "stamp"}
    BY <1>0, <1>1 DEF SendTelemetry, SubmitTelemetry, Start, NewJob
  <2> QED
    BY <1>0, <2>1 DEF AsksAboutReading
<1>2. CASE SendAuthorization \/ SendCommand
  <2>1. job'[DemoThread].event = run.event
    BY <1>0, <1>2 DEF SendAuthorization, SendCommand, RequestAuthorization, RequestMigration,
                      Start, NewJob
  <2>2. run'.event = run.event
    BY <1>0, <1>2, SentFields DEF SendAuthorization, SendCommand
  <2> QED
    BY <2>1, <2>2 DEF AsksAboutReading
<1>3. \/ SendTelemetry \/ SendAuthorization \/ SendCommand
      \/ run' = run \/ run'.phase # "waiting"
  <2>1. Answers => run'.phase # "waiting"
    BY DEF Answers
  <2>2. PassPreflight => run'.phase # "waiting"
    BY <1>0 DEF PassPreflight, RunRecords
  <2> QED
    BY <2>1, <2>2, TimelyMoves, FailedFields DEF ReportInv
<1>4. CASE run'.phase # "waiting"
  BY <1>4 DEF AsksAboutReading
<1>5. CASE run' = run /\ job'[DemoThread] = job[DemoThread]
  BY <1>5 DEF AsksAboutReading
<1>6. CASE job'[DemoThread].phase = "idle"
  BY <1>0, <1>6 DEF AsksAboutReading
<1>7. CASE StampReceipt(DemoThread)
  <2>1. job'[DemoThread].phase = "insert"
    BY <1>0, <1>7 DEF StampReceipt, NewJob
  <2> QED
    BY <1>0, <2>1 DEF AsksAboutReading
<1>8. CASE run' = run /\ (ValidateToken(DemoThread) \/ CallActuator(DemoThread))
  <2>1. \/ job'[DemoThread].phase = "idle"
        \/ job[DemoThread].phase \in EventPhases /\ job'[DemoThread].event = job[DemoThread].event
    BY <1>0, <1>8, IdleIsQuiet
    DEF ValidateToken, CallActuator, Advance, Finish, EventPhases, Jobs
  <2> QED
    BY <1>6, <1>8, <2>1 DEF AsksAboutReading
<1> QED
  BY <1>1, <1>2, <1>3, <1>4, <1>5, <1>6, <1>7, <1>8, RunnersJob

LEMMA PaceInit == DemoInit => PaceInv
<1> SUFFICES ASSUME DemoInit PROVE PaceInv
  OBVIOUS
<1>1. /\ run.phase = "ready" /\ Len(run.answers) = 0
  BY ClientInit DEF DemoInit
<1> QED
  BY <1>1 DEF PaceInv, RunKeepsTime, JobFitsTheStep, RecordsFit, KnowsReading,
              AsksAboutReading

LEMMA PaceNext ==
    ASSUME PacedScript, DemoInv, SpeechInv, ReportInv, PaceInv, FreshJobs,
           [DemoNext]_demoVars
    PROVE  PaceInv'
<1>1. RunKeepsTime /\ JobFitsTheStep /\ AsksAboutReading
  BY DEF PaceInv
<1>2. RunKeepsTime'
  BY <1>1, RunKeepsTimeNext
<1>3. JobFitsTheStep'
  BY <1>1, JobFitsNext
<1>4. RecordsFit' /\ KnowsReading'
  BY RecordsFitNext
<1>5. AsksAboutReading'
  BY <1>1, AsksNext
<1> QED
  BY <1>2, <1>3, <1>4, <1>5 DEF PaceInv

LEMMA PaceSound ==
    ASSUME PacedScript
    PROVE  DemoSpec => [](DemoInv /\ ReportInv /\ PaceInv)
<1> DEFINE Good == DemoInv /\ SpeechInv /\ ReportInv /\ PaceInv
<1>1. DemoInit => Good
  BY DemoInitSound, SpeechInit, ReportInit, PaceInit
<1>2. Good /\ FreshInv /\ [DemoNext]_demoVars => Good'
  BY DemoNextSound, SpeechNext, ReportNext, PaceNext DEF FreshInv
<1>3. DemoSpec => []FreshInv
  BY DemoRunsTheServer, FreshSound
<1>4. Good => DemoInv /\ ReportInv /\ PaceInv
  OBVIOUS
<1> HIDE DEF Good
<1> QED
  BY <1>1, <1>2, <1>3, <1>4, PTL DEF DemoSpec

-----------------------------------------------------------------------------
(***************************************************************************)
(* The acceptance of such a run, when nobody else reports on its vehicle.  *)
(***************************************************************************)

LEMMA PassedReadings ==
    ASSUME DemoInv, ReportInv, PaceInv, run.phase = "passed", NEW i \in Telemetry
    PROVE  /\ EventAt(i) \in Events /\ run.answers[i].events = {EventAt(i)}
           /\ rows[EventAt(i)].report.msg = DemoMessage(i)
           /\ ReadingFits(i, EventAt(i))
           /\ \A k \in 1..(i - 1) : run.answers[k].stored < EventAt(i)
<1>1. i \in 1..Len(Script) /\ Script[i].action = "telemetry"
  BY NamedSteps
<1>2. RecordTells(i, run.answers[i]) /\ RecordFits(i, run.answers[i])
  BY <1>1, PassedRecords DEF PaceInv, RecordsFit, ReportInv, LocalsOK
<1>3. PICK e \in Events :
         run.answers[i].events = {e} /\ rows[e].report.msg = DemoMessage(i)
  BY <1>1, <1>2 DEF RecordTells
<1>4. EventAt(i) = e
  BY <1>3 DEF EventAt
<1> QED
  BY <1>1, <1>2, <1>3, <1>4 DEF RecordFits

\* The readings have messages of their own, so each is an event of its own.
LEMMA ReadingsAreDistinct ==
    ASSUME DemoInv, ReportInv, PaceInv, run.phase = "passed"
    PROVE  /\ \A i, j \in Telemetry : EventAt(i) = EventAt(j) => i = j
           /\ Cardinality(Told(Telemetry)) = Cardinality(Telemetry)
<1>1. ASSUME NEW i \in Telemetry, NEW j \in Telemetry, EventAt(i) = EventAt(j)
      PROVE  i = j
  <2>1. DemoMessage(i) = DemoMessage(j)
    BY <1>1, PassedReadings
  <2> QED
    BY <2>1 DEF DemoMessage
<1>2. PICK f : f = [i \in Telemetry |-> EventAt(i)]
  OBVIOUS
<1>3. \A i \in Telemetry : f[i] = EventAt(i) /\ f[i] \in Told(Telemetry)
  BY <1>2 DEF Told
<1>4. f \in [Telemetry -> Told(Telemetry)]
  BY <1>2, <1>3
<1>5. \A e \in Told(Telemetry) : \E i \in Telemetry : f[i] = e
  BY <1>3 DEF Told
<1>6. f \in Bijection(Telemetry, Told(Telemetry))
  BY <1>1, <1>3, <1>4, <1>5 DEF Bijection, Injection, Surjection, IsInjective
<1> QED
  BY <1>1, <1>6, FS_Bijection, NamedSteps DEF ExistsBijection

\* The steps of a paced script, and when they are due.
LEMMA PacedSteps ==
    ASSUME PacedScript
    PROVE  /\ Authorize \in 1..Len(Script) /\ Script[Authorize].action = "authorize"
           /\ Authorize < Command /\ Authorize < Listing /\ Listing < LastTelemetry
           /\ LastTelemetry < Latest /\ Latest = Len(Script)
           /\ \A i \in Telemetry : i # LastTelemetry => i < Listing
<1>1. Authorize \in 1..Len(Script) /\ Script[Authorize].action = "authorize"
  <2>1. StepsOf("authorize") # {}
    <3>1. Cardinality(StepsOf("authorize")) = 1
      BY DemoAssumption DEF CanonicalScript, Actions
    <3> QED
      BY <3>1, FS_EmptySet
  <2>2. Authorize \in StepsOf("authorize")
    BY <2>1 DEF Authorize, TheStep
  <2> QED
    BY <2>2, DemoAssumption, LenProperties DEF StepsOf, CanonicalScript
<1>2. LastTelemetry \in 1..Len(Script) /\ LastTelemetry # Latest /\ Len(Script) \in Nat
  BY NamedSteps, ScriptFacts
<1>3. Latest = Len(Script) /\ Authorize < Command
  BY DemoAssumption DEF CanonicalScript
<1> QED
  BY <1>1, <1>2, <1>3 DEF PacedScript

\* The event of the authorization and the command is the one eligible reading.
LEMMA PassedAuthorized ==
    ASSUME PacedScript, DemoInv, ReportInv, PaceInv, run.phase = "passed"
    PROVE  /\ {e \in Told(Telemetry) : Eligible(e)} = {EventAt(Authorize)}
           /\ EventAt(Command) = EventAt(Authorize)
           /\ EventAt(Authorize) \in Told(Telemetry \intersect 1..(Listing - 1))
<1>1. ASSUME NEW i \in Telemetry, NEW j \in Telemetry,
             Eligible(EventAt(i)), Eligible(EventAt(j))
      PROVE  i = j
  <2>1. /\ rows[EventAt(i)].report.body = Script[i].body
        /\ rows[EventAt(j)].report.body = Script[j].body
    BY PassedReadings DEF ReadingFits
  <2>2. Verdict[Script[i].body] = "MIGRATE_NOW" /\ Verdict[Script[j].body] = "MIGRATE_NOW"
    BY <1>1, <2>1 DEF Eligible
  <2> QED
    BY <2>2 DEF PacedScript
<1>2. ASSUME NEW s \in 1..Len(Script), Script[s].action \in {"authorize", "command"}
      PROVE  \E k \in Telemetry :
                k < s /\ EventAt(s) = EventAt(k) /\ Eligible(EventAt(k))
  <2>1. RecordFits(s, run.answers[s])
    BY <1>2 DEF PaceInv, RecordsFit, ReportInv, LocalsOK
  <2>2. PICK e \in Events :
           run.answers[s].events = {e} /\ Eligible(e) /\ NamedBefore(s, e)
    BY <1>2, <2>1 DEF RecordFits
  <2>3. PICK k \in 1..(s - 1) : Script[k].action = "telemetry" /\ run.answers[k].events = {e}
    BY <2>2 DEF NamedBefore
  <2>4. k \in Telemetry /\ k < s
    BY <2>3, ScriptFacts, DemoAssumption, LenProperties DEF Telemetry, StepsOf, CanonicalScript
  <2>5. EventAt(s) = e /\ EventAt(k) = e
    BY <2>2, <2>3 DEF EventAt
  <2> QED
    BY <2>2, <2>4, <2>5
<1>3. PICK k \in Telemetry :
         k < Authorize /\ EventAt(Authorize) = EventAt(k) /\ Eligible(EventAt(k))
  BY <1>2, PacedSteps
<1>4. PICK m \in Telemetry : EventAt(Command) = EventAt(m) /\ Eligible(EventAt(m))
  BY <1>2, NamedSteps
<1>5. EventAt(Command) = EventAt(Authorize)
  BY <1>1, <1>3, <1>4
<1>6. {e \in Told(Telemetry) : Eligible(e)} = {EventAt(Authorize)}
  BY <1>1, <1>3 DEF Told
<1>7. k \in 1..(Listing - 1)
  BY <1>3, NamedSteps, PacedSteps
<1> QED
  BY <1>3, <1>5, <1>6, <1>7 DEF Told

\* The listing is complete and holds the readings told before it.
LEMMA PassedListing ==
    ASSUME PacedScript, DemoInv, ReportInv, PaceInv, run.phase = "passed",
           EventsOf(DemoScope) = Told(Telemetry)
    PROVE  Listed = Told(Telemetry \intersect 1..(Listing - 1))
<1> DEFINE stored == run.answers[Listing].stored
<1>0. /\ RecordTells(Listing, run.answers[Listing]) /\ Script[Listing].action = "events"
      /\ IsFiniteSet(Told(Telemetry)) /\ Len(rows) \in Nat /\ Listing \in 1..Len(Script)
      /\ RecordFits(Listing, run.answers[Listing])
  BY PassedRecords, NamedSteps DEF PaceInv, RecordsFit, ReportInv, LocalsOK
<1>1. Listed \subseteq ScopeUpTo(stored) /\ stored \in 0..Len(rows)
  BY <1>0 DEF RecordTells, Listed
<1>2. Listed \subseteq Told(Telemetry)
  BY <1>0, <1>1 DEF ScopeUpTo, EventsOf, Events
<1>3. Cardinality(Listed) # EventsLimit
  <2>1. Cardinality(Listed) <= Cardinality(Told(Telemetry)) /\ IsFiniteSet(Listed)
    BY <1>0, <1>2, FS_Subset
  <2>2. Cardinality(Told(Telemetry)) = Cardinality(Telemetry)
    BY ReadingsAreDistinct
  <2>3. Cardinality(Listed) \in Nat /\ Cardinality(Telemetry) \in Nat
    BY <1>0, <2>1, <2>2, FS_CardinalityType
  <2> QED
    BY <2>1, <2>2, <2>3, DemoAssumption
<1>4. Listed = ScopeUpTo(stored)
  BY <1>0, <1>3 DEF RecordTells, Listed
<1>5. ASSUME NEW e \in Listed PROVE e \in Told(Telemetry \intersect 1..(Listing - 1))
  <2>1. PICK i \in Telemetry : e = EventAt(i)
    BY <1>2 DEF Told
  <2>2. i \in 1..Len(Script) /\ i # Listing /\ Listing \in Nat
    BY <1>0, <2>1, NamedSteps
  <2>3. ~(Listing < i)
    <3> SUFFICES ASSUME Listing < i PROVE FALSE
      OBVIOUS
    <3>1. Listing \in 1..(i - 1)
      BY <1>0, <2>2
    <3>2. stored < e
      BY <2>1, <3>1, PassedReadings
    <3> QED
      BY <1>1, <1>4, <3>2 DEF ScopeUpTo
  <2>4. i \in 1..(Listing - 1)
    BY <2>2, <2>3
  <2> QED
    BY <2>1, <2>4 DEF Told
<1>6. ASSUME NEW i \in Telemetry \intersect 1..(Listing - 1) PROVE EventAt(i) \in Listed
  <2>1. /\ run.answers[i].events = {EventAt(i)} /\ EventAt(i) \in Events
        /\ rows[EventAt(i)].report.scope = DemoScope
    BY PassedReadings DEF ReadingFits
  <2>2. EventAt(i) <= stored
    BY <1>0, <2>1 DEF RecordFits
  <2> QED
    BY <1>1, <1>4, <2>1, <2>2 DEF ScopeUpTo, Events
<1> QED
  BY <1>5, <1>6 DEF Told

\* The last reading was the latest when the run asked, and nobody came after it.
LEMMA PassedLatest ==
    ASSUME PacedScript, DemoInv, ReportInv, PaceInv, SendersAreHeardInOrder,
           run.phase = "passed", EventsOf(DemoScope) = Told(Telemetry)
    PROVE  EventAt(Latest) = EventAt(LastTelemetry)
<1>0. /\ RecordTells(Latest, run.answers[Latest]) /\ Script[Latest].action = "latest"
      /\ RecordFits(Latest, run.answers[Latest])
      /\ Len(rows) \in Nat /\ Latest \in 1..Len(Script)
  BY PassedRecords, NamedSteps DEF PaceInv, RecordsFit, ReportInv, LocalsOK
<1>1. EventAt(Latest) \in run.answers[Latest].events
  BY <1>0 DEF RecordTells, EventAt
<1>2. PICK k \in Telemetry : EventAt(Latest) = EventAt(k)
  <2>1. EventAt(Latest) \in EventsOf(DemoScope)
    BY <1>0, <1>1 DEF RecordTells, ScopeUpTo, EventsOf, Events
  <2> QED
    BY <2>1 DEF Told
<1>3. LastTelemetry \in Telemetry /\ LastTelemetry \in 1..(Latest - 1) /\ k <= LastTelemetry
      /\ k \in Nat
  BY <1>0, NamedSteps, PacedSteps
<1>4. /\ EventAt(LastTelemetry) \in 1..run.answers[Latest].stored
      /\ rows[EventAt(LastTelemetry)].report.scope = DemoScope
  <2>1. /\ run.answers[LastTelemetry].events = {EventAt(LastTelemetry)}
        /\ EventAt(LastTelemetry) \in Events
        /\ rows[EventAt(LastTelemetry)].report.scope = DemoScope
    BY <1>3, PassedReadings DEF ReadingFits
  <2>2. EventAt(LastTelemetry) <= run.answers[Latest].stored
    BY <1>0, <1>3, <2>1 DEF RecordFits
  <2>3. run.answers[Latest].stored \in 0..Len(rows)
    BY <1>0 DEF RecordTells
  <2> QED
    BY <1>0, <2>1, <2>2, <2>3 DEF Events
<1>5. ASSUME EventAt(Latest) # EventAt(LastTelemetry) PROVE FALSE
  <2>1. Later(EventAt(k), EventAt(LastTelemetry))
    BY <1>0, <1>1, <1>2, <1>4, <1>5 DEF RecordTells
  <2>2. LastTelemetry < k
    BY <1>3, <2>1, LaterReadingIsLaterStep
  <2> QED
    BY <1>3, <2>2
<1> QED
  BY <1>5

\* A step is due when the timeout of every earlier one has passed.
LEMMA StepsAreApart ==
    ASSUME PacedScript, NEW i \in 1..Len(Script), NEW j \in 1..Len(Script), i < j
    PROVE  Script[i].at + RequestTimeout <= Script[j].at
<1>0. /\ i \in Nat /\ j \in Nat /\ Len(Script) \in Nat /\ RequestTimeout \in Nat
      /\ i + 1 \in 1..Len(Script) /\ i \in 1..(Len(Script) - 1)
      /\ DOMAIN Script = 1..Len(Script)
  BY StepsOnTime, DemoAssumption, LenProperties DEF CanonicalScript
<1>1. /\ Script[i].at \in Nat /\ Script[i + 1].at \in Nat /\ Script[j].at \in Nat
      /\ Script[i].at + RequestTimeout <= Script[i + 1].at
  BY <1>0, StepsOnTime
<1>2. Script[i + 1].at <= Script[j].at
  <2>1. CASE i + 1 = j
    BY <1>1, <2>1
  <2>2. CASE i + 1 < j
    BY <1>0, <2>2, DemoAssumption DEF CanonicalScript
  <2> QED
    BY <1>0, <2>1, <2>2
<1> QED
  BY <1>0, <1>1, <1>2

LEMMA PassedTiming ==
    ASSUME PacedScript, DemoInv, ReportInv, PaceInv, run.phase = "passed", run.prompt
    PROVE  RunTimingValid /\ run.since - run.started \in MinWall..MaxWall
<1>0. /\ run.since \in Int /\ run.started \in Int /\ RequestTimeout \in Nat
      /\ TimelineTolerance \in Nat /\ RequestTimeout <= TimelineTolerance
  BY DemoAssumption DEF DemoInv, RunSound, RunRecords, PacedScript
<1>1. ASSUME NEW i \in Telemetry
      PROVE  /\ i \in 1..Len(Script) /\ Script[i].at \in Nat /\ Received(i) \in Int
             /\ run.started <= Received(i) /\ Received(i) <= run.since
             /\ run.started + Script[i].at <= Received(i)
             /\ Received(i) <= run.started + Script[i].at + RequestTimeout
  <2>1. i \in 1..Len(Script) /\ Script[i].at \in Nat
    BY NamedSteps, StepsOnTime
  <2>2. /\ Received(i) \in Int
        /\ rows[EventAt(i)].report.cap \in run.started..Received(i)
        /\ Received(i) <= run.since
        /\ Received(i) \in DueAt(i)..(DueAt(i) + RequestTimeout)
    BY PassedReadings, RowTimes DEF ReadingFits, Received, DemoInv
  <2> HIDE DEF Received
  <2>3. PICK at : at = Script[i].at
    OBVIOUS
  <2>4. DueAt(i) = run.started + at
    BY <2>3 DEF DueAt
  <2> QED
    BY <1>0, <2>1, <2>2, <2>3, <2>4
<1>2. ASSUME NEW i \in Telemetry, NEW j \in Telemetry, i < j
      PROVE  Received(i) <= Received(j)
  <2>1. Script[i].at + RequestTimeout <= Script[j].at
    BY <1>1, <1>2, StepsAreApart
  <2>2. PICK x, y, a, b :
           x = Received(i) /\ y = Received(j) /\ a = Script[i].at /\ b = Script[j].at
    OBVIOUS
  <2>3. /\ x \in Int /\ y \in Int /\ a \in Nat /\ b \in Nat /\ a + RequestTimeout <= b
        /\ x <= run.started + a + RequestTimeout /\ run.started + b <= y
    BY <1>1, <2>1, <2>2
  <2>4. x <= y
    BY <1>0, <2>3
  <2> QED
    BY <2>2, <2>4
<1>3. ASSUME NEW i \in Telemetry
      PROVE  Gap(Received(i), run.started + Script[i].at) <= TimelineTolerance
  <2>1. PICK x, at : x = Received(i) /\ at = Script[i].at
    OBVIOUS
  <2>2. /\ at \in Nat /\ x \in Int /\ run.started + at <= x
        /\ x <= run.started + at + RequestTimeout
    BY <1>1, <2>1
  <2>3. Gap(x, run.started + at) <= TimelineTolerance
    BY <1>0, <2>2 DEF Gap
  <2> QED
    BY <2>1, <2>3
<1>4. RunTimingValid
  BY <1>1, <1>2, <1>3 DEF RunTimingValid
<1>5. run.since = run.started + Duration
  BY DEF PaceInv, RunKeepsTime, DueAt, Duration
<1>6. Duration \in Nat /\ Duration \in MinWall..MaxWall
  <2>1. Len(Script) \in 1..Len(Script)
    BY StepsOnTime
  <2> QED
    BY <2>1, StepsOnTime DEF PacedScript, Duration
<1> QED
  BY <1>0, <1>4, <1>5, <1>6

LEMMA PassedPayloads ==
    ASSUME PacedScript, DemoInv, ReportInv, PaceInv, run.phase = "passed",
           Listed = Told(Telemetry \intersect 1..(Listing - 1)),
           EventAt(Latest) = EventAt(LastTelemetry)
    PROVE  PayloadsValid
<1> DEFINE persisted == Listed \union {EventAt(Latest)}
<1>1. \A i \in Telemetry : i = LastTelemetry \/ i \in 1..(Listing - 1)
  BY NamedSteps, PacedSteps
<1>2. LastTelemetry \in Telemetry /\ LastTelemetry \notin 1..(Listing - 1)
  BY NamedSteps, PacedSteps
<1>3. persisted = Told(Telemetry)
  BY <1>1, <1>2 DEF Told
<1>4. EventAt(Latest) \notin Listed
  BY <1>2, ReadingsAreDistinct DEF Told
<1>5. {rows[e].report.msg : e \in Told(Telemetry)} = {DemoMessage(i) : i \in Telemetry}
  BY PassedReadings DEF Told
<1>6. \A i \in Telemetry :
         /\ rows[EventAt(i)].report.scope = DemoScope
         /\ rows[EventAt(i)].report.body = Script[i].body
  BY PassedReadings DEF ReadingFits
<1>7. ASSUME NEW i \in Telemetry
      PROVE  /\ run.started <= rows[EventAt(i)].report.cap
             /\ rows[EventAt(i)].report.cap <= rows[EventAt(i)].receivedAt
             /\ rows[EventAt(i)].receivedAt <= run.since
  BY PassedReadings DEF ReadingFits
<1>8. \A e \in Told(Telemetry) :
         /\ run.started <= rows[e].report.cap
         /\ rows[e].report.cap <= rows[e].receivedAt
         /\ rows[e].receivedAt <= run.since
  BY <1>7 DEF Told
<1> QED
  BY <1>3, <1>4, <1>5, <1>6, <1>8 DEF PayloadsValid

(***************************************************************************)
(* If the pauses of the script are as long as the timeout, and it asks for *)
(* migration once: a run that passed, began each step in time and had the  *)
(* vehicle for itself is accepted, however long each answer took.          *)
(***************************************************************************)
THEOREM AnswersInTimeAreAccepted ==
    ASSUME PacedScript
    PROVE  DemoSpec => []PassedRunsAreAccepted
<1>1. DemoInv /\ ReportInv /\ PaceInv /\ SendersAreHeardInOrder => PassedRunsAreAccepted
  <2> SUFFICES ASSUME DemoInv, ReportInv, PaceInv, SendersAreHeardInOrder,
                      run.phase = "passed", run.prompt,
                      EventsOf(DemoScope) = Told(Telemetry)
               PROVE  Accepted
    BY DEF PassedRunsAreAccepted
  <2>1. /\ Listed = Told(Telemetry \intersect 1..(Listing - 1))
        /\ EventAt(Latest) = EventAt(LastTelemetry)
    BY PassedListing, PassedLatest
  <2>2. EventChainValid
    BY <2>1, PassedAuthorized, ReadingsAreDistinct DEF EventChainValid
  <2>3. RunTimingValid /\ run.since - run.started \in MinWall..MaxWall
    BY PassedTiming
  <2>4. PayloadsValid
    BY <2>1, PassedPayloads
  <2> QED
    BY <2>2, <2>3, <2>4 DEF Accepted
<1> QED
  BY <1>1, PaceSound, ClientsAreHeardInOrder, PTL
=============================================================================
