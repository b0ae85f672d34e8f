------------------------ MODULE EvidenceChainProofs -------------------------
(***************************************************************************)
(* What EvidenceChain guarantees for any number of workers, messages,      *)
(* vehicles, rows and tokens and any admissible settings and legacy table: *)
(* types; tokens, freshness and supersession; what ingestion stores and    *)
(* acknowledges; and that the tables implement CommandAuthority.           *)
(***************************************************************************)
EXTENDS EvidenceChain, SequenceTheorems, WellFoundedInduction, TLAPS

-----------------------------------------------------------------------------
(***************************************************************************)
(* Types.  TypeOK is not inductive alone: what a transaction stores comes  *)
(* from a job, so a job's fields must be sound in the phases that use them.*)
(***************************************************************************)

TelemetryPhases == {"lookup", "stamp", "insert"}

EventPhases == {"grant", "validate", "actuate", "consume"}

CarriesReport ==
    \A w \in Workers :
        job[w].phase \in TelemetryPhases => job[w].report \in Reports

CarriesEvent ==
    \A w \in Workers : job[w].phase \in EventPhases => job[w].event \in Events

TypeInv == TypeOK /\ CarriesReport /\ CarriesEvent

\* The jobs a handler may leave behind it are well formed.
LEMMA JobUpdates ==
    ASSUME job \in [Workers -> Jobs], NEW w \in Workers
    PROVE  /\ job[w] \in Jobs
           /\ [job EXCEPT ![w] = Idle] \in [Workers -> Jobs]
           /\ \A p \in Phases : [job EXCEPT ![w].phase = p] \in [Workers -> Jobs]
           /\ \A j \in Jobs : [job EXCEPT ![w] = j] \in [Workers -> Jobs]
<1>1. Idle \in Jobs
  BY DEF Idle, NewJob, Jobs, Phases
<1>2. job[w] \in Jobs
  OBVIOUS
<1>3. \A p \in Phases : [job[w] EXCEPT !.phase = p] \in Jobs
  BY <1>2 DEF Jobs
<1> QED
  BY <1>1, <1>2, <1>3

LEMMA TypeInit == Init => TypeInv
<1> SUFFICES ASSUME Init PROVE TypeInv
  OBVIOUS
<1>1. rows \in Seq(Rows)
  BY DataAssumption DEF Init
<1>2. /\ auths \in Seq(Auths)
      /\ commands \in Seq(Commands)
  BY DEF Init
<1>3. job \in [Workers -> Jobs]
  BY DEF Init, Idle, NewJob, Jobs, Phases
<1>4. CarriesReport /\ CarriesEvent
  BY DEF Init, Idle, NewJob, CarriesReport, CarriesEvent, TelemetryPhases, EventPhases
<1> QED
  BY <1>1, <1>2, <1>3, <1>4 DEF TypeInv, TypeOK, Init

\* The only writes to rows: a row is appended, or the marker of one changes.
LEMMA RowAppended ==
    ASSUME TypeOK, NEW w \in Workers, InsertTelemetry(w), CarriesReport
    PROVE  /\ rows' \in Seq(Rows)
           /\ Len(rows') = Len(rows) + 1
           /\ \A i \in Events : rows'[i] = rows[i]
           /\ rows'[Len(rows) + 1].report = job[w].report
           /\ rows'[Len(rows) + 1].marker =
                IF job[w].report.cap = None THEN "defaulted" ELSE "provided"
           /\ rows'[Len(rows) + 1].receivedAt = job[w].now
<1> DEFINE row == [report |-> job[w].report,
                   marker |-> IF job[w].report.cap = None THEN "defaulted"
                                                          ELSE "provided",
                   receivedAt |-> job[w].now]
<1>1. job[w].report \in Reports /\ job[w].now \in Int
  BY DEF TypeOK, Jobs, CarriesReport, TelemetryPhases, InsertTelemetry
<1>2. row \in Rows
  BY <1>1 DEF Rows, Markers
<1>3. rows' = Append(rows, row)
  BY DEF InsertTelemetry
<1>4. /\ row.report = job[w].report /\ row.receivedAt = job[w].now
      /\ row.marker = IF job[w].report.cap = None THEN "defaulted" ELSE "provided"
  OBVIOUS
<1> HIDE DEF row
<1>5. /\ rows' \in Seq(Rows) /\ Len(rows') = Len(rows) + 1
      /\ \A i \in Events : rows'[i] = rows[i]
      /\ rows'[Len(rows) + 1] = row
  BY <1>2, <1>3, AppendProperties DEF TypeOK, Events
<1> QED
  BY <1>4, <1>5

LEMMA MarkerFilled ==
    ASSUME TypeOK, NEW w \in Workers, NEW e \in Events, AdoptRetry(w, e)
    PROVE  /\ rows' \in Seq(Rows)
           /\ Len(rows') = Len(rows)
           /\ \A i \in Events :
                 /\ rows'[i].report = rows[i].report
                 /\ rows'[i].receivedAt = rows[i].receivedAt
                 /\ rows'[i].marker = IF i = e /\ rows[i].marker = "unknown"
                                        THEN "defaulted" ELSE rows[i].marker
<1> DEFINE row == [rows[e] EXCEPT !.marker = IF @ = "unknown" THEN "defaulted" ELSE @]
<1>1. rows[e] \in Rows
  BY ElementOfSeq DEF TypeOK, Events
<1>2. row \in Rows
  BY <1>1 DEF Rows, Markers
<1>3. rows' = [rows EXCEPT ![e] = row]
  BY DEF AdoptRetry
<1>4. /\ row.report = rows[e].report /\ row.receivedAt = rows[e].receivedAt
      /\ row.marker = IF rows[e].marker = "unknown" THEN "defaulted"
                                                    ELSE rows[e].marker
  BY <1>1 DEF Rows
<1> HIDE DEF row
<1>5. /\ rows' \in Seq(Rows)
      /\ Len(rows') = Len(rows)
      /\ \A i \in 1..Len(rows) : rows'[i] = IF i = e THEN row ELSE rows[i]
  BY <1>2, <1>3, ExceptSeq DEF TypeOK, Events
<1> QED
  BY <1>4, <1>5 DEF Events

\* The only writes to auths: a token is issued, or one is spent.
LEMMA TokenIssued ==
    ASSUME TypeOK, CarriesEvent, NEW w \in Workers, GrantAuthorization(w)
    PROVE  /\ auths' \in Seq(Auths)
           /\ Len(auths') = Len(auths) + 1
           /\ \A k \in Tokens : auths'[k] = auths[k]
           /\ auths'[Len(auths) + 1].event = job[w].event
           /\ auths'[Len(auths) + 1].createdAt = clock
           /\ auths'[Len(auths) + 1].expiresAt = job[w].now + AuthorizationTtl
           /\ auths'[Len(auths) + 1].usedAt = None
<1> DEFINE auth == [event |-> job[w].event, createdAt |-> clock,
                    expiresAt |-> job[w].now + AuthorizationTtl, usedAt |-> None]
<1>1. job[w].event \in Events /\ job[w].now \in Int
  BY DEF TypeOK, Jobs, CarriesEvent, EventPhases, GrantAuthorization
<1>2. Len(rows) \in Nat
  BY LenProperties DEF TypeOK
<1>3. auth \in Auths
  BY <1>1, <1>2, SettingsAssumption DEF Auths, TypeOK, Events
<1>4. auths' = Append(auths, auth)
  BY DEF GrantAuthorization
<1>5. /\ auth.event = job[w].event /\ auth.createdAt = clock
      /\ auth.expiresAt = job[w].now + AuthorizationTtl /\ auth.usedAt = None
  OBVIOUS
<1> HIDE DEF auth
<1>6. /\ auths' \in Seq(Auths) /\ Len(auths') = Len(auths) + 1
      /\ \A k \in Tokens : auths'[k] = auths[k]
      /\ auths'[Len(auths) + 1] = auth
  BY <1>3, <1>4, AppendProperties DEF TypeOK, Tokens
<1> QED
  BY <1>5, <1>6

LEMMA TokenSpent ==
    ASSUME TypeOK, NEW w \in Workers, ConsumeToken(w)
    PROVE  /\ job[w].token \in Tokens
           /\ auths[job[w].token].event = job[w].event
           /\ auths[job[w].token].usedAt = None
           /\ auths[job[w].token].expiresAt > job[w].now
           /\ auths' \in Seq(Auths)
           /\ Len(auths') = Len(auths)
           /\ \A k \in Tokens :
                 /\ auths'[k].event = auths[k].event
                 /\ auths'[k].createdAt = auths[k].createdAt
                 /\ auths'[k].expiresAt = auths[k].expiresAt
                 /\ auths'[k].usedAt = IF k = job[w].token THEN job[w].now
                                                           ELSE auths[k].usedAt
           /\ commands' \in Seq(Commands)
           /\ Len(commands') = Len(commands) + 1
           /\ \A c \in 1..Len(commands) : commands'[c] = commands[c]
           /\ commands'[Len(commands) + 1].event = job[w].event
           /\ commands'[Len(commands) + 1].token = job[w].token
<1> DEFINE k == job[w].token
           auth == [auths[k] EXCEPT !.usedAt = job[w].now]
           command == [event |-> job[w].event, token |-> job[w].token]
<1>1. /\ k \in Tokens
      /\ auths[k].event = job[w].event
      /\ auths[k].usedAt = None
      /\ auths[k].expiresAt > job[w].now
  BY DEF ConsumeToken, MayConsume, TokenValid
<1>2. auths[k] \in Auths
  BY <1>1, ElementOfSeq DEF TypeOK, Tokens
<1>3. auth \in Auths
  BY <1>2 DEF TypeOK, Jobs, Auths
<1>4. auths' = [auths EXCEPT ![k] = auth]
  BY DEF ConsumeToken
<1> HIDE DEF k, auth, command
<1>5. /\ auths' \in Seq(Auths)
      /\ Len(auths') = Len(auths)
      /\ \A i \in 1..Len(auths) : auths'[i] = IF i = k THEN auth ELSE auths[i]
  BY <1>1, <1>3, <1>4, ExceptSeq DEF TypeOK, Tokens
<1>6. Len(auths) \in Nat
  BY LenProperties DEF TypeOK
<1>7. command \in Commands
  BY <1>1, <1>2, <1>6 DEF Commands, Auths, Tokens, k, command
<1>8. commands' = Append(commands, command)
  BY DEF ConsumeToken, command
<1>9. /\ commands' \in Seq(Commands)
      /\ Len(commands') = Len(commands) + 1
      /\ \A c \in 1..Len(commands) : commands'[c] = commands[c]
      /\ commands'[Len(commands) + 1] = command
  BY <1>7, <1>8, AppendProperties DEF TypeOK
<1>10. command.event = job[w].event /\ command.token = job[w].token
  BY DEF command, k
<1>11. /\ auth.event = auths[k].event /\ auth.createdAt = auths[k].createdAt
       /\ auth.expiresAt = auths[k].expiresAt /\ auth.usedAt = job[w].now
  BY <1>2 DEF Auths, auth
<1>12. \A i \in Tokens : auths'[i] = IF i = k THEN auth ELSE auths[i]
  BY <1>5 DEF Tokens
<1>13. k = job[w].token
  BY DEF k
<1> QED
  BY <1>1, <1>5, <1>9, <1>10, <1>11, <1>12, <1>13

\* One job changes, and rows does not shrink: what jobs carry stays sound.
LEMMA OneJobChanges ==
    ASSUME TypeInv, NEW w \in Workers, NEW j \in Jobs,
           job' = [job EXCEPT ![w] = j],
           rows' \in Seq(Rows), Len(rows') >= Len(rows),
           j.phase \in TelemetryPhases => j.report \in Reports,
           j.phase \in EventPhases => j.event \in Events
    PROVE  job' \in [Workers -> Jobs] /\ CarriesReport' /\ CarriesEvent'
<1>1. job' \in [Workers -> Jobs]
  BY JobUpdates DEF TypeInv, TypeOK
<1>2. \A v \in Workers : job'[v] = IF v = w THEN j ELSE job[v]
  BY DEF TypeInv, TypeOK
<1>3. Events \subseteq Events'
  BY LenProperties DEF TypeInv, TypeOK, Events
<1>4. CarriesReport'
  BY <1>2 DEF TypeInv, CarriesReport
<1>5. CarriesEvent'
  BY <1>2, <1>3 DEF TypeInv, CarriesEvent
<1> QED
  BY <1>1, <1>4, <1>5

\* A handler ends: the tables must be typed, the jobs are.
LEMMA JobEnds ==
    ASSUME TypeInv, NEW w \in Workers, Finish(w),
           rows' \in Seq(Rows), Len(rows') >= Len(rows)
    PROVE  job' \in [Workers -> Jobs] /\ CarriesReport' /\ CarriesEvent'
<1>1. Idle \in Jobs /\ Idle.phase = "idle"
  BY DEF Idle, NewJob, Jobs, Phases
<1>2. job' = [job EXCEPT ![w] = Idle]
  BY DEF Finish
<1> QED
  BY <1>1, <1>2, OneJobChanges DEF TelemetryPhases, EventPhases

\* A handler moves on within the phases that use the same fields.
LEMMA JobAdvances ==
    ASSUME TypeInv, NEW w \in Workers, NEW p \in Phases, Advance(w, p),
           UNCHANGED rows,
           \/ p \in TelemetryPhases /\ job[w].phase \in TelemetryPhases
           \/ p \in EventPhases /\ job[w].phase \in EventPhases
    PROVE  job' \in [Workers -> Jobs] /\ CarriesReport' /\ CarriesEvent'
<1> DEFINE j == [job[w] EXCEPT !.phase = p]
<1>1. /\ j \in Jobs /\ j.phase = p
      /\ j.report = job[w].report /\ j.event = job[w].event
  BY DEF TypeInv, TypeOK, Jobs
<1>2. job' = [job EXCEPT ![w] = j]
  BY DEF Advance
<1>3. j.phase \in TelemetryPhases => j.report \in Reports
  BY <1>1 DEF TypeInv, CarriesReport, TelemetryPhases, EventPhases
<1>4. j.phase \in EventPhases => j.event \in Events
  BY <1>1 DEF TypeInv, CarriesEvent, TelemetryPhases, EventPhases
<1>5. rows' \in Seq(Rows) /\ Len(rows') >= Len(rows)
  BY LenProperties DEF TypeInv, TypeOK
<1> HIDE DEF j
<1> QED
  BY <1>1, <1>2, <1>3, <1>4, <1>5, OneJobChanges

\* A worker takes up a request.
LEMMA JobStarts ==
    ASSUME TypeInv, NEW w \in Workers, NEW p \in Phases,
           NEW r \in Reports \union {None}, NEW e \in Nat, NEW k \in Nat, NEW n \in Int,
           Start(w, NewJob(p, r, e, k, n)), UNCHANGED rows,
           p \in TelemetryPhases => r \in Reports,
           p \in EventPhases => e \in Events
    PROVE  job' \in [Workers -> Jobs] /\ CarriesReport' /\ CarriesEvent'
<1> DEFINE j == NewJob(p, r, e, k, n)
<1>1. j \in Jobs /\ j.phase = p /\ j.report = r /\ j.event = e
  BY DEF NewJob, Jobs
<1>2. job' = [job EXCEPT ![w] = j]
  BY DEF Start
<1>3. rows' \in Seq(Rows) /\ Len(rows') >= Len(rows)
  BY LenProperties DEF TypeInv, TypeOK
<1> HIDE DEF j
<1> QED
  BY <1>1, <1>2, <1>3, OneJobChanges

LEMMA AnswersAreTyped ==
    ASSUME TypeOK, NEW r \in Reports, NEW e \in Nat,
           acked' = acked \union {Answer(r, e)}
    PROVE  acked' \subseteq [report: Reports, event: Nat]
<1>1. Answer(r, e) \in [report: Reports, event: Nat]
  BY DEF Answer
<1> HIDE DEF Answer
<1> QED
  BY <1>1 DEF TypeOK

\* The steps of the three kinds of request.
TelemetryStep(w) ==
    \/ \E r \in Reports : SubmitTelemetry(w, r)
    \/ LookUpMessage(w)
    \/ StampReceipt(w)
    \/ InsertTelemetry(w)
    \/ \E e \in Events : \/ AnswerDuplicate(w, e)
                         \/ AdoptRetry(w, e)
                         \/ RejectConflict(w, e)

AuthorizationStep(w) ==
    \/ \E e \in Events : RequestAuthorization(w, e)
    \/ GrantAuthorization(w)
    \/ RefuseAuthorization(w)

CommandStep(w) ==
    \/ \E e \in Events, k \in 0..Len(auths) : RequestMigration(w, e, k)
    \/ ValidateToken(w)
    \/ CallActuator(w)
    \/ ConsumeToken(w)
    \/ RefuseCommand(w)

LEMMA StepKinds ==
    ASSUME NEW w \in Workers
    PROVE  Step(w) <=> \/ TelemetryStep(w) \/ AuthorizationStep(w)
                       \/ CommandStep(w) \/ RequestFails(w)
BY DEF Step, TelemetryStep, AuthorizationStep, CommandStep

LEMMA TelemetryKeepsTypes ==
    ASSUME TypeInv, NEW w \in Workers, TelemetryStep(w)
    PROVE  TypeInv'
<1>0. /\ TypeOK /\ CarriesReport /\ CarriesEvent
      /\ Len(rows) \in Nat /\ rows \in Seq(Rows)
      /\ job[w] \in Jobs
      /\ job[w].phase \in TelemetryPhases => job[w].report \in Reports
  BY LenProperties DEF TypeInv, TypeOK, CarriesReport
<1> USE DEF TypeInv
<1>1. ASSUME NEW r \in Reports, SubmitTelemetry(w, r) PROVE TypeInv'
  <2>1. PICK p \in {"lookup", "stamp"} : Start(w, NewJob(p, r, 0, 0, 0))
    BY <1>1 DEF SubmitTelemetry
  <2>2. job' \in [Workers -> Jobs] /\ CarriesReport' /\ CarriesEvent'
    BY <1>1, <2>1, JobStarts DEF SubmitTelemetry, Phases, EventPhases
  <2> QED
    BY <1>1, <2>2 DEF SubmitTelemetry, TypeOK
<1>2. CASE LookUpMessage(w)
  <2>1. CASE Finish(w)
    BY <1>0, <1>2, <2>1, JobEnds DEF LookUpMessage, TypeOK
  <2>2. CASE Advance(w, "stamp")
    BY <1>2, <2>2, JobAdvances DEF LookUpMessage, TypeOK, Phases, TelemetryPhases
  <2> QED
    BY <1>2, <2>1, <2>2 DEF LookUpMessage
<1>3. CASE StampReceipt(w)
  <2> DEFINE j == NewJob("insert", job[w].report, 0, 0, clock)
  <2>1. j \in Jobs /\ j.phase = "insert" /\ j.report = job[w].report
    <3>1. clock \in Int
      BY <1>0 DEF TypeOK
    <3> QED
      BY <1>0, <3>1 DEF NewJob, Jobs, Phases
  <2>2. job' = [job EXCEPT ![w] = j]
    BY <1>3 DEF StampReceipt
  <2>3. job[w].report \in Reports
    BY <1>0, <1>3 DEF StampReceipt, TelemetryPhases
  <2> HIDE DEF j
  <2>4. job' \in [Workers -> Jobs] /\ CarriesReport' /\ CarriesEvent'
    <3>1. UNCHANGED rows
      BY <1>3 DEF StampReceipt
    <3>2. rows' \in Seq(Rows) /\ Len(rows') >= Len(rows) /\ j.phase \notin EventPhases
      BY <1>0, <2>1, <3>1 DEF EventPhases
    <3> QED
      BY <2>1, <2>2, <2>3, <3>2, OneJobChanges
  <2> QED
    BY <1>3, <2>4 DEF StampReceipt, TypeOK
<1>4. CASE InsertTelemetry(w)
  <2>1. rows' \in Seq(Rows) /\ Len(rows') >= Len(rows)
    <3>1. rows' \in Seq(Rows) /\ Len(rows') = Len(rows) + 1
      BY <1>0, <1>4, RowAppended, Zenon
    <3> QED
      BY <1>0, <3>1
  <2>2. job' \in [Workers -> Jobs] /\ CarriesReport' /\ CarriesEvent'
    BY <1>4, <2>1, JobEnds DEF InsertTelemetry
  <2>3. job[w].report \in Reports
    BY <1>0, <1>4 DEF InsertTelemetry, TelemetryPhases
  <2>4. acked' \subseteq [report: Reports, event: Nat]
    BY <1>0, <1>4, <2>3, AnswersAreTyped DEF InsertTelemetry
  <2> QED
    BY <1>4, <2>1, <2>2, <2>4 DEF InsertTelemetry, TypeOK
<1>5. ASSUME NEW e \in Events, AnswerDuplicate(w, e) PROVE TypeInv'
  <2>1. acked' \subseteq [report: Reports, event: Nat]
    BY <1>0, <1>5, AnswersAreTyped DEF AnswerDuplicate, Events, TelemetryPhases
  <2>2. job' \in [Workers -> Jobs] /\ CarriesReport' /\ CarriesEvent'
    BY <1>0, <1>5, JobEnds DEF AnswerDuplicate
  <2> QED
    BY <1>5, <2>1, <2>2 DEF AnswerDuplicate, TypeOK
<1>6. ASSUME NEW e \in Events, AdoptRetry(w, e) PROVE TypeInv'
  <2>1. rows' \in Seq(Rows) /\ Len(rows') >= Len(rows)
    BY <1>0, <1>6, MarkerFilled
  <2>2. job' \in [Workers -> Jobs] /\ CarriesReport' /\ CarriesEvent'
    BY <1>6, <2>1, JobEnds DEF AdoptRetry
  <2>3. acked' \subseteq [report: Reports, event: Nat]
    BY <1>0, <1>6, AnswersAreTyped DEF AdoptRetry, Events, TelemetryPhases
  <2> QED
    BY <1>6, <2>1, <2>2, <2>3 DEF AdoptRetry, TypeOK
<1>7. ASSUME NEW e \in Events, RejectConflict(w, e) PROVE TypeInv'
  BY <1>0, <1>7, JobEnds DEF RejectConflict, TypeOK
<1> QED
  BY <1>1, <1>2, <1>3, <1>4, <1>5, <1>6, <1>7 DEF TelemetryStep

LEMMA AuthorizationKeepsTypes ==
    ASSUME TypeInv, NEW w \in Workers, AuthorizationStep(w)
    PROVE  TypeInv'
<1> USE DEF TypeInv
<1>0. Len(rows) \in Nat /\ rows \in Seq(Rows)
  BY LenProperties DEF TypeOK
<1>1. ASSUME NEW e \in Events, RequestAuthorization(w, e) PROVE TypeInv'
  <2>1. Start(w, NewJob("grant", None, e, 0, clock)) /\ UNCHANGED rows
    BY <1>1 DEF RequestAuthorization
  <2>2. "grant" \in Phases /\ "grant" \notin TelemetryPhases /\ e \in Nat /\ clock \in Int
    BY <1>0 DEF Phases, TelemetryPhases, Events, TypeOK
  <2>3. job' \in [Workers -> Jobs] /\ CarriesReport' /\ CarriesEvent'
    BY <2>1, <2>2, JobStarts
  <2> QED
    BY <1>1, <2>3 DEF RequestAuthorization, TypeOK
<1>2. CASE GrantAuthorization(w)
  <2>1. auths' \in Seq(Auths)
    BY <1>2, TokenIssued
  <2>2. job' \in [Workers -> Jobs] /\ CarriesReport' /\ CarriesEvent'
    BY <1>0, <1>2, JobEnds DEF GrantAuthorization
  <2> QED
    BY <1>2, <2>1, <2>2 DEF GrantAuthorization, TypeOK
<1>3. CASE RefuseAuthorization(w)
  BY <1>0, <1>3, JobEnds DEF RefuseAuthorization, TypeOK
<1> QED
  BY <1>1, <1>2, <1>3 DEF AuthorizationStep

LEMMA CommandKeepsTypes ==
    ASSUME TypeInv, NEW w \in Workers, CommandStep(w)
    PROVE  TypeInv'
<1> USE DEF TypeInv
<1>0. /\ Len(rows) \in Nat /\ rows \in Seq(Rows)
      /\ Len(auths) \in Nat
  BY LenProperties DEF TypeOK
<1>1. ASSUME NEW e \in Events, NEW k \in 0..Len(auths), RequestMigration(w, e, k)
      PROVE  TypeInv'
  <2>1. Start(w, NewJob("validate", None, e, k, clock)) /\ UNCHANGED rows
    BY <1>1 DEF RequestMigration
  <2>2. /\ "validate" \in Phases /\ "validate" \notin TelemetryPhases
        /\ e \in Nat /\ k \in Nat /\ clock \in Int
    BY <1>0 DEF Phases, TelemetryPhases, Events, TypeOK
  <2>3. job' \in [Workers -> Jobs] /\ CarriesReport' /\ CarriesEvent'
    BY <2>1, <2>2, JobStarts
  <2> QED
    BY <1>1, <2>3 DEF RequestMigration, TypeOK
<1>2. CASE ValidateToken(w)
  <2>1. CASE Finish(w)
    BY <1>0, <1>2, <2>1, JobEnds DEF ValidateToken, TypeOK
  <2>2. CASE Advance(w, "actuate")
    BY <1>2, <2>2, JobAdvances DEF ValidateToken, TypeOK, Phases, EventPhases
  <2> QED
    BY <1>2, <2>1, <2>2 DEF ValidateToken
<1>3. CASE CallActuator(w)
  BY <1>3, JobAdvances DEF CallActuator, TypeOK, Phases, EventPhases
<1>4. CASE ConsumeToken(w)
  <2>1. auths' \in Seq(Auths) /\ commands' \in Seq(Commands)
    BY <1>4, TokenSpent
  <2>2. job' \in [Workers -> Jobs] /\ CarriesReport' /\ CarriesEvent'
    BY <1>0, <1>4, JobEnds DEF ConsumeToken
  <2> QED
    BY <1>4, <2>1, <2>2 DEF ConsumeToken, TypeOK
<1>5. CASE RefuseCommand(w)
  BY <1>0, <1>5, JobEnds DEF RefuseCommand, TypeOK
<1> QED
  BY <1>1, <1>2, <1>3, <1>4, <1>5 DEF CommandStep

LEMMA TypeNext == TypeInv /\ [Next]_vars => TypeInv'
<1> SUFFICES ASSUME TypeInv, [Next]_vars PROVE TypeInv'
  OBVIOUS
<1>1. CASE UNCHANGED vars
  BY <1>1 DEF vars, TypeInv, TypeOK, CarriesReport, CarriesEvent, Events
<1>2. CASE Tick
  BY <1>2 DEF Tick, TypeInv, TypeOK, CarriesReport, CarriesEvent, Events
<1>3. CASE Crash
  <2>1. job' \in [Workers -> Jobs] /\ CarriesReport' /\ CarriesEvent'
    BY <1>3 DEF Crash, Idle, NewJob, Jobs, Phases, CarriesReport, CarriesEvent,
                TelemetryPhases, EventPhases
  <2> QED
    BY <1>3, <2>1 DEF Crash, TypeInv, TypeOK
<1>4. ASSUME NEW w \in Workers, Step(w) PROVE TypeInv'
  <2>1. CASE RequestFails(w)
    BY <2>1, JobEnds, LenProperties DEF RequestFails, TypeInv, TypeOK
  <2> QED
    BY <1>4, <2>1, StepKinds, TelemetryKeepsTypes, AuthorizationKeepsTypes, CommandKeepsTypes
<1> QED
  BY <1>1, <1>2, <1>3, <1>4 DEF Next

(***************************************************************************)
(* In every reachable state each table, each job and the history have the  *)
(* types the code's tables and handlers give them, whatever requests race. *)
(***************************************************************************)
THEOREM TypeCorrect == Spec => []TypeOK
<1>1. Init => TypeInv
  BY TypeInit
<1>2. TypeInv /\ [Next]_vars => TypeInv'
  BY TypeNext
<1>3. TypeInv => TypeOK
  BY DEF TypeInv
<1> QED
  BY <1>1, <1>2, <1>3, PTL DEF Spec

-----------------------------------------------------------------------------
(***************************************************************************)
(* Who writes which table.                                                 *)
(***************************************************************************)

LEMMA WritesToRows ==
    ASSUME [Next]_vars
    PROVE  \/ UNCHANGED rows
           \/ \E w \in Workers : InsertTelemetry(w) /\ UNCHANGED <<auths, commands>>
           \/ \E w \in Workers, e \in Events :
                 AdoptRetry(w, e) /\ UNCHANGED <<auths, commands>>
<1>1. ASSUME NEW w \in Workers, TelemetryStep(w)
      PROVE  \/ UNCHANGED rows
             \/ InsertTelemetry(w) /\ UNCHANGED <<auths, commands>>
             \/ \E e \in Events : AdoptRetry(w, e) /\ UNCHANGED <<auths, commands>>
  BY <1>1 DEF TelemetryStep, SubmitTelemetry, LookUpMessage, StampReceipt,
              InsertTelemetry, AnswerDuplicate, AdoptRetry, RejectConflict
<1>2. ASSUME NEW w \in Workers, AuthorizationStep(w) \/ CommandStep(w) \/ RequestFails(w)
      PROVE  UNCHANGED rows
  BY <1>2 DEF AuthorizationStep, CommandStep, RequestFails,
              RequestAuthorization, GrantAuthorization, RefuseAuthorization,
              RequestMigration, ValidateToken, CallActuator, ConsumeToken, RefuseCommand
<1>3. CASE UNCHANGED vars \/ Tick \/ Crash
  BY <1>3 DEF vars, Tick, Crash
<1>4. ASSUME NEW w \in Workers, Step(w)
      PROVE  \/ UNCHANGED rows
             \/ \E v \in Workers : InsertTelemetry(v) /\ UNCHANGED <<auths, commands>>
             \/ \E v \in Workers, e \in Events :
                   AdoptRetry(v, e) /\ UNCHANGED <<auths, commands>>
  BY <1>1, <1>2, <1>4, StepKinds
<1> QED
  BY <1>3, <1>4 DEF Next

LEMMA WritesToAuths ==
    ASSUME [Next]_vars
    PROVE  \/ UNCHANGED <<auths, commands>>
           \/ \E w \in Workers : GrantAuthorization(w) /\ UNCHANGED <<rows, commands>>
           \/ \E w \in Workers : ConsumeToken(w) /\ UNCHANGED rows
<1>1. ASSUME NEW w \in Workers, TelemetryStep(w) \/ RequestFails(w)
      PROVE  UNCHANGED <<auths, commands>>
  BY <1>1 DEF TelemetryStep, SubmitTelemetry, LookUpMessage, StampReceipt, RequestFails,
              InsertTelemetry, AnswerDuplicate, AdoptRetry, RejectConflict
<1>2. ASSUME NEW w \in Workers, AuthorizationStep(w)
      PROVE  \/ UNCHANGED <<auths, commands>>
             \/ GrantAuthorization(w) /\ UNCHANGED <<rows, commands>>
  BY <1>2 DEF AuthorizationStep, RequestAuthorization, GrantAuthorization,
              RefuseAuthorization
<1>3. ASSUME NEW w \in Workers, CommandStep(w)
      PROVE  UNCHANGED <<auths, commands>> \/ (ConsumeToken(w) /\ UNCHANGED rows)
  BY <1>3 DEF CommandStep, RequestMigration, ValidateToken, CallActuator,
              ConsumeToken, RefuseCommand
<1>4. CASE UNCHANGED vars \/ Tick \/ Crash
  BY <1>4 DEF vars, Tick, Crash
<1>5. ASSUME NEW w \in Workers, Step(w)
      PROVE  \/ UNCHANGED <<auths, commands>>
             \/ \E v \in Workers : GrantAuthorization(v) /\ UNCHANGED <<rows, commands>>
             \/ \E v \in Workers : ConsumeToken(v) /\ UNCHANGED rows
  BY <1>1, <1>2, <1>3, <1>5, StepKinds
<1> QED
  BY <1>4, <1>5 DEF Next

-----------------------------------------------------------------------------
(***************************************************************************)
(* A token pays for one command.                                           *)
(***************************************************************************)

LEMMA OneTokenOneCommandNext ==
    TypeInv /\ OneTokenOneCommand /\ [Next]_vars => OneTokenOneCommand'
<1> SUFFICES ASSUME TypeInv, OneTokenOneCommand, [Next]_vars
             PROVE  OneTokenOneCommand'
  OBVIOUS
<1>0. /\ TypeOK /\ CarriesEvent
      /\ Len(auths) \in Nat /\ Len(commands) \in Nat
      /\ None \notin Int
  BY LenProperties, DataAssumption DEF TypeInv, TypeOK
<1>1. CASE UNCHANGED <<auths, commands>>
  BY <1>1 DEF OneTokenOneCommand, Tokens
<1>2. ASSUME NEW w \in Workers, GrantAuthorization(w), UNCHANGED commands
      PROVE  OneTokenOneCommand'
  <2>1. /\ Len(auths') = Len(auths) + 1
        /\ \A k \in Tokens : auths'[k] = auths[k]
        /\ auths'[Len(auths) + 1].usedAt = None
    BY <1>0, <1>2, TokenIssued
  <2>2. \A k \in Tokens' : k \in Tokens \/ k = Len(auths) + 1
    BY <1>0, <2>1 DEF Tokens
  <2>3. Tokens \subseteq Tokens'
    BY <1>0, <2>1 DEF Tokens
  <2> QED
    BY <1>2, <2>1, <2>2, <2>3 DEF OneTokenOneCommand
<1>3. ASSUME NEW w \in Workers, ConsumeToken(w)
      PROVE  OneTokenOneCommand'
  <2> DEFINE t == job[w].token
             n == Len(commands) + 1
  <2>1. /\ t \in Tokens
        /\ auths[t].event = job[w].event /\ auths[t].usedAt = None
        /\ Tokens' = Tokens
        /\ Len(commands') = n
        /\ \A c \in 1..Len(commands) : commands'[c] = commands[c]
        /\ commands'[n].event = job[w].event /\ commands'[n].token = t
    BY <1>0, <1>3, TokenSpent DEF Tokens
  <2>2. \A k \in Tokens : /\ auths'[k].event = auths[k].event
                          /\ k # t => auths'[k].usedAt = auths[k].usedAt
    BY <1>0, <1>3, TokenSpent
  <2>3. auths'[t].usedAt # None
    BY <1>0, <1>3, TokenSpent DEF TypeOK, Jobs
  <2>4. \A c \in 1..Len(commands) :
           /\ commands[c].token \in Tokens
           /\ commands[c].token # t
           /\ auths[commands[c].token].event = commands[c].event
           /\ auths[commands[c].token].usedAt # None
    BY <2>1 DEF OneTokenOneCommand
  <2>5. \A c \in 1..Len(commands') : c \in 1..Len(commands) \/ c = n
    BY <1>0, <2>1
  <2>6. 1..Len(commands) \subseteq 1..Len(commands') /\ n \in 1..Len(commands')
    BY <1>0, <2>1
  <2> HIDE DEF t, n
  <2>7. ASSUME NEW c \in 1..Len(commands')
        PROVE  /\ commands'[c].token \in Tokens'
               /\ auths'[commands'[c].token].event = commands'[c].event
               /\ auths'[commands'[c].token].usedAt # None
               /\ \A d \in 1..Len(commands') :
                     commands'[c].token = commands'[d].token => c = d
    <3>1. CASE c = n
      BY <2>1, <2>2, <2>3, <2>4, <2>5, <3>1
    <3>2. CASE c \in 1..Len(commands)
      BY <2>1, <2>2, <2>4, <2>5, <3>2 DEF OneTokenOneCommand
    <3> QED
      BY <2>5, <3>1, <3>2
  <2>8. ASSUME NEW k \in Tokens', auths'[k].usedAt # None
        PROVE  \E c \in 1..Len(commands') : commands'[c].token = k
    <3>1. CASE k = t
      BY <2>1, <2>6, <3>1
    <3>2. CASE k # t
      BY <2>1, <2>2, <2>6, <2>8, <3>2 DEF OneTokenOneCommand
    <3> QED
      BY <3>1, <3>2
  <2> QED
    BY <2>7, <2>8 DEF OneTokenOneCommand
<1> QED
  BY <1>1, <1>2, <1>3, WritesToAuths

(***************************************************************************)
(* Spent tokens and recorded commands correspond one to one, for any       *)
(* number of concurrent commands, failures and crashes                     *)
(* (record_authorized_command).                                            *)
(***************************************************************************)
THEOREM SingleUse == Spec => []OneTokenOneCommand
<1>1. Init => TypeInv /\ OneTokenOneCommand
  <2>1. Init => OneTokenOneCommand
    BY DEF Init, OneTokenOneCommand, Tokens
  <2> QED
    BY <2>1, TypeInit
<1>2. TypeInv /\ OneTokenOneCommand /\ [Next]_vars => (TypeInv /\ OneTokenOneCommand)'
  BY TypeNext, OneTokenOneCommandNext
<1> QED
  BY <1>1, <1>2, PTL DEF Spec

-----------------------------------------------------------------------------
(***************************************************************************)
(* What is stored stays: events and tokens keep their fields.              *)
(***************************************************************************)

LEMMA EventsAreKept ==
    ASSUME TypeInv, [Next]_vars, NEW e \in Events
    PROVE  /\ e \in Events'
           /\ rows'[e].report = rows[e].report
           /\ rows'[e].receivedAt = rows[e].receivedAt
           /\ rows'[e].marker # rows[e].marker =>
                rows[e].marker = "unknown" /\ rows'[e].marker = "defaulted"
<1>0. TypeOK /\ CarriesReport /\ Len(rows) \in Nat
  BY LenProperties DEF TypeInv, TypeOK
<1> DEFINE Kept == /\ e \in Events'
                   /\ rows'[e].report = rows[e].report
                   /\ rows'[e].receivedAt = rows[e].receivedAt
                   /\ rows'[e].marker # rows[e].marker =>
                        rows[e].marker = "unknown" /\ rows'[e].marker = "defaulted"
<1>1. CASE UNCHANGED rows
  BY <1>1 DEF Events
<1>2. ASSUME NEW w \in Workers, InsertTelemetry(w) PROVE Kept
  BY <1>0, <1>2, RowAppended DEF Events
<1>3. ASSUME NEW w \in Workers, NEW f \in Events, AdoptRetry(w, f) PROVE Kept
  BY <1>0, <1>3, MarkerFilled DEF Events
<1> QED
  BY <1>1, <1>2, <1>3, WritesToRows

LEMMA TokensAreKept ==
    ASSUME TypeInv, [Next]_vars, NEW k \in Tokens
    PROVE  /\ k \in Tokens'
           /\ auths'[k].event = auths[k].event
           /\ auths'[k].createdAt = auths[k].createdAt
           /\ auths'[k].expiresAt = auths[k].expiresAt
           /\ auths[k].usedAt # None => auths'[k].usedAt = auths[k].usedAt
<1>0. TypeOK /\ CarriesEvent /\ Len(auths) \in Nat
  BY LenProperties DEF TypeInv, TypeOK
<1>1. CASE UNCHANGED auths
  BY <1>1 DEF Tokens
<1>2. ASSUME NEW w \in Workers, GrantAuthorization(w)
      PROVE  k \in Tokens' /\ auths'[k] = auths[k]
  BY <1>0, <1>2, TokenIssued DEF Tokens
<1>3. ASSUME NEW w \in Workers, ConsumeToken(w)
      PROVE  /\ k \in Tokens'
             /\ auths'[k].event = auths[k].event
             /\ auths'[k].createdAt = auths[k].createdAt
             /\ auths'[k].expiresAt = auths[k].expiresAt
             /\ auths[k].usedAt # None => auths'[k].usedAt = auths[k].usedAt
  BY <1>0, <1>3, TokenSpent DEF Tokens
<1> QED
  BY <1>1, <1>2, <1>3, WritesToAuths

(***************************************************************************)
(* No request, retry, conflict or failure rewrites an event: its content   *)
(* and receipt time are fixed and only an unknown marker is filled in, so  *)
(* resending telemetry never makes an old event fresh again.               *)
(***************************************************************************)
THEOREM RetriesNeverRefresh == Spec => RetryNeverRefreshes
<1> DEFINE Kept(e) == /\ e \in Events'
                      /\ rows'[e].report = rows[e].report
                      /\ rows'[e].receivedAt = rows[e].receivedAt
                      /\ rows'[e].marker # rows[e].marker =>
                           rows[e].marker = "unknown" /\ rows'[e].marker = "defaulted"
<1>1. TypeInv /\ [Next]_vars => [\A e \in Events : Kept(e)]_vars
  BY EventsAreKept
<1>2. Init => TypeInv
  BY TypeInit
<1>3. TypeInv /\ [Next]_vars => TypeInv'
  BY TypeNext
<1> QED
  BY <1>1, <1>2, <1>3, PTL DEF Spec, RetryNeverRefreshes

-----------------------------------------------------------------------------
(***************************************************************************)
(* Every spent token was fresh when it was used.  The handler of a command *)
(* keeps the clock reading it tested the event's age with, and its token   *)
(* existed at that time, so the later transaction inherits both facts.     *)
(***************************************************************************)

CommandPhases == {"validate", "actuate", "consume"}

SoundTokens ==
    \A k \in Tokens :
        /\ auths[k].event \in Events
        /\ Eligible(auths[k].event)
        /\ auths[k].createdAt <= clock

FreshJobs ==
    \A w \in Workers :
        /\ job[w].phase \in EventPhases => Eligible(job[w].event)
        /\ job[w].phase \in CommandPhases =>
              /\ job[w].now - rows[job[w].event].receivedAt <= EventMaxAge
              /\ job[w].token <= Len(auths)
              /\ job[w].token \in Tokens =>
                    auths[job[w].token].createdAt <= job[w].now

FreshInv == TypeInv /\ SoundTokens /\ FreshJobs /\ SpentTokensWereFresh

\* Where a job that holds an event comes from.
LEMMA EventJobs ==
    ASSUME TypeInv, [Next]_vars, NEW v \in Workers, job'[v].phase \in EventPhases
    PROVE  \/ job'[v] = job[v]
           \/ \E e \in Events :
                 /\ Eligible(e) /\ UNCHANGED <<rows, auths>>
                 /\ job'[v] = NewJob("grant", None, e, 0, clock)
           \/ \E e \in Events, k \in 0..Len(auths) :
                 /\ Eligible(e) /\ ~Stale(e, clock) /\ UNCHANGED <<rows, auths>>
                 /\ job'[v] = NewJob("validate", None, e, k, clock)
           \/ /\ job[v].phase \in CommandPhases
              /\ job'[v].phase \in CommandPhases
              /\ job'[v].event = job[v].event
              /\ job'[v].token = job[v].token
              /\ job'[v].now = job[v].now
<1>0. /\ job \in [Workers -> Jobs] /\ job[v] \in Jobs
      /\ Idle.phase \notin EventPhases
  BY DEF TypeInv, TypeOK, Idle, NewJob, EventPhases
<1>1. CASE UNCHANGED vars \/ Tick
  BY <1>1 DEF vars, Tick
<1>2. CASE Crash
  BY <1>0, <1>2 DEF Crash
<1>3. ASSUME NEW w \in Workers, w # v, Step(w)
      PROVE  job'[v] = job[v]
  <2>1. \E j : job' = [job EXCEPT ![w] = j]
    BY <1>3 DEF Step, SubmitTelemetry, LookUpMessage, StampReceipt, InsertTelemetry,
                AnswerDuplicate, AdoptRetry, RejectConflict, RequestAuthorization,
                GrantAuthorization, RefuseAuthorization, RequestMigration,
                ValidateToken, CallActuator, ConsumeToken, RefuseCommand,
                RequestFails, Start, Advance, Finish
  <2> QED
    BY <1>0, <1>3, <2>1
<1>4. CASE TelemetryStep(v)
  <2>1. job'[v].phase \in {"stamp", "lookup", "insert", "idle"}
    BY <1>0, <1>4 DEF TelemetryStep, SubmitTelemetry, LookUpMessage, StampReceipt,
        InsertTelemetry, AnswerDuplicate, AdoptRetry, RejectConflict, Start, Advance,
        Finish, Idle, NewJob, Jobs
  <2> QED
    BY <2>1 DEF EventPhases
<1>5. CASE RequestFails(v)
  BY <1>0, <1>5 DEF RequestFails, Finish
<1>6. CASE AuthorizationStep(v)
  <2>1. ASSUME NEW e \in Events, RequestAuthorization(v, e)
        PROVE  /\ Eligible(e) /\ UNCHANGED <<rows, auths>>
               /\ job'[v] = NewJob("grant", None, e, 0, clock)
    BY <1>0, <2>1 DEF RequestAuthorization, Start
  <2>2. ~(GrantAuthorization(v) \/ RefuseAuthorization(v))
    BY <1>0 DEF GrantAuthorization, RefuseAuthorization, Finish
  <2> QED
    BY <1>6, <2>1, <2>2 DEF AuthorizationStep
<1>7. CASE CommandStep(v)
  <2>1. ASSUME NEW e \in Events, NEW k \in 0..Len(auths), RequestMigration(v, e, k)
        PROVE  /\ Eligible(e) /\ ~Stale(e, clock) /\ UNCHANGED <<rows, auths>>
               /\ job'[v] = NewJob("validate", None, e, k, clock)
    BY <1>0, <2>1 DEF RequestMigration, Start
  <2>2. ~(ConsumeToken(v) \/ RefuseCommand(v))
    BY <1>0 DEF ConsumeToken, RefuseCommand, Finish
  <2>3. ASSUME NEW p \in {"actuate", "consume"}, Advance(v, p)
        PROVE  /\ job'[v].phase = p
               /\ job'[v].event = job[v].event
               /\ job'[v].token = job[v].token
               /\ job'[v].now = job[v].now
    BY <1>0, <2>3 DEF Advance, Jobs
  <2>4. CASE ValidateToken(v)
    BY <1>0, <2>3, <2>4 DEF ValidateToken, Finish, CommandPhases
  <2>5. CASE CallActuator(v)
    BY <2>3, <2>5 DEF CallActuator, CommandPhases
  <2> QED
    BY <1>7, <2>1, <2>2, <2>4, <2>5 DEF CommandStep
<1> QED
  BY <1>1, <1>2, <1>3, <1>4, <1>5, <1>6, <1>7, StepKinds DEF Next

LEMMA SoundTokensNext ==
    ASSUME FreshInv, [Next]_vars
    PROVE  SoundTokens'
<1>0. /\ TypeInv /\ TypeOK /\ CarriesEvent /\ clock \in Int
      /\ Len(auths) \in Nat /\ Len(rows) \in Nat
  BY LenProperties DEF FreshInv, TypeInv, TypeOK
<1>1. clock' \in Int /\ clock' >= clock
  <2>1. CASE UNCHANGED clock
    BY <1>0, <2>1
  <2>2. CASE Tick
    BY <1>0, <2>2 DEF Tick
  <2>3. UNCHANGED clock \/ Tick
    BY DEF Next, vars, Crash, Step, SubmitTelemetry, LookUpMessage, StampReceipt,
           InsertTelemetry, AnswerDuplicate, AdoptRetry, RejectConflict,
           RequestAuthorization, GrantAuthorization, RefuseAuthorization,
           RequestMigration, ValidateToken, CallActuator, ConsumeToken, RefuseCommand,
           RequestFails
  <2> QED
    BY <2>1, <2>2, <2>3
<1>2. ASSUME NEW k \in Tokens
      PROVE  /\ auths'[k].event \in Events'
             /\ Verdict[rows'[auths'[k].event].report.body] = "MIGRATE_NOW"
             /\ auths'[k].createdAt <= clock'
  <2>1. auths'[k].event = auths[k].event /\ auths'[k].createdAt = auths[k].createdAt
    BY <1>0, TokensAreKept
  <2>2. /\ auths[k].event \in Events'
        /\ Verdict[rows'[auths[k].event].report.body] = "MIGRATE_NOW"
    BY <1>0, EventsAreKept DEF FreshInv, SoundTokens, Eligible
  <2>3. auths[k].createdAt <= clock'
    <3>1. auths[k] \in Auths
      BY <1>0, ElementOfSeq DEF TypeOK, Tokens
    <3>2. auths[k].createdAt \in Int
      BY <3>1 DEF Auths
    <3> QED
      BY <1>0, <1>1, <3>2 DEF FreshInv, SoundTokens
  <2> QED
    BY <2>1, <2>2, <2>3
<1>3. CASE Tokens' \subseteq Tokens
  BY <1>2, <1>3 DEF SoundTokens, Eligible
<1>4. ASSUME NEW w \in Workers, GrantAuthorization(w)
      PROVE  SoundTokens'
  <2> DEFINE n == Len(auths) + 1
  <2>1. /\ auths'[n].event = job[w].event
        /\ auths'[n].createdAt = clock
        /\ Len(auths') = n
    BY <1>0, <1>4, TokenIssued
  <2>2. job[w].event \in Events /\ Eligible(job[w].event)
    BY <1>0, <1>4 DEF GrantAuthorization, CarriesEvent, FreshInv, FreshJobs, EventPhases
  <2>3. UNCHANGED <<rows, clock>>
    BY <1>4 DEF GrantAuthorization
  <2>4. /\ auths'[n].event \in Events'
        /\ Verdict[rows'[auths'[n].event].report.body] = "MIGRATE_NOW"
        /\ auths'[n].createdAt <= clock'
    BY <1>0, <2>1, <2>2, <2>3 DEF Eligible, Events
  <2>5. \A k \in Tokens' : k \in Tokens \/ k = n
    BY <1>0, <2>1 DEF Tokens
  <2> QED
    BY <1>2, <2>4, <2>5 DEF SoundTokens, Eligible
<1>5. ASSUME NEW w \in Workers, ConsumeToken(w)
      PROVE  Tokens' \subseteq Tokens
  BY <1>0, <1>5, TokenSpent DEF Tokens
<1>6. CASE UNCHANGED auths
  BY <1>3, <1>6 DEF Tokens
<1> QED
  BY <1>3, <1>4, <1>5, <1>6, WritesToAuths

LEMMA FreshJobsNext ==
    ASSUME FreshInv, [Next]_vars
    PROVE  FreshJobs'
<1>0. /\ TypeInv /\ TypeOK /\ CarriesEvent /\ clock \in Int
      /\ Len(auths) \in Nat /\ Len(rows) \in Nat
  BY LenProperties DEF FreshInv, TypeInv, TypeOK
<1>1. Len(auths') \in Nat /\ Len(auths') >= Len(auths)
  BY <1>0, WritesToAuths, TokenIssued, TokenSpent
<1> SUFFICES ASSUME NEW v \in Workers, job'[v].phase \in EventPhases
             PROVE  /\ Eligible(job[v].event)'
                    /\ job'[v].phase \in CommandPhases =>
                         /\ job'[v].now - rows'[job'[v].event].receivedAt <= EventMaxAge
                         /\ job'[v].token <= Len(auths')
                         /\ job'[v].token \in Tokens' =>
                              auths'[job'[v].token].createdAt <= job'[v].now
  <2>1. CommandPhases \subseteq EventPhases
    BY DEF EventPhases, CommandPhases
  <2> QED
    BY <2>1 DEF FreshJobs
<1> DEFINE Inherited ==
        /\ job[v].phase \in EventPhases
        /\ job'[v].phase \in CommandPhases => job[v].phase \in CommandPhases
        /\ job'[v].event = job[v].event
        /\ job'[v].token = job[v].token
        /\ job'[v].now = job[v].now
<1>2. CASE Inherited
  <2>1. job[v].event \in Events /\ Eligible(job[v].event)
    BY <1>0, <1>2 DEF CarriesEvent, FreshInv, FreshJobs
  <2>2. Eligible(job[v].event)'
    BY <1>0, <1>2, <2>1, EventsAreKept DEF Eligible
  <2>3. ASSUME job'[v].phase \in CommandPhases
        PROVE  /\ job'[v].now - rows'[job'[v].event].receivedAt <= EventMaxAge
               /\ job'[v].token <= Len(auths')
               /\ job'[v].token \in Tokens' =>
                    auths'[job'[v].token].createdAt <= job'[v].now
    <3>1. /\ job[v].now - rows[job[v].event].receivedAt <= EventMaxAge
          /\ job[v].token <= Len(auths)
          /\ job[v].token \in Tokens => auths[job[v].token].createdAt <= job[v].now
      BY <1>2, <2>3 DEF FreshInv, FreshJobs
    <3>2. rows'[job[v].event].receivedAt = rows[job[v].event].receivedAt
      BY <1>0, <2>1, EventsAreKept
    <3>3. job[v].token \in Nat
      BY <1>0 DEF TypeOK, Jobs
    <3>4. job[v].token \in Tokens' => job[v].token \in Tokens
      BY <1>0, <1>1, <3>1, <3>3 DEF Tokens
    <3>5. job[v].token \in Tokens =>
            auths'[job[v].token].createdAt = auths[job[v].token].createdAt
      BY <1>0, TokensAreKept
    <3> QED
      BY <1>0, <1>1, <1>2, <3>1, <3>2, <3>3, <3>4, <3>5
  <2> QED
    BY <2>2, <2>3
<1>3. ASSUME NEW e \in Events, Eligible(e), UNCHANGED <<rows, auths>>,
             job'[v] = NewJob("grant", None, e, 0, clock)
      PROVE  Eligible(job[v].event)' /\ job'[v].phase \notin CommandPhases
  BY <1>3 DEF NewJob, Eligible, CommandPhases
<1>4. ASSUME NEW e \in Events, NEW k \in 0..Len(auths),
             Eligible(e), ~Stale(e, clock), UNCHANGED <<rows, auths>>,
             job'[v] = NewJob("validate", None, e, k, clock)
      PROVE  /\ Eligible(job[v].event)'
             /\ job'[v].now - rows'[job'[v].event].receivedAt <= EventMaxAge
             /\ job'[v].token <= Len(auths')
             /\ job'[v].token \in Tokens' =>
                  auths'[job'[v].token].createdAt <= job'[v].now
  <2>1. job'[v].event = e /\ job'[v].token = k /\ job'[v].now = clock
    BY <1>4 DEF NewJob
  <2>2. Eligible(job[v].event)'
    BY <1>4, <2>1 DEF Eligible
  <2>3. clock - rows[e].receivedAt <= EventMaxAge
    <3>1. rows[e] \in Rows
      BY <1>0, ElementOfSeq DEF TypeOK, Events
    <3>2. rows[e].receivedAt \in Int
      BY <3>1 DEF Rows
    <3> QED
      BY <1>0, <1>4, <3>2, SettingsAssumption DEF Stale
  <2>4. k \in Tokens => auths[k].createdAt <= clock
    BY DEF FreshInv, SoundTokens
  <2> QED
    BY <1>0, <1>4, <2>1, <2>2, <2>3, <2>4 DEF Tokens
<1> QED
  BY <1>2, <1>3, <1>4, EventJobs, <1>0 DEF EventPhases, CommandPhases

LEMMA SpentTokensNext ==
    ASSUME FreshInv, [Next]_vars
    PROVE  SpentTokensWereFresh'
<1>0. TypeInv /\ TypeOK /\ CarriesEvent /\ Len(auths) \in Nat
  BY LenProperties DEF FreshInv, TypeInv, TypeOK
<1> DEFINE Fresh(k) == /\ auths[k].event \in Events
                       /\ Eligible(auths[k].event)
                       /\ auths[k].createdAt <= auths[k].usedAt
                       /\ auths[k].usedAt < auths[k].expiresAt
                       /\ auths[k].usedAt - rows[auths[k].event].receivedAt <= EventMaxAge
<1>1. ASSUME NEW k \in Tokens, auths[k].usedAt # None PROVE Fresh(k)'
  <2>1. Fresh(k)
    BY <1>1 DEF FreshInv, SpentTokensWereFresh
  <2>2. /\ auths'[k].event = auths[k].event
        /\ auths'[k].createdAt = auths[k].createdAt
        /\ auths'[k].expiresAt = auths[k].expiresAt
        /\ auths'[k].usedAt = auths[k].usedAt
    BY <1>0, <1>1, TokensAreKept
  <2>3. /\ auths[k].event \in Events'
        /\ rows'[auths[k].event].receivedAt = rows[auths[k].event].receivedAt
        /\ rows'[auths[k].event].report = rows[auths[k].event].report
    BY <1>0, <2>1, EventsAreKept
  <2> QED
    BY <2>1, <2>2, <2>3 DEF Eligible
<1>2. CASE UNCHANGED auths
  BY <1>1, <1>2 DEF SpentTokensWereFresh, Tokens
<1>3. ASSUME NEW w \in Workers, GrantAuthorization(w)
      PROVE  SpentTokensWereFresh'
  <2>1. /\ auths'[Len(auths) + 1].usedAt = None
        /\ \A k \in Tokens : auths'[k] = auths[k]
        /\ \A k \in Tokens' : k \in Tokens \/ k = Len(auths) + 1
    BY <1>0, <1>3, TokenIssued DEF Tokens
  <2> QED
    BY <1>1, <2>1 DEF SpentTokensWereFresh
<1>4. ASSUME NEW w \in Workers, ConsumeToken(w), UNCHANGED rows
      PROVE  SpentTokensWereFresh'
  <2>0. PICK t \in Nat, e \in Nat : t = job[w].token /\ e = job[w].event
    BY <1>0 DEF TypeOK, Jobs
  <2>1. /\ t \in Tokens
        /\ auths[t].event = e
        /\ auths[t].expiresAt > job[w].now
        /\ Tokens' = Tokens
        /\ auths'[t].event = e
        /\ auths'[t].createdAt = auths[t].createdAt
        /\ auths'[t].expiresAt = auths[t].expiresAt
        /\ auths'[t].usedAt = job[w].now
        /\ \A k \in Tokens : k # t => auths'[k].usedAt = auths[k].usedAt
    BY <1>0, <1>4, <2>0, TokenSpent DEF Tokens
  <2>2. /\ e \in Events /\ Eligible(e)
        /\ job[w].now - rows[e].receivedAt <= EventMaxAge
        /\ auths[t].createdAt <= job[w].now
    BY <1>0, <1>4, <2>0, <2>1 DEF ConsumeToken, CarriesEvent, FreshInv, FreshJobs,
                            EventPhases, CommandPhases
  <2>3. job[w].now \in Int /\ auths[t].expiresAt \in Int
    <3>1. auths[t] \in Auths
      BY <1>0, <2>1, ElementOfSeq DEF TypeOK, Tokens
    <3> QED
      BY <1>0, <3>1 DEF TypeOK, Jobs, Auths
  <2>4. job[w].now < auths[t].expiresAt
    BY <2>1, <2>3
  <2>5. Fresh(t)'
    <3>1. e \in Events' /\ rows'[e] = rows[e]
      BY <1>4, <2>2 DEF Events
    <3> QED
      BY <2>1, <2>2, <2>4, <3>1 DEF Eligible
  <2> HIDE DEF Fresh
  <2>6. \A k \in Tokens' : auths'[k].usedAt # None => Fresh(k)'
    BY <1>1, <2>1, <2>5
  <2> QED
    BY <2>6 DEF SpentTokensWereFresh, Fresh
<1> QED
  BY <1>2, <1>3, <1>4, WritesToAuths

LEMMA FreshSound == Spec => []FreshInv
<1>1. Init => FreshInv
  <2>1. Init => SoundTokens /\ SpentTokensWereFresh
    <3> SUFFICES ASSUME auths = <<>> PROVE SoundTokens /\ SpentTokensWereFresh
      BY DEF Init
    <3>1. Tokens = {}
      BY DEF Tokens
    <3> QED
      BY <3>1 DEF SoundTokens, SpentTokensWereFresh
  <2>2. Init => FreshJobs
    <3>1. Idle.phase \notin EventPhases \union CommandPhases
      BY DEF Idle, NewJob, EventPhases, CommandPhases
    <3> QED
      BY <3>1 DEF Init, FreshJobs
  <2> QED
    BY <2>1, <2>2, TypeInit DEF FreshInv
<1>2. FreshInv /\ [Next]_vars => FreshInv'
  BY TypeNext, SoundTokensNext, FreshJobsNext, SpentTokensNext DEF FreshInv
<1> QED
  BY <1>1, <1>2, PTL DEF Spec

(***************************************************************************)
(* A spent token was issued for an event that asks for migration and was   *)
(* used between its issue and its expiry, while that event was no older    *)
(* than event_max_age, though the handler of migrate_command reads the     *)
(* clock once and commits two database transactions later.                 *)
(***************************************************************************)
THEOREM Freshness == Spec => []SpentTokensWereFresh
<1>1. FreshInv => SpentTokensWereFresh
  BY DEF FreshInv
<1> QED
  BY <1>1, FreshSound, PTL

-----------------------------------------------------------------------------
(***************************************************************************)
(* A superseded event is never acted on again.                             *)
(***************************************************************************)

LEMMA LatestIsHead ==
    ASSUME TypeInv, NEW e \in Events, IsLatest(e)
    PROVE  e \in Heads
BY DEF IsLatest, Later, Heads

LEMMA SupersededStays ==
    ASSUME TypeInv, [Next]_vars, NEW e \in Events \ Heads
    PROVE  e \notin Heads'
<1>1. PICK i \in Events :
         /\ rows[i].report.scope = rows[e].report.scope /\ i # e
         /\ ~(\/ rows[i].receivedAt < rows[e].receivedAt
              \/ rows[i].receivedAt = rows[e].receivedAt /\ i < e)
  BY DEF Heads
<1>2. /\ i \in Events' /\ e \in Events'
      /\ rows'[i].report = rows[i].report /\ rows'[i].receivedAt = rows[i].receivedAt
      /\ rows'[e].report = rows[e].report /\ rows'[e].receivedAt = rows[e].receivedAt
  BY EventsAreKept
<1> QED
  BY <1>1, <1>2 DEF Heads

LEMMA NothingForSuperseded ==
    ASSUME TypeInv, [Next]_vars, NEW e \in Events \ Heads
    PROVE  Grants(e)' = Grants(e) /\ Recorded(e)' = Recorded(e)
<1>0. /\ TypeOK /\ CarriesEvent
      /\ Len(auths) \in Nat /\ Len(commands) \in Nat
  BY LenProperties DEF TypeInv, TypeOK
<1>1. CASE UNCHANGED <<auths, commands>>
  BY <1>1 DEF Grants, Recorded, Tokens
<1>2. ASSUME NEW w \in Workers, GrantAuthorization(w), UNCHANGED commands
      PROVE  Grants(e)' = Grants(e) /\ Recorded(e)' = Recorded(e)
  <2>1. job[w].event \in Events /\ IsLatest(job[w].event)
    BY <1>0, <1>2 DEF GrantAuthorization, CarriesEvent, EventPhases
  <2>2. job[w].event # e
    BY <2>1, LatestIsHead
  <2>3. /\ \A k \in Tokens : auths'[k] = auths[k]
        /\ auths'[Len(auths) + 1].event = job[w].event
        /\ Tokens' = Tokens \union {Len(auths) + 1}
    BY <1>0, <1>2, TokenIssued DEF Tokens
  <2> QED
    BY <1>2, <2>2, <2>3 DEF Grants, Recorded
<1>3. ASSUME NEW w \in Workers, ConsumeToken(w)
      PROVE  Grants(e)' = Grants(e) /\ Recorded(e)' = Recorded(e)
  <2>1. job[w].event \in Events /\ IsLatest(job[w].event)
    BY <1>0, <1>3 DEF ConsumeToken, MayConsume, CarriesEvent, EventPhases
  <2>2. job[w].event # e
    BY <2>1, LatestIsHead
  <2>3. /\ \A k \in Tokens : auths'[k].event = auths[k].event
        /\ Len(auths') = Len(auths)
        /\ \A c \in 1..Len(commands) : commands'[c] = commands[c]
        /\ commands'[Len(commands) + 1].event = job[w].event
        /\ Len(commands') = Len(commands) + 1
    BY <1>0, <1>3, TokenSpent
  <2>4. 1..Len(commands') = (1..Len(commands)) \union {Len(commands) + 1}
    BY <1>0, <2>3
  <2> QED
    BY <2>2, <2>3, <2>4 DEF Grants, Recorded, Tokens
<1> QED
  BY <1>1, <1>2, <1>3, WritesToAuths

(***************************************************************************)
(* Once newer telemetry of a vehicle is committed the older event stays    *)
(* superseded, and no authorization and no command is recorded for it from *)
(* then on, also not by a request that was admitted before                 *)
(* (_latest_event_id_for_scope inside both write transactions).            *)
(***************************************************************************)
THEOREM SupersessionIsFinal == Spec => SupersededIsFinal
<1>1. TypeInv /\ [Next]_vars =>
         [\A e \in Events \ Heads :
             e \notin Heads' /\ Grants(e)' = Grants(e) /\ Recorded(e)' = Recorded(e)]_vars
  BY SupersededStays, NothingForSuperseded
<1>2. Init => TypeInv
  BY TypeInit
<1>3. TypeInv /\ [Next]_vars => TypeInv'
  BY TypeNext
<1> QED
  BY <1>1, <1>2, <1>3, PTL DEF Spec, SupersededIsFinal

-----------------------------------------------------------------------------
(***************************************************************************)
(* What was acknowledged is stored.  A message_id is stored once, so the   *)
(* answers about it name one event; a row whose marker says the capture    *)
(* time was provided has one, so it never answers a request without.       *)
(***************************************************************************)

UniqueMessages ==
    \A i, j \in Events : rows[i].report.msg = rows[j].report.msg => i = j

ProvidedHasCapture ==
    \A i \in Events : rows[i].marker = "provided" => rows[i].report.cap # None

\* What AcknowledgedIsStored says of one answer.
AnswerStored(a) ==
    /\ a.event \in Events
    /\ SameContent(rows[a.event].report, a.report)
    /\ a.report.cap \in {rows[a.event].report.cap, None}
    /\ a.report.cap = None => rows[a.event].marker # "provided"

StoredInv ==
    /\ TypeInv
    /\ UniqueMessages
    /\ ProvidedHasCapture
    /\ \A a \in acked : AnswerStored(a)

LEMMA RowsAreTyped ==
    ASSUME TypeOK, NEW e \in Events
    PROVE  /\ rows[e].report \in Reports /\ rows[e].marker \in Markers
           /\ rows[e].receivedAt \in Int
<1>1. rows[e] \in Rows
  BY ElementOfSeq DEF TypeOK, Events
<1> QED
  BY <1>1 DEF Rows

LEMMA SameContentSameMessage ==
    ASSUME NEW r \in Reports, NEW s \in Reports, SameContent(r, s)
    PROVE  r.msg = s.msg
<1>1. /\ [r EXCEPT !.cap = None].msg = r.msg
      /\ [s EXCEPT !.cap = None].msg = s.msg
  BY DEF Reports
<1> QED
  BY <1>1 DEF SameContent

LEMMA WritesToAcked ==
    ASSUME [Next]_vars
    PROVE  \/ UNCHANGED acked
           \/ \E w \in Workers : InsertTelemetry(w)
           \/ \E w \in Workers, e \in Events : AnswerDuplicate(w, e) \/ AdoptRetry(w, e)
<1>1. ASSUME NEW w \in Workers, Step(w)
      PROVE  \/ UNCHANGED acked
             \/ InsertTelemetry(w)
             \/ \E e \in Events : AnswerDuplicate(w, e) \/ AdoptRetry(w, e)
  BY <1>1 DEF Step, SubmitTelemetry, LookUpMessage, StampReceipt, RejectConflict,
              RequestAuthorization, GrantAuthorization, RefuseAuthorization,
              RequestMigration, ValidateToken, CallActuator, ConsumeToken,
              RefuseCommand, RequestFails
<1>2. CASE UNCHANGED vars \/ Tick \/ Crash
  BY <1>2 DEF vars, Tick, Crash
<1> QED
  BY <1>1, <1>2 DEF Next

LEMMA UniqueMessagesNext ==
    ASSUME TypeInv, UniqueMessages, [Next]_vars
    PROVE  UniqueMessages'
<1>0. TypeOK /\ CarriesReport /\ Len(rows) \in Nat
  BY LenProperties DEF TypeInv, TypeOK
<1>1. CASE UNCHANGED rows
  BY <1>1 DEF UniqueMessages, Events
<1>2. ASSUME NEW w \in Workers, InsertTelemetry(w) PROVE UniqueMessages'
  <2>1. /\ \A i \in Events : rows'[i] = rows[i]
        /\ rows'[Len(rows) + 1].report = job[w].report
        /\ Events' = Events \union {Len(rows) + 1}
    BY <1>0, <1>2, RowAppended DEF Events
  <2>2. \A i \in Events : rows[i].report.msg # job[w].report.msg
    BY <1>2 DEF InsertTelemetry, HasMessage
  <2> QED
    BY <2>1, <2>2 DEF UniqueMessages
<1>3. ASSUME NEW w \in Workers, NEW e \in Events, AdoptRetry(w, e)
      PROVE  UniqueMessages'
  BY <1>0, <1>3, MarkerFilled DEF UniqueMessages, Events
<1> QED
  BY <1>1, <1>2, <1>3, WritesToRows

LEMMA ProvidedHasCaptureNext ==
    ASSUME TypeInv, ProvidedHasCapture, [Next]_vars
    PROVE  ProvidedHasCapture'
<1>0. TypeOK /\ CarriesReport /\ Len(rows) \in Nat
  BY LenProperties DEF TypeInv, TypeOK
<1>1. CASE UNCHANGED rows
  BY <1>1 DEF ProvidedHasCapture, Events
<1>2. ASSUME NEW w \in Workers, InsertTelemetry(w) PROVE ProvidedHasCapture'
  <2>1. /\ \A i \in Events : rows'[i] = rows[i]
        /\ rows'[Len(rows) + 1].report = job[w].report
        /\ rows'[Len(rows) + 1].marker =
             IF job[w].report.cap = None THEN "defaulted" ELSE "provided"
        /\ Events' = Events \union {Len(rows) + 1}
    BY <1>0, <1>2, RowAppended DEF Events
  <2> QED
    BY <2>1 DEF ProvidedHasCapture
<1>3. ASSUME NEW w \in Workers, NEW e \in Events, AdoptRetry(w, e)
      PROVE  ProvidedHasCapture'
  BY <1>0, <1>3, MarkerFilled DEF ProvidedHasCapture, Events
<1> QED
  BY <1>1, <1>2, <1>3, WritesToRows

\* Answers given before stay true: rows keep their content, markers only fill in.
LEMMA AnswersStayStored ==
    ASSUME StoredInv, [Next]_vars, NEW a \in acked
    PROVE  AnswerStored(a)'
<1>1. TypeInv /\ AnswerStored(a)
  BY DEF StoredInv
<1>2. /\ a.event \in Events'
      /\ rows'[a.event].report = rows[a.event].report
      /\ rows'[a.event].marker # rows[a.event].marker => rows'[a.event].marker = "defaulted"
  BY <1>1, EventsAreKept DEF AnswerStored
<1> QED
  BY <1>1, <1>2 DEF AnswerStored, SameContent

LEMMA AnswersAreStoredNext ==
    ASSUME StoredInv, [Next]_vars
    PROVE  \A a \in acked' : AnswerStored(a)'
<1>0. /\ TypeInv /\ TypeOK /\ CarriesReport /\ ProvidedHasCapture
      /\ Len(rows) \in Nat
  BY LenProperties DEF StoredInv, TypeInv, TypeOK
<1>1. CASE UNCHANGED acked
  BY <1>1, AnswersStayStored
<1>2. ASSUME NEW w \in Workers, InsertTelemetry(w), NEW a \in acked'
      PROVE  AnswerStored(a)'
  <2> DEFINE n == Len(rows) + 1
  <2>1. CASE a \in acked
    BY <2>1, AnswersStayStored
  <2>2. CASE a = Answer(job[w].report, n)
    <3>1. a.report = job[w].report /\ a.event = n
      BY <2>2 DEF Answer
    <3>2. /\ n \in Events' /\ rows'[n].report = job[w].report
          /\ rows'[n].marker =
               IF job[w].report.cap = None THEN "defaulted" ELSE "provided"
      BY <1>0, <1>2, RowAppended DEF Events
    <3> QED
      BY <3>1, <3>2 DEF AnswerStored, SameContent
  <2> QED
    BY <1>2, <2>1, <2>2 DEF InsertTelemetry
<1>3. ASSUME NEW w \in Workers, NEW e \in Events, AnswerDuplicate(w, e), NEW a \in acked'
      PROVE  AnswerStored(a)'
  <2>1. CASE a \in acked
    BY <2>1, AnswersStayStored
  <2>2. CASE a = Answer(job[w].report, e)
    <3>1. a.report = job[w].report /\ a.event = e
      BY <2>2 DEF Answer
    <3>2. rows[e].report = job[w].report /\ UNCHANGED rows
      BY <1>3 DEF AnswerDuplicate
    <3>3. a.report.cap = None => rows[e].marker # "provided"
      BY <1>0, <3>1, <3>2 DEF ProvidedHasCapture
    <3> QED
      BY <3>1, <3>2, <3>3 DEF AnswerStored, SameContent, Events
  <2> QED
    BY <1>3, <2>1, <2>2 DEF AnswerDuplicate
<1>4. ASSUME NEW w \in Workers, NEW e \in Events, AdoptRetry(w, e), NEW a \in acked'
      PROVE  AnswerStored(a)'
  <2>1. CASE a \in acked
    BY <2>1, AnswersStayStored
  <2>2. CASE a = Answer(job[w].report, e)
    <3>1. a.report = job[w].report /\ a.event = e
      BY <2>2 DEF Answer
    <3>2. /\ rows[e].marker # "provided" /\ job[w].report.cap = None
          /\ SameContent(rows[e].report, job[w].report)
      BY <1>4 DEF AdoptRetry, MatchesRetry
    <3>3. /\ e \in Events' /\ rows'[e].report = rows[e].report
          /\ rows'[e].marker # "provided"
      BY <1>0, <1>4, <3>2, MarkerFilled DEF Events
    <3> QED
      BY <3>1, <3>2, <3>3 DEF AnswerStored, SameContent
  <2> QED
    BY <1>4, <2>1, <2>2 DEF AdoptRetry
<1> QED
  BY <1>1, <1>2, <1>3, <1>4, WritesToAcked

(***************************************************************************)
(* What ingest_telemetry answered 200 or 201 stays stored, with the        *)
(* content that was sent and under one event per message_id, through any   *)
(* retries, conflicts, failures, crashes and rows of the earlier schema    *)
(* (save_telemetry_and_decision, _matches_retry_without_capture).          *)
(***************************************************************************)
THEOREM AcknowledgedStays == Spec => []AcknowledgedIsStored
<1>1. Init => StoredInv
  <2> SUFFICES ASSUME Init PROVE StoredInv
    OBVIOUS
  <2>1. /\ rows \in LegacyTables /\ acked = {}
        /\ \A i \in Events :
              /\ rows[i].marker = "unknown"
              /\ \A j \in Events : rows[i].report.msg = rows[j].report.msg => i = j
    BY DataAssumption DEF Init, Events
  <2> QED
    BY <2>1, TypeInit DEF StoredInv, UniqueMessages, ProvidedHasCapture
<1>2. StoredInv /\ [Next]_vars => StoredInv'
  BY TypeNext, UniqueMessagesNext, ProvidedHasCaptureNext, AnswersAreStoredNext
     DEF StoredInv
<1>3. StoredInv => AcknowledgedIsStored
  <2> SUFFICES ASSUME StoredInv,
                      NEW a \in acked, NEW b \in acked, b.report.msg = a.report.msg
               PROVE  AnswerStored(a) /\ b.event = a.event
    BY DEF StoredInv, AcknowledgedIsStored, AnswerStored
  <2>1. /\ AnswerStored(a) /\ AnswerStored(b) /\ UniqueMessages /\ TypeOK
        /\ a.report \in Reports /\ b.report \in Reports
    BY DEF StoredInv, TypeInv, TypeOK
  <2>2. /\ rows[a.event].report \in Reports
        /\ rows[b.event].report \in Reports
    BY <2>1, RowsAreTyped DEF AnswerStored
  <2>3. rows[a.event].report.msg = a.report.msg /\ rows[b.event].report.msg = b.report.msg
    BY <2>1, <2>2, SameContentSameMessage DEF AnswerStored
  <2> QED
    BY <2>1, <2>3 DEF AnswerStored, UniqueMessages
<1> QED
  BY <1>1, <1>2, <1>3, PTL DEF Spec

-----------------------------------------------------------------------------
(***************************************************************************)
(* No capture time of the future is stored.  The test is waived for known  *)
(* messages and passed by others before the receipt is stamped, so a job   *)
(* that may insert carries one of the two facts with it.                   *)
(***************************************************************************)

CaptureInTime(r, now) == r.cap = None \/ r.cap <= now + FutureTolerance

CheckedCaptures ==
    \A w \in Workers :
        /\ job[w].phase = "stamp" =>
              HasMessage(job[w].report.msg) \/ CaptureInTime(job[w].report, clock)
        /\ job[w].phase = "insert" =>
              HasMessage(job[w].report.msg) \/ CaptureInTime(job[w].report, job[w].now)

CaptureInv == TypeInv /\ CheckedCaptures /\ FutureCaptureNeverStored

LEMMA ClockAdvances ==
    ASSUME TypeOK, [Next]_vars
    PROVE  clock \in Int /\ clock' \in Int /\ clock <= clock'
<1>1. UNCHANGED clock \/ Tick
  BY DEF Next, vars, Crash, Step, SubmitTelemetry, LookUpMessage, StampReceipt,
         InsertTelemetry, AnswerDuplicate, AdoptRetry, RejectConflict,
         RequestAuthorization, GrantAuthorization, RefuseAuthorization,
         RequestMigration, ValidateToken, CallActuator, ConsumeToken, RefuseCommand,
         RequestFails
<1> QED
  BY <1>1 DEF TypeOK, Tick

\* Where a job that may insert comes from.
LEMMA IngestJobs ==
    ASSUME TypeInv, [Next]_vars, NEW v \in Workers, job'[v].phase \in {"stamp", "insert"}
    PROVE  \/ job'[v] = job[v]
           \/ /\ job'[v].phase = "stamp" /\ UNCHANGED clock
              /\ ~CaptureError(job'[v].report, clock)
              /\ job'[v].report \in Reports
           \/ /\ job'[v].phase = "stamp" /\ UNCHANGED rows
              /\ HasMessage(job'[v].report.msg)
           \/ /\ job[v].phase = "stamp" /\ job'[v].phase = "insert"
              /\ job'[v].report = job[v].report
              /\ job'[v].now = clock /\ UNCHANGED rows
<1>0. /\ job \in [Workers -> Jobs] /\ job[v] \in Jobs
      /\ Idle.phase = "idle"
  BY DEF TypeInv, TypeOK, Idle, NewJob
<1>1. CASE UNCHANGED vars \/ Tick
  BY <1>1 DEF vars, Tick
<1>2. CASE Crash
  BY <1>0, <1>2 DEF Crash
<1>3. ASSUME NEW w \in Workers, w # v, Step(w)
      PROVE  job'[v] = job[v]
  <2>1. \E j : job' = [job EXCEPT ![w] = j]
    BY <1>3 DEF Step, SubmitTelemetry, LookUpMessage, StampReceipt, InsertTelemetry,
                AnswerDuplicate, AdoptRetry, RejectConflict, RequestAuthorization,
                GrantAuthorization, RefuseAuthorization, RequestMigration,
                ValidateToken, CallActuator, ConsumeToken, RefuseCommand,
                RequestFails, Start, Advance, Finish
  <2> QED
    BY <1>0, <1>3, <2>1
<1>4. CASE TelemetryStep(v)
  <2>1. ASSUME NEW r \in Reports, SubmitTelemetry(v, r)
        PROVE  /\ job'[v].phase = "stamp" /\ UNCHANGED clock
               /\ ~CaptureError(job'[v].report, clock)
               /\ job'[v].report \in Reports
    BY <1>0, <2>1 DEF SubmitTelemetry, Start, NewJob
  <2>2. ASSUME LookUpMessage(v)
        PROVE  /\ job'[v].phase = "stamp" /\ UNCHANGED rows
               /\ HasMessage(job'[v].report.msg)
    BY <1>0, <2>2 DEF LookUpMessage, Advance, Finish, Jobs
  <2>3. ASSUME StampReceipt(v)
        PROVE  /\ job[v].phase = "stamp" /\ job'[v].phase = "insert"
               /\ job'[v].report = job[v].report
               /\ job'[v].now = clock /\ UNCHANGED rows
    BY <1>0, <2>3 DEF StampReceipt, NewJob
  <2>4. ~Finish(v)
    BY <1>0 DEF Finish
  <2> QED
    BY <1>4, <2>1, <2>2, <2>3, <2>4 DEF TelemetryStep, InsertTelemetry, AnswerDuplicate,
                                        AdoptRetry, RejectConflict
<1>5. CASE RequestFails(v)
  BY <1>0, <1>5 DEF RequestFails, Finish
<1>6. CASE AuthorizationStep(v) \/ CommandStep(v)
  <2>1. job'[v].phase \in {"grant", "validate", "actuate", "consume", "idle"}
    BY <1>0, <1>6 DEF AuthorizationStep, CommandStep, RequestAuthorization,
        GrantAuthorization, RefuseAuthorization, RequestMigration, ValidateToken,
        CallActuator, ConsumeToken, RefuseCommand, Start, Advance, Finish, NewJob, Jobs
  <2> QED
    BY <2>1
<1> QED
  BY <1>1, <1>2, <1>3, <1>4, <1>5, <1>6, StepKinds DEF Next

LEMMA CheckedCapturesNext ==
    ASSUME CaptureInv, [Next]_vars
    PROVE  CheckedCaptures'
<1>0. /\ TypeInv /\ TypeOK /\ CarriesReport /\ CheckedCaptures
      /\ FutureTolerance \in Int /\ Captures \subseteq Int
      /\ clock \in Int /\ clock' \in Int /\ clock <= clock'
  BY ClockAdvances, SettingsAssumption, DataAssumption DEF CaptureInv, TypeInv
<1>1. ASSUME NEW m, HasMessage(m)
      PROVE  \E i \in Events' : rows'[i].report.msg = m
  <2>1. PICK i \in Events : rows[i].report.msg = m
    BY <1>1 DEF HasMessage
  <2>2. i \in Events' /\ rows'[i].report = rows[i].report
    BY <1>0, EventsAreKept
  <2> QED
    BY <2>1, <2>2
<1>2. \A r \in Reports : CaptureInTime(r, clock) => CaptureInTime(r, clock')
  <2>1. \A r \in Reports : r.cap = None \/ r.cap \in Int
    BY <1>0 DEF Reports
  <2> QED
    BY <1>0, <2>1 DEF CaptureInTime
<1> SUFFICES ASSUME NEW v \in Workers, job'[v].phase \in {"stamp", "insert"}
             PROVE  \/ \E i \in Events' : rows'[i].report.msg = job'[v].report.msg
                    \/ job'[v].phase = "stamp" /\ CaptureInTime(job'[v].report, clock')
                    \/ job'[v].phase = "insert" /\ CaptureInTime(job'[v].report, job'[v].now)
  BY DEF CheckedCaptures, CaptureInTime, HasMessage
<1>3. CASE job'[v] = job[v]
  <2>1. job[v].report \in Reports
    BY <1>0, <1>3 DEF CarriesReport, TelemetryPhases
  <2> QED
    BY <1>0, <1>1, <1>2, <1>3, <2>1 DEF CheckedCaptures, CaptureInTime, HasMessage
<1>4. CASE /\ job'[v].phase = "stamp" /\ UNCHANGED clock
           /\ ~CaptureError(job'[v].report, clock)
           /\ job'[v].report \in Reports
  <2>1. job'[v].report.cap = None \/ job'[v].report.cap \in Int
    BY <1>0, <1>4 DEF Reports
  <2> QED
    BY <1>0, <1>4, <2>1 DEF CaptureError, CaptureInTime
<1>5. CASE /\ job'[v].phase = "stamp" /\ UNCHANGED rows
           /\ HasMessage(job'[v].report.msg)
  BY <1>5 DEF HasMessage, Events
<1>6. CASE /\ job[v].phase = "stamp" /\ job'[v].phase = "insert"
           /\ job'[v].report = job[v].report
           /\ job'[v].now = clock /\ UNCHANGED rows
  BY <1>0, <1>6 DEF CheckedCaptures, CaptureInTime, HasMessage, Events
<1> QED
  BY <1>0, <1>3, <1>4, <1>5, <1>6, IngestJobs

LEMMA FutureCaptureNext ==
    ASSUME CaptureInv, [Next]_vars
    PROVE  FutureCaptureNeverStored'
<1>0. /\ TypeInv /\ TypeOK /\ CarriesReport /\ FutureCaptureNeverStored
      /\ Len(rows) \in Nat
  BY LenProperties DEF CaptureInv, TypeInv, TypeOK
<1>1. CASE UNCHANGED rows
  BY <1>0, <1>1 DEF FutureCaptureNeverStored, Events
<1>2. ASSUME NEW w \in Workers, InsertTelemetry(w) PROVE FutureCaptureNeverStored'
  <2>1. /\ \A i \in Events : rows'[i] = rows[i]
        /\ rows'[Len(rows) + 1].report = job[w].report
        /\ rows'[Len(rows) + 1].marker =
             IF job[w].report.cap = None THEN "defaulted" ELSE "provided"
        /\ rows'[Len(rows) + 1].receivedAt = job[w].now
        /\ Events' = Events \union {Len(rows) + 1}
    BY <1>0, <1>2, RowAppended DEF Events
  <2>2. CaptureInTime(job[w].report, job[w].now)
    BY <1>2 DEF InsertTelemetry, CaptureInv, CheckedCaptures
  <2> QED
    BY <1>0, <2>1, <2>2 DEF FutureCaptureNeverStored, CaptureInTime
<1>3. ASSUME NEW w \in Workers, NEW e \in Events, AdoptRetry(w, e)
      PROVE  FutureCaptureNeverStored'
  BY <1>0, <1>3, MarkerFilled DEF FutureCaptureNeverStored, Events
<1> QED
  BY <1>1, <1>2, <1>3, WritesToRows

(***************************************************************************)
(* No reading is stored whose explicit captured_at was further ahead of    *)
(* its receipt than the tolerance, though _capture_time_error is tested by *)
(* another clock reading than the receipt is stamped with, is waived for   *)
(* known messages, and other requests insert in between.                   *)
(***************************************************************************)
THEOREM NoFutureCapture == Spec => []FutureCaptureNeverStored
<1>1. Init => CaptureInv
  <2> SUFFICES ASSUME Init PROVE CaptureInv
    OBVIOUS
  <2>1. \A i \in Events : rows[i].marker = "unknown"
    BY DataAssumption DEF Init, Events
  <2>2. \A w \in Workers : job[w].phase = "idle"
    BY DEF Init, Idle, NewJob
  <2> QED
    BY <2>1, <2>2, TypeInit DEF CaptureInv, CheckedCaptures, FutureCaptureNeverStored
<1>2. CaptureInv /\ [Next]_vars => CaptureInv'
  BY TypeNext, CheckedCapturesNext, FutureCaptureNext DEF CaptureInv
<1>3. CaptureInv => FutureCaptureNeverStored
  BY DEF CaptureInv
<1> QED
  BY <1>1, <1>2, <1>3, PTL DEF Spec

-----------------------------------------------------------------------------
(***************************************************************************)
(* Of the events of a vehicle one is the latest.  The abstract authority   *)
(* needs it when telemetry is committed late: it is retired by an event    *)
(* that is live.                                                           *)
(***************************************************************************)

ScopesHaveLatest ==
    \A e \in Events : \E f \in Events :
        IsLatest(f) /\ rows[f].report.scope = rows[e].report.scope

LEMMA LeastNatural ==
    ASSUME NEW T, T \subseteq Nat, T # {}
    PROVE  \E n \in T : \A k \in T : n <= k
<1> DEFINE R == {pair \in Nat \X Nat : pair[1] < pair[2]}
<1>1. IsWellFoundedOn(R, Nat)
  BY NatLessThanWellFounded, Zenon DEF OpToRel
<1> HIDE DEF R
<1>2. PICK n \in T : \A k \in T : ~ (<<k, n>> \in R)
  BY <1>1, WFMin
<1>3. \A k \in T : <<k, n>> \in R <=> k < n
  BY DEF R
<1>4. \A k \in T : k \in Nat /\ ~ (k < n)
  BY <1>2, <1>3
<1> QED
  BY <1>4

LEMMA LaterIsTotal ==
    ASSUME TypeOK, NEW e \in Events, NEW f \in Events, e # f
    PROVE  Later(e, f) <=> ~Later(f, e)
<1>1. rows[e].receivedAt \in Int /\ rows[f].receivedAt \in Int
  BY RowsAreTyped
<1>2. e \in Int /\ f \in Int
  BY LenProperties DEF TypeOK, Events
<1> QED
  BY <1>1, <1>2 DEF Later

\* An old table is finite and of the past: it has a latest event.
LEMMA LegacyHasLatest ==
    ASSUME Init
    PROVE  ScopesHaveLatest
<1>0. /\ TypeOK /\ Len(rows) \in Nat
      /\ \A i \in Events : rows[i].receivedAt <= 0
  BY TypeInit, LenProperties, DataAssumption DEF TypeInv, TypeOK, Init, Events
<1> SUFFICES ASSUME NEW e \in Events
             PROVE  \E f \in Events :
                       IsLatest(f) /\ rows[f].report.scope = rows[e].report.scope
  BY DEF ScopesHaveLatest
<1> DEFINE Peers == {f \in Events : rows[f].report.scope = rows[e].report.scope}
           Ages == {0 - rows[f].receivedAt : f \in Peers}
<1>1. Ages \subseteq Nat /\ Ages # {}
  <2>1. ASSUME NEW f \in Events PROVE 0 - rows[f].receivedAt \in Nat
    <3>1. rows[f].receivedAt \in Int
      BY <1>0, RowsAreTyped
    <3> QED
      BY <1>0, <3>1
  <2>2. ASSUME NEW a \in Ages PROVE a \in Nat
    <3>1. PICK f \in Peers : a = 0 - rows[f].receivedAt
      OBVIOUS
    <3> QED
      BY <2>1, <3>1
  <2>3. 0 - rows[e].receivedAt \in Ages
    OBVIOUS
  <2> QED
    BY <2>2, <2>3
<1>2. PICK g \in Peers : \A f \in Peers : 0 - rows[g].receivedAt <= 0 - rows[f].receivedAt
  <2>1. \E a \in Ages : \A b \in Ages : a <= b
    <3> HIDE DEF Ages
    <3> QED
      BY <1>1, LeastNatural
  <2>2. PICK g \in Peers : \A b \in Ages : 0 - rows[g].receivedAt <= b
    BY <2>1
  <2>3. \A f \in Peers : 0 - rows[f].receivedAt \in Ages
    OBVIOUS
  <2> QED
    BY <2>2, <2>3
<1> DEFINE Youngest == {f \in Peers : rows[f].receivedAt = rows[g].receivedAt}
           Distances == {Len(rows) - f : f \in Youngest}
<1>3. Distances \subseteq Nat /\ Distances # {}
  <2>1. \A f \in Events : Len(rows) - f \in Nat
    BY <1>0 DEF Events
  <2>2. ASSUME NEW d \in Distances PROVE d \in Nat
    <3>1. PICK f \in Youngest : d = Len(rows) - f
      OBVIOUS
    <3> QED
      BY <2>1, <3>1
  <2>3. Len(rows) - g \in Distances
    BY <1>2
  <2> QED
    BY <2>2, <2>3
<1>4. PICK h \in Youngest : \A f \in Youngest : Len(rows) - h <= Len(rows) - f
  <2>1. \E a \in Distances : \A b \in Distances : a <= b
    <3> HIDE DEF Distances
    <3> QED
      BY <1>3, LeastNatural
  <2>2. PICK h \in Youngest : \A b \in Distances : Len(rows) - h <= b
    BY <2>1
  <2>3. \A f \in Youngest : Len(rows) - f \in Distances
    OBVIOUS
  <2> QED
    BY <2>2, <2>3
<1>5. ASSUME NEW i \in Peers, i # h PROVE Later(h, i)
  <2>1. /\ rows[i].receivedAt \in Int /\ rows[g].receivedAt \in Int
        /\ rows[h].receivedAt = rows[g].receivedAt
        /\ i \in Int /\ h \in Int
    BY <1>0, <1>2, <1>4, RowsAreTyped DEF Events
  <2>2. rows[i].receivedAt <= rows[h].receivedAt
    BY <1>2, <2>1
  <2>3. rows[i].receivedAt = rows[h].receivedAt => i <= h
    BY <1>0, <1>4, <2>1
  <2> QED
    BY <1>5, <2>1, <2>2, <2>3 DEF Later
<1> QED
  BY <1>4, <1>5 DEF IsLatest

\* Nothing but receipt times and scopes decides which event is the latest.
LEMMA LatestIsKept ==
    ASSUME Events' = Events,
           \A i \in Events : /\ rows'[i].report = rows[i].report
                             /\ rows'[i].receivedAt = rows[i].receivedAt
    PROVE  \A e \in Events : IsLatest(e)' <=> IsLatest(e)
BY DEF IsLatest, Later

\* A new event becomes the latest of its vehicle, or that one stays the latest.
LEMMA InsertedEvent ==
    ASSUME TypeInv, TypeOK', ScopesHaveLatest, NEW w \in Workers, InsertTelemetry(w),
           NEW n, n = Len(rows) + 1
    PROVE  \/ /\ IsLatest(n)'
              /\ \A e \in Events :
                    IsLatest(e)' <=>
                       IsLatest(e) /\ rows[e].report.scope # rows'[n].report.scope
           \/ /\ ~IsLatest(n)'
              /\ \A e \in Events : IsLatest(e)' <=> IsLatest(e)
              /\ \E f \in Events :
                    IsLatest(f) /\ rows[f].report.scope = rows'[n].report.scope
<1>0. /\ TypeOK /\ CarriesReport /\ Len(rows) \in Nat
      /\ Events' = Events \union {n} /\ n \notin Events
      /\ \A i \in Events : rows'[i] = rows[i]
  BY RowAppended, LenProperties DEF TypeInv, TypeOK, Events
<1>1. \A e, f \in Events : Later(e, f)' <=> Later(e, f)
  BY <1>0 DEF Later
<1>t. \A i \in Events \union {n} : rows'[i].receivedAt \in Int /\ i \in Int
  <2>1. ASSUME NEW i \in Events \union {n} PROVE rows'[i] \in Rows /\ i \in Int
    BY <1>0, ElementOfSeq, LenProperties DEF TypeOK, Events
  <2> QED
    BY <2>1 DEF Rows
<1>2. \A e \in Events : Later(e, n)' <=> ~Later(n, e)'
  BY <1>0, <1>t DEF Later
<1>3. \A e, f \in Events : Later(n, e)' /\ Later(e, f)' => Later(n, f)'
  BY <1>0, <1>t DEF Later
<1>4. \A e \in Events :
         IsLatest(e)' <=>
            /\ IsLatest(e)
            /\ rows[e].report.scope = rows'[n].report.scope => Later(e, n)'
  BY <1>0, <1>1 DEF IsLatest
<1>5. CASE IsLatest(n)'
  <2>1. \A e \in Events : rows[e].report.scope = rows'[n].report.scope => Later(n, e)'
    BY <1>0, <1>5 DEF IsLatest
  <2> QED
    BY <1>2, <1>4, <1>5, <2>1
<1>6. CASE ~IsLatest(n)'
  <2>1. PICK i \in Events :
           rows[i].report.scope = rows'[n].report.scope /\ ~Later(n, i)'
    BY <1>0, <1>6 DEF IsLatest
  <2>2. PICK f \in Events : IsLatest(f) /\ rows[f].report.scope = rows[i].report.scope
    BY DEF ScopesHaveLatest
  <2>3. Later(f, n)'
    <3>1. f = i \/ Later(f, i)
      BY <2>2 DEF IsLatest
    <3> QED
      BY <1>1, <1>2, <1>3, <2>1, <3>1
  <2>4. ASSUME NEW e \in Events, IsLatest(e),
               rows[e].report.scope = rows'[n].report.scope
        PROVE  e = f
    BY <1>0, <2>1, <2>2, <2>4, LaterIsTotal DEF IsLatest
  <2> QED
    BY <1>4, <1>6, <2>1, <2>2, <2>3, <2>4
<1> QED
  BY <1>5, <1>6

LEMMA ScopesHaveLatestNext ==
    ASSUME TypeInv, TypeInv', ScopesHaveLatest, [Next]_vars
    PROVE  ScopesHaveLatest'
<1>0. TypeOK /\ TypeOK' /\ CarriesReport /\ Len(rows) \in Nat
  BY LenProperties DEF TypeInv, TypeOK
<1>1. CASE UNCHANGED rows
  BY <1>1 DEF ScopesHaveLatest, IsLatest, Later, Events
<1>2. ASSUME NEW w \in Workers, InsertTelemetry(w) PROVE ScopesHaveLatest'
  <2>0. PICK n : n = Len(rows) + 1
    OBVIOUS
  <2>1. Events' = Events \union {n} /\ \A i \in Events : rows'[i] = rows[i]
    BY <1>0, <1>2, <2>0, RowAppended DEF Events
  <2>2. \/ /\ IsLatest(n)'
           /\ \A e \in Events :
                 IsLatest(e)' <=>
                    IsLatest(e) /\ rows[e].report.scope # rows'[n].report.scope
        \/ /\ \A e \in Events : IsLatest(e)' <=> IsLatest(e)
           /\ \E f \in Events :
                 IsLatest(f) /\ rows[f].report.scope = rows'[n].report.scope
    BY <1>0, <1>2, <2>0, InsertedEvent
  <2> QED
    BY <2>1, <2>2 DEF ScopesHaveLatest
<1>3. ASSUME NEW w \in Workers, NEW e \in Events, AdoptRetry(w, e)
      PROVE  ScopesHaveLatest'
  <2>1. /\ Events' = Events
        /\ \A i \in Events : /\ rows'[i].report = rows[i].report
                             /\ rows'[i].receivedAt = rows[i].receivedAt
    BY <1>0, <1>3, MarkerFilled DEF Events
  <2> QED
    BY <2>1, LatestIsKept DEF ScopesHaveLatest
<1> QED
  BY <1>1, <1>2, <1>3, WritesToRows

-----------------------------------------------------------------------------
(***************************************************************************)
(* The abstract state, each variable with a name of its own.               *)
(***************************************************************************)

Known == {EventRecord(e) : e \in Events}

Retired == {EventRecord(e) : e \in {i \in Events : ~IsLatest(i)}}

Granted == {[token |-> k, event |-> auths[k].event] : k \in Tokens}

Spent == {k \in Tokens : auths[k].usedAt # None}

AuthorityInv ==
    /\ TypeInv
    /\ ScopesHaveLatest
    /\ Len(rows) <= MaxRows
    /\ Len(auths) <= MaxTokens

LEMMA EventRecordIsOfEvents ==
    ASSUME NEW e \in Events
    PROVE  /\ EventRecord(e) \in Known
           /\ EventRecord(e) \in Retired <=> ~IsLatest(e)
<1>1. \A i : EventRecord(i) = EventRecord(e) => i = e
  BY DEF EventRecord
<1> QED
  BY <1>1 DEF Known, Retired

LEMMA AuthorityInit == Init => Authority!Init
<1> SUFFICES ASSUME Init PROVE Authority!Init
  OBVIOUS
<1>0. TypeOK /\ ScopesHaveLatest /\ Len(rows) \in Nat /\ Len(rows) <= MaxRows
  BY TypeInit, LegacyHasLatest, LenProperties, DataAssumption DEF TypeInv, TypeOK, Init
<1>1. Known \subseteq Authority!EventOf
  <2>1. ASSUME NEW e \in Events PROVE EventRecord(e) \in Authority!EventOf
    <3>1. e \in 1..MaxRows
      BY <1>0, DataAssumption DEF Events
    <3>2. rows[e].report.scope \in Scopes
      BY <1>0, RowsAreTyped DEF Reports
    <3> QED
      BY <3>1, <3>2 DEF EventRecord, Authority!EventOf
  <2> QED
    BY <2>1 DEF Known
<1>2. Retired \subseteq Known
  BY DEF Retired, Known
<1>3. ASSUME NEW a \in Known \ Retired, NEW b \in Known \ Retired, a.scope = b.scope
      PROVE  a = b
  <2>1. PICK e \in Events : a = EventRecord(e)
    BY DEF Known
  <2>2. PICK f \in Events : b = EventRecord(f)
    BY DEF Known
  <2>3. IsLatest(e) /\ IsLatest(f) /\ rows[e].report.scope = rows[f].report.scope
    BY <1>3, <2>1, <2>2, EventRecordIsOfEvents DEF EventRecord
  <2>4. e = f
    BY <1>0, <2>3, LaterIsTotal DEF IsLatest
  <2> QED
    BY <2>1, <2>2, <2>4
<1>4. \A a, b \in Known : a.id = b.id => a = b
  BY DEF Known, EventRecord
<1>5. Granted = {} /\ Spent = {}
  BY DEF Init, Granted, Spent, Tokens
<1> QED
  BY <1>1, <1>2, <1>3, <1>4, <1>5
  DEF Authority!Init, Authority!Live, Known, Retired, Granted, Spent

-----------------------------------------------------------------------------
(***************************************************************************)
(* Steps.                                                                  *)
(***************************************************************************)

LEMMA SameEvents ==
    ASSUME Events' = Events,
           \A i \in Events : /\ rows'[i].report = rows[i].report
                             /\ rows'[i].receivedAt = rows[i].receivedAt
    PROVE  Known' = Known /\ Retired' = Retired
<1>1. \A e \in Events : IsLatest(e)' <=> IsLatest(e)
  BY LatestIsKept
<1>2. \A e \in Events : EventRecord(e)' = EventRecord(e)
  BY DEF EventRecord
<1>3. Known' = Known
  BY <1>2 DEF Known
<1>4. Retired' = Retired
  BY <1>1, <1>2 DEF Retired
<1> QED
  BY <1>3, <1>4

LEMMA SameTokens == UNCHANGED auths => Granted' = Granted /\ Spent' = Spent
BY DEF Granted, Spent, Tokens

LEMMA InsertObserves ==
    ASSUME AuthorityInv, TypeOK', NEW w \in Workers, InsertTelemetry(w), UNCHANGED auths
    PROVE  \E a \in Authority!EventOf : Authority!Observe(a)
<1>0. /\ TypeInv /\ TypeOK /\ CarriesReport /\ ScopesHaveLatest
      /\ Len(rows) \in Nat /\ Len(rows) < MaxRows
  BY LenProperties DEF AuthorityInv, TypeInv, TypeOK, InsertTelemetry
<1>1. PICK n : n = Len(rows) + 1
  OBVIOUS
<1> DEFINE new == [id |-> n, scope |-> rows'[n].report.scope]
           Replaced == {a \in Known \ Retired : a.scope = new.scope}
<1>2. /\ Events' = Events \union {n} /\ n \notin Events
      /\ \A i \in Events : rows'[i] = rows[i]
  BY <1>0, <1>1, RowAppended DEF Events
<1>3. new \in Authority!EventOf
  <2>1. n \in 1..MaxRows
    BY <1>0, <1>1, DataAssumption
  <2>2. rows'[n].report = job[w].report /\ job[w].report \in Reports
    BY <1>0, <1>1, RowAppended DEF InsertTelemetry, CarriesReport, TelemetryPhases
  <2> QED
    BY <2>1, <2>2 DEF Authority!EventOf, Reports
<1>4. \A a \in Known : a.id # new.id
  BY <1>2 DEF Known, EventRecord
<1>5. \A e \in Events : EventRecord(e)' = EventRecord(e)
  BY <1>2 DEF EventRecord
<1>6. EventRecord(n)' = new
  BY DEF EventRecord
<1>7. Known' = Known \union {new}
  BY <1>2, <1>5, <1>6 DEF Known
<1>8. \/ Retired' = Retired \union Replaced
      \/ Replaced # {} /\ Retired' = Retired \union {new}
  <2>1. CASE /\ IsLatest(n)'
             /\ \A e \in Events :
                   IsLatest(e)' <=>
                      IsLatest(e) /\ rows[e].report.scope # rows'[n].report.scope
    <3>1. ASSUME NEW e \in Events
          PROVE  EventRecord(e) \in Replaced
                   <=> IsLatest(e) /\ rows[e].report.scope = rows'[n].report.scope
      BY EventRecordIsOfEvents DEF EventRecord
    <3>2. \A a \in Retired' : a \in Retired \union Replaced
      BY <1>2, <1>5, <2>1, <3>1, EventRecordIsOfEvents DEF Retired
    <3>3. \A a \in Retired \union Replaced : \E e \in Events :
             a = EventRecord(e) /\ ~IsLatest(e)'
      BY <2>1, <3>1, EventRecordIsOfEvents DEF Retired, Known
    <3>4. \A a \in Retired \union Replaced : a \in Retired'
      BY <1>2, <1>5, <3>3 DEF Retired
    <3> QED
      BY <3>2, <3>4
  <2>2. CASE /\ ~IsLatest(n)'
             /\ \A e \in Events : IsLatest(e)' <=> IsLatest(e)
             /\ \E f \in Events :
                   IsLatest(f) /\ rows[f].report.scope = rows'[n].report.scope
    <3>1. Replaced # {}
      <4>1. PICK f \in Events :
               IsLatest(f) /\ rows[f].report.scope = rows'[n].report.scope
        BY <2>2
      <4>2. EventRecord(f) \in Known /\ EventRecord(f) \notin Retired
        BY <4>1, EventRecordIsOfEvents
      <4>3. EventRecord(f).scope = new.scope
        BY <4>1 DEF EventRecord
      <4> QED
        BY <4>2, <4>3
    <3>2. Retired' = Retired \union {new}
      BY <1>2, <1>5, <1>6, <2>2 DEF Retired
    <3> QED
      BY <3>1, <3>2
  <2> QED
    BY <1>0, <1>1, <2>1, <2>2, InsertedEvent
<1>9. Granted' = Granted /\ Spent' = Spent
  BY SameTokens
<1> QED
  BY <1>3, <1>4, <1>7, <1>8, <1>9
  DEF Authority!Observe, Authority!LiveIn, Authority!Live, Known, Retired, Granted, Spent

\* The event a job names is a live one of the abstract authority.
LEMMA LatestIsLive ==
    ASSUME NEW e \in Events, IsLatest(e)
    PROVE  EventRecord(e) \in Authority!Live /\ EventRecord(e).id = e
<1>1. EventRecord(e) \in Known /\ EventRecord(e) \notin Retired
  BY EventRecordIsOfEvents
<1> QED
  BY <1>1 DEF Authority!Live, Known, Retired, EventRecord

LEMMA GrantGrants ==
    ASSUME AuthorityInv, NEW w \in Workers, GrantAuthorization(w), UNCHANGED rows
    PROVE  \E k \in 1..MaxTokens, a \in Authority!Live : Authority!Grant(k, a)
<1>0. /\ TypeOK /\ CarriesEvent /\ Len(auths) \in Nat
      /\ IsLatest(job[w].event) /\ job[w].event \in Events
      /\ Len(auths) < MaxTokens
  BY LenProperties DEF AuthorityInv, TypeInv, TypeOK, CarriesEvent, EventPhases,
                       GrantAuthorization
<1>1. PICK n : n = Len(auths) + 1
  OBVIOUS
<1>2. /\ Tokens' = Tokens \union {n} /\ n \notin Tokens
      /\ \A k \in Tokens : auths'[k] = auths[k]
      /\ auths'[n].event = job[w].event /\ auths'[n].usedAt = None
  BY <1>0, <1>1, TokenIssued DEF Tokens
<1>3. n \in 1..MaxTokens
  BY <1>0, <1>1, DataAssumption
<1>4. EventRecord(job[w].event) \in Authority!Live
      /\ EventRecord(job[w].event).id = job[w].event
  BY <1>0, LatestIsLive
<1>5. \A g \in Granted : g.token # n
  BY <1>2 DEF Granted
<1>6. Granted' = Granted \union {[token |-> n, event |-> job[w].event]}
  BY <1>2 DEF Granted
<1>7. Spent' = Spent
  BY <1>2 DEF Spent
<1>8. Known' = Known /\ Retired' = Retired
  BY SameEvents DEF Events
<1> QED
  BY <1>3, <1>4, <1>5, <1>6, <1>7, <1>8
  DEF Authority!Grant, Known, Retired, Granted, Spent

LEMMA ConsumeSpends ==
    ASSUME AuthorityInv, NEW w \in Workers, ConsumeToken(w), UNCHANGED rows
    PROVE  \E k \in 1..MaxTokens, a \in Authority!Live : Authority!Spend(k, a)
<1>0. /\ TypeOK /\ CarriesEvent /\ Len(auths) \in Nat
      /\ IsLatest(job[w].event) /\ job[w].event \in Events /\ job[w].now \in Int
      /\ Len(auths) <= MaxTokens
  BY LenProperties DEF AuthorityInv, TypeInv, TypeOK, CarriesEvent, EventPhases,
                       ConsumeToken, MayConsume, Jobs
<1>1. PICK k \in Tokens : k = job[w].token
  BY <1>0, TokenSpent
<1>2. /\ Tokens' = Tokens
      /\ \A i \in Tokens :
            /\ auths'[i].event = auths[i].event
            /\ auths'[i].usedAt = IF i = k THEN job[w].now ELSE auths[i].usedAt
      /\ auths[k].event = job[w].event /\ auths[k].usedAt = None
  BY <1>0, <1>1, TokenSpent DEF Tokens
<1>3. k \in 1..MaxTokens
  BY <1>0, DataAssumption DEF Tokens
<1>4. EventRecord(job[w].event) \in Authority!Live
      /\ EventRecord(job[w].event).id = job[w].event
  BY <1>0, LatestIsLive
<1>5. [token |-> k, event |-> job[w].event] \in Granted /\ k \notin Spent
  BY <1>2 DEF Granted, Spent
<1>6. Spent' = Spent \union {k}
  BY <1>0, <1>2, DataAssumption DEF Spent
<1>7. Granted' = Granted
  BY <1>2 DEF Granted
<1>8. Known' = Known /\ Retired' = Retired
  BY SameEvents DEF Events
<1> QED
  BY <1>3, <1>4, <1>5, <1>6, <1>7, <1>8
  DEF Authority!Spend, Known, Retired, Granted, Spent

\* The tables stay within the bounds of the instance.
LEMMA BoundsNext ==
    ASSUME AuthorityInv, [Next]_vars
    PROVE  Len(rows') <= MaxRows /\ Len(auths') <= MaxTokens
<1>0. /\ TypeOK /\ CarriesReport /\ CarriesEvent
      /\ Len(rows) \in Nat /\ Len(rows) <= MaxRows
      /\ Len(auths) \in Nat /\ Len(auths) <= MaxTokens
  BY LenProperties DEF AuthorityInv, TypeInv, TypeOK
<1>1. ASSUME NEW w \in Workers, InsertTelemetry(w) PROVE Len(rows') <= MaxRows
  BY <1>0, <1>1, RowAppended, DataAssumption DEF InsertTelemetry
<1>2. ASSUME NEW w \in Workers, NEW e \in Events, AdoptRetry(w, e)
      PROVE  Len(rows') <= MaxRows
  BY <1>0, <1>2, MarkerFilled
<1>3. ASSUME NEW w \in Workers, GrantAuthorization(w) PROVE Len(auths') <= MaxTokens
  BY <1>0, <1>3, TokenIssued, DataAssumption DEF GrantAuthorization
<1>4. ASSUME NEW w \in Workers, ConsumeToken(w) PROVE Len(auths') <= MaxTokens
  BY <1>0, <1>4, TokenSpent
<1> QED
  BY <1>0, <1>1, <1>2, <1>3, <1>4, WritesToRows, WritesToAuths

LEMMA StepsImplement ==
    ASSUME AuthorityInv, TypeInv', [Next]_vars
    PROVE  [Authority!Next]_(Authority!authority)
<1>0. TypeOK /\ TypeOK'
  BY DEF AuthorityInv, TypeInv
<1>1. CASE UNCHANGED <<rows, auths>>
  <2>1. Known' = Known /\ Retired' = Retired
    BY <1>1, SameEvents DEF Events
  <2>2. Granted' = Granted /\ Spent' = Spent
    BY <1>1, SameTokens
  <2> QED
    BY <2>1, <2>2 DEF Authority!authority, Known, Retired, Granted, Spent
<1>2. ASSUME NEW w \in Workers, InsertTelemetry(w), UNCHANGED auths
      PROVE  Authority!Next
  BY <1>0, <1>2, InsertObserves DEF Authority!Next
<1>3. ASSUME NEW w \in Workers, NEW e \in Events, AdoptRetry(w, e), UNCHANGED auths
      PROVE  UNCHANGED Authority!authority
  <2>1. Known' = Known /\ Retired' = Retired
    BY <1>0, <1>3, MarkerFilled, SameEvents DEF Events
  <2>2. Granted' = Granted /\ Spent' = Spent
    BY <1>3, SameTokens
  <2> QED
    BY <2>1, <2>2 DEF Authority!authority, Known, Retired, Granted, Spent
<1>4. ASSUME NEW w \in Workers, GrantAuthorization(w), UNCHANGED rows
      PROVE  Authority!Next
  BY <1>4, GrantGrants DEF Authority!Next
<1>5. ASSUME NEW w \in Workers, ConsumeToken(w), UNCHANGED rows
      PROVE  Authority!Next
  BY <1>5, ConsumeSpends DEF Authority!Next
<1> QED
  BY <1>1, <1>2, <1>3, <1>4, <1>5, WritesToRows, WritesToAuths

(***************************************************************************)
(* The evidence chain implements the abstract authority: whatever handlers *)
(* interleave, fail or crash, a vehicle has at most one live event, tokens *)
(* are granted for live events and spent once while their event is live,   *)
(* and an event that newer telemetry replaced never comes back.            *)
(***************************************************************************)
THEOREM ChainImplementsAuthority == Spec => ImplementsAuthority
<1>1. Init => AuthorityInv
  <2> SUFFICES ASSUME Init PROVE AuthorityInv
    OBVIOUS
  <2>1. TypeInv /\ ScopesHaveLatest
    BY TypeInit, LegacyHasLatest
  <2>2. Len(rows) <= MaxRows /\ Len(auths) <= MaxTokens
    BY DataAssumption DEF Init
  <2> QED
    BY <2>1, <2>2 DEF AuthorityInv
<1>2. AuthorityInv /\ [Next]_vars => AuthorityInv'
  <2> SUFFICES ASSUME AuthorityInv, [Next]_vars PROVE AuthorityInv'
    OBVIOUS
  <2>1. TypeInv'
    BY TypeNext DEF AuthorityInv
  <2>2. ScopesHaveLatest'
    BY <2>1, ScopesHaveLatestNext DEF AuthorityInv
  <2> QED
    BY <2>1, <2>2, BoundsNext DEF AuthorityInv
<1>3. AuthorityInv /\ AuthorityInv' /\ [Next]_vars => [Authority!Next]_(Authority!authority)
  BY StepsImplement DEF AuthorityInv
<1> QED
  BY <1>1, <1>2, <1>3, AuthorityInit, PTL DEF Spec, ImplementsAuthority, Authority!Spec
=============================================================================
