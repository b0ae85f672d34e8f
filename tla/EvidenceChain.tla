--------------------------- MODULE EvidenceChain ----------------------------
(***************************************************************************)
(* The server's evidence chain: telemetry -> decision -> authorization ->  *)
(* recorded command.  Handlers of backend/app/main.py run concurrently in  *)
(* a thread pool over the SQLite tables of backend/app/database.py.        *)
(*                                                                         *)
(* A handler is a job that goes through phases; a phase ends at the next   *)
(* read of the clock or of the database.  A transaction opened with BEGIN  *)
(* IMMEDIATE is one step, because SQLite admits one writer at a time and   *)
(* commits or rolls back as a whole.  A request answered with an error on  *)
(* entry changes nothing and is not a step.                                *)
(***************************************************************************)
EXTENDS Integers, Sequences

CONSTANTS
    Workers,            \* threads that serve requests
    Messages,           \* message_id values
    Scopes,             \* (site_id, vehicle_id) pairs
    Bodies,             \* the readings of a telemetry message
    Captures,           \* explicit captured_at values
    None,               \* an absent value: SQL NULL, a field left out
    Verdict,            \* the decision code evaluate_decision gives a body
    AuthorizationTtl,   \* settings.authorization_ttl_seconds
    EventMaxAge,        \* settings.event_max_age_seconds
    CaptureMaxAge,      \* settings.capture_max_age_seconds
    FutureTolerance,    \* settings.capture_future_tolerance_seconds
    ActuatorMode,       \* settings.actuator_mode
    LegacyTables,       \* telemetry tables left by an earlier schema
    MaxClock, MaxRows, MaxTokens \* bounds of an instance

\* What a client sends; cap is None when captured_at is left out.
Reports ==
    [msg: Messages, scope: Scopes, body: Bodies, cap: Captures \union {None}]

Markers == {"provided", "defaulted", "unknown"}

\* report is what the stored input_sha256 covers.
Rows == [report: Reports, marker: Markers, receivedAt: Int]

\* The assumptions are those Settings.validate enforces at start-up.
ASSUME SettingsAssumption ==
    /\ AuthorizationTtl \in Nat \ {0}
    /\ EventMaxAge \in Nat /\ EventMaxAge >= AuthorizationTtl
    /\ CaptureMaxAge \in Nat \ {0}
    /\ FutureTolerance \in Nat
    /\ ActuatorMode \in {"disabled", "record-only"}

\* An old table has rows of the past only, one per message_id; the added
\* column captured_at_provided is NULL and the hash covers a captured_at.
ASSUME DataAssumption ==
    /\ Captures \subseteq Int /\ None \notin Int /\ None \notin Reports
    /\ Verdict \in [Bodies -> STRING]
    /\ MaxClock \in Nat /\ MaxRows \in Nat /\ MaxTokens \in Nat
    /\ LegacyTables \subseteq Seq(Rows)
    /\ \A table \in LegacyTables : Len(table) <= MaxRows
    /\ \A table \in LegacyTables : \A i \in 1..Len(table) :
          /\ table[i].marker = "unknown"
          /\ table[i].report.cap # None
          /\ table[i].receivedAt <= 0
          /\ \A j \in 1..Len(table) :
                table[i].report.msg = table[j].report.msg => i = j

VARIABLES
    clock,     \* the server's UTC clock
    rows,      \* telemetry joined with decisions; the index is rowid and event_id
    auths,     \* authorizations; the index stands for the token
    commands,  \* commands
    job,       \* what each worker is doing
    acked      \* history: what every 200 or 201 on telemetry was about

vars == <<clock, rows, auths, commands, job, acked>>

Events == 1..Len(rows)

Tokens == 1..Len(auths)

-----------------------------------------------------------------------------
(***************************************************************************)
(* Jobs.                                                                   *)
(***************************************************************************)

Phases ==
    {"idle", "lookup", "stamp", "insert", "grant", "validate", "actuate", "consume"}

\* now is the one clock reading a handler keeps in a local variable.
NewJob(phase, report, event, token, now) ==
    [phase |-> phase, report |-> report, event |-> event, token |-> token, now |-> now]

Idle == NewJob("idle", None, 0, 0, 0)

Start(w, j) == job[w].phase = "idle" /\ job' = [job EXCEPT ![w] = j]

Advance(w, to) == job' = [job EXCEPT ![w].phase = to]

Finish(w) == job' = [job EXCEPT ![w] = Idle]

-----------------------------------------------------------------------------
(***************************************************************************)
(* Predicates over the tables.                                             *)
(***************************************************************************)

\* Mutation: captured_at ahead of the server clock is accepted.
CaptureErrorAgeOnly(r, now) == r.cap # None /\ now - r.cap > CaptureMaxAge

\* _capture_time_error
CaptureError(r, now) ==
    /\ r.cap # None
    /\ \/ now - r.cap > CaptureMaxAge
       \/ r.cap - now > FutureTolerance

HasMessage(m) == \E i \in Events : rows[i].report.msg = m

SameContent(r, s) == [r EXCEPT !.cap = None] = [s EXCEPT !.cap = None]

\* Mutation: the marker of the stored row is not consulted.
MatchesRetryAnyMarker(row, r) == SameContent(row.report, [r EXCEPT !.cap = None])

\* _matches_retry_without_capture
MatchesRetry(row, r) ==
    /\ row.marker # "provided"
    /\ r.cap = None
    /\ SameContent(row.report, r)

\* Mutation: the order of insertion decides, the receipt time does not.
LaterByRowid(i, j) == i > j

\* Mutation: rowid DESC is left out, as list_events does.
LaterWithoutTieBreak(i, j) == rows[i].receivedAt > rows[j].receivedAt

\* ORDER BY received_at DESC, rowid DESC
Later(i, j) ==
    \/ rows[i].receivedAt > rows[j].receivedAt
    \/ rows[i].receivedAt = rows[j].receivedAt /\ i > j

\* _latest_event_id_for_scope(e) = e
IsLatest(e) ==
    \A i \in Events :
        rows[i].report.scope = rows[e].report.scope /\ i # e => Later(e, i)

Stale(e, now) == now - rows[e].receivedAt > EventMaxAge

\* The WHERE clause both queries on authorizations share.
TokenValid(e, k, now) ==
    /\ k \in Tokens
    /\ auths[k].event = e
    /\ auths[k].usedAt = None
    /\ auths[k].expiresAt > now

Eligible(e) == Verdict[rows[e].report.body] = "MIGRATE_NOW"

-----------------------------------------------------------------------------
Init ==
    /\ clock = 0
    /\ rows \in LegacyTables
    /\ auths = <<>>
    /\ commands = <<>>
    /\ job = [w \in Workers |-> Idle]
    /\ acked = {}

Tick ==
    /\ clock < MaxClock
    /\ clock' = clock + 1
    /\ UNCHANGED <<rows, auths, commands, job, acked>>

-----------------------------------------------------------------------------
(***************************************************************************)
(* POST /api/v1/telemetry.                                                 *)
(***************************************************************************)

Answer(r, e) == [report |-> r, event |-> e]

SubmitTelemetry(w, r) ==
    /\ Start(w, NewJob(IF CaptureError(r, clock) THEN "lookup" ELSE "stamp",
                       r, 0, 0, 0))
    /\ UNCHANGED <<clock, rows, auths, commands, acked>>

\* A capture error is forgiven when the message is already stored.
LookUpMessage(w) ==
    /\ job[w].phase = "lookup"
    /\ IF HasMessage(job[w].report.msg) THEN Advance(w, "stamp") ELSE Finish(w)
    /\ UNCHANGED <<clock, rows, auths, commands, acked>>

\* received_at is read before the transaction waits for the write lock.
StampReceipt(w) ==
    /\ job[w].phase = "stamp"
    /\ job' = [job EXCEPT ![w] = NewJob("insert", @.report, 0, 0, clock)]
    /\ UNCHANGED <<clock, rows, auths, commands, acked>>

\* Mutation: the column added to an old table is not filled in on insertion.
InsertWithoutMarker(w) ==
    LET r == job[w].report
    IN  /\ job[w].phase = "insert"
        /\ ~HasMessage(r.msg)
        /\ Len(rows) < MaxRows
        /\ rows' = Append(rows, [report |-> r, marker |-> None,
                                 receivedAt |-> job[w].now])
        /\ acked' = acked \union {Answer(r, Len(rows) + 1)}
        /\ Finish(w)
        /\ UNCHANGED <<clock, auths, commands>>

InsertTelemetry(w) ==
    LET r == job[w].report
    IN  /\ job[w].phase = "insert"
        /\ ~HasMessage(r.msg)
        /\ Len(rows) < MaxRows
        /\ rows' = Append(rows, [report |-> r,
                                 marker |-> IF r.cap = None THEN "defaulted"
                                                            ELSE "provided",
                                 receivedAt |-> job[w].now])
        /\ acked' = acked \union {Answer(r, Len(rows) + 1)}
        /\ Finish(w)
        /\ UNCHANGED <<clock, auths, commands>>

AnswerDuplicate(w, e) ==
    /\ job[w].phase = "insert"
    /\ rows[e].report = job[w].report
    /\ acked' = acked \union {Answer(job[w].report, e)}
    /\ Finish(w)
    /\ UNCHANGED <<clock, rows, auths, commands>>

\* Mutation: the retry stores its own receipt time over the first one.
AdoptRetryRefreshing(w, e) ==
    /\ job[w].phase = "insert"
    /\ rows[e].report.msg = job[w].report.msg
    /\ rows[e].report # job[w].report
    /\ MatchesRetry(rows[e], job[w].report)
    /\ rows' = [rows EXCEPT ![e].marker = "defaulted", ![e].receivedAt = job[w].now]
    /\ acked' = acked \union {Answer(job[w].report, e)}
    /\ Finish(w)
    /\ UNCHANGED <<clock, auths, commands>>

\* A retry without captured_at of a row an earlier version stored.
AdoptRetry(w, e) ==
    /\ job[w].phase = "insert"
    /\ rows[e].report.msg = job[w].report.msg
    /\ rows[e].report # job[w].report
    /\ MatchesRetry(rows[e], job[w].report)
    /\ rows' = [rows EXCEPT ![e].marker = IF @ = "unknown" THEN "defaulted" ELSE @]
    /\ acked' = acked \union {Answer(job[w].report, e)}
    /\ Finish(w)
    /\ UNCHANGED <<clock, auths, commands>>

RejectConflict(w, e) ==
    /\ job[w].phase = "insert"
    /\ rows[e].report.msg = job[w].report.msg
    /\ rows[e].report # job[w].report
    /\ ~MatchesRetry(rows[e], job[w].report)
    /\ Finish(w)
    /\ UNCHANGED <<clock, rows, auths, commands, acked>>

-----------------------------------------------------------------------------
(***************************************************************************)
(* POST /api/v1/authorizations.                                            *)
(***************************************************************************)

RequestAuthorization(w, e) ==
    /\ Len(auths) < MaxTokens
    /\ Eligible(e)
    /\ ~Stale(e, clock)
    /\ Start(w, NewJob("grant", None, e, 0, clock))
    /\ UNCHANGED <<clock, rows, auths, commands, acked>>

GrantAuthorization(w) ==
    /\ job[w].phase = "grant"
    /\ Len(auths) < MaxTokens
    /\ IsLatest(job[w].event)
    /\ auths' = Append(auths, [event |-> job[w].event,
                               createdAt |-> clock,
                               expiresAt |-> job[w].now + AuthorizationTtl,
                               usedAt |-> None])
    /\ Finish(w)
    /\ UNCHANGED <<clock, rows, commands, acked>>

RefuseAuthorization(w) ==
    /\ job[w].phase = "grant"
    /\ ~IsLatest(job[w].event)
    /\ Finish(w)
    /\ UNCHANGED <<clock, rows, auths, commands, acked>>

-----------------------------------------------------------------------------
(***************************************************************************)
(* POST /api/v1/commands/migrate.  The clock is read once, on entry; that  *)
(* reading serves the staleness test, the token query and the consuming    *)
(* transaction.  Token 0 is one the server never issued.                   *)
(***************************************************************************)

\* Mutation: the handler trusts the token and never looks at the event's age.
RequestMigrationAnyAge(w, e, k) ==
    /\ ActuatorMode = "record-only"
    /\ Eligible(e)
    /\ Start(w, NewJob("validate", None, e, k, clock))
    /\ UNCHANGED <<clock, rows, auths, commands, acked>>

RequestMigration(w, e, k) ==
    /\ ActuatorMode = "record-only"
    /\ ~Stale(e, clock)
    /\ Eligible(e)
    /\ Start(w, NewJob("validate", None, e, k, clock))
    /\ UNCHANGED <<clock, rows, auths, commands, acked>>

ValidateToken(w) ==
    /\ job[w].phase = "validate"
    /\ IF TokenValid(job[w].event, job[w].token, job[w].now)
         THEN Advance(w, "actuate") ELSE Finish(w)
    /\ UNCHANGED <<clock, rows, auths, commands, acked>>

\* RecordOnlyActuator.migrate_to_high_point has no effect of its own.
CallActuator(w) ==
    /\ job[w].phase = "actuate"
    /\ Advance(w, "consume")
    /\ UNCHANGED <<clock, rows, auths, commands, acked>>

MayConsume(w) ==
    /\ IsLatest(job[w].event)
    /\ TokenValid(job[w].event, job[w].token, job[w].now)

\* Mutation: used_at is committed before the command row is inserted.
ConsumeInTwoTransactions(w) ==
    /\ job[w].phase = "consume"
    /\ MayConsume(w)
    /\ auths' = [auths EXCEPT ![job[w].token].usedAt = job[w].now]
    /\ UNCHANGED commands
    /\ Finish(w)
    /\ UNCHANGED <<clock, rows, acked>>

\* record_authorized_command
ConsumeToken(w) ==
    /\ job[w].phase = "consume"
    /\ MayConsume(w)
    /\ auths' = [auths EXCEPT ![job[w].token].usedAt = job[w].now]
    /\ commands' = Append(commands, [event |-> job[w].event, token |-> job[w].token])
    /\ Finish(w)
    /\ UNCHANGED <<clock, rows, acked>>

RefuseCommand(w) ==
    /\ job[w].phase = "consume"
    /\ ~MayConsume(w)
    /\ Finish(w)
    /\ UNCHANGED <<clock, rows, auths, commands, acked>>

-----------------------------------------------------------------------------
(***************************************************************************)
(* Failures.  An exception in any phase (a busy database, a full disk)     *)
(* rolls the open transaction back and answers 500; a crash does so to     *)
(* every request, and the WAL keeps what was committed.                    *)
(***************************************************************************)

RequestFails(w) ==
    /\ job[w].phase # "idle"
    /\ Finish(w)
    /\ UNCHANGED <<clock, rows, auths, commands, acked>>

Crash ==
    /\ job' = [w \in Workers |-> Idle]
    /\ UNCHANGED <<clock, rows, auths, commands, acked>>

Step(w) ==
    \/ \E r \in Reports : SubmitTelemetry(w, r)
    \/ LookUpMessage(w)
    \/ StampReceipt(w)
    \/ InsertTelemetry(w)
    \/ \E e \in Events : \/ AnswerDuplicate(w, e)
                         \/ AdoptRetry(w, e)
                         \/ RejectConflict(w, e)
                         \/ RequestAuthorization(w, e)
    \/ GrantAuthorization(w)
    \/ RefuseAuthorization(w)
    \/ \E e \in Events, k \in 0..Len(auths) : RequestMigration(w, e, k)
    \/ ValidateToken(w)
    \/ CallActuator(w)
    \/ ConsumeToken(w)
    \/ RefuseCommand(w)
    \/ RequestFails(w)

Next == Tick \/ Crash \/ \E w \in Workers : Step(w)

Spec == Init /\ [][Next]_vars

-----------------------------------------------------------------------------
(***************************************************************************)
(* Types.                                                                  *)
(***************************************************************************)

Auths == [event: Nat \ {0}, createdAt: Int, expiresAt: Int, usedAt: Int \union {None}]

Commands == [event: Nat \ {0}, token: Nat \ {0}]

Jobs ==
    [phase: Phases, report: Reports \union {None}, event: Nat, token: Nat, now: Int]

\* Every variable holds a value of its table's or its job's shape.
TypeOK ==
    /\ clock \in Nat
    /\ rows \in Seq(Rows)
    /\ auths \in Seq(Auths)
    /\ commands \in Seq(Commands)
    /\ job \in [Workers -> Jobs]
    /\ acked \subseteq [report: Reports, event: Nat]

-----------------------------------------------------------------------------
(***************************************************************************)
(* Safety.                                                                 *)
(***************************************************************************)

(***************************************************************************)
(* A token is spent exactly when one command names it, and that command is *)
(* for the event the token was issued for: whatever requests race, fail or *)
(* crash, no token pays for two commands and none is lost to a command     *)
(* that was not recorded (record_authorized_command, one transaction).     *)
(***************************************************************************)
OneTokenOneCommand ==
    /\ \A c \in 1..Len(commands) :
          /\ commands[c].token \in Tokens
          /\ auths[commands[c].token].event = commands[c].event
          /\ auths[commands[c].token].usedAt # None
          /\ \A d \in 1..Len(commands) : commands[c].token = commands[d].token => c = d
    /\ \A k \in Tokens :
          auths[k].usedAt # None => \E c \in 1..Len(commands) : commands[c].token = k

(***************************************************************************)
(* Every spent token tells a consistent story: issued for an event that    *)
(* asks for migration, used between its issue and its expiry, and at a     *)
(* time when the event was no older than event_max_age.  The time is the   *)
(* one reading of the clock by which the handler makes all three tests.    *)
(***************************************************************************)
SpentTokensWereFresh ==
    \A k \in Tokens :
        auths[k].usedAt # None =>
            /\ auths[k].event \in Events
            /\ Eligible(auths[k].event)
            /\ auths[k].createdAt <= auths[k].usedAt
            /\ auths[k].usedAt < auths[k].expiresAt
            /\ auths[k].usedAt - rows[auths[k].event].receivedAt <= EventMaxAge

\* The authorizations and the commands that belong to an event.
Grants(e) == {k \in Tokens : auths[k].event = e}
Recorded(e) == {c \in 1..Len(commands) : commands[c].event = e}

\* i is committed and is the event to act on for its vehicle.
Heads ==
    {e \in Events : \A i \in Events :
        rows[i].report.scope = rows[e].report.scope /\ i # e =>
            \/ rows[i].receivedAt < rows[e].receivedAt
            \/ rows[i].receivedAt = rows[e].receivedAt /\ i < e}

(***************************************************************************)
(* Once newer telemetry of the same vehicle is committed, the older event  *)
(* stays superseded, and no authorization and no command is ever recorded  *)
(* for it again, not even by a request that passed every check before.     *)
(***************************************************************************)
SupersededIsFinal ==
    [][\A e \in Events \ Heads :
          e \notin Heads' /\ Grants(e)' = Grants(e) /\ Recorded(e)' = Recorded(e)]_vars

(***************************************************************************)
(* Whatever was answered 200 or 201 stays stored, under one event and with *)
(* the content that was sent; a retry without captured_at may meet a row   *)
(* that has one, anything else must be equal.  Holds across crashes,       *)
(* concurrent retries and rows of the earlier schema.                      *)
(***************************************************************************)
AcknowledgedIsStored ==
    \A a \in acked :
        /\ a.event \in Events
        /\ SameContent(rows[a.event].report, a.report)
        /\ a.report.cap \in {rows[a.event].report.cap, None}
        /\ a.report.cap = None => rows[a.event].marker # "provided"
        /\ \A b \in acked : b.report.msg = a.report.msg => b.event = a.event

(***************************************************************************)
(* A reading whose explicit captured_at lies beyond the clock tolerance is *)
(* never stored, though the check and the insertion are separate steps and *)
(* the check is waived for known messages.                                 *)
(***************************************************************************)
FutureCaptureNeverStored ==
    \A i \in Events :
        rows[i].marker = "provided" =>
            rows[i].report.cap <= rows[i].receivedAt + FutureTolerance

(***************************************************************************)
(* A retry never changes what was stored first: content and receipt time   *)
(* of an event are fixed, so resending telemetry cannot make an old event  *)
(* fresh again; only the marker of a legacy row is filled in, once.        *)
(***************************************************************************)
RetryNeverRefreshes ==
    [][\A e \in Events :
          /\ e \in Events'
          /\ rows'[e].report = rows[e].report
          /\ rows'[e].receivedAt = rows[e].receivedAt
          /\ rows'[e].marker # rows[e].marker =>
                rows[e].marker = "unknown" /\ rows'[e].marker = "defaulted"]_vars

(***************************************************************************)
(* The chain implements the abstract authority: what may be acted on is    *)
(* one live event per vehicle, tokens are spent at most once and only for  *)
(* the live event.                                                         *)
(***************************************************************************)
EventRecord(e) == [id |-> e, scope |-> rows[e].report.scope]

Authority == INSTANCE CommandAuthority WITH
    Ids <- 1..MaxRows, TokenIds <- 1..MaxTokens, AllScopes <- Scopes,
    known <- {EventRecord(e) : e \in Events},
    retired <- {EventRecord(e) : e \in {i \in Events : ~IsLatest(i)}},
    granted <- {[token |-> k, event |-> auths[k].event] : k \in Tokens},
    spent <- {k \in Tokens : auths[k].usedAt # None}

ImplementsAuthority == Authority!Spec
=============================================================================
