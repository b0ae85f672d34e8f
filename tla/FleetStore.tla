----------------------------- MODULE FleetStore -----------------------------
(***************************************************************************)
(* The fleet endpoints of backend/app/main.py over the table fleet_runs:   *)
(* storing a shadow run once per snapshot_id, and reading the latest run   *)
(* of a site.  Handlers run concurrently; as in EvidenceChain a phase ends *)
(* at the next read of the clock or of the database, and a transaction     *)
(* opened with BEGIN IMMEDIATE is one step.                                *)
(*                                                                         *)
(* Of the plan only what the server's clock decides is kept: whether the   *)
(* site counted as available (FleetPlanner gives the rest).                *)
(***************************************************************************)
EXTENDS Integers, Sequences

CONSTANTS
    Workers,          \* threads that serve requests
    SnapshotIds, Sites, Contents, Times, \* values a snapshot is made of
    Snapshots,        \* the snapshots clients submit
    CaptureMaxAge,    \* settings.capture_max_age_seconds
    FutureTolerance,  \* settings.capture_future_tolerance_seconds
    EventMaxAge,      \* settings.event_max_age_seconds
    None,
    MaxClock, MaxRuns, MaxRequests \* bounds of an instance

\* captured is the capture time furthest from the server's clock; stamped says
\* that every telemetry has its own captured_at and message_id, so that
\* TelemetryIn fills in neither.
SnapshotType ==
    [id: SnapshotIds, site: Sites, content: Contents, captured: Times,
     observed: Times, stamped: BOOLEAN]

ASSUME StoreAssumption ==
    /\ Snapshots \subseteq SnapshotType
    /\ Times \subseteq Int
    /\ CaptureMaxAge \in Nat \ {0} /\ FutureTolerance \in Nat /\ EventMaxAge \in Nat
    /\ None \notin SnapshotType
    /\ MaxClock \in Nat /\ MaxRuns \in Nat /\ MaxRequests \in Nat

VARIABLES
    clock,    \* the server's UTC clock
    runs,     \* fleet_runs; the index is rowid and run_id
    job,      \* what each worker is doing
    requests, \* how many snapshots were received; numbers the generated values
    acked,    \* history: the answers 200 and 201, with what was submitted
    refused,  \* history: the submissions answered 409
    seen      \* history: the run each worker's reader was last given for a site

vars == <<clock, runs, job, requests, acked, refused, seen>>

RunIds == 1..Len(runs)

\* What canonical_fleet_snapshot_json covers: defaults included, and a default
\* message_id is new in every request.
Canonical(s, number) == [sent |-> s, filled |-> IF s.stamped THEN 0 ELSE number]

\* Mutation: only the age is looked at.
CaptureErrorAgeOnly(s, now) == now - s.captured > CaptureMaxAge

\* _fleet_capture_time_error
CaptureError(s, now) ==
    \/ now - s.captured > CaptureMaxAge
    \/ s.captured - now > FutureTolerance
    \/ s.observed - now > FutureTolerance

SiteAvailable(s, now) == now - s.observed <= CaptureMaxAge

HasSnapshot(id) == \E i \in RunIds : runs[i].input.sent.id = id

-----------------------------------------------------------------------------
NewJob(phase, input, now, open, run) ==
    [phase |-> phase, input |-> input, now |-> now, created |-> now,
     open |-> open, run |-> run]

Idle == NewJob("idle", None, 0, FALSE, 0)

Start(w, j) == job[w].phase = "idle" /\ job' = [job EXCEPT ![w] = j]

Finish(w) == job' = [job EXCEPT ![w] = Idle]

Init ==
    /\ clock = 0
    /\ runs = <<>>
    /\ job = [w \in Workers |-> Idle]
    /\ requests = 0
    /\ acked = {} /\ refused = {}
    /\ seen = [w \in Workers |-> [s \in Sites |-> 0]]

Tick ==
    /\ clock < MaxClock
    /\ clock' = clock + 1
    /\ UNCHANGED <<runs, job, requests, acked, refused, seen>>

-----------------------------------------------------------------------------
(***************************************************************************)
(* POST /api/v1/fleet/shadow-runs.                                         *)
(***************************************************************************)

SubmitSnapshot(w, s) ==
    /\ requests < MaxRequests
    /\ requests' = requests + 1
    /\ Start(w, NewJob(IF CaptureError(s, clock) THEN "lookup" ELSE "plan",
                       Canonical(s, requests'), clock, FALSE, 0))
    /\ UNCHANGED <<clock, runs, acked, refused, seen>>

LookUpSnapshot(w) ==
    /\ job[w].phase = "lookup"
    /\ IF HasSnapshot(job[w].input.sent.id)
         THEN job' = [job EXCEPT ![w].phase = "plan"] ELSE Finish(w)
    /\ UNCHANGED <<clock, runs, requests, acked, refused, seen>>

\* plan_fleet uses the time of arrival; received_at is read after it.
PlanFleet(w) ==
    /\ job[w].phase = "plan"
    /\ job' = [job EXCEPT ![w] =
                  [phase |-> "save", input |-> @.input, now |-> clock,
                   created |-> @.created,
                   open |-> SiteAvailable(@.input.sent, @.created), run |-> 0]]
    /\ UNCHANGED <<clock, runs, requests, acked, refused, seen>>

Answer(w, run, open) ==
    [sent |-> job[w].input.sent, run |-> run, open |-> open]

SaveRun(w) ==
    /\ job[w].phase = "save"
    /\ ~HasSnapshot(job[w].input.sent.id)
    /\ Len(runs) < MaxRuns
    /\ runs' = Append(runs, [input |-> job[w].input, open |-> job[w].open,
                             created |-> job[w].created, receivedAt |-> job[w].now])
    /\ acked' = acked \union {Answer(w, Len(runs) + 1, job[w].open)}
    /\ Finish(w)
    /\ UNCHANGED <<clock, requests, refused, seen>>

\* Mutation: the retry is answered with the plan just computed.
AnswerWithNewPlan(w, i) ==
    /\ job[w].phase = "save"
    /\ runs[i].input = job[w].input
    /\ acked' = acked \union {Answer(w, i, job[w].open)}
    /\ Finish(w)
    /\ UNCHANGED <<clock, runs, requests, refused, seen>>

\* Mutation: the retry is answered with the run_id minted for this request.
AnswerWithNewRunId(w, i) ==
    /\ job[w].phase = "save"
    /\ runs[i].input = job[w].input
    /\ acked' = acked \union {Answer(w, Len(runs) + 1, runs[i].open)}
    /\ Finish(w)
    /\ UNCHANGED <<clock, runs, requests, refused, seen>>

AnswerExisting(w, i) ==
    /\ job[w].phase = "save"
    /\ runs[i].input = job[w].input
    /\ acked' = acked \union {Answer(w, i, runs[i].open)}
    /\ Finish(w)
    /\ UNCHANGED <<clock, runs, requests, refused, seen>>

RejectConflict(w, i) ==
    /\ job[w].phase = "save"
    /\ runs[i].input.sent.id = job[w].input.sent.id
    /\ runs[i].input # job[w].input
    /\ refused' = refused \union {job[w].input.sent}
    /\ Finish(w)
    /\ UNCHANGED <<clock, runs, requests, acked, seen>>

-----------------------------------------------------------------------------
(***************************************************************************)
(* GET /api/v1/fleet/latest.                                               *)
(***************************************************************************)

\* Mutation: runs are ordered by their rowid alone.
LaterByRowid(i, j) == i > j

\* ORDER BY received_at DESC, rowid DESC
Later(i, j) ==
    \/ runs[i].receivedAt > runs[j].receivedAt
    \/ runs[i].receivedAt = runs[j].receivedAt /\ i > j

LatestOf(site) ==
    {i \in RunIds : /\ runs[i].input.sent.site = site
                    /\ \A j \in RunIds :
                          runs[j].input.sent.site = site /\ j # i => Later(i, j)}

ReadLatest(w, site) ==
    /\ \E i \in LatestOf(site) : Start(w, NewJob("age", None, 0, FALSE, i))
    /\ UNCHANGED <<clock, runs, requests, acked, refused, seen>>

\* The clock is read after the row: 200 with the plan, or 410.
AnswerLatest(w) ==
    LET i == job[w].run
    IN  /\ job[w].phase = "age"
        /\ seen' = IF clock - runs[i].receivedAt > EventMaxAge THEN seen
                   ELSE [seen EXCEPT ![w][runs[i].input.sent.site] = i]
        /\ Finish(w)
        /\ UNCHANGED <<clock, runs, requests, acked, refused>>

-----------------------------------------------------------------------------
\* An exception rolls back and answers 500; so does a crash for every request.
RequestFails(w) ==
    /\ job[w].phase # "idle"
    /\ Finish(w)
    /\ UNCHANGED <<clock, runs, requests, acked, refused, seen>>

Crash ==
    /\ job' = [w \in Workers |-> Idle]
    /\ UNCHANGED <<clock, runs, requests, acked, refused, seen>>

Step(w) ==
    \/ \E s \in Snapshots : SubmitSnapshot(w, s)
    \/ LookUpSnapshot(w)
    \/ PlanFleet(w)
    \/ SaveRun(w)
    \/ \E i \in RunIds : AnswerExisting(w, i) \/ RejectConflict(w, i)
    \/ \E site \in Sites : ReadLatest(w, site)
    \/ AnswerLatest(w)
    \/ RequestFails(w)

Next == Tick \/ Crash \/ \E w \in Workers : Step(w)

Spec == Init /\ [][Next]_vars

-----------------------------------------------------------------------------
Inputs == [sent: SnapshotType, filled: Nat]

TypeOK ==
    /\ clock \in Nat /\ requests \in Nat
    /\ runs \in Seq([input: Inputs, open: BOOLEAN, created: Int, receivedAt: Int])
    /\ job \in [Workers ->
                  [phase: {"idle", "lookup", "plan", "save", "age"},
                   input: Inputs \union {None}, now: Int, created: Int,
                   open: BOOLEAN, run: 0..Len(runs)]]
    /\ acked \subseteq [sent: SnapshotType, run: RunIds, open: BOOLEAN]
    /\ refused \subseteq SnapshotType
    /\ seen \in [Workers -> [Sites -> 0..Len(runs)]]

(***************************************************************************)
(* Whoever was answered 200 or 201 for a snapshot was given one and the    *)
(* same run and plan, the stored one, though a later retry is planned      *)
(* anew with a later clock and may find the site out of date by then.      *)
(***************************************************************************)
RepliesNameOneRun ==
    \A a \in acked :
        /\ runs[a.run].input.sent = a.sent
        /\ runs[a.run].open = a.open
        /\ \A b \in acked : a.sent.id = b.sent.id => a.run = b.run

(***************************************************************************)
(* No stored run rests on a capture that was too old or ahead of the clock *)
(* when it was planned, and none assigns places on an observation of the   *)
(* site that was too old, although a capture error is forgiven when the    *)
(* snapshot is known and the look-up and the insertion are separate.       *)
(***************************************************************************)
StoredRunsWereFresh ==
    \A i \in RunIds :
        LET s == runs[i].input.sent
        IN  /\ runs[i].created - s.captured \in (- FutureTolerance)..CaptureMaxAge
            /\ runs[i].created - s.observed >= - FutureTolerance
            /\ runs[i].open <=> runs[i].created - s.observed <= CaptureMaxAge
            /\ runs[i].created <= runs[i].receivedAt

(***************************************************************************)
(* A client that has been answered 200 or 201 is never answered 409 for    *)
(* the very same submission, nor the other way round ("idempotency rules   *)
(* as for telemetry", 2026-07-23-fleet-shadow-v1-3-design.md:189).         *)
(***************************************************************************)
RepeatsNeverConflict == \A a \in acked : a.sent \notin refused

(***************************************************************************)
(* A reader of fleet/latest never goes back: the next run it is given for  *)
(* a site was received no earlier than the one before, in whatever order   *)
(* the runs were committed.                                                *)
(***************************************************************************)
ReadersNeverGoBack ==
    [][\A w \in Workers, s \in Sites :
          seen[w][s] # 0 =>
              runs[seen[w][s]].receivedAt <= runs'[seen'[w][s]].receivedAt]_vars
=============================================================================
