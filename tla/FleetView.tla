------------------------------ MODULE FleetView ------------------------------
(***************************************************************************)
(* The fleet page, src/src/fleet-view.js: stages of a scenario planned in  *)
(* the browser or submitted to the server, with one retry, and answers     *)
(* kept out by a generation and a snapshot id once they are late.          *)
(*                                                                         *)
(* The page has one thread: what runs between two awaits is one step.  An  *)
(* answer and its body are two steps of a submission, because a failure is *)
(* shown after the second without another test.  The single-vehicle page   *)
(* (WebConsole) enters as the sender of its session events.                *)
(***************************************************************************)
EXTENDS Integers, Sequences

CONSTANTS
    LastStage, \* stages are 0..LastStage
    Keys,      \* the API keys an owner may type
    None,
    MaxSubmissions, MaxConnections, MaxSessions \* bounds of an instance

ASSUME ViewAssumption ==
    /\ LastStage \in Nat /\ None \notin Keys
    /\ MaxSubmissions \in Nat /\ MaxConnections \in Nat /\ MaxSessions \in Nat

VARIABLES
    view,     \* the globals of the module and what the page shows
    requests, \* the submissions so far; the index stands for the snapshot_id
    connects, \* connection requests under way
    saved,    \* sessionStorage "highground-api-key", shared with the other page
    sessions  \* session events of the other page so far

vars == <<view, requests, connects, saved, sessions>>

Stages == 0..LastStage

\* A scenario of another planner version is refused but kept ("mismatched").
Scenarios == {"loading", "ready", "failed", "mismatched"}

\* A plan is that of the browser (0), that of a submission, or none yet.
\* evidence is what the source label claims: the browser, the server ("api"), or
\* the server but out of date ("stale"), and the run it names.
ViewType ==
    [scenario: Scenarios,
     apiMode: BOOLEAN, apiKey: Keys \union {None}, field: Keys \union {None},
     pending: BOOLEAN,
     stage: Stages, plan: Nat \union {None}, planStage: Stages,
     evidence: [source: {"none", "browser", "api", "stale"}, run: Nat],
     lastPlan: Nat,  \* lastApiPlan, lastApiEvidence and lastApiStageIndex; 0 for null
     current: Nat,   \* currentSubmissionSnapshotId; 0 for null
     generation: Nat, connectionGen: Nat,
     status: {"idle", "verifying", "writing", "retrying", "connected", "error"}]

\* What the server can answer: the stored run, evidence that is incomplete, 401, or
\* another HTTP error or another snapshot's evidence.
Answers == {"stored", "invalid", "unauthorized", "refused"}

\* A submission: its fetch, the wait before the retry, the body of its answer.
RequestType ==
    [stage: Stages, generation: Nat, key: Keys, attempt: 0..1,
     phase: {"fetch", "wait", "body", "done"},
     answer: Answers \union {"none"}]

Init ==
    /\ view = [scenario |-> "loading", apiMode |-> FALSE, apiKey |-> None,
               field |-> None, pending |-> FALSE, stage |-> 0, plan |-> None,
               planStage |-> 0, evidence |-> [source |-> "none", run |-> 0],
               lastPlan |-> 0, current |-> 0, generation |-> 0, connectionGen |-> 0,
               status |-> "idle"]
    /\ requests = <<>> /\ connects = {}
    /\ saved = None /\ sessions = 0

-----------------------------------------------------------------------------
(***************************************************************************)
(* What the functions of fleet-view.js do to the page.                     *)
(***************************************************************************)

RenderPlan(v, plan, stage) == [v EXCEPT !.plan = plan, !.planStage = stage]

RenderBrowserStage(v) ==
    [RenderPlan(v, 0, v.stage) EXCEPT
        !.evidence = [source |-> "browser", run |-> 0], !.status = "idle"]

MarkStale(v) ==
    IF v.lastPlan = 0 THEN v
    ELSE [RenderPlan(v, v.lastPlan, requests[v.lastPlan].stage) EXCEPT
             !.evidence = [source |-> "stale", run |-> v.lastPlan]]

\* invalidateFleetRequests
InvalidateRequests(v) == [v EXCEPT !.generation = @ + 1, !.current = 0]

\* Mutation: the page stays in API mode without a key.
ClearKeyOnly(v) ==
    [InvalidateRequests(v) EXCEPT !.apiKey = None, !.field = None, !.pending = FALSE]

ClearAuthentication(v) ==
    [InvalidateRequests(v) EXCEPT
        !.apiMode = FALSE, !.apiKey = None, !.field = None, !.pending = FALSE]

\* Mutation: the failure marks the evidence and says nothing.
FailSilently(v) == MarkStale(v)

\* showSubmissionFailure
ShowFailure(v) == [MarkStale(v) EXCEPT !.status = "error"]

\* The scenario is not null.
HasScenario(v) == v.scenario \in {"ready", "mismatched"}

\* submitCurrentStage in a view that may submit: the submission gets the next index.
Submits(v) == v.apiMode /\ HasScenario(v)

\* Mutation: the evidence of the last submission stays as it is.
SubmittingKeepsEvidence(v) ==
    [v EXCEPT !.generation = @ + 1, !.current = Len(requests) + 1, !.status = "writing"]

Submitting(v) ==
    [MarkStale([v EXCEPT !.generation = @ + 1, !.current = Len(requests) + 1]) EXCEPT
        !.status = "writing"]

NewRequest(v) ==
    [stage |-> v.stage, generation |-> v.generation, key |-> v.apiKey, attempt |-> 0,
     phase |-> "fetch", answer |-> "none"]

SubmitCurrentStage(v) ==
    IF Submits(v)
      THEN /\ view' = Submitting(v)
           /\ requests' = Append(requests, NewRequest(view'))
      ELSE view' = v /\ UNCHANGED requests

MaySubmit == Len(requests) < MaxSubmissions

-----------------------------------------------------------------------------
(***************************************************************************)
(* Loading, and what the owner does.                                       *)
(***************************************************************************)

ScenarioLoaded(default) ==
    /\ view.scenario = "loading" /\ MaySubmit
    /\ SubmitCurrentStage(RenderBrowserStage(
           [view EXCEPT !.scenario = "ready", !.stage = default]))
    /\ UNCHANGED <<connects, saved, sessions>>

\* Not loaded, or of another planner version: the stage controls are not rendered,
\* but a connection goes on to submit what has been loaded.
ScenarioFails ==
    /\ view.scenario = "loading"
    /\ \E result \in {"failed", "mismatched"} :
          view' = [view EXCEPT !.scenario = result, !.status = "error"]
    /\ UNCHANGED <<requests, connects, saved, sessions>>

\* Timeline, next and reset; the next button stays on the last stage.
SelectStage(stage) ==
    /\ view.scenario = "ready" /\ MaySubmit
    /\ LET v == [view EXCEPT !.stage = stage]
       IN  IF ~v.apiMode \/ v.lastPlan = 0
             THEN SubmitCurrentStage(RenderBrowserStage(v))
             ELSE SubmitCurrentStage(MarkStale(v))
    /\ UNCHANGED <<connects, saved, sessions>>

TypeKey(k) ==
    /\ ~view.pending /\ ~view.apiMode
    /\ view' = [view EXCEPT !.field = k]
    /\ UNCHANGED <<requests, connects, saved, sessions>>

\* The connect button in API mode.  Without a scenario renderBrowserStage throws,
\* after the mode has changed.
SwitchToBrowserMode ==
    /\ view.apiMode /\ ~view.pending
    /\ LET v == [InvalidateRequests(view) EXCEPT !.apiMode = FALSE, !.apiKey = None]
       IN  view' = IF HasScenario(v) THEN RenderBrowserStage(v) ELSE v
    /\ UNCHANGED <<requests, connects, saved, sessions>>

\* connectFleetApi up to its request.
PressConnect ==
    /\ ~view.apiMode /\ ~view.pending
    /\ view.connectionGen < MaxConnections
    /\ LET v == [view EXCEPT !.connectionGen = @ + 1]
       IN  IF v.field = None
             THEN view' = [v EXCEPT !.status = "error"] /\ UNCHANGED connects
             ELSE /\ view' = [v EXCEPT !.pending = TRUE, !.status = "verifying"]
                  /\ connects' = connects \union
                         {[generation |-> v.connectionGen, key |-> v.field]}
    /\ UNCHANGED <<requests, saved, sessions>>

-----------------------------------------------------------------------------
(***************************************************************************)
(* Answers to connections, and the session events of the other page.       *)
(***************************************************************************)

ConnectionCanCommit(c) == c.generation = view.connectionGen /\ c.key = view.field

\* The finally clause of connectFleetApi.
ConnectionDone(c, v) ==
    IF c.generation = view.connectionGen THEN [v EXCEPT !.pending = FALSE] ELSE v

ConnectionVerified(c) ==
    /\ c \in connects /\ MaySubmit
    /\ connects' = connects \ {c}
    /\ IF ConnectionCanCommit(c)
         THEN /\ SubmitCurrentStage([view EXCEPT
                     !.apiMode = TRUE, !.apiKey = c.key, !.pending = FALSE,
                     !.status = "connected"])
              /\ saved' = c.key
         ELSE view' = ConnectionDone(c, view) /\ UNCHANGED <<requests, saved>>
    /\ UNCHANGED sessions

ConnectionFails(c) ==
    /\ c \in connects
    /\ connects' = connects \ {c}
    /\ view' = ConnectionDone(c,
           IF ConnectionCanCommit(c) THEN [view EXCEPT !.status = "error"] ELSE view)
    /\ UNCHANGED <<requests, saved, sessions>>

\* The other page connected and saved its key: adoptSharedApiSession.
AdoptSharedSession(k) ==
    /\ sessions < MaxSessions /\ MaySubmit
    /\ sessions' = sessions + 1
    /\ saved' = k
    /\ SubmitCurrentStage([view EXCEPT
           !.connectionGen = @ + 1, !.apiMode = TRUE, !.apiKey = k, !.field = k,
           !.pending = FALSE, !.status = "connected"])
    /\ UNCHANGED connects

\* The other page disconnected and removed the key: invalidateSharedApiSession.
InvalidateSharedSession ==
    /\ sessions < MaxSessions
    /\ sessions' = sessions + 1
    /\ saved' = None
    /\ view' = IF ~view.apiMode /\ view.lastPlan = 0 THEN view
               ELSE ShowFailure(ClearAuthentication([view EXCEPT !.connectionGen = @ + 1]))
    /\ UNCHANGED <<requests, connects>>

-----------------------------------------------------------------------------
(***************************************************************************)
(* submitFleetSnapshot after its request.                                  *)
(***************************************************************************)

\* fleetResponseCanCommit
CanCommit(n) == requests[n].generation = view.generation /\ n = view.current

\* Nothing is left of a request that has returned but its snapshot.
Ends(n) == requests' = [requests EXCEPT ![n].phase = "done", ![n].answer = "none"]

\* The network fails: one more attempt after a wait.
FetchFails(n) ==
    /\ requests[n].phase = "fetch"
    /\ CASE ~CanCommit(n) -> Ends(n) /\ UNCHANGED view
         [] CanCommit(n) /\ requests[n].attempt = 0 /\ view.apiMode ->
                /\ requests' = [requests EXCEPT ![n].phase = "wait"]
                /\ view' = [view EXCEPT !.status = "retrying"]
         [] CanCommit(n) /\ ~(requests[n].attempt = 0 /\ view.apiMode) ->
                Ends(n) /\ view' = ShowFailure(view)
    /\ UNCHANGED <<connects, saved, sessions>>

Retry(n) ==
    /\ requests[n].phase = "wait"
    /\ IF CanCommit(n)
         THEN requests' = [requests EXCEPT ![n].phase = "fetch", ![n].attempt = 1]
         ELSE Ends(n)
    /\ UNCHANGED <<view, connects, saved, sessions>>

Fetched(n, answer) ==
    /\ requests[n].phase = "fetch"
    /\ IF CanCommit(n)
         THEN requests' = [requests EXCEPT ![n].phase = "body", ![n].answer = answer]
         ELSE Ends(n)
    /\ UNCHANGED <<view, connects, saved, sessions>>

\* An HTTP error, or evidence of another snapshot: shown without another test; 401
\* ends the session as well.
BodyOfFailure(n) ==
    LET cleared == requests[n].answer = "unauthorized"
    IN  /\ requests[n].phase = "body"
        /\ requests[n].answer \in {"unauthorized", "refused"}
        /\ view' = ShowFailure(IF cleared THEN ClearAuthentication(view) ELSE view)
        /\ saved' = IF cleared THEN None ELSE saved
        /\ Ends(n)
        /\ UNCHANGED <<connects, sessions>>

\* Mutation: a stored plan is shown without another test.
ShowStored(n) ==
    /\ requests[n].phase = "body" /\ requests[n].answer = "stored"
    /\ view' = [RenderPlan(view, n, requests[n].stage) EXCEPT
                   !.evidence = [source |-> "api", run |-> n], !.lastPlan = n,
                   !.status = "connected"]
    /\ Ends(n)
    /\ UNCHANGED <<connects, saved, sessions>>

BodyStored(n) ==
    /\ requests[n].phase = "body" /\ requests[n].answer = "stored"
    /\ view' = IF ~CanCommit(n) THEN view
               ELSE [RenderPlan(view, n, requests[n].stage) EXCEPT
                        !.evidence = [source |-> "api", run |-> n], !.lastPlan = n,
                        !.status = "connected"]
    /\ Ends(n)
    /\ UNCHANGED <<connects, saved, sessions>>

\* Evidence without run_id or with malformed hashes.  A plan that comes with both
\* hashes is well formed (FleetPlan) and its rendering does not throw.
BodyInvalid(n) ==
    /\ requests[n].phase = "body" /\ requests[n].answer = "invalid"
    /\ view' = IF CanCommit(n) THEN ShowFailure(view) ELSE view
    /\ Ends(n)
    /\ UNCHANGED <<connects, saved, sessions>>

-----------------------------------------------------------------------------
Loading == ScenarioFails \/ \E default \in Stages : ScenarioLoaded(default)

OwnerActs ==
    \/ \E stage \in Stages : SelectStage(stage)
    \/ \E k \in Keys \union {None} : TypeKey(k)
    \/ SwitchToBrowserMode
    \/ PressConnect

OtherPage == InvalidateSharedSession \/ \E k \in Keys : AdoptSharedSession(k)

ConnectionAnswered == \E c \in connects : ConnectionVerified(c) \/ ConnectionFails(c)

Submission(n) ==
    \/ FetchFails(n)
    \/ Retry(n)
    \/ \E answer \in Answers : Fetched(n, answer)
    \/ BodyOfFailure(n)
    \/ BodyStored(n)
    \/ BodyInvalid(n)

SubmissionMoves == \E n \in DOMAIN requests : Submission(n)

Next == Loading \/ OwnerActs \/ OtherPage \/ ConnectionAnswered \/ SubmissionMoves

Spec == Init /\ [][Next]_vars

\* Fetches, bodies and timers settle sooner or later, with a result or an error.
FairSpec ==
    /\ Spec
    /\ WF_vars(ConnectionAnswered)
    /\ \A n \in 1..MaxSubmissions : WF_vars(n \in DOMAIN requests /\ Submission(n))

-----------------------------------------------------------------------------
TypeOK ==
    /\ view \in ViewType
    /\ requests \in Seq(RequestType)
    /\ connects \subseteq [generation: Nat, key: Keys]
    /\ saved \in Keys \union {None} /\ sessions \in Nat
    /\ view.lastPlan \in 0..Len(requests) /\ view.current \in 0..Len(requests)

(***************************************************************************)
(* What the source label calls evidence of the server is the current       *)
(* submission, for the stage selected on the page, shown with the session  *)
(* still open; label and plan always belong together, and stale evidence   *)
(* is shown with its own plan and stage: "不把本地新结果和旧服务器证据混合"     *)
(* (2026-07-23-fleet-shadow-v1-3-design.md:235), local results are not     *)
(* mixed with old evidence.                                                *)
(***************************************************************************)
FreshEvidenceIsCurrent ==
    LET shown == view.evidence
    IN  /\ shown.source = "api" =>
              view.apiMode /\ view.current = shown.run /\ view.planStage = view.stage
        /\ shown.source \in {"api", "stale"} =>
              view.plan = shown.run /\ requests[shown.run].stage = view.planStage
        /\ shown.source = "browser" => view.plan = 0 /\ view.planStage = view.stage

\* A submission that is no longer current: stage, mode or session changed since.
Late(n) == ~CanCommit(n)

(***************************************************************************)
(* A late request is not sent a second time, under a key or for a stage    *)
(* that was left during the wait of 450 ms, and a late answer puts nothing *)
(* up: it leaves the page alone or, as a late failure does, takes evidence *)
(* and session away and shows the last plan as out of date.                *)
(***************************************************************************)
LateRequestsOnlyWithdraw ==
    [][\A n \in DOMAIN requests :
          Late(n) /\ requests[n] # requests'[n] =>
             /\ requests'[n].attempt = requests[n].attempt
             /\ \/ view' = view
                \/ /\ view'.evidence # view.evidence => view'.evidence.source = "stale"
                   /\ view'.apiMode => view.apiMode
                   /\ view'.lastPlan = view.lastPlan
                   /\ view'.status = "error"]_vars

(***************************************************************************)
(* The page does not go on saying that it is writing, retrying or          *)
(* verifying: each of these ends in evidence or in a message, also when    *)
(* the request it spoke of was overtaken.                                  *)
(***************************************************************************)
BusyStatusEnds ==
    /\ view.status \in {"writing", "retrying"} ~> view.status \notin {"writing", "retrying"}
    /\ view.status = "verifying" ~> view.status # "verifying"
=============================================================================
