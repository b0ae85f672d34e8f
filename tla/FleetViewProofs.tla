--------------------------- MODULE FleetViewProofs ---------------------------
(***************************************************************************)
(* Theorems about FleetView, for any number of stages, keys, submissions,  *)
(* connections and session events.                                         *)
(***************************************************************************)
EXTENDS FleetView, SequenceTheorems, TLAPS

-----------------------------------------------------------------------------
(***************************************************************************)
(* The inductive invariant.  What the source label names must have been    *)
(* stored last, and what it calls current must be the submission that may  *)
(* still commit; that one was sent for the stage on the page, in a session *)
(* that is still open.                                                     *)
(***************************************************************************)

\* A label of the server's evidence stands with its own run, plan and stage.
LabelFits(v, rs) ==
    v.evidence.source \in {"api", "stale"} =>
        /\ v.evidence.run # 0 /\ v.evidence.run = v.lastPlan
        /\ v.plan = v.evidence.run /\ rs[v.evidence.run].stage = v.planStage

\* A label of the browser stands with the browser's plan for the stage selected.
BrowserFits(v) ==
    v.evidence.source = "browser" => v.plan = 0 /\ v.planStage = v.stage

\* Before the scenario is there, nothing is shown and nothing was sent.
NothingYet(v) ==
    ~HasScenario(v) =>
        v.evidence.source = "none" /\ v.lastPlan = 0 /\ v.current = 0

KeyIsHeld(v) == v.apiMode => v.apiKey \in Keys

\* The current submission is of this session, this generation and this stage.
CurrentFits(v, rs) ==
    v.current # 0 =>
        /\ v.apiMode
        /\ rs[v.current].generation = v.generation
        /\ rs[v.current].stage = v.stage

FreshIsCurrent(v) == v.evidence.source = "api" => v.current = v.lastPlan

\* What holds of the page and its submissions, but for the label "api".
Settled(v, rs) ==
    LabelFits(v, rs) /\ BrowserFits(v) /\ NothingYet(v) /\ KeyIsHeld(v) /\ CurrentFits(v, rs)

ViewInv == TypeOK /\ Settled(view, requests) /\ FreshIsCurrent(view)

LEMMA FreshFollows == ViewInv => FreshEvidenceIsCurrent
BY DEF ViewInv, TypeOK, ViewType, Settled, LabelFits, BrowserFits, CurrentFits,
       FreshIsCurrent, FreshEvidenceIsCurrent

-----------------------------------------------------------------------------
(***************************************************************************)
(* The functions of the page: types and the fields they set.               *)
(***************************************************************************)

\* A change of one field keeps the type.
LEMMA OneField ==
    ASSUME NEW v \in ViewType
    PROVE  /\ \A x \in Scenarios : [v EXCEPT !.scenario = x] \in ViewType
           /\ \A x \in BOOLEAN : [v EXCEPT !.apiMode = x] \in ViewType
           /\ \A x \in Keys \union {None} : [v EXCEPT !.apiKey = x] \in ViewType
           /\ \A x \in Keys \union {None} : [v EXCEPT !.field = x] \in ViewType
           /\ \A x \in BOOLEAN : [v EXCEPT !.pending = x] \in ViewType
           /\ \A x \in Stages : [v EXCEPT !.stage = x] \in ViewType
           /\ \A x \in Nat \union {None} : [v EXCEPT !.plan = x] \in ViewType
           /\ \A x \in Stages : [v EXCEPT !.planStage = x] \in ViewType
           /\ \A x \in Nat : [v EXCEPT !.lastPlan = x] \in ViewType
           /\ \A x \in Nat : [v EXCEPT !.current = x] \in ViewType
           /\ [v EXCEPT !.generation = @ + 1] \in ViewType
           /\ [v EXCEPT !.connectionGen = @ + 1] \in ViewType
           /\ \A x \in {"idle", "verifying", "writing", "retrying", "connected", "error"} :
                 [v EXCEPT !.status = x] \in ViewType
BY DEF ViewType

LEMMA EvidenceField ==
    ASSUME NEW v \in ViewType, NEW run \in Nat,
           NEW source \in {"none", "browser", "api", "stale"}
    PROVE  [v EXCEPT !.evidence = [source |-> source, run |-> run]] \in ViewType
BY DEF ViewType

LEMMA RenderBrowserStageFields ==
    ASSUME NEW v \in ViewType
    PROVE LET w == RenderBrowserStage(v) IN
        /\ w \in ViewType
        /\ w.evidence = [source |-> "browser", run |-> 0]
        /\ w.plan = 0 /\ w.planStage = v.stage
        /\ w.scenario = v.scenario /\ w.apiMode = v.apiMode /\ w.apiKey = v.apiKey
        /\ w.stage = v.stage /\ w.lastPlan = v.lastPlan /\ w.current = v.current
        /\ w.generation = v.generation
<1> DEFINE a == [v EXCEPT !.plan = 0]
           b == [a EXCEPT !.planStage = v.stage]
           c == [b EXCEPT !.evidence = [source |-> "browser", run |-> 0]]
           w == [c EXCEPT !.status = "idle"]
<1>1. RenderBrowserStage(v) = w
  BY DEF RenderBrowserStage, RenderPlan
<1>2. a \in ViewType /\ v.stage \in Stages
  BY OneField DEF ViewType
<1>3. b \in ViewType
  <2> HIDE DEF a
  <2> QED
    BY <1>2, OneField
<1>4. c \in ViewType
  <2> HIDE DEF b
  <2> QED
    BY <1>3, EvidenceField
<1>5. w \in ViewType
  <2> HIDE DEF c
  <2> QED
    BY <1>4, OneField
<1>6. /\ w.evidence = [source |-> "browser", run |-> 0]
      /\ w.plan = 0 /\ w.planStage = v.stage
      /\ w.scenario = v.scenario /\ w.apiMode = v.apiMode /\ w.apiKey = v.apiKey
      /\ w.stage = v.stage /\ w.lastPlan = v.lastPlan /\ w.current = v.current
      /\ w.generation = v.generation
  BY DEF ViewType
<1> HIDE DEF w
<1> QED
  BY <1>1, <1>5, <1>6

LEMMA MarkStaleFields ==
    ASSUME NEW v \in ViewType, requests \in Seq(RequestType),
           v.lastPlan \in 0..Len(requests)
    PROVE LET w == MarkStale(v) IN
        /\ w \in ViewType
        /\ v.lastPlan = 0 => w = v
        /\ v.lastPlan # 0 =>
              /\ w.evidence = [source |-> "stale", run |-> v.lastPlan]
              /\ w.plan = v.lastPlan /\ w.planStage = requests[v.lastPlan].stage
        /\ w.scenario = v.scenario /\ w.apiMode = v.apiMode /\ w.apiKey = v.apiKey
        /\ w.stage = v.stage /\ w.lastPlan = v.lastPlan /\ w.current = v.current
        /\ w.generation = v.generation /\ w.status = v.status
<1>1. CASE v.lastPlan = 0
  BY <1>1 DEF MarkStale
<1>2. CASE v.lastPlan # 0
  <2> DEFINE s == requests[v.lastPlan].stage
             a == [v EXCEPT !.plan = v.lastPlan]
             b == [a EXCEPT !.planStage = s]
             w == [b EXCEPT !.evidence = [source |-> "stale", run |-> v.lastPlan]]
  <2>1. MarkStale(v) = w
    BY <1>2 DEF MarkStale, RenderPlan
  <2>2. v.lastPlan \in 1..Len(requests) /\ v.lastPlan \in Nat
    BY <1>2 DEF ViewType
  <2>3. s \in Stages
    <3>1. requests[v.lastPlan] \in RequestType
      BY <2>2, ElementOfSeq
    <3> QED
      BY <3>1 DEF RequestType
  <2>4. a \in ViewType
    BY <2>2, OneField
  <2>5. b \in ViewType
    <3> HIDE DEF a, s
    <3> QED
      BY <2>3, <2>4, OneField
  <2>6. w \in ViewType
    <3> HIDE DEF b
    <3> QED
      BY <2>2, <2>5, EvidenceField
  <2>7. /\ w.evidence = [source |-> "stale", run |-> v.lastPlan]
        /\ w.plan = v.lastPlan /\ w.planStage = s
        /\ w.scenario = v.scenario /\ w.apiMode = v.apiMode /\ w.apiKey = v.apiKey
        /\ w.stage = v.stage /\ w.lastPlan = v.lastPlan /\ w.current = v.current
        /\ w.generation = v.generation /\ w.status = v.status
    <3> HIDE DEF s
    <3> QED
      BY DEF ViewType
  <2> HIDE DEF w
  <2> QED
    BY <1>2, <2>1, <2>6, <2>7
<1> QED
  BY <1>1, <1>2

LEMMA ShowFailureFields ==
    ASSUME NEW v \in ViewType, requests \in Seq(RequestType),
           v.lastPlan \in 0..Len(requests)
    PROVE LET w == ShowFailure(v)
              m == MarkStale(v) IN
        /\ w \in ViewType /\ w.status = "error"
        /\ w.evidence = m.evidence /\ w.plan = m.plan /\ w.planStage = m.planStage
        /\ w.scenario = v.scenario /\ w.apiMode = v.apiMode /\ w.apiKey = v.apiKey
        /\ w.stage = v.stage /\ w.lastPlan = v.lastPlan /\ w.current = v.current
        /\ w.generation = v.generation
<1> DEFINE m == MarkStale(v)
<1>1. /\ m \in ViewType
      /\ m.scenario = v.scenario /\ m.apiMode = v.apiMode /\ m.apiKey = v.apiKey
      /\ m.stage = v.stage /\ m.lastPlan = v.lastPlan /\ m.current = v.current
      /\ m.generation = v.generation
  BY MarkStaleFields
<1> HIDE DEF m
<1>2. [m EXCEPT !.status = "error"] \in ViewType
  BY <1>1, OneField
<1> QED
  BY <1>1, <1>2 DEF ShowFailure, m, ViewType

LEMMA InvalidateRequestsFields ==
    ASSUME NEW v \in ViewType
    PROVE LET w == InvalidateRequests(v) IN
        /\ w \in ViewType
        /\ w.generation = v.generation + 1 /\ w.current = 0
        /\ w.evidence = v.evidence /\ w.plan = v.plan /\ w.planStage = v.planStage
        /\ w.scenario = v.scenario /\ w.apiMode = v.apiMode /\ w.apiKey = v.apiKey
        /\ w.stage = v.stage /\ w.lastPlan = v.lastPlan
<1> DEFINE a == [v EXCEPT !.generation = @ + 1]
<1>1. a \in ViewType
  BY OneField
<1>2. [a EXCEPT !.current = 0] \in ViewType
  <2> HIDE DEF a
  <2> QED
    BY <1>1, OneField
<1>3. InvalidateRequests(v) = [a EXCEPT !.current = 0]
  BY DEF InvalidateRequests
<1>4. /\ a.generation = v.generation + 1
      /\ a.evidence = v.evidence /\ a.plan = v.plan /\ a.planStage = v.planStage
      /\ a.scenario = v.scenario /\ a.apiMode = v.apiMode /\ a.apiKey = v.apiKey
      /\ a.stage = v.stage /\ a.lastPlan = v.lastPlan
  BY DEF ViewType
<1> HIDE DEF a
<1> QED
  BY <1>1, <1>2, <1>3, <1>4 DEF ViewType

LEMMA ClearAuthenticationFields ==
    ASSUME NEW v \in ViewType
    PROVE LET w == ClearAuthentication(v) IN
        /\ w \in ViewType
        /\ w.current = 0 /\ ~w.apiMode
        /\ w.evidence = v.evidence /\ w.plan = v.plan /\ w.planStage = v.planStage
        /\ w.scenario = v.scenario /\ w.stage = v.stage /\ w.lastPlan = v.lastPlan
<1> DEFINE i == InvalidateRequests(v)
           a == [i EXCEPT !.apiMode = FALSE]
           b == [a EXCEPT !.apiKey = None]
           c == [b EXCEPT !.field = None]
           d == [c EXCEPT !.pending = FALSE]
<1>1. ClearAuthentication(v) = d
  BY DEF ClearAuthentication
<1>2. /\ i \in ViewType /\ i.current = 0
      /\ i.evidence = v.evidence /\ i.plan = v.plan /\ i.planStage = v.planStage
      /\ i.scenario = v.scenario /\ i.stage = v.stage /\ i.lastPlan = v.lastPlan
  BY InvalidateRequestsFields
<1> HIDE DEF i
<1>3. a \in ViewType
  BY <1>2, OneField
<1>4. b \in ViewType
  <2> HIDE DEF a
  <2> QED
    BY <1>3, OneField
<1>5. c \in ViewType
  <2> HIDE DEF b
  <2> QED
    BY <1>4, OneField
<1>6. d \in ViewType
  <2> HIDE DEF c
  <2> QED
    BY <1>5, OneField
<1>7. /\ d.current = i.current /\ d.apiMode = FALSE
      /\ d.evidence = i.evidence /\ d.plan = i.plan /\ d.planStage = i.planStage
      /\ d.scenario = i.scenario /\ d.stage = i.stage /\ d.lastPlan = i.lastPlan
  BY <1>2 DEF ViewType
<1> HIDE DEF d
<1> QED
  BY <1>1, <1>2, <1>6, <1>7

-----------------------------------------------------------------------------
(***************************************************************************)
(* The functions of the page and the invariant.                            *)
(***************************************************************************)

\* A shown failure leaves no label "api" behind.
LEMMA FailureSettles ==
    ASSUME NEW v \in ViewType, requests \in Seq(RequestType),
           v.lastPlan \in 0..Len(requests), Settled(v, requests)
    PROVE  Settled(ShowFailure(v), requests) /\ FreshIsCurrent(ShowFailure(v))
<1> DEFINE m == MarkStale(v)
           w == ShowFailure(v)
<1>1. /\ v.lastPlan = 0 => m = v
      /\ v.lastPlan # 0 =>
            /\ m.evidence = [source |-> "stale", run |-> v.lastPlan]
            /\ m.plan = v.lastPlan /\ m.planStage = requests[v.lastPlan].stage
  BY MarkStaleFields
<1>2. /\ w.evidence = m.evidence /\ w.plan = m.plan /\ w.planStage = m.planStage
      /\ w.scenario = v.scenario /\ w.apiMode = v.apiMode /\ w.apiKey = v.apiKey
      /\ w.stage = v.stage /\ w.lastPlan = v.lastPlan /\ w.current = v.current
      /\ w.generation = v.generation
  BY ShowFailureFields
<1> HIDE DEF m, w
<1>3. KeyIsHeld(w) /\ CurrentFits(w, requests)
  BY <1>2 DEF Settled, KeyIsHeld, CurrentFits
<1>4. LabelFits(w, requests)
  BY <1>1, <1>2 DEF Settled, LabelFits
<1>5. BrowserFits(w)
  BY <1>1, <1>2 DEF Settled, BrowserFits
<1>6. NothingYet(w)
  BY <1>1, <1>2 DEF Settled, NothingYet, HasScenario
<1>7. FreshIsCurrent(w)
  BY <1>1, <1>2 DEF Settled, LabelFits, FreshIsCurrent
<1> QED
  BY <1>3, <1>4, <1>5, <1>6, <1>7 DEF Settled, w

LEMMA ClearingSettles ==
    ASSUME NEW v \in ViewType, Settled(v, requests)
    PROVE  Settled(ClearAuthentication(v), requests)
<1> DEFINE w == ClearAuthentication(v)
<1>1. /\ w.current = 0 /\ ~w.apiMode
      /\ w.evidence = v.evidence /\ w.plan = v.plan /\ w.planStage = v.planStage
      /\ w.scenario = v.scenario /\ w.stage = v.stage /\ w.lastPlan = v.lastPlan
  BY ClearAuthenticationFields
<1> HIDE DEF w
<1>2. Settled(w, requests)
  BY <1>1 DEF Settled, LabelFits, BrowserFits, NothingYet, HasScenario, KeyIsHeld, CurrentFits
<1> QED
  BY <1>2 DEF w

LEMMA SubmittingFields ==
    ASSUME NEW v \in ViewType, requests \in Seq(RequestType),
           v.lastPlan \in 0..Len(requests)
    PROVE LET w == Submitting(v) IN
        /\ w \in ViewType
        /\ w.generation = v.generation + 1 /\ w.current = Len(requests) + 1
        /\ v.lastPlan = 0 => /\ w.evidence = v.evidence /\ w.plan = v.plan
                             /\ w.planStage = v.planStage
        /\ v.lastPlan # 0 =>
              /\ w.evidence = [source |-> "stale", run |-> v.lastPlan]
              /\ w.plan = v.lastPlan /\ w.planStage = requests[v.lastPlan].stage
        /\ w.scenario = v.scenario /\ w.apiMode = v.apiMode /\ w.apiKey = v.apiKey
        /\ w.stage = v.stage /\ w.lastPlan = v.lastPlan
<1> DEFINE a == [v EXCEPT !.generation = @ + 1]
           b == [a EXCEPT !.current = Len(requests) + 1]
           m == MarkStale(b)
<1>1. a \in ViewType /\ Len(requests) + 1 \in Nat
  <2>1. Len(requests) + 1 \in Nat
    BY LenProperties
  <2> QED
    BY <2>1, OneField
<1>2. b \in ViewType
  <2> HIDE DEF a
  <2> QED
    BY <1>1, OneField
<1>3. /\ b.generation = v.generation + 1 /\ b.current = Len(requests) + 1
      /\ b.evidence = v.evidence /\ b.plan = v.plan /\ b.planStage = v.planStage
      /\ b.scenario = v.scenario /\ b.apiMode = v.apiMode /\ b.apiKey = v.apiKey
      /\ b.stage = v.stage /\ b.lastPlan = v.lastPlan
  BY DEF ViewType
<1>4. Submitting(v) = [m EXCEPT !.status = "writing"]
  BY DEF Submitting
<1> HIDE DEF b
<1>5. /\ m \in ViewType
      /\ b.lastPlan = 0 => m = b
      /\ b.lastPlan # 0 =>
            /\ m.evidence = [source |-> "stale", run |-> b.lastPlan]
            /\ m.plan = b.lastPlan /\ m.planStage = requests[b.lastPlan].stage
      /\ m.scenario = b.scenario /\ m.apiMode = b.apiMode /\ m.apiKey = b.apiKey
      /\ m.stage = b.stage /\ m.lastPlan = b.lastPlan /\ m.current = b.current
      /\ m.generation = b.generation
  BY <1>2, <1>3, MarkStaleFields
<1> HIDE DEF m
<1> DEFINE w == [m EXCEPT !.status = "writing"]
<1>6. w \in ViewType
  BY <1>5, OneField
<1>7. /\ w.evidence = m.evidence /\ w.plan = m.plan /\ w.planStage = m.planStage
      /\ w.scenario = m.scenario /\ w.apiMode = m.apiMode /\ w.apiKey = m.apiKey
      /\ w.stage = m.stage /\ w.lastPlan = m.lastPlan /\ w.current = m.current
      /\ w.generation = m.generation
  BY <1>5 DEF ViewType
<1> HIDE DEF w
<1>8. /\ w.generation = v.generation + 1 /\ w.current = Len(requests) + 1
      /\ w.scenario = v.scenario /\ w.apiMode = v.apiMode /\ w.apiKey = v.apiKey
      /\ w.stage = v.stage /\ w.lastPlan = v.lastPlan
  BY <1>3, <1>5, <1>7
<1>9. v.lastPlan = 0 => /\ w.evidence = v.evidence /\ w.plan = v.plan
                        /\ w.planStage = v.planStage
  BY <1>3, <1>5, <1>7
<1>10. v.lastPlan # 0 =>
           /\ w.evidence = [source |-> "stale", run |-> v.lastPlan]
           /\ w.plan = v.lastPlan /\ w.planStage = requests[v.lastPlan].stage
  BY <1>3, <1>5, <1>7
<1> QED
  BY <1>4, <1>6, <1>8, <1>9, <1>10 DEF w

-----------------------------------------------------------------------------
(***************************************************************************)
(* Submissions.                                                            *)
(***************************************************************************)

\* What every step leaves of the submissions under way.
Bounded(v, rs) ==
    /\ rs \in Seq(RequestType) /\ v \in ViewType
    /\ v.lastPlan \in 0..Len(rs) /\ v.current \in 0..Len(rs)

SubmissionsKept(rs) ==
    /\ rs \in Seq(RequestType) /\ Len(rs) = Len(requests)
    /\ \A i \in 1..Len(requests) : /\ rs[i].stage = requests[i].stage
                                   /\ rs[i].generation = requests[i].generation

LEMMA KeptSettles ==
    ASSUME NEW v, NEW rs, Bounded(v, requests), Settled(v, requests), SubmissionsKept(rs)
    PROVE  Bounded(v, rs) /\ Settled(v, rs)
<1>1. Bounded(v, rs)
  BY DEF Bounded, SubmissionsKept
<1>2. v.evidence.source \in {"api", "stale"} => v.evidence.run \in 1..Len(requests)
  BY DEF Bounded, Settled, LabelFits
<1>3. v.current # 0 => v.current \in 1..Len(requests)
  BY DEF Bounded
<1>4. LabelFits(v, rs)
  BY <1>2 DEF Settled, LabelFits, SubmissionsKept
<1>5. CurrentFits(v, rs)
  BY <1>3 DEF Settled, CurrentFits, SubmissionsKept
<1> QED
  BY <1>1, <1>4, <1>5 DEF Settled

LEMMA ReplacedRequestKeeps ==
    ASSUME requests \in Seq(RequestType), NEW n \in DOMAIN requests, NEW r \in RequestType,
           r.stage = requests[n].stage, r.generation = requests[n].generation
    PROVE  SubmissionsKept([requests EXCEPT ![n] = r])
<1>1. n \in 1..Len(requests)
  BY LenProperties
<1> DEFINE rs == [requests EXCEPT ![n] = r]
<1>2. rs \in Seq(RequestType) /\ Len(rs) = Len(requests)
  BY <1>1, ExceptSeq
<1>3. \A i \in 1..Len(requests) : rs[i] = IF i = n THEN r ELSE requests[i]
  BY <1>1, LenProperties
<1> HIDE DEF rs
<1>4. \A i \in 1..Len(requests) : /\ rs[i].stage = requests[i].stage
                                  /\ rs[i].generation = requests[i].generation
  BY <1>3
<1> QED
  BY <1>2, <1>4 DEF SubmissionsKept, rs

LEMMA EndsKeeps ==
    ASSUME requests \in Seq(RequestType), NEW n \in DOMAIN requests, Ends(n)
    PROVE  SubmissionsKept(requests')
<1>1. requests[n] \in RequestType
  BY ElementOfSeq, LenProperties
<1> DEFINE r == [requests[n] EXCEPT !.phase = "done", !.answer = "none"]
<1>2. r \in RequestType /\ r.stage = requests[n].stage
      /\ r.generation = requests[n].generation
  BY <1>1 DEF RequestType
<1>3. requests' = [requests EXCEPT ![n] = r]
  BY DEF Ends
<1> HIDE DEF r
<1> QED
  BY <1>2, <1>3, ReplacedRequestKeeps DEF r

\* A submission is the current one of the page it leaves behind.
LEMMA SubmitSettles ==
    ASSUME NEW v, Bounded(v, requests), SubmitCurrentStage(v),
           LabelFits(v, requests), BrowserFits(v), NothingYet(v), KeyIsHeld(v),
           ~Submits(v) => CurrentFits(v, requests) /\ FreshIsCurrent(v)
    PROVE  Bounded(view', requests') /\ Settled(view', requests') /\ FreshIsCurrent(view')
<1>1. CASE ~Submits(v)
  <2>1. view' = v /\ requests' = requests
    BY <1>1 DEF SubmitCurrentStage
  <2> QED
    BY <1>1, <2>1 DEF Settled
<1>2. CASE Submits(v)
  <2> DEFINE w == Submitting(v)
             r == NewRequest(w)
             rs == Append(requests, r)
             N == Len(requests)
  <2>1. view' = w /\ requests' = rs
    BY <1>2 DEF SubmitCurrentStage
  <2>2. v \in ViewType /\ requests \in Seq(RequestType) /\ v.lastPlan \in 0..N /\ N \in Nat
    BY LenProperties DEF Bounded
  <2>3. /\ w \in ViewType
        /\ w.generation = v.generation + 1 /\ w.current = N + 1
        /\ v.lastPlan = 0 => /\ w.evidence = v.evidence /\ w.plan = v.plan
                             /\ w.planStage = v.planStage
        /\ v.lastPlan # 0 =>
              /\ w.evidence = [source |-> "stale", run |-> v.lastPlan]
              /\ w.plan = v.lastPlan /\ w.planStage = requests[v.lastPlan].stage
        /\ w.scenario = v.scenario /\ w.apiMode = v.apiMode /\ w.apiKey = v.apiKey
        /\ w.stage = v.stage /\ w.lastPlan = v.lastPlan
    BY <2>2, SubmittingFields
  <2>4. w.apiMode /\ HasScenario(w) /\ w.apiKey \in Keys
    BY <1>2, <2>3 DEF Submits, HasScenario, KeyIsHeld
  <2> HIDE DEF w
  <2>5. /\ w.stage \in Stages /\ w.generation \in Nat
    BY <2>3 DEF ViewType
  <2>6. r \in RequestType /\ r.stage = w.stage /\ r.generation = w.generation
    BY <2>4, <2>5 DEF NewRequest, RequestType
  <2> HIDE DEF r
  <2>7. /\ rs \in Seq(RequestType) /\ Len(rs) = N + 1
        /\ \A i \in 1..N : rs[i] = requests[i]
        /\ rs[N + 1] = r
    BY <2>2, <2>6, AppendProperties
  <2> HIDE DEF rs
  <2>8. Bounded(w, rs)
    BY <2>2, <2>3, <2>7 DEF Bounded
  <2>9. LabelFits(w, rs)
    <3>1. CASE v.lastPlan = 0
      BY <2>3, <3>1 DEF LabelFits
    <3>2. CASE v.lastPlan # 0
      <4>1. rs[v.lastPlan] = requests[v.lastPlan]
        BY <2>2, <2>7, <3>2
      <4> QED
        BY <2>3, <3>2, <4>1 DEF LabelFits
    <3> QED
      BY <3>1, <3>2
  <2>10. BrowserFits(w)
    BY <2>3 DEF BrowserFits
  <2>11. NothingYet(w) /\ KeyIsHeld(w)
    BY <2>4 DEF NothingYet, KeyIsHeld
  <2>12. CurrentFits(w, rs)
    BY <2>3, <2>4, <2>6, <2>7 DEF CurrentFits
  <2>13. FreshIsCurrent(w)
    BY <2>3 DEF LabelFits, FreshIsCurrent
  <2> QED
    BY <2>1, <2>8, <2>9, <2>10, <2>11, <2>12, <2>13 DEF Settled
<1> QED
  BY <1>1, <1>2

-----------------------------------------------------------------------------
(***************************************************************************)
(* Loading, the owner, the connections and the other page.                 *)
(***************************************************************************)

Others ==
    /\ connects \subseteq [generation: Nat, key: Keys]
    /\ saved \in Keys \union {None} /\ sessions \in Nat

PageInv(v, rs) == Bounded(v, rs) /\ Settled(v, rs) /\ FreshIsCurrent(v)

LEMMA InvOfPage == ViewInv <=> PageInv(view, requests) /\ Others
BY DEF ViewInv, PageInv, TypeOK, Bounded, Others

LEMMA LoadingKeepsInv ==
    ASSUME ViewInv, Loading PROVE PageInv(view, requests)' /\ Others'
<1>0. /\ PageInv(view, requests) /\ Others
      /\ view \in ViewType /\ requests \in Seq(RequestType)
  BY InvOfPage DEF PageInv, Bounded
<1>1. ASSUME NEW default \in Stages, ScenarioLoaded(default)
      PROVE  PageInv(view, requests)' /\ Others'
  <2> DEFINE a == [view EXCEPT !.scenario = "ready"]
             b == [a EXCEPT !.stage = default]
             v == RenderBrowserStage(b)
  <2>1. a \in ViewType
    BY <1>0, OneField DEF Scenarios
  <2>2. b \in ViewType
    <3> HIDE DEF a
    <3> QED
      BY <2>1, OneField
  <2>3. /\ b.apiMode = view.apiMode /\ b.apiKey = view.apiKey
        /\ b.stage = default /\ b.lastPlan = view.lastPlan /\ b.current = view.current
    BY <1>0 DEF ViewType
  <2>4. view.current = 0 /\ view.lastPlan = 0
    BY <1>0, <1>1 DEF ScenarioLoaded, PageInv, Settled, NothingYet, HasScenario
  <2>5. SubmitCurrentStage(v)
    BY <1>1 DEF ScenarioLoaded
  <2> HIDE DEF b
  <2>6. /\ v \in ViewType
        /\ v.evidence = [source |-> "browser", run |-> 0]
        /\ v.plan = 0 /\ v.planStage = b.stage
        /\ v.apiMode = view.apiMode /\ v.apiKey = view.apiKey
        /\ v.stage = b.stage /\ v.lastPlan = 0 /\ v.current = 0
    BY <2>2, <2>3, <2>4, RenderBrowserStageFields
  <2> HIDE DEF v
  <2>7. Bounded(v, requests)
    BY <1>0, <2>4, <2>6 DEF Bounded, PageInv
  <2>8. LabelFits(v, requests) /\ BrowserFits(v)
    BY <2>6 DEF LabelFits, BrowserFits
  <2>9. v.scenario = "ready"
    <3>1. b.scenario = "ready"
      BY <1>0 DEF b, ViewType
    <3> QED
      BY <3>1, <2>2, RenderBrowserStageFields DEF v
  <2>10. NothingYet(v) /\ KeyIsHeld(v)
    BY <1>0, <2>6, <2>9 DEF NothingYet, HasScenario, KeyIsHeld, PageInv, Settled
  <2>11. CurrentFits(v, requests) /\ FreshIsCurrent(v)
    BY <2>6 DEF CurrentFits, FreshIsCurrent
  <2>12. PageInv(view', requests')
    BY <2>5, <2>7, <2>8, <2>10, <2>11, SubmitSettles DEF PageInv
  <2> QED
    BY <1>0, <1>1, <2>12 DEF ScenarioLoaded, Others
<1>2. CASE ScenarioFails
  <2>0. PICK result \in {"failed", "mismatched"} :
            view' = [view EXCEPT !.scenario = result, !.status = "error"]
    BY <1>2 DEF ScenarioFails
  <2> DEFINE a == [view EXCEPT !.scenario = result]
             w == [a EXCEPT !.status = "error"]
  <2>1. a \in ViewType
    <3>1. result \in Scenarios
      BY DEF Scenarios
    <3> QED
      BY <1>0, <3>1, OneField
  <2>2. w \in ViewType
    <3> HIDE DEF a
    <3> QED
      BY <2>1, OneField
  <2>3. /\ w.evidence = view.evidence /\ w.plan = view.plan /\ w.planStage = view.planStage
        /\ w.apiMode = view.apiMode /\ w.apiKey = view.apiKey
        /\ w.stage = view.stage /\ w.lastPlan = view.lastPlan /\ w.current = view.current
        /\ w.generation = view.generation
    BY <1>0 DEF ViewType
  <2>4. /\ view' = w /\ requests' = requests /\ UNCHANGED <<connects, saved, sessions>>
        /\ view.scenario = "loading"
    BY <1>2, <2>0 DEF ScenarioFails
  <2> HIDE DEF w
  <2>5. Bounded(w, requests)
    BY <1>0, <2>2, <2>3 DEF PageInv, Bounded
  <2>6. LabelFits(w, requests) /\ CurrentFits(w, requests)
    BY <1>0, <2>3 DEF PageInv, Settled, LabelFits, CurrentFits
  <2>7. BrowserFits(w) /\ KeyIsHeld(w) /\ FreshIsCurrent(w)
    BY <1>0, <2>3 DEF PageInv, Settled, BrowserFits, KeyIsHeld, FreshIsCurrent
  <2>8. NothingYet(w)
    BY <1>0, <2>3, <2>4 DEF PageInv, Settled, NothingYet, HasScenario
  <2> QED
    BY <1>0, <2>4, <2>5, <2>6, <2>7, <2>8 DEF PageInv, Settled, Others
<1> QED
  BY <1>1, <1>2 DEF Loading

\* A page that differs in the fields no evidence depends on.
LEMMA OtherFieldsKeep ==
    ASSUME NEW v \in ViewType, NEW w \in ViewType, NEW rs, PageInv(v, rs),
           w.evidence = v.evidence, w.plan = v.plan, w.planStage = v.planStage,
           w.scenario = v.scenario, w.apiMode = v.apiMode, w.apiKey = v.apiKey,
           w.stage = v.stage, w.lastPlan = v.lastPlan, w.current = v.current,
           w.generation = v.generation
    PROVE  PageInv(w, rs)
<1>1. Bounded(w, rs)
  BY DEF PageInv, Bounded
<1>2. LabelFits(w, rs) /\ CurrentFits(w, rs)
  BY DEF PageInv, Settled, LabelFits, CurrentFits
<1>3. BrowserFits(w) /\ KeyIsHeld(w) /\ FreshIsCurrent(w) /\ NothingYet(w)
  BY DEF PageInv, Settled, BrowserFits, KeyIsHeld, FreshIsCurrent, NothingYet, HasScenario
<1> QED
  BY <1>1, <1>2, <1>3 DEF PageInv, Settled

LEMMA SelectKeepsInv ==
    ASSUME ViewInv, NEW stage \in Stages, SelectStage(stage)
    PROVE  PageInv(view, requests)' /\ Others'
<1>0. /\ PageInv(view, requests) /\ Others
      /\ view \in ViewType /\ requests \in Seq(RequestType)
      /\ view.lastPlan \in 0..Len(requests) /\ view.scenario = "ready"
  BY InvOfPage DEF PageInv, Bounded, SelectStage
<1> DEFINE v == [view EXCEPT !.stage = stage]
<1>1. v \in ViewType
  BY <1>0, OneField
<1>2. /\ v.apiMode = view.apiMode /\ v.apiKey = view.apiKey /\ v.scenario = "ready"
      /\ v.stage = stage /\ v.lastPlan = view.lastPlan /\ v.current = view.current
  BY <1>0 DEF ViewType
<1>3. UNCHANGED <<connects, saved, sessions>>
  BY DEF SelectStage
<1>4. CASE ~v.apiMode \/ v.lastPlan = 0
  <2> DEFINE w == RenderBrowserStage(v)
  <2>1. SubmitCurrentStage(w)
    BY <1>4 DEF SelectStage
  <2> HIDE DEF v
  <2>2. /\ w \in ViewType
        /\ w.evidence = [source |-> "browser", run |-> 0]
        /\ w.plan = 0 /\ w.planStage = w.stage /\ w.scenario = "ready"
        /\ w.apiMode = view.apiMode /\ w.apiKey = view.apiKey
        /\ w.lastPlan = view.lastPlan /\ w.current = view.current
    BY <1>1, <1>2, RenderBrowserStageFields
  <2> HIDE DEF w
  <2>3. Bounded(w, requests)
    BY <1>0, <2>2 DEF Bounded, PageInv
  <2>4. LabelFits(w, requests) /\ BrowserFits(w) /\ NothingYet(w) /\ FreshIsCurrent(w)
    BY <2>2 DEF LabelFits, BrowserFits, NothingYet, HasScenario, FreshIsCurrent
  <2>5. KeyIsHeld(w)
    BY <1>0, <2>2 DEF PageInv, Settled, KeyIsHeld
  <2>6. ~Submits(w) => CurrentFits(w, requests)
    BY <1>0, <2>2 DEF PageInv, Settled, CurrentFits, Submits, HasScenario
  <2>7. PageInv(view', requests')
    BY <2>1, <2>3, <2>4, <2>5, <2>6, SubmitSettles DEF PageInv
  <2> QED
    BY <1>0, <1>3, <2>7 DEF Others
<1>5. CASE ~(~v.apiMode \/ v.lastPlan = 0)
  <2> DEFINE w == MarkStale(v)
  <2>1. SubmitCurrentStage(w)
    BY <1>5 DEF SelectStage
  <2>2. v.apiMode /\ v.lastPlan # 0
    BY <1>5
  <2> HIDE DEF v
  <2>3. /\ w \in ViewType
        /\ w.evidence = [source |-> "stale", run |-> v.lastPlan]
        /\ w.plan = v.lastPlan /\ w.planStage = requests[v.lastPlan].stage
        /\ w.scenario = "ready" /\ w.apiMode /\ w.apiKey = view.apiKey
        /\ w.lastPlan = view.lastPlan /\ w.current = view.current
    BY <1>0, <1>1, <1>2, <2>2, MarkStaleFields
  <2> HIDE DEF w
  <2>4. Bounded(w, requests)
    BY <1>0, <2>3 DEF Bounded, PageInv
  <2>5. LabelFits(w, requests) /\ BrowserFits(w) /\ NothingYet(w) /\ Submits(w)
    BY <1>2, <2>2, <2>3 DEF LabelFits, BrowserFits, NothingYet, Submits, HasScenario
  <2>6. KeyIsHeld(w)
    BY <1>0, <1>2, <2>2, <2>3 DEF PageInv, Settled, KeyIsHeld
  <2>7. PageInv(view', requests')
    BY <2>1, <2>4, <2>5, <2>6, SubmitSettles DEF PageInv
  <2> QED
    BY <1>0, <1>3, <2>7 DEF Others
<1> QED
  BY <1>4, <1>5

LEMMA SwitchKeepsInv ==
    ASSUME ViewInv, SwitchToBrowserMode PROVE PageInv(view, requests)' /\ Others'
<1>0. /\ PageInv(view, requests) /\ Others
      /\ view \in ViewType /\ requests \in Seq(RequestType)
      /\ view.lastPlan \in 0..Len(requests) /\ Len(requests) \in Nat
  BY InvOfPage, LenProperties DEF PageInv, Bounded
<1> DEFINE i == InvalidateRequests(view)
           a == [i EXCEPT !.apiMode = FALSE]
           v == [a EXCEPT !.apiKey = None]
<1>1. /\ view' = IF HasScenario(v) THEN RenderBrowserStage(v) ELSE v
      /\ requests' = requests /\ UNCHANGED <<connects, saved, sessions>>
  BY DEF SwitchToBrowserMode
<1>2. /\ i \in ViewType
      /\ i.current = 0 /\ i.evidence = view.evidence /\ i.scenario = view.scenario
      /\ i.lastPlan = view.lastPlan
  BY <1>0, InvalidateRequestsFields
<1> HIDE DEF i
<1>3. a \in ViewType
  BY <1>2, OneField
<1>4. v \in ViewType
  <2> HIDE DEF a
  <2> QED
    BY <1>3, OneField
<1>5. /\ v.current = 0 /\ v.apiMode = FALSE /\ v.evidence = view.evidence
      /\ v.scenario = view.scenario /\ v.lastPlan = view.lastPlan
  BY <1>2 DEF ViewType
<1> HIDE DEF v
<1> DEFINE w == RenderBrowserStage(v)
<1>6. CASE HasScenario(v)
  <2>1. /\ w \in ViewType
        /\ w.evidence = [source |-> "browser", run |-> 0]
        /\ w.plan = 0 /\ w.planStage = w.stage /\ w.scenario = v.scenario
        /\ w.apiMode = FALSE /\ w.lastPlan = view.lastPlan /\ w.current = 0
    BY <1>4, <1>5, <1>6, RenderBrowserStageFields
  <2>2. view' = w /\ HasScenario(w)
    BY <1>1, <1>6, <2>1 DEF HasScenario
  <2> HIDE DEF w
  <2>3. Bounded(w, requests)
    BY <1>0, <2>1 DEF Bounded
  <2>4. Settled(w, requests) /\ FreshIsCurrent(w)
    BY <2>1, <2>2 DEF Settled, LabelFits, BrowserFits, NothingYet, KeyIsHeld, CurrentFits,
                     FreshIsCurrent
  <2> QED
    BY <1>0, <1>1, <2>2, <2>3, <2>4 DEF PageInv, Others
<1>7. CASE ~HasScenario(v)
  <2>1. v.evidence.source = "none" /\ v.lastPlan = 0
    BY <1>0, <1>5, <1>7 DEF PageInv, Settled, NothingYet, HasScenario
  <2>2. Bounded(v, requests)
    BY <1>0, <1>4, <1>5 DEF Bounded
  <2>3. Settled(v, requests) /\ FreshIsCurrent(v)
    BY <1>5, <2>1 DEF Settled, LabelFits, BrowserFits, NothingYet, KeyIsHeld, CurrentFits,
                FreshIsCurrent
  <2> QED
    BY <1>0, <1>1, <1>7, <2>2, <2>3 DEF PageInv, Others
<1> QED
  BY <1>6, <1>7

LEMMA TypeKeyKeepsInv ==
    ASSUME ViewInv, NEW k \in Keys \union {None}, TypeKey(k)
    PROVE  PageInv(view, requests)' /\ Others'
<1>0. PageInv(view, requests) /\ Others /\ view \in ViewType
  BY InvOfPage DEF PageInv, Bounded
<1> DEFINE w == [view EXCEPT !.field = k]
<1>1. w \in ViewType
  BY <1>0, OneField
<1>2. /\ w.evidence = view.evidence /\ w.plan = view.plan /\ w.planStage = view.planStage
      /\ w.scenario = view.scenario /\ w.apiMode = view.apiMode /\ w.apiKey = view.apiKey
      /\ w.stage = view.stage /\ w.lastPlan = view.lastPlan /\ w.current = view.current
      /\ w.generation = view.generation
  BY <1>0 DEF ViewType
<1>3. view' = w /\ UNCHANGED <<requests, connects, saved, sessions>>
  BY DEF TypeKey
<1> HIDE DEF w
<1>4. PageInv(w, requests)
  BY <1>0, <1>1, <1>2, OtherFieldsKeep
<1> QED
  BY <1>0, <1>3, <1>4 DEF Others

LEMMA PressConnectKeepsInv ==
    ASSUME ViewInv, PressConnect PROVE PageInv(view, requests)' /\ Others'
<1>0. PageInv(view, requests) /\ Others /\ view \in ViewType
  BY InvOfPage DEF PageInv, Bounded
<1> DEFINE v == [view EXCEPT !.connectionGen = @ + 1]
           e == [v EXCEPT !.status = "error"]
           p == [v EXCEPT !.pending = TRUE]
           w == [p EXCEPT !.status = "verifying"]
           c == [generation |-> v.connectionGen, key |-> v.field]
<1>1. v \in ViewType
  BY <1>0, OneField
<1>2. /\ requests' = requests /\ UNCHANGED <<saved, sessions>>
      /\ \/ view' = e /\ connects' = connects
         \/ v.field # None /\ view' = w /\ connects' = connects \union {c}
  BY DEF PressConnect
<1>3. e \in ViewType /\ p \in ViewType
  <2> HIDE DEF v
  <2> QED
    BY <1>1, OneField
<1>4. w \in ViewType
  <2> HIDE DEF p
  <2> QED
    BY <1>3, OneField
<1>5. v.field # None => c \in [generation: Nat, key: Keys]
  <2> HIDE DEF v
  <2> QED
    BY <1>1 DEF ViewType
<1>6. ASSUME NEW x \in {e, w}
      PROVE  /\ x.evidence = view.evidence /\ x.plan = view.plan
             /\ x.planStage = view.planStage
             /\ x.scenario = view.scenario /\ x.apiMode = view.apiMode
             /\ x.apiKey = view.apiKey /\ x.stage = view.stage
             /\ x.lastPlan = view.lastPlan /\ x.current = view.current
             /\ x.generation = view.generation
  BY <1>0 DEF ViewType
<1> HIDE DEF e, w, v, c
<1>7. PageInv(e, requests) /\ PageInv(w, requests)
  BY <1>0, <1>3, <1>4, <1>6, OtherFieldsKeep
<1> QED
  BY <1>0, <1>2, <1>5, <1>7 DEF Others

\* A session that opens keeps the evidence and submits where it may.
LEMMA SessionOpens ==
    ASSUME PageInv(view, requests), NEW v \in ViewType, v.apiMode, v.apiKey \in Keys,
           SubmitCurrentStage(v),
           v.evidence = view.evidence, v.plan = view.plan, v.planStage = view.planStage,
           v.scenario = view.scenario, v.stage = view.stage,
           v.lastPlan = view.lastPlan, v.current = view.current,
           v.generation = view.generation
    PROVE  PageInv(view', requests')
<1>1. Bounded(v, requests)
  BY DEF PageInv, Bounded
<1>2. LabelFits(v, requests)
  BY DEF PageInv, Settled, LabelFits
<1>3. BrowserFits(v) /\ NothingYet(v) /\ KeyIsHeld(v)
  BY DEF PageInv, Settled, BrowserFits, NothingYet, HasScenario, KeyIsHeld
<1>4. ~Submits(v) => CurrentFits(v, requests) /\ FreshIsCurrent(v)
  BY DEF PageInv, Settled, NothingYet, Submits, CurrentFits, FreshIsCurrent
<1> QED
  BY <1>1, <1>2, <1>3, <1>4, SubmitSettles DEF PageInv

LEMMA VerifiedKeepsInv ==
    ASSUME ViewInv, NEW c \in connects, ConnectionVerified(c)
    PROVE  PageInv(view, requests)' /\ Others'
<1>0. PageInv(view, requests) /\ Others /\ view \in ViewType
  BY InvOfPage DEF PageInv, Bounded
<1>1. c.key \in Keys /\ c.generation \in Nat
  BY <1>0 DEF Others
<1>2. connects' = connects \ {c} /\ sessions' = sessions
  BY DEF ConnectionVerified
<1>3. CASE ConnectionCanCommit(c)
  <2> DEFINE a == [view EXCEPT !.apiMode = TRUE]
             b == [a EXCEPT !.apiKey = c.key]
             d == [b EXCEPT !.pending = FALSE]
             v == [d EXCEPT !.status = "connected"]
  <2>1. SubmitCurrentStage(v) /\ saved' = c.key
    BY <1>3 DEF ConnectionVerified
  <2>2. a \in ViewType
    BY <1>0, OneField
  <2>3. b \in ViewType
    <3> HIDE DEF a
    <3> QED
      BY <1>1, <2>2, OneField
  <2>4. d \in ViewType
    <3> HIDE DEF b
    <3> QED
      BY <2>3, OneField
  <2>5. v \in ViewType
    <3> HIDE DEF d
    <3> QED
      BY <2>4, OneField
  <2>6. /\ v.evidence = view.evidence /\ v.plan = view.plan
        /\ v.planStage = view.planStage
        /\ v.scenario = view.scenario /\ v.apiMode /\ v.apiKey = c.key
        /\ v.stage = view.stage /\ v.lastPlan = view.lastPlan
        /\ v.current = view.current /\ v.generation = view.generation
    BY <1>0 DEF ViewType
  <2> HIDE DEF v
  <2>7. PageInv(view', requests')
    BY <1>0, <1>1, <2>1, <2>5, <2>6, SessionOpens
  <2> QED
    BY <1>0, <1>1, <1>2, <2>1, <2>7 DEF Others
<1>4. CASE ~ConnectionCanCommit(c)
  <2> DEFINE w == ConnectionDone(c, view)
  <2>1. view' = w /\ UNCHANGED <<requests, saved>>
    BY <1>4 DEF ConnectionVerified
  <2>2. w \in ViewType
    BY <1>0, OneField DEF ConnectionDone
  <2>3. /\ w.evidence = view.evidence /\ w.plan = view.plan
        /\ w.planStage = view.planStage
        /\ w.scenario = view.scenario /\ w.apiMode = view.apiMode
        /\ w.apiKey = view.apiKey
        /\ w.stage = view.stage /\ w.lastPlan = view.lastPlan
        /\ w.current = view.current /\ w.generation = view.generation
    BY <1>0 DEF ConnectionDone, ViewType
  <2> HIDE DEF w
  <2>4. PageInv(w, requests)
    BY <1>0, <2>2, <2>3, OtherFieldsKeep
  <2> QED
    BY <1>0, <1>2, <2>1, <2>4 DEF Others
<1> QED
  BY <1>3, <1>4

LEMMA ConnectionFailsKeepsInv ==
    ASSUME ViewInv, NEW c \in connects, ConnectionFails(c)
    PROVE  PageInv(view, requests)' /\ Others'
<1>0. PageInv(view, requests) /\ Others /\ view \in ViewType
  BY InvOfPage DEF PageInv, Bounded
<1> DEFINE v == IF ConnectionCanCommit(c) THEN [view EXCEPT !.status = "error"] ELSE view
           w == ConnectionDone(c, v)
<1>1. view' = w /\ connects' = connects \ {c} /\ UNCHANGED <<requests, saved, sessions>>
  BY DEF ConnectionFails
<1>2. v \in ViewType
  BY <1>0, OneField
<1>3. /\ v.evidence = view.evidence /\ v.plan = view.plan /\ v.planStage = view.planStage
      /\ v.scenario = view.scenario /\ v.apiMode = view.apiMode /\ v.apiKey = view.apiKey
      /\ v.stage = view.stage /\ v.lastPlan = view.lastPlan /\ v.current = view.current
      /\ v.generation = view.generation
  BY <1>0 DEF ViewType
<1> HIDE DEF v
<1>4. PageInv(v, requests)
  BY <1>0, <1>2, <1>3, OtherFieldsKeep
<1>5. w \in ViewType
  BY <1>2, OneField DEF ConnectionDone
<1>6. /\ w.evidence = v.evidence /\ w.plan = v.plan /\ w.planStage = v.planStage
      /\ w.scenario = v.scenario /\ w.apiMode = v.apiMode /\ w.apiKey = v.apiKey
      /\ w.stage = v.stage /\ w.lastPlan = v.lastPlan /\ w.current = v.current
      /\ w.generation = v.generation
  BY <1>2 DEF ConnectionDone, ViewType
<1> HIDE DEF w
<1>7. PageInv(w, requests)
  BY <1>2, <1>4, <1>5, <1>6, OtherFieldsKeep
<1> QED
  BY <1>0, <1>1, <1>7 DEF Others

LEMMA AdoptKeepsInv ==
    ASSUME ViewInv, NEW k \in Keys, AdoptSharedSession(k)
    PROVE  PageInv(view, requests)' /\ Others'
<1>0. PageInv(view, requests) /\ Others /\ view \in ViewType
  BY InvOfPage DEF PageInv, Bounded
<1> DEFINE g == [view EXCEPT !.connectionGen = @ + 1]
           a == [g EXCEPT !.apiMode = TRUE]
           b == [a EXCEPT !.apiKey = k]
           e == [b EXCEPT !.field = k]
           d == [e EXCEPT !.pending = FALSE]
           v == [d EXCEPT !.status = "connected"]
<1>1. /\ SubmitCurrentStage(v) /\ saved' = k /\ sessions' = sessions + 1
      /\ connects' = connects
  BY DEF AdoptSharedSession
<1>2. g \in ViewType
  BY <1>0, OneField
<1>3. a \in ViewType
  <2> HIDE DEF g
  <2> QED
    BY <1>2, OneField
<1>4. b \in ViewType
  <2> HIDE DEF a
  <2> QED
    BY <1>3, OneField
<1>5. e \in ViewType
  <2> HIDE DEF b
  <2> QED
    BY <1>4, OneField
<1>6. d \in ViewType
  <2> HIDE DEF e
  <2> QED
    BY <1>5, OneField
<1>7. v \in ViewType
  <2> HIDE DEF d
  <2> QED
    BY <1>6, OneField
<1>8. /\ v.evidence = view.evidence /\ v.plan = view.plan /\ v.planStage = view.planStage
      /\ v.scenario = view.scenario /\ v.apiMode /\ v.apiKey = k
      /\ v.stage = view.stage /\ v.lastPlan = view.lastPlan
      /\ v.current = view.current /\ v.generation = view.generation
  BY <1>0 DEF ViewType
<1> HIDE DEF v
<1>9. PageInv(view', requests')
  BY <1>0, <1>1, <1>7, <1>8, SessionOpens
<1> QED
  BY <1>0, <1>1, <1>9 DEF Others

LEMMA InvalidateKeepsInv ==
    ASSUME ViewInv, InvalidateSharedSession PROVE PageInv(view, requests)' /\ Others'
<1>0. /\ PageInv(view, requests) /\ Others /\ view \in ViewType
      /\ requests \in Seq(RequestType)
  BY InvOfPage DEF PageInv, Bounded
<1> DEFINE v == [view EXCEPT !.connectionGen = @ + 1]
           c == ClearAuthentication(v)
           w == ShowFailure(c)
<1>1. /\ view' = view \/ view' = w
      /\ saved' = None /\ sessions' = sessions + 1 /\ UNCHANGED <<requests, connects>>
  BY DEF InvalidateSharedSession
<1>2. v \in ViewType
  BY <1>0, OneField
<1>3. /\ v.evidence = view.evidence /\ v.plan = view.plan /\ v.planStage = view.planStage
      /\ v.scenario = view.scenario /\ v.apiMode = view.apiMode /\ v.apiKey = view.apiKey
      /\ v.stage = view.stage /\ v.lastPlan = view.lastPlan /\ v.current = view.current
      /\ v.generation = view.generation
  BY <1>0 DEF ViewType
<1> HIDE DEF v
<1>4. PageInv(v, requests)
  BY <1>0, <1>2, <1>3, OtherFieldsKeep
<1>5. /\ c \in ViewType /\ Settled(c, requests) /\ c.current = 0
      /\ c.lastPlan \in 0..Len(requests)
  BY <1>2, <1>4, ClearingSettles, ClearAuthenticationFields DEF PageInv, Bounded
<1> HIDE DEF c
<1>6. Settled(w, requests) /\ FreshIsCurrent(w)
  BY <1>0, <1>5, FailureSettles
<1>7. w \in ViewType /\ w.current = 0 /\ w.lastPlan = c.lastPlan
  BY <1>0, <1>5, ShowFailureFields
<1> HIDE DEF w
<1>8. Bounded(w, requests)
  BY <1>0, <1>5, <1>7, LenProperties DEF Bounded
<1>9. PageInv(w, requests)
  BY <1>6, <1>8 DEF PageInv
<1> QED
  BY <1>0, <1>1, <1>9 DEF Others

-----------------------------------------------------------------------------
(***************************************************************************)
(* The steps of a submission.                                              *)
(***************************************************************************)

LEMMA PageIsKept ==
    ASSUME NEW v, NEW rs, PageInv(v, requests), SubmissionsKept(rs)
    PROVE  PageInv(v, rs)
BY KeptSettles DEF PageInv

LEMMA FailureKeeps ==
    ASSUME NEW v, Bounded(v, requests), Settled(v, requests)
    PROVE  PageInv(ShowFailure(v), requests)
<1> DEFINE w == ShowFailure(v)
<1>1. /\ v \in ViewType /\ requests \in Seq(RequestType)
      /\ v.lastPlan \in 0..Len(requests) /\ v.current \in 0..Len(requests)
  BY DEF Bounded
<1>2. w \in ViewType /\ w.current = v.current /\ w.lastPlan = v.lastPlan
  BY <1>1, ShowFailureFields
<1>3. Settled(w, requests) /\ FreshIsCurrent(w)
  BY <1>1, FailureSettles
<1> HIDE DEF w
<1>4. Bounded(w, requests)
  BY <1>1, <1>2 DEF Bounded
<1> QED
  BY <1>3, <1>4 DEF PageInv, w

\* A request that moves on without ending.
LEMMA WaitingKeeps ==
    ASSUME requests \in Seq(RequestType), NEW n \in DOMAIN requests
    PROVE  SubmissionsKept([requests EXCEPT ![n].phase = "wait"])
<1>1. requests[n] \in RequestType
  BY ElementOfSeq, LenProperties
<1> DEFINE r == [requests[n] EXCEPT !.phase = "wait"]
<1>2. r \in RequestType /\ r.stage = requests[n].stage
      /\ r.generation = requests[n].generation
  BY <1>1 DEF RequestType
<1>3. [requests EXCEPT ![n].phase = "wait"] = [requests EXCEPT ![n] = r]
  OBVIOUS
<1> HIDE DEF r
<1>4. SubmissionsKept([requests EXCEPT ![n] = r])
  BY <1>2, ReplacedRequestKeeps
<1> QED
  BY <1>3, <1>4

LEMMA RetryingKeeps ==
    ASSUME requests \in Seq(RequestType), NEW n \in DOMAIN requests
    PROVE  SubmissionsKept([requests EXCEPT ![n].phase = "fetch", ![n].attempt = 1])
<1>1. requests[n] \in RequestType
  BY ElementOfSeq, LenProperties
<1> DEFINE p == [requests[n] EXCEPT !.phase = "fetch"]
           r == [p EXCEPT !.attempt = 1]
<1>2. p \in RequestType /\ p.stage = requests[n].stage
      /\ p.generation = requests[n].generation
  BY <1>1 DEF RequestType
<1>3. r \in RequestType /\ r.stage = requests[n].stage
      /\ r.generation = requests[n].generation
  <2> HIDE DEF p
  <2> QED
    BY <1>2 DEF RequestType
<1>4. [requests EXCEPT ![n].phase = "fetch", ![n].attempt = 1] = [requests EXCEPT ![n] = r]
  OBVIOUS
<1> HIDE DEF r
<1>5. SubmissionsKept([requests EXCEPT ![n] = r])
  BY <1>3, ReplacedRequestKeeps
<1> QED
  BY <1>4, <1>5

LEMMA AnsweredKeeps ==
    ASSUME requests \in Seq(RequestType), NEW n \in DOMAIN requests,
           NEW answer \in Answers
    PROVE  SubmissionsKept([requests EXCEPT ![n].phase = "body", ![n].answer = answer])
<1>1. requests[n] \in RequestType
  BY ElementOfSeq, LenProperties
<1> DEFINE r == [requests[n] EXCEPT !.phase = "body", !.answer = answer]
<1>2. r \in RequestType /\ r.stage = requests[n].stage
      /\ r.generation = requests[n].generation
  BY <1>1 DEF RequestType
<1>3. [requests EXCEPT ![n].phase = "body", ![n].answer = answer] = [requests EXCEPT ![n] = r]
  OBVIOUS
<1> HIDE DEF r
<1>4. SubmissionsKept([requests EXCEPT ![n] = r])
  BY <1>2, ReplacedRequestKeeps
<1> QED
  BY <1>3, <1>4

Retrying(v) == [v EXCEPT !.status = "retrying"]

\* What a step before the body leaves of the page.
LEMMA QuietStepKeepsInv ==
    ASSUME ViewInv, SubmissionsKept(requests'), UNCHANGED <<connects, saved, sessions>>,
           view' \in {view, Retrying(view), ShowFailure(view)}
    PROVE  PageInv(view, requests)' /\ Others'
<1>0. /\ PageInv(view, requests) /\ Others /\ view \in ViewType
      /\ requests \in Seq(RequestType)
  BY InvOfPage DEF PageInv, Bounded
<1> DEFINE w == Retrying(view)
<1>1. w \in ViewType
  BY <1>0, OneField DEF Retrying
<1>2. /\ w.evidence = view.evidence /\ w.plan = view.plan
      /\ w.planStage = view.planStage
      /\ w.scenario = view.scenario /\ w.apiMode = view.apiMode
      /\ w.apiKey = view.apiKey
      /\ w.stage = view.stage /\ w.lastPlan = view.lastPlan
      /\ w.current = view.current /\ w.generation = view.generation
  BY <1>0 DEF ViewType, Retrying
<1>3. view' = view \/ view' = w \/ view' = ShowFailure(view)
  OBVIOUS
<1> HIDE DEF w
<1>4. PageInv(w, requests)
  BY <1>0, <1>1, <1>2, OtherFieldsKeep
<1>5. PageInv(ShowFailure(view), requests)
  BY <1>0, FailureKeeps DEF PageInv
<1>6. PageInv(view', requests)
  BY <1>0, <1>3, <1>4, <1>5
<1>7. PageInv(view', requests')
  BY <1>6, PageIsKept
<1> QED
  BY <1>0, <1>7 DEF Others

LEMMA FetchFailsKeepsInv ==
    ASSUME ViewInv, NEW n \in DOMAIN requests, FetchFails(n)
    PROVE  PageInv(view, requests)' /\ Others'
<1>0. requests \in Seq(RequestType) /\ view \in ViewType
  BY InvOfPage DEF PageInv, Bounded
<1>1. UNCHANGED <<connects, saved, sessions>>
  BY DEF FetchFails
<1> DEFINE rs == [requests EXCEPT ![n].phase = "wait"]
<1>2. SubmissionsKept(rs)
  BY <1>0, WaitingKeeps
<1>3. \/ Ends(n) /\ view' = view
      \/ requests' = rs /\ view' = Retrying(view)
      \/ Ends(n) /\ view' = ShowFailure(view)
  <2> HIDE DEF rs
  <2>1. CASE ~CanCommit(n)
    BY <2>1 DEF FetchFails
  <2>2. CASE CanCommit(n) /\ requests[n].attempt = 0 /\ view.apiMode
    BY <2>2 DEF FetchFails, rs, Retrying
  <2>3. CASE CanCommit(n) /\ ~(requests[n].attempt = 0 /\ view.apiMode)
    BY <2>3 DEF FetchFails
  <2> QED
    BY <2>1, <2>2, <2>3
<1> HIDE DEF rs
<1>4. SubmissionsKept(requests')
  BY <1>0, <1>2, <1>3, EndsKeeps
<1> QED
  BY <1>1, <1>3, <1>4, QuietStepKeepsInv

LEMMA RetryKeepsInv ==
    ASSUME ViewInv, NEW n \in DOMAIN requests, Retry(n)
    PROVE  PageInv(view, requests)' /\ Others'
<1>0. requests \in Seq(RequestType)
  BY InvOfPage DEF PageInv, Bounded
<1> DEFINE rs == [requests EXCEPT ![n].phase = "fetch", ![n].attempt = 1]
<1>1. SubmissionsKept(rs)
  BY <1>0, RetryingKeeps, Zenon
<1>2. requests' = rs \/ Ends(n)
  BY DEF Retry
<1>3. view' = view /\ UNCHANGED <<connects, saved, sessions>>
  BY DEF Retry
<1> HIDE DEF rs
<1>4. SubmissionsKept(requests')
  BY <1>0, <1>1, <1>2, EndsKeeps
<1> QED
  BY <1>3, <1>4, QuietStepKeepsInv

LEMMA FetchedKeepsInv ==
    ASSUME ViewInv, NEW n \in DOMAIN requests, NEW answer \in Answers, Fetched(n, answer)
    PROVE  PageInv(view, requests)' /\ Others'
<1>0. requests \in Seq(RequestType)
  BY InvOfPage DEF PageInv, Bounded
<1> DEFINE rs == [requests EXCEPT ![n].phase = "body", ![n].answer = answer]
<1>1. SubmissionsKept(rs)
  BY <1>0, AnsweredKeeps, Zenon
<1>2. requests' = rs \/ Ends(n)
  BY DEF Fetched
<1>3. view' = view /\ UNCHANGED <<connects, saved, sessions>>
  BY DEF Fetched
<1> HIDE DEF rs
<1>4. SubmissionsKept(requests')
  BY <1>0, <1>1, <1>2, EndsKeeps
<1> QED
  BY <1>3, <1>4, QuietStepKeepsInv

LEMMA FailedBodyKeepsInv ==
    ASSUME ViewInv, NEW n \in DOMAIN requests, BodyOfFailure(n)
    PROVE  PageInv(view, requests)' /\ Others'
<1>0. /\ PageInv(view, requests) /\ Others /\ view \in ViewType
      /\ requests \in Seq(RequestType) /\ Len(requests) \in Nat
  BY InvOfPage, LenProperties DEF PageInv, Bounded
<1> DEFINE c == ClearAuthentication(view)
<1>1. /\ Ends(n) /\ UNCHANGED <<connects, sessions>> /\ saved' \in {None, saved}
      /\ view' = ShowFailure(view) \/ view' = ShowFailure(c)
  BY DEF BodyOfFailure
<1>2. Settled(c, requests)
  BY <1>0, ClearingSettles DEF PageInv
<1>3. c \in ViewType /\ c.current = 0 /\ c.lastPlan = view.lastPlan
  BY <1>0, ClearAuthenticationFields
<1> HIDE DEF c
<1>4. Bounded(c, requests)
  BY <1>0, <1>3 DEF PageInv, Bounded
<1>5. PageInv(ShowFailure(c), requests) /\ PageInv(ShowFailure(view), requests)
  BY <1>0, <1>2, <1>4, FailureKeeps DEF PageInv
<1>6. PageInv(view', requests')
  <2>1. PageInv(view', requests)
    BY <1>1, <1>5
  <2>2. SubmissionsKept(requests')
    BY <1>0, <1>1, EndsKeeps
  <2> QED
    BY <2>1, <2>2, PageIsKept
<1> QED
  BY <1>0, <1>1, <1>6 DEF Others

LEMMA StoredBodyKeepsInv ==
    ASSUME ViewInv, NEW n \in DOMAIN requests, BodyStored(n)
    PROVE  PageInv(view, requests)' /\ Others'
<1>0. /\ PageInv(view, requests) /\ Others /\ view \in ViewType
      /\ requests \in Seq(RequestType) /\ Len(requests) \in Nat
      /\ n \in 1..Len(requests) /\ n \in Nat
  BY InvOfPage, LenProperties DEF PageInv, Bounded
<1> DEFINE s == requests[n].stage
           a == [view EXCEPT !.plan = n]
           b == [a EXCEPT !.planStage = s]
           e == [b EXCEPT !.evidence = [source |-> "api", run |-> n]]
           d == [e EXCEPT !.lastPlan = n]
           w == [d EXCEPT !.status = "connected"]
<1>1. /\ Ends(n) /\ UNCHANGED <<connects, saved, sessions>>
      /\ view' = IF ~CanCommit(n) THEN view ELSE w
  BY DEF BodyStored, RenderPlan
<1>2. PageInv(view', requests)
  <2>1. CASE ~CanCommit(n)
    BY <1>0, <1>1, <2>1
  <2>2. CASE CanCommit(n)
    <3>1. requests[n] \in RequestType
      BY <1>0, ElementOfSeq
    <3>2. s \in Stages
      BY <3>1 DEF RequestType
    <3>3. view.current = n /\ HasScenario(view) /\ view.apiMode /\ s = view.stage
      BY <1>0, <2>2 DEF CanCommit, PageInv, Settled, NothingYet, CurrentFits
    <3>4. view' = w
      BY <1>1, <2>2
    <3> HIDE DEF s
    <3>5. a \in ViewType
      BY <1>0, OneField
    <3>6. b \in ViewType
      <4> HIDE DEF a
      <4> QED
        BY <3>2, <3>5, OneField
    <3>7. e \in ViewType
      <4> HIDE DEF b
      <4> QED
        BY <1>0, <3>6, EvidenceField
    <3>8. d \in ViewType
      <4> HIDE DEF e
      <4> QED
        BY <1>0, <3>7, OneField
    <3>9. w \in ViewType
      <4> HIDE DEF d
      <4> QED
        BY <3>8, OneField
    <3>10. /\ w.evidence = [source |-> "api", run |-> n] /\ w.plan = n
           /\ w.planStage = s
           /\ w.scenario = view.scenario /\ w.apiMode = view.apiMode
           /\ w.apiKey = view.apiKey
           /\ w.stage = view.stage /\ w.lastPlan = n
           /\ w.current = view.current /\ w.generation = view.generation
      BY <1>0 DEF ViewType
    <3> HIDE DEF w
    <3>11. Bounded(w, requests)
      BY <1>0, <3>3, <3>9, <3>10 DEF Bounded
    <3>12. LabelFits(w, requests) /\ BrowserFits(w) /\ NothingYet(w) /\ FreshIsCurrent(w)
      BY <1>0, <3>3, <3>10 DEF LabelFits, BrowserFits, NothingYet, HasScenario,
                               FreshIsCurrent, s
    <3>13. KeyIsHeld(w)
      BY <1>0, <3>10 DEF KeyIsHeld, PageInv, Settled
    <3>14. CurrentFits(w, requests)
      BY <1>0, <3>10 DEF CurrentFits, PageInv, Settled
    <3> QED
      BY <3>4, <3>11, <3>12, <3>13, <3>14 DEF PageInv, Settled
  <2> QED
    BY <2>1, <2>2
<1>3. PageInv(view', requests')
  BY <1>0, <1>1, <1>2, EndsKeeps, PageIsKept
<1> QED
  BY <1>0, <1>1, <1>3 DEF Others

LEMMA InvalidBodyKeepsInv ==
    ASSUME ViewInv, NEW n \in DOMAIN requests, BodyInvalid(n)
    PROVE  PageInv(view, requests)' /\ Others'
<1>0. /\ PageInv(view, requests) /\ Others /\ requests \in Seq(RequestType)
  BY InvOfPage DEF PageInv, Bounded
<1>1. /\ Ends(n) /\ UNCHANGED <<connects, saved, sessions>>
      /\ view' = view \/ view' = ShowFailure(view)
  BY DEF BodyInvalid
<1>2. PageInv(view', requests)
  BY <1>0, <1>1, FailureKeeps DEF PageInv
<1>3. PageInv(view', requests')
  BY <1>0, <1>1, <1>2, EndsKeeps, PageIsKept
<1> QED
  BY <1>0, <1>1, <1>3 DEF Others

-----------------------------------------------------------------------------
(***************************************************************************)
(* The theorems.                                                           *)
(***************************************************************************)

LEMMA ViewInvStarts == Init => ViewInv
<1> SUFFICES ASSUME Init PROVE ViewInv
  OBVIOUS
<1>1. 0 \in Stages
  BY ViewAssumption DEF Stages
<1>2. view \in ViewType
  BY <1>1 DEF Init, ViewType, Scenarios
<1>3. requests \in Seq(RequestType) /\ Len(requests) = 0
  BY EmptySeq DEF Init
<1>4. TypeOK
  BY <1>2, <1>3 DEF Init, TypeOK
<1>5. Settled(view, requests) /\ FreshIsCurrent(view)
  BY DEF Init, Settled, LabelFits, BrowserFits, NothingYet, KeyIsHeld, CurrentFits,
         FreshIsCurrent
<1> QED
  BY <1>4, <1>5 DEF ViewInv

LEMMA ViewInvSteps == ViewInv /\ [Next]_vars => ViewInv'
<1> SUFFICES ASSUME ViewInv, [Next]_vars PROVE ViewInv'
  OBVIOUS
<1>0. ViewInv' <=> PageInv(view, requests)' /\ Others'
  BY DEF ViewInv, PageInv, TypeOK, Bounded, Others
<1>1. CASE Loading
  BY <1>0, <1>1, LoadingKeepsInv
<1>2. CASE OwnerActs
  BY <1>0, <1>2, SelectKeepsInv, TypeKeyKeepsInv, SwitchKeepsInv, PressConnectKeepsInv
  DEF OwnerActs
<1>3. CASE OtherPage
  BY <1>0, <1>3, AdoptKeepsInv, InvalidateKeepsInv DEF OtherPage
<1>4. CASE ConnectionAnswered
  BY <1>0, <1>4, VerifiedKeepsInv, ConnectionFailsKeepsInv DEF ConnectionAnswered
<1>5. CASE SubmissionMoves
  BY <1>0, <1>5, FetchFailsKeepsInv, RetryKeepsInv, FetchedKeepsInv, FailedBodyKeepsInv,
     StoredBodyKeepsInv, InvalidBodyKeepsInv DEF SubmissionMoves, Submission
<1>6. CASE UNCHANGED vars
  BY <1>6 DEF vars, ViewInv, TypeOK, Settled, LabelFits, BrowserFits, NothingYet,
              KeyIsHeld, CurrentFits, FreshIsCurrent
<1> QED
  BY <1>1, <1>2, <1>3, <1>4, <1>5, <1>6 DEF Next

(***************************************************************************)
(* The page and its submissions keep their types: what is shown and what   *)
(* may commit are submissions that were sent, and a request is always sent *)
(* under a key.                                                            *)
(***************************************************************************)
THEOREM ViewTypeCorrect == Spec => []TypeOK
<1>1. ViewInv => TypeOK
  BY DEF ViewInv
<1> QED
  BY <1>1, ViewInvStarts, ViewInvSteps, PTL DEF Spec

(***************************************************************************)
(* However fetches, bodies, timers, the owner and the other page           *)
(* interleave, evidence labelled as the server's is that of the current    *)
(* submission, for the stage on the page, in an open session, and label    *)
(* and plan always belong together (submitFleetSnapshot, markEvidenceStale *)
(* and the handlers that call them).                                       *)
(***************************************************************************)
THEOREM EvidenceIsCurrent == Spec => []FreshEvidenceIsCurrent
BY FreshFollows, ViewInvStarts, ViewInvSteps, PTL DEF Spec

-----------------------------------------------------------------------------
\* Before the answers: a step that submits adds a request and changes no other.
LEMMA SubmitTouchesNoOther ==
    ASSUME requests \in Seq(RequestType), NEW v, SubmitCurrentStage(v),
           NEW n \in DOMAIN requests
    PROVE  requests'[n] = requests[n]
<1>1. CASE Submits(v)
  <2> DEFINE r == NewRequest(view')
  <2>1. requests' = Append(requests, r)
    BY <1>1 DEF SubmitCurrentStage
  <2> HIDE DEF r
  <2> QED
    BY <2>1
<1>2. CASE ~Submits(v)
  BY <1>2 DEF SubmitCurrentStage
<1> QED
  BY <1>1, <1>2

LEMMA OthersTouchNoRequest ==
    ASSUME ViewInv, NEW n \in DOMAIN requests,
           Loading \/ OwnerActs \/ OtherPage \/ ConnectionAnswered \/ UNCHANGED vars
    PROVE  requests'[n] = requests[n]
<1>0. requests \in Seq(RequestType)
  BY DEF ViewInv, TypeOK
<1>1. CASE Loading
  <2>1. (\E v : SubmitCurrentStage(v)) \/ requests' = requests
    BY <1>1 DEF Loading, ScenarioLoaded, ScenarioFails
  <2> QED
    BY <1>0, <2>1, SubmitTouchesNoOther
<1>2. CASE OwnerActs
  <2>1. ASSUME NEW stage \in Stages, SelectStage(stage)
        PROVE  requests'[n] = requests[n]
    <3>1. PICK v : SubmitCurrentStage(v)
      BY <2>1 DEF SelectStage
    <3> QED
      BY <1>0, <3>1, SubmitTouchesNoOther
  <2>2. ASSUME NEW k, TypeKey(k) PROVE requests' = requests
    BY <2>2 DEF TypeKey
  <2>3. SwitchToBrowserMode \/ PressConnect => requests' = requests
    BY DEF SwitchToBrowserMode, PressConnect
  <2> QED
    BY <1>2, <2>1, <2>2, <2>3 DEF OwnerActs
<1>3. CASE OtherPage
  <2>1. ASSUME NEW k \in Keys, AdoptSharedSession(k) PROVE requests'[n] = requests[n]
    <3>1. PICK v : SubmitCurrentStage(v)
      BY <2>1 DEF AdoptSharedSession
    <3> QED
      BY <1>0, <3>1, SubmitTouchesNoOther
  <2>2. InvalidateSharedSession => requests' = requests
    BY DEF InvalidateSharedSession
  <2> QED
    BY <1>3, <2>1, <2>2 DEF OtherPage
<1>4. CASE ConnectionAnswered
  <2>1. ASSUME NEW c \in connects, ConnectionVerified(c) PROVE requests'[n] = requests[n]
    <3>1. (\E v : SubmitCurrentStage(v)) \/ requests' = requests
      BY <2>1 DEF ConnectionVerified
    <3> QED
      BY <1>0, <3>1, SubmitTouchesNoOther
  <2>2. ASSUME NEW c, ConnectionFails(c) PROVE requests' = requests
    BY <2>2 DEF ConnectionFails
  <2> QED
    BY <1>4, <2>1, <2>2 DEF ConnectionAnswered
<1>5. CASE UNCHANGED vars
  BY <1>5 DEF vars
<1> QED
  BY <1>1, <1>2, <1>3, <1>4, <1>5

\* What LateRequestsOnlyWithdraw says of one request in one step.
Withdraws(n) ==
    Late(n) /\ requests[n] # requests'[n] =>
        /\ requests'[n].attempt = requests[n].attempt
        /\ \/ view' = view
           \/ /\ view'.evidence # view.evidence => view'.evidence.source = "stale"
              /\ view'.apiMode => view.apiMode
              /\ view'.lastPlan = view.lastPlan
              /\ view'.status = "error"

LEMMA EndedFields ==
    ASSUME requests \in Seq(RequestType), NEW m \in DOMAIN requests,
           NEW n \in DOMAIN requests, Ends(m)
    PROVE  /\ n # m => requests'[n] = requests[n]
           /\ requests'[n].attempt = requests[n].attempt
<1>1. requests[m] \in RequestType
  BY ElementOfSeq, LenProperties
<1> DEFINE r == [requests[m] EXCEPT !.phase = "done", !.answer = "none"]
<1>2. r.attempt = requests[m].attempt
  BY <1>1 DEF RequestType
<1>3. requests' = [requests EXCEPT ![m] = r]
  BY DEF Ends
<1> HIDE DEF r
<1>4. requests'[n] = IF n = m THEN r ELSE requests[n]
  BY <1>3
<1> QED
  BY <1>2, <1>4

\* The page a late answer may leave behind.
LEMMA FailureWithdraws ==
    ASSUME ViewInv,
           view' \in {ShowFailure(view), ShowFailure(ClearAuthentication(view))}
    PROVE  /\ view'.evidence # view.evidence => view'.evidence.source = "stale"
           /\ view'.apiMode => view.apiMode
           /\ view'.lastPlan = view.lastPlan
           /\ view'.status = "error"
<1>0. /\ view \in ViewType /\ requests \in Seq(RequestType)
      /\ view.lastPlan \in 0..Len(requests)
  BY DEF ViewInv, TypeOK
<1>1. PICK v : /\ v \in {view, ClearAuthentication(view)}
               /\ view' = ShowFailure(v)
  OBVIOUS
<1>2. /\ v \in ViewType /\ v.evidence = view.evidence /\ v.lastPlan = view.lastPlan
      /\ v.apiMode => view.apiMode
  BY <1>0, <1>1, ClearAuthenticationFields
<1> DEFINE w == ShowFailure(v)
           m == MarkStale(v)
<1>3. /\ w.status = "error" /\ w.evidence = m.evidence
      /\ w.apiMode = v.apiMode /\ w.lastPlan = v.lastPlan
  BY <1>0, <1>2, ShowFailureFields
<1>4. /\ v.lastPlan = 0 => m.evidence = v.evidence
      /\ v.lastPlan # 0 => m.evidence = [source |-> "stale", run |-> v.lastPlan]
  BY <1>0, <1>2, MarkStaleFields
<1> HIDE DEF w, m
<1>5. view' = w
  BY <1>1 DEF w
<1> QED
  BY <1>2, <1>3, <1>4, <1>5

LEMMA LateSubmissionWithdraws ==
    ASSUME ViewInv, NEW n \in DOMAIN requests, NEW m \in DOMAIN requests, Submission(m)
    PROVE  Withdraws(n)
<1> SUFFICES ASSUME Late(n), requests[n] # requests'[n]
             PROVE  /\ requests'[n].attempt = requests[n].attempt
                    /\ \/ view' = view
                       \/ /\ view'.evidence # view.evidence
                                => view'.evidence.source = "stale"
                          /\ view'.apiMode => view.apiMode
                          /\ view'.lastPlan = view.lastPlan
                          /\ view'.status = "error"
  BY DEF Withdraws
<1>0. requests \in Seq(RequestType)
  BY DEF ViewInv, TypeOK
<1>1. ASSUME n # m PROVE requests'[n] = requests[n]
  <2>1. CASE Ends(m)
    BY <1>0, <1>1, <2>1, EndedFields
  <2>2. CASE FetchFails(m) /\ ~Ends(m)
    <3>1. requests' = [requests EXCEPT ![m].phase = "wait"]
      <4>1. CASE ~CanCommit(m)
        BY <2>2, <4>1 DEF FetchFails
      <4>2. CASE CanCommit(m) /\ requests[m].attempt = 0 /\ view.apiMode
        BY <2>2, <4>2 DEF FetchFails
      <4>3. CASE CanCommit(m) /\ ~(requests[m].attempt = 0 /\ view.apiMode)
        BY <2>2, <4>3 DEF FetchFails
      <4> QED
        BY <4>1, <4>2, <4>3
    <3> QED
      BY <1>0, <1>1, <3>1
  <2>3. CASE Retry(m) /\ ~Ends(m)
    BY <1>0, <1>1, <2>3 DEF Retry
  <2>4. ASSUME NEW answer, Fetched(m, answer), ~Ends(m)
        PROVE  requests'[n] = requests[n]
    BY <1>0, <1>1, <2>4 DEF Fetched
  <2>5. BodyOfFailure(m) \/ BodyStored(m) \/ BodyInvalid(m) => Ends(m)
    BY DEF BodyOfFailure, BodyStored, BodyInvalid
  <2> QED
    BY <2>1, <2>2, <2>3, <2>4, <2>5 DEF Submission
<1>2. n = m
  BY <1>1
<1>3. ~CanCommit(n)
  BY DEF Late
<1>4. /\ Ends(n)
      /\ view' \in {view, ShowFailure(view), ShowFailure(ClearAuthentication(view))}
  <2>1. CASE FetchFails(n)
    BY <1>3, <2>1 DEF FetchFails
  <2>2. CASE Retry(n)
    BY <1>3, <2>2 DEF Retry
  <2>3. ASSUME NEW answer, Fetched(n, answer)
        PROVE  Ends(n) /\ view' = view
    BY <1>3, <2>3 DEF Fetched
  <2>4. CASE BodyOfFailure(n)
    BY <2>4 DEF BodyOfFailure
  <2>5. CASE BodyStored(n)
    BY <1>3, <2>5 DEF BodyStored
  <2>6. CASE BodyInvalid(n)
    BY <1>3, <2>6 DEF BodyInvalid
  <2> QED
    BY <1>2, <2>1, <2>2, <2>3, <2>4, <2>5, <2>6 DEF Submission
<1>5. requests'[n].attempt = requests[n].attempt
  BY <1>0, <1>4, EndedFields
<1> QED
  BY <1>4, <1>5, FailureWithdraws

(***************************************************************************)
(* In every step, of whoever: a request that is late is not sent again,    *)
(* and its answer changes nothing on the page unless it is a failure, which*)
(* only takes evidence and session away (fleetResponseCanCommit before the *)
(* retry and before a stored plan, showSubmissionFailure without it).      *)
(***************************************************************************)
THEOREM LateAnswersPutNothingUp == Spec => LateRequestsOnlyWithdraw
<1>1. ASSUME ViewInv, [Next]_vars
      PROVE  \A n \in DOMAIN requests : Withdraws(n)
  <2> TAKE n \in DOMAIN requests
  <2>1. CASE SubmissionMoves
    BY <1>1, <2>1, LateSubmissionWithdraws DEF SubmissionMoves
  <2>2. CASE ~SubmissionMoves
    <3>1. requests'[n] = requests[n]
      BY <1>1, <2>2, OthersTouchNoRequest DEF Next
    <3> QED
      BY <3>1 DEF Withdraws
  <2> QED
    BY <2>1, <2>2
<1>2. ViewInv /\ [Next]_vars =>
          [\A n \in DOMAIN requests :
              Late(n) /\ requests[n] # requests'[n] =>
                 /\ requests'[n].attempt = requests[n].attempt
                 /\ \/ view' = view
                    \/ /\ view'.evidence # view.evidence => view'.evidence.source = "stale"
                       /\ view'.apiMode => view.apiMode
                       /\ view'.lastPlan = view.lastPlan
                       /\ view'.status = "error"]_vars
  BY <1>1 DEF Withdraws
<1> QED
  BY <1>2, ViewInvStarts, ViewInvSteps, PTL DEF Spec, LateRequestsOnlyWithdraw
=============================================================================
