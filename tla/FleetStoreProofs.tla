-------------------------- MODULE FleetStoreProofs --------------------------
(***************************************************************************)
(* Theorems about FleetStore, for any number of workers, snapshots, sites, *)
(* runs and requests.                                                      *)
(***************************************************************************)
EXTENDS FleetStore, SequenceTheorems, TLAPS

-----------------------------------------------------------------------------
(***************************************************************************)
(* Types.  What is stored and answered comes from a job, so the fields a   *)
(* phase uses must be sound in that phase.                                 *)
(***************************************************************************)

Runs == [input: Inputs, open: BOOLEAN, created: Int, receivedAt: Int]

JobPhases == {"idle", "lookup", "plan", "save", "age"}

SubmitPhases == {"lookup", "plan", "save"}

\* The jobs there are while the table has n runs.
JobsOf(n) ==
    [phase: JobPhases, input: Inputs \union {None}, now: Int, created: Int,
     open: BOOLEAN, run: 0..n]

CarriesInput ==
    \A w \in Workers : job[w].phase \in SubmitPhases => job[w].input \in Inputs

CarriesRun ==
    \A w \in Workers : job[w].phase = "age" => job[w].run \in RunIds

TypeInv == TypeOK /\ CarriesInput /\ CarriesRun

LEMMA TypesOf ==
    ASSUME TypeOK
    PROVE  /\ clock \in Nat /\ requests \in Nat /\ runs \in Seq(Runs)
           /\ job \in [Workers -> JobsOf(Len(runs))] /\ Len(runs) \in Nat
           /\ \A i \in RunIds : runs[i] \in Runs
<1>1. runs \in Seq(Runs) /\ job \in [Workers -> JobsOf(Len(runs))]
  BY DEF TypeOK, Runs, JobsOf, JobPhases
<1> QED
  BY <1>1, LenProperties, ElementOfSeq DEF TypeOK, RunIds

LEMMA TypeInit == Init => TypeInv
<1> SUFFICES ASSUME Init PROVE TypeInv
  OBVIOUS
<1>1. runs \in Seq(Runs) /\ Len(runs) = 0
  BY DEF Init
<1>2. Idle \in JobsOf(0) /\ Idle.phase = "idle"
  BY DEF Idle, NewJob, JobsOf, JobPhases
<1>3. job \in [Workers -> JobsOf(Len(runs))] /\ \A w \in Workers : job[w].phase = "idle"
  BY <1>1, <1>2 DEF Init
<1>4. seen \in [Workers -> [Sites -> 0..Len(runs)]]
  BY <1>1 DEF Init
<1>5. TypeOK
  BY <1>1, <1>3, <1>4 DEF Init, TypeOK, Runs, JobsOf, JobPhases
<1> QED
  BY <1>3, <1>5 DEF TypeInv, CarriesInput, CarriesRun, SubmitPhases

\* The one write to the table.
LEMMA RunAppended ==
    ASSUME TypeInv, NEW w \in Workers, SaveRun(w)
    PROVE  /\ runs' \in Seq(Runs)
           /\ Len(runs') = Len(runs) + 1
           /\ \A i \in RunIds : runs'[i] = runs[i]
           /\ runs'[Len(runs) + 1].input = job[w].input
           /\ runs'[Len(runs) + 1].open = job[w].open
           /\ runs'[Len(runs) + 1].created = job[w].created
           /\ runs'[Len(runs) + 1].receivedAt = job[w].now
<1> DEFINE run == [input |-> job[w].input, open |-> job[w].open,
                   created |-> job[w].created, receivedAt |-> job[w].now]
<1>0. /\ runs \in Seq(Runs) /\ Len(runs) \in Nat
      /\ job[w] \in JobsOf(Len(runs)) /\ job[w].input \in Inputs
  BY TypesOf DEF TypeInv, CarriesInput, SubmitPhases, SaveRun
<1>1. /\ run \in Runs
      /\ run.input = job[w].input /\ run.open = job[w].open
      /\ run.created = job[w].created /\ run.receivedAt = job[w].now
  BY <1>0 DEF Runs, JobsOf
<1>2. runs' = Append(runs, run)
  BY DEF SaveRun
<1> HIDE DEF run
<1> QED
  BY <1>0, <1>1, <1>2, AppendProperties DEF RunIds

LEMMA OneJobChanges ==
    ASSUME TypeInv, NEW w \in Workers, NEW j \in JobsOf(Len(runs)),
           job' = [job EXCEPT ![w] = j],
           runs' \in Seq(Runs), Len(runs') >= Len(runs),
           j.phase \in SubmitPhases => j.input \in Inputs,
           j.phase = "age" => j.run \in RunIds
    PROVE  job' \in [Workers -> JobsOf(Len(runs'))] /\ CarriesInput' /\ CarriesRun'
<1>0. /\ job \in [Workers -> JobsOf(Len(runs))]
      /\ Len(runs) \in Nat /\ Len(runs') \in Nat
  BY TypesOf, LenProperties DEF TypeInv
<1>1. JobsOf(Len(runs)) \subseteq JobsOf(Len(runs')) /\ RunIds \subseteq RunIds'
  BY <1>0 DEF JobsOf, RunIds
<1>2. \A v \in Workers : job'[v] = IF v = w THEN j ELSE job[v]
  BY <1>0
<1>3. job' \in [Workers -> JobsOf(Len(runs'))]
  BY <1>0, <1>1
<1>4. CarriesInput'
  BY <1>2 DEF TypeInv, CarriesInput
<1>5. CarriesRun'
  BY <1>1, <1>2 DEF TypeInv, CarriesRun
<1> QED
  BY <1>3, <1>4, <1>5

LEMMA JobEnds ==
    ASSUME TypeInv, NEW w \in Workers, Finish(w),
           runs' \in Seq(Runs), Len(runs') >= Len(runs)
    PROVE  job' \in [Workers -> JobsOf(Len(runs'))] /\ CarriesInput' /\ CarriesRun'
<1>0. Len(runs) \in Nat
  BY TypesOf DEF TypeInv
<1>1. Idle \in JobsOf(Len(runs)) /\ Idle.phase = "idle"
  BY <1>0 DEF Idle, NewJob, JobsOf, JobPhases
<1> HIDE DEF Idle
<1>2. job' = [job EXCEPT ![w] = Idle]
  BY DEF Finish
<1> QED
  BY <1>1, <1>2, OneJobChanges DEF SubmitPhases

\* What a step may do to the variables other than job.
LEMMA TablesStayTyped ==
    ASSUME TypeInv, job' \in [Workers -> JobsOf(Len(runs'))],
           runs' \in Seq(Runs), Len(runs') >= Len(runs),
           clock' \in Nat, requests' \in Nat,
           acked' \subseteq [sent: SnapshotType, run: RunIds', open: BOOLEAN],
           refused' \subseteq SnapshotType,
           seen' \in [Workers -> [Sites -> 0..Len(runs')]]
    PROVE  TypeOK'
BY DEF TypeOK, Runs, JobsOf, JobPhases

LEMMA UnchangedTables ==
    ASSUME TypeInv
    PROVE  /\ UNCHANGED runs => runs' \in Seq(Runs) /\ Len(runs') >= Len(runs)
           /\ UNCHANGED clock => clock' \in Nat
           /\ UNCHANGED requests => requests' \in Nat
           /\ UNCHANGED <<acked, runs>> =>
                 acked' \subseteq [sent: SnapshotType, run: RunIds', open: BOOLEAN]
           /\ UNCHANGED refused => refused' \subseteq SnapshotType
           /\ UNCHANGED <<seen, runs>> => seen' \in [Workers -> [Sites -> 0..Len(runs')]]
<1>0. TypeOK /\ runs \in Seq(Runs) /\ Len(runs) \in Nat
  BY TypesOf DEF TypeInv
<1> QED
  BY <1>0 DEF TypeOK, RunIds

LEMMA ReplyIsTyped ==
    ASSUME TypeInv, NEW w \in Workers, job[w].phase = "save",
           NEW i \in Nat, NEW open \in BOOLEAN
    PROVE  /\ Answer(w, i, open).sent = job[w].input.sent
           /\ Answer(w, i, open).run = i /\ Answer(w, i, open).open = open
           /\ \A n \in Nat : i \in 1..n =>
                 Answer(w, i, open) \in [sent: SnapshotType, run: 1..n, open: BOOLEAN]
<1>1. job[w].input \in Inputs
  BY DEF TypeInv, CarriesInput, SubmitPhases
<1> QED
  BY <1>1 DEF Answer, Inputs

\* A worker takes up a request that is typed.
LEMMA JobStarts ==
    ASSUME TypeInv, NEW w \in Workers, NEW p \in JobPhases,
           NEW x \in Inputs \union {None}, NEW n \in Int, NEW i \in 0..Len(runs),
           Start(w, NewJob(p, x, n, FALSE, i)), UNCHANGED runs,
           p \in SubmitPhases => x \in Inputs,
           p = "age" => i \in RunIds
    PROVE  job' \in [Workers -> JobsOf(Len(runs'))] /\ CarriesInput' /\ CarriesRun'
<1> DEFINE j == NewJob(p, x, n, FALSE, i)
<1>1. j \in JobsOf(Len(runs)) /\ j.phase = p /\ j.input = x /\ j.run = i
  BY DEF NewJob, JobsOf
<1>2. job' = [job EXCEPT ![w] = j]
  BY DEF Start
<1>3. runs' \in Seq(Runs) /\ Len(runs') >= Len(runs)
  BY UnchangedTables
<1> HIDE DEF j
<1> QED
  BY <1>1, <1>2, <1>3, OneJobChanges

LEMMA CanonicalIsTyped ==
    ASSUME NEW s \in Snapshots, NEW n \in Nat
    PROVE  Canonical(s, n) \in Inputs /\ Canonical(s, n).sent = s
BY StoreAssumption DEF Canonical, Inputs

\* The reply to a stored run.
LEMMA ReplyKeepsTypes ==
    ASSUME TypeInv, NEW w \in Workers, job[w].phase = "save",
           NEW i \in RunIds', NEW open \in BOOLEAN,
           runs' \in Seq(Runs), Len(runs') >= Len(runs),
           acked' = acked \union {Answer(w, i, open)}
    PROVE  acked' \subseteq [sent: SnapshotType, run: RunIds', open: BOOLEAN]
<1>0. Len(runs) \in Nat /\ Len(runs') \in Nat
  BY TypesOf, LenProperties DEF TypeInv
<1>1. Answer(w, i, open) \in [sent: SnapshotType, run: RunIds', open: BOOLEAN]
  BY <1>0, ReplyIsTyped DEF RunIds
<1>2. \A a \in acked : a \in [sent: SnapshotType, run: RunIds', open: BOOLEAN]
  BY <1>0 DEF TypeInv, TypeOK, RunIds
<1> HIDE DEF Answer
<1> QED
  BY <1>1, <1>2

LEMMA StepKeepsTypes ==
    ASSUME TypeInv, NEW w \in Workers, Step(w)
    PROVE  TypeInv'
<1>0. /\ TypeOK /\ clock \in Nat /\ requests \in Nat /\ runs \in Seq(Runs)
      /\ Len(runs) \in Nat /\ job \in [Workers -> JobsOf(Len(runs))]
      /\ job[w] \in JobsOf(Len(runs))
  BY TypesOf DEF TypeInv
<1>1. ASSUME NEW s \in Snapshots, SubmitSnapshot(w, s) PROVE TypeInv'
  <2> DEFINE p == IF CaptureError(s, clock) THEN "lookup" ELSE "plan"
             x == Canonical(s, requests')
  <2>1. requests' \in Nat /\ x \in Inputs /\ x.sent = s
    BY <1>0, <1>1, CanonicalIsTyped DEF SubmitSnapshot
  <2>2. p \in SubmitPhases /\ p \in JobPhases
    BY DEF SubmitPhases, JobPhases
  <2>3. /\ Start(w, NewJob(p, x, clock, FALSE, 0))
        /\ UNCHANGED <<clock, runs, acked, refused, seen>>
    BY <1>1 DEF SubmitSnapshot
  <2> HIDE DEF p, x
  <2>4. job' \in [Workers -> JobsOf(Len(runs'))] /\ CarriesInput' /\ CarriesRun'
    <3>1. 0 \in 0..Len(runs) /\ p # "age" /\ clock \in Int
      BY <1>0, <2>2 DEF SubmitPhases
    <3> QED
      BY <2>1, <2>2, <2>3, <3>1, JobStarts
  <2> QED
    BY <2>1, <2>3, <2>4, UnchangedTables, TablesStayTyped DEF TypeInv
<1>2. ASSUME LookUpSnapshot(w) PROVE TypeInv'
  <2>1. UNCHANGED <<clock, runs, requests, acked, refused, seen>>
    BY <1>2 DEF LookUpSnapshot
  <2>2. CASE Finish(w)
    BY <2>1, <2>2, UnchangedTables, JobEnds, TablesStayTyped DEF TypeInv
  <2>3. CASE job' = [job EXCEPT ![w].phase = "plan"]
    <3> DEFINE j == [job[w] EXCEPT !.phase = "plan"]
    <3>1. /\ j \in JobsOf(Len(runs)) /\ j.phase = "plan" /\ j.input = job[w].input
          /\ job' = [job EXCEPT ![w] = j]
      BY <1>0, <2>3 DEF JobsOf, JobPhases
    <3>2. j.input \in Inputs
      BY <1>2, <3>1 DEF TypeInv, CarriesInput, SubmitPhases, LookUpSnapshot
    <3> HIDE DEF j
    <3>3. job' \in [Workers -> JobsOf(Len(runs'))] /\ CarriesInput' /\ CarriesRun'
      BY <2>1, <3>1, <3>2, UnchangedTables, OneJobChanges
    <3> QED
      BY <2>1, <3>3, UnchangedTables, TablesStayTyped DEF TypeInv
  <2> QED
    BY <1>2, <2>2, <2>3 DEF LookUpSnapshot
<1>3. ASSUME PlanFleet(w) PROVE TypeInv'
  <2> DEFINE j == [phase |-> "save", input |-> job[w].input, now |-> clock,
                   created |-> job[w].created,
                   open |-> SiteAvailable(job[w].input.sent, job[w].created),
                   run |-> 0]
  <2>1. UNCHANGED <<clock, runs, requests, acked, refused, seen>>
    BY <1>3 DEF PlanFleet
  <2>2. job[w].input \in Inputs
    BY <1>3 DEF TypeInv, CarriesInput, SubmitPhases, PlanFleet
  <2>3. SiteAvailable(job[w].input.sent, job[w].created) \in BOOLEAN
    BY DEF SiteAvailable
  <2>4. /\ j \in JobsOf(Len(runs)) /\ j.phase = "save" /\ j.input = job[w].input
        /\ job' = [job EXCEPT ![w] = j]
    BY <1>0, <1>3, <2>2, <2>3 DEF JobsOf, JobPhases, PlanFleet
  <2> HIDE DEF j
  <2>5. job' \in [Workers -> JobsOf(Len(runs'))] /\ CarriesInput' /\ CarriesRun'
    BY <2>1, <2>2, <2>4, UnchangedTables, OneJobChanges
  <2> QED
    BY <2>1, <2>5, UnchangedTables, TablesStayTyped DEF TypeInv
<1>4. ASSUME SaveRun(w) PROVE TypeInv'
  <2>1. runs' \in Seq(Runs) /\ Len(runs') = Len(runs) + 1
    BY <1>4, RunAppended
  <2>2. job' \in [Workers -> JobsOf(Len(runs'))] /\ CarriesInput' /\ CarriesRun'
    BY <1>0, <1>4, <2>1, JobEnds DEF SaveRun
  <2>3. acked' \subseteq [sent: SnapshotType, run: RunIds', open: BOOLEAN]
    <3>1. Len(runs) + 1 \in RunIds' /\ job[w].open \in BOOLEAN
      BY <1>0, <2>1 DEF RunIds, JobsOf
    <3> QED
      BY <1>0, <1>4, <2>1, <3>1, ReplyKeepsTypes DEF SaveRun
  <2>4. seen' \in [Workers -> [Sites -> 0..Len(runs')]]
    BY <1>0, <1>4, <2>1 DEF TypeOK, SaveRun
  <2>5. clock' \in Nat /\ requests' \in Nat /\ refused' \subseteq SnapshotType
    BY <1>4, UnchangedTables DEF SaveRun
  <2> QED
    BY <1>0, <2>1, <2>2, <2>3, <2>4, <2>5, TablesStayTyped DEF TypeInv
<1>5. ASSUME NEW i \in RunIds, AnswerExisting(w, i) PROVE TypeInv'
  <2>1. /\ UNCHANGED <<clock, runs, requests, refused, seen>>
        /\ runs' \in Seq(Runs) /\ Len(runs') >= Len(runs)
    BY <1>5, UnchangedTables DEF AnswerExisting
  <2>2. job' \in [Workers -> JobsOf(Len(runs'))] /\ CarriesInput' /\ CarriesRun'
    BY <1>5, <2>1, JobEnds DEF AnswerExisting
  <2>3. acked' \subseteq [sent: SnapshotType, run: RunIds', open: BOOLEAN]
    <3>1. runs[i] \in Runs /\ i \in RunIds'
      BY <2>1, TypesOf DEF TypeInv, RunIds
    <3>2. runs[i].open \in BOOLEAN
      BY <3>1 DEF Runs
    <3> QED
      BY <1>5, <2>1, <3>1, <3>2, ReplyKeepsTypes DEF AnswerExisting
  <2> QED
    BY <2>1, <2>2, <2>3, UnchangedTables, TablesStayTyped DEF TypeInv
<1>6. ASSUME NEW i \in RunIds, RejectConflict(w, i) PROVE TypeInv'
  <2>1. UNCHANGED <<clock, runs, requests, acked, seen>>
    BY <1>6 DEF RejectConflict
  <2>2. job' \in [Workers -> JobsOf(Len(runs'))] /\ CarriesInput' /\ CarriesRun'
    BY <1>6, <2>1, UnchangedTables, JobEnds DEF RejectConflict
  <2>3. refused' \subseteq SnapshotType
    <3>1. job[w].input \in Inputs
      BY <1>6 DEF TypeInv, CarriesInput, SubmitPhases, RejectConflict
    <3> QED
      BY <1>0, <1>6, <3>1 DEF TypeOK, Inputs, RejectConflict
  <2> QED
    BY <2>1, <2>2, <2>3, UnchangedTables, TablesStayTyped DEF TypeInv
<1>7. ASSUME NEW site \in Sites, ReadLatest(w, site) PROVE TypeInv'
  <2>1. /\ UNCHANGED <<clock, runs, requests, acked, refused, seen>>
        /\ \E i \in RunIds : Start(w, NewJob("age", None, 0, FALSE, i))
    BY <1>7 DEF ReadLatest, LatestOf
  <2>2. job' \in [Workers -> JobsOf(Len(runs'))] /\ CarriesInput' /\ CarriesRun'
    <3>1. PICK i \in RunIds : Start(w, NewJob("age", None, 0, FALSE, i))
      BY <2>1
    <3>2. i \in 0..Len(runs) /\ "age" \in JobPhases /\ "age" \notin SubmitPhases
      BY <1>0 DEF RunIds, JobPhases, SubmitPhases
    <3>3. UNCHANGED runs /\ None \in Inputs \union {None} /\ 0 \in Int
      BY <2>1
    <3> QED
      BY <3>1, <3>2, <3>3, JobStarts, Zenon
  <2> QED
    BY <2>1, <2>2, UnchangedTables, TablesStayTyped DEF TypeInv
<1>8. ASSUME AnswerLatest(w) PROVE TypeInv'
  <2>1. UNCHANGED <<clock, runs, requests, acked, refused>>
    BY <1>8 DEF AnswerLatest
  <2>2. job' \in [Workers -> JobsOf(Len(runs'))] /\ CarriesInput' /\ CarriesRun'
    BY <1>8, <2>1, UnchangedTables, JobEnds DEF AnswerLatest
  <2>3. seen' \in [Workers -> [Sites -> 0..Len(runs')]]
    <3>1. job[w].run \in 0..Len(runs)
      BY <1>0 DEF JobsOf
    <3>2. seen \in [Workers -> [Sites -> 0..Len(runs)]]
      BY <1>0 DEF TypeOK
    <3> QED
      BY <1>8, <2>1, <3>1, <3>2 DEF AnswerLatest
  <2> QED
    BY <2>1, <2>2, <2>3, UnchangedTables, TablesStayTyped DEF TypeInv
<1>9. ASSUME RequestFails(w) PROVE TypeInv'
  <2>1. UNCHANGED <<clock, runs, requests, acked, refused, seen>>
    BY <1>9 DEF RequestFails
  <2>2. job' \in [Workers -> JobsOf(Len(runs'))] /\ CarriesInput' /\ CarriesRun'
    BY <1>9, <2>1, UnchangedTables, JobEnds DEF RequestFails
  <2> QED
    BY <2>1, <2>2, UnchangedTables, TablesStayTyped DEF TypeInv
<1> QED
  BY <1>1, <1>2, <1>3, <1>4, <1>5, <1>6, <1>7, <1>8, <1>9 DEF Step

LEMMA TypeNext == TypeInv /\ [Next]_vars => TypeInv'
<1> SUFFICES ASSUME TypeInv, [Next]_vars PROVE TypeInv'
  OBVIOUS
<1>1. CASE UNCHANGED vars
  BY <1>1 DEF vars, TypeInv, TypeOK, CarriesInput, CarriesRun, RunIds
<1>2. CASE Tick
  BY <1>2 DEF Tick, TypeInv, TypeOK, CarriesInput, CarriesRun, RunIds
<1>3. CASE Crash
  <2>1. /\ UNCHANGED <<clock, runs, requests, acked, refused, seen>>
        /\ job' = [w \in Workers |-> Idle]
    BY <1>3 DEF Crash
  <2>2. Idle \in JobsOf(Len(runs')) /\ Idle.phase = "idle"
    BY <2>1, TypesOf DEF TypeInv, Idle, NewJob, JobsOf, JobPhases
  <2> HIDE DEF Idle
  <2>3. job' \in [Workers -> JobsOf(Len(runs'))] /\ CarriesInput' /\ CarriesRun'
    BY <2>1, <2>2 DEF CarriesInput, CarriesRun, SubmitPhases
  <2> QED
    BY <2>1, <2>3, UnchangedTables, TablesStayTyped DEF TypeInv
<1> QED
  BY <1>1, <1>2, <1>3, StepKeepsTypes DEF Next

(***************************************************************************)
(* Every reachable state is well typed; in particular no reader is given   *)
(* and no submission is answered with a run that the table does not hold.  *)
(***************************************************************************)
THEOREM StoreTypeCorrect == Spec => []TypeOK
<1>1. Init => TypeInv
  BY TypeInit
<1>2. TypeInv /\ [Next]_vars => TypeInv'
  BY TypeNext
<1>3. TypeInv => TypeOK
  BY DEF TypeInv
<1> QED
  BY <1>1, <1>2, <1>3, PTL DEF Spec

-----------------------------------------------------------------------------
(***************************************************************************)
(* Who writes what.                                                        *)
(***************************************************************************)

LEMMA WritesToRuns ==
    ASSUME [Next]_vars
    PROVE  UNCHANGED runs \/ \E w \in Workers : SaveRun(w)
BY DEF Next, Step, vars, Tick, Crash, SubmitSnapshot, LookUpSnapshot, PlanFleet,
       AnswerExisting, RejectConflict, ReadLatest, AnswerLatest, RequestFails

LEMMA WritesToAcked ==
    ASSUME [Next]_vars
    PROVE  \/ UNCHANGED acked
           \/ \E w \in Workers : SaveRun(w)
           \/ \E w \in Workers, i \in RunIds : AnswerExisting(w, i)
BY DEF Next, Step, vars, Tick, Crash, SubmitSnapshot, LookUpSnapshot, PlanFleet,
       RejectConflict, ReadLatest, AnswerLatest, RequestFails

\* Stored runs stay as they are.
LEMMA RunsAreKept ==
    ASSUME TypeInv, [Next]_vars
    PROVE  RunIds \subseteq RunIds' /\ \A i \in RunIds : runs'[i] = runs[i]
<1>1. Len(runs) \in Nat
  BY TypesOf DEF TypeInv
<1>2. ASSUME NEW w \in Workers, SaveRun(w)
      PROVE  RunIds \subseteq RunIds' /\ \A i \in RunIds : runs'[i] = runs[i]
  BY <1>1, <1>2, RunAppended DEF RunIds
<1> QED
  BY <1>2, WritesToRuns DEF RunIds

-----------------------------------------------------------------------------
(***************************************************************************)
(* Replies.                                                                *)
(***************************************************************************)

UniqueSnapshots ==
    \A i, j \in RunIds : runs[i].input.sent.id = runs[j].input.sent.id => i = j

ReplyIsStored(a) ==
    /\ a.run \in RunIds
    /\ runs[a.run].input.sent = a.sent
    /\ runs[a.run].open = a.open

ReplyInv == TypeInv /\ UniqueSnapshots /\ \A a \in acked : ReplyIsStored(a)

LEMMA UniqueSnapshotsNext ==
    ASSUME TypeInv, UniqueSnapshots, [Next]_vars
    PROVE  UniqueSnapshots'
<1>1. ASSUME NEW w \in Workers, SaveRun(w) PROVE UniqueSnapshots'
  <2>0. PICK n : n = Len(runs) + 1
    OBVIOUS
  <2>1. /\ RunIds' = RunIds \union {n}
        /\ \A i \in RunIds : runs'[i] = runs[i]
        /\ runs'[n].input = job[w].input
    BY <1>1, <2>0, RunAppended, TypesOf DEF TypeInv, RunIds
  <2>2. \A i \in RunIds : runs[i].input.sent.id # job[w].input.sent.id
    BY <1>1 DEF SaveRun, HasSnapshot
  <2> QED
    BY <2>1, <2>2 DEF UniqueSnapshots
<1>2. CASE UNCHANGED runs
  BY <1>2 DEF UniqueSnapshots, RunIds
<1> QED
  BY <1>1, <1>2, WritesToRuns

LEMMA RepliesAreStoredNext ==
    ASSUME ReplyInv, [Next]_vars
    PROVE  \A a \in acked' : ReplyIsStored(a)'
<1>0. TypeInv
  BY DEF ReplyInv
<1>1. \A a \in acked : ReplyIsStored(a)'
  BY <1>0, RunsAreKept DEF ReplyInv, ReplyIsStored
<1>2. ASSUME NEW w \in Workers, SaveRun(w), NEW a \in acked'
      PROVE  ReplyIsStored(a)'
  <2>0. PICK n : n = Len(runs) + 1
    OBVIOUS
  <2>1. /\ n \in RunIds' /\ n \in Nat
        /\ runs'[n].input = job[w].input /\ runs'[n].open = job[w].open
    BY <1>0, <1>2, <2>0, RunAppended, TypesOf DEF TypeInv, RunIds
  <2>2. a \in acked \/ a = Answer(w, n, job[w].open)
    BY <1>2, <2>0 DEF SaveRun
  <2> QED
    BY <1>1, <2>1, <2>2 DEF ReplyIsStored, Answer
<1>3. ASSUME NEW w \in Workers, NEW i \in RunIds, AnswerExisting(w, i), NEW a \in acked'
      PROVE  ReplyIsStored(a)'
  <2>1. i \in RunIds' /\ runs' = runs /\ runs[i].input = job[w].input
    BY <1>3 DEF AnswerExisting, RunIds
  <2>2. a \in acked \/ a = Answer(w, i, runs[i].open)
    BY <1>3 DEF AnswerExisting
  <2> QED
    BY <1>1, <2>1, <2>2 DEF ReplyIsStored, Answer
<1> QED
  BY <1>1, <1>2, <1>3, WritesToAcked

(***************************************************************************)
(* Whoever submitted a snapshot and was answered was given one and the     *)
(* same stored run and plan, under any interleaving of submissions,        *)
(* retries, failures and crashes.                                          *)
(***************************************************************************)
THEOREM RepliesAgree == Spec => []RepliesNameOneRun
<1>1. Init => ReplyInv
  BY TypeInit DEF Init, ReplyInv, UniqueSnapshots, RunIds
<1>2. ReplyInv /\ [Next]_vars => ReplyInv'
  BY TypeNext, UniqueSnapshotsNext, RepliesAreStoredNext DEF ReplyInv
<1>3. ReplyInv => RepliesNameOneRun
  BY DEF ReplyInv, ReplyIsStored, UniqueSnapshots, RepliesNameOneRun
<1> QED
  BY <1>1, <1>2, <1>3, PTL DEF Spec

-----------------------------------------------------------------------------
(***************************************************************************)
(* Jobs, seen from one worker.                                             *)
(***************************************************************************)

LEMMA JobSteps ==
    ASSUME TypeInv, [Next]_vars, NEW v \in Workers
    PROVE  \/ job'[v] = job[v]
           \/ job'[v].phase = "idle"
           \/ \E s \in Snapshots :
                 /\ job'[v].phase = IF CaptureError(s, clock) THEN "lookup" ELSE "plan"
                 /\ job'[v].input.sent = s /\ job'[v].created = clock
                 /\ UNCHANGED <<clock, runs>>
           \/ /\ job[v].phase = "lookup" /\ job'[v].phase = "plan"
              /\ job'[v].input = job[v].input /\ job'[v].created = job[v].created
              /\ HasSnapshot(job[v].input.sent.id)
              /\ UNCHANGED <<clock, runs>>
           \/ /\ job[v].phase = "plan" /\ job'[v].phase = "save"
              /\ job'[v].input = job[v].input /\ job'[v].created = job[v].created
              /\ job'[v].now = clock
              /\ job'[v].open = SiteAvailable(job[v].input.sent, job[v].created)
              /\ UNCHANGED <<clock, runs>>
           \/ \E site \in Sites : \E i \in LatestOf(site) :
                 /\ job'[v].phase = "age" /\ job'[v].run = i
                 /\ UNCHANGED <<clock, runs, seen>>
<1>0. /\ job \in [Workers -> JobsOf(Len(runs))]
      /\ job[v] \in JobsOf(Len(runs)) /\ Idle.phase = "idle"
  BY TypesOf DEF TypeInv, Idle, NewJob
<1>1. CASE UNCHANGED vars \/ Tick
  BY <1>1 DEF vars, Tick
<1>2. CASE Crash
  BY <1>0, <1>2 DEF Crash
<1>3. ASSUME NEW w \in Workers, w # v, Step(w) PROVE job'[v] = job[v]
  <2>1. \E j : job' = [job EXCEPT ![w] = j]
    BY <1>3 DEF Step, SubmitSnapshot, LookUpSnapshot, PlanFleet, SaveRun, AnswerExisting,
                RejectConflict, ReadLatest, AnswerLatest, RequestFails, Start, Finish
  <2> QED
    BY <1>0, <1>3, <2>1
<1>4. ASSUME Finish(v) PROVE job'[v].phase = "idle"
  BY <1>0, <1>4 DEF Finish
<1>5. ASSUME NEW s \in Snapshots, SubmitSnapshot(v, s)
      PROVE  /\ job'[v].phase = IF CaptureError(s, clock) THEN "lookup" ELSE "plan"
             /\ job'[v].input.sent = s /\ job'[v].created = clock
             /\ UNCHANGED <<clock, runs>>
  BY <1>0, <1>5 DEF SubmitSnapshot, Start, NewJob, Canonical
<1>6. ASSUME LookUpSnapshot(v), ~Finish(v)
      PROVE  /\ job[v].phase = "lookup" /\ job'[v].phase = "plan"
             /\ job'[v].input = job[v].input /\ job'[v].created = job[v].created
             /\ HasSnapshot(job[v].input.sent.id)
             /\ UNCHANGED <<clock, runs>>
  BY <1>0, <1>6 DEF LookUpSnapshot, JobsOf
<1>7. ASSUME PlanFleet(v)
      PROVE  /\ job[v].phase = "plan" /\ job'[v].phase = "save"
             /\ job'[v].input = job[v].input /\ job'[v].created = job[v].created
             /\ job'[v].now = clock
             /\ job'[v].open = SiteAvailable(job[v].input.sent, job[v].created)
             /\ UNCHANGED <<clock, runs>>
  BY <1>0, <1>7 DEF PlanFleet
<1>8. ASSUME NEW site \in Sites, ReadLatest(v, site)
      PROVE  \E i \in LatestOf(site) :
                /\ job'[v].phase = "age" /\ job'[v].run = i
                /\ UNCHANGED <<clock, runs, seen>>
  BY <1>0, <1>8 DEF ReadLatest, Start, NewJob
<1>9. ASSUME Step(v)
      PROVE  \/ Finish(v)
             \/ \E s \in Snapshots : SubmitSnapshot(v, s)
             \/ LookUpSnapshot(v)
             \/ PlanFleet(v)
             \/ \E site \in Sites : ReadLatest(v, site)
  BY <1>9 DEF Step, SaveRun, AnswerExisting, RejectConflict, AnswerLatest, RequestFails
<1> QED
  BY <1>1, <1>2, <1>3, <1>4, <1>5, <1>6, <1>7, <1>8, <1>9 DEF Next

-----------------------------------------------------------------------------
(***************************************************************************)
(* Freshness.  A job that is past its check either passed it or has its    *)
(* snapshot in the table, and then it stores nothing.                      *)
(***************************************************************************)

LEMMA ClockAdvances ==
    ASSUME TypeInv, TypeInv', [Next]_vars
    PROVE  clock \in Int /\ clock' \in Int /\ clock <= clock'
<1>1. clock \in Nat /\ clock' \in Nat
  BY DEF TypeInv, TypeOK
<1>2. UNCHANGED clock \/ Tick
  BY DEF Next, Step, vars, Tick, Crash, SubmitSnapshot, LookUpSnapshot, PlanFleet, SaveRun,
         AnswerExisting, RejectConflict, ReadLatest, AnswerLatest, RequestFails
<1> QED
  BY <1>1, <1>2 DEF Tick

Passed(j) == ~CaptureError(j.input.sent, j.created) \/ HasSnapshot(j.input.sent.id)

CheckedSnapshots ==
    \A w \in Workers :
        /\ job[w].phase \in SubmitPhases => job[w].created <= clock
        /\ job[w].phase \in {"plan", "save"} => Passed(job[w])
        /\ job[w].phase = "save" =>
              /\ job[w].open = SiteAvailable(job[w].input.sent, job[w].created)
              /\ job[w].created <= job[w].now

RunWasFresh(run) ==
    /\ ~CaptureError(run.input.sent, run.created)
    /\ run.open = SiteAvailable(run.input.sent, run.created)
    /\ run.created <= run.receivedAt

FreshInv == TypeInv /\ CheckedSnapshots /\ \A i \in RunIds : RunWasFresh(runs[i])

LEMMA CheckedSnapshotsNext ==
    ASSUME TypeInv, TypeInv', CheckedSnapshots, [Next]_vars
    PROVE  CheckedSnapshots'
<1>0. clock \in Int /\ clock' \in Int /\ clock <= clock'
  BY ClockAdvances
<1>1. ASSUME NEW id, HasSnapshot(id) PROVE HasSnapshot(id)'
  BY <1>1, RunsAreKept DEF HasSnapshot
<1>2. ASSUME NEW v \in Workers
      PROVE  /\ job'[v].phase \in SubmitPhases => job'[v].created <= clock'
             /\ job'[v].phase \in {"plan", "save"} =>
                   \/ ~CaptureError(job'[v].input.sent, job'[v].created)
                   \/ \E i \in RunIds' : runs'[i].input.sent.id = job'[v].input.sent.id
             /\ job'[v].phase = "save" =>
                   /\ job'[v].open = SiteAvailable(job'[v].input.sent, job'[v].created)
                   /\ job'[v].created <= job'[v].now
  <2>0. job[v].created \in Int
    BY TypesOf DEF TypeInv, JobsOf
  <2>1. CASE job'[v] = job[v]
    BY <1>0, <1>1, <2>0, <2>1 DEF CheckedSnapshots, Passed, HasSnapshot
  <2>2. CASE job'[v].phase = "idle"
    BY <2>2 DEF SubmitPhases
  <2>3. ASSUME NEW s \in Snapshots,
               job'[v].phase = IF CaptureError(s, clock) THEN "lookup" ELSE "plan",
               job'[v].input.sent = s, job'[v].created = clock
        PROVE  /\ job'[v].created <= clock' /\ job'[v].phase # "save"
               /\ job'[v].phase = "plan" =>
                     ~CaptureError(job'[v].input.sent, job'[v].created)
    BY <1>0, <2>3
  <2>4. CASE /\ job[v].phase = "lookup" /\ job'[v].phase = "plan"
             /\ job'[v].input = job[v].input /\ job'[v].created = job[v].created
             /\ HasSnapshot(job[v].input.sent.id)
             /\ UNCHANGED <<clock, runs>>
    BY <2>4 DEF CheckedSnapshots, SubmitPhases, HasSnapshot, RunIds
  <2>5. CASE /\ job[v].phase = "plan" /\ job'[v].phase = "save"
             /\ job'[v].input = job[v].input /\ job'[v].created = job[v].created
             /\ job'[v].now = clock
             /\ job'[v].open = SiteAvailable(job[v].input.sent, job[v].created)
             /\ UNCHANGED <<clock, runs>>
    BY <2>5 DEF CheckedSnapshots, SubmitPhases, Passed, HasSnapshot, RunIds
  <2>6. CASE job'[v].phase = "age"
    BY <2>6 DEF SubmitPhases
  <2> QED
    BY <2>1, <2>2, <2>3, <2>4, <2>5, <2>6, JobSteps
<1> QED
  BY <1>2 DEF CheckedSnapshots, Passed, HasSnapshot

(***************************************************************************)
(* No stored run rests on captures that were late or ahead of the clock    *)
(* when it was planned, and places are assigned exactly when the site was  *)
(* observed in time, whatever is submitted meanwhile.                      *)
(***************************************************************************)
THEOREM RunsWereFresh == Spec => []StoredRunsWereFresh
<1>1. Init => FreshInv
  BY TypeInit
  DEF Init, FreshInv, CheckedSnapshots, RunIds, Idle, NewJob, SubmitPhases
<1>2. FreshInv /\ [Next]_vars => FreshInv'
  <2> SUFFICES ASSUME FreshInv, [Next]_vars PROVE FreshInv'
    OBVIOUS
  <2>1. TypeInv /\ TypeInv' /\ CheckedSnapshots'
    BY TypeNext, CheckedSnapshotsNext DEF FreshInv
  <2>2. ASSUME NEW w \in Workers, SaveRun(w), NEW i \in RunIds'
        PROVE  RunWasFresh(runs'[i])
    <3>0. PICK n : n = Len(runs) + 1
      OBVIOUS
    <3>1. /\ RunIds' = RunIds \union {n}
          /\ \A k \in RunIds : runs'[k] = runs[k]
          /\ runs'[n].input = job[w].input /\ runs'[n].open = job[w].open
          /\ runs'[n].created = job[w].created /\ runs'[n].receivedAt = job[w].now
      BY <2>1, <2>2, <3>0, RunAppended, TypesOf DEF TypeInv, RunIds
    <3>2. /\ ~CaptureError(job[w].input.sent, job[w].created)
          /\ job[w].open = SiteAvailable(job[w].input.sent, job[w].created)
          /\ job[w].created <= job[w].now
      BY <2>2 DEF FreshInv, CheckedSnapshots, Passed, SaveRun
    <3> QED
      BY <3>1, <3>2 DEF FreshInv, RunWasFresh
  <2>3. ASSUME UNCHANGED runs, NEW i \in RunIds'
        PROVE  RunWasFresh(runs'[i])
    BY <2>3 DEF FreshInv, RunIds
  <2>4. \A i \in RunIds' : RunWasFresh(runs'[i])
    BY <2>2, <2>3, WritesToRuns DEF FreshInv
  <2> QED
    BY <2>1, <2>4 DEF FreshInv
<1>3. FreshInv => StoredRunsWereFresh
  <2> SUFFICES ASSUME FreshInv, NEW i \in RunIds
               PROVE  /\ runs[i].created - runs[i].input.sent.captured
                            \in (- FutureTolerance)..CaptureMaxAge
                      /\ runs[i].created - runs[i].input.sent.observed
                            >= - FutureTolerance
                      /\ runs[i].open <=>
                            runs[i].created - runs[i].input.sent.observed
                               <= CaptureMaxAge
                      /\ runs[i].created <= runs[i].receivedAt
    BY DEF StoredRunsWereFresh
  <2>1. runs[i] \in Runs
    BY TypesOf DEF FreshInv, TypeInv
  <2>2. /\ runs[i].created \in Int /\ runs[i].open \in BOOLEAN
        /\ runs[i].input.sent.captured \in Int
        /\ runs[i].input.sent.observed \in Int
    BY <2>1, StoreAssumption DEF Runs, Inputs, SnapshotType
  <2>3. /\ RunWasFresh(runs[i])
        /\ CaptureMaxAge \in Int /\ FutureTolerance \in Int
    BY StoreAssumption DEF FreshInv
  <2>4. /\ runs[i].created - runs[i].input.sent.captured
              \in (- FutureTolerance)..CaptureMaxAge
        /\ runs[i].created - runs[i].input.sent.observed >= - FutureTolerance
    BY <2>2, <2>3 DEF RunWasFresh, CaptureError
  <2>5. runs[i].open <=> runs[i].created - runs[i].input.sent.observed <= CaptureMaxAge
    BY <2>2, <2>3 DEF RunWasFresh, SiteAvailable
  <2> QED
    BY <2>3, <2>4, <2>5 DEF RunWasFresh
<1> QED
  BY <1>1, <1>2, <1>3, PTL DEF Spec

-----------------------------------------------------------------------------
(***************************************************************************)
(* Readers.  The run a reader is about to be given is no older than the    *)
(* one it has, since it was the latest when it was read.                   *)
(***************************************************************************)

Older(i, k) == runs[i].receivedAt <= runs[k].receivedAt

SeenAreOfTheSite ==
    \A w \in Workers, s \in Sites :
        seen[w][s] # 0 => runs[seen[w][s]].input.sent.site = s

ReadsAreRecent ==
    \A w \in Workers, s \in Sites :
        /\ job[w].phase = "age"
        /\ runs[job[w].run].input.sent.site = s
        /\ seen[w][s] # 0
        => Older(seen[w][s], job[w].run)

ReaderInv == TypeInv /\ SeenAreOfTheSite /\ ReadsAreRecent

LEMMA SeenRuns ==
    ASSUME TypeInv, NEW w \in Workers, NEW s \in Sites, seen[w][s] # 0
    PROVE  seen[w][s] \in RunIds
<1>1. seen \in [Workers -> [Sites -> 0..Len(runs)]] /\ Len(runs) \in Nat
  BY TypesOf DEF TypeInv, TypeOK
<1> QED
  BY <1>1 DEF RunIds

\* A reader is given the run it read, or nothing.
LEMMA SeenSteps ==
    ASSUME TypeInv, [Next]_vars, NEW w \in Workers, NEW s \in Sites
    PROVE  \/ seen'[w][s] = seen[w][s]
           \/ /\ job[w].phase = "age" /\ job'[w].phase = "idle"
              /\ runs[job[w].run].input.sent.site = s
              /\ seen'[w][s] = job[w].run
              /\ job[w].run \in RunIds
              /\ UNCHANGED runs
<1>0. /\ job \in [Workers -> JobsOf(Len(runs))] /\ Idle.phase = "idle"
      /\ seen \in [Workers -> [Sites -> 0..Len(runs)]]
  BY TypesOf DEF TypeInv, TypeOK, Idle, NewJob
<1>1. ASSUME NEW v \in Workers, AnswerLatest(v)
      PROVE  \/ seen'[w][s] = seen[w][s]
             \/ /\ job[w].phase = "age" /\ job'[w].phase = "idle"
                /\ runs[job[w].run].input.sent.site = s
                /\ seen'[w][s] = job[w].run
                /\ job[w].run \in RunIds
                /\ UNCHANGED runs
  <2> DEFINE i == job[v].run
             site == runs[i].input.sent.site
  <2>1. /\ job[v].phase = "age" /\ UNCHANGED runs /\ Finish(v)
        /\ seen' = seen \/ seen' = [seen EXCEPT ![v][site] = i]
    BY <1>1 DEF AnswerLatest
  <2>2. job'[v].phase = "idle" /\ i \in RunIds
    BY <1>0, <2>1 DEF Finish, TypeInv, CarriesRun
  <2> HIDE DEF i, site
  <2>3. seen'[w][s] = seen[w][s] \/ (w = v /\ s = site /\ seen'[w][s] = i)
    BY <1>0, <2>1
  <2> QED
    BY <2>1, <2>2, <2>3 DEF i, site
<1>2. UNCHANGED seen \/ \E v \in Workers : AnswerLatest(v)
  BY DEF Next, Step, vars, Tick, Crash, SubmitSnapshot, LookUpSnapshot, PlanFleet, SaveRun,
         AnswerExisting, RejectConflict, ReadLatest, RequestFails
<1> QED
  BY <1>1, <1>2

LEMMA ReaderNext ==
    ASSUME ReaderInv, [Next]_vars
    PROVE  ReaderInv'
<1>0. TypeInv /\ TypeInv' /\ SeenAreOfTheSite /\ ReadsAreRecent
  BY TypeNext DEF ReaderInv
<1>1. ASSUME NEW w \in Workers, NEW s \in Sites, seen'[w][s] # 0
      PROVE  runs'[seen'[w][s]].input.sent.site = s
  <2>1. CASE seen'[w][s] = seen[w][s]
    BY <1>0, <1>1, <2>1, SeenRuns, RunsAreKept DEF SeenAreOfTheSite
  <2>2. CASE /\ runs[job[w].run].input.sent.site = s
             /\ seen'[w][s] = job[w].run /\ UNCHANGED runs
    BY <2>2
  <2> QED
    BY <1>0, <2>1, <2>2, SeenSteps
<1>2. ASSUME NEW w \in Workers, NEW s \in Sites, seen'[w][s] # 0,
             job'[w].phase = "age", runs'[job'[w].run].input.sent.site = s
      PROVE  runs'[seen'[w][s]].receivedAt <= runs'[job'[w].run].receivedAt
  <2>1. CASE job'[w] = job[w]
    <3>1. seen'[w][s] = seen[w][s] /\ seen[w][s] \in RunIds
      BY <1>0, <1>2, <2>1, SeenSteps, SeenRuns
    <3>2. job[w].run \in RunIds
      BY <1>0, <1>2, <2>1 DEF TypeInv, CarriesRun
    <3>3. runs[job[w].run].input.sent.site = s
      BY <1>0, <1>2, <2>1, <3>2, RunsAreKept
    <3>4. runs[seen[w][s]].receivedAt <= runs[job[w].run].receivedAt
      BY <1>0, <1>2, <2>1, <3>1, <3>3 DEF ReadsAreRecent, Older
    <3> QED
      BY <1>0, <2>1, <3>1, <3>2, <3>4, RunsAreKept
  <2>2. ASSUME NEW site \in Sites, NEW i \in LatestOf(site), job'[w].run = i,
               UNCHANGED <<runs, seen>>
        PROVE  runs[seen[w][s]].receivedAt <= runs[i].receivedAt
    <3>1. /\ seen[w][s] \in RunIds /\ i \in RunIds /\ site = s
          /\ runs[seen[w][s]].input.sent.site = s
      BY <1>0, <1>2, <2>2, SeenRuns DEF LatestOf, SeenAreOfTheSite
    <3>2. seen[w][s] = i \/ Later(i, seen[w][s])
      BY <2>2, <3>1 DEF LatestOf
    <3>3. runs[seen[w][s]].receivedAt \in Int /\ runs[i].receivedAt \in Int
      BY <1>0, <3>1, TypesOf DEF TypeInv, Runs
    <3> QED
      BY <3>2, <3>3 DEF Later
  <2>3. CASE \E site \in Sites : \E i \in LatestOf(site) :
                /\ job'[w].phase = "age" /\ job'[w].run = i
                /\ UNCHANGED <<clock, runs, seen>>
    BY <2>2, <2>3
  <2> QED
    BY <1>0, <1>2, <2>1, <2>3, JobSteps
<1> QED
  BY <1>0, <1>1, <1>2 DEF ReaderInv, SeenAreOfTheSite, ReadsAreRecent, Older

(***************************************************************************)
(* A reader of fleet/latest never goes back in receipt time, in whatever   *)
(* order handlers commit the runs.                                         *)
(***************************************************************************)
THEOREM ReadersGoForward == Spec => ReadersNeverGoBack
<1>1. Init => ReaderInv
  BY TypeInit DEF Init, ReaderInv, SeenAreOfTheSite, ReadsAreRecent, Idle, NewJob
<1>2. ReaderInv /\ [Next]_vars => ReaderInv'
  BY ReaderNext
<1>3. ReaderInv /\ [Next]_vars =>
         \A w \in Workers, s \in Sites :
            seen[w][s] # 0 =>
               runs[seen[w][s]].receivedAt <= runs'[seen'[w][s]].receivedAt
  <2> SUFFICES ASSUME ReaderInv, [Next]_vars, NEW w \in Workers, NEW s \in Sites,
                      seen[w][s] # 0
               PROVE  runs[seen[w][s]].receivedAt <= runs'[seen'[w][s]].receivedAt
    OBVIOUS
  <2>1. TypeInv /\ seen[w][s] \in RunIds /\ runs[seen[w][s]].receivedAt \in Int
    BY SeenRuns, TypesOf DEF ReaderInv, TypeInv, Runs
  <2>2. CASE seen'[w][s] = seen[w][s]
    <3>1. runs'[seen'[w][s]] = runs[seen[w][s]]
      BY <2>1, <2>2, RunsAreKept
    <3> QED
      BY <2>1, <3>1
  <2>3. CASE /\ job[w].phase = "age" /\ runs[job[w].run].input.sent.site = s
             /\ seen'[w][s] = job[w].run /\ UNCHANGED runs
    BY <2>3 DEF ReaderInv, ReadsAreRecent, Older
  <2> QED
    BY <2>1, <2>2, <2>3, SeenSteps
<1> QED
  BY <1>1, <1>2, <1>3, PTL DEF Spec, ReadersNeverGoBack
=============================================================================
