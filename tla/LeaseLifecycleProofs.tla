------------------------ MODULE LeaseLifecycleProofs ------------------------
(***************************************************************************)
(* Proofs about the provisioning composition: the job engine, the          *)
(* fulfillment and its convergence, and the lifecycle of the lease, for    *)
(* every number of overlapping cycles and releases, retries and restarts.  *)
(***************************************************************************)
EXTENDS LeaseLifecycle, TLAPS

-----------------------------------------------------------------------------
(* The inductive invariant.                                                *)

Create == job["create"].status
Destroy == job["teardown"].status

\* A job has an execution only while it runs or after it was cancelled, and the
\* workload is there only where a create may have put it.
JobsSound ==
  /\ \A j \in Jobs : runs[j] <= 1 /\ (runs[j] > 0 => job[j].status \in {"running", "cancelled"})
  /\ Create = "none" => ~present
  /\ Destroy = "succeeded" /\ Create # "cancelled" => ~present

\* The record's state tells how far its jobs have come.
RecordSound ==
  /\ rec.state \in {"assigned", "abandoned"} => Create = "none"
  /\ rec.state = "dispatching" => Create # "none"
  /\ rec.state \in {"active", "failed"} \cup TeardownBegun => Create \in Ended
  /\ rec.state = "active" => Create = "succeeded"
  /\ rec.state = "failed" => Create # "succeeded"
  /\ rec.state = "torn_down" => Destroy = "succeeded"
  /\ Destroy # "none" => rec.state \in TeardownBegun
  /\ rec.reason = "compensation" <=> rec.state \in TeardownBegun /\ Create # "succeeded"

\* What a request or a cycle remembers is still true when it is used.
MemorySound ==
  /\ begin = "dispatch" => rec.state \notin {"assigned", "abandoned"}
  /\ begin = "acknowledge" => Create # "none"
  /\ \A c \in Cycles :
       /\ conv[c].on = "dispatch_pending" => rec.state \notin {"assigned", "abandoned"}
       /\ conv[c].on = "dispatch_pending" /\ conv[c].got # "none" => Create # "none"
       /\ conv[c].on = "dispatching" =>
            /\ Create \in Ended
            /\ conv[c].got = "succeeded" <=> Create = "succeeded"
       /\ conv[c].on \in {"teardown_dispatch_pending", "tearing_down", "teardown_failed"} =>
            rec.state \in TeardownBegun
       /\ conv[c].on = "tearing_down" /\ conv[c].got = "succeeded" => Destroy = "succeeded"
       /\ conv[c].on \in {"none", "dispatch_pending", "dispatching", "teardown_dispatch_pending",
                          "tearing_down", "teardown_failed"}
       /\ conv[c].on = "none" => conv[c].got = "none"
       /\ conv[c].got \in {"succeeded", "failed"} => conv[c].on \in {"dispatching", "tearing_down"}

\* Capacity that was given back with proof is never delivered against again, and
\* only a release that happened is told of.
LeaseSound ==
  /\ lease = "released" => rec.state \in {"abandoned", "torn_down"}
  /\ \A r \in Releasers : rel[r].at = "notify" => lease \in Released

LeaseInv == LeaseTypeOK /\ JobsSound /\ RecordSound /\ MemorySound /\ LeaseSound

-----------------------------------------------------------------------------
(* The job engine.                                                         *)

\* What becomes of a row is a row, ended or waiting to be tried again.
LEMMA OutcomesTyped ==
  ASSUME JobTypeOK, NEW j \in Jobs, NEW row \in Outcomes(j)
  PROVE  /\ row \in JobRow
         /\ row.status \in {"succeeded", "unproven", "failed", "queued"}
         /\ row.status = "succeeded" => present = (j = "create")
<1>1. job[j] \in JobRow
  BY DEF JobTypeOK
<1>2. \/ row = [job[j] EXCEPT !.status = "succeeded"] /\ present = (j = "create")
      \/ row = [job[j] EXCEPT !.status = "unproven"]
      \/ row = [job[j] EXCEPT !.status = "failed"]
      \/ row = [status |-> "queued", retries |-> job[j].retries + 1, wait |-> TRUE]
  BY DEF Outcomes
<1>3. ASSUME NEW st \in {"succeeded", "unproven", "failed"}
      PROVE  /\ [job[j] EXCEPT !.status = st] \in JobRow
             /\ [job[j] EXCEPT !.status = st].status = st
  BY <1>1 DEF JobRow, Live, Ended
<1>4. /\ [status |-> "queued", retries |-> job[j].retries + 1, wait |-> TRUE] \in JobRow
      /\ [status |-> "queued", retries |-> job[j].retries + 1, wait |-> TRUE].status = "queued"
  BY <1>1 DEF JobRow, Live
<1> QED
  BY <1>2, <1>3, <1>4

\* A step on one job: the other job is left alone, its own row moves forward.
EngineStep(j) ==
  RequeueDueRetry(j) \/ ProcessJob(j) \/ Execute(j) \/ ReportOutcome(j) \/ EndUnwatched(j)
  \/ CancelJob(j)

\* A step of the engine keeps types, touches one job, and revives none that ended.
LEMMA EngineStepFacts ==
  ASSUME JobTypeOK, NEW j \in Jobs, EngineStep(j)
  PROVE  /\ JobTypeOK'
         /\ \A k \in Jobs : k # j => job'[k] = job[k] /\ runs'[k] = runs[k]
         /\ job[j].status \in Ended \cup {"none"} => job'[j] = job[j]
         /\ job'[j].status # "none" \/ job[j].status = "none"
<1>1. /\ job \in [Jobs -> JobRow] /\ job[j] \in JobRow /\ runs \in [Jobs -> Nat] /\ runs[j] \in Nat
      /\ queue \subseteq Jobs /\ watched \subseteq Jobs /\ present \in BOOLEAN
      /\ stops \in 0 .. MaxStops
  BY DEF JobTypeOK
<1>2. CASE RequeueDueRetry(j)
  <2>1. [job[j] EXCEPT !.wait = FALSE] \in JobRow /\ [job[j] EXCEPT !.wait = FALSE].status = "queued"
    BY <1>1, <1>2 DEF RequeueDueRetry, JobRow
  <2>2. job' = [job EXCEPT ![j] = [job[j] EXCEPT !.wait = FALSE]] /\ job[j].status = "queued"
    BY <1>2 DEF RequeueDueRetry
  <2>3. queue' = queue \cup {j} /\ UNCHANGED <<runs, watched, present, stops>>
    BY <1>2 DEF RequeueDueRetry
  <2> QED
    BY <1>1, <2>1, <2>2, <2>3 DEF JobTypeOK, Ended
<1>3. CASE ProcessJob(j)
  <2>1. ASSUME NEW st \in {"running", "failed"}
        PROVE  [job[j] EXCEPT !.status = st] \in JobRow /\ [job[j] EXCEPT !.status = st].status = st
    BY <1>1 DEF JobRow, Live, Ended
  <2>2. \/ job' = job
        \/ /\ job[j].status = "queued"
           /\ \E st \in {"running", "failed"} : job' = [job EXCEPT ![j] = [job[j] EXCEPT !.status = st]]
    BY <1>3 DEF ProcessJob
  <2>3. /\ runs' = runs \/ runs' = [runs EXCEPT ![j] = runs[j] + 1]
        /\ watched' \subseteq watched \cup {j} /\ queue' \subseteq queue
        /\ UNCHANGED <<present, stops>>
    BY <1>3 DEF ProcessJob
  <2>4. job' \in [Jobs -> JobRow]
    BY <1>1, <2>1, <2>2
  <2>5. runs' \in [Jobs -> Nat] /\ \A k \in Jobs : k # j => runs'[k] = runs[k]
    BY <1>1, <2>3
  <2>6. /\ \A k \in Jobs : k # j => job'[k] = job[k]
        /\ job[j].status \in Ended \cup {"none"} => job'[j] = job[j]
        /\ job'[j].status # "none" \/ job[j].status = "none"
    BY <1>1, <2>1, <2>2 DEF Ended
  <2> QED
    BY <1>1, <2>3, <2>4, <2>5, <2>6 DEF JobTypeOK
<1>4. CASE Execute(j)
  <2>1. UNCHANGED <<job, queue, runs, watched, stops>> /\ present' \in BOOLEAN
    BY <1>4 DEF Execute
  <2> QED
    BY <1>1, <2>1 DEF JobTypeOK
<1>5. CASE ReportOutcome(j)
  <2>1. /\ runs[j] > 0 /\ runs' = [runs EXCEPT ![j] = runs[j] - 1]
        /\ watched' = watched \ {j} /\ UNCHANGED <<queue, present, stops>>
    BY <1>5 DEF ReportOutcome
  <2>2. \/ job' = job
        \/ job[j].status = "running" /\ \E row \in Outcomes(j) : job' = [job EXCEPT ![j] = row]
    BY <1>5 DEF ReportOutcome
  <2>3. runs' \in [Jobs -> Nat] /\ \A k \in Jobs : k # j => runs'[k] = runs[k]
    BY <1>1, <2>1
  <2>4. /\ job' \in [Jobs -> JobRow]
        /\ \A k \in Jobs : k # j => job'[k] = job[k]
        /\ job[j].status \in Ended \cup {"none"} => job'[j] = job[j]
        /\ job'[j].status # "none" \/ job[j].status = "none"
    BY <1>1, <2>2, OutcomesTyped DEF Ended
  <2> QED
    BY <1>1, <2>1, <2>3, <2>4 DEF JobTypeOK
<1>6. CASE EndUnwatched(j)
  <2>1. /\ runs[j] > 0 /\ runs' = [runs EXCEPT ![j] = runs[j] - 1]
        /\ UNCHANGED <<job, queue, watched, present, stops>>
    BY <1>6 DEF EndUnwatched
  <2>2. runs' \in [Jobs -> Nat] /\ \A k \in Jobs : k # j => runs'[k] = runs[k]
    BY <1>1, <2>1
  <2> QED
    BY <1>1, <2>1, <2>2 DEF JobTypeOK
<1>7. CASE CancelJob(j)
  <2>1. /\ [job[j] EXCEPT !.status = "cancelled"] \in JobRow
        /\ [job[j] EXCEPT !.status = "cancelled"].status = "cancelled"
    BY <1>1 DEF JobRow, Ended
  <2>2. /\ job[j].status \in Live
        /\ job' = [job EXCEPT ![j] = [job[j] EXCEPT !.status = "cancelled"]]
        /\ UNCHANGED <<queue, runs, watched, present, stops>>
    BY <1>7 DEF CancelJob
  <2> QED
    BY <1>1, <2>1, <2>2 DEF JobTypeOK, Live, Ended
<1> QED
  BY <1>2, <1>3, <1>4, <1>5, <1>6, <1>7 DEF EngineStep

\* A step of the engine keeps its executions apart and the workload accounted
\* for, given that a teardown's job exists only once the create has ended.
LEMMA EngineStepSound ==
  ASSUME JobTypeOK, JobsSound, Destroy # "none" => Create \in Ended, NEW j \in Jobs, EngineStep(j)
  PROVE  JobsSound'
<1> USE DEF Create, Destroy
<1>0. /\ job \in [Jobs -> JobRow] /\ runs \in [Jobs -> Nat] /\ present \in BOOLEAN
      /\ \A k \in Jobs : runs[k] \in Nat
  BY DEF JobTypeOK
<1>1. \A k \in Jobs : k # j => job'[k] = job[k] /\ runs'[k] = runs[k]
  BY EngineStepFacts
<1>2. /\ runs[j] <= 1
      /\ runs[j] > 0 => job[j].status \in {"running", "cancelled"}
  BY DEF JobsSound
<1>3. /\ runs'[j] <= 1
      /\ runs'[j] > 0 => job'[j].status \in {"running", "cancelled"}
  <2>1. CASE RequeueDueRetry(j)
    BY <1>0, <1>2, <2>1 DEF RequeueDueRetry
  <2>2. CASE ProcessJob(j)
    BY <1>0, <1>2, <2>2 DEF ProcessJob, JobRow
  <2>3. CASE Execute(j)
    BY <1>2, <2>3 DEF Execute
  <2>4. CASE ReportOutcome(j)
    <3>1. runs' = [runs EXCEPT ![j] = runs[j] - 1] /\ runs[j] > 0
      BY <2>4 DEF ReportOutcome
    <3> QED
      BY <1>0, <1>2, <3>1
  <2>5. CASE EndUnwatched(j)
    BY <1>0, <1>2, <2>5 DEF EndUnwatched
  <2>6. CASE CancelJob(j)
    BY <1>0, <1>2, <2>6 DEF CancelJob, JobRow
  <2> QED
    BY <2>1, <2>2, <2>3, <2>4, <2>5, <2>6 DEF EngineStep
<1>4. \A k \in Jobs : runs'[k] <= 1 /\ (runs'[k] > 0 => job'[k].status \in {"running", "cancelled"})
  BY <1>1, <1>3 DEF JobsSound
<1>5. "create" \in Jobs /\ "teardown" \in Jobs
  BY DEF Jobs
<1>6. Create' = "none" <=> Create = "none"
  BY <1>1, <1>5, EngineStepFacts
<1>7. CASE Execute(j)
  <2>1. UNCHANGED job /\ runs[j] > 0 /\ present' = (j = "create")
    BY <1>7 DEF Execute
  <2>2. Destroy = "succeeded" /\ Create # "cancelled" => j # "create"
    BY <1>2, <2>1 DEF Ended
  <2>3. Create = "none" => j # "create"
    BY <1>2, <2>1
  <2> QED
    BY <1>4, <2>1, <2>2, <2>3 DEF JobsSound
<1>8. CASE ~Execute(j)
  <2>1. present' = present
    BY <1>8 DEF EngineStep, RequeueDueRetry, ProcessJob, ReportOutcome, EndUnwatched, CancelJob
  <2>2. Destroy # "none" => Create' = Create
    BY <1>1, <1>5, EngineStepFacts
  <2>3. Destroy' = "succeeded" => Destroy # "none"
    BY <1>1, <1>5, EngineStepFacts
  <2>4. Destroy' = "succeeded" /\ Destroy # "succeeded" => ~present
    <3>1. ASSUME Destroy' = "succeeded", Destroy # "succeeded"
          PROVE  ~present
      <4>1. j = "teardown"
        BY <1>1, <1>5, <3>1
      <4>2. ReportOutcome(j)
        <5>1. ~RequeueDueRetry(j)
          BY <1>0, <1>5, <3>1, <4>1 DEF RequeueDueRetry, JobRow
        <5>2. ~ProcessJob(j)
          BY <1>0, <1>5, <3>1, <4>1 DEF ProcessJob, JobRow
        <5>3. ~EndUnwatched(j)
          BY <3>1, <4>1 DEF EndUnwatched
        <5>4. ~CancelJob(j)
          BY <1>0, <1>5, <3>1, <4>1 DEF CancelJob, JobRow
        <5> QED
          BY <1>8, <5>1, <5>2, <5>3, <5>4 DEF EngineStep
      <4>3. PICK row \in Outcomes(j) : job' = [job EXCEPT ![j] = row]
        BY <3>1, <4>1, <4>2 DEF ReportOutcome
      <4>4. row.status = "succeeded"
        BY <1>0, <1>5, <3>1, <4>1, <4>3
      <4> QED
        BY <4>1, <4>4, OutcomesTyped
    <3> QED
      BY <3>1
  <2> QED
    BY <1>4, <1>6, <2>1, <2>2, <2>3, <2>4 DEF JobsSound
<1> QED
  BY <1>7, <1>8

\* A submission adds the row of a job that has none, and changes nothing else.
LEMMA SubmitFacts ==
  ASSUME JobTypeOK, JobsSound, NEW j \in Jobs, Submit(j)
  PROVE  /\ JobTypeOK' /\ JobsSound'
         /\ job'[j].status # "none"
         /\ job[j].status # "none" => job' = job
         /\ \A k \in Jobs : k # j => job'[k] = job[k]
<1> USE DEF Create, Destroy
<1>1. /\ job \in [Jobs -> JobRow] /\ job[j] \in JobRow /\ runs \in [Jobs -> Nat] /\ present \in BOOLEAN
      /\ queue \subseteq Jobs
  BY DEF JobTypeOK
<1>2. UNCHANGED <<runs, watched, present, stops>>
  BY DEF Submit
<1>3. CASE job[j].status = "none"
  <2> DEFINE row == [job[j] EXCEPT !.status = "queued"]
  <2>1. row \in JobRow /\ row.status = "queued"
    BY <1>1 DEF JobRow, Live
  <2>2. job' = [job EXCEPT ![j] = row] /\ queue' = queue \cup {j}
    BY <1>3 DEF Submit
  <2> HIDE DEF row
  <2>3. job'[j].status = "queued" /\ \A k \in Jobs : k # j => job'[k] = job[k]
    BY <1>1, <2>1, <2>2
  <2>4. JobTypeOK'
    BY <1>1, <1>2, <2>1, <2>2 DEF JobTypeOK
  <2>5. \A k \in Jobs : runs'[k] <= 1 /\ (runs'[k] > 0 => job'[k].status \in {"running", "cancelled"})
    BY <1>2, <1>3, <2>3 DEF JobsSound
  <2>6. j = "create" => ~present
    BY <1>3 DEF JobsSound
  <2>7. Create' # "cancelled" /\ Destroy' = "succeeded" /\ j # "create" =>
          Create # "cancelled" /\ Destroy = "succeeded"
    BY <1>3, <2>3 DEF Jobs
  <2>8. Create' = "none" => Create = "none"
    BY <2>3 DEF Jobs
  <2> QED
    BY <1>2, <2>3, <2>4, <2>5, <2>6, <2>7, <2>8, <1>3 DEF JobsSound
<1>4. CASE job[j].status # "none"
  <2>1. UNCHANGED <<job, queue>>
    BY <1>4 DEF Submit
  <2> QED
    BY <1>1, <1>2, <1>4, <2>1 DEF JobTypeOK, JobsSound
<1> QED
  BY <1>3, <1>4

\* Rows of jobs only move forward.
JobsAdvance ==
  \A j \in Jobs : /\ job[j].status \in Ended => job'[j].status = job[j].status
                  /\ job[j].status # "none" => job'[j].status # "none"

\* A step of the engine and a submission only move rows forward.
LEMMA EngineAdvances ==
  ASSUME JobTypeOK, NEW j \in Jobs, EngineStep(j) \/ (JobsSound /\ Submit(j))
  PROVE  JobsAdvance
<1>1. CASE EngineStep(j)
  BY <1>1, EngineStepFacts DEF JobsAdvance
<1>2. CASE JobsSound /\ Submit(j)
  BY <1>2, SubmitFacts DEF JobsAdvance, Ended
<1> QED
  BY <1>1, <1>2

\* Progress of the jobs contradicts nothing that the record, a request or a cycle
\* relies on, if no job is submitted before its time.
LEMMA AdvanceSound ==
  ASSUME RecordSound, JobsAdvance, UNCHANGED rec,
         rec.state \in {"assigned", "abandoned"} => Create' = "none",
         Destroy' # "none" => rec.state \in TeardownBegun
  PROVE  /\ RecordSound'
         /\ MemorySound /\ UNCHANGED <<begin, conv>> => MemorySound'
<1> USE DEF Create, Destroy
<1>1. "create" \in Jobs /\ "teardown" \in Jobs
  BY DEF Jobs
<1>2. /\ Create \in Ended => Create' = Create
      /\ Create # "none" => Create' # "none"
      /\ Destroy = "succeeded" => Destroy' = "succeeded"
  BY <1>1 DEF JobsAdvance, Ended
<1>3. RecordSound'
  BY <1>2 DEF RecordSound, Ended, TeardownBegun
<1>4. MemorySound /\ UNCHANGED <<begin, conv>> => MemorySound'
  BY <1>2 DEF MemorySound, Ended
<1> QED
  BY <1>3, <1>4

-----------------------------------------------------------------------------
(* The record.                                                             *)

\* The record moves along its transition table, or not at all.
RecordAdvance == rec'.state = rec.state \/ <<rec.state, rec'.state>> \in Allowed

\* What a transition never undoes.
LEMMA AdvanceKeeps ==
  ASSUME RecordAdvance
  PROVE  /\ rec.state \notin {"assigned", "abandoned"} => rec'.state \notin {"assigned", "abandoned"}
         /\ rec.state \in TeardownBegun => rec'.state \in TeardownBegun
         /\ rec.state \in {"abandoned", "torn_down"} => rec'.state = rec.state
BY DEF RecordAdvance, Allowed, TeardownBegun

\* So a step that moves the record keeps what requests, cycles and the lease
\* know of it.
LEMMA AdvanceRemembered ==
  ASSUME RecordAdvance, UNCHANGED <<job, begin, conv>>, MemorySound
  PROVE  MemorySound'
<1>1. UNCHANGED <<Create, Destroy>>
  BY DEF Create, Destroy
<1> QED
  BY <1>1, AdvanceKeeps DEF MemorySound

\* A released lease keeps its proof while the record moves.
LEMMA AdvanceLeased ==
  ASSUME RecordAdvance, UNCHANGED <<lease, rel>>, LeaseSound
  PROVE  LeaseSound'
BY AdvanceKeeps DEF LeaseSound

Fulfilling == JobTypeOK /\ FulfillmentTypeOK /\ JobsSound /\ RecordSound /\ MemorySound

RecordType ==
  [state : RecordStates, reason : Reasons, claim : {WorkerOf[c] : c \in Cycles} \cup {NoWorker}]

CycleType == [on : RecordStates \cup {"none"}, got : {"none", "sent", "succeeded", "failed"}]

\* accept_fulfillment keeps the fulfillment sound.
LEMMA AcceptSound ==
  ASSUME Fulfilling, AcceptFulfillment
  PROVE  Fulfilling' /\ RecordAdvance
<1> USE DEF Create, Destroy
<1>1. /\ rec \in RecordType /\ UNCHANGED <<job, conv, jobVars>>
      /\ rec.state \in {"assigned", "dispatch_pending"}
      /\ begin' = "dispatch"
      /\ rec' = [rec EXCEPT !.state = "dispatch_pending", !.reason = rec.reason]
  BY DEF Fulfilling, FulfillmentTypeOK, RecordType, AcceptFulfillment, Transition, jobVars
<1>2. /\ rec' \in RecordType /\ rec'.state = "dispatch_pending" /\ rec'.reason = rec.reason
  BY <1>1 DEF RecordType, RecordStates
<1>3. RecordAdvance
  BY <1>1, <1>2 DEF RecordAdvance, Allowed
<1>4. JobTypeOK' /\ JobsSound'
  BY <1>1 DEF Fulfilling, JobTypeOK, JobsSound, jobVars
<1>5. FulfillmentTypeOK'
  BY <1>1, <1>2 DEF Fulfilling, FulfillmentTypeOK, RecordType
<1>6. RecordSound'
  BY <1>1, <1>2 DEF Fulfilling, RecordSound, TeardownBegun
<1>7. MemorySound'
  BY <1>1, <1>2, <1>3, AdvanceKeeps DEF Fulfilling, MemorySound
<1> QED
  BY <1>3, <1>4, <1>5, <1>6, <1>7 DEF Fulfilling

\* The request's dispatch submits a create only for a record past its assignment.
LEMMA BeginDispatchSound ==
  ASSUME Fulfilling, BeginDispatch
  PROVE  Fulfilling' /\ RecordAdvance
<1> USE DEF Create, Destroy
<1>1. UNCHANGED <<rec, conv>> /\ begin = "dispatch"
  BY DEF BeginDispatch
<1>2. RecordAdvance
  BY <1>1 DEF RecordAdvance
<1>3. "create" \in Jobs /\ "teardown" \in Jobs
  BY DEF Jobs
<1>4. CASE Submit("create") /\ begin' = "acknowledge"
  <2>1. /\ JobTypeOK' /\ JobsSound' /\ JobsAdvance
        /\ Create' # "none" /\ Destroy' = Destroy
    BY <1>3, <1>4, SubmitFacts, EngineAdvances DEF Fulfilling
  <2>2. rec.state \notin {"assigned", "abandoned"}
    BY <1>1 DEF Fulfilling, MemorySound
  <2>3. RecordSound'
    BY <1>1, <2>1, <2>2, AdvanceSound DEF Fulfilling, RecordSound
  <2>4. MemorySound'
    <3>1. /\ Create \in Ended => Create' = Create
          /\ Destroy = "succeeded" => Destroy' = "succeeded"
      BY <1>3, <2>1 DEF JobsAdvance, Ended
    <3> QED
      BY <1>1, <1>4, <2>1, <3>1 DEF Fulfilling, MemorySound, Ended
  <2>5. FulfillmentTypeOK'
    BY <1>1, <1>4 DEF Fulfilling, FulfillmentTypeOK
  <2> QED
    BY <1>2, <2>1, <2>3, <2>4, <2>5 DEF Fulfilling
<1>5. CASE begin' = "idle" /\ UNCHANGED jobVars
  BY <1>1, <1>2, <1>5
     DEF Fulfilling, FulfillmentTypeOK, JobTypeOK, JobsSound, RecordSound, MemorySound, jobVars
<1> QED
  BY <1>4, <1>5 DEF BeginDispatch

\* acknowledge_create finds a create that exists, or changes nothing.
LEMMA AcknowledgeSound ==
  ASSUME Fulfilling, AcknowledgeCreate
  PROVE  Fulfilling' /\ RecordAdvance
<1> USE DEF Create, Destroy
<1>1. /\ rec \in RecordType /\ UNCHANGED <<conv, jobVars>>
      /\ begin = "acknowledge" /\ begin' = "idle"
  BY DEF Fulfilling, FulfillmentTypeOK, RecordType, AcknowledgeCreate
<1>2. UNCHANGED <<job, runs, present>>
  BY <1>1 DEF jobVars
<1>3. JobTypeOK' /\ JobsSound'
  BY <1>1, <1>2 DEF Fulfilling, JobTypeOK, JobsSound, jobVars
<1>4. CASE UNCHANGED rec
  BY <1>1, <1>2, <1>3, <1>4
     DEF Fulfilling, FulfillmentTypeOK, RecordSound, MemorySound, RecordAdvance
<1>5. CASE Transition("dispatching", rec.reason)
  <2>1. /\ rec' = [rec EXCEPT !.state = "dispatching", !.reason = rec.reason]
        /\ rec.state \in {"dispatch_pending", "dispatching"}
    BY <1>5 DEF Transition, Allowed
  <2>2. rec' \in RecordType /\ rec'.state = "dispatching" /\ rec'.reason = rec.reason
    BY <1>1, <2>1 DEF RecordType, RecordStates
  <2>3. RecordAdvance
    BY <2>1, <2>2 DEF RecordAdvance, Allowed
  <2>4. FulfillmentTypeOK'
    BY <1>1, <2>2 DEF Fulfilling, FulfillmentTypeOK, RecordType
  <2>5. RecordSound'
    BY <1>1, <1>2, <2>1, <2>2 DEF Fulfilling, RecordSound, MemorySound, TeardownBegun
  <2>6. MemorySound'
    BY <1>1, <1>2, <2>3, AdvanceKeeps DEF Fulfilling, MemorySound
  <2> QED
    BY <1>3, <2>3, <2>4, <2>5, <2>6 DEF Fulfilling
<1> QED
  BY <1>4, <1>5 DEF AcknowledgeCreate

\* A claim is written to the record, and a cycle remembers the state it claimed.
LEMMA ClaimFacts ==
  ASSUME Fulfilling, NEW c \in Cycles, NEW w \in {WorkerOf[q] : q \in Cycles} \cup {NoWorker},
         rec' = [rec EXCEPT !.claim = w], UNCHANGED <<begin, jobVars>>
  PROVE  /\ rec' \in RecordType /\ rec'.state = rec.state /\ rec'.reason = rec.reason
         /\ RecordAdvance /\ JobTypeOK' /\ JobsSound' /\ RecordSound'
         /\ UNCHANGED <<job, begin>>
<1> USE DEF Create, Destroy
<1>1. rec \in RecordType
  BY DEF Fulfilling, FulfillmentTypeOK, RecordType
<1>2. rec' \in RecordType /\ rec'.state = rec.state /\ rec'.reason = rec.reason
  BY <1>1 DEF RecordType
<1>3. JobTypeOK' /\ JobsSound'
  BY DEF Fulfilling, JobTypeOK, JobsSound, jobVars
<1>4. RecordSound'
  BY <1>2 DEF Fulfilling, RecordSound, jobVars
<1> QED
  BY <1>2, <1>3, <1>4 DEF RecordAdvance, jobVars

\* A claim, and the outcome a cycle reads with it, keep the fulfillment sound.
LEMMA ClaimSound ==
  ASSUME Fulfilling, NEW c \in Cycles, ClaimPending(c) \/ ConvergeClaimed(c) \/ ReleaseWorkerClaims(c)
  PROVE  Fulfilling' /\ RecordAdvance
<1> USE DEF Create, Destroy
<1>1. \E w \in {WorkerOf[q] : q \in Cycles} \cup {NoWorker} : rec' = [rec EXCEPT !.claim = w]
  BY DEF ClaimPending, ConvergeClaimed, ReleaseWorkerClaims
<1>2. UNCHANGED <<begin, jobVars>>
  BY DEF ClaimPending, ConvergeClaimed, ReleaseWorkerClaims
<1>3. /\ rec' \in RecordType /\ rec'.state = rec.state /\ rec'.reason = rec.reason
      /\ RecordAdvance /\ JobTypeOK' /\ JobsSound' /\ RecordSound'
      /\ UNCHANGED <<job, begin>>
  BY <1>1, <1>2, ClaimFacts
<1>4. rec \in RecordType /\ conv \in [Cycles -> CycleType]
  BY DEF Fulfilling, FulfillmentTypeOK, RecordType, CycleType
<1>5. CASE UNCHANGED conv
  <2>1. MemorySound'
    BY <1>3, <1>5, AdvanceRemembered DEF Fulfilling
  <2>2. FulfillmentTypeOK'
    BY <1>3, <1>5 DEF Fulfilling, FulfillmentTypeOK, RecordType
  <2> QED
    BY <1>3, <2>1, <2>2 DEF Fulfilling
<1>6. CASE conv' # conv
  <2>1. \E got \in {"none", "succeeded", "failed"} :
           /\ conv' = [conv EXCEPT ![c] = [on |-> rec.state, got |-> got]]
           /\ \/ /\ got = "none"
                 /\ rec.state \in {"teardown_failed", "dispatch_pending", "teardown_dispatch_pending"}
              \/ rec.state = "dispatching" /\ got = ProviderStatus("create") /\ got # "pending"
              \/ rec.state = "tearing_down" /\ got = ProviderStatus("teardown") /\ got # "pending"
    <3>1. CASE ClaimPending(c)
      BY <3>1 DEF ClaimPending
    <3>2. CASE ConvergeClaimed(c)
      <4> DEFINE got == ProviderStatus(IF rec.state = "dispatching" THEN "create" ELSE "teardown")
      <4>1. got \in {"pending", "succeeded", "failed"}
        BY DEF ProviderStatus
      <4>2. /\ rec.state \in {"dispatching", "tearing_down"} /\ got # "pending"
            /\ conv' = [conv EXCEPT ![c] = [on |-> rec.state, got |-> got]]
        BY <1>6, <3>2 DEF ConvergeClaimed
      <4>3. /\ rec.state = "dispatching" => got = ProviderStatus("create")
            /\ rec.state = "tearing_down" => got = ProviderStatus("teardown")
        OBVIOUS
      <4> HIDE DEF got
      <4> QED
        BY <4>1, <4>2, <4>3
    <3> QED
      BY <1>6, <3>1, <3>2 DEF ReleaseWorkerClaims
  <2>2. PICK got \in {"none", "succeeded", "failed"} :
           /\ conv' = [conv EXCEPT ![c] = [on |-> rec.state, got |-> got]]
           /\ \/ /\ got = "none"
                 /\ rec.state \in {"teardown_failed", "dispatch_pending", "teardown_dispatch_pending"}
              \/ rec.state = "dispatching" /\ got = ProviderStatus("create") /\ got # "pending"
              \/ rec.state = "tearing_down" /\ got = ProviderStatus("teardown") /\ got # "pending"
    BY <2>1
  <2>3. /\ conv'[c].on = rec.state /\ conv'[c].got = got
        /\ \A q \in Cycles : q # c => conv'[q] = conv[q]
    BY <1>4, <2>2
  <2>4. job["create"] \in JobRow /\ Create \in {"none"} \cup Live \cup Ended
    BY DEF Fulfilling, JobTypeOK, JobRow, Jobs
  <2>5. rec.state = "dispatching" => Create \in Ended /\ (got = "succeeded" <=> Create = "succeeded")
    <3>1. /\ Create \in Live => ProviderStatus("create") = "pending"
          /\ Create = "succeeded" => ProviderStatus("create") = "succeeded"
          /\ Create \in Ended \ {"succeeded"} => ProviderStatus("create") = "failed"
      BY DEF ProviderStatus, Live, Ended
    <3>2. rec.state = "dispatching" => Create # "none"
      BY DEF Fulfilling, RecordSound
    <3>3. rec.state = "dispatching" => got = ProviderStatus("create") /\ got # "pending"
      BY <2>2
    <3> QED
      BY <2>4, <3>1, <3>2, <3>3 DEF Ended
  <2>6. rec.state = "tearing_down" /\ got = "succeeded" => Destroy = "succeeded"
    BY <2>2 DEF ProviderStatus
  <2>7. MemorySound'
    BY <1>3, <2>2, <2>3, <2>5, <2>6 DEF Fulfilling, MemorySound, TeardownBegun
  <2>8. [on |-> rec.state, got |-> got] \in CycleType
    BY <1>4 DEF CycleType, RecordType
  <2>9. FulfillmentTypeOK'
    BY <1>3, <1>4, <2>2, <2>8 DEF Fulfilling, FulfillmentTypeOK, RecordType, CycleType
  <2> QED
    BY <1>3, <2>7, <2>9 DEF Fulfilling
<1> QED
  BY <1>5, <1>6

\* A cycle's dispatch submits the job that its claimed state calls for.
LEMMA DispatchSound ==
  ASSUME Fulfilling, NEW c \in Cycles, NEW sent \in BOOLEAN, DispatchClaimed(c, sent)
  PROVE  Fulfilling' /\ RecordAdvance
<1> USE DEF Create, Destroy
<1>1. /\ UNCHANGED <<rec, begin>> /\ conv \in [Cycles -> CycleType] /\ conv[c] \in CycleType
      /\ conv[c].on \in {"dispatch_pending", "teardown_dispatch_pending"}
  BY DEF DispatchClaimed, Fulfilling, FulfillmentTypeOK, CycleType
<1>2. RecordAdvance
  BY <1>1 DEF RecordAdvance
<1>3. "create" \in Jobs /\ "teardown" \in Jobs
  BY DEF Jobs
<1>4. CASE sent
  <2> DEFINE j == IF conv[c].on = "dispatch_pending" THEN "create" ELSE "teardown"
  <2>1. Submit(j) /\ conv' = [conv EXCEPT ![c] = [conv[c] EXCEPT !.got = "sent"]]
    BY <1>4 DEF DispatchClaimed
  <2>2. j \in Jobs
    BY <1>3
  <2>3. /\ JobTypeOK' /\ JobsSound' /\ JobsAdvance
        /\ job'[j].status # "none" /\ \A k \in Jobs : k # j => job'[k] = job[k]
    BY <2>1, <2>2, SubmitFacts, EngineAdvances DEF Fulfilling
  <2>4. rec.state \in {"assigned", "abandoned"} => Create' = "none"
    BY <1>1, <1>3, <2>3 DEF Fulfilling, MemorySound, RecordSound, TeardownBegun
  <2>5. Destroy' # "none" => rec.state \in TeardownBegun
    BY <1>1, <1>3, <2>3 DEF Fulfilling, MemorySound, RecordSound
  <2>6. RecordSound'
    BY <1>1, <2>3, <2>4, <2>5, AdvanceSound DEF Fulfilling
  <2>7. /\ conv'[c].on = conv[c].on /\ conv'[c].got = "sent" /\ conv'[c] \in CycleType
        /\ \A q \in Cycles : q # c => conv'[q] = conv[q]
    BY <1>1, <2>1 DEF CycleType
  <2>8. conv[c].on = "dispatch_pending" => Create' # "none"
    BY <2>3
  <2>9. /\ Create \in Ended => Create' = Create
        /\ Create # "none" => Create' # "none"
        /\ Destroy = "succeeded" => Destroy' = "succeeded"
    BY <1>3, <2>3 DEF JobsAdvance, Ended
  <2>10. MemorySound'
    BY <1>1, <2>7, <2>8, <2>9 DEF Fulfilling, MemorySound, Ended
  <2>11. FulfillmentTypeOK'
    <3>1. conv' \in [Cycles -> CycleType]
      BY <1>1, <2>1, <2>7
    <3> QED
      BY <1>1, <3>1 DEF Fulfilling, FulfillmentTypeOK, CycleType
  <2> QED
    BY <1>2, <2>3, <2>6, <2>10, <2>11 DEF Fulfilling
<1>5. CASE ~sent
  <2>1. conv' = [conv EXCEPT ![c] = Idle] /\ UNCHANGED <<jobVars, job>>
    BY <1>5 DEF DispatchClaimed, jobVars
  <2>2. /\ conv'[c] = Idle /\ \A q \in Cycles : q # c => conv'[q] = conv[q]
        /\ Idle.on = "none" /\ Idle.got = "none" /\ Idle \in CycleType
    BY <1>1, <2>1 DEF Idle, CycleType
  <2>3. MemorySound'
    BY <1>1, <2>1, <2>2 DEF Fulfilling, MemorySound
  <2>4. FulfillmentTypeOK'
    BY <1>1, <2>1, <2>2 DEF Fulfilling, FulfillmentTypeOK, CycleType
  <2>5. JobTypeOK' /\ JobsSound' /\ RecordSound'
    BY <1>1, <2>1 DEF Fulfilling, JobTypeOK, JobsSound, RecordSound, jobVars
  <2> QED
    BY <1>2, <2>3, <2>4, <2>5 DEF Fulfilling
<1> QED
  BY <1>4, <1>5

\* An outcome is applied along the transition table, and tells the truth.
LEMMA ApplySound ==
  ASSUME Fulfilling, NEW c \in Cycles, ApplyOutcome(c)
  PROVE  Fulfilling' /\ RecordAdvance
<1> USE DEF Create, Destroy
<1>1. /\ rec \in RecordType /\ conv \in [Cycles -> CycleType] /\ conv[c] \in CycleType
      /\ UNCHANGED <<begin, jobVars>> /\ conv' = [conv EXCEPT ![c] = Idle]
      /\ conv[c].on = "teardown_failed" \/ conv[c].got # "none"
  BY DEF ApplyOutcome, Fulfilling, FulfillmentTypeOK, RecordType, CycleType
<1>2. /\ conv'[c] = Idle /\ \A q \in Cycles : q # c => conv'[q] = conv[q]
      /\ Idle.on = "none" /\ Idle.got = "none" /\ Idle \in CycleType
  BY <1>1 DEF Idle, CycleType
<1>3. UNCHANGED <<job, Create, Destroy>>
  BY <1>1 DEF jobVars
<1>4. JobTypeOK' /\ JobsSound'
  BY <1>1 DEF Fulfilling, JobTypeOK, JobsSound, jobVars
<1>5. conv[c].on \in {"dispatch_pending", "dispatching", "teardown_dispatch_pending",
                      "tearing_down", "teardown_failed"}
  BY <1>1 DEF Fulfilling, MemorySound
<1>6. rec' \in RecordType /\ RecordAdvance /\ RecordSound'
  <2>1. CASE UNCHANGED rec
    BY <1>1, <1>3, <2>1 DEF Fulfilling, RecordSound, RecordAdvance
  <2>2. CASE Owned(c) /\ rec' = [state |-> Applied(c), reason |-> ReasonApplied(c), claim |-> NoWorker]
    <3>1. rec'.state = Applied(c) /\ rec'.reason = ReasonApplied(c) /\ rec.state = conv[c].on
      BY <2>2 DEF Owned
    <3>2. /\ Applied(c) \in RecordStates
          /\ <<conv[c].on, Applied(c)>> \in Allowed
      BY <1>5 DEF Applied, Allowed, RecordStates
    <3>3. ReasonApplied(c) \in Reasons
      BY <1>1 DEF ReasonApplied, Reasons, RecordType
    <3>4. rec' \in RecordType
      BY <2>2, <3>2, <3>3 DEF RecordType
    <3>5. RecordAdvance
      BY <3>1, <3>2 DEF RecordAdvance
    <3>6. CASE conv[c].on = "dispatch_pending"
      <4>1. rec'.state = "dispatching" /\ Create # "none"
        BY <1>1, <3>1, <3>6 DEF Applied, Fulfilling, MemorySound
      <4>2. rec'.reason # "compensation"
        BY <3>1, <3>6 DEF ReasonApplied, Fulfilling, RecordSound, TeardownBegun
      <4> QED
        BY <1>3, <3>1, <3>4, <3>5, <3>6, <4>1, <4>2 DEF RecordSound, TeardownBegun, Fulfilling
    <3>7. CASE conv[c].on = "dispatching"
      <4>1. /\ rec'.state = IF conv[c].got = "succeeded" THEN "active" ELSE "failed"
            /\ Create \in Ended /\ (conv[c].got = "succeeded" <=> Create = "succeeded")
        BY <3>1, <3>7 DEF Applied, Fulfilling, MemorySound
      <4>2. rec'.reason # "compensation"
        BY <3>1, <3>7 DEF ReasonApplied, Fulfilling, RecordSound, TeardownBegun
      <4> QED
        BY <1>3, <3>1, <3>4, <3>5, <3>7, <4>1, <4>2 DEF RecordSound, TeardownBegun, Fulfilling
    <3>8. CASE conv[c].on \in {"teardown_dispatch_pending", "tearing_down", "teardown_failed"}
      <4>1. /\ rec'.state \in TeardownBegun /\ rec.state \in TeardownBegun
            /\ rec'.state = "torn_down" => conv[c].on = "tearing_down" /\ conv[c].got = "succeeded"
        BY <3>1, <3>8 DEF Applied, TeardownBegun
      <4>2. rec'.reason = "compensation" <=> rec.reason = "compensation"
        <5>1. conv[c].on # "tearing_down" => conv[c].got # "failed"
          BY <3>8 DEF Fulfilling, MemorySound
        <5> QED
          BY <3>1, <5>1 DEF ReasonApplied
      <4>3. rec'.state = "torn_down" => Destroy = "succeeded"
        BY <4>1 DEF Fulfilling, MemorySound
      <4> QED
        BY <1>3, <3>4, <3>5, <4>1, <4>2, <4>3 DEF RecordSound, TeardownBegun, Fulfilling
    <3> QED
      BY <1>5, <3>6, <3>7, <3>8
  <2> QED
    BY <2>1, <2>2 DEF ApplyOutcome
<1>7. MemorySound'
  BY <1>1, <1>2, <1>3, <1>6, AdvanceKeeps DEF Fulfilling, MemorySound
<1>8. FulfillmentTypeOK'
  BY <1>1, <1>2, <1>6 DEF Fulfilling, FulfillmentTypeOK, RecordType, CycleType
<1> QED
  BY <1>4, <1>6, <1>7, <1>8 DEF Fulfilling

-----------------------------------------------------------------------------
(* The lease.                                                              *)

\* What the lifecycle does to the record keeps the fulfillment sound.
LEMMA LifecycleRecordSound ==
  ASSUME Fulfilling, UNCHANGED <<begin, conv, jobVars>>,
         UNCHANGED rec \/ BeginTeardown \/ AbandonIfAssigned
  PROVE  Fulfilling' /\ RecordAdvance /\ (rec'.state = "torn_down" <=> rec.state = "torn_down")
<1> USE DEF Create, Destroy
<1>1. rec \in RecordType /\ UNCHANGED job
  BY DEF Fulfilling, FulfillmentTypeOK, RecordType, jobVars
<1>2. JobTypeOK' /\ JobsSound'
  BY DEF Fulfilling, JobTypeOK, JobsSound, jobVars
<1>3. /\ rec' \in RecordType /\ RecordAdvance /\ RecordSound'
      /\ rec'.state = "torn_down" <=> rec.state = "torn_down"
  <2>1. CASE UNCHANGED rec
    BY <1>1, <2>1 DEF Fulfilling, RecordSound, RecordAdvance
  <2>2. CASE AbandonIfAssigned
    <3>1. /\ rec' = [rec EXCEPT !.state = IF rec.state = "assigned" THEN "abandoned" ELSE rec.state]
      BY <2>2 DEF AbandonIfAssigned
    <3>2. /\ rec' \in RecordType /\ rec'.reason = rec.reason
          /\ rec'.state = IF rec.state = "assigned" THEN "abandoned" ELSE rec.state
      BY <1>1, <3>1 DEF RecordType, RecordStates
    <3> QED
      BY <1>1, <3>2 DEF Fulfilling, RecordSound, RecordAdvance, Allowed, TeardownBegun
  <2>3. CASE BeginTeardown /\ rec' # rec
    <3> DEFINE why == IF rec.state = "failed" THEN "compensation" ELSE rec.reason
    <3>1. /\ rec.state \in {"active", "failed"}
          /\ rec' = [rec EXCEPT !.state = "teardown_dispatch_pending", !.reason = why]
      BY <2>3 DEF BeginTeardown, Transition
    <3>2. why \in Reasons
      BY <1>1 DEF RecordType, Reasons
    <3> HIDE DEF why
    <3>3. rec' \in RecordType /\ rec'.state = "teardown_dispatch_pending" /\ rec'.reason = why
      BY <1>1, <3>1, <3>2 DEF RecordType, RecordStates
    <3>4. RecordAdvance
      BY <3>1, <3>3 DEF RecordAdvance, Allowed
    <3>5. why = "compensation" <=> Create # "succeeded"
      BY <3>1 DEF why, Fulfilling, RecordSound, TeardownBegun
    <3>6. RecordSound'
      BY <1>1, <3>1, <3>3, <3>5 DEF Fulfilling, RecordSound, TeardownBegun
    <3> QED
      BY <3>1, <3>3, <3>4, <3>6
  <2> QED
    BY <2>1, <2>2, <2>3
<1>4. MemorySound'
  BY <1>1, <1>3, AdvanceRemembered DEF Fulfilling
<1>5. FulfillmentTypeOK'
  BY <1>3 DEF Fulfilling, FulfillmentTypeOK, RecordType
<1> QED
  BY <1>2, <1>3, <1>4, <1>5 DEF Fulfilling

ReleaserType ==
  [at : {"rest", "reserve", "free", "notify", "fail", "begin_wait", "begin_teardown", "teardown"},
   why : {"none", "request", "again", "force", "sweep"}]

\* Where a releaser goes, and that only a release sends it to tell of it.
Moves(r, places) ==
  \E x \in ReleaserType : x.at \in places /\ rel' = [rel EXCEPT ![r] = x]

\* Going somewhere is a move to there.
LEMMA GotoMoves ==
  ASSUME NEW r \in Releasers, NEW at, Goto(r, at),
         at \in {"rest", "notify", "fail", "begin_wait", "begin_teardown", "teardown"}
  PROVE  Moves(r, {at})
BY DEF Goto, Moves, ReleaserType

\* Resting is a move to rest.
LEMMA RestMoves ==
  ASSUME NEW r \in Releasers, Rest(r)
  PROVE  Moves(r, {"rest"})
BY DEF Rest, Resting, Moves, ReleaserType

\* A decision sends a releaser to reserve a callback or to begin releasing.
LEMMA DecideMoves ==
  ASSUME NEW r \in Releasers, NEW why \in {"request", "again"}, Decide(r, why)
  PROVE  Moves(r, {"reserve", "begin_wait", "begin_teardown"})
<1>1. \/ rel' = [rel EXCEPT ![r] = [at |-> "reserve", why |-> why]]
      \/ Goto(r, "begin_wait") \/ Goto(r, "begin_teardown")
  BY DEF Decide
<1> QED
  BY <1>1 DEF Goto, Moves, ReleaserType

\* What one step of the lifecycle may do.
Quiet == {"rest", "reserve", "free", "fail", "begin_wait", "begin_teardown", "teardown"}

ReleaserStep(r) ==
  \/ RequestRelease(r) \/ RequestForce(r) \/ SweepReleasing(r) \/ SweepUnreadable(r)
  \/ BeginReleasing(r) \/ Teardown(r)
  \/ MarkReleaseFailed(r) \/ Raise(r) \/ ReserveCallback(r) \/ FinishRelease(r) \/ DrainOutbox(r)
  \/ \E answered \in BOOLEAN : Notify(r, answered)

\* One step of one releaser, action by action.
LEMMA ReleaserFacts ==
  ASSUME LeaseTypeOK, LeaseSound, NEW r \in Releasers, ReleaserStep(r)
  PROVE  /\ UNCHANGED <<begin, conv, jobVars>>
         /\ UNCHANGED rec \/ BeginTeardown \/ AbandonIfAssigned
         /\ lease' \in LeaseStates /\ (lease \in Released => lease' = lease)
         /\ lease' = "released" => lease = "released" \/ (Permitted /\ AbandonIfAssigned)
         /\ lease' = "force_released" => lease = "force_released" \/ UNCHANGED rec
         /\ outbox' \in {"none", "pending", "delivered"}
         /\ outbox = "delivered" => outbox' = "delivered"
         /\ outbox' # outbox => lease' = lease
         /\ outbox' = "delivered" => outbox = "delivered" \/ lease \in Released
         /\ Moves(r, Quiet) \/ (Moves(r, {"notify"}) /\ lease' \in Released)
<1>0. /\ lease \in LeaseStates /\ outbox \in {"none", "pending", "delivered"}
      /\ rel \in [Releasers -> ReleaserType] /\ rel[r] \in ReleaserType
  BY DEF LeaseTypeOK, ReleaserType
<1> USE DEF fulfillVars
<1>w. ASSUME NEW P, NEW Q, P \subseteq Q, Moves(r, P) PROVE Moves(r, Q)
  BY <1>w DEF Moves
<1>1. CASE RequestRelease(r)
  <2>1. Moves(r, Quiet)
    BY <1>1, <1>w, DecideMoves DEF RequestRelease, Quiet
  <2> QED
    BY <1>0, <1>1, <2>1 DEF RequestRelease, LeaseStates
<1>2. CASE RequestForce(r)
  <2>1. Moves(r, Quiet)
    BY <1>2 DEF RequestForce, Moves, ReleaserType, Quiet
  <2> QED
    BY <1>0, <1>2, <2>1 DEF RequestForce
<1>3. CASE SweepReleasing(r)
  <2>1. \/ rel' = [rel EXCEPT ![r] = [at |-> "reserve", why |-> "sweep"]]
        \/ Goto(r, "teardown") \/ Goto(r, "fail")
    BY <1>3 DEF SweepReleasing
  <2>2. Moves(r, Quiet)
    BY <2>1 DEF Goto, Moves, ReleaserType, Quiet
  <2> QED
    BY <1>0, <1>3, <2>2 DEF SweepReleasing
<1>u. CASE SweepUnreadable(r)
  <2>1. Moves(r, Quiet)
    BY <1>u DEF SweepUnreadable, Goto, Moves, ReleaserType, Quiet
  <2> QED
    BY <1>0, <1>u, <2>1 DEF SweepUnreadable
<1>4. CASE BeginReleasing(r)
  <2>1. Goto(r, "teardown") \/ Rest(r)
    BY <1>4 DEF BeginReleasing
  <2>2. Moves(r, Quiet)
    BY <2>1 DEF Goto, Rest, Resting, Moves, ReleaserType, Quiet
  <2>3. lease' = lease \/ (lease' = "releasing" /\ lease \notin Released)
    BY <1>4 DEF BeginReleasing, Released
  <2>4. UNCHANGED <<outbox, rec, begin, conv, jobVars>>
    BY <1>4 DEF BeginReleasing
  <2> QED
    BY <1>0, <2>2, <2>3, <2>4 DEF LeaseStates, Released
<1>5. CASE Teardown(r)
  <2>1. Goto(r, "fail") \/ Rest(r)
    BY <1>5 DEF Teardown
  <2>2. Moves(r, Quiet)
    BY <2>1 DEF Goto, Rest, Resting, Moves, ReleaserType, Quiet
  <2>3. UNCHANGED rec \/ BeginTeardown
    BY <1>5 DEF Teardown
  <2> QED
    BY <1>0, <1>5, <2>2, <2>3 DEF Teardown
<1>6. CASE MarkReleaseFailed(r)
  <2>1. Moves(r, Quiet)
    BY <1>6, <1>w, RestMoves DEF MarkReleaseFailed, Quiet
  <2>2. lease' = lease \/ (lease' = "release_failed" /\ lease \notin Released)
    BY <1>6 DEF MarkReleaseFailed, Released
  <2> QED
    BY <1>0, <1>6, <2>1, <2>2 DEF MarkReleaseFailed, LeaseStates
<1>7. CASE Raise(r)
  <2>1. Goto(r, "fail") \/ Rest(r)
    BY <1>7 DEF Raise
  <2>2. Moves(r, Quiet)
    BY <2>1 DEF Goto, Rest, Resting, Moves, ReleaserType, Quiet
  <2> QED
    BY <1>0, <1>7, <2>2 DEF Raise
<1>8. CASE ReserveCallback(r)
  <2>1. rel' = [rel EXCEPT ![r] = [rel[r] EXCEPT !.at = "free"]]
    BY <1>8 DEF ReserveCallback
  <2>2. [rel[r] EXCEPT !.at = "free"] \in ReleaserType /\ [rel[r] EXCEPT !.at = "free"].at = "free"
    BY <1>0 DEF ReleaserType
  <2>3. Moves(r, Quiet)
    BY <2>1, <2>2 DEF Moves, Quiet
  <2> QED
    BY <1>0, <1>8, <2>3 DEF ReserveCallback
<1>9. CASE FinishRelease(r)
  <2>0. UNCHANGED <<outbox, begin, conv, jobVars>>
    BY <1>9 DEF FinishRelease
  <2>1. CASE SiteRelease(rel[r].why = "force") /\ Goto(r, "notify")
    <3>1. Moves(r, {"notify"})
      BY <2>1, GotoMoves
    <3>2. /\ lease' \in Released /\ (lease \in Released => lease' = lease)
          /\ UNCHANGED rec \/ AbandonIfAssigned
          /\ lease' = "released" => lease = "released" \/ (Permitted /\ AbandonIfAssigned)
          /\ lease' = "force_released" => lease = "force_released" \/ UNCHANGED rec
      BY <2>1 DEF SiteRelease, Released
    <3> QED
      BY <1>0, <2>0, <3>1, <3>2 DEF LeaseStates
  <2>2. CASE UNCHANGED <<lease, rec>> /\ (Decide(r, "again") \/ Goto(r, "fail") \/ Rest(r))
    <3>1. Decide(r, "again") => Moves(r, Quiet)
      BY <1>w, DecideMoves DEF Quiet
    <3>2. Goto(r, "fail") \/ Rest(r) => Moves(r, Quiet)
      BY DEF Goto, Rest, Resting, Moves, ReleaserType, Quiet
    <3> QED
      BY <1>0, <2>0, <2>2, <3>1, <3>2
  <2> QED
    BY <1>9, <2>1, <2>2 DEF FinishRelease
<1>10. CASE DrainOutbox(r)
  <2>1. Moves(r, {"notify"})
    BY <1>10, GotoMoves DEF DrainOutbox
  <2> QED
    BY <1>0, <1>10, <2>1 DEF DrainOutbox
<1>11. ASSUME NEW answered \in BOOLEAN, Notify(r, answered)
       PROVE  /\ UNCHANGED <<begin, conv, jobVars, rec, lease>> /\ Moves(r, Quiet)
              /\ outbox' \in {outbox, "delivered"} /\ lease \in Released
  <2>1. Moves(r, Quiet)
    BY <1>11, <1>w, RestMoves DEF Notify, Quiet
  <2>2. lease \in Released
    BY <1>11 DEF Notify, LeaseSound
  <2> QED
    BY <1>11, <2>1, <2>2 DEF Notify
<1>12. CASE \E answered \in BOOLEAN : Notify(r, answered)
  BY <1>0, <1>11, <1>12
<1> QED
  BY <1>1, <1>2, <1>3, <1>u, <1>4, <1>5, <1>6, <1>7, <1>8, <1>9, <1>10, <1>12 DEF ReleaserStep

\* What a step of the lifecycle may do to the record, the lease and the callback.
Lawful ==
  /\ UNCHANGED <<begin, conv, jobVars>>
  /\ UNCHANGED rec \/ BeginTeardown \/ AbandonIfAssigned
  /\ lease' \in LeaseStates /\ (lease \in Released => lease' = lease)
  /\ lease' = "released" => lease = "released" \/ (Permitted /\ AbandonIfAssigned)
  /\ lease' = "force_released" => lease = "force_released" \/ UNCHANGED rec
  /\ outbox' \in {"none", "pending", "delivered"}
  /\ outbox = "delivered" => outbox' = "delivered"
  /\ outbox' # outbox => lease' = lease
  /\ outbox' = "delivered" => outbox = "delivered" \/ lease \in Released

\* Every step of the lifecycle is lawful, and sends at most one releaser on.
LEMMA LeaseStepLawful ==
  ASSUME LeaseTypeOK, LeaseSound, LeaseStep
  PROVE  /\ Lawful
         /\ \/ UNCHANGED rel
            \/ \E r \in Releasers :
                 Moves(r, Quiet) \/ (Moves(r, {"notify"}) /\ lease' \in Released)
<1>0. lease \in LeaseStates /\ outbox \in {"none", "pending", "delivered"}
  BY DEF LeaseTypeOK
<1>1. CASE ReleaseOversight
  <2>1. /\ lease = "leased" /\ lease' = "unmanaged"
        /\ UNCHANGED <<outbox, rel, rec, begin, conv, jobVars>>
    BY <1>1 DEF ReleaseOversight, fulfillVars
  <2> QED
    BY <1>0, <2>1 DEF Lawful, LeaseStates, Released
<1>2. CASE StorefrontRelease
  <2>1. /\ lease \notin Released /\ lease' = "released" /\ Permitted /\ AbandonIfAssigned
        /\ UNCHANGED <<outbox, rel, begin, conv, jobVars>>
    BY <1>2 DEF StorefrontRelease, SiteRelease
  <2> QED
    BY <1>0, <2>1 DEF Lawful, LeaseStates, Released
<1>3. ASSUME NEW r \in Releasers, ReleaserStep(r)
      PROVE  Lawful /\ (Moves(r, Quiet) \/ (Moves(r, {"notify"}) /\ lease' \in Released))
  BY <1>3, ReleaserFacts DEF Lawful
<1> QED
  BY <1>1, <1>2, <1>3 DEF LeaseStep, ReleaserStep

\* The lifecycle keeps the invariant.
LEMMA LeaseStepSound ==
  ASSUME LeaseInv, LeaseStep
  PROVE  LeaseInv' /\ Lawful /\ (rec'.state = "torn_down" <=> rec.state = "torn_down")
<1>1. Lawful
  BY LeaseStepLawful DEF LeaseInv
<1>2. Fulfilling
  BY DEF Fulfilling, LeaseInv, LeaseTypeOK
<1>3. Fulfilling' /\ RecordAdvance /\ (rec'.state = "torn_down" <=> rec.state = "torn_down")
  BY <1>1, <1>2, LifecycleRecordSound DEF Lawful
<1>4. rel \in [Releasers -> ReleaserType]
  BY DEF LeaseInv, LeaseTypeOK, ReleaserType
<1>5. /\ rel' \in [Releasers -> ReleaserType]
      /\ \A q \in Releasers : rel'[q].at = "notify" => rel[q].at = "notify" \/ lease' \in Released
  <2>1. CASE UNCHANGED rel
    BY <1>4, <2>1
  <2>2. ASSUME NEW r \in Releasers, Moves(r, Quiet) \/ (Moves(r, {"notify"}) /\ lease' \in Released)
        PROVE  /\ rel' \in [Releasers -> ReleaserType]
               /\ \A q \in Releasers :
                    rel'[q].at = "notify" => rel[q].at = "notify" \/ lease' \in Released
    <3>1. PICK x \in ReleaserType : /\ rel' = [rel EXCEPT ![r] = x]
                                    /\ x.at \in Quiet \/ lease' \in Released
      BY <2>2 DEF Moves
    <3> QED
      BY <1>4, <3>1 DEF Quiet
  <2> QED
    BY <2>1, <2>2, LeaseStepLawful DEF LeaseInv
<1>6. \A q \in Releasers : rel'[q].at = "notify" => lease' \in Released
  BY <1>1, <1>5 DEF LeaseInv, LeaseSound, Lawful
<1>7. lease' = "released" => rec'.state \in {"abandoned", "torn_down"}
  <2>1. CASE lease = "released"
    BY <1>3, <2>1, AdvanceKeeps DEF LeaseInv, LeaseSound
  <2>2. CASE Permitted /\ AbandonIfAssigned
    <3>1. rec \in RecordType
      BY <1>2 DEF Fulfilling, FulfillmentTypeOK, RecordType
    <3>2. rec'.state = IF rec.state = "assigned" THEN "abandoned" ELSE rec.state
      BY <2>2, <3>1 DEF AbandonIfAssigned, RecordType
    <3> QED
      BY <2>2, <3>2 DEF Permitted
  <2> QED
    BY <1>1, <2>1, <2>2 DEF Lawful
<1>8. LeaseTypeOK'
  BY <1>1, <1>3, <1>5 DEF LeaseTypeOK, Fulfilling, Lawful, ReleaserType
<1>9. LeaseSound'
  BY <1>6, <1>7 DEF LeaseSound
<1> QED
  BY <1>1, <1>3, <1>8, <1>9 DEF LeaseInv, Fulfilling

-----------------------------------------------------------------------------
(* The next-state relation.                                                *)

\* The fulfillment's steps move jobs only by submitting one.
LEMMA FulfillmentStepJobs ==
  ASSUME FulfillmentStep
  PROVE  UNCHANGED jobVars \/ \E j \in Jobs : Submit(j)
<1>1. "create" \in Jobs /\ "teardown" \in Jobs
  BY DEF Jobs
<1>2. ASSUME NEW c \in Cycles, NEW sent \in BOOLEAN, DispatchClaimed(c, sent)
      PROVE  UNCHANGED jobVars \/ \E j \in Jobs : Submit(j)
  <2>1. CASE sent
    BY <1>1, <1>2, <2>1 DEF DispatchClaimed
  <2>2. CASE ~sent
    BY <1>2, <2>2 DEF DispatchClaimed
  <2> QED
    BY <2>1, <2>2
<1> QED
  BY <1>1, <1>2 DEF FulfillmentStep, AcceptFulfillment, BeginDispatch, AcknowledgeCreate,
     ClaimPending, ConvergeClaimed, ApplyOutcome, ReleaseWorkerClaims

\* The fulfillment's steps keep the fulfillment sound.
LEMMA FulfillmentStepSound ==
  ASSUME Fulfilling, FulfillmentStep
  PROVE  Fulfilling' /\ RecordAdvance
BY AcceptSound, BeginDispatchSound, AcknowledgeSound, ClaimSound, DispatchSound, ApplySound
   DEF FulfillmentStep

\* The job engine keeps the invariant, and neither submits nor forgets a job.
LEMMA JobStepSound ==
  ASSUME LeaseInv, JobStep, UNCHANGED <<fulfillVars, leaseVars>>
  PROVE  LeaseInv' /\ (Create' = "none" <=> Create = "none")
<1> USE DEF Create, Destroy
<1>1. PICK j \in Jobs : EngineStep(j)
  BY DEF JobStep, EngineStep
<1>2. JobTypeOK /\ JobsSound /\ RecordSound /\ MemorySound
  BY DEF LeaseInv, LeaseTypeOK
<1>3. UNCHANGED <<rec, begin, conv, lease, outbox, rel>>
  BY DEF fulfillVars, leaseVars
<1>4. "create" \in Jobs /\ "teardown" \in Jobs
  BY DEF Jobs
<1>5. \A k \in Jobs : job'[k].status = "none" <=> job[k].status = "none"
  BY <1>1, <1>2, EngineStepFacts
<1>6. Destroy # "none" => Create \in Ended
  BY <1>2 DEF RecordSound
<1>7. JobTypeOK' /\ JobsSound' /\ JobsAdvance
  BY <1>1, <1>2, <1>6, EngineStepFacts, EngineStepSound, EngineAdvances
<1>8. RecordSound' /\ MemorySound'
  BY <1>2, <1>3, <1>4, <1>5, <1>7, AdvanceSound DEF RecordSound
<1> QED
  BY <1>3, <1>4, <1>5, <1>7, <1>8 DEF LeaseInv, LeaseTypeOK, FulfillmentTypeOK, LeaseSound

\* A restart forgets what requests, cycles and releasers remember.
LEMMA RestartSound ==
  ASSUME LeaseInv, Restart
  PROVE  LeaseInv'
<1> USE DEF Create, Destroy
<1>1. /\ stops < MaxStops /\ stops' = stops + 1 /\ queue' = {} /\ watched' = {}
      /\ UNCHANGED <<job, runs, present, rec, lease, outbox>>
      /\ begin' = "idle" /\ conv' = [c \in Cycles |-> Idle]
      /\ rel' = [r \in Releasers |-> Resting]
  BY DEF Restart, RestartEngine, RestartFulfillment
<1>2. JobTypeOK'
  BY <1>1, JobAssumption DEF LeaseInv, LeaseTypeOK, JobTypeOK
<1>3. /\ \A c \in Cycles : conv'[c].on = "none" /\ conv'[c].got = "none"
      /\ conv' \in [Cycles -> CycleType]
  BY <1>1 DEF Idle, CycleType
<1>4. /\ \A r \in Releasers : rel'[r].at = "rest"
      /\ rel' \in [Releasers -> ReleaserType]
  BY <1>1 DEF Resting, ReleaserType
<1>5. FulfillmentTypeOK'
  BY <1>1, <1>3 DEF LeaseInv, LeaseTypeOK, FulfillmentTypeOK, CycleType
<1>6. JobsSound' /\ RecordSound'
  BY <1>1 DEF LeaseInv, JobsSound, RecordSound
<1>7. MemorySound'
  BY <1>1, <1>3 DEF MemorySound
<1>8. LeaseSound'
  BY <1>1, <1>4 DEF LeaseInv, LeaseSound
<1>9. LeaseTypeOK'
  BY <1>1, <1>2, <1>4, <1>5 DEF LeaseInv, LeaseTypeOK, ReleaserType
<1> QED
  BY <1>6, <1>7, <1>8, <1>9 DEF LeaseInv

\* The first state satisfies the invariant.
LEMMA LeaseInitSound ==
  ASSUME Init
  PROVE  LeaseInv
<1> USE DEF Create, Destroy
<1>1. /\ job = [j \in Jobs |-> [status |-> "none", retries |-> 0, wait |-> FALSE]]
      /\ queue = {} /\ runs = [j \in Jobs |-> 0] /\ watched = {} /\ present = FALSE /\ stops = 0
      /\ rec = [state |-> "assigned", claim |-> NoWorker, reason |-> "none"]
      /\ begin = "idle" /\ conv = [c \in Cycles |-> Idle]
      /\ lease = "leased" /\ outbox = "none" /\ rel = [r \in Releasers |-> Resting]
  BY DEF Init, JobInit, ConvergenceInit
<1>2. Create = "none" /\ Destroy = "none" /\ "create" \in Jobs /\ "teardown" \in Jobs
  BY <1>1 DEF Jobs
<1>3. JobTypeOK
  <2>1. [status |-> "none", retries |-> 0, wait |-> FALSE] \in JobRow
    BY DEF JobRow
  <2>2. stops \in 0 .. MaxStops
    BY <1>1, JobAssumption
  <2> QED
    BY <1>1, <2>1, <2>2 DEF JobTypeOK
<1>4. FulfillmentTypeOK
  BY <1>1 DEF FulfillmentTypeOK, RecordStates, Reasons, Idle
<1>5. LeaseTypeOK
  BY <1>1, <1>3, <1>4 DEF LeaseTypeOK, LeaseStates, Resting
<1>6. JobsSound /\ RecordSound
  BY <1>1, <1>2 DEF JobsSound, RecordSound, TeardownBegun
<1>7. MemorySound
  BY <1>1 DEF MemorySound, Idle
<1>8. LeaseSound
  BY <1>1 DEF LeaseSound, Resting
<1> QED
  BY <1>5, <1>6, <1>7, <1>8 DEF LeaseInv

\* Every step keeps the invariant.
LEMMA LeaseInvStep ==
  ASSUME LeaseInv, [Next]_vars
  PROVE  LeaseInv'
<1>1. CASE JobStep /\ UNCHANGED <<fulfillVars, leaseVars>>
  BY <1>1, JobStepSound
<1>2. CASE FulfillmentStep /\ UNCHANGED leaseVars
  <2>1. Fulfilling
    BY DEF Fulfilling, LeaseInv, LeaseTypeOK
  <2>2. Fulfilling' /\ RecordAdvance
    BY <1>2, <2>1, FulfillmentStepSound
  <2>3. UNCHANGED <<lease, outbox, rel>>
    BY <1>2 DEF leaseVars
  <2>4. LeaseSound'
    BY <2>2, <2>3, AdvanceLeased DEF LeaseInv
  <2> QED
    BY <2>2, <2>3, <2>4 DEF LeaseInv, LeaseTypeOK, Fulfilling
<1>3. CASE LeaseStep
  BY <1>3, LeaseStepSound
<1>4. CASE Restart
  BY <1>4, RestartSound
<1>5. CASE UNCHANGED vars
  <2>1. UNCHANGED <<job, queue, runs, watched, present, stops, rec, begin, conv, lease, outbox, rel>>
    BY <1>5 DEF vars, jobVars, fulfillVars, leaseVars
  <2> QED
    BY <2>1 DEF LeaseInv, LeaseTypeOK, JobTypeOK, FulfillmentTypeOK, JobsSound, RecordSound,
       MemorySound, LeaseSound, Create, Destroy
<1> QED
  BY <1>1, <1>2, <1>3, <1>4, <1>5 DEF Next

\* The invariant holds in every reachable state.
LEMMA LeaseInductive == SafeSpec => []LeaseInv
<1>1. Init => LeaseInv
  BY LeaseInitSound
<1>2. LeaseInv /\ [Next]_vars => LeaseInv'
  BY LeaseInvStep
<1> QED
  BY <1>1, <1>2, PTL DEF SafeSpec

-----------------------------------------------------------------------------
(* The theorems.                                                           *)

\* Rows, queue, record, requests, cycles, lease and releasers keep their types
\* whatever overlaps and however often the process restarts.
THEOREM TypeCorrect == SafeSpec => []LeaseTypeOK
<1>1. LeaseInv => LeaseTypeOK
  BY DEF LeaseInv
<1> QED
  BY <1>1, LeaseInductive, PTL

\* No job ever has two executions on the host (engine.process_job's
\* compare-and-set), for every number of retries and restarts.
THEOREM OneExecutionAlways == SafeSpec => []OneExecution
<1>1. LeaseInv => OneExecution
  BY DEF LeaseInv, JobsSound, OneExecution
<1> QED
  BY <1>1, LeaseInductive, PTL

\* A released lease has left nothing on the host and nothing that could still
\* put it there (FulfillmentReleaseGuard), however many cycles and releases
\* overlap.
THEOREM NothingLeftBehindAlways == SafeSpec => []NothingLeftBehind
<1>1. LeaseInv => NothingLeftBehind
  <2> SUFFICES ASSUME LeaseInv, lease = "released", Create # "cancelled"
               PROVE  /\ ~present /\ runs["create"] = 0 /\ Create \notin Live
                      /\ rec.state \in {"abandoned", "torn_down"}
    BY DEF NothingLeftBehind, Create
  <2>1. rec.state \in {"abandoned", "torn_down"}
    BY DEF LeaseInv, LeaseSound
  <2>2. /\ Create \notin {"queued", "running"}
        /\ Create # "none" => Destroy = "succeeded"
    BY <2>1 DEF LeaseInv, RecordSound, Ended, TeardownBegun
  <2>3. ~present
    BY <2>2 DEF LeaseInv, JobsSound
  <2>4. "create" \in Jobs /\ runs["create"] \in Nat
    BY DEF LeaseInv, LeaseTypeOK, JobTypeOK, Jobs
  <2>5. runs["create"] = 0
    BY <2>2, <2>4 DEF LeaseInv, JobsSound, Create
  <2> QED
    BY <2>1, <2>2, <2>3, <2>5 DEF Live
<1> QED
  BY <1>1, LeaseInductive, PTL

\* A teardown that compensates a failed create stays marked as one
\* (transitions.apply_teardown_failure keeps the reason).
THEOREM CompensationMarkedAlways == SafeSpec => []CompensationMarked
<1>1. LeaseInv => CompensationMarked
  BY DEF LeaseInv, RecordSound, CompensationMarked, Create
<1> QED
  BY <1>1, LeaseInductive, PTL

\* Nothing but the engine's own step changes the row of a job that exists.
LEMMA EndedKept ==
  ASSUME LeaseInv, [Next]_vars
  PROVE  \A j \in Jobs : job[j].status \in Ended => job'[j] = job[j]
<1>1. JobTypeOK /\ JobsSound
  BY DEF LeaseInv, LeaseTypeOK
<1>2. CASE JobStep
  <2>1. PICK k \in Jobs : EngineStep(k)
    BY <1>2 DEF JobStep, EngineStep
  <2> QED
    BY <1>1, <2>1, EngineStepFacts
<1>3. CASE FulfillmentStep
  <2>1. ASSUME NEW k \in Jobs, Submit(k)
        PROVE  \A j \in Jobs : job[j].status \in Ended => job'[j] = job[j]
    BY <1>1, <2>1, SubmitFacts DEF Ended
  <2> QED
    BY <1>3, <2>1, FulfillmentStepJobs DEF jobVars
<1>4. CASE LeaseStep
  <2>1. UNCHANGED jobVars
    BY <1>4, LeaseStepLawful DEF LeaseInv, Lawful
  <2> QED
    BY <2>1 DEF jobVars
<1>5. CASE Restart
  BY <1>5 DEF Restart, RestartEngine
<1>6. CASE UNCHANGED vars
  BY <1>6 DEF vars, jobVars
<1> QED
  BY <1>2, <1>3, <1>4, <1>5, <1>6 DEF Next

\* A job that ended keeps its outcome: no late report, retry or repeated
\* submission revives it (engine._transition).
THEOREM OutcomesNeverChange == SafeSpec => OutcomeKept
<1>1. LeaseInv /\ [Next]_vars =>
        [\A j \in Jobs : job[j].status \in Ended => job'[j] = job[j]]_jobVars
  BY EndedKept
<1> QED
  BY <1>1, LeaseInductive, PTL DEF SafeSpec, OutcomeKept

\* Outside the lifecycle a lease stays as it is, and the workload it pays for is
\* delivered against held capacity or proven gone.
LEMMA FulfillmentKeepsPromise ==
  ASSUME LeaseInv, FulfillmentStep, UNCHANGED leaseVars
  PROVE  [Promise!Next]_(Promise!vars)
<1> USE DEF Create, Destroy
<1>1. UNCHANGED <<lease, outbox>>
  BY DEF leaseVars
<1>2. Fulfilling
  BY DEF Fulfilling, LeaseInv, LeaseTypeOK
<1>3. RecordAdvance /\ RecordSound' /\ RecordSound /\ LeaseSound
  BY <1>2, FulfillmentStepSound DEF LeaseInv, Fulfilling
<1>4. Create # "none" => Create' # "none"
  <2>1. ASSUME NEW k \in Jobs, Submit(k)
        PROVE  JobsAdvance
    BY <1>2, <2>1, EngineAdvances DEF Fulfilling
  <2> QED
    BY <2>1, FulfillmentStepJobs DEF JobsAdvance, jobVars, Jobs
<1>5. CASE rec.state = "torn_down"
  <2>1. rec'.state = "torn_down"
    BY <1>3, <1>5, AdvanceKeeps
  <2>2. Workload' = Workload
    BY <1>5, <2>1 DEF Workload
  <2> QED
    BY <1>1, <2>2 DEF Promise!vars
<1>6. CASE rec.state # "torn_down" /\ rec'.state = "torn_down"
  <2>1. rec.state = "tearing_down"
    BY <1>3, <1>6 DEF RecordAdvance, Allowed
  <2>2. Create # "none"
    BY <1>3, <2>1 DEF RecordSound, TeardownBegun, Ended
  <2>3. Workload = "possible" /\ Workload' = "gone"
    BY <1>6, <2>2 DEF Workload
  <2> QED
    BY <1>1, <2>3 DEF Promise!Next, Promise!ProveGone
<1>7. CASE rec.state # "torn_down" /\ rec'.state # "torn_down"
  <2>1. CASE Create = "none" /\ Create' # "none"
    <3>1. Workload = "none" /\ Workload' = "possible"
      BY <1>7, <2>1 DEF Workload
    <3>2. lease # "released"
      <4>1. rec'.state # "abandoned"
        BY <1>3, <2>1 DEF RecordSound
      <4> QED
        BY <1>3, <1>7, <4>1, AdvanceKeeps DEF LeaseSound
    <3>3. lease \notin Released \/ lease = "force_released"
      BY <3>2 DEF Released
    <3> QED
      BY <1>1, <3>1, <3>3 DEF Promise!Next, Promise!Deliver
  <2>2. CASE Create = "none" <=> Create' = "none"
    <3>1. Workload' = Workload
      BY <1>7, <2>2 DEF Workload
    <3> QED
      BY <1>1, <3>1 DEF Promise!vars
  <2> QED
    BY <1>4, <2>1, <2>2
<1> QED
  BY <1>5, <1>6, <1>7

\* The lifecycle gives capacity back with proof or by override, and tells of it
\* afterwards.
LEMMA LeaseKeepsPromise ==
  ASSUME LeaseInv, LeaseStep
  PROVE  [Promise!Next]_(Promise!vars)
<1> USE DEF Create, Destroy
<1>1. Lawful /\ (rec'.state = "torn_down" <=> rec.state = "torn_down")
  BY LeaseStepSound
<1>2. UNCHANGED job
  BY <1>1 DEF Lawful, jobVars
<1>3. Workload' = Workload
  BY <1>1, <1>2 DEF Workload
<1>4. CASE lease' = lease
  <2>1. CASE outbox' = outbox
    BY <1>3, <1>4, <2>1 DEF Promise!vars
  <2>2. CASE outbox' # outbox
    <3>1. CASE outbox' = "delivered" /\ outbox # "delivered"
      <4>1. lease \in Released
        BY <1>1, <3>1 DEF Lawful
      <4> QED
        BY <1>3, <1>4, <3>1, <4>1 DEF Promise!Next, Promise!Tell
    <3>2. CASE outbox' = "delivered" <=> outbox = "delivered"
      BY <1>3, <1>4, <3>2 DEF Promise!vars
    <3> QED
      BY <1>1, <3>1, <3>2 DEF Lawful
  <2> QED
    BY <2>1, <2>2
<1>5. CASE lease' # lease
  <2>1. outbox' = outbox /\ lease \notin Released
    BY <1>1, <1>5 DEF Lawful
  <2>2. CASE lease' = "released"
    <3>1. Permitted
      BY <1>1, <1>5, <2>2 DEF Lawful
    <3>2. "create" \in Jobs
      BY DEF Jobs
    <3>3. Workload # "possible"
      BY <3>1, <3>2 DEF Permitted, Workload
    <3>4. /\ lease' \in Released
          /\ ~(lease' = "force_released") /\ ~(lease = "force_released")
      BY <2>1, <2>2 DEF Released
    <3> QED
      BY <1>3, <2>1, <3>3, <3>4 DEF Promise!Next, Promise!GiveBack
  <2>3. CASE lease' = "force_released"
    <3>1. lease' \in Released
      BY <2>3 DEF Released
    <3> QED
      BY <1>3, <2>1, <2>3, <3>1 DEF Promise!Next, Promise!Override
  <2>4. CASE lease' \notin Released
    <3>1. lease # "force_released" /\ lease' # "force_released"
      BY <2>1, <2>4 DEF Released
    <3> QED
      BY <1>3, <2>1, <2>4, <3>1 DEF Promise!vars
  <2> QED
    BY <2>2, <2>3, <2>4 DEF Released
<1> QED
  BY <1>4, <1>5

\* The composition of engine, convergence and lifecycle implements
\* ReleasePromise: capacity is given back only with proof or by an operator's
\* override, nothing is delivered against capacity given back with proof, and
\* the storefront hears of a release only afterwards.
THEOREM ReleasePromiseKept == SafeSpec => KeepsReleasePromise
<1>1. Init => Promise!Init
  BY DEF Init, JobInit, ConvergenceInit, Promise!Init, Workload, Released, Jobs
<1>2. LeaseInv /\ [Next]_vars => [Promise!Next]_(Promise!vars)
  <2> SUFFICES ASSUME LeaseInv, [Next]_vars
               PROVE  [Promise!Next]_(Promise!vars)
    OBVIOUS
  <2>1. CASE JobStep /\ UNCHANGED <<fulfillVars, leaseVars>>
    <3>1. UNCHANGED <<rec, lease, outbox>> /\ (Create' = "none" <=> Create = "none")
      BY <2>1, JobStepSound DEF fulfillVars, leaseVars
    <3>2. Workload' = Workload
      BY <3>1 DEF Workload, Create
    <3> QED
      BY <3>1, <3>2 DEF Promise!vars
  <2>2. CASE FulfillmentStep /\ UNCHANGED leaseVars
    BY <2>2, FulfillmentKeepsPromise
  <2>3. CASE LeaseStep
    BY <2>3, LeaseKeepsPromise
  <2>4. CASE Restart \/ UNCHANGED vars
    <3>1. UNCHANGED <<job, rec, lease, outbox>>
      BY <2>4 DEF Restart, RestartEngine, RestartFulfillment, vars, jobVars, fulfillVars, leaseVars
    <3> QED
      BY <3>1 DEF Promise!vars, Workload
  <2> QED
    BY <2>1, <2>2, <2>3, <2>4 DEF Next
<1> QED
  BY <1>1, <1>2, LeaseInductive, PTL DEF SafeSpec, KeepsReleasePromise, Promise!Spec

=============================================================================
