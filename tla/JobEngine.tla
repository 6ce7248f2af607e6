----------------------------- MODULE JobEngine -----------------------------
(***************************************************************************)
(* The provisioning job engine: durable job rows, an in-process queue that *)
(* a restart empties, and executors that act on a host.                    *)
(*                                                                         *)
(* Sources: compute_provisioning/jobs/engine.py, jobs/queue.py and         *)
(* jobs/submission.py, and job_fulfillment.job_contract, which gives a     *)
(* fulfillment one create job and one teardown job, whoever submits it and *)
(* however often.                                                          *)
(*                                                                         *)
(* What an executor does is outside the repository's control: an execution *)
(* of "create" may put the workload on the host at any moment it runs, one *)
(* of "teardown" may take it off, and an execution reports success only    *)
(* when the host agrees.  A cancellation asks the executor to stop and is  *)
(* not obeyed at once, so an execution may outlive its job's status; one   *)
(* whose service process died may outlive that process.                    *)
(***************************************************************************)
EXTENDS Naturals, FiniteSets

CONSTANTS
  MaxRetries,  \* the max_retries of each job
  MaxStops     \* bound on the restarts of the service process

ASSUME JobAssumption == MaxRetries \in [{"create", "teardown"} -> Nat] /\ MaxStops \in Nat

VARIABLES
  job,      \* the job rows: [status, retries, wait]; "none" before submission
  queue,    \* jobs in the process's queue
  runs,     \* executions of each job that have not ended
  watched,  \* jobs whose execution the running process awaits
  present,  \* whether the workload is on the host
  stops     \* restarts so far

jobVars == <<job, queue, runs, watched, present, stops>>

\* job_contract: the reservation and the operation name the job.
Jobs == {"create", "teardown"}

Live == {"queued", "running"}
Ended == {"succeeded", "unproven", "failed", "cancelled"}

\* JobRecord.  "unproven" is a create that succeeded without the delivery
\* evidence that get_status requires; wait is a next_retry_at that is set.
JobRow == [status : {"none"} \cup Live \cup Ended, retries : Nat, wait : BOOLEAN]

JobInit ==
  /\ job = [j \in Jobs |-> [status |-> "none", retries |-> 0, wait |-> FALSE]]
  /\ queue = {}
  /\ runs = [j \in Jobs |-> 0]
  /\ watched = {}
  /\ present = FALSE
  /\ stops = 0

-----------------------------------------------------------------------------
\* Mutant: every submission enqueues, and starts the row again.
Submit_Anew(j) ==
  /\ job' = [job EXCEPT ![j] = [status |-> "queued", retries |-> 0, wait |-> FALSE]]
  /\ queue' = queue \cup {j}
  /\ UNCHANGED <<runs, watched, present, stops>>

\* submit: a job that exists is returned as it is, queued or not; a new row is
\* committed and then enqueued.
Submit(j) ==
  /\ IF job[j].status = "none"
     THEN /\ job' = [job EXCEPT ![j].status = "queued"]
          /\ queue' = queue \cup {j}
     ELSE UNCHANGED <<job, queue>>
  /\ UNCHANGED <<runs, watched, present, stops>>

\* requeue_due_retries: the delay of a retry has elapsed.
RequeueDueRetry(j) ==
  /\ job[j].status = "queued" /\ job[j].wait
  /\ job' = [job EXCEPT ![j].wait = FALSE]
  /\ queue' = queue \cup {j}
  /\ UNCHANGED <<runs, watched, present, stops>>

\* process_job up to the executor: only a queued row that is due starts, by a
\* compare-and-set; a host that is no longer registered, or an action with no
\* executor, fails it (_fail).  Anything else is dropped from the queue.
ProcessJob(j) ==
  /\ j \in queue
  /\ queue' = queue \ {j}
  /\ \/ /\ job[j].status = "queued" /\ ~job[j].wait
        /\ job' = [job EXCEPT ![j].status = "running"]
        /\ runs' = [runs EXCEPT ![j] = @ + 1]
        /\ watched' = watched \cup {j}
     \/ /\ job[j].status = "queued" /\ ~job[j].wait
        /\ job' = [job EXCEPT ![j].status = "failed"]
        /\ UNCHANGED <<runs, watched>>
     \/ /\ ~(job[j].status = "queued" /\ ~job[j].wait)
        /\ UNCHANGED <<job, runs, watched>>
  /\ UNCHANGED <<present, stops>>

\* The executor's effect on the host.
Execute(j) ==
  /\ runs[j] > 0
  /\ present' = (j = "create")
  /\ UNCHANGED <<job, queue, runs, watched, stops>>

\* What the report of an execution makes of a running row.
Outcomes(j) ==
  (IF present = (j = "create") THEN {[job[j] EXCEPT !.status = "succeeded"]} ELSE {})
  \cup (IF j = "create" /\ present THEN {[job[j] EXCEPT !.status = "unproven"]} ELSE {})
  \cup {[job[j] EXCEPT !.status = "failed"]}
  \cup (IF job[j].retries < MaxRetries[j]
        THEN {[status |-> "queued", retries |-> job[j].retries + 1, wait |-> TRUE]}
        ELSE {})

\* Mutant: the report is written whatever the row has become.
ReportOutcome_Late(j) ==
  /\ runs[j] > 0 /\ j \in watched
  /\ runs' = [runs EXCEPT ![j] = @ - 1]
  /\ watched' = watched \ {j}
  /\ \E row \in Outcomes(j) : job' = [job EXCEPT ![j] = row]
  /\ UNCHANGED <<queue, present, stops>>

\* process_job after the executor: _transition applies a report only to a row
\* that is still running; a cancelled row keeps its status.
ReportOutcome(j) ==
  /\ runs[j] > 0 /\ j \in watched
  /\ runs' = [runs EXCEPT ![j] = @ - 1]
  /\ watched' = watched \ {j}
  /\ IF job[j].status = "running"
     THEN \E row \in Outcomes(j) : job' = [job EXCEPT ![j] = row]
     ELSE UNCHANGED job
  /\ UNCHANGED <<queue, present, stops>>

\* An execution whose process is gone ends; nobody hears of it.
EndUnwatched(j) ==
  /\ runs[j] > 0 /\ j \notin watched
  /\ runs' = [runs EXCEPT ![j] = @ - 1]
  /\ UNCHANGED <<job, queue, watched, present, stops>>

\* cancel_job, whose request to the executor takes effect when it takes effect.
CancelJob(j) ==
  /\ job[j].status \in Live
  /\ job' = [job EXCEPT ![j].status = "cancelled"]
  /\ UNCHANGED <<queue, runs, watched, present, stops>>

JobStep ==
  \E j \in Jobs :
    \/ RequeueDueRetry(j)
    \/ ProcessJob(j)
    \/ Execute(j)
    \/ ReportOutcome(j)
    \/ EndUnwatched(j)
    \/ CancelJob(j)

\* The process stops and starts again: AsyncJobQueue lives in its memory, and
\* nothing reads the queued and running rows back.
RestartEngine ==
  /\ stops < MaxStops
  /\ stops' = stops + 1
  /\ queue' = {}
  /\ watched' = {}
  /\ UNCHANGED <<job, runs, present>>

-----------------------------------------------------------------------------
(* Properties.                                                             *)

JobTypeOK ==
  /\ job \in [Jobs -> JobRow]
  /\ queue \subseteq Jobs
  /\ runs \in [Jobs -> Nat]
  /\ watched \subseteq Jobs
  /\ present \in BOOLEAN
  /\ stops \in 0 .. MaxStops

\* A job never has two executions on the host at once, although retries, the
\* retry sweep, cancellations and restarts put it back in the queue or leave an
\* execution behind (engine.py: "Apply a change only if the job is still in one
\* of expected").
OneExecution == \A j \in Jobs : runs[j] <= 1

\* A job that ended keeps its outcome: a late report of its executor, a retry
\* sweep or another submission does not revive it.
OutcomeKept ==
  [][\A j \in Jobs : job[j].status \in Ended => job'[j] = job[j]]_jobVars

=============================================================================
