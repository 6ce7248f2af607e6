----------------------- MODULE FulfillmentConvergence -----------------------
(***************************************************************************)
(* The fulfillment of one reservation: its settlement record, the request  *)
(* that begins it, and the convergence watchdog that dispatches its create *)
(* and teardown through the job engine and applies what became of them.    *)
(*                                                                         *)
(* Sources: market_fulfillment (fulfillment.py, fulfillment_persistence.py,*)
(* settlement_repository.py, transitions.py), the service's                *)
(* fulfillment_convergence.py, and compute_provisioning/job_fulfillment.py,*)
(* the provider whose operations are jobs.                                 *)
(*                                                                         *)
(* One action is one database transaction, or one call of the provider     *)
(* between two of them: a request and several cycles interleave there.  A  *)
(* cycle's five passes each claim rows of one state, so for one            *)
(* reservation the order of the passes only delays a pass, and a cycle     *)
(* here takes whichever pass the record's state calls for.  A claim lapses *)
(* with time, so a cycle may claim a row that another worker holds.        *)
(***************************************************************************)
EXTENDS JobEngine

CONSTANTS
  Cycles,    \* convergence cycles that may overlap
  WorkerOf,  \* the worker_id each cycle claims under
  NoWorker

ASSUME WorkerAssumption == \A c \in Cycles : WorkerOf[c] # NoWorker

VARIABLES
  rec,    \* the settlement record: [state, claim, reason]
  begin,  \* where the begin_fulfillment request is
  conv    \* where each cycle is: [on, got]

fulfillVars == <<rec, begin, conv>>

-----------------------------------------------------------------------------
(* The record.                                                             *)

\* SettlementRecordState
RecordStates ==
  {"assigned", "abandoned", "dispatch_pending", "dispatching", "active", "failed",
   "teardown_dispatch_pending", "tearing_down", "teardown_failed", "torn_down"}

\* _ALLOWED_TRANSITIONS
Allowed ==
  {<<"assigned", "dispatch_pending">>, <<"assigned", "abandoned">>,
   <<"dispatch_pending", "dispatching">>, <<"dispatch_pending", "failed">>,
   <<"dispatching", "active">>, <<"dispatching", "failed">>,
   <<"active", "teardown_dispatch_pending">>,
   <<"teardown_dispatch_pending", "tearing_down">>,
   <<"teardown_dispatch_pending", "teardown_failed">>,
   <<"tearing_down", "torn_down">>, <<"tearing_down", "teardown_failed">>,
   <<"teardown_failed", "teardown_dispatch_pending">>,
   <<"failed", "teardown_dispatch_pending">>}

\* _TEARDOWN_INITIATED_STATES
TeardownBegun ==
  {"teardown_dispatch_pending", "tearing_down", "teardown_failed", "torn_down"}

\* failure_reason: none, PROVIDER_REPORTED_FAILURE, CREATE_COMPENSATION
Reasons == {"none", "reported", "compensation"}

\* SettlementRepository.transition: a legal edge, or the state it has already.
Transition(to, reason) ==
  /\ rec.state = to \/ <<rec.state, to>> \in Allowed
  /\ rec' = [rec EXCEPT !.state = to, !.reason = reason]

Idle == [on |-> "none", got |-> "none"]

ConvergenceInit ==
  /\ rec = [state |-> "assigned", claim |-> NoWorker, reason |-> "none"]
  /\ begin = "idle"
  /\ conv = [c \in Cycles |-> Idle]

-----------------------------------------------------------------------------
(* begin_fulfillment: accept, dispatch, acknowledge.                       *)

\* accept_fulfillment, with the create prepared and kept in the same
\* transaction; an error there leaves the record assigned.  A repeated request
\* dispatches again while nothing has acknowledged the first.
AcceptFulfillment ==
  /\ begin = "idle"
  /\ rec.state \in {"assigned", "dispatch_pending"}
  /\ begin' = "dispatch"
  /\ Transition("dispatch_pending", rec.reason)
  /\ UNCHANGED <<conv, jobVars>>

\* dispatch_create outside any transaction and under no claim; a host that is
\* not registered or not enabled refuses it.
BeginDispatch ==
  /\ begin = "dispatch"
  /\ \/ /\ Submit("create")
        /\ begin' = "acknowledge"
     \/ /\ begin' = "idle"
        /\ UNCHANGED jobVars
  /\ UNCHANGED <<rec, conv>>

\* acknowledge_create.  A record that convergence has moved past dispatching
\* raises, and the whole transaction is rolled back.  The create handle that
\* attach_executor_job writes beside it is not modelled: it is read only by the
\* release guard, together with the job row that exists before it.
AcknowledgeCreate ==
  /\ begin = "acknowledge"
  /\ begin' = "idle"
  /\ \/ Transition("dispatching", rec.reason)
     \/ /\ rec.state # "dispatching" /\ <<rec.state, "dispatching">> \notin Allowed
        /\ UNCHANGED rec
  /\ UNCHANGED <<conv, jobVars>>

-----------------------------------------------------------------------------
(* The convergence watchdog.                                               *)

\* claim_pending for a pass that writes: requeue_teardown_failures, and the two
\* that dispatch.
ClaimPending(c) ==
  /\ conv[c] = Idle
  /\ rec.state \in {"teardown_failed", "dispatch_pending", "teardown_dispatch_pending"}
  /\ rec' = [rec EXCEPT !.claim = WorkerOf[c]]
  /\ conv' = [conv EXCEPT ![c] = [on |-> rec.state, got |-> "none"]]
  /\ UNCHANGED <<begin, jobVars>>

\* _dispatch_record's call of the provider: the contract's job is submitted, or
\* the call fails and the claim is left to lapse.
DispatchClaimed(c, sent) ==
  /\ conv[c].on \in {"dispatch_pending", "teardown_dispatch_pending"}
  /\ conv[c].got = "none"
  /\ IF sent
     THEN /\ Submit(IF conv[c].on = "dispatch_pending" THEN "create" ELSE "teardown")
          /\ conv' = [conv EXCEPT ![c].got = "sent"]
     ELSE /\ conv' = [conv EXCEPT ![c] = Idle]
          /\ UNCHANGED jobVars
  /\ UNCHANGED <<rec, begin>>

\* JobFulfillmentProvider.get_status, with _STATUS and the evidence a create needs.
\* The job of a record in flight exists, so its status is never unknown.
ProviderStatus(j) ==
  CASE job[j].status \in Live -> "pending"
    [] job[j].status = "succeeded" -> "succeeded"
    [] OTHER -> "failed"

\* converge_creates and converge_teardowns: claim_pending for a row in flight,
\* then the job's status.  A pending one is polled again: _poll_again keeps the
\* claim and writes nothing else.
ConvergeClaimed(c) ==
  LET got == ProviderStatus(IF rec.state = "dispatching" THEN "create" ELSE "teardown")
  IN  /\ conv[c] = Idle
      /\ rec.state \in {"dispatching", "tearing_down"}
      /\ rec' = [rec EXCEPT !.claim = WorkerOf[c]]
      /\ IF got = "pending"
         THEN UNCHANGED conv
         ELSE conv' = [conv EXCEPT ![c] = [on |-> rec.state, got |-> got]]
      /\ UNCHANGED <<begin, jobVars>>

\* _with_owned_record's condition.
Owned(c) == rec.state = conv[c].on /\ rec.claim = WorkerOf[c]

\* Where an applied outcome takes the record.
Applied(c) ==
  CASE conv[c].on = "dispatch_pending" -> "dispatching"
    [] conv[c].on = "teardown_dispatch_pending" -> "tearing_down"
    [] conv[c].on = "teardown_failed" -> "teardown_dispatch_pending"
    [] conv[c].on = "dispatching" -> IF conv[c].got = "succeeded" THEN "active" ELSE "failed"
    [] conv[c].on = "tearing_down" ->
         IF conv[c].got = "succeeded" THEN "torn_down" ELSE "teardown_failed"

\* Mutant: every failure replaces the reason.
ReasonApplied_Reported(c) == IF conv[c].got = "failed" THEN "reported" ELSE rec.reason

\* _apply_provider_failure and _apply_teardown_failure, which keeps the marker
\* of a compensation; other outcomes leave the reason.
ReasonApplied(c) ==
  IF conv[c].got = "failed" /\ ~(conv[c].on = "tearing_down" /\ rec.reason = "compensation")
  THEN "reported" ELSE rec.reason

\* The outcome's transaction, _with_owned_record: applied with record_progress,
\* which releases the claim; otherwise nothing.
ApplyOutcome(c) ==
  /\ conv[c].on = "teardown_failed" \/ conv[c].got # "none"
  /\ IF Owned(c)
     THEN rec' = [state |-> Applied(c), reason |-> ReasonApplied(c), claim |-> NoWorker]
     ELSE UNCHANGED rec
  /\ conv' = [conv EXCEPT ![c] = Idle]
  /\ UNCHANGED <<begin, jobVars>>

\* advance_cycle: release_worker_claims, before a cycle run by hand.
ReleaseWorkerClaims(c) ==
  /\ conv[c] = Idle /\ rec.claim = WorkerOf[c]
  /\ rec' = [rec EXCEPT !.claim = NoWorker]
  /\ UNCHANGED <<begin, conv, jobVars>>

FulfillmentStep ==
  \/ AcceptFulfillment
  \/ BeginDispatch
  \/ AcknowledgeCreate
  \/ \E c \in Cycles :
       \/ ClaimPending(c)
       \/ \E sent \in BOOLEAN : DispatchClaimed(c, sent)
       \/ ConvergeClaimed(c)
       \/ ApplyOutcome(c)
       \/ ReleaseWorkerClaims(c)

\* begin_fulfillment_teardown and begin_compensating_teardown, whichever the
\* port's read of the state calls for: a teardown already begun is adopted.
BeginTeardown ==
  /\ rec.state \in {"active", "failed"} \cup TeardownBegun
  /\ IF rec.state \in TeardownBegun
     THEN UNCHANGED rec
     ELSE Transition("teardown_dispatch_pending",
                     IF rec.state = "failed" THEN "compensation" ELSE rec.reason)

\* Mutant: the record of a given-up assignment is written as closed.
AbandonIfAssigned_Closed ==
  rec' = [rec EXCEPT !.state = IF @ = "assigned" THEN "closed" ELSE @]

\* abandon_if_assigned
AbandonIfAssigned ==
  rec' = [rec EXCEPT !.state = IF @ = "assigned" THEN "abandoned" ELSE @]

RestartFulfillment ==
  /\ begin' = "idle"
  /\ conv' = [c \in Cycles |-> Idle]
  /\ UNCHANGED rec

-----------------------------------------------------------------------------
(* Properties.                                                             *)

FulfillmentTypeOK ==
  /\ rec \in [state : RecordStates, reason : Reasons,
              claim : {WorkerOf[c] : c \in Cycles} \cup {NoWorker}]
  /\ begin \in {"idle", "dispatch", "acknowledge"}
  /\ conv \in [Cycles -> [on : RecordStates \cup {"none"},
                          got : {"none", "sent", "succeeded", "failed"}]]

\* A teardown that compensates a failed create is told apart from one that ends
\* a delivery by its reason, whatever fails on the way (transitions.py: "a
\* torn_down aggregate carrying it ended compensated, while one carrying any
\* other reason was delivered").
CompensationMarked ==
  rec.state \in TeardownBegun =>
    (rec.reason = "compensation" <=> job["create"].status # "succeeded")

=============================================================================
