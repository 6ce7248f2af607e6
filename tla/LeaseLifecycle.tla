--------------------------- MODULE LeaseLifecycle ---------------------------
(***************************************************************************)
(* The end of a lease: the lifecycle that releases a reservation once its  *)
(* fulfillment proves that nothing is left on the host, composed with the  *)
(* fulfillment, its convergence and the job engine.                        *)
(*                                                                         *)
(* Sources: compute_provisioning/lease_lifecycle.py and release.py, the    *)
(* lease transitions of market_site/ledger.py, and the durable outbox of   *)
(* the service's deal_event_sink.py.                                       *)
(*                                                                         *)
(* One action is one read or one transaction: the timer's cycle, a cycle   *)
(* an operator forces and the operators' routes run the same code and      *)
(* interleave between those steps.  A release's handle is the fulfillment, *)
(* of which a reservation has one, so the handle that the ledger compares  *)
(* always matches and is left out.                                         *)
(***************************************************************************)
EXTENDS FulfillmentConvergence

CONSTANTS
  Releasers,  \* timer cycles and operator requests that may overlap
  Forces      \* whether operators force releases and take leases over

ASSUME LeaseAssumption == Forces \in BOOLEAN

VARIABLES
  lease,    \* the reservation's state
  outbox,   \* its capacity-release callback: "none", "pending", "delivered"
  rel       \* where each releaser is: [at, why]

leaseVars == <<lease, outbox, rel>>

vars == <<jobVars, fulfillVars, leaseVars>>

\* TERMINAL_SUCCESS_STATES
Released == {"released", "force_released"}
LeaseStates == {"leased", "releasing", "release_failed", "unmanaged"} \cup Released

Resting == [at |-> "rest", why |-> "none"]

\* A reservation that the ledger committed and scheduling assigned.
Init ==
  /\ JobInit
  /\ ConvergenceInit
  /\ lease = "leased"
  /\ outbox = "none"
  /\ rel = [r \in Releasers |-> Resting]

Goto(r, at) == rel' = [rel EXCEPT ![r] = [at |-> at, why |-> "none"]]
Rest(r) == rel' = [rel EXCEPT ![r] = Resting]

-----------------------------------------------------------------------------
(* Decisions: a lease and its fulfillment are read here and acted upon     *)
(* later.                                                                  *)

\* submit_release.  Every failed record is compensable: the provider reported
\* its dispatched create as failed.  The other failure that convergence records,
\* of a success whose metadata names no resource, cannot occur: get_status reads
\* the same metadata before, and answers unknown when it does not parse.
Decide(r, why) ==
  CASE rec.state \in {"assigned", "abandoned", "torn_down"} ->
         rel' = [rel EXCEPT ![r] = [at |-> "reserve", why |-> why]]
    [] rec.state \in {"dispatch_pending", "dispatching"} -> Goto(r, "begin_wait")
    [] OTHER -> Goto(r, "begin_teardown")

\* terminate_lease and the timer's due leases (from leased), retry_release
\* (from release_failed).
RequestRelease(r) ==
  /\ rel[r] = Resting /\ lease \in {"leased", "release_failed"}
  /\ Decide(r, "request")
  /\ UNCHANGED <<lease, outbox, jobVars, fulfillVars>>

\* force_release up to its release.
RequestForce(r) ==
  /\ Forces
  /\ rel[r] = Resting /\ lease \notin Released
  /\ rel' = [rel EXCEPT ![r] = [at |-> "reserve", why |-> "force"]]
  /\ UNCHANGED <<lease, outbox, jobVars, fulfillVars>>

\* release_oversight: record_unmanaged is conditional on a leased row.
ReleaseOversight ==
  /\ Forces
  /\ lease = "leased"
  /\ lease' = "unmanaged"
  /\ UNCHANGED <<outbox, rel, jobVars, fulfillVars>>

\* Mutant: a teardown under way is waited for without a grace period.
SweepReleasing_NoGrace(r) ==
  /\ rel[r] = Resting /\ lease = "releasing"
  /\ \/ /\ rec.state = "torn_down"
        /\ rel' = [rel EXCEPT ![r] = [at |-> "reserve", why |-> "sweep"]]
     \/ rec.state \in {"active", "failed"} /\ Goto(r, "teardown")
     \/ rec.state = "teardown_failed" /\ Goto(r, "fail")
  /\ UNCHANGED <<lease, outbox, jobVars, fulfillVars>>

\* _process_releasing_reservation: what the status of the fulfillment calls
\* for.  A teardown under way is failed once its grace period has passed.
SweepReleasing(r) ==
  /\ rel[r] = Resting /\ lease = "releasing"
  /\ \/ /\ rec.state = "torn_down"
        /\ rel' = [rel EXCEPT ![r] = [at |-> "reserve", why |-> "sweep"]]
     \/ rec.state \in {"active", "failed"} /\ Goto(r, "teardown")
     \/ rec.state \in {"teardown_failed", "teardown_dispatch_pending", "tearing_down"}
        /\ Goto(r, "fail")
  /\ UNCHANGED <<lease, outbox, jobVars, fulfillVars>>

\* The same pass when the status cannot be read: once the grace period is over,
\* the release fails whatever the fulfillment has come to.  A releasing lease
\* always records the handle that is read, so the branch without one is left out.
SweepUnreadable(r) ==
  /\ rel[r] = Resting /\ lease = "releasing"
  /\ Goto(r, "fail")
  /\ UNCHANGED <<lease, outbox, jobVars, fulfillVars>>

-----------------------------------------------------------------------------
(* The steps towards a release.                                            *)

\* begin_releasing, from a state that still allows it; a refusal leaves the
\* lease as another actor recorded it.
BeginReleasing(r) ==
  /\ rel[r].at \in {"begin_wait", "begin_teardown"}
  /\ IF lease \in {"leased", "release_failed", "releasing"}
     THEN /\ lease' = "releasing"
          /\ IF rel[r].at = "begin_teardown" THEN Goto(r, "teardown") ELSE Rest(r)
     ELSE /\ UNCHANGED lease
          /\ Rest(r)
  /\ UNCHANGED <<outbox, jobVars, fulfillVars>>

\* begin_teardown through the port.  A compensation whose teardown cannot be
\* prepared is refused, and the release fails; any other error leaves the lease
\* releasing for a later cycle.
Teardown(r) ==
  /\ rel[r].at = "teardown"
  /\ \/ BeginTeardown /\ Rest(r)
     \/ rec.state = "failed" /\ Goto(r, "fail") /\ UNCHANGED rec
     \/ rec.state \notin TeardownBegun /\ Rest(r) /\ UNCHANGED rec
  /\ UNCHANGED <<lease, outbox, begin, conv, jobVars>>

\* _mark_release_failed: record_release_failed refuses a lease that an operator
\* holds, and one released or failed already.  A failure that names a handle must
\* name the one recorded, which it does; one that names none is not compared.
MarkReleaseFailed(r) ==
  /\ rel[r].at = "fail"
  /\ lease' = IF lease \in {"leased", "releasing"} THEN "release_failed" ELSE lease
  /\ Rest(r)
  /\ UNCHANGED <<outbox, jobVars, fulfillVars>>

\* An exception on the way: _run_cycle records a due lease's release as failed,
\* an operator's request and the releasing pass leave the lease as it is.
Raise(r) ==
  /\ rel[r].at \in {"reserve", "free", "begin_wait", "begin_teardown"}
  /\ \/ Rest(r)
     \/ rel[r].why \notin {"force", "sweep"} /\ Goto(r, "fail")
  /\ UNCHANGED <<lease, outbox, jobVars, fulfillVars>>

-----------------------------------------------------------------------------
(* The release and its notification.                                       *)

\* Mutant: a create whose job has failed has nothing to tear down.
Permitted_FailedCreate ==
  \/ rec.state \in {"torn_down", "failed"}
  \/ rec.state \in {"assigned", "abandoned"} /\ job["create"].status = "none"

\* FulfillmentReleaseGuard; _dispatched reads the jobs bound to the reservation.
Permitted ==
  \/ rec.state = "torn_down"
  \/ rec.state \in {"assigned", "abandoned"} /\ \A j \in Jobs : job[j].status = "none"

\* SqlAlchemyCapacityReleaseOutbox.reserve, before the release.
ReserveCallback(r) ==
  /\ rel[r].at = "reserve"
  /\ outbox' = IF outbox = "none" THEN "pending" ELSE outbox
  /\ rel' = [rel EXCEPT ![r].at = "free"]
  /\ UNCHANGED <<lease, jobVars, fulfillVars>>

\* ledger.release: a forced one is not guarded; a repeated one still offers the
\* record to the guard, which abandons an assignment.
SiteRelease(forced) ==
  \/ /\ lease \in Released
     /\ UNCHANGED lease
     /\ IF Permitted THEN AbandonIfAssigned ELSE UNCHANGED rec
  \/ /\ forced /\ lease \notin Released
     /\ lease' = "force_released"
     /\ UNCHANGED rec
  \/ /\ ~forced /\ lease \notin Released \cup {"unmanaged"} /\ Permitted
     /\ lease' = "released"
     /\ AbandonIfAssigned

\* ledger.release returned nothing.
SiteRefuses(forced) ==
  /\ ~forced /\ lease \notin Released
  /\ lease = "unmanaged" \/ ~Permitted

\* record_release_success: refused, a request decides once more and then fails,
\* and the releasing pass waits for its next cycle.
FinishRelease(r) ==
  /\ rel[r].at = "free"
  /\ \/ /\ SiteRelease(rel[r].why = "force")
        /\ Goto(r, "notify")
     \/ /\ SiteRefuses(rel[r].why = "force")
        /\ UNCHANGED <<lease, rec>>
        /\ CASE rel[r].why = "request" -> Decide(r, "again")
             [] rel[r].why = "again" -> Goto(r, "fail")
             [] OTHER -> Rest(r)
  /\ UNCHANGED <<outbox, begin, conv, jobVars>>

\* A storefront's own release of the reservation at the site, guarded alike; it
\* reserves no callback, since its caller is who the callback would tell.
StorefrontRelease ==
  /\ lease \notin Released
  /\ SiteRelease(FALSE)
  /\ UNCHANGED <<outbox, rel, begin, conv, jobVars>>

\* Mutant: the callback of a pending row is delivered whatever the lease is.
DrainOutbox_Unreleased(r) ==
  /\ rel[r] = Resting /\ outbox = "pending"
  /\ Goto(r, "notify")
  /\ UNCHANGED <<lease, outbox, jobVars, fulfillVars>>

\* Mutant: a forced release is not a release to tell of.
DrainOutbox_Unforced(r) ==
  /\ rel[r] = Resting /\ outbox = "pending" /\ lease = "released"
  /\ Goto(r, "notify")
  /\ UNCHANGED <<lease, outbox, jobVars, fulfillVars>>

\* _drain_capacity_release_outbox, at the start of every cycle.
DrainOutbox(r) ==
  /\ rel[r] = Resting /\ outbox = "pending" /\ lease \in Released
  /\ Goto(r, "notify")
  /\ UNCHANGED <<lease, outbox, jobVars, fulfillVars>>

\* _deliver_capacity_release: acknowledged by the storefront and marked, or not.
Notify(r, answered) ==
  /\ rel[r].at = "notify"
  /\ outbox' = IF answered THEN "delivered" ELSE outbox
  /\ Rest(r)
  /\ UNCHANGED <<lease, jobVars, fulfillVars>>

\* The process restarts: rows and executions stay, requests and cycles do not.
Restart ==
  /\ RestartEngine
  /\ RestartFulfillment
  /\ rel' = [r \in Releasers |-> Resting]
  /\ UNCHANGED <<lease, outbox>>

LeaseStep ==
  \/ ReleaseOversight
  \/ StorefrontRelease
  \/ \E r \in Releasers :
       \/ RequestRelease(r)
       \/ RequestForce(r)
       \/ SweepReleasing(r)
       \/ SweepUnreadable(r)
       \/ BeginReleasing(r)
       \/ Teardown(r)
       \/ MarkReleaseFailed(r)
       \/ Raise(r)
       \/ ReserveCallback(r)
       \/ FinishRelease(r)
       \/ DrainOutbox(r)
       \/ \E answered \in BOOLEAN : Notify(r, answered)

Next ==
  \/ JobStep /\ UNCHANGED <<fulfillVars, leaseVars>>
  \/ FulfillmentStep /\ UNCHANGED leaseVars
  \/ LeaseStep
  \/ Restart

SafeSpec == Init /\ [][Next]_vars

-----------------------------------------------------------------------------
(* Fairness.  The engine, the retry sweep, the watchdog and the lifecycle  *)
(* run on timers for ever, and an execution is bounded by a timeout.  Weak *)
(* fairness says so; strong fairness is for what other steps interrupt or  *)
(* what may fail and is tried again: a dispatch, the beginning of a        *)
(* teardown, a write and a callback succeed at some attempt.               *)

JobFairness ==
  \A j \in Jobs :
    WF_vars((RequeueDueRetry(j) \/ ProcessJob(j) \/ ReportOutcome(j))
            /\ UNCHANGED <<fulfillVars, leaseVars>>)

ConvergenceFairness ==
  \A c \in Cycles :
    /\ WF_vars((ClaimPending(c) \/ ConvergeClaimed(c) \/ ApplyOutcome(c)) /\ UNCHANGED leaseVars)
    /\ SF_vars(DispatchClaimed(c, TRUE) /\ UNCHANGED leaseVars)

ReleaseFairness ==
  \A r \in Releasers :
    /\ SF_vars(SweepReleasing(r))
    /\ WF_vars(MarkReleaseFailed(r) \/ BeginReleasing(r))
    /\ SF_vars(BeginTeardown /\ Teardown(r))
    /\ SF_vars(ReserveCallback(r))
    /\ SF_vars(FinishRelease(r))
    /\ SF_vars(DrainOutbox(r))
    /\ SF_vars(Notify(r, TRUE))

Spec == SafeSpec /\ JobFairness /\ ConvergenceFairness /\ ReleaseFairness

-----------------------------------------------------------------------------
(* Properties.                                                             *)

\* Type correctness.
LeaseTypeOK ==
  /\ JobTypeOK
  /\ FulfillmentTypeOK
  /\ lease \in LeaseStates
  /\ outbox \in {"none", "pending", "delivered"}
  /\ rel \in [Releasers -> [at : {"rest", "reserve", "free", "notify", "fail", "begin_wait",
                                  "begin_teardown", "teardown"},
                            why : {"none", "request", "again", "force", "sweep"}]]

\* Capacity is given back only once its workload is gone and nothing can bring
\* it back: no create runs, waits in the queue or may still be submitted.  The
\* exceptions are the ones the code cannot exclude: an operator's override, and
\* a create cancelled while it ran, whose executor is only asked to stop.
NothingLeftBehind ==
  lease = "released" /\ job["create"].status # "cancelled" =>
    /\ ~present
    /\ runs["create"] = 0
    /\ job["create"].status \notin Live
    /\ rec.state \in {"abandoned", "torn_down"}

\* A job that nothing will run again: its row says queued or running, and the
\* process that knew of it is gone (engine.py, process_job; queue.py).
Lost(j) ==
  job[j].status \in Live /\ ~job[j].wait /\ j \notin queue /\ j \notin watched

\* A release under way comes to an end, released or failed, across restarts,
\* failed and slow teardowns and refused compensations; only a create that a
\* restart lost can hold it up for ever.
ReleaseSettles ==
  lease = "releasing" ~> (lease # "releasing" \/ Lost("create"))

\* Once capacity is released the storefront is told, although the process may
\* stop between the release and the callback, or the callback may be lost.
CallbackDelivered ==
  (lease \in Released /\ outbox = "pending") ~> outbox = "delivered"

\* The lease's capacity, as ReleasePromise sees it.
Workload ==
  IF rec.state = "torn_down" THEN "gone"
  ELSE IF job["create"].status = "none" THEN "none" ELSE "possible"

Promise ==
  INSTANCE ReleasePromise WITH
    held <- lease \notin Released,
    workload <- Workload,
    overridden <- lease = "force_released",
    told <- outbox = "delivered"

\* The lifecycle implements what the service promises of released capacity.
KeepsReleasePromise == Promise!Spec

=============================================================================
