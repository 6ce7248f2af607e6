---------------------- MODULE FulfillmentPublication ----------------------
(***************************************************************************)
(* The Alkahest ready step of one settlement obligation: a servicing       *)
(* caller reserves the obligation's 'fulfill' operation, records what it   *)
(* is about to publish, publishes it on chain, records the reference the   *)
(* chain created, binds that reference and completes the operation.        *)
(*                                                                         *)
(* Sources: alkahest_lifecycle.py (the step), runtime.py (the fulfillment  *)
(* operations), sqlite_repository.py (each operation's transaction), and   *)
(* fulfillment_publisher.py (the four outcomes of a publication).          *)
(*                                                                         *)
(* One action is one transaction or one call to the chain, so callers      *)
(* interleave exactly where the code awaits.  The evidence of a deal is    *)
(* recorded once and reused, so a submission is a Boolean; the n-th        *)
(* attestation the chain creates has the reference n; 0 is "none".         *)
(***************************************************************************)
EXTENDS Naturals, FiniteSets

CONSTANTS
  Callers,        \* concurrent invocations of the ready step
  Timers,         \* those of the servicing loop, which come round by themselves
  Workers,        \* worker ids, the lease_owner values of the journal
  WorkerOf,       \* the worker id each caller presents
  NoOwner,        \* lease_owner IS NULL
  RejectionBound, \* REJECTION_BOUND of the step
  MaxLanded,      \* bound: attestations the chain creates for this escrow
  MaxFaults       \* bound: process stops and leases that expire under a running step

ASSUME CallersAssumption ==
  /\ Timers \subseteq Callers
  /\ WorkerOf \in [Callers -> Workers]
  /\ NoOwner \notin Workers
  /\ RejectionBound \in Nat \ {0}
  /\ MaxLanded \in Nat /\ MaxFaults \in Nat

VARIABLES
  escrow,      \* mechanism_status: "ready", or "ended" (expired, failed, manual_required)
  row,         \* the settlement_operations row of 'fulfill'
  fref,        \* settlement_obligations.fulfillment_ref
  reclaimed,   \* reclaim_state is in_progress or succeeded
  rejections,  \* evidence_rejections, counted up to RejectionBound
  pc,          \* where each caller's step is
  held,        \* the fulfillment_ref a caller loaded, or the one it completes with
  landed,      \* attestations the chain holds for this escrow
  submits,     \* submissions sent since the recorded intent was last cleared, up to 2
  faults       \* faults so far

vars == <<escrow, row, fref, reclaimed, rejections, pc, held, landed, submits, faults>>
journal == <<escrow, row, fref, reclaimed>>
chain == <<landed, submits, faults>>

Stages == {"idle", "ready", "loaded", "repair", "evidence", "publish", "reference",
           "complete", "finish", "unsent", "refused", "reject", "retry", "park"}

RowStates == {"absent", "pending", "in_progress", "succeeded", "manual_required"}

Init ==
  /\ escrow = "ready"
  /\ row = [st |-> "absent", owner |-> NoOwner, live |-> FALSE,
            sub |-> FALSE, ref |-> 0, awaiting |-> FALSE]
  /\ fref = 0
  /\ reclaimed = FALSE
  /\ rejections = 0
  /\ pc = [c \in Callers |-> "idle"]
  /\ held = [c \in Callers |-> 0]
  /\ landed = 0
  /\ submits = 0
  /\ faults = 0

-----------------------------------------------------------------------------
(* The journal's transactions on the 'fulfill' row.                        *)

\* Every write of a held operation names its owner; an expired lease that
\* nobody took over still counts as held.
Holds(c) == row.st = "in_progress" /\ row.owner = WorkerOf[c]

\* finish_settlement_operation releases the lease. Only a completed
\* fulfillment passes a receipt, which replaces the recorded fields.
FinishRow(st) ==
  [row EXCEPT !.st = st, !.owner = NoOwner, !.live = FALSE,
              !.sub = (st # "succeeded") /\ @,
              !.ref = IF st = "succeeded" THEN 0 ELSE @]

\* A busy reservation: the payer reclaims, or another worker's lease is live.
Busy(c) ==
  \/ reclaimed
  \/ row.st = "in_progress" /\ row.owner # WorkerOf[c] /\ row.live

GoTo(c, stage) == pc' = [pc EXCEPT ![c] = stage]

\* The step ends, by return or by an exception the servicing worker catches.
Leave(c) == GoTo(c, "idle") /\ held' = [held EXCEPT ![c] = 0]

-----------------------------------------------------------------------------
(* The ready step.                                                         *)

\* A pass that finds the escrow ready and nothing bound calls the step; an
\* escrow that has ended is not serviced any more.
Enter(c) ==
  /\ pc[c] = "idle"
  /\ escrow = "ready" /\ fref = 0
  /\ GoTo(c, "ready")
  /\ UNCHANGED <<journal, rejections, held, chain>>

\* reserve_fulfillment reads the record before it reserves.
Load(c) ==
  /\ pc[c] = "ready"
  /\ GoTo(c, "loaded")
  /\ held' = [held EXCEPT ![c] = fref]
  /\ UNCHANGED <<journal, rejections, chain>>

\* The reservation refuses: busy, or the operation is already terminal.
ReserveRefused(c) ==
  /\ pc[c] = "loaded"
  /\ Busy(c) \/ row.st \in {"succeeded", "manual_required"}
  /\ Leave(c)
  /\ UNCHANGED <<journal, rejections, chain>>

\* Mutant: an operation that has ended is reserved again.
Reserve_Reopens(c) ==
  /\ pc[c] = "loaded"
  /\ ~Busy(c)
  /\ row' = [row EXCEPT !.st = "in_progress", !.owner = WorkerOf[c],
                        !.live = TRUE, !.awaiting = FALSE]
  /\ GoTo(c, IF held[c] # 0 THEN "repair"
             ELSE IF row.ref # 0 THEN "complete"
             ELSE IF row.sub THEN "park" ELSE "evidence")
  /\ held' = [held EXCEPT ![c] = IF @ # 0 THEN @ ELSE row.ref]
  /\ UNCHANGED <<escrow, fref, reclaimed, rejections, chain>>

\* The reservation succeeds and reports the receipt recorded so far, which
\* decides whether this attempt repairs, completes, parks or publishes.
Reserve(c) ==
  /\ pc[c] = "loaded"
  /\ ~Busy(c)
  /\ row.st \in {"absent", "pending", "in_progress"}
  /\ row' = [row EXCEPT !.st = "in_progress", !.owner = WorkerOf[c],
                        !.live = TRUE, !.awaiting = FALSE]
  /\ GoTo(c, IF held[c] # 0 THEN "repair"
             ELSE IF row.ref # 0 THEN "complete"
             ELSE IF row.sub THEN "park" ELSE "evidence")
  /\ held' = [held EXCEPT ![c] = IF @ # 0 THEN @ ELSE row.ref]
  /\ UNCHANGED <<escrow, fref, reclaimed, rejections, chain>>

\* finish_settlement_operation, or "settlement operation lease was lost".
FinishOr(c, st) ==
  /\ row' = IF Holds(c) THEN FinishRow(st) ELSE row
  /\ Leave(c)
  /\ UNCHANGED <<escrow, fref, reclaimed, rejections, chain>>

\* A reference bound by an earlier attempt completes its operation.
Repair(c) == pc[c] = "repair" /\ FinishOr(c, "succeeded")

\* Delivery is not active yet: mark_fulfillment_awaiting_delivery.
Defer(c) ==
  /\ pc[c] = "evidence" /\ Holds(c)
  /\ row' = [FinishRow("pending") EXCEPT !.awaiting = TRUE]
  /\ Leave(c)
  /\ UNCHANGED <<escrow, fref, reclaimed, rejections, chain>>

\* write_operation_receipt_field of the submission: an equal value already
\* recorded is a replay, and the step goes on to publish.
RecordSubmission(c) ==
  /\ pc[c] = "evidence" /\ Holds(c)
  /\ row' = [row EXCEPT !.sub = TRUE]
  /\ GoTo(c, "publish")
  /\ UNCHANGED <<escrow, fref, reclaimed, rejections, held, chain>>

\* Delivery failed, its evidence could not be built, or the lease was lost
\* before the submission was recorded.
EvidenceFailed(c) ==
  /\ pc[c] = "evidence"
  /\ GoTo(c, "retry")
  /\ UNCHANGED <<journal, rejections, held, chain>>

Submitted == submits' = IF submits < 2 THEN submits + 1 ELSE submits

\* The chain accepts the evidence and the caller learns its reference.
PublishAccepted(c) ==
  /\ pc[c] = "publish"
  /\ landed < MaxLanded /\ landed' = landed + 1
  /\ Submitted
  /\ held' = [held EXCEPT ![c] = landed + 1]
  /\ GoTo(c, "reference")
  /\ UNCHANGED <<journal, rejections, faults>>

\* The outcome is unknown: the attestation may or may not exist.
PublishUnknown(c) ==
  /\ pc[c] = "publish"
  /\ landed' \in {landed, landed + 1} \cap (0 .. MaxLanded)
  /\ Submitted
  /\ GoTo(c, "park")
  /\ UNCHANGED <<journal, rejections, held, faults>>

\* The chain refused the evidence; no attestation exists.
PublishRejected(c) ==
  /\ pc[c] = "publish"
  /\ Submitted
  /\ GoTo(c, "refused")
  /\ UNCHANGED <<journal, rejections, held, landed, faults>>

\* The failure provably preceded the submission.
PublishNotSubmitted(c) ==
  /\ pc[c] = "publish"
  /\ GoTo(c, "unsent")
  /\ UNCHANGED <<journal, rejections, held, chain>>

\* write_operation_receipt_field of the reference, first write wins.
ReferenceWritable(c) == Holds(c) /\ row.ref \in {0, held[c]}

RecordReference(c) ==
  /\ pc[c] = "reference" /\ ReferenceWritable(c)
  /\ row' = [row EXCEPT !.ref = held[c]]
  /\ GoTo(c, "complete")
  /\ UNCHANGED <<escrow, fref, reclaimed, rejections, held, chain>>

ReferenceLost(c) ==
  /\ pc[c] = "reference" /\ ~ReferenceWritable(c)
  /\ Leave(c)
  /\ UNCHANGED <<journal, rejections, chain>>

\* complete_fulfillment, first transaction: bind_settlement_fulfillment.
Bindable(c) == IF fref = 0 THEN ~reclaimed ELSE fref = held[c]

Bind(c) ==
  /\ pc[c] = "complete" /\ Bindable(c)
  /\ fref' = held[c]
  /\ GoTo(c, "finish")
  /\ UNCHANGED <<escrow, row, reclaimed, rejections, held, chain>>

\* Mutant: a refused bind is taken for a bound one.
BindRefused_Completes(c) ==
  /\ pc[c] = "complete" /\ ~Bindable(c)
  /\ GoTo(c, "finish")
  /\ UNCHANGED <<journal, rejections, held, chain>>

BindRefused(c) ==
  /\ pc[c] = "complete" /\ ~Bindable(c)
  /\ Leave(c)
  /\ UNCHANGED <<journal, rejections, chain>>

\* complete_fulfillment, second transaction.
Finish(c) == pc[c] = "finish" /\ FinishOr(c, "succeeded")

\* clear_operation_receipt_field: only the holder withdraws a submission, and
\* never one whose reference is recorded.
Clearable(c) == Holds(c) /\ row.ref = 0

Clear(c) ==
  /\ pc[c] \in {"unsent", "refused"} /\ Clearable(c)
  /\ row' = [row EXCEPT !.sub = FALSE]
  /\ submits' = 0
  /\ GoTo(c, IF pc[c] = "refused" THEN "reject" ELSE "retry")
  /\ UNCHANGED <<escrow, fref, reclaimed, rejections, held, landed, faults>>

ClearRefused(c) ==
  /\ pc[c] \in {"unsent", "refused"} /\ ~Clearable(c)
  /\ Leave(c)
  /\ UNCHANGED <<journal, rejections, chain>>

\* Mutant: rejections are counted but never parked.
CountRejection_NeverParks(c) ==
  /\ pc[c] = "reject"
  /\ rejections' = rejections + 1
  /\ GoTo(c, "retry")
  /\ UNCHANGED <<journal, held, chain>>

\* record_bare_metal_evidence_rejection, and the bound on rejections.
CountRejection(c) ==
  /\ pc[c] = "reject"
  /\ rejections' = IF rejections < RejectionBound THEN rejections + 1 ELSE rejections
  /\ GoTo(c, IF rejections + 1 >= RejectionBound THEN "park" ELSE "retry")
  /\ UNCHANGED <<journal, held, chain>>

Retry(c) == pc[c] = "retry" /\ FinishOr(c, "pending")

\* Mutant: an unknown outcome is released for retry instead of parked.
Park_Retries(c) == pc[c] = "park" /\ FinishOr(c, "pending")

Park(c) == pc[c] = "park" /\ FinishOr(c, "manual_required")

-----------------------------------------------------------------------------
(* The environment.                                                        *)

Running(w) == {c \in Callers : WorkerOf[c] = w /\ pc[c] # "idle"}

\* The lease's time passes. The row keeps its owner until somebody takes over.
\* Expiring under a step that is still running is a fault.
ExpireLease ==
  /\ row.st = "in_progress" /\ row.live
  /\ IF Running(row.owner) = {} THEN UNCHANGED faults
     ELSE faults < MaxFaults /\ faults' = faults + 1
  /\ row' = [row EXCEPT !.live = FALSE]
  /\ UNCHANGED <<escrow, fref, reclaimed, rejections, pc, held, landed, submits>>

\* A status poll finds the escrow expired, failed or to be repaired by hand;
\* its row has ended then, and the escrow is not polled again.
EscrowEnds ==
  /\ escrow = "ready"
  /\ escrow' = "ended"
  /\ UNCHANGED <<row, fref, reclaimed, rejections, pc, held, chain>>

\* The payer's reclaim reservation: refused once a fulfillment is bound, or
\* while a fulfillment lease is live.
Reclaim ==
  /\ ~reclaimed
  /\ fref = 0
  /\ ~(row.st = "in_progress" /\ row.live)
  /\ reclaimed' = TRUE
  /\ UNCHANGED <<escrow, row, fref, rejections, pc, held, chain>>

\* The mechanism refuses the reclaim, or its answer is lost: it is pending, or
\* parked, and no longer keeps the claimant out.
ReclaimFails ==
  /\ reclaimed
  /\ reclaimed' = FALSE
  /\ UNCHANGED <<escrow, row, fref, rejections, pc, held, chain>>

\* A worker's process stops: every step it was running is forgotten.
Crash(w) ==
  /\ Running(w) # {}
  /\ faults < MaxFaults
  /\ faults' = faults + 1
  /\ pc' = [c \in Callers |-> IF c \in Running(w) THEN "idle" ELSE pc[c]]
  /\ held' = [c \in Callers |-> IF c \in Running(w) THEN 0 ELSE held[c]]
  /\ UNCHANGED <<journal, rejections, landed, submits>>

\* What a pass that has entered the step goes on to do.
Advance(c) ==
  \/ Load(c) \/ ReserveRefused(c) \/ Reserve(c) \/ Repair(c)
  \/ Defer(c) \/ EvidenceFailed(c) \/ RecordSubmission(c)
  \/ PublishAccepted(c) \/ PublishUnknown(c)
  \/ PublishRejected(c) \/ PublishNotSubmitted(c)
  \/ RecordReference(c) \/ ReferenceLost(c)
  \/ Bind(c) \/ BindRefused(c) \/ Finish(c)
  \/ Clear(c) \/ ClearRefused(c) \/ CountRejection(c) \/ Retry(c) \/ Park(c)

Next ==
  \/ \E c \in Callers : Enter(c) \/ Advance(c)
  \/ \E w \in Workers : Crash(w)
  \/ ExpireLease
  \/ EscrowEnds
  \/ Reclaim \/ ReclaimFails

Spec == Init /\ [][Next]_vars

\* The servicing loop comes round to an escrow that is ready, a pass goes on
\* until it ends, and a lease runs out by the clock. Nothing makes a request
\* come, an escrow end or a reclaim fail.
Fairness ==
  /\ \A c \in Timers : WF_vars(Enter(c))
  /\ \A c \in Callers : WF_vars(Advance(c))
  /\ WF_vars(ExpireLease)

FairSpec == Spec /\ Fairness

-----------------------------------------------------------------------------
(* Properties.                                                             *)

\* The journal, the callers and the chain hold values of their types.
TypeOK ==
  /\ escrow \in {"ready", "ended"}
  /\ row \in [st : RowStates, owner : Workers \cup {NoOwner}, live : BOOLEAN,
              sub : BOOLEAN, ref : Nat, awaiting : BOOLEAN]
  /\ fref \in Nat
  /\ reclaimed \in BOOLEAN
  /\ rejections \in 0 .. RejectionBound
  /\ pc \in [Callers -> Stages]
  /\ held \in [Callers -> Nat]
  /\ landed \in 0 .. MaxLanded
  /\ submits \in 0 .. 2
  /\ faults \in 0 .. MaxFaults

\* A pass that services the obligation at the same time sees it as busy: no
\* submission is sent while an earlier one under the same recorded intent has
\* no recorded outcome.
OneSubmissionPerIntent == submits <= 1

\* An operation the journal calls succeeded has its reference bound, and the
\* chain created that reference: complete_fulfillment binds before it finishes.
CompletedMeansBound == row.st = "succeeded" => fref \in 1 .. landed

\* An operation that has ended, completed or parked for an operator, and a
\* bound reference stay as they are, whatever a pass that is still under way
\* goes on to write.
OutcomeFinal ==
  [][/\ row.st \in {"succeeded", "manual_required"} => row' = row
     /\ fref # 0 => fref' = fref]_vars

\* What makes CompletedMeansBound inductive: every reference anybody holds was
\* created by the chain, and a pass that completes found or made the binding.
Completing == {"repair", "reference", "complete", "finish"}

ReferencesLanded ==
  /\ row.ref <= landed /\ fref <= landed
  /\ \A c \in Callers : held[c] <= landed
  /\ \A c \in Callers : pc[c] \in Completing => held[c] # 0
  /\ \A c \in Callers :
       pc[c] \in {"repair", "finish"} \/ (pc[c] = "loaded" /\ held[c] # 0) => fref # 0
  /\ row.st = "succeeded" => fref # 0

\* A recorded submission is not left behind while the escrow can still be
\* earned: it is withdrawn, bound, or parked for an operator, unless the escrow
\* ends or the payer reclaims first.
SubmissionResolved ==
  row.sub ~> \/ ~row.sub \/ fref # 0 \/ row.st = "manual_required"
             \/ escrow = "ended" \/ reclaimed
=============================================================================
