----------------------------- MODULE CreditDeal -----------------------------
(***************************************************************************)
(* One purchase of API credits paid through Arkhai payments: the           *)
(* storefront that verifies the payment, issues the credits and may refund *)
(* them, composed with the credits service that commits quota and grants.  *)
(*                                                                         *)
(* Sources: the storefront's payment_settlement_service.py,                *)
(* settlement_repository.py, settlement_stages.py, fulfillment_service.py  *)
(* and issuance_evidence.py, the market's settlement/fulfillment.py, and   *)
(* the service's keys_service.py with its quota ledger.                    *)
(*                                                                         *)
(* A settle of the buyer and the storefront's reconciliation run the same  *)
(* code without a common lock, and an operator's refund runs beside both,  *)
(* so that one action is one transaction or one call.  The service takes a *)
(* global lock for a whole issuance, within which the quota ledger and the *)
(* grant commit separately.  A request given up on may still be served.    *)
(***************************************************************************)
EXTENDS Naturals, FiniteSets

CONSTANTS
  Settlers,     \* requests that settle the deal and may overlap
  Reconciler,   \* the one among them that the storefront repeats by itself
  Refunders,    \* the operator's refund requests
  Nobody,       \* stands for a caller that no longer listens
  Quota,        \* how many purchases of this size the service's quota covers
  Refunds,      \* bound: refunds that operators ask for
  Faults        \* bound: lost calls, time-outs and restarts together

ASSUME CreditAssumption ==
  /\ Reconciler \in Settlers
  /\ Nobody \notin Settlers \cup Refunders
  /\ Quota \in Nat /\ Refunds \in Nat /\ Faults \in Nat

VARIABLES
  ev,       \* status of the settlement evidence, "none" before it exists
  prog,     \* status of the issuance progress, "none" before it exists
  held,     \* whether the storefront has a row for the negotiated hold
  cred,     \* the stored secret: "none", "current" or "stale" at the service
  act,      \* what each settler and refunder is doing
  key,      \* the key at the service: "absent", "active", "revoked"
  mode,     \* "new" or "existing" key
  granted,  \* whether the service has committed the grant
  used,     \* whether a new key was ever consumed from
  hold,     \* the negotiated quota hold: a reservation's state or "none"
  fresh,    \* the reservation an issuance makes for itself, likewise
  others,   \* quota that other purchases hold
  svc,      \* the issuance that holds the service's lock: [step, hold, who]
  late,     \* requests in flight whose caller gave up, by whether they name the hold
  paid,     \* the payment: "none", "held", "matured", "reversed"
  asked,    \* refunds asked for
  faults    \* faults so far

storeVars == <<ev, prog, held, cred>>
serviceVars == <<key, mode, granted, used, hold, fresh, others, svc, late>>
vars == <<storeVars, act, serviceVars, paid, asked, faults>>

Actors == Settlers \cup Refunders

Resting == [at |-> "rest", blank |-> FALSE, hold |-> FALSE, res |-> "none",
            secret |-> "none", prior |-> "none", out |-> "none"]

Idle == [step |-> "idle", hold |-> FALSE, who |-> Nobody]

\* An accepted Agreement; place_hold has reserved its quota or has not.
Init ==
  /\ ev = "none" /\ prog = "none" /\ cred = "none"
  /\ hold \in {"none", "reserved"}
  /\ held = (hold = "reserved")
  /\ act = [p \in Actors |-> Resting]
  /\ mode \in {"new", "existing"}
  /\ key = IF mode = "new" THEN "absent" ELSE "active"
  /\ granted = FALSE /\ used = FALSE
  /\ fresh = "none"
  /\ others = 0
  /\ svc = Idle /\ late = {}
  /\ paid = "none" /\ asked = 0 /\ faults = 0

Goto(p, at) == act' = [act EXCEPT ![p].at = at]
Rest(p) == act' = [act EXCEPT ![p] = Resting]

Fault == faults < Faults /\ faults' = faults + 1

-----------------------------------------------------------------------------
(* The credits service.                                                    *)

Holding == {"reserved", "leased"}

Taken == others + Cardinality({i \in {1, 2} : <<hold, fresh>>[i] \in Holding})

\* A new secret: every copy of the former one is stale.
Rotated(s) == IF s = "current" THEN "stale" ELSE s

\* The answer to the caller of an issuance, if it still waits for it: a secret
\* that the answer carries makes every other copy stale.
Reply(p, res, secret) ==
  LET aged == IF secret THEN [q \in Actors |-> [act[q] EXCEPT !.secret = Rotated(@)]]
              ELSE act
  IN act' = IF p = Nobody THEN aged
            ELSE [aged EXCEPT ![p].res = res,
                              ![p].secret = IF secret THEN "current" ELSE "none",
                              ![p].hold = @ /\ res # "pending",
                              ![p].at = CASE res = "fulfilled" -> "drop"
                                          [] res = "refused" -> "release"
                                          [] OTHER -> "record"]

\* issue, up to its quota: a prior grant is answered again, with a new secret
\* for a new key nobody has used yet (_reissue); a revoked key is refused.
Receive(p, withHold) ==
  /\ svc.step = "idle"
  /\ \/ /\ granted
        /\ LET rotate == mode = "new" /\ key = "active" /\ ~used
           IN /\ Reply(p, "fulfilled", rotate)
              /\ cred' = IF rotate THEN Rotated(cred) ELSE cred
        /\ UNCHANGED svc
     \/ /\ ~granted /\ key = "revoked"
        /\ Reply(p, "refused", FALSE)
        /\ UNCHANGED <<cred, svc>>
     \/ /\ ~granted /\ key # "revoked"
        /\ svc' = [step |-> "quota", hold |-> withHold, who |-> p]
        /\ UNCHANGED <<cred, act>>
  /\ UNCHANGED <<ev, prog, held, key, mode, granted, used, hold, fresh, others, paid, asked, faults>>

ReceiveWaiting(p) ==
  /\ act[p].at = "sent" /\ svc.who # p
  /\ Receive(p, act[p].hold)
  /\ UNCHANGED late

ReceiveLate(withHold) ==
  /\ withHold \in late
  /\ late' = late \ {withHold}
  /\ Receive(Nobody, withHold)

\* Mutant: only a reservation under the fulfillment's own id is looked up.
ReadQuota_OwnId ==
  /\ svc.step = "quota"
  /\ \/ /\ fresh \in Holding
        /\ svc' = [svc EXCEPT !.step = "commit_fresh"]
        /\ UNCHANGED <<fresh, act>>
     \/ /\ fresh \notin Holding
        /\ IF Taken < Quota
           THEN /\ fresh' = "reserved"
                /\ svc' = [svc EXCEPT !.step = "commit_fresh"]
                /\ UNCHANGED act
           ELSE /\ Reply(svc.who, "refused", FALSE)
                /\ svc' = Idle
                /\ UNCHANGED fresh
  /\ UNCHANGED <<storeVars, key, mode, granted, used, hold, others, late, paid, asked, faults>>

\* _commit_quota up to a commit: the reservation under the fulfillment's id,
\* else the hold the request names, else a fresh reservation if quota is left.
ReadQuota ==
  /\ svc.step = "quota"
  /\ \/ /\ fresh \in Holding
        /\ svc' = [svc EXCEPT !.step = "commit_fresh"]
        /\ UNCHANGED <<fresh, act>>
     \/ /\ fresh \notin Holding /\ svc.hold /\ hold \in Holding
        /\ svc' = [svc EXCEPT !.step = "commit_hold"]
        /\ UNCHANGED <<fresh, act>>
     \/ /\ fresh \notin Holding /\ ~(svc.hold /\ hold \in Holding)
        /\ IF Taken < Quota
           THEN /\ fresh' = "reserved"
                /\ svc' = [svc EXCEPT !.step = "commit_fresh"]
                /\ UNCHANGED act
           ELSE /\ Reply(svc.who, "refused", FALSE)
                /\ svc' = Idle
                /\ UNCHANGED fresh
  /\ UNCHANGED <<storeVars, key, mode, granted, used, hold, others, late, paid, asked, faults>>

\* ledger.commit of the reservation that was read.  A hold that lapsed or was
\* released since is a conflict, which the service answers with an error.
CommitQuota ==
  /\ \/ /\ svc.step = "commit_fresh"
        /\ fresh' = "leased"
        /\ svc' = [svc EXCEPT !.step = "grant"]
        /\ UNCHANGED <<hold, act>>
     \/ /\ svc.step = "commit_hold" /\ hold \in Holding
        /\ hold' = "leased"
        /\ svc' = [svc EXCEPT !.step = "grant"]
        /\ UNCHANGED <<fresh, act>>
     \/ /\ svc.step = "commit_hold" /\ hold \notin Holding
        /\ Reply(svc.who, "pending", FALSE)
        /\ svc' = Idle
        /\ UNCHANGED <<hold, fresh>>
  /\ UNCHANGED <<storeVars, key, mode, granted, used, others, late, paid, asked, faults>>

\* The grant, its balance and a new key, in one transaction.
Grant ==
  /\ svc.step = "grant"
  /\ granted' = TRUE
  /\ key' = "active"
  /\ Reply(svc.who, "fulfilled", mode = "new")
  /\ svc' = Idle
  /\ UNCHANGED <<storeVars, mode, used, hold, fresh, others, late, paid, asked, faults>>

\* The service stops within an issuance.
ServiceStops ==
  /\ svc.step # "idle"
  /\ Fault
  /\ Reply(svc.who, "pending", FALSE)
  /\ svc' = Idle
  /\ UNCHANGED <<storeVars, key, mode, granted, used, hold, fresh, others, late, paid, asked>>

\* _expire_stale_holds, by any call of the ledger or its watchdog.
HoldLapses ==
  /\ hold = "reserved"
  /\ hold' = "released"
  /\ UNCHANGED <<storeVars, act, key, mode, granted, used, fresh, others, svc, late, paid, asked, faults>>

\* revoke and consume take the lock that issuances take.
Revoke ==
  /\ svc.step = "idle" /\ key = "active"
  /\ key' = "revoked"
  /\ UNCHANGED <<storeVars, act, mode, granted, used, hold, fresh, others, svc, late, paid, asked, faults>>

\* The first use of a new key, which only a secret the service accepts allows.
Consume ==
  /\ svc.step = "idle" /\ key = "active"
  /\ mode = "new" /\ cred = "current"
  /\ used' = TRUE
  /\ UNCHANGED <<storeVars, act, key, mode, granted, hold, fresh, others, svc, late, paid, asked, faults>>

OthersTakeOrLeave ==
  /\ \/ Taken < Quota /\ others' = others + 1
     \/ others > 0 /\ others' = others - 1
  /\ UNCHANGED <<storeVars, act, key, mode, granted, used, hold, fresh, svc, late, paid, asked, faults>>

ServiceStep ==
  \/ \E p \in Settlers : ReceiveWaiting(p)
  \/ \E h \in BOOLEAN : ReceiveLate(h)
  \/ ReadQuota \/ CommitQuota \/ Grant \/ ServiceStops
  \/ HoldLapses \/ Revoke \/ Consume \/ OthersTakeOrLeave

-----------------------------------------------------------------------------
(* Settling at the storefront.                                             *)

\* Mutant: a refund left half done is not an open deal.
Unsettled_Refunding ==
  \/ ev = "none"
  \/ ev = "verified" /\ prog \in {"none", "provisioning"}

\* Mutant: a deal whose delivery began is left to its buyer.
Unsettled_Begun ==
  \/ ev \in {"none", "refunding"}
  \/ ev = "verified" /\ prog = "none"

\* unsettled_negotiations, and where settle does not return at once.
Unsettled ==
  \/ ev \in {"none", "refunding"}
  \/ ev = "verified" /\ prog \in {"none", "provisioning"}

\* settle: the reads it decides upon.
Begin(p) ==
  /\ act[p].at = "rest" /\ Unsettled
  /\ act' = [act EXCEPT ![p] =
               [Resting EXCEPT !.at = CASE ev = "none" -> "receipt"
                                        [] ev = "refunding" -> "intent"
                                        [] OTHER -> "progress",
                               !.blank = (prog = "none")]]
  /\ UNCHANGED <<storeVars, serviceVars, paid, asked, faults>>

\* _verified_evidence: a verified receipt is stored; evidence that a refund
\* moved meanwhile does not change, and the request ends in a conflict.
Receipt(p) ==
  /\ act[p].at = "receipt"
  /\ IF paid = "none" \/ ev \in {"refunding", "refunded"}
     THEN Rest(p) /\ UNCHANGED ev
     ELSE /\ ev' = "verified"
          /\ Goto(p, IF p \in Settlers THEN "progress" ELSE "intent")
  /\ UNCHANGED <<prog, held, cred, serviceVars, paid, asked, faults>>

\* The payments service cannot be reached or needs its operator, while the
\* receipt is checked or, before any progress, in deposit_if_advertised: the
\* request ends and leaves the deal as it is.  That the receipt of a payment
\* never verifies at all is left out.
PaymentsUnavailable(p) ==
  /\ act[p].at \in {"receipt", "progress"}
  /\ Fault
  /\ Rest(p)
  /\ UNCHANGED <<storeVars, serviceVars, paid, asked>>

\* The first progress, written by a settle that read none, over whatever
\* another settle has recorded since.
Progress(p) ==
  /\ act[p].at = "progress"
  /\ prog' = IF act[p].blank THEN "provisioning" ELSE prog
  /\ act' = [act EXCEPT ![p] = [Resting EXCEPT !.at = "claim"]]
  /\ UNCHANGED <<ev, held, cred, serviceVars, paid, asked, faults>>

\* Mutant: a delivery may start whatever became of the evidence.
ClaimDeliveryStart_Any(p) ==
  /\ act[p].at = "claim"
  /\ Goto(p, "send")
  /\ UNCHANGED <<storeVars, serviceVars, paid, asked, faults>>

\* claim_delivery_start: only while the evidence is verified.
ClaimDeliveryStart(p) ==
  /\ act[p].at = "claim"
  /\ IF ev = "verified" THEN Goto(p, "send") ELSE Rest(p)
  /\ UNCHANGED <<storeVars, serviceVars, paid, asked, faults>>

\* submit_credit_issuance, naming the hold if the storefront still has it.
Send(p) ==
  /\ act[p].at = "send"
  /\ act' = [act EXCEPT ![p].at = "sent", ![p].hold = held]
  /\ UNCHANGED <<storeVars, serviceVars, paid, asked, faults>>

\* Messages whose callers stop waiting, and an issuance that goes on for nobody.
GiveUp(S) ==
  /\ late' = late \cup {act[p].hold : p \in {q \in S : act[q].at = "sent" /\ svc.who # q}}
  /\ svc' = IF svc.who \in S THEN [svc EXCEPT !.who = Nobody] ELSE svc

\* No answer in time: the outcome is uncertain and stays retryable.
Timeout(p) ==
  /\ act[p].at = "sent"
  /\ Fault
  /\ GiveUp({p})
  /\ act' = [act EXCEPT ![p] = [Resting EXCEPT !.at = "record", !.res = "pending"]]
  /\ UNCHANGED <<storeVars, key, mode, granted, used, hold, fresh, others, paid, asked>>

\* Mutant: the policy gives back every reservation of the deal.
ReleaseCapacity_All(p) ==
  /\ act[p].at = "release"
  /\ hold' = IF hold \in Holding THEN "released" ELSE hold
  /\ fresh' = IF fresh \in Holding THEN "released" ELSE fresh
  /\ Goto(p, "refund")
  /\ UNCHANGED <<storeVars, key, mode, granted, used, others, svc, late, paid, asked, faults>>

\* The failure policy's release_capacity: the ledger finds a reservation by its
\* id only.  An error is recorded, and the next action runs.
ReleaseCapacity(p) ==
  /\ act[p].at = "release"
  /\ Goto(p, "refund")
  /\ \/ /\ hold' = IF act[p].hold /\ hold \in Holding THEN "released" ELSE hold
        /\ UNCHANGED faults
     \/ Fault /\ UNCHANGED hold
  /\ UNCHANGED <<storeVars, key, mode, granted, used, fresh, others, svc, late, paid, asked>>

\* The policy's refund, where the seller has configured it or has not:
\* refund_before_delivery up to its intent.
RefundBeforeDelivery(p) ==
  /\ act[p].at = "refund"
  /\ \/ Goto(p, "drop")
     \/ ev # "refunded" /\ prog # "ready" /\ Goto(p, "intent")
  /\ UNCHANGED <<storeVars, serviceVars, paid, asked, faults>>

\* delete_capacity_hold, after an answer that is certain.
DropHold(p) ==
  /\ act[p].at = "drop"
  /\ held' = IF act[p].hold THEN FALSE ELSE held
  /\ act' = [act EXCEPT ![p].at = "record", ![p].hold = FALSE]
  /\ UNCHANGED <<ev, prog, cred, serviceVars, paid, asked, faults>>

\* The evidence is read again, and beside a refund only issued credits are
\* recorded.  persist_delivery stores the secret first, if there is one; only
\* issued credits have one, so that the read and the store are one step.
StoreSecret(p) ==
  /\ act[p].at = "record"
  /\ IF act[p].res = "fulfilled" \/ ev = "verified"
     THEN act' = [act EXCEPT ![p] = [Resting EXCEPT !.at = "write", !.res = act[p].res]]
     ELSE Rest(p)
  /\ cred' = IF act[p].secret = "none" THEN cred ELSE act[p].secret
  /\ UNCHANGED <<ev, prog, held, serviceVars, paid, asked, faults>>

\* persist_delivery's progress, over whatever is recorded.
WriteProgress(p) ==
  /\ act[p].at = "write"
  /\ prog' = CASE act[p].res = "fulfilled" -> "ready"
               [] act[p].res = "pending" -> "provisioning"
               [] OTHER -> "failed"
  /\ Rest(p)
  /\ UNCHANGED <<ev, held, cred, serviceVars, paid, asked, faults>>

-----------------------------------------------------------------------------
(* Refunding.                                                              *)

\* refund, at an operator's request.
RequestRefund(p) ==
  /\ act[p].at = "rest" /\ asked < Refunds /\ ev # "refunded"
  /\ asked' = asked + 1
  /\ Goto(p, IF ev = "none" THEN "receipt" ELSE "intent")
  /\ UNCHANGED <<storeVars, serviceVars, paid, faults>>

\* Where a refund returns to: the failure policy goes on, a request ends.
EndRefund(p) ==
  IF act[p].res = "refused"
  THEN act' = [act EXCEPT ![p].at = "drop", ![p].prior = "none", ![p].out = "none"]
  ELSE Rest(p)

\* record_refund_intent, which returns the status it found.
RecordRefundIntent(p) ==
  /\ act[p].at = "intent"
  /\ IF ev = "refunded"
     THEN EndRefund(p) /\ UNCHANGED ev
     ELSE /\ ev' = "refunding"
          /\ act' = [act EXCEPT ![p].at = "reverse", ![p].prior = ev]
  /\ UNCHANGED <<prog, held, cred, serviceVars, paid, asked, faults>>

\* reverse_now: a held payment is reversed, and so is one whose reversal was
\* answered already; an answer that is lost asserts nothing.
Reverse(p) ==
  /\ act[p].at = "reverse"
  /\ paid' = IF paid = "held" THEN "reversed" ELSE paid
  /\ \/ /\ act' = [act EXCEPT ![p].at = "conclude",
                              ![p].out = IF paid = "matured" THEN "nothing" ELSE "refunded"]
        /\ UNCHANGED faults
     \/ Fault /\ EndRefund(p)
  /\ UNCHANGED <<storeVars, serviceVars, asked>>

\* complete_refund, or abandon_refund_intent of an intent found verified.
Conclude(p) ==
  /\ act[p].at = "conclude"
  /\ ev' = CASE ev = "refunding" /\ act[p].out = "refunded" -> "refunded"
             [] ev = "refunding" /\ act[p].out = "nothing" /\ act[p].prior = "verified" -> "verified"
             [] OTHER -> ev
  /\ EndRefund(p)
  /\ UNCHANGED <<prog, held, cred, serviceVars, paid, asked, faults>>

\* The buyer pays, and the payment matures out of the seller's reach.
Pay ==
  /\ \/ paid = "none" /\ paid' = "held"
     \/ paid = "held" /\ paid' = "matured"
  /\ UNCHANGED <<storeVars, act, serviceVars, asked, faults>>

\* The storefront restarts; its requests at the service may still be served.
Restart ==
  /\ Fault
  /\ GiveUp(Settlers)
  /\ act' = [p \in Actors |-> Resting]
  /\ UNCHANGED <<storeVars, key, mode, granted, used, hold, fresh, others, paid, asked>>

Continue(p) ==
  \/ Receipt(p) \/ Progress(p) \/ ClaimDeliveryStart(p) \/ Send(p)
  \/ ReleaseCapacity(p) \/ RefundBeforeDelivery(p) \/ DropHold(p)
  \/ StoreSecret(p) \/ WriteProgress(p)
  \/ RecordRefundIntent(p) \/ Reverse(p) \/ Conclude(p)

Next ==
  \/ ServiceStep
  \/ \E p \in Settlers : Begin(p) \/ Timeout(p)
  \/ \E p \in Refunders : RequestRefund(p)
  \/ \E p \in Actors : Continue(p) \/ PaymentsUnavailable(p)
  \/ Pay
  \/ Restart

SafeSpec == Init /\ [][Next]_vars

\* The storefront repeats its reconciliation for ever, requests go on until
\* they end, and the service serves the requests that wait for it.
Fairness ==
  /\ WF_vars(Begin(Reconciler))
  /\ \A p \in Actors : WF_vars(Continue(p))
  /\ \A p \in Settlers : SF_vars(ReceiveWaiting(p))
  /\ WF_vars(ReadQuota \/ CommitQuota \/ Grant)

Spec == SafeSpec /\ Fairness

-----------------------------------------------------------------------------
(* Properties.                                                             *)

\* What a settler or refunder remembers between two of its steps.
ActorState ==
  [at : {"rest", "receipt", "progress", "claim", "send", "sent", "release", "refund",
         "drop", "record", "write", "intent", "reverse", "conclude"},
   blank : BOOLEAN, hold : BOOLEAN,
   res : {"none", "fulfilled", "pending", "refused"},
   secret : {"none", "current", "stale"},
   prior : {"none", "verified", "refunding"},
   out : {"none", "refunded", "nothing"}]

\* An issuance that has the service's lock.
ServiceState ==
  [step : {"idle", "quota", "commit_fresh", "commit_hold", "grant"},
   hold : BOOLEAN, who : Settlers \cup {Nobody}]

\* Type correctness.
CreditTypeOK ==
  /\ ev \in {"none", "verified", "refunding", "refunded"}
  /\ prog \in {"none", "provisioning", "ready", "failed"}
  /\ held \in BOOLEAN
  /\ cred \in {"none", "current", "stale"}
  /\ act \in [Actors -> ActorState]
  /\ key \in {"absent", "active", "revoked"}
  /\ mode \in {"new", "existing"}
  /\ granted \in BOOLEAN /\ used \in BOOLEAN
  /\ hold \in Holding \cup {"none", "released"}
  /\ fresh \in Holding \cup {"none"}
  /\ others \in Nat
  /\ svc \in ServiceState
  /\ late \subseteq BOOLEAN
  /\ paid \in {"none", "held", "matured", "reversed"}
  /\ asked \in 0 .. Refunds
  /\ faults \in 0 .. Faults

\* A purchase takes its quota once: an issuance retried after the hold lapsed,
\* after the service stopped half way or after the storefront dropped its row
\* never holds a second reservation beside the first (_commit_quota).
QuotaOnce == ~(hold \in Holding /\ fresh \in Holding)

\* Granted credits are backed by committed quota for good: a failure policy that
\* gives capacity back, run for an attempt that was refused, never gives back
\* what another attempt was granted against.
GrantBacked == granted => hold = "leased" \/ fresh = "leased"

\* An issuance is under way, or may yet be.
Delivering ==
  \/ svc.step # "idle" \/ late # {}
  \/ \E p \in Settlers : act[p].at \in {"send", "sent"}

\* The deal is being refunded, and nothing that could issue credits is left.
ClosedByRefund == ev \in {"refunding", "refunded"} /\ ~Delivering

\* "once refund intent is recorded no delivery can start"
\* (settlement_repository.claim_delivery_start): when the deliveries under way
\* at that moment have ended, no credits are issued any more, unless the refund
\* is abandoned.
RefundCloses ==
  [][ClosedByRefund => (ClosedByRefund' \/ ev' = "verified") /\ granted' = granted]_vars

\* A deal that is paid for comes to an end without its buyer: credits issued or
\* refused, or the payment refunded.  The exception is a refund whose process
\* stopped after its intent and whose payment matured: what is found refunding
\* is never abandoned, and the deal stays refunding.
DealSettles ==
  paid = "held" ~>
    (prog \in {"ready", "failed"} \/ ev = "refunded" \/ (ev = "refunding" /\ paid = "matured"))

\* A refund that was begun is completed or abandoned, with the same exception.
RefundEnds ==
  ev = "refunding" ~> (ev # "refunding" \/ paid = "matured")

\* openspec/specs/api-credits/spec.md: credentials are stored for the buyer to
\* retrieve.  When a purchase of a new key is ready and nothing is in flight,
\* the secret that is stored is the one the service accepts.
CredentialsWork ==
  (/\ prog = "ready" /\ ev = "verified" /\ mode = "new"
   /\ \A p \in Actors : act[p].at = "rest"
   /\ ~Delivering) => cred = "current"

=============================================================================
