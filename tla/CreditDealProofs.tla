-------------------------- MODULE CreditDealProofs --------------------------
(***************************************************************************)
(* Proofs about the purchase of API credits, for every set of settlers and *)
(* refunders, every quota and every number of faults and refunds.          *)
(***************************************************************************)
EXTENDS CreditDeal, TLAPS

-----------------------------------------------------------------------------
(* The inductive invariant.                                                *)

\* The negotiated hold is not needed for a new reservation to be safe: it holds
\* nothing any more, or no issuance will take quota again.
Gone == hold \notin Holding \/ key = "revoked" \/ granted

\* Giving the hold back harms nobody: it holds nothing, or nothing was granted
\* and the revoked key keeps it so.
Barred == hold \notin Holding \/ (key = "revoked" /\ ~granted)

\* Whoever does not name the hold may do without it.
UnnamedGone ==
  /\ ~held => Gone
  /\ FALSE \in late => Gone
  /\ svc.step # "idle" /\ ~svc.hold => Gone
  /\ \A p \in Actors : act[p].at = "sent" /\ ~act[p].hold => Gone

\* The answer an actor has is certain.
Answered(a) == a.at \in {"release", "refund", "drop"} \/ a.res = "refused"

\* So may whoever has such an answer.
AnsweredGone == \A p \in Actors : Answered(act[p]) => Gone

\* A failure policy about to give the hold back was refused for a lasting reason.
RefusedBarred == \A p \in Actors : act[p].at = "release" /\ act[p].hold => Barred

\* What the issuance that has the service's lock relies on.
ServiceLocked ==
  /\ svc.step = "idle" => svc.who = Nobody
  /\ svc.step # "idle" => ~granted /\ key # "revoked"
  /\ svc.who # Nobody => act[svc.who].at = "sent" /\ act[svc.who].hold = svc.hold
  /\ svc.step = "commit_fresh" => fresh \in Holding
  /\ svc.step = "grant" => hold = "leased" \/ fresh = "leased"

CreditSafe ==
  /\ QuotaOnce
  /\ GrantBacked
  /\ UnnamedGone
  /\ AnsweredGone
  /\ RefusedBarred
  /\ ServiceLocked

CreditInv == CreditTypeOK /\ CreditSafe

-----------------------------------------------------------------------------
(* Type correctness.                                                       *)

\* The answer to an issuance: the caller that waits is moved on, and of the
\* others only the age of a secret changes.
LEMMA ReplyFacts ==
  ASSUME act \in [Actors -> ActorState], NEW p \in Settlers \cup {Nobody},
         NEW res \in {"fulfilled", "pending", "refused"}, NEW secret \in BOOLEAN,
         Reply(p, res, secret)
  PROVE  /\ act' \in [Actors -> ActorState]
         /\ \A q \in Actors : q # p => /\ act'[q].at = act[q].at
                                       /\ act'[q].hold = act[q].hold
                                       /\ act'[q].res = act[q].res
         /\ p # Nobody => /\ act'[p].res = res
                          /\ act'[p].hold => act[p].hold
                          /\ act'[p].at = CASE res = "fulfilled" -> "drop"
                                            [] res = "refused" -> "release"
                                            [] OTHER -> "record"
<1> DEFINE aged == IF secret THEN [q \in Actors |-> [act[q] EXCEPT !.secret = Rotated(@)]]
                   ELSE act
<1>1. \A q \in Actors : /\ aged[q] \in ActorState
                        /\ aged[q].at = act[q].at
                        /\ aged[q].hold = act[q].hold
                        /\ aged[q].res = act[q].res
  <2> SUFFICES ASSUME NEW q \in Actors
               PROVE  /\ aged[q] \in ActorState
                      /\ aged[q].at = act[q].at
                      /\ aged[q].hold = act[q].hold
                      /\ aged[q].res = act[q].res
    OBVIOUS
  <2>1. act[q] \in ActorState
    OBVIOUS
  <2>2. act[q].secret \in {"none", "current", "stale"}
    BY <2>1 DEF ActorState
  <2>3. [act[q] EXCEPT !.secret = Rotated(@)] \in ActorState
    BY <2>1, <2>2 DEF ActorState, Rotated
  <2> QED
    BY <2>1, <2>3 DEF ActorState
<1>2. aged \in [Actors -> ActorState]
  <2>1. DOMAIN aged = Actors /\ aged = [q \in Actors |-> aged[q]]
    OBVIOUS
  <2> QED
    BY <1>1, <2>1
<1> HIDE DEF aged
<1>3. CASE p = Nobody
  <2>1. act' = aged
    BY <1>3 DEF Reply, aged
  <2> QED
    BY <1>1, <1>2, <1>3, <2>1
<1>4. CASE p # Nobody
  <2>1. p \in Actors /\ aged[p] \in ActorState
    BY <1>1, <1>4 DEF Actors
  <2> DEFINE next == CASE res = "fulfilled" -> "drop"
                       [] res = "refused" -> "release"
                       [] OTHER -> "record"
             new == [aged[p] EXCEPT !.res = res,
                                    !.secret = IF secret THEN "current" ELSE "none",
                                    !.hold = @ /\ res # "pending",
                                    !.at = next]
  <2>2. act' = [aged EXCEPT ![p] = new]
    BY <1>4 DEF Reply, aged
  <2>3. new \in ActorState /\ new.res = res /\ new.at = next /\ (new.hold => aged[p].hold)
    BY <2>1 DEF ActorState
  <2> HIDE DEF new, next
  <2>4. act'[p] = new /\ \A q \in Actors : q # p => act'[q] = aged[q]
    BY <1>2, <2>1, <2>2
  <2>5. act' \in [Actors -> ActorState]
    BY <1>2, <2>1, <2>2, <2>3
  <2> QED
    BY <1>1, <2>1, <2>3, <2>4, <2>5 DEF next
<1> QED
  BY <1>3, <1>4

\* The steps, grouped by what they do to what the actors remember.
OneActorStep(p) == Begin(p) \/ RequestRefund(p) \/ Continue(p) \/ PaymentsUnavailable(p)

EnvironmentStep == HoldLapses \/ Revoke \/ Consume \/ OthersTakeOrLeave \/ Pay

\* A step is one of an actor, of the service, of the network or a restart.
LEMMA NextCases ==
  ASSUME Next
  PROVE  \/ \E p \in Actors : OneActorStep(p)
         \/ \E p \in Settlers : Timeout(p)
         \/ \E p \in Settlers : ReceiveWaiting(p)
         \/ \E h \in BOOLEAN : ReceiveLate(h)
         \/ ReadQuota \/ CommitQuota \/ Grant \/ ServiceStops
         \/ EnvironmentStep
         \/ Restart
BY Zenon DEF Next, ServiceStep, OneActorStep, EnvironmentStep, Actors

\* A resting actor is an actor.
LEMMA RestingTyped == Resting \in ActorState
BY DEF Resting, ActorState

\* A step of one actor changes that actor's memory only, and keeps the types.
LEMMA ActorStepTyped ==
  ASSUME CreditTypeOK, NEW p \in Actors, OneActorStep(p) \/ Timeout(p)
  PROVE  /\ act'[p] \in ActorState
         /\ act' = [act EXCEPT ![p] = act'[p]]
<1>1. act \in [Actors -> ActorState] /\ act[p] \in ActorState
  BY DEF CreditTypeOK
<1>2. ev \in {"none", "verified", "refunding", "refunded"}
  BY DEF CreditTypeOK
<1>3. held \in BOOLEAN
  BY DEF CreditTypeOK
<1>a. CASE Begin(p)
  BY <1>a, <1>1, RestingTyped DEF Begin, Resting, ActorState
<1>b. CASE Timeout(p)
  BY <1>b, <1>1 DEF Timeout, Resting, ActorState
<1>c. CASE RequestRefund(p)
  BY <1>c, <1>1 DEF RequestRefund, Goto, ActorState
<1>d. CASE Receipt(p)
  BY <1>d, <1>1, RestingTyped DEF Receipt, Goto, Rest, ActorState
<1>u. CASE PaymentsUnavailable(p)
  BY <1>u, <1>1, RestingTyped DEF PaymentsUnavailable, Rest
<1>e. CASE Progress(p)
  BY <1>e, <1>1 DEF Progress, Resting, ActorState
<1>f. CASE ClaimDeliveryStart(p)
  BY <1>f, <1>1, RestingTyped DEF ClaimDeliveryStart, Goto, Rest, ActorState
<1>g. CASE Send(p)
  BY <1>g, <1>1, <1>3 DEF Send, ActorState
<1>h. CASE ReleaseCapacity(p)
  BY <1>h, <1>1 DEF ReleaseCapacity, Goto, ActorState
<1>i. CASE RefundBeforeDelivery(p)
  BY <1>i, <1>1 DEF RefundBeforeDelivery, Goto, ActorState
<1>j. CASE DropHold(p)
  BY <1>j, <1>1 DEF DropHold, ActorState
<1>k. CASE StoreSecret(p)
  <2> DEFINE row == [Resting EXCEPT !.at = "write", !.res = act[p].res]
  <2>1. row \in ActorState
    BY <1>1 DEF Resting, ActorState
  <2>2. act' = [act EXCEPT ![p] = row] \/ act' = [act EXCEPT ![p] = Resting]
    BY <1>k DEF StoreSecret, Rest
  <2> QED
    BY <1>1, <2>1, <2>2, RestingTyped
<1>l. CASE WriteProgress(p)
  BY <1>l, <1>1, RestingTyped DEF WriteProgress, Rest
<1>m. CASE RecordRefundIntent(p)
  BY <1>m, <1>1, <1>2, RestingTyped DEF RecordRefundIntent, EndRefund, Rest, ActorState
<1>n. CASE Reverse(p)
  BY <1>n, <1>1, RestingTyped DEF Reverse, EndRefund, Rest, ActorState
<1>o. CASE Conclude(p)
  BY <1>o, <1>1, RestingTyped DEF Conclude, EndRefund, Rest, ActorState
<1> QED
  BY <1>a, <1>b, <1>c, <1>d, <1>u, <1>e, <1>f, <1>g, <1>h, <1>i, <1>j, <1>k, <1>l, <1>m, <1>n, <1>o
     DEF OneActorStep, Continue

\* Every step keeps what the actors remember well-formed.
LEMMA ActStep ==
  ASSUME CreditTypeOK, Next
  PROVE  act' \in [Actors -> ActorState]
<1>1. act \in [Actors -> ActorState] /\ svc.who \in Settlers \cup {Nobody}
  BY DEF CreditTypeOK, ServiceState
<1>a. ASSUME NEW p \in Actors, OneActorStep(p) \/ Timeout(p)
      PROVE  act' \in [Actors -> ActorState]
  BY <1>a, <1>1, ActorStepTyped
<1>b. ASSUME NEW p \in Settlers \cup {Nobody}, NEW h, Receive(p, h)
      PROVE  act' \in [Actors -> ActorState]
  <2> DEFINE rotate == mode = "new" /\ key = "active" /\ ~used
  <2>1. Reply(p, "fulfilled", rotate) \/ Reply(p, "refused", FALSE) \/ act' = act
    BY <1>b DEF Receive
  <2>2. rotate \in BOOLEAN
    OBVIOUS
  <2> HIDE DEF rotate
  <2> QED
    BY <1>1, <2>1, <2>2, ReplyFacts
<1>c. CASE \E p \in Settlers : ReceiveWaiting(p)
  BY <1>b, <1>c DEF ReceiveWaiting
<1>d. CASE \E h \in BOOLEAN : ReceiveLate(h)
  BY <1>b, <1>d DEF ReceiveLate
<1>e. CASE ReadQuota
  <2>1. act' = act \/ Reply(svc.who, "refused", FALSE)
    BY <1>e DEF ReadQuota
  <2> QED
    BY <1>1, <2>1, ReplyFacts
<1>f. CASE CommitQuota
  <2>1. act' = act \/ Reply(svc.who, "pending", FALSE)
    BY <1>f DEF CommitQuota
  <2> QED
    BY <1>1, <2>1, ReplyFacts
<1>g. CASE Grant
  <2>1. Reply(svc.who, "fulfilled", mode = "new") /\ (mode = "new") \in BOOLEAN
    BY <1>g DEF Grant
  <2> QED
    BY <1>1, <2>1, ReplyFacts
<1>h. CASE ServiceStops
  BY <1>h, <1>1, ReplyFacts DEF ServiceStops
<1>i. CASE EnvironmentStep
  BY <1>i, <1>1 DEF EnvironmentStep, HoldLapses, Revoke, Consume, OthersTakeOrLeave, Pay, vars
<1>j. CASE Restart
  BY <1>j, RestingTyped DEF Restart
<1> QED
  BY <1>a, <1>c, <1>d, <1>e, <1>f, <1>g, <1>h, <1>i, <1>j, NextCases DEF Actors

\* Everything but the actors' memory, of which the types are ActStep's.
RowsTyped ==
  /\ ev \in {"none", "verified", "refunding", "refunded"}
  /\ prog \in {"none", "provisioning", "ready", "failed"}
  /\ held \in BOOLEAN
  /\ cred \in {"none", "current", "stale"}
  /\ key \in {"absent", "active", "revoked"}
  /\ mode \in {"new", "existing"}
  /\ granted \in BOOLEAN /\ used \in BOOLEAN
  /\ hold \in Holding \cup {"none", "released"}
  /\ fresh \in Holding \cup {"none"}
  /\ others \in Nat
  /\ svc \in ServiceState
  /\ late \subseteq BOOLEAN
  /\ paid \in {"none", "held", "matured", "reversed"}
  /\ asked \in 0 .. Refunds
  /\ faults \in 0 .. Faults

\* Every step keeps the types.
LEMMA TypeStep ==
  ASSUME CreditTypeOK, [Next]_vars
  PROVE  CreditTypeOK'
<1> USE CreditAssumption
<1>0. RowsTyped /\ Idle \in ServiceState
  BY DEF CreditTypeOK, RowsTyped, Idle, ServiceState
<1>1. \A p \in Actors : act[p] \in ActorState
  BY DEF CreditTypeOK
<1>2. ASSUME NEW p \in Actors, OneActorStep(p) \/ Timeout(p)
      PROVE  RowsTyped'
  <2>1. /\ act[p].hold \in BOOLEAN
        /\ act[p].secret \in {"none", "current", "stale"}
    BY <1>1 DEF ActorState
  <2>a. CASE Begin(p)
    BY <2>a, <1>0 DEF Begin, RowsTyped, storeVars, serviceVars
  <2>b. CASE Timeout(p)
    <3>1. late' \subseteq BOOLEAN
      BY <2>b, <1>0, <1>1, <2>1 DEF Timeout, GiveUp, RowsTyped
    <3>2. svc' = svc \/ svc' = [svc EXCEPT !.who = Nobody]
      BY <2>b DEF Timeout, GiveUp
    <3>3. svc' \in ServiceState
      BY <1>0, <3>2 DEF RowsTyped, ServiceState
    <3> QED
      BY <2>b, <1>0, <3>1, <3>3 DEF Timeout, Fault, RowsTyped, storeVars
  <2>c. CASE RequestRefund(p)
    BY <2>c, <1>0 DEF RequestRefund, RowsTyped, storeVars, serviceVars
  <2>d. CASE Receipt(p)
    BY <2>d, <1>0 DEF Receipt, RowsTyped, serviceVars
  <2>u. CASE PaymentsUnavailable(p)
    BY <2>u, <1>0 DEF PaymentsUnavailable, Fault, RowsTyped, storeVars, serviceVars
  <2>e. CASE Progress(p)
    BY <2>e, <1>0 DEF Progress, RowsTyped, serviceVars
  <2>f. CASE ClaimDeliveryStart(p) \/ Send(p) \/ RefundBeforeDelivery(p)
    BY <2>f, <1>0
       DEF ClaimDeliveryStart, Send, RefundBeforeDelivery, RowsTyped, storeVars, serviceVars
  <2>g. CASE ReleaseCapacity(p)
    BY <2>g, <1>0 DEF ReleaseCapacity, Fault, RowsTyped, storeVars
  <2>h. CASE DropHold(p)
    <3>1. held' = FALSE \/ held' = held
      BY <2>h DEF DropHold
    <3>2. held' \in BOOLEAN
      BY <1>0, <3>1 DEF RowsTyped
    <3>3. UNCHANGED <<ev, prog, cred, serviceVars, paid, asked, faults>>
      BY <2>h DEF DropHold
    <3> QED
      BY <1>0, <3>2, <3>3 DEF RowsTyped, serviceVars
  <2>i. CASE StoreSecret(p)
    BY <2>i, <2>1, <1>0 DEF StoreSecret, RowsTyped, serviceVars
  <2>j. CASE WriteProgress(p)
    BY <2>j, <1>0 DEF WriteProgress, RowsTyped, serviceVars
  <2>k. CASE RecordRefundIntent(p)
    BY <2>k, <1>0 DEF RecordRefundIntent, RowsTyped, serviceVars
  <2>l. CASE Reverse(p)
    BY <2>l, <1>0 DEF Reverse, Fault, RowsTyped, storeVars, serviceVars
  <2>m. CASE Conclude(p)
    BY <2>m, <1>0 DEF Conclude, RowsTyped, serviceVars
  <2> QED
    BY <1>2, <2>a, <2>b, <2>c, <2>d, <2>u, <2>e, <2>f, <2>g, <2>h, <2>i, <2>j, <2>k, <2>l, <2>m
       DEF OneActorStep, Continue
<1>3. ASSUME NEW p \in Settlers \cup {Nobody}, NEW h \in BOOLEAN, Receive(p, h),
             late' \subseteq BOOLEAN
      PROVE  RowsTyped'
  <2>1. cred' = cred \/ cred' = Rotated(cred)
    BY <1>3 DEF Receive
  <2>2. cred' \in {"none", "current", "stale"}
    BY <1>0, <2>1 DEF Rotated, RowsTyped
  <2>3. svc' = svc \/ svc' = [step |-> "quota", hold |-> h, who |-> p]
    BY <1>3 DEF Receive
  <2>4. svc' \in ServiceState
    BY <1>0, <2>3 DEF RowsTyped, ServiceState
  <2>5. UNCHANGED <<ev, prog, held, key, mode, granted, used, hold, fresh, others, paid, asked,
                    faults>>
    BY <1>3 DEF Receive
  <2> QED
    BY <1>0, <1>3, <2>2, <2>4, <2>5 DEF RowsTyped
<1>4. ASSUME ReadQuota \/ CommitQuota \/ Grant \/ ServiceStops
      PROVE  RowsTyped'
  <2>1. \/ svc' = Idle
        \/ \E st \in {"commit_fresh", "commit_hold", "grant"} : svc' = [svc EXCEPT !.step = st]
    BY <1>4 DEF ReadQuota, CommitQuota, Grant, ServiceStops
  <2>2. svc' \in ServiceState
    BY <1>0, <2>1 DEF RowsTyped, ServiceState
  <2>3. CASE ReadQuota
    <3>1. fresh' = fresh \/ fresh' = "reserved"
      BY <2>3 DEF ReadQuota
    <3>2. UNCHANGED <<storeVars, key, mode, granted, used, hold, others, late, paid, asked, faults>>
      BY <2>3 DEF ReadQuota
    <3> QED
      BY <1>0, <2>2, <3>1, <3>2 DEF RowsTyped, Holding, storeVars
  <2>4. CASE CommitQuota
    <3>1. fresh' \in {fresh, "leased"} /\ hold' \in {hold, "leased"}
      BY <2>4 DEF CommitQuota
    <3>2. UNCHANGED <<storeVars, key, mode, granted, used, others, late, paid, asked, faults>>
      BY <2>4 DEF CommitQuota
    <3> QED
      BY <1>0, <2>2, <3>1, <3>2 DEF RowsTyped, Holding, storeVars
  <2>5. CASE Grant
    BY <2>2, <2>5, <1>0 DEF Grant, RowsTyped, storeVars
  <2>6. CASE ServiceStops
    BY <2>2, <2>6, <1>0 DEF ServiceStops, Fault, RowsTyped, storeVars
  <2> QED
    BY <1>4, <2>3, <2>4, <2>5, <2>6
<1>5. ASSUME EnvironmentStep
      PROVE  RowsTyped'
  <2>1. CASE HoldLapses
    BY <2>1, <1>0 DEF HoldLapses, RowsTyped, Holding, storeVars
  <2>2. CASE Revoke
    BY <2>2, <1>0 DEF Revoke, RowsTyped, storeVars
  <2>3. CASE Consume
    BY <2>3, <1>0 DEF Consume, RowsTyped, storeVars
  <2>4. CASE OthersTakeOrLeave
    BY <2>4, <1>0 DEF OthersTakeOrLeave, RowsTyped, storeVars
  <2>5. CASE Pay
    BY <2>5, <1>0 DEF Pay, RowsTyped, storeVars, serviceVars
  <2> QED
    BY <1>5, <2>1, <2>2, <2>3, <2>4, <2>5 DEF EnvironmentStep
<1>6. ASSUME Restart
      PROVE  RowsTyped'
  <2>1. late' \subseteq BOOLEAN
    <3>1. \A q \in Settlers : act[q].hold \in BOOLEAN
      BY <1>1 DEF Actors, ActorState
    <3> QED
      BY <1>6, <1>0, <3>1 DEF Restart, GiveUp, RowsTyped
  <2>2. svc' = svc \/ svc' = [svc EXCEPT !.who = Nobody]
    BY <1>6 DEF Restart, GiveUp
  <2>3. svc' \in ServiceState
    BY <1>0, <2>2 DEF RowsTyped, ServiceState
  <2> QED
    BY <1>6, <1>0, <2>1, <2>3 DEF Restart, Fault, RowsTyped, storeVars
<1>7. ASSUME NEW p \in Settlers, ReceiveWaiting(p)
      PROVE  RowsTyped'
  <2>1. act[p].hold \in BOOLEAN
    BY <1>1 DEF Actors, ActorState
  <2> QED
    BY <1>3, <1>7, <1>0, <2>1 DEF ReceiveWaiting, RowsTyped
<1>8. ASSUME NEW h \in BOOLEAN, ReceiveLate(h)
      PROVE  RowsTyped'
  BY <1>3, <1>8, <1>0 DEF ReceiveLate, RowsTyped
<1>9. CASE Next
  <2>1. RowsTyped'
    BY <1>2, <1>4, <1>5, <1>6, <1>7, <1>8, <1>9, NextCases DEF Actors
  <2> QED
    BY <1>9, <2>1, ActStep DEF CreditTypeOK, RowsTyped
<1>10. CASE UNCHANGED vars
  BY <1>10 DEF CreditTypeOK, vars, storeVars, serviceVars
<1> QED
  BY <1>9, <1>10

\* The rows of the storefront and of the service, and what requests remember,
\* keep their types through every overlap, fault and restart.
THEOREM TypeCorrect == SafeSpec => []CreditTypeOK
<1>1. ASSUME Init PROVE CreditTypeOK
  <2>1. svc \in ServiceState
    BY <1>1 DEF Init, Idle, ServiceState
  <2>2. held \in BOOLEAN
    BY <1>1 DEF Init
  <2>3. act \in [Actors -> ActorState]
    BY <1>1, RestingTyped DEF Init
  <2>4. /\ hold \in {"none", "reserved"} /\ fresh = "none" /\ key \in {"absent", "active"}
        /\ mode \in {"new", "existing"} /\ late = {} /\ paid = "none"
        /\ ev = "none" /\ prog = "none" /\ cred = "none"
    BY <1>1 DEF Init
  <2>5. granted \in BOOLEAN /\ used \in BOOLEAN
    BY <1>1 DEF Init
  <2>6. others \in Nat /\ asked \in 0 .. Refunds /\ faults \in 0 .. Faults
    BY <1>1, CreditAssumption DEF Init
  <2> QED
    BY <2>1, <2>2, <2>3, <2>4, <2>5, <2>6 DEF CreditTypeOK, Holding
<1>2. CreditTypeOK /\ [Next]_vars => CreditTypeOK'
  BY TypeStep
<1> QED
  BY <1>1, <1>2, PTL DEF SafeSpec

-----------------------------------------------------------------------------
(* The steps of one actor.                                                 *)

\* What such a step makes of its actor: it is not waiting for
\* the service, it sends what the storefront still has, once the evidence was
\* verified, and a certain answer is one it had before.
LEMMA ActorMove ==
  ASSUME CreditTypeOK, NEW p \in Actors, OneActorStep(p)
  PROVE  /\ act[p].at # "sent"
         /\ act'[p].at = "sent" => act[p].at = "send" /\ act'[p].hold = held /\ held' = held
         /\ act'[p].at = "send" => ev = "verified"
         /\ act'[p].at # "release"
         /\ Answered(act'[p]) => Answered(act[p])
         /\ \A q \in Actors : q # p => act'[q] = act[q]
<1>1. act \in [Actors -> ActorState] /\ act[p] \in ActorState
  BY DEF CreditTypeOK
<1>2. \A q \in Actors : q # p => act'[q] = act[q]
  BY <1>1, ActorStepTyped
<1>a. CASE Begin(p)
  BY <1>a, <1>1, <1>2 DEF Begin, Resting, Answered
<1>c. CASE RequestRefund(p)
  BY <1>c, <1>1, <1>2 DEF RequestRefund, Goto, ActorState, Answered
<1>d. CASE Receipt(p)
  BY <1>d, <1>1, <1>2 DEF Receipt, Goto, Rest, Resting, ActorState, Answered
<1>u. CASE PaymentsUnavailable(p)
  BY <1>u, <1>1, <1>2 DEF PaymentsUnavailable, Rest, Resting, Answered
<1>e. CASE Progress(p)
  BY <1>e, <1>1, <1>2 DEF Progress, Resting, Answered
<1>f. CASE ClaimDeliveryStart(p)
  BY <1>f, <1>1, <1>2 DEF ClaimDeliveryStart, Goto, Rest, Resting, ActorState, Answered
<1>g. CASE Send(p)
  BY <1>g, <1>1, <1>2 DEF Send, ActorState, Answered, storeVars
<1>h. CASE ReleaseCapacity(p)
  BY <1>h, <1>1, <1>2 DEF ReleaseCapacity, Goto, ActorState, Answered
<1>i. CASE RefundBeforeDelivery(p)
  BY <1>i, <1>1, <1>2 DEF RefundBeforeDelivery, Goto, ActorState, Answered
<1>j. CASE DropHold(p)
  BY <1>j, <1>1, <1>2 DEF DropHold, ActorState, Answered
<1>k. CASE StoreSecret(p)
  <2> DEFINE row == [Resting EXCEPT !.at = "write", !.res = act[p].res]
  <2>1. row.at = "write" /\ row.res = act[p].res
    BY DEF Resting
  <2>2. act' = [act EXCEPT ![p] = row] \/ act' = [act EXCEPT ![p] = Resting]
    BY <1>k DEF StoreSecret, Rest
  <2>3. act[p].at = "record"
    BY <1>k DEF StoreSecret
  <2> HIDE DEF row
  <2>4. act'[p] = row \/ act'[p] = Resting
    BY <1>1, <2>2
  <2> QED
    BY <1>2, <2>1, <2>3, <2>4 DEF Resting, Answered
<1>l. CASE WriteProgress(p)
  BY <1>l, <1>1, <1>2 DEF WriteProgress, Rest, Resting, Answered
<1>m. CASE RecordRefundIntent(p)
  BY <1>m, <1>1, <1>2 DEF RecordRefundIntent, EndRefund, Rest, Resting, ActorState, Answered
<1>n. CASE Reverse(p)
  BY <1>n, <1>1, <1>2 DEF Reverse, EndRefund, Rest, Resting, ActorState, Answered
<1>o. CASE Conclude(p)
  BY <1>o, <1>1, <1>2 DEF Conclude, EndRefund, Rest, Resting, ActorState, Answered
<1> QED
  BY <1>a, <1>c, <1>d, <1>u, <1>e, <1>f, <1>g, <1>h, <1>i, <1>j, <1>k, <1>l, <1>m, <1>n, <1>o
     DEF OneActorStep, Continue

\* Of the service's rows, such a step can only give the negotiated hold back.
LEMMA ActorLeaves ==
  ASSUME NEW p \in Actors, OneActorStep(p)
  PROVE  /\ UNCHANGED <<key, granted, fresh, svc, late>>
         /\ \/ UNCHANGED hold
            \/ act[p].at = "release" /\ act[p].hold /\ hold' = "released"
         /\ \/ UNCHANGED held
            \/ act[p].at = "drop"
BY DEF OneActorStep, Continue, PaymentsUnavailable, Begin, RequestRefund, Receipt, Progress,
       ClaimDeliveryStart, Send,
       ReleaseCapacity, RefundBeforeDelivery, DropHold, StoreSecret, WriteProgress,
       RecordRefundIntent, Reverse, Conclude, storeVars, serviceVars

\* A step of one actor keeps the invariant.
LEMMA ActorStepSafe ==
  ASSUME CreditInv, NEW p \in Actors, OneActorStep(p)
  PROVE  CreditSafe'
<1>1. CreditTypeOK /\ CreditSafe
  BY DEF CreditInv
<1>2. /\ act[p].at # "sent"
      /\ act'[p].at = "sent" => act'[p].hold = held /\ held' = held
      /\ act'[p].at # "release"
      /\ Answered(act'[p]) => Answered(act[p])
      /\ \A q \in Actors : q # p => act'[q] = act[q]
  BY <1>1, ActorMove
<1>3. /\ UNCHANGED <<key, granted, fresh, svc, late>>
      /\ \/ UNCHANGED hold
         \/ act[p].at = "release" /\ act[p].hold /\ hold' = "released"
      /\ \/ UNCHANGED held
         \/ act[p].at = "drop"
  BY ActorLeaves
<1>4. (Gone => Gone') /\ (Barred => Barred')
  BY <1>3 DEF Gone, Barred, Holding
<1>5. hold' # hold => Barred
  BY <1>1, <1>3 DEF CreditSafe, RefusedBarred
<1>6. QuotaOnce'
  BY <1>1, <1>3 DEF CreditSafe, QuotaOnce, Holding
<1>7. GrantBacked'
  BY <1>1, <1>3, <1>5 DEF CreditSafe, GrantBacked, Barred, Holding
<1>8. UnnamedGone'
  <2>1. (~held => Gone)'
    BY <1>1, <1>3, <1>4 DEF CreditSafe, UnnamedGone, AnsweredGone, Answered
  <2>2. (FALSE \in late => Gone)' /\ (svc.step # "idle" /\ ~svc.hold => Gone)'
    BY <1>1, <1>3, <1>4 DEF CreditSafe, UnnamedGone
  <2>3. \A q \in Actors : act'[q].at = "sent" /\ ~act'[q].hold => Gone'
    BY <1>1, <1>2, <1>4 DEF CreditSafe, UnnamedGone
  <2> QED
    BY <2>1, <2>2, <2>3 DEF UnnamedGone
<1>9. AnsweredGone'
  BY <1>1, <1>2, <1>4 DEF CreditSafe, AnsweredGone
<1>10. RefusedBarred'
  BY <1>1, <1>2, <1>4 DEF CreditSafe, RefusedBarred
<1>11. ServiceLocked'
  <2>1. svc.who # Nobody => svc.who \in Actors /\ svc.who # p
    BY <1>1, <1>2 DEF CreditSafe, ServiceLocked, CreditTypeOK, ServiceState, Actors
  <2>2. (svc.who # Nobody => act[svc.who].at = "sent" /\ act[svc.who].hold = svc.hold)'
    BY <1>1, <1>2, <1>3, <2>1 DEF CreditSafe, ServiceLocked
  <2>3. (svc.step = "grant" => hold = "leased" \/ fresh = "leased")'
    BY <1>1, <1>3, <1>5 DEF CreditSafe, ServiceLocked, Barred, Holding
  <2> QED
    BY <1>1, <1>3, <2>2, <2>3 DEF CreditSafe, ServiceLocked, Holding
<1> QED
  BY <1>6, <1>7, <1>8, <1>9, <1>10, <1>11 DEF CreditSafe

\* Giving up on requests leaves them to be served for nobody.
LEMMA GiveUpSafe ==
  ASSUME CreditInv, NEW S \in SUBSET Actors, GiveUp(S),
         UNCHANGED <<held, hold, key, granted, fresh>>,
         \A q \in Actors \ S : act'[q] = act[q],
         \A q \in S : act'[q].at # "sent" /\ ~Answered(act'[q]),
         svc.who # Nobody /\ svc.who \notin S => act'[svc.who] = act[svc.who]
  PROVE  CreditSafe'
<1>1. CreditTypeOK /\ CreditSafe
  BY DEF CreditInv
<1>2. Gone' = Gone /\ Barred' = Barred
  BY DEF Gone, Barred
<1>3. /\ svc'.step = svc.step /\ svc'.hold = svc.hold
      /\ svc'.who = IF svc.who \in S THEN Nobody ELSE svc.who
  BY <1>1 DEF GiveUp, CreditTypeOK, ServiceState
<1>4. FALSE \in late' => FALSE \in late \/ \E q \in S : act[q].at = "sent" /\ ~act[q].hold
  BY DEF GiveUp
<1>5. QuotaOnce' /\ GrantBacked'
  BY <1>1 DEF CreditSafe, QuotaOnce, GrantBacked
<1>6. UnnamedGone'
  <2>1. FALSE \in late' => Gone
    BY <1>1, <1>4 DEF CreditSafe, UnnamedGone
  <2>2. \A q \in Actors : act'[q].at = "sent" /\ ~act'[q].hold => Gone
    BY <1>1 DEF CreditSafe, UnnamedGone
  <2> QED
    BY <1>1, <1>2, <1>3, <2>1, <2>2 DEF CreditSafe, UnnamedGone
<1>7. AnsweredGone'
  BY <1>1, <1>2 DEF CreditSafe, AnsweredGone
<1>8. RefusedBarred'
  BY <1>1, <1>2 DEF CreditSafe, RefusedBarred, Answered
<1>9. ServiceLocked'
  BY <1>1, <1>3 DEF CreditSafe, ServiceLocked, Holding
<1> QED
  BY <1>5, <1>6, <1>7, <1>8, <1>9 DEF CreditSafe

-----------------------------------------------------------------------------
(* The steps of the service.                                               *)

\* An answer keeps what the invariant says of the actors, if it is certain only
\* where it may be.
LEMMA ReplySafe ==
  ASSUME CreditInv, NEW p \in Settlers \cup {Nobody},
         NEW res \in {"fulfilled", "pending", "refused"}, NEW secret \in BOOLEAN,
         Reply(p, res, secret),
         Gone => Gone', Barred => Barred',
         res # "pending" => Gone',
         res = "refused" /\ p # Nobody /\ act[p].hold => Barred'
  PROVE  /\ \A q \in Actors : act'[q].at = "sent" /\ ~act'[q].hold => Gone'
         /\ AnsweredGone' /\ RefusedBarred'
<1>1. act \in [Actors -> ActorState]
  BY DEF CreditInv, CreditTypeOK
<1>2. \A q \in Actors : q # p => /\ act'[q].at = act[q].at
                                 /\ act'[q].hold = act[q].hold
                                 /\ act'[q].res = act[q].res
  BY <1>1, ReplyFacts
<1>3. p # Nobody => /\ act'[p].res = res
                    /\ act'[p].hold => act[p].hold
                    /\ act'[p].at = CASE res = "fulfilled" -> "drop"
                                      [] res = "refused" -> "release"
                                      [] OTHER -> "record"
  BY <1>1, ReplyFacts
<1>4. p # Nobody => /\ act'[p].at # "sent"
                    /\ act'[p].at = "release" => res = "refused"
                    /\ Answered(act'[p]) => res # "pending"
  BY <1>3 DEF Answered
<1>5. Nobody \notin Actors
  BY CreditAssumption DEF Actors
<1>6. \A q \in Actors : act'[q].at = "sent" /\ ~act'[q].hold => Gone'
  BY <1>2, <1>4, <1>5 DEF CreditInv, CreditSafe, UnnamedGone
<1>7. \A q \in Actors : Answered(act'[q]) => Gone'
  BY <1>2, <1>4, <1>5 DEF CreditInv, CreditSafe, AnsweredGone, Answered
<1>8. \A q \in Actors : act'[q].at = "release" /\ act'[q].hold => Barred'
  BY <1>2, <1>3, <1>4, <1>5 DEF CreditInv, CreditSafe, RefusedBarred
<1> QED
  BY <1>6, <1>7, <1>8 DEF AnsweredGone, RefusedBarred

\* A request is received by the idle service.
LEMMA ReceiveSafe ==
  ASSUME CreditInv, NEW p \in Settlers \cup {Nobody}, NEW h \in BOOLEAN, Receive(p, h),
         p # Nobody => act[p].at = "sent" /\ act[p].hold = h,
         ~h => Gone, late' \subseteq late
  PROVE  CreditSafe'
<1>1. CreditTypeOK /\ CreditSafe
  BY DEF CreditInv
<1>2. UNCHANGED <<held, key, granted, hold, fresh>> /\ svc.step = "idle"
  BY DEF Receive
<1>3. Gone' = Gone /\ Barred' = Barred
  BY <1>2 DEF Gone, Barred
<1>4. QuotaOnce' /\ GrantBacked'
  BY <1>1, <1>2 DEF CreditSafe, QuotaOnce, GrantBacked
<1>5. (~held => Gone)' /\ (FALSE \in late => Gone)'
  BY <1>1, <1>2, <1>3 DEF CreditSafe, UnnamedGone
<1>6. CASE svc' = svc
  <2> DEFINE rotate == mode = "new" /\ key = "active" /\ ~used
  <2>1. \/ granted /\ Reply(p, "fulfilled", rotate)
        \/ ~granted /\ key = "revoked" /\ Reply(p, "refused", FALSE)
    <3>1. svc' # [step |-> "quota", hold |-> h, who |-> p]
      BY <1>2, <1>6
    <3> QED
      BY <3>1 DEF Receive
  <2>2. rotate \in BOOLEAN
    OBVIOUS
  <2> HIDE DEF rotate
  <2>3. /\ \A q \in Actors : act'[q].at = "sent" /\ ~act'[q].hold => Gone'
        /\ AnsweredGone' /\ RefusedBarred'
    BY <1>3, <2>1, <2>2, ReplySafe DEF Gone, Barred
  <2>4. svc.who = Nobody
    BY <1>1, <1>2 DEF CreditSafe, ServiceLocked
  <2>5. ServiceLocked'
    BY <1>2, <1>6, <2>4 DEF ServiceLocked
  <2>6. UnnamedGone'
    BY <1>2, <1>5, <1>6, <2>3 DEF UnnamedGone
  <2> QED
    BY <1>4, <2>3, <2>5, <2>6 DEF CreditSafe
<1>7. CASE svc' # svc
  <2>1. /\ ~granted /\ key # "revoked"
        /\ svc' = [step |-> "quota", hold |-> h, who |-> p]
        /\ act' = act
    BY <1>7 DEF Receive
  <2>2. svc'.step = "quota" /\ svc'.hold = h /\ svc'.who = p
    BY <2>1
  <2>3. AnsweredGone' /\ RefusedBarred'
    BY <1>1, <1>3, <2>1 DEF CreditSafe, AnsweredGone, RefusedBarred
  <2>4. UnnamedGone'
    BY <1>1, <1>3, <1>5, <2>1, <2>2 DEF CreditSafe, UnnamedGone
  <2>5. ServiceLocked'
    BY <1>2, <2>1, <2>2 DEF ServiceLocked
  <2> QED
    BY <1>4, <2>3, <2>4, <2>5 DEF CreditSafe
<1> QED
  BY <1>6, <1>7

\* Quota is looked for.
LEMMA ReadQuotaSafe ==
  ASSUME CreditInv, ReadQuota
  PROVE  CreditSafe'
<1>1. CreditTypeOK /\ CreditSafe
  BY DEF CreditInv
<1>2. UNCHANGED <<held, key, granted, hold, late>> /\ svc.step = "quota"
  BY DEF ReadQuota, storeVars
<1>3. Gone' = Gone /\ Barred' = Barred
  BY <1>2 DEF Gone, Barred
<1>4. ~granted /\ key # "revoked" /\ svc.who \in Settlers \cup {Nobody}
  BY <1>1, <1>2 DEF CreditSafe, ServiceLocked, CreditTypeOK, ServiceState
<1>5. GrantBacked'
  BY <1>2, <1>4 DEF GrantBacked
<1>6. (~held => Gone)' /\ (FALSE \in late => Gone)'
  BY <1>1, <1>2, <1>3 DEF CreditSafe, UnnamedGone
<1>7. \/ /\ svc' = [svc EXCEPT !.step = "commit_fresh"] /\ act' = act
         /\ fresh' \in Holding /\ (fresh' = fresh \/ ~(svc.hold /\ hold \in Holding))
      \/ /\ svc' = [svc EXCEPT !.step = "commit_hold"] /\ act' = act /\ fresh' = fresh
      \/ /\ svc' = Idle /\ Reply(svc.who, "refused", FALSE) /\ fresh' = fresh
         /\ ~(svc.hold /\ hold \in Holding)
  BY DEF ReadQuota, Holding
<1>8. ~(svc.hold /\ hold \in Holding) => hold \notin Holding
  BY <1>1, <1>2, <1>4 DEF CreditSafe, UnnamedGone, Gone
<1>9. QuotaOnce'
  BY <1>1, <1>2, <1>7, <1>8 DEF CreditSafe, QuotaOnce
<1>10. CASE act' = act /\ \E st \in {"commit_fresh", "commit_hold"} : svc' = [svc EXCEPT !.step = st]
  <2>1. svc'.hold = svc.hold /\ svc'.who = svc.who /\ svc'.step \in {"commit_fresh", "commit_hold"}
    BY <1>1, <1>10 DEF CreditTypeOK, ServiceState
  <2>2. svc'.step = "commit_fresh" => fresh' \in Holding
    <3>1. [svc EXCEPT !.step = "commit_hold"].step = "commit_hold" /\ Idle.step = "idle"
      BY <1>1 DEF CreditTypeOK, ServiceState, Idle
    <3> QED
      BY <1>7, <3>1
  <2>3. AnsweredGone' /\ RefusedBarred'
    BY <1>1, <1>3, <1>10 DEF CreditSafe, AnsweredGone, RefusedBarred
  <2>4. UnnamedGone'
    BY <1>1, <1>2, <1>3, <1>6, <1>10, <2>1 DEF CreditSafe, UnnamedGone
  <2>5. ServiceLocked'
    BY <1>1, <1>2, <1>4, <1>10, <2>1, <2>2 DEF CreditSafe, ServiceLocked
  <2> QED
    BY <1>5, <1>9, <2>3, <2>4, <2>5 DEF CreditSafe
<1>11. CASE svc' = Idle /\ Reply(svc.who, "refused", FALSE) /\ ~(svc.hold /\ hold \in Holding)
  <2>1. /\ \A q \in Actors : act'[q].at = "sent" /\ ~act'[q].hold => Gone'
        /\ AnsweredGone' /\ RefusedBarred'
    BY <1>3, <1>4, <1>8, <1>11, ReplySafe DEF Gone, Barred
  <2>2. svc'.step = "idle" /\ svc'.who = Nobody
    BY <1>11 DEF Idle
  <2>3. UnnamedGone'
    BY <1>6, <2>1, <2>2 DEF UnnamedGone
  <2>4. ServiceLocked'
    BY <2>2 DEF ServiceLocked
  <2> QED
    BY <1>5, <1>9, <2>1, <2>3, <2>4 DEF CreditSafe
<1> QED
  BY <1>7, <1>10, <1>11

\* Quota is committed, or found gone.
LEMMA CommitQuotaSafe ==
  ASSUME CreditInv, CommitQuota
  PROVE  CreditSafe'
<1>1. CreditTypeOK /\ CreditSafe
  BY DEF CreditInv
<1>2. UNCHANGED <<held, key, granted, late>> /\ svc.step \in {"commit_fresh", "commit_hold"}
  BY DEF CommitQuota, storeVars
<1>3. ~granted /\ key # "revoked" /\ svc.who \in Settlers \cup {Nobody}
  BY <1>1, <1>2 DEF CreditSafe, ServiceLocked, CreditTypeOK, ServiceState
<1>4. \/ /\ svc' = [svc EXCEPT !.step = "grant"] /\ act' = act
         /\ \/ svc.step = "commit_fresh" /\ fresh' = "leased" /\ hold' = hold
            \/ hold \in Holding /\ hold' = "leased" /\ fresh' = fresh
      \/ /\ svc' = Idle /\ Reply(svc.who, "pending", FALSE) /\ UNCHANGED <<hold, fresh>>
  BY DEF CommitQuota
<1>5. (Gone => Gone') /\ (Barred => Barred')
  BY <1>2, <1>4 DEF Gone, Barred
<1>6. GrantBacked'
  BY <1>2, <1>3 DEF GrantBacked
<1>7. (~held => Gone)' /\ (FALSE \in late => Gone)'
  BY <1>1, <1>2, <1>5 DEF CreditSafe, UnnamedGone
<1>8. QuotaOnce'
  BY <1>1, <1>4 DEF CreditSafe, QuotaOnce, ServiceLocked, Holding
<1>9. CASE act' = act /\ svc' = [svc EXCEPT !.step = "grant"]
  <2>1. svc'.hold = svc.hold /\ svc'.who = svc.who /\ svc'.step = "grant"
    BY <1>1, <1>9 DEF CreditTypeOK, ServiceState
  <2>2. hold' = "leased" \/ fresh' = "leased"
    <3>1. svc' # Idle
      BY <2>1 DEF Idle
    <3> QED
      BY <1>4, <3>1
  <2>3. AnsweredGone' /\ RefusedBarred'
    BY <1>1, <1>5, <1>9 DEF CreditSafe, AnsweredGone, RefusedBarred
  <2>4. UnnamedGone'
    BY <1>1, <1>2, <1>5, <1>7, <1>9, <2>1 DEF CreditSafe, UnnamedGone
  <2>5. ServiceLocked'
    BY <1>1, <1>2, <1>3, <1>9, <2>1, <2>2 DEF CreditSafe, ServiceLocked
  <2> QED
    BY <1>6, <1>8, <2>3, <2>4, <2>5 DEF CreditSafe
<1>10. CASE svc' = Idle /\ Reply(svc.who, "pending", FALSE)
  <2>1. /\ \A q \in Actors : act'[q].at = "sent" /\ ~act'[q].hold => Gone'
        /\ AnsweredGone' /\ RefusedBarred'
    BY <1>3, <1>5, <1>10, ReplySafe
  <2>2. svc'.step = "idle" /\ svc'.who = Nobody
    BY <1>10 DEF Idle
  <2>3. UnnamedGone'
    BY <1>7, <2>1, <2>2 DEF UnnamedGone
  <2>4. ServiceLocked'
    BY <2>2 DEF ServiceLocked
  <2> QED
    BY <1>6, <1>8, <2>1, <2>3, <2>4 DEF CreditSafe
<1> QED
  BY <1>4, <1>9, <1>10

\* The grant, or the end of the issuance with the service.
LEMMA IssuanceEndSafe ==
  ASSUME CreditInv, Grant \/ ServiceStops
  PROVE  CreditSafe'
<1>1. CreditTypeOK /\ CreditSafe
  BY DEF CreditInv
<1>2. UNCHANGED <<held, hold, fresh, late>> /\ svc.step # "idle" /\ svc' = Idle
  BY DEF Grant, ServiceStops, storeVars
<1>3. ~granted /\ key # "revoked" /\ svc.who \in Settlers \cup {Nobody}
  BY <1>1, <1>2 DEF CreditSafe, ServiceLocked, CreditTypeOK, ServiceState
<1>4. \/ svc.step = "grant" /\ granted' = TRUE /\ Reply(svc.who, "fulfilled", mode = "new")
      \/ UNCHANGED <<key, granted>> /\ Reply(svc.who, "pending", FALSE)
  BY DEF Grant, ServiceStops
<1>5. (Gone => Gone') /\ (Barred => Barred')
  BY <1>2, <1>3, <1>4 DEF Gone, Barred
<1>6. QuotaOnce' /\ GrantBacked'
  <2>1. granted' => svc.step = "grant"
    BY <1>3, <1>4
  <2> QED
    BY <1>1, <1>2, <2>1 DEF CreditSafe, QuotaOnce, GrantBacked, ServiceLocked
<1>7. /\ \A q \in Actors : act'[q].at = "sent" /\ ~act'[q].hold => Gone'
      /\ AnsweredGone' /\ RefusedBarred'
  <2>1. (mode = "new") \in BOOLEAN
    OBVIOUS
  <2>2. granted' = TRUE => Gone'
    BY DEF Gone
  <2> QED
    BY <1>3, <1>4, <1>5, <2>1, <2>2, ReplySafe
<1>8. svc'.step = "idle" /\ svc'.who = Nobody
  BY <1>2 DEF Idle
<1>9. UnnamedGone'
  BY <1>1, <1>2, <1>5, <1>7, <1>8 DEF CreditSafe, UnnamedGone
<1>10. ServiceLocked'
  BY <1>8 DEF ServiceLocked
<1> QED
  BY <1>6, <1>7, <1>9, <1>10 DEF CreditSafe

\* Lapsing holds, revocations, use, other purchases and payments.
LEMMA EnvironmentSafe ==
  ASSUME CreditInv, EnvironmentStep
  PROVE  CreditSafe'
<1>1. CreditTypeOK /\ CreditSafe
  BY DEF CreditInv
<1>2. /\ UNCHANGED <<held, act, granted, fresh, svc, late>>
      /\ \/ UNCHANGED <<hold, key>>
         \/ hold = "reserved" /\ hold' = "released" /\ key' = key
         \/ svc.step = "idle" /\ key' = "revoked" /\ hold' = hold
  BY DEF EnvironmentStep, HoldLapses, Revoke, Consume, OthersTakeOrLeave, Pay, storeVars, serviceVars
<1>3. (Gone => Gone') /\ (Barred => Barred')
  BY <1>2 DEF Gone, Barred, Holding
<1>4. QuotaOnce' /\ GrantBacked'
  BY <1>1, <1>2 DEF CreditSafe, QuotaOnce, GrantBacked, Holding
<1>5. UnnamedGone' /\ AnsweredGone' /\ RefusedBarred'
  BY <1>1, <1>2, <1>3 DEF CreditSafe, UnnamedGone, AnsweredGone, RefusedBarred
<1>6. ServiceLocked'
  BY <1>1, <1>2 DEF CreditSafe, ServiceLocked
<1> QED
  BY <1>4, <1>5, <1>6 DEF CreditSafe

-----------------------------------------------------------------------------
(* The theorems.                                                           *)

\* The first state satisfies the invariant.
LEMMA InitSafe ==
  ASSUME Init
  PROVE  CreditSafe
<1>1. \A p \in Actors : act[p].at = "rest" /\ act[p].res = "none"
  BY DEF Init, Resting
<1>2. svc.step = "idle" /\ svc.who = Nobody
  BY DEF Init, Idle
<1>3. ~held => Gone
  BY DEF Init, Gone, Holding
<1>4. fresh = "none" /\ ~granted /\ late = {}
  BY DEF Init
<1>5. QuotaOnce /\ GrantBacked
  BY <1>4 DEF QuotaOnce, GrantBacked, Holding
<1>6. UnnamedGone /\ AnsweredGone /\ RefusedBarred
  BY <1>1, <1>2, <1>3, <1>4 DEF UnnamedGone, AnsweredGone, RefusedBarred, Answered
<1>7. ServiceLocked
  BY <1>2 DEF ServiceLocked
<1> QED
  BY <1>5, <1>6, <1>7 DEF CreditSafe

\* Every step keeps the invariant.
LEMMA SafeStep ==
  ASSUME CreditInv, [Next]_vars
  PROVE  CreditSafe'
<1>0. CreditTypeOK /\ CreditSafe /\ act \in [Actors -> ActorState]
  BY DEF CreditInv, CreditTypeOK
<1>1. ASSUME NEW p \in Settlers, Timeout(p)
      PROVE  CreditSafe'
  <2>0. p \in Actors
    BY DEF Actors
  <2>1. /\ GiveUp({p})
        /\ UNCHANGED <<held, hold, key, granted, fresh>>
        /\ act' = [act EXCEPT ![p] = [Resting EXCEPT !.at = "record", !.res = "pending"]]
    BY <1>1 DEF Timeout, storeVars
  <2>2. act'[p].at = "record" /\ act'[p].res = "pending"
    BY <1>0, <2>0, <2>1 DEF Resting
  <2>3. \A q \in Actors \ {p} : act'[q] = act[q]
    BY <1>0, <2>1
  <2>4. svc.who # Nobody => svc.who \in Actors
    BY <1>0 DEF CreditTypeOK, ServiceState, Actors
  <2> QED
    BY <2>0, <2>1, <2>2, <2>3, <2>4, GiveUpSafe DEF Answered
<1>2. CASE Restart
  <2>1. /\ GiveUp(Settlers)
        /\ UNCHANGED <<held, hold, key, granted, fresh>>
        /\ \A q \in Actors : act'[q].at # "sent" /\ ~Answered(act'[q])
    BY <1>2 DEF Restart, storeVars, Resting, Answered
  <2>2. /\ svc.who \in Settlers \cup {Nobody}
        /\ svc'.step = svc.step /\ svc'.hold = svc.hold /\ svc'.who = Nobody
    BY <1>0, <2>1 DEF GiveUp, CreditTypeOK, ServiceState
  <2>3. Gone' = Gone
    BY <2>1 DEF Gone
  <2>4. FALSE \in late' => Gone
    BY <1>0, <2>1 DEF GiveUp, CreditSafe, UnnamedGone, Actors
  <2>5. QuotaOnce' /\ GrantBacked'
    BY <1>0, <2>1 DEF CreditSafe, QuotaOnce, GrantBacked
  <2>6. UnnamedGone'
    BY <1>0, <2>1, <2>2, <2>3, <2>4 DEF CreditSafe, UnnamedGone
  <2>7. AnsweredGone' /\ RefusedBarred'
    BY <2>1 DEF AnsweredGone, RefusedBarred, Answered
  <2>8. ServiceLocked'
    BY <1>0, <2>1, <2>2 DEF CreditSafe, ServiceLocked
  <2> QED
    BY <2>5, <2>6, <2>7, <2>8 DEF CreditSafe
<1>3. ASSUME NEW p \in Settlers, ReceiveWaiting(p)
      PROVE  CreditSafe'
  <2>1. /\ act[p].at = "sent" /\ act[p].hold \in BOOLEAN
        /\ Receive(p, act[p].hold) /\ late' = late
    BY <1>0, <1>3 DEF ReceiveWaiting, Actors, ActorState
  <2>2. ~act[p].hold => Gone
    BY <1>0, <2>1 DEF CreditSafe, UnnamedGone, Actors
  <2> QED
    BY <2>1, <2>2, ReceiveSafe
<1>4. ASSUME NEW h \in BOOLEAN, ReceiveLate(h)
      PROVE  CreditSafe'
  <2>1. Receive(Nobody, h) /\ late' \subseteq late /\ h \in late
    BY <1>4 DEF ReceiveLate
  <2>2. ~h => Gone
    BY <1>0, <2>1 DEF CreditSafe, UnnamedGone
  <2> QED
    BY <2>1, <2>2, ReceiveSafe
<1>5. CASE Next
  BY <1>1, <1>2, <1>3, <1>4, <1>5, NextCases, ActorStepSafe, ReadQuotaSafe, CommitQuotaSafe,
     IssuanceEndSafe, EnvironmentSafe
<1>6. CASE UNCHANGED vars
  BY <1>0, <1>6 DEF CreditSafe, QuotaOnce, GrantBacked, UnnamedGone, AnsweredGone, RefusedBarred,
                    ServiceLocked, Gone, Barred, vars, storeVars, serviceVars
<1> QED
  BY <1>5, <1>6

\* The invariant holds in every reachable state.
LEMMA CreditInductive == SafeSpec => []CreditInv
<1>1. Init => CreditSafe
  BY InitSafe
<1>2. CreditInv /\ [Next]_vars => CreditSafe'
  BY SafeStep
<1>3. CreditInv <=> CreditTypeOK /\ CreditSafe
  BY DEF CreditInv
<1> QED
  BY <1>1, <1>2, <1>3, TypeCorrect, PTL DEF SafeSpec

\* A purchase never holds quota under two reservations, however often its
\* issuance is sent, given up on, served late or begun again.
THEOREM QuotaTakenOnce == SafeSpec => []QuotaOnce
<1>1. CreditInv => QuotaOnce
  BY DEF CreditInv, CreditSafe
<1> QED
  BY <1>1, CreditInductive, PTL

\* Granted credits stay backed by committed quota: no failure policy gives back
\* what another attempt was granted against.
THEOREM GrantsStayBacked == SafeSpec => []GrantBacked
<1>1. CreditInv => GrantBacked
  BY DEF CreditInv, CreditSafe
<1> QED
  BY <1>1, CreditInductive, PTL

\* Once a refund is recorded and the deliveries under way have ended, nothing
\* issues credits, unless the refund is abandoned.
THEOREM RefundClosesDeal == SafeSpec => RefundCloses
<1>1. ASSUME CreditTypeOK, [Next]_vars, ClosedByRefund
      PROVE  (ClosedByRefund' \/ ev' = "verified") /\ granted' = granted
  <2>1. /\ ev \in {"refunding", "refunded"} /\ svc.step = "idle" /\ late = {}
        /\ \A p \in Settlers : act[p].at \notin {"send", "sent"}
    BY <1>1 DEF ClosedByRefund, Delivering
  <2>2. act \in [Actors -> ActorState]
    BY <1>1 DEF CreditTypeOK
  <2>3. ASSUME NEW p \in Actors, OneActorStep(p)
        PROVE  (ClosedByRefund' \/ ev' = "verified") /\ granted' = granted
    <3>1. UNCHANGED <<granted, svc, late>> /\ \A q \in Actors : q # p => act'[q] = act[q]
      BY <1>1, <2>3, ActorLeaves, ActorMove
    <3>2. ev' \in {"refunding", "refunded", "verified"}
      BY <2>1, <2>3
         DEF OneActorStep, Continue, PaymentsUnavailable, Begin, RequestRefund, Receipt, Progress,
             ClaimDeliveryStart,
             Send, ReleaseCapacity, RefundBeforeDelivery, DropHold, StoreSecret, WriteProgress,
             RecordRefundIntent, Reverse, Conclude, storeVars
    <3>3. act'[p].at = "sent" => act[p].at = "send"
      BY <1>1, <2>3, ActorMove
    <3>4. act'[p].at # "send"
      BY <1>1, <2>1, <2>3, ActorMove
    <3> QED
      BY <2>1, <3>1, <3>2, <3>3, <3>4 DEF ClosedByRefund, Delivering, Actors
  <2>4. CASE Next
    <3>1. Grant \/ ReadQuota \/ CommitQuota \/ ServiceStops => FALSE
      BY <2>1 DEF Grant, ReadQuota, CommitQuota, ServiceStops
    <3>2. (\E p \in Settlers : ReceiveWaiting(p)) \/ (\E h \in BOOLEAN : ReceiveLate(h)) => FALSE
      BY <2>1 DEF ReceiveWaiting, ReceiveLate
    <3>3. CASE EnvironmentStep
      <4>1. UNCHANGED <<ev, act, granted, svc, late>>
        BY <3>3 DEF EnvironmentStep, HoldLapses, Revoke, Consume, OthersTakeOrLeave, Pay,
                    storeVars, serviceVars
      <4> QED
        BY <2>1, <4>1 DEF ClosedByRefund, Delivering
    <3>4. CASE Restart \/ \E p \in Settlers : Timeout(p)
      <4>1. CASE Restart
        <5>1. UNCHANGED <<ev, granted>> /\ late' = {} /\ svc'.step = "idle"
          BY <1>1, <2>1, <4>1 DEF Restart, GiveUp, storeVars, CreditTypeOK, ServiceState
        <5>2. \A p \in Settlers : act'[p].at = "rest"
          BY <4>1 DEF Restart, Resting, Actors
        <5> QED
          BY <2>1, <5>1, <5>2 DEF ClosedByRefund, Delivering
      <4>2. ~\E p \in Settlers : Timeout(p)
        BY <2>1 DEF Timeout
      <4> QED
        BY <3>4, <4>1, <4>2
    <3> QED
      BY <2>3, <2>4, <3>1, <3>2, <3>3, <3>4, NextCases
  <2>5. CASE UNCHANGED vars
    BY <1>1, <2>5 DEF ClosedByRefund, Delivering, vars, storeVars, serviceVars
  <2> QED
    BY <1>1, <2>4, <2>5
<1>2. CreditTypeOK /\ [Next]_vars =>
        [ClosedByRefund => (ClosedByRefund' \/ ev' = "verified") /\ granted' = granted]_vars
  BY <1>1
<1> QED
  BY <1>2, TypeCorrect, PTL DEF RefundCloses, SafeSpec

=============================================================================
