------------------------- MODULE SettlementJournal -------------------------
(***************************************************************************)
(* The settlement runtime's durable journal for one obligation.  Callers   *)
(* of the claimant and of the payer run its operations concurrently; each  *)
(* operation loads the obligation, reserves its own row under a lease,     *)
(* asks the mechanism (the external authority that holds the money), and   *)
(* writes the answer back.                                                 *)
(*                                                                         *)
(* Sources: runtime.py (the operations), sqlite_repository.py (their       *)
(* transactions).  One action is one read, one transaction or one call to  *)
(* the mechanism, so callers interleave exactly where the code awaits.     *)
(* What an operation decides from the record it loaded stays a snapshot in *)
(* the call: the transactions re-check only what the source re-checks.     *)
(*                                                                         *)
(* Receipts, error texts and references are left out (a reference is there *)
(* or not), and so is the request hash: a request that differs from the    *)
(* first is refused and writes nothing.  An operation refused before it    *)
(* reserves changes nothing and is not a step.                             *)
(***************************************************************************)
EXTENDS Naturals

CONSTANTS
  Callers,     \* concurrent invocations of the runtime
  Workers,     \* worker ids, the lease_owner values of the journal
  WorkerOf,    \* the worker id each caller presents
  Duties,      \* the operations each caller's principal and code perform
  NoOwner,     \* lease_owner IS NULL
  Adopts,      \* TRUE: verified escrows are adopted; FALSE: the mechanism creates them
  Reports,     \* statuses the mechanism's get_status answers
  Decisions,   \* decisions its check answers
  Halts,       \* it may raise SettlementManualRequired
  Carries,     \* it returns the mechanism_state it was given, extended
  Monitors,    \* its state carries terminal_risk_monitoring
  Idempotent   \* it answers a repeated effect instead of refusing it

Kinds == {"materialize", "status", "fulfill", "check", "collect", "cleanup", "reclaim"}

ASSUME JournalAssumption ==
  /\ WorkerOf \in [Callers -> Workers]
  /\ Duties \in [Callers -> SUBSET (Kinds \cup {"bind"})]
  /\ NoOwner \notin Workers
  /\ {Adopts, Halts, Carries, Monitors, Idempotent} \subseteq BOOLEAN
  /\ Reports \subseteq {"pending", "ready", "collected", "reclaimed", "expired",
                        "failed", "manual_required"}
  /\ Decisions \subseteq {"pending", "ready", "failed", "manual_required"}

VARIABLES
  ob,       \* the settlement_obligations row
  op,       \* its settlement_operations rows, one per kind
  call,     \* the operation each caller is running
  effects,  \* what the mechanism has done with the money
  expired   \* the obligation's expiration has passed

vars == <<ob, op, call, effects, expired>>

Idle == [at |-> "idle", k |-> "none", fref |-> FALSE, reason |-> FALSE,
         parked |-> FALSE, ans |-> "none"]

\* persist_settlement_plan's new row; no operation has a row yet.
Init ==
  /\ ob = [mat |-> "pending", cond |-> "pending", coll |-> "pending",
           recl |-> "pending", mst |-> "none", mref |-> FALSE,
           fref |-> FALSE, reason |-> FALSE]
  /\ op = [k \in Kinds |-> [st |-> "absent", owner |-> NoOwner, live |-> FALSE]]
  /\ call = [c \in Callers |-> Idle]
  /\ effects = {}
  /\ expired = FALSE

Set(c, changes) == call' = [call EXCEPT ![c] = changes]

-----------------------------------------------------------------------------
(* Before the reservation.                                                 *)

Materialized == ob.mat = "materialized" /\ ob.mref

CleanedUp == op["cleanup"].st = "succeeded"

\* The checks an operation makes on the record it loaded.
Allowed(k) ==
  CASE k = "status" ->
         /\ ob.coll = "succeeded" => Monitors
         /\ ob.recl # "succeeded"
         /\ ob.mref
    [] k = "check" -> Materialized /\ ob.fref
    [] k = "collect" -> Materialized /\ ob.fref /\ ob.cond = "ready"
    [] k = "cleanup" -> ob.fref
    [] k = "reclaim" ->
         /\ Materialized /\ expired
         /\ ob.mst = "failed" /\ ob.fref /\ ob.coll # "succeeded" => CleanedUp
    [] OTHER -> TRUE

ParkedNow == "manual_required" \in {ob.mat, ob.cond, ob.coll, ob.recl}

\* An operation starts: _load, and the checks on what it read. The call keeps
\* what its later steps still use of that record.
Load(c, k) ==
  /\ call[c].at = "idle"
  /\ k \in Duties[c] \cap Kinds
  /\ Allowed(k)
  /\ Set(c, [Idle EXCEPT !.at = "loaded", !.k = k,
                         !.fref = (k = "fulfill") /\ ob.fref, !.reason = ob.reason,
                         !.parked = ob.reason /\ ParkedNow])
  /\ UNCHANGED <<ob, op, effects, expired>>

\* Mutant: the reference is bound whatever the payer does.
BindFulfillment_Always(c) ==
  /\ call[c].at = "idle" /\ "bind" \in Duties[c]
  /\ ~ob.fref
  /\ ob' = [ob EXCEPT !.fref = TRUE]
  /\ UNCHANGED <<op, call, effects, expired>>

\* bind_fulfillment by a storefront that fulfils outside the journal: its one
\* transaction decides.
BindFulfillment(c) ==
  /\ call[c].at = "idle" /\ "bind" \in Duties[c]
  /\ ~ob.fref /\ ob.recl \notin {"in_progress", "succeeded"}
  /\ ob' = [ob EXCEPT !.fref = TRUE]
  /\ UNCHANGED <<op, call, effects, expired>>

-----------------------------------------------------------------------------
(* reserve_settlement_operation.                                           *)

LiveLease(k) == op[k].st = "in_progress" /\ op[k].live

\* Mutant: a reclaim does not look at fulfillments and checks under way.
Excluded_NoLeases(k) ==
  \/ /\ k \in {"fulfill", "check", "collect"}
     /\ ob.recl \in {"in_progress", "succeeded"}
  \/ /\ k = "reclaim"
     /\ \/ ob.coll \in {"in_progress", "succeeded"}
        \/ (ob.fref \/ ob.cond = "ready") /\ ~(ob.mst = "failed" /\ CleanedUp)

\* Mutant: a reclaim does not look at the collection.
Excluded_NoCollection(k) ==
  \/ /\ k \in {"fulfill", "check", "collect"}
     /\ ob.recl \in {"in_progress", "succeeded"}
  \/ /\ k = "reclaim"
     /\ \/ (ob.fref \/ ob.cond = "ready") /\ ~(ob.mst = "failed" /\ CleanedUp)
        \/ LiveLease("fulfill") \/ LiveLease("check")

\* Collect-versus-reclaim: what the reservation's transaction refuses.
Excluded(k) ==
  \/ /\ k \in {"fulfill", "check", "collect"}
     /\ ob.recl \in {"in_progress", "succeeded"}
  \/ /\ k = "reclaim"
     /\ \/ ob.coll \in {"in_progress", "succeeded"}
        \/ (ob.fref \/ ob.cond = "ready") /\ ~(ob.mst = "failed" /\ CleanedUp)
        \/ LiveLease("fulfill") \/ LiveLease("check")

\* Mutant: a succeeded operation is reserved again.
TerminalRow_Reenters(k) == op[k].st = "manual_required"

TerminalRow(k) == op[k].st \in {"succeeded", "manual_required"}

HeldByOther(c) == LiveLease(call[c].k) /\ op[call[c].k].owner # WorkerOf[c]

Reservable(c) ==
  ~Excluded(call[c].k) /\ ~TerminalRow(call[c].k) /\ ~HeldByOther(c)

\* Busy, or an operation that already ended.
ReserveRefused(c) ==
  /\ call[c].at = "loaded"
  /\ ~Reservable(c)
  /\ Set(c, Idle)
  /\ UNCHANGED <<ob, op, effects, expired>>

\* The lifecycle column a reservation moves with its row.
Begun(k) ==
  CASE k = "materialize" -> [ob EXCEPT !.mat = IF @ = "materialized" THEN @ ELSE "in_progress"]
    [] k = "collect" -> [ob EXCEPT !.coll = "in_progress"]
    [] k = "reclaim" -> [ob EXCEPT !.recl = "in_progress"]
    [] OTHER -> ob

\* What a caller does once its row is reserved: an adoption and a fulfillment
\* bound earlier go straight to their finish.
AfterReserve(c) ==
  CASE call[c].k = "materialize" /\ Adopts -> "ready"
    [] call[c].k = "fulfill" /\ call[c].fref -> "repair"
    [] OTHER -> "none"

Reserve(c) ==
  /\ call[c].at = "loaded"
  /\ Reservable(c)
  /\ op' = [op EXCEPT ![call[c].k] = [st |-> "in_progress", owner |-> WorkerOf[c], live |-> TRUE]]
  /\ ob' = Begun(call[c].k)
  /\ Set(c, [call[c] EXCEPT !.at = IF AfterReserve(c) = "none" THEN "reserved" ELSE "answered",
                            !.ans = AfterReserve(c)])
  /\ UNCHANGED <<effects, expired>>

-----------------------------------------------------------------------------
(* The mechanism, and the domain steps the journal wraps.                  *)

Answer(c, a) == Set(c, [call[c] EXCEPT !.at = "answered", !.ans = a])

\* The status an authority can truthfully report. It answers failed and
\* manual_required on its own judgement. "open" is an escrow seen unspent, of
\* which the client's clock decides whether it is ready or expired; a mechanism
\* that knows no expiry holds nothing and is always open.
True(s) ==
  CASE s = "collected" -> "collected" \in effects
    [] s = "reclaimed" -> "reclaimed" \in effects
    [] s = "open" -> "expired" \in Reports => effects = {}
    [] s \in {"pending", "failed"} -> effects = {}
    [] OTHER -> TRUE

\* The call raises: it never reached the mechanism, or its answer was lost.
Failures == {"error"} \cup (IF Halts THEN {"halt"} ELSE {})

\* What a caller may be answered without the mechanism doing anything.
Answers(k) ==
  CASE k = "materialize" -> {"ready", "pending", "manual_required"} \cup Failures
    [] k = "status"  -> {s \in (Reports \ {"ready", "expired"}) \cup {"open"} : True(s)} \cup Failures
    [] k = "check"   -> Decisions \cup Failures
    [] k \in {"collect", "reclaim"} -> Failures
    [] k = "fulfill" -> {"complete", "defer", "error", "halt"}
    [] k = "cleanup" -> {"done", "error"}
    [] OTHER -> {}

Ask(c, a) ==
  /\ call[c].at = "reserved" /\ call[c].ans = "none"
  /\ a \in Answers(call[c].k)
  /\ IF a = "open" THEN Set(c, [call[c] EXCEPT !.ans = a]) ELSE Answer(c, a)
  /\ UNCHANGED <<ob, op, effects, expired>>

\* get_status looks at its clock when the chain's answer arrives.
ReadClock(c) ==
  /\ call[c].at = "reserved" /\ call[c].k = "status" /\ call[c].ans = "open"
  /\ Answer(c, IF expired /\ "expired" \in Reports THEN "expired" ELSE "ready")
  /\ UNCHANGED <<ob, op, effects, expired>>

Effect(k) == IF k = "collect" THEN "collected" ELSE "reclaimed"

\* collect and reclaim_expired move the money once, a collection before the
\* expiry and a reclaim after it, and the answer may be lost.
Execute(c, a) ==
  /\ call[c].at = "reserved" /\ call[c].k \in {"collect", "reclaim"}
  /\ a \in {"done", "error"}
  /\ \/ effects = {}
     \/ Idempotent /\ effects = {Effect(call[c].k)}
  /\ "expired" \in Reports => (expired <=> call[c].k = "reclaim")
  /\ effects' = {Effect(call[c].k)}
  /\ Answer(c, a)
  /\ UNCHANGED <<ob, op, expired>>

\* Mutant: the reference is bound whatever the payer does.
Bind_Always(c) ==
  /\ call[c].at = "answered" /\ call[c].ans = "complete"
  /\ ob' = [ob EXCEPT !.fref = TRUE] /\ Answer(c, "bound")
  /\ UNCHANGED <<op, effects, expired>>

\* complete_fulfillment, first transaction. It does not look at the lease.
Bind(c) ==
  /\ call[c].at = "answered" /\ call[c].ans = "complete"
  /\ IF ob.fref \/ ob.recl \notin {"in_progress", "succeeded"}
     THEN ob' = [ob EXCEPT !.fref = TRUE] /\ Answer(c, "bound")
     ELSE Set(c, Idle) /\ UNCHANGED ob
  /\ UNCHANGED <<op, effects, expired>>

-----------------------------------------------------------------------------
(* finish_settlement_operation.                                            *)

\* The answers of a mechanism that replace mechanism_state.
StateAnswers == Reports \cup Decisions \cup {"ready", "pending", "manual_required", "done"}

\* _finish reads the fulfill row, only when a reason could be lost.
Carried(c) == Carries /\ call[c].k # "materialize"

MustRead(c) ==
  /\ call[c].k \in {"materialize", "status", "check", "collect", "reclaim"}
  /\ call[c].ans \in StateAnswers
  /\ call[c].reason /\ ~Carried(c)

ReadPark(c) ==
  /\ call[c].at = "answered" /\ MustRead(c)
  /\ Set(c, [call[c] EXCEPT !.at = "read",
                            !.parked = @ \/ op["fulfill"].st = "manual_required"])
  /\ UNCHANGED <<ob, op, effects, expired>>

\* Mutant: the write does not require the row to be in progress and its own.
ReadyToFinish_Unfenced(c, k) ==
  /\ call[c].k = k
  /\ call[c].at = IF MustRead(c) THEN "read" ELSE "answered"

ReadyToFinish(c, k) ==
  /\ call[c].k = k
  /\ call[c].at = IF MustRead(c) THEN "read" ELSE "answered"
  /\ op[k].st = "in_progress" /\ op[k].owner = WorkerOf[c]

\* Whether the written mechanism_state holds a reason: _finish_manual names
\* one, an error writes none, and _keep_parked_reason carries the one loaded.
Reason(c) ==
  CASE call[c].ans = "halt" -> TRUE
    [] call[c].ans \in StateAnswers /\ call[c].k # "cleanup" ->
         call[c].reason /\ (Carried(c) \/ call[c].parked)
    [] OTHER -> ob.reason

Release(c, st) ==
  /\ op' = [op EXCEPT ![call[c].k].st = st, ![call[c].k].owner = NoOwner,
                      ![call[c].k].live = FALSE]
  /\ Set(c, Idle)
  /\ UNCHANGED <<effects, expired>>

\* "settlement operation lease was lost": the row is not the caller's to finish.
LeaseLost(c) ==
  /\ call[c].at \in {"answered", "read"} /\ call[c].ans # "complete"
  /\ ~ReadyToFinish(c, call[c].k) /\ ~(call[c].at = "answered" /\ MustRead(c))
  /\ Set(c, Idle)
  /\ UNCHANGED <<ob, op, effects, expired>>

\* A materialization that needs repair has an empty reference.
FinishMaterialize(c) ==
  /\ ReadyToFinish(c, "materialize")
  /\ LET a == call[c].ans
         st == CASE a = "ready" -> "succeeded"
                 [] a \in {"halt", "manual_required"} -> "manual_required"
                 [] OTHER -> "pending"
     IN /\ Release(c, st)
        /\ ob' = [ob EXCEPT
             !.mat = IF a = "ready" THEN "materialized" ELSE st,
             !.mref = a \in {"ready", "pending"} \/ (@ /\ a # "manual_required"),
             !.mst = IF a \in {"ready", "pending", "manual_required"} THEN a ELSE @,
             !.reason = Reason(c)]

\* A status that ends the polling ends the row.
StatusState(a) ==
  CASE a \in {"manual_required", "halt"} -> "manual_required"
    [] a \in {"reclaimed", "expired", "failed"} -> "succeeded"
    [] a = "collected" /\ ~Monitors -> "succeeded"
    [] OTHER -> "pending"

FinishStatus(c) ==
  /\ ReadyToFinish(c, "status")
  /\ LET a == call[c].ans IN
     /\ Release(c, StatusState(a))
     /\ ob' = [ob EXCEPT
          !.mst = IF a \in Reports THEN a ELSE @,
          !.reason = Reason(c),
          !.mat = CASE ob.coll # "succeeded" /\ a = "manual_required" -> "manual_required"
                    [] /\ ob.coll # "succeeded"
                       /\ a \in {"ready", "collected", "reclaimed", "expired"} -> "materialized"
                    [] OTHER -> @,
          !.coll = IF a = "collected" THEN "succeeded" ELSE @,
          !.recl = IF a = "reclaimed" THEN "succeeded" ELSE @,
          !.cond = IF a = "failed" THEN "failed" ELSE @]

\* Mutant: the answer is written as it came, failures included.
FinishCheck_Raw(c) ==
  /\ ReadyToFinish(c, "check")
  /\ Release(c, IF call[c].ans = "ready" THEN "succeeded" ELSE "pending")
  /\ ob' = [ob EXCEPT !.cond = call[c].ans, !.reason = Reason(c)]

FinishCheck(c) ==
  /\ ReadyToFinish(c, "check")
  /\ LET a == CASE call[c].ans = "error" -> "pending"
                [] call[c].ans = "halt" -> "manual_required"
                [] OTHER -> call[c].ans
     IN /\ Release(c, IF a \in {"ready", "failed"} THEN "succeeded" ELSE a)
        /\ ob' = [ob EXCEPT !.cond = a, !.reason = Reason(c)]

\* Mutant: an uncertain acknowledgement is taken for a success.
EffectState_Optimistic(a) == IF a = "halt" THEN "manual_required" ELSE "succeeded"

EffectState(a) ==
  CASE a = "done" -> "succeeded" [] a = "halt" -> "manual_required" [] OTHER -> "pending"

\* The obligation row is not written once the other effect succeeded.
FinishCollect(c) ==
  /\ ReadyToFinish(c, "collect")
  /\ Release(c, EffectState(call[c].ans))
  /\ ob' = IF ob.recl = "succeeded" THEN ob
           ELSE [ob EXCEPT !.coll = EffectState(call[c].ans), !.reason = Reason(c)]

FinishReclaim(c) ==
  /\ ReadyToFinish(c, "reclaim")
  /\ Release(c, EffectState(call[c].ans))
  /\ ob' = IF ob.coll = "succeeded" THEN ob
           ELSE [ob EXCEPT !.recl = EffectState(call[c].ans), !.reason = Reason(c)]

\* A fulfillment has no lifecycle column; a park writes its reason.
FinishFulfill(c) ==
  /\ ReadyToFinish(c, "fulfill") /\ call[c].ans # "complete"
  /\ Release(c, CASE call[c].ans \in {"bound", "repair"} -> "succeeded"
                  [] call[c].ans = "halt" -> "manual_required"
                  [] OTHER -> "pending")
  /\ ob' = [ob EXCEPT !.reason = Reason(c)]

FinishCleanup(c) ==
  /\ ReadyToFinish(c, "cleanup")
  /\ Release(c, IF call[c].ans = "done" THEN "succeeded" ELSE "pending")
  /\ UNCHANGED ob

-----------------------------------------------------------------------------
(* The environment.                                                        *)

\* The lease's time passes; the row keeps its owner until somebody takes over.
ExpireLease(k) ==
  /\ LiveLease(k)
  /\ op' = [op EXCEPT ![k].live = FALSE]
  /\ UNCHANGED <<ob, call, effects, expired>>

Expire ==
  /\ ~expired /\ expired' = TRUE
  /\ UNCHANGED <<ob, op, call, effects>>

\* The payer takes an expired escrow back at the mechanism, past the journal.
DirectReclaim ==
  /\ expired /\ effects = {}
  /\ effects' = {"reclaimed"}
  /\ UNCHANGED <<ob, op, call, expired>>

\* A worker's process stops: every operation it was running is forgotten.
Crash(w) ==
  /\ \E c \in Callers : WorkerOf[c] = w /\ call[c].at # "idle"
  /\ call' = [c \in Callers |-> IF WorkerOf[c] = w THEN Idle ELSE call[c]]
  /\ UNCHANGED <<ob, op, effects, expired>>

Finish(c) ==
  \/ FinishMaterialize(c) \/ FinishStatus(c) \/ FinishCheck(c)
  \/ FinishCollect(c) \/ FinishReclaim(c)
  \/ FinishFulfill(c) \/ FinishCleanup(c)

Step(c) ==
  \/ \E k \in Kinds : Load(c, k)
  \/ BindFulfillment(c) \/ ReserveRefused(c) \/ Reserve(c)
  \/ \E a \in Answers(call[c].k) : Ask(c, a)
  \/ \E a \in {"done", "error"} : Execute(c, a)
  \/ ReadClock(c) \/ Bind(c) \/ ReadPark(c) \/ LeaseLost(c) \/ Finish(c)

Next ==
  \/ \E c \in Callers : Step(c)
  \/ \E k \in Kinds : ExpireLease(k)
  \/ \E w \in Workers : Crash(w)
  \/ Expire
  \/ DirectReclaim

Spec == Init /\ [][Next]_vars

-----------------------------------------------------------------------------
(* Properties.                                                             *)

EffectStates == {"pending", "in_progress", "succeeded", "manual_required"}

Obligations ==
  [mat : {"pending", "in_progress", "materialized", "manual_required"},
   cond : {"pending", "ready", "failed", "manual_required"},
   coll : EffectStates, recl : EffectStates,
   mst : Reports \cup {"none", "ready", "pending", "manual_required"},
   mref : BOOLEAN, fref : BOOLEAN, reason : BOOLEAN]

Rows == [st : {"absent"} \cup EffectStates, owner : Workers \cup {NoOwner}, live : BOOLEAN]

Calls ==
  [at : {"idle", "loaded", "reserved", "answered", "read"}, k : Kinds \cup {"none"},
   fref : BOOLEAN, reason : BOOLEAN, parked : BOOLEAN,
   ans : StateAnswers \cup {"none", "open", "error", "halt", "complete", "defer", "repair", "bound"}]

\* The journal's rows, the calls in flight and the money hold values of their types.
TypeOK ==
  /\ ob \in Obligations
  /\ op \in [Kinds -> Rows]
  /\ call \in [Callers -> Calls]
  /\ effects \in {{}, {"collected"}, {"reclaimed"}}
  /\ expired \in BOOLEAN

\* Collect-versus-reclaim: while the payer's reclaim is in progress no
\* collection is, nobody holds a live lease to fulfil or check, and a
\* fulfillment already bound had its domain cleanup completed first.
ReclaimAlone ==
  ob.recl = "in_progress" =>
    /\ ob.coll # "in_progress"
    /\ ~LiveLease("fulfill") /\ ~LiveLease("check")
    /\ ob.fref => CleanedUp

\* The journal never records a payout or a refund that the mechanism did not
\* make, whatever stale, lost or repeated answers it was given.
JournalTruthful ==
  /\ ob.coll = "succeeded" => "collected" \in effects
  /\ ob.recl = "succeeded" => "reclaimed" \in effects

\* Money is collected only for a delivery that was bound and passed its check:
\* no late writer of condition_state takes the check back under a collection.
CollectedAfterCheck ==
  ob.coll # "pending" => ob.fref /\ op["check"].st = "succeeded"

\* A recorded collection is never taken back by a call that answers late.
CollectionFinal == [][ob.coll = "succeeded" => ob'.coll = "succeeded"]_vars

\* The journal never asks the mechanism to return the payer's money for a
\* delivery that is bound and whose cleanup has not completed.
DeliveryNotUndercut ==
  \A c \in Callers :
    call[c].at = "reserved" /\ call[c].k = "reclaim" => (ob.fref => CleanedUp)

\* "Collection races reclaim": two callers never hold, at the same time, the
\* reservations that let them ask the mechanism to collect and to reclaim.
Invoking(c, k) ==
  /\ call[c].at = "reserved" /\ call[c].k = k
  /\ op[k].st = "in_progress" /\ op[k].owner = WorkerOf[c]

OneInvoker ==
  \A c, d \in Callers : ~(Invoking(c, "collect") /\ Invoking(d, "reclaim"))

\* What makes these inductive: a call's answer is one its operation can get;
\* an effect's row in progress shows in its lifecycle column, where the other
\* effect's reservation looks, and the two rows are not in progress at once.
AnswersFit ==
  \A c \in Callers : call[c].at \in {"answered", "read"} =>
    /\ call[c].k = "check" => call[c].ans \in Decisions \cup {"error", "halt"}
    /\ call[c].k = "status" => call[c].ans \in Reports \cup {"ready", "error", "halt"}

RowsAgree ==
  /\ op["collect"].st = "in_progress" => ob.coll \in {"in_progress", "succeeded"}
  /\ op["reclaim"].st = "in_progress" => ob.recl \in {"in_progress", "succeeded"}
  /\ ~(op["collect"].st = "in_progress" /\ op["reclaim"].st = "in_progress")

\* A mechanism that leaves it to the journal to record effects.
ReportsNoEffect == Reports \cap {"collected", "reclaimed"} = {}

JournalInv == TypeOK /\ AnswersFit /\ ReclaimAlone

\* The obligation, as SettlementPromise sees it.
Delivery ==
  IF op["check"].st = "succeeded" THEN "checked" ELSE IF ob.fref THEN "bound" ELSE "none"

Money ==
  IF "collected" \in effects THEN "paid"
  ELSE IF "reclaimed" \in effects THEN "refunded" ELSE "held"

Book ==
  IF ob.coll = "succeeded" THEN "paid"
  ELSE IF ob.recl = "succeeded" THEN "refunded" ELSE "open"

Promise ==
  INSTANCE SettlementPromise WITH delivery <- Delivery, money <- Money, book <- Book

\* The journal implements what the runtime promises of an obligation's money:
\* moved once, paid only for a checked delivery, and recorded for good only
\* after it moved, whatever is taken over, lost or answered late.
KeepsSettlementPromise == Promise!Spec
=============================================================================
