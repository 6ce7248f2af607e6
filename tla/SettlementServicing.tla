------------------------ MODULE SettlementServicing ------------------------
(***************************************************************************)
(* The servicing worker over the settlement journal: passes that poll one  *)
(* obligation's status and take its next step, the due list and backoff    *)
(* that bring a pass back, and the domain's terminal callback, which ends  *)
(* the service the buyer is paying for.                                    *)
(*                                                                         *)
(* A pass runs the journal's operations one after the other and reads the  *)
(* obligation afresh between them; passes of the timer and of a request    *)
(* that services the obligation at once interleave at every step.  Callers *)
(* that are not servicers run journal operations of their own.             *)
(***************************************************************************)
EXTENDS SettlementJournal

CONSTANTS
  Timers,    \* the storefront's timer loops: their passes follow the due list
  Pokes,     \* requests that service the obligation at once
  Starts,    \* an on_ready hook starts fulfillment (bare metal)
  Abandons,  \* every outcome but a collection ends the service (VMs)
  MaxStops   \* bound on process stops

Servicers == Timers \cup Pokes

ASSUME ServicingAssumption ==
  /\ Servicers \subseteq Callers
  /\ {Starts, Abandons} \subseteq BOOLEAN /\ MaxStops \in Nat
  /\ \A c \in Servicers : {"status", "fulfill", "check", "collect", "cleanup"} \subseteq Duties[c]

VARIABLES
  pass,    \* where each servicer's pass is
  later,   \* the operations whose next_attempt_unix lies ahead
  mark,    \* awaiting_delivery of the fulfill row
  ended,   \* the domain has ended the buyer's service
  stops    \* process stops so far

servicingVars == <<ob, op, call, effects, expired, pass, later, mark, ended, stops>>

Off == [at |-> "off", k |-> "none", out |-> "none", quiet |-> FALSE, paid |-> FALSE]

ServicingInit ==
  /\ Init
  /\ pass = [c \in Servicers |-> Off]
  /\ later = {} /\ mark = FALSE /\ ended = FALSE /\ stops = 0

Pass(c, new) == pass' = [pass EXCEPT ![c] = new]

-----------------------------------------------------------------------------
(* Which obligations a timer services.                                     *)

\* Mutant: a failed escrow is not a matter for its cleanup.
DueOperation_NoCleanup ==
  IF ob.mst # "ready" THEN "status"
  ELSE IF ~ob.fref THEN "fulfill"
  ELSE IF ob.cond = "ready" THEN "collect" ELSE "check"

\* The operation whose row and schedule govern the next pass.
DueOperation ==
  IF ob.coll = "succeeded" THEN "status"
  ELSE IF ob.mst = "failed" THEN "cleanup"
  ELSE IF ob.mst = "ready" /\ ~ob.fref THEN "fulfill"
  ELSE IF ob.cond = "ready" THEN "collect"
  ELSE IF ob.mst = "ready" THEN "check"
  ELSE "status"

\* The obligation has not reached an end of its own.
Serviceable ==
  /\ ob.fref \/ ob.mst = "ready"
  /\ \/ ob.coll \notin {"succeeded", "manual_required"}
     \/ ob.coll = "succeeded" /\ Monitors
  /\ ob.recl \notin {"succeeded", "manual_required"}
  /\ \/ ob.cond \notin {"failed", "manual_required"}
     \/ ob.cond = "failed" /\ ob.mst = "failed" /\ ob.coll # "succeeded"
  /\ \/ ob.mst \notin {"collected", "reclaimed", "expired", "failed", "manual_required"}
     \/ ob.mst = "collected" /\ Monitors
     \/ ob.mst = "failed" /\ ob.coll # "succeeded"

\* Mutant: a row that its holder left in progress is never due.
Due_NoTakeover ==
  /\ Serviceable
  /\ op[DueOperation].st \in {"absent", "pending"}
  /\ DueOperation \notin later
  /\ "status" \notin later /\ ~LiveLease("status")

Due ==
  /\ Serviceable
  /\ op[DueOperation].st \in {"absent", "pending", "in_progress"} /\ ~LiveLease(DueOperation)
  /\ DueOperation \notin later
  /\ "status" \notin later /\ ~LiveLease("status")

-----------------------------------------------------------------------------
(* A pass.                                                                 *)

\* run_once lists the obligation, or service_obligation loads it.
Start(c) ==
  /\ pass[c].at = "off"
  /\ c \in Timers => Due
  /\ c \in Pokes => ob.mref
  /\ Pass(c, [Off EXCEPT !.at = "call", !.k = "status", !.paid = (ob.coll = "succeeded")])
  /\ UNCHANGED <<ob, op, call, effects, expired, later, mark, ended, stops>>

\* The pass calls the runtime, which loads the record and may refuse at once.
Begin(c) ==
  /\ pass[c].at = "call" /\ Load(c, pass[c].k)
  /\ Pass(c, [pass[c] EXCEPT !.at = "running"])
  /\ UNCHANGED <<later, mark, ended, stops>>

Settled == (ob.coll = "succeeded" /\ ~Monitors) \/ ob.recl = "succeeded"

Refuse(c) ==
  /\ pass[c].at = "call" /\ ~Allowed(pass[c].k)
  /\ Pass(c, [pass[c] EXCEPT !.at = "returned",
                !.out = IF pass[c].k = "status" /\ Settled THEN "terminal" ELSE "error"])
  /\ UNCHANGED <<ob, op, call, effects, expired, later, mark, ended, stops>>

\* Mutant: an operation returns the mechanism's answer as it came.
Outcome_Raw(c) == IF call[c].at = "loaded" THEN "busy" ELSE call[c].ans

\* What the runtime's operation returns: the row's end if it had ended, busy
\* if somebody holds it; "error" is any exception, "lost" one that the
\* cleanup's own retry raises again.
Outcome(c) ==
  LET k == call[c].k  a == call[c].ans IN
  IF call[c].at = "loaded"
  THEN IF ~Excluded(k) /\ TerminalRow(k) THEN op[k].st ELSE "busy"
  ELSE IF ~ReadyToFinish(c, k) THEN IF k = "cleanup" THEN "lost" ELSE "error"
  ELSE IF a \in {"complete", "error"} THEN "error"
  ELSE CASE k = "status" -> StatusState(a)
         [] k = "check" -> CASE a = "ready" -> "succeeded" [] a = "failed" -> "terminal"
                             [] a = "halt" -> "manual_required" [] OTHER -> a
         [] OTHER -> EffectState(a)

\* The journal's steps of the operation under way. The cleanup's domain step
\* is the terminal callback itself.
Journalled(c) ==
  \/ ReserveRefused(c) \/ Reserve(c)
  \/ \E a \in Answers(call[c].k) : Ask(c, a)
  \/ \E a \in {"done", "error"} : Execute(c, a)
  \/ ReadClock(c) \/ Bind(c) \/ ReadPark(c) \/ LeaseLost(c) \/ Finish(c)

Work(c) ==
  /\ pass[c].at = "running"
  /\ Journalled(c)
  /\ Pass(c, IF call'[c].at # "idle" THEN pass[c]
             ELSE [pass[c] EXCEPT !.at = "returned", !.out = Outcome(c)])
  /\ later' = IF op' = op THEN later ELSE later \ {call[c].k}
  /\ mark' = IF op' = op \/ call[c].k # "fulfill" THEN mark
             ELSE call[c].at # "loaded" /\ (call[c].ans = "defer" \/ mark)
  /\ ended' = (ended \/ (call[c].k = "cleanup" /\ call'[c].ans = "done"))
  /\ UNCHANGED stops

\* What the pass goes on to do.
Call(c, k) == [pass[c] EXCEPT !.at = "call", !.k = k]

\* _schedule, called by the pass itself or, quietly, by its error handler.
Schedule(c, k) == [pass[c] EXCEPT !.at = "schedule", !.k = k, !.quiet = FALSE]
Retry(c, k) == [pass[c] EXCEPT !.at = "schedule", !.k = k, !.quiet = TRUE]

\* The outcomes on which the domain's terminal callback ends the service.
Ends(outcome, paid) ==
  IF Abandons THEN outcome # "collected" /\ ~paid
  ELSE outcome \in {"expired", "reclaimed", "failed"}

\* _terminal, with the record it is given.
Terminal(c, outcome, paid) ==
  IF Ends(outcome, paid) THEN [pass[c] EXCEPT !.at = "ending"] ELSE Off

Paid == ob.coll = "succeeded"

CheckOrCollect(c) ==
  CASE ob.cond = "pending" -> Call(c, "check")
    [] ob.cond = "ready" -> Call(c, "collect")
    [] OTHER -> Off

\* _service reads the record once the status call has returned.
AfterStatus(c) ==
  LET out == pass[c].out IN
  IF out = "error" THEN Retry(c, "status")
  ELSE IF out = "busy" THEN Off
  ELSE IF ob.mst = "failed" /\ ob.fref /\ ~Paid THEN Call(c, "cleanup")
  ELSE IF out = "terminal" \/ ob.mst \in {"reclaimed", "expired", "failed", "manual_required"}
  THEN Terminal(c, ob.mst, Paid)
  ELSE IF Paid THEN IF Monitors THEN Schedule(c, "status") ELSE Terminal(c, "collected", Paid)
  ELSE IF ob.mst # "ready" THEN Schedule(c, "status")
  ELSE IF ob.fref THEN CheckOrCollect(c)
  ELSE IF Starts THEN Call(c, "fulfill") ELSE Schedule(c, "fulfill")

\* A hook that returned: fulfilled, waiting for delivery, or neither.
AfterFulfill(c) ==
  IF pass[c].out = "error" THEN Retry(c, "fulfill")
  ELSE IF ob.fref THEN CheckOrCollect(c)
  ELSE IF op["fulfill"].st = "pending" /\ mark THEN [pass[c] EXCEPT !.at = "recheck", !.quiet = FALSE]
  ELSE Schedule(c, "fulfill")

AfterCheck(c) ==
  LET out == pass[c].out IN
  CASE out = "error" -> Retry(c, "check")
    [] out = "busy" -> Off
    [] out = "pending" -> Schedule(c, "check")
    [] out \in {"manual_required", "terminal"} -> Terminal(c, ob.cond, Paid)
    [] OTHER -> IF ob.cond = "ready" THEN Call(c, "collect") ELSE Off

\* Mutant: a collection of unknown outcome is taken for a failed settlement.
AfterCollect_Fails(c) ==
  CASE pass[c].out = "error" -> Terminal(c, "failed", Paid)
    [] pass[c].out = "succeeded" -> Terminal(c, "collected", Paid)
    [] OTHER -> Off

AfterCollect(c) ==
  CASE pass[c].out = "error" -> Retry(c, "collect")
    [] pass[c].out = "succeeded" -> Terminal(c, "collected", Paid)
    [] pass[c].out = "manual_required" -> Terminal(c, "manual_required", Paid)
    [] OTHER -> Off

AfterCleanup(c) ==
  CASE pass[c].out = "error" -> Retry(c, "cleanup")
    [] pass[c].out = "lost" -> Terminal(c, "manual_required", pass[c].paid)
    [] OTHER -> Off

Decide(c) ==
  /\ pass[c].at = "returned"
  /\ Pass(c, CASE pass[c].k = "status" -> AfterStatus(c)
               [] pass[c].k = "fulfill" -> AfterFulfill(c)
               [] pass[c].k = "check" -> AfterCheck(c)
               [] pass[c].k = "collect" -> AfterCollect(c)
               [] pass[c].k = "cleanup" -> AfterCleanup(c))
  /\ UNCHANGED <<ob, op, call, effects, expired, later, mark, ended, stops>>

\* _schedule reads the row; a row that is not pending needs no retry.
ReadSchedule(c) ==
  /\ pass[c].at = "schedule"
  /\ Pass(c, IF op[pass[c].k].st = "pending" THEN [pass[c] EXCEPT !.at = "write"] ELSE Off)
  /\ UNCHANGED <<ob, op, call, effects, expired, later, mark, ended, stops>>

\* schedule_settlement_retry, with a backoff or, for a delivery awaited, at
\* the due time that is already written. A row that moved on since the read
\* is a KeyError, which a pass reports to the domain as manual_required.
WriteSchedule(c) ==
  /\ pass[c].at \in {"write", "recheck"}
  /\ IF op[pass[c].k].st = "pending"
     THEN /\ later' = IF pass[c].at = "write" THEN later \cup {pass[c].k} ELSE later
          /\ mark' = (mark /\ pass[c].k # "fulfill")
          /\ Pass(c, Off)
     ELSE /\ Pass(c, IF pass[c].quiet THEN Off
                     ELSE Terminal(c, "manual_required", pass[c].paid))
          /\ UNCHANGED <<later, mark>>
  /\ UNCHANGED <<ob, op, call, effects, expired, ended, stops>>

\* The terminal callback ends the service, or fails and is only logged.
End(c) ==
  /\ pass[c].at = "ending"
  /\ Pass(c, Off)
  /\ ended' \in {ended, TRUE}
  /\ UNCHANGED <<ob, op, call, effects, expired, later, mark, stops>>

Service(c) ==
  \/ Begin(c) \/ Refuse(c) \/ Work(c) \/ Decide(c)
  \/ ReadSchedule(c) \/ WriteSchedule(c) \/ End(c)

-----------------------------------------------------------------------------
(* The environment.                                                        *)

\* A backoff's time comes.
BackoffPasses(k) ==
  /\ k \in later /\ later' = later \ {k}
  /\ UNCHANGED <<ob, op, call, effects, expired, pass, mark, ended, stops>>

\* wake: an operator or a bound delivery makes every pending operation due.
Wake ==
  /\ later # {}
  /\ later' = {k \in later : op[k].st # "pending"}
  /\ UNCHANGED <<ob, op, call, effects, expired, pass, mark, ended, stops>>

\* Callers outside servicing run the journal's operations.
Other(c) ==
  /\ Step(c)
  /\ later' = IF op' = op THEN later ELSE later \ {call[c].k}
  /\ UNCHANGED <<pass, mark, ended, stops>>

\* A process stops, with every pass it was running.
Stop(w) ==
  /\ stops < MaxStops /\ stops' = stops + 1
  /\ \E c \in Servicers : WorkerOf[c] = w /\ pass[c].at # "off"
  /\ call' = [c \in Callers |-> IF WorkerOf[c] = w THEN Idle ELSE call[c]]
  /\ pass' = [c \in Servicers |-> IF WorkerOf[c] = w THEN Off ELSE pass[c]]
  /\ UNCHANGED <<ob, op, effects, expired, later, mark, ended>>

Environment ==
  \/ \E k \in Kinds : ExpireLease(k) /\ UNCHANGED <<pass, later, mark, ended, stops>>
  \/ Expire /\ UNCHANGED <<pass, later, mark, ended, stops>>
  \/ DirectReclaim /\ UNCHANGED <<pass, later, mark, ended, stops>>
  \/ \E k \in Kinds : BackoffPasses(k)
  \/ Wake
  \/ \E w \in Workers : Stop(w)

ServicingNext ==
  \/ \E c \in Servicers : Start(c) \/ Service(c)
  \/ \E c \in Callers \ Servicers : Other(c)
  \/ Environment

\* Ending the service succeeds eventually, if it is tried over and over.
CleanupAnswered(c) == Work(c) /\ call[c].k = "cleanup" /\ call'[c].ans = "done"

\* The timer loop goes round, a pass goes on, and time passes.
Fairness ==
  /\ \A c \in Timers : WF_servicingVars(Start(c))
  /\ \A c \in Servicers :
       /\ WF_servicingVars(Service(c))
       /\ SF_servicingVars(CleanupAnswered(c))
  /\ \A k \in Kinds : WF_servicingVars(ExpireLease(k) /\ UNCHANGED <<pass, later, mark, ended, stops>>)
  /\ \A k \in Kinds : WF_servicingVars(BackoffPasses(k))

ServicingSpec == ServicingInit /\ [][ServicingNext]_servicingVars
FairServicing == ServicingSpec /\ Fairness

-----------------------------------------------------------------------------
(* Properties.                                                             *)

PassRecords ==
  [at : {"off", "call", "running", "returned", "schedule", "write", "recheck", "ending"},
   k : Kinds \cup {"none"},
   out : {"none", "busy", "error", "lost", "terminal"} \cup EffectStates,
   quiet : BOOLEAN, paid : BOOLEAN]

\* Passes, schedules and marks hold values of their types.
ServicingTypeOK ==
  /\ TypeOK
  /\ pass \in [Servicers -> PassRecords]
  /\ later \subseteq Kinds
  /\ {mark, ended} \subseteq BOOLEAN /\ stops \in 0..MaxStops

\* The service ends only with the settlement: an obligation the worker would
\* still service keeps it, unless its escrow has failed and it is cleaned up.
EndedAtAnEnd == [][~ended /\ ended' => ~Serviceable \/ ob.mst = "failed"]_servicingVars

Active == \E c \in Servicers : pass[c].at # "off"

\* An obligation that has not ended, and whose fulfillment is not parked for
\* an operator, always comes round to another pass, whatever failed, was left
\* in progress by a crash, or was backed off before.
Waiting ==
  /\ Serviceable
  /\ DueOperation = "fulfill" => op["fulfill"].st # "manual_required"
  /\ DueOperation = "cleanup" => ~CleanedUp

StaysServiced == Waiting ~> (Active \/ ~Waiting)

\* A delivery whose escrow failed before collection has its domain cleanup
\* completed, without which the payer's reclaim is refused for good.
FailedDeliveryCleaned == (ob.mst = "failed" /\ ob.fref /\ ob.coll # "succeeded") ~> CleanedUp
=============================================================================
