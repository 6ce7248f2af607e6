---------------------- MODULE SettlementServicingProofs ----------------------
(***************************************************************************)
(* For every set of servicers, callers and workers: the servicing worker   *)
(* runs the journal as the journal allows, so the journal's theorems hold  *)
(* under it; passes keep their types; and where escrows are adopted and    *)
(* only an end of the settlement ends the service, the service ends only   *)
(* with the settlement.                                                    *)
(***************************************************************************)
EXTENDS SettlementServicing, SettlementJournalProofs

-----------------------------------------------------------------------------
(* The invariants.                                                         *)

\* A call that has ended has forgotten everything.
IdleCalls == \A c \in Callers : call[c].at = "idle" => call[c] = Idle

PassKinds == {"status", "fulfill", "check", "collect", "cleanup"}

\* A servicer is in a journal call exactly while its pass runs one, and it is
\* the call its pass asked for.
PassFits(c) ==
  /\ pass[c].at \in {"call", "running", "returned"} => pass[c].k \in PassKinds
  /\ pass[c].at \in {"schedule", "write", "recheck"} => pass[c].k \in Kinds
  /\ pass[c].at = "running" => call[c].at # "idle" /\ call[c].k = pass[c].k
  /\ pass[c].at # "running" => call[c].at = "idle"

PassesFit == \A c \in Servicers : PassFits(c)

ServicingInv == JournalInv /\ IdleCalls /\ ServicingTypeOK /\ PassesFit

\* Adoption is the materialization's one answer, and everything later in the
\* journal waits for it.
AdoptedFirst ==
  /\ ob.mref \/ ob.mst # "none" => op["materialize"].st = "succeeded"
  /\ \A c \in Callers : call[c].k = "materialize" =>
       /\ call[c].at # "reserved"
       /\ call[c].at \in {"answered", "read"} => call[c].ans = "ready"
  /\ \A c \in Callers :
       call[c].k = "status" /\ call[c].at # "idle" => op["materialize"].st = "succeeded"

\* The settlement has come to nothing.
LostStates == {"failed", "expired", "reclaimed"}
Hopeless == ob.mst \in LostStates \/ ob.cond = "failed"

\* The rows that would have to be written for such an end to be undone ended.
LossFinal ==
  /\ ob.mst \in LostStates => op["status"].st = "succeeded"
  /\ ob.cond = "failed" => op["check"].st = "succeeded" \/ ob.mst = "failed"

\* Who ends the service does so because the settlement has come to nothing.
EndsHopeless ==
  /\ \A c \in Servicers : pass[c].at = "ending" => Hopeless
  /\ \A c \in Servicers :
       pass[c].at \in {"call", "running"} /\ pass[c].k = "cleanup" => ob.mst = "failed"
  /\ ended => Hopeless

EndInv == AdoptedFirst /\ LossFinal /\ EndsHopeless

-----------------------------------------------------------------------------
(* The worker runs the journal as the journal allows.                      *)

\* Every step of the journal that ends a call forgets it.
LEMMA IdleStep == TypeOK /\ IdleCalls /\ [Next]_vars => IdleCalls'
<1> SUFFICES ASSUME TypeOK, IdleCalls, [Next]_vars, NEW d \in Callers, call'[d].at = "idle"
             PROVE  call'[d] = Idle
  BY DEF IdleCalls
<1>0. call \in [Callers -> Calls] /\ call[d] \in Calls
  BY DEF TypeOK
<1>1. CASE Step(d)
  <2>1. ASSUME NEW k \in Kinds, Load(d, k) PROVE FALSE
    BY <1>0, <2>1 DEF Load, Set, Idle
  <2>2. ASSUME NEW a \in Answers(call[d].k), Ask(d, a) PROVE FALSE
    BY <1>0, <2>2 DEF Ask, Answer, Set, Calls
  <2>3. ASSUME NEW a \in {"done", "error"}, Execute(d, a) PROVE FALSE
    BY <1>0, <2>3 DEF Execute, Answer, Set, Calls
  <2>4. ASSUME Reserve(d) PROVE FALSE
    BY <1>0, <2>4 DEF Reserve, Set, Calls
  <2>5. ASSUME ReadClock(d) PROVE FALSE
    BY <1>0, <2>5 DEF ReadClock, Answer, Set, Calls
  <2>6. ASSUME Bind(d) PROVE call'[d] = Idle
    <3>1. \/ call' = [call EXCEPT ![d] = [call[d] EXCEPT !.at = "answered", !.ans = "bound"]]
          \/ call' = [call EXCEPT ![d] = Idle]
      BY <2>6 DEF Bind, Answer, Set
    <3> QED
      BY <1>0, <3>1 DEF Calls
  <2>7. ASSUME ReadPark(d) PROVE FALSE
    BY <1>0, <2>7 DEF ReadPark, Set, Calls
  <2>8. ASSUME ReserveRefused(d) \/ LeaseLost(d) \/ Finish(d) PROVE call'[d] = Idle
    BY <2>8, CallEnds
  <2>9. CASE BindFulfillment(d)
    BY <2>9 DEF BindFulfillment, IdleCalls
  <2> QED
    BY <1>1, <2>1, <2>2, <2>3, <2>4, <2>5, <2>6, <2>7, <2>8, <2>9 DEF Step
<1>2. ASSUME NEW w \in Workers, Crash(w) PROVE call'[d] = Idle
  <2>1. call'[d] = IF WorkerOf[d] = w THEN Idle ELSE call[d]
    BY <1>2 DEF Crash
  <2> QED
    BY <2>1 DEF IdleCalls
<1>3. CASE call'[d] = call[d]
  BY <1>3 DEF IdleCalls
<1> QED
  BY <1>1, <1>2, <1>3, OthersKeep DEF Next, ExpireLease, Expire, DirectReclaim, vars

\* Every step of the worker, and of the callers beside it, is a step of the
\* journal or leaves the journal as it is. A stop is the crash of a worker.
LEMMA JournalSteps == TypeOK /\ IdleCalls /\ [ServicingNext]_servicingVars => [Next]_vars
<1> SUFFICES ASSUME TypeOK, IdleCalls, [ServicingNext]_servicingVars PROVE [Next]_vars
  OBVIOUS
<1> USE ServicingAssumption
<1>1. ASSUME NEW c \in Servicers, Begin(c) PROVE Next
  <2>1. PICK k : Load(c, k)
    BY <1>1 DEF Begin
  <2>2. k \in Kinds /\ c \in Callers
    BY <2>1 DEF Load
  <2> QED
    BY <2>1, <2>2 DEF Next, Step
<1>2. ASSUME NEW c \in Servicers, Work(c) PROVE Next
  <2>1. c \in Callers
    BY <1>2
  <2>2. Step(c)
    BY <1>2 DEF Work, Journalled, Step
  <2> QED
    BY <2>1, <2>2 DEF Next
<1>3. ASSUME NEW c \in Callers, Other(c) PROVE Next
  BY <1>3 DEF Other, Next
<1>4. ASSUME NEW w \in Workers, Stop(w) PROVE [Next]_vars
  <2>1. CASE \E c \in Callers : WorkerOf[c] = w /\ call[c].at # "idle"
    BY <1>4, <2>1 DEF Stop, Crash, Next
  <2>2. CASE \A c \in Callers : WorkerOf[c] = w => call[c].at = "idle"
    <3>1. \A c \in Callers : call'[c] = call[c]
      BY <1>4, <2>2 DEF Stop, IdleCalls
    <3>2. call' = call
      BY <1>4, <3>1 DEF Stop, TypeOK
    <3> QED
      BY <1>4, <3>2 DEF Stop, vars
  <2> QED
    BY <2>1, <2>2
<1>5. CASE Environment
  BY <1>4, <1>5 DEF Environment, Next, BackoffPasses, Wake, vars
<1>6. ASSUME NEW c \in Servicers, Start(c) \/ Refuse(c) \/ Decide(c) \/ ReadSchedule(c)
                                   \/ WriteSchedule(c) \/ End(c)
      PROVE  UNCHANGED vars
  BY <1>6 DEF Start, Refuse, Decide, ReadSchedule, WriteSchedule, End, vars
<1>7. CASE UNCHANGED servicingVars
  BY <1>7 DEF servicingVars, vars
<1> QED
  BY <1>1, <1>2, <1>3, <1>5, <1>6, <1>7 DEF ServicingNext, Service

LEMMA JournalInvInit == ServicingInit => JournalInv /\ IdleCalls
<1>1. Init => IdleCalls
  BY DEF Init, IdleCalls
<1> QED
  BY <1>1, JournalInit DEF ServicingInit

LEMMA JournalInvStep ==
  JournalInv /\ IdleCalls /\ [ServicingNext]_servicingVars => JournalInv' /\ IdleCalls' /\ [Next]_vars
BY JournalSteps, JournalStep, IdleStep DEF JournalInv

\* Whatever the worker does is something the journal allows: everything proved
\* of the journal's specification holds of the serviced journal.
THEOREM ServicingRunsJournal == ServicingSpec => Spec
<1>1. ServicingInit => Init
  BY DEF ServicingInit
<1> QED
  BY <1>1, JournalInvInit, JournalInvStep, PTL DEF ServicingSpec, Spec

-----------------------------------------------------------------------------
(* Passes keep their types, and run the call they asked for.               *)

LEMMA OffType == Off \in PassRecords
BY DEF Off, PassRecords

\* What an operation returns to its pass is one of the outcomes it knows.
LEMMA OutcomeType ==
  ASSUME JournalInv, NEW c \in Callers, call[c].k \in PassKinds
  PROVE  Outcome(c) \in {"busy", "error", "lost", "terminal"} \cup EffectStates
<1> USE DEF EffectStates
<1> DEFINE k == call[c].k  a == call[c].ans
<1>0. op[k] \in Rows
  BY DEF JournalInv, TypeOK, PassKinds, Kinds
<1>1. CASE call[c].at = "loaded"
  BY <1>0, <1>1 DEF Outcome, TerminalRow
<1>2. CASE call[c].at # "loaded" /\ ~ReadyToFinish(c, k)
  BY <1>2 DEF Outcome
<1>3. CASE call[c].at # "loaded" /\ ReadyToFinish(c, k) /\ a \in {"complete", "error"}
  BY <1>3 DEF Outcome
<1>4. CASE call[c].at # "loaded" /\ ReadyToFinish(c, k) /\ a \notin {"complete", "error"}
  <2>1. CASE k = "status"
    <3>1. Outcome(c) = StatusState(a)
      BY <1>4, <2>1 DEF Outcome
    <3> QED
      BY <3>1 DEF StatusState
  <2>2. CASE k = "check"
    <3>1. a \in Decisions \cup {"halt"} /\ Decisions \subseteq {"pending", "ready", "failed", "manual_required"}
      BY <1>4, <2>2, JournalAssumption DEF ReadyToFinish, JournalInv, AnswersFit
    <3>2. Outcome(c) = CASE a = "ready" -> "succeeded" [] a = "failed" -> "terminal"
                         [] a = "halt" -> "manual_required" [] OTHER -> a
      BY <1>4, <2>2 DEF Outcome
    <3> QED
      BY <3>1, <3>2
  <2>3. CASE k \notin {"status", "check"}
    <3>1. Outcome(c) = EffectState(a)
      BY <1>4, <2>3 DEF Outcome
    <3> QED
      BY <3>1 DEF EffectState
  <2> QED
    BY <2>1, <2>2, <2>3
<1> QED
  BY <1>1, <1>2, <1>3, <1>4

\* What a pass goes on to do between two calls.
Between(new) ==
  /\ new \in PassRecords /\ new.at # "running"
  /\ new.at \in {"call", "returned"} => new.k \in PassKinds
  /\ new.at \in {"schedule", "write", "recheck"} => new.k \in Kinds

LEMMA PassMoves ==
  ASSUME ServicingTypeOK, NEW c \in Servicers
  PROVE  /\ Between(Off)
         /\ \A k \in PassKinds : Between(Call(c, k))
         /\ \A k \in Kinds : Between(Schedule(c, k)) /\ Between(Retry(c, k))
         /\ \A outcome, paid : Between(Terminal(c, outcome, paid))
         /\ pass[c].k \in Kinds => Between([pass[c] EXCEPT !.at = "recheck", !.quiet = FALSE])
         /\ pass[c].k \in Kinds => Between([pass[c] EXCEPT !.at = "write"])
<1>0. pass[c] \in PassRecords
  BY DEF ServicingTypeOK
<1>1. Between(Off)
  BY OffType DEF Off, Between
<1>2. ASSUME NEW k \in PassKinds PROVE Between(Call(c, k))
  BY <1>0, <1>2 DEF Between, Call, PassRecords, PassKinds, Kinds
<1>3. ASSUME NEW k \in Kinds PROVE Between(Schedule(c, k)) /\ Between(Retry(c, k))
  BY <1>0, <1>3 DEF Between, Schedule, Retry, PassRecords
<1>4. ASSUME NEW outcome, NEW paid PROVE Between(Terminal(c, outcome, paid))
  <2>1. Between([pass[c] EXCEPT !.at = "ending"])
    BY <1>0 DEF Between, PassRecords
  <2> QED
    BY <1>1, <2>1 DEF Terminal
<1>5. ASSUME pass[c].k \in Kinds
      PROVE  /\ Between([pass[c] EXCEPT !.at = "recheck", !.quiet = FALSE])
             /\ Between([pass[c] EXCEPT !.at = "write"])
  BY <1>0, <1>5 DEF Between, PassRecords
<1> QED
  BY <1>1, <1>2, <1>3, <1>4, <1>5

\* The decisions of a pass whose call has returned.
LEMMA DecidesBetween ==
  ASSUME ServicingTypeOK, NEW c \in Servicers, pass[c].k \in PassKinds, Decide(c)
  PROVE  \E new : Between(new) /\ Pass(c, new)
<1> USE PassMoves
<1>0. PassKinds \subseteq Kinds
  BY DEF PassKinds, Kinds
<1>1. Between(CheckOrCollect(c))
  BY DEF CheckOrCollect, PassKinds
<1>2. Between(AfterStatus(c))
  BY <1>0, <1>1 DEF AfterStatus, PassKinds
<1>3. Between(AfterFulfill(c))
  BY <1>0, <1>1 DEF AfterFulfill, PassKinds
<1>4. Between(AfterCheck(c))
  BY <1>0 DEF AfterCheck, PassKinds
<1>5. Between(AfterCollect(c))
  BY <1>0 DEF AfterCollect, PassKinds
<1>6. Between(AfterCleanup(c))
  BY <1>0 DEF AfterCleanup, PassKinds
<1>7. \/ Pass(c, AfterStatus(c)) \/ Pass(c, AfterFulfill(c)) \/ Pass(c, AfterCheck(c))
      \/ Pass(c, AfterCollect(c)) \/ Pass(c, AfterCleanup(c))
  BY DEF Decide, PassKinds
<1> QED
  BY <1>2, <1>3, <1>4, <1>5, <1>6, <1>7

\* A pass that moves between two calls keeps the types and the other passes.
LEMMA MovesBetween ==
  ASSUME ServicingInv, NEW c \in Servicers, NEW new, Between(new), Pass(c, new),
         call'[c].at = "idle", \A d \in Servicers \ {c} : call'[d] = call[d]
  PROVE  pass' \in [Servicers -> PassRecords] /\ PassesFit'
<1>0. pass \in [Servicers -> PassRecords]
  BY DEF ServicingInv, ServicingTypeOK
<1>1. pass' \in [Servicers -> PassRecords] /\ pass'[c] = new
      /\ \A d \in Servicers \ {c} : pass'[d] = pass[d]
  BY <1>0 DEF Pass, Between
<1>2. ASSUME NEW d \in Servicers PROVE PassFits(d)'
  <2>1. CASE d = c
    BY <1>1, <2>1 DEF PassFits, Between
  <2>2. CASE d # c
    BY <1>1, <2>2 DEF PassFits, ServicingInv, PassesFit
  <2> QED
    BY <2>1, <2>2
<1> QED
  BY <1>1, <1>2 DEF PassesFit

\* The pass's side of a journal call: it runs on, or has returned.
LEMMA WorkFits ==
  ASSUME ServicingInv, NEW c \in Servicers, Work(c)
  PROVE  pass' \in [Servicers -> PassRecords] /\ PassesFit'
<1>0. /\ c \in Callers /\ Step(c) /\ TypeOK /\ [Next]_vars /\ JournalInv
      /\ pass \in [Servicers -> PassRecords] /\ pass[c] \in PassRecords
      /\ call[c].at # "idle" /\ call[c].k = pass[c].k /\ pass[c].k \in PassKinds
  BY ServicingAssumption DEF ServicingInv, JournalInv, ServicingTypeOK, Work, Journalled, Step, Next,
     PassesFit, PassFits
<1>1. \A d \in Servicers \ {c} : call'[d] = call[d]
  BY <1>0, OthersKeep, ServicingAssumption
<1>2. CASE call'[c].at = "idle"
  <2>1. Pass(c, [pass[c] EXCEPT !.at = "returned", !.out = Outcome(c)])
    BY <1>2 DEF Work
  <2>2. Outcome(c) \in {"none", "busy", "error", "lost", "terminal"} \cup EffectStates
    BY <1>0, OutcomeType
  <2>3. Between([pass[c] EXCEPT !.at = "returned", !.out = Outcome(c)])
    BY <1>0, <2>2 DEF Between, PassRecords
  <2> QED
    BY <1>1, <1>2, <2>1, <2>3, MovesBetween
<1>3. CASE call'[c].at # "idle"
  <2>1. pass' = pass
    BY <1>0, <1>3 DEF Work, Pass
  <2>2. ASSUME NEW k \in Kinds, Load(c, k) PROVE FALSE
    BY <1>0, <2>2 DEF Load
  <2>3. call'[c].k = call[c].k
    BY <1>0, <1>3, <2>2, Underway
  <2>4. ASSUME NEW d \in Servicers PROVE PassFits(d)'
    <3>1. CASE d = c
      BY <1>0, <1>3, <2>1, <2>3, <3>1 DEF PassFits, ServicingInv, PassesFit, Work
    <3>2. CASE d # c
      BY <1>1, <2>1, <3>2 DEF PassFits, ServicingInv, PassesFit
    <3> QED
      BY <3>1, <3>2
  <2> QED
    BY <1>0, <2>1, <2>4 DEF PassesFit
<1> QED
  BY <1>2, <1>3

\* A pass that calls the runtime.
LEMMA BeginFits ==
  ASSUME ServicingInv, NEW c \in Servicers, Begin(c)
  PROVE  pass' \in [Servicers -> PassRecords] /\ PassesFit'
<1>0. /\ c \in Callers /\ call \in [Callers -> Calls] /\ pass \in [Servicers -> PassRecords]
      /\ pass[c] \in PassRecords /\ pass[c].at = "call" /\ pass[c].k \in PassKinds
      /\ Servicers \subseteq Callers
  BY ServicingAssumption DEF ServicingInv, ServicingTypeOK, TypeOK, Begin, PassesFit, PassFits
<1>1. /\ call' = [call EXCEPT ![c] = call'[c]]
      /\ call'[c].at = "loaded" /\ call'[c].k = pass[c].k
  BY <1>0 DEF Begin, Load, Set, Idle
<1>2. pass' = [pass EXCEPT ![c] = [pass[c] EXCEPT !.at = "running"]]
  BY DEF Begin, Pass
<1>3. [pass[c] EXCEPT !.at = "running"] \in PassRecords
  BY <1>0 DEF PassRecords
<1>4. ASSUME NEW d \in Servicers PROVE PassFits(d)'
  <2>1. CASE d = c
    BY <1>0, <1>1, <1>2, <2>1 DEF PassFits, PassRecords
  <2>2. CASE d # c
    <3>1. call'[d] = call[d] /\ pass'[d] = pass[d]
      BY <1>0, <1>1, <1>2, <2>2
    <3> QED
      BY <3>1 DEF PassFits, ServicingInv, PassesFit
  <2> QED
    BY <2>1, <2>2
<1> QED
  BY <1>0, <1>2, <1>3, <1>4 DEF PassesFit

\* Every step keeps the passes' types and what they run.
LEMMA PassStep ==
  ServicingInv /\ [ServicingNext]_servicingVars => pass' \in [Servicers -> PassRecords] /\ PassesFit'
<1> SUFFICES ASSUME ServicingInv, [ServicingNext]_servicingVars
             PROVE  pass' \in [Servicers -> PassRecords] /\ PassesFit'
  OBVIOUS
<1>0. /\ ServicingTypeOK /\ TypeOK /\ Servicers \subseteq Callers /\ PassesFit
      /\ pass \in [Servicers -> PassRecords]
  BY ServicingAssumption DEF ServicingInv, ServicingTypeOK
<1>1. ASSUME NEW c \in Servicers, Start(c)
      PROVE  pass' \in [Servicers -> PassRecords] /\ PassesFit'
  <2>1. Between([Off EXCEPT !.at = "call", !.k = "status", !.paid = (ob.coll = "succeeded")])
    BY DEF Between, Off, PassRecords, PassKinds, Kinds
  <2> QED
    BY <1>0, <1>1, <2>1, MovesBetween DEF Start, PassesFit, PassFits
<1>2. ASSUME NEW c \in Servicers, Refuse(c)
      PROVE  pass' \in [Servicers -> PassRecords] /\ PassesFit'
  <2> DEFINE out == IF pass[c].k = "status" /\ Settled THEN "terminal" ELSE "error"
  <2>0. pass[c] \in PassRecords /\ pass[c].at = "call" /\ pass[c].k \in PassKinds
    BY <1>0, <1>2 DEF Refuse, PassesFit, PassFits
  <2>1. Between([pass[c] EXCEPT !.at = "returned", !.out = out])
    BY <2>0 DEF Between, PassRecords
  <2>2. Pass(c, [pass[c] EXCEPT !.at = "returned", !.out = out]) /\ UNCHANGED call
    BY <1>2 DEF Refuse
  <2> HIDE DEF out
  <2> QED
    BY <1>0, <2>0, <2>1, <2>2, MovesBetween DEF PassesFit, PassFits
<1>3. ASSUME NEW c \in Servicers, Decide(c)
      PROVE  pass' \in [Servicers -> PassRecords] /\ PassesFit'
  <2>0. pass[c].at = "returned" /\ pass[c].k \in PassKinds /\ call'[c].at = "idle" /\ UNCHANGED call
    BY <1>0, <1>3 DEF Decide, PassesFit, PassFits
  <2>1. PICK new : Between(new) /\ Pass(c, new)
    BY <1>0, <1>3, <2>0, DecidesBetween
  <2> QED
    BY <2>0, <2>1, MovesBetween
<1>4. ASSUME NEW c \in Servicers, ReadSchedule(c)
      PROVE  pass' \in [Servicers -> PassRecords] /\ PassesFit'
  <2>0. pass[c].at = "schedule" /\ pass[c].k \in Kinds /\ call'[c].at = "idle" /\ UNCHANGED call
    BY <1>0, <1>4 DEF ReadSchedule, PassesFit, PassFits
  <2>1. \E new : Between(new) /\ Pass(c, new)
    BY <1>0, <1>4, <2>0, PassMoves DEF ReadSchedule
  <2> QED
    BY <2>0, <2>1, MovesBetween
<1>5. ASSUME NEW c \in Servicers, WriteSchedule(c)
      PROVE  pass' \in [Servicers -> PassRecords] /\ PassesFit'
  <2>0. pass[c].at \in {"write", "recheck"} /\ call'[c].at = "idle" /\ UNCHANGED call
    BY <1>0, <1>5 DEF WriteSchedule, PassesFit, PassFits
  <2>1. \E new : Between(new) /\ Pass(c, new)
    BY <1>0, <1>5, PassMoves DEF WriteSchedule
  <2> QED
    BY <2>0, <2>1, MovesBetween
<1>6. ASSUME NEW c \in Servicers, End(c)
      PROVE  pass' \in [Servicers -> PassRecords] /\ PassesFit'
  <2>0. call'[c].at = "idle" /\ UNCHANGED call
    BY <1>0, <1>6 DEF End, PassesFit, PassFits
  <2>1. Between(Off) /\ Pass(c, Off)
    BY <1>0, <1>6, PassMoves DEF End
  <2> QED
    BY <2>0, <2>1, MovesBetween
<1>7. ASSUME NEW c \in Callers \ Servicers, Other(c)
      PROVE  pass' \in [Servicers -> PassRecords] /\ PassesFit'
  <2>1. UNCHANGED pass /\ \A d \in Servicers : call'[d] = call[d]
    BY <1>0, <1>7, OthersKeep DEF Other
  <2> QED
    BY <1>0, <2>1 DEF PassesFit, PassFits
<1>8. ASSUME NEW w \in Workers, Stop(w)
      PROVE  pass' \in [Servicers -> PassRecords] /\ PassesFit'
  <2>1. pass' = [c \in Servicers |-> IF WorkerOf[c] = w THEN Off ELSE pass[c]]
    BY <1>8 DEF Stop
  <2>2. pass' \in [Servicers -> PassRecords]
    BY <1>0, <2>1, OffType
  <2>3. ASSUME NEW d \in Servicers PROVE PassFits(d)'
    <3>1. call'[d] = IF WorkerOf[d] = w THEN Idle ELSE call[d]
      BY <1>0, <1>8 DEF Stop
    <3>2. CASE WorkerOf[d] = w
      BY <2>1, <3>1, <3>2 DEF PassFits, Off, Idle
    <3>3. CASE WorkerOf[d] # w
      BY <1>0, <2>1, <3>1, <3>3 DEF PassesFit, PassFits
    <3> QED
      BY <3>2, <3>3
  <2> QED
    BY <2>2, <2>3 DEF PassesFit
<1>9. CASE UNCHANGED <<pass, call>>
  BY <1>0, <1>9 DEF PassesFit, PassFits
<1>10. CASE Environment
  BY <1>8, <1>9, <1>10 DEF Environment, ExpireLease, Expire, DirectReclaim, BackoffPasses, Wake
<1> QED
  BY <1>1, <1>2, <1>3, <1>4, <1>5, <1>6, <1>7, <1>9, <1>10, WorkFits, BeginFits
     DEF ServicingNext, Service, servicingVars

\* The due list, the marks and the bound keep their types.
LEMMA MarksStep ==
  ServicingInv /\ [ServicingNext]_servicingVars =>
    /\ later' \subseteq Kinds
    /\ {mark', ended'} \subseteq BOOLEAN /\ stops' \in 0..MaxStops
<1> SUFFICES ASSUME ServicingInv, [ServicingNext]_servicingVars
             PROVE  /\ later' \subseteq Kinds
                    /\ {mark', ended'} \subseteq BOOLEAN /\ stops' \in 0..MaxStops
  OBVIOUS
<1>0. /\ later \subseteq Kinds /\ mark \in BOOLEAN /\ ended \in BOOLEAN /\ stops \in 0..MaxStops
      /\ MaxStops \in Nat
  BY ServicingAssumption DEF ServicingInv, ServicingTypeOK
<1>1. ASSUME NEW c \in Servicers, Work(c)
      PROVE  later' \subseteq Kinds /\ mark' \in BOOLEAN /\ ended' \in BOOLEAN /\ stops' = stops
  BY <1>0, <1>1 DEF Work
<1>2. ASSUME NEW c \in Servicers, WriteSchedule(c)
      PROVE  later' \subseteq Kinds /\ mark' \in BOOLEAN /\ ended' = ended /\ stops' = stops
  <2>1. pass[c].k \in Kinds
    BY <1>2 DEF WriteSchedule, ServicingInv, PassesFit, PassFits
  <2> QED
    BY <1>0, <1>2, <2>1 DEF WriteSchedule
<1>3. ASSUME NEW c \in Servicers, End(c)
      PROVE  later' = later /\ mark' = mark /\ ended' \in BOOLEAN /\ stops' = stops
  BY <1>0, <1>3 DEF End
<1>4. ASSUME NEW c \in Callers, Other(c)
      PROVE  later' \subseteq Kinds /\ mark' = mark /\ ended' = ended /\ stops' = stops
  BY <1>0, <1>4 DEF Other
<1>5. ASSUME NEW w \in Workers, Stop(w)
      PROVE  later' = later /\ mark' = mark /\ ended' = ended /\ stops' \in 0..MaxStops
  <2>1. stops < MaxStops /\ stops' = stops + 1 /\ UNCHANGED <<later, mark, ended>>
    BY <1>5 DEF Stop
  <2> QED
    BY <1>0, <2>1
<1>6. CASE Environment
  BY <1>0, <1>5, <1>6 DEF Environment, BackoffPasses, Wake
<1>7. CASE UNCHANGED <<later, mark, ended, stops>>
  BY <1>0, <1>7
<1> QED
  BY <1>0, <1>1, <1>2, <1>3, <1>4, <1>6, <1>7 DEF ServicingNext, Service, Start, Begin, Refuse,
     Decide, ReadSchedule, servicingVars

LEMMA ServicingInvInit == ServicingInit => ServicingInv
<1> SUFFICES ASSUME ServicingInit PROVE ServicingInv
  OBVIOUS
<1>1. JournalInv /\ IdleCalls /\ TypeOK
  BY JournalInvInit DEF JournalInv
<1>2. pass = [c \in Servicers |-> Off] /\ call = [c \in Callers |-> Idle] /\ Servicers \subseteq Callers
  BY ServicingAssumption DEF ServicingInit, Init
<1>3. PassesFit
  BY <1>2 DEF PassesFit, PassFits, Off, Idle
<1>4. stops \in 0..MaxStops
  BY ServicingAssumption DEF ServicingInit
<1>5. ServicingTypeOK
  BY <1>1, <1>2, <1>4, OffType DEF ServicingInit, ServicingTypeOK
<1> QED
  BY <1>1, <1>3, <1>5 DEF ServicingInv

LEMMA ServicingInvStep ==
  ServicingInv /\ [ServicingNext]_servicingVars => ServicingInv' /\ [Next]_vars
<1> SUFFICES ASSUME ServicingInv, [ServicingNext]_servicingVars PROVE ServicingInv' /\ [Next]_vars
  OBVIOUS
<1>1. JournalInv' /\ IdleCalls' /\ [Next]_vars
  BY JournalInvStep DEF ServicingInv
<1>2. TypeOK'
  BY <1>1 DEF JournalInv
<1> QED
  BY <1>1, <1>2, PassStep, MarksStep DEF ServicingInv, ServicingTypeOK

\* Passes, schedules and marks keep their types for any number of overlapping
\* passes, backoffs, takeovers and stops.
THEOREM ServicingTypeCorrect == ServicingSpec => []ServicingTypeOK
<1>1. ServicingInv => ServicingTypeOK
  BY DEF ServicingInv
<1> QED
  BY <1>1, ServicingInvInit, ServicingInvStep, PTL DEF ServicingSpec

\* Under the worker, too, a collection shows only for a bound delivery whose
\* check succeeded, whatever the mechanism reports.
THEOREM ServicedCollectionFollowsCheck == ServicingSpec => []CollectedAfterCheck
BY ServicingRunsJournal, CollectionFollowsCheck

\* Under the worker, too, a recorded collection is never taken back, if the
\* mechanism does not report collections itself.
THEOREM ServicedCollectionStays == CollectionUnreported => (ServicingSpec => CollectionFinal)
BY ServicingRunsJournal, CollectionStaysRecorded

\* The serviced journal, too, implements SettlementPromise: no overlap of
\* passes, stop or backoff makes the worker pay twice, pay for an unchecked
\* delivery or forget what it recorded, if the mechanism reports no effects.
THEOREM ServicedPromiseKept == ReportsNoEffect => (ServicingSpec => KeepsSettlementPromise)
BY ServicingRunsJournal, SettlementPromiseKept

-----------------------------------------------------------------------------
(* The service ends only with the settlement.                              *)

\* Adoption comes first and is final.
LEMMA AdoptedStep == Adopts /\ JournalInv /\ AdoptedFirst /\ [Next]_vars => AdoptedFirst'
<1> SUFFICES ASSUME Adopts, JournalInv, AdoptedFirst, [Next]_vars PROVE AdoptedFirst'
  OBVIOUS
<1>0. /\ TypeOK /\ AnswersFit /\ ob \in Obligations /\ op \in [Kinds -> Rows] /\ "materialize" \in Kinds
  BY DEF JournalInv, TypeOK, Kinds
<1>1. op["materialize"].st = "succeeded" => op'["materialize"].st = "succeeded"
  BY <1>0, EndedRowsStay DEF TerminalRow
<1>2. ASSUME ob'.mref \/ ob'.mst # "none" PROVE op'["materialize"].st = "succeeded"
  <2>1. CASE ob'.mst = ob.mst /\ ob'.mref = ob.mref
    BY <1>1, <1>2, <2>1 DEF AdoptedFirst
  <2>2. ASSUME NEW c \in Callers, FinishMaterialize(c) PROVE op'["materialize"].st = "succeeded"
    <3>1. call[c].ans = "ready"
      BY <2>2 DEF FinishMaterialize, ReadyToFinish, AdoptedFirst
    <3> QED
      BY <1>0, <2>2, <3>1 DEF FinishMaterialize, ReadyToFinish, Release, Rows
  <2>3. ASSUME NEW c \in Callers, FinishStatus(c) PROVE op'["materialize"].st = "succeeded"
    BY <1>1, <2>3 DEF FinishStatus, ReadyToFinish, AdoptedFirst
  <2> QED
    BY <1>0, <2>1, <2>2, <2>3, StateWriters
<1>3. ASSUME NEW d \in Callers, call'[d].k = "materialize"
      PROVE  /\ call'[d].at # "reserved"
             /\ call'[d].at \in {"answered", "read"} => call'[d].ans = "ready"
  <2>1. ASSUME call'[d].at = "reserved" PROVE FALSE
    <3>1. call[d].k = "materialize"
      BY <1>0, <1>3, <2>1, StillReserved
    <3>2. call[d].at # "reserved" /\ "open" \notin Answers("materialize")
      BY <3>1 DEF AdoptedFirst, Answers, Failures
    <3>3. AfterReserve(d) # "none"
      BY <3>1 DEF AfterReserve
    <3> QED
      BY <1>0, <2>1, <3>1, <3>2, <3>3, StillReserved
  <2>2. ASSUME call'[d].at \in {"answered", "read"} PROVE call'[d].ans = "ready"
    <3>1. call[d].k = "materialize"
      BY <1>0, <1>3, <2>2, Answered
    <3>2. call[d].at # "reserved" /\ (call[d].at \in {"answered", "read"} => call[d].ans = "ready")
      BY <3>1 DEF AdoptedFirst
    <3>3. AfterReserve(d) = "ready"
      BY <3>1 DEF AfterReserve
    <3> QED
      BY <1>0, <2>2, <3>1, <3>2, <3>3, Answered DEF Ask, Execute, ReadClock, Bind
  <2> QED
    BY <2>1, <2>2
<1>4. ASSUME NEW d \in Callers, call'[d].k = "status", call'[d].at # "idle"
      PROVE  op'["materialize"].st = "succeeded"
  <2>1. CASE call[d].at # "idle" /\ call'[d].k = call[d].k
    BY <1>1, <1>4, <2>1 DEF AdoptedFirst
  <2>2. CASE Load(d, "status")
    BY <1>1, <2>2 DEF Load, Allowed, AdoptedFirst
  <2> QED
    BY <1>0, <1>4, <2>1, <2>2, Underway
<1> QED
  BY <1>2, <1>3, <1>4 DEF AdoptedFirst

\* A status that tells of a loss is the last one written.
LEMMA LostStays ==
  ASSUME JournalInv, AdoptedFirst, LossFinal, [Next]_vars, ob.mst \in LostStates
  PROVE  ob'.mst = ob.mst
<1>0. TypeOK /\ op["status"].st = "succeeded" /\ op["materialize"].st = "succeeded"
  BY DEF JournalInv, AdoptedFirst, LossFinal, LostStates
<1>1. ASSUME NEW c \in Callers, FinishMaterialize(c) \/ FinishStatus(c) PROVE FALSE
  BY <1>0, <1>1 DEF FinishMaterialize, FinishStatus, ReadyToFinish
<1> QED
  BY <1>0, <1>1, StateWriters

\* A settlement that came to nothing stays so.
LEMMA HopelessStays ==
  ASSUME JournalInv, AdoptedFirst, LossFinal, [Next]_vars, Hopeless
  PROVE  Hopeless'
<1>0. TypeOK /\ ob \in Obligations
  BY DEF JournalInv, TypeOK
<1>1. CASE ob.mst \in LostStates
  BY <1>1, LostStays DEF Hopeless
<1>2. CASE ob.cond = "failed" /\ op["check"].st = "succeeded"
  <2>1. ASSUME NEW c \in Callers, FinishCheck(c) PROVE FALSE
    BY <1>2, <2>1 DEF FinishCheck, ReadyToFinish
  <2>2. ASSUME NEW c \in Callers, FinishStatus(c) PROVE ob'.cond = "failed"
    BY <1>0, <1>2, <2>2 DEF FinishStatus, Obligations
  <2> QED
    BY <1>0, <1>2, <2>1, <2>2, StateWriters DEF Hopeless
<1> QED
  BY <1>1, <1>2 DEF Hopeless, LossFinal, LostStates

LEMMA LossStep == Adopts /\ JournalInv /\ AdoptedFirst /\ LossFinal /\ [Next]_vars => LossFinal'
<1> SUFFICES ASSUME Adopts, JournalInv, AdoptedFirst, LossFinal, [Next]_vars PROVE LossFinal'
  OBVIOUS
<1>0. /\ TypeOK /\ AnswersFit /\ ob \in Obligations /\ op \in [Kinds -> Rows]
      /\ {"status", "check"} \subseteq Kinds
  BY DEF JournalInv, TypeOK, Kinds
<1>1. /\ op["status"].st = "succeeded" => op'["status"].st = "succeeded"
      /\ op["check"].st = "succeeded" => op'["check"].st = "succeeded"
  BY <1>0, EndedRowsStay DEF TerminalRow
<1>2. ob.mst \in LostStates => ob'.mst = ob.mst
  BY LostStays
<1>3. ASSUME ob'.mst \in LostStates PROVE op'["status"].st = "succeeded"
  <2>1. CASE ob'.mst = ob.mst
    BY <1>1, <1>3, <2>1 DEF LossFinal
  <2>2. ASSUME NEW c \in Callers, FinishMaterialize(c) PROVE ob'.mst = "ready"
    <3>1. call[c].ans = "ready"
      BY <2>2 DEF FinishMaterialize, ReadyToFinish, AdoptedFirst
    <3> QED
      BY <1>0, <2>2, <3>1 DEF FinishMaterialize, Obligations
  <2>3. ASSUME NEW c \in Callers, FinishStatus(c) PROVE op'["status"].st = "succeeded"
    <3>1. op["status"].st = "in_progress" /\ ob.mst \notin LostStates
      BY <2>3 DEF FinishStatus, ReadyToFinish, LossFinal
    <3>2. call[c].ans \in LostStates
      BY <1>0, <1>3, <2>3, <3>1 DEF FinishStatus, Obligations
    <3> QED
      BY <1>0, <2>3, <3>2 DEF FinishStatus, ReadyToFinish, Release, StatusState, LostStates, Rows
  <2> QED
    BY <1>0, <1>3, <2>1, <2>2, <2>3, StateWriters DEF LostStates
<1>4. ASSUME ob'.cond = "failed" PROVE op'["check"].st = "succeeded" \/ ob'.mst = "failed"
  <2>1. CASE ob.cond = "failed"
    BY <1>1, <1>2, <2>1 DEF LossFinal, LostStates
  <2>2. ASSUME NEW c \in Callers, FinishCheck(c) PROVE op'["check"].st = "succeeded"
    BY <1>0, <1>4, <2>2 DEF FinishCheck, ReadyToFinish, Release, Obligations, Rows
  <2>3. ASSUME NEW c \in Callers, FinishStatus(c), ob.cond # "failed" PROVE ob'.mst = "failed"
    <3>1. call[c].ans = "failed" /\ call[c].k = "status" /\ call[c].at \in {"answered", "read"}
      BY <1>0, <1>4, <2>3 DEF FinishStatus, ReadyToFinish, Obligations
    <3>2. "failed" \in Reports
      BY <1>0, <3>1 DEF AnswersFit
    <3> QED
      BY <1>0, <2>3, <3>1, <3>2 DEF FinishStatus, Obligations
  <2> QED
    BY <1>0, <1>4, <2>1, <2>2, <2>3, StateWriters
<1> QED
  BY <1>3, <1>4 DEF LossFinal

\* A move of a pass that respects the settlement.
Respects(new) ==
  /\ new.at = "ending" => Hopeless
  /\ new.at \in {"call", "running"} /\ new.k = "cleanup" => ob.mst = "failed"

LEMMA MovesRespect ==
  ASSUME ~Abandons, ServicingTypeOK, NEW c \in Servicers
  PROVE  /\ Respects(Off)
         /\ \A k \in Kinds : (k = "cleanup" => ob.mst = "failed") => Respects(Call(c, k))
         /\ \A k \in Kinds : Respects(Schedule(c, k)) /\ Respects(Retry(c, k))
         /\ \A outcome, paid : (outcome \in LostStates => Hopeless) => Respects(Terminal(c, outcome, paid))
         /\ Respects([pass[c] EXCEPT !.at = "recheck", !.quiet = FALSE])
         /\ Respects([pass[c] EXCEPT !.at = "write"])
<1>0. pass[c] \in PassRecords
  BY DEF ServicingTypeOK
<1>1. Respects(Off)
  BY DEF Respects, Off
<1>2. ASSUME NEW k \in Kinds, k = "cleanup" => ob.mst = "failed" PROVE Respects(Call(c, k))
  BY <1>0, <1>2 DEF Respects, Call, PassRecords
<1>3. ASSUME NEW k \in Kinds PROVE Respects(Schedule(c, k)) /\ Respects(Retry(c, k))
  BY <1>0, <1>3 DEF Respects, Schedule, Retry, PassRecords
<1>4. ASSUME NEW outcome, NEW paid, outcome \in LostStates => Hopeless
      PROVE  Respects(Terminal(c, outcome, paid))
  <2>1. CASE Ends(outcome, paid)
    <3>1. Hopeless
      BY <1>4, <2>1 DEF Ends, LostStates
    <3>2. Respects([pass[c] EXCEPT !.at = "ending"])
      BY <1>0, <3>1 DEF Respects, PassRecords
    <3> QED
      BY <2>1, <3>2 DEF Terminal
  <2>2. CASE ~Ends(outcome, paid)
    BY <1>1, <2>2 DEF Terminal
  <2> QED
    BY <2>1, <2>2
<1>5. /\ Respects([pass[c] EXCEPT !.at = "recheck", !.quiet = FALSE])
      /\ Respects([pass[c] EXCEPT !.at = "write"])
  BY <1>0 DEF Respects, PassRecords
<1> QED
  BY <1>1, <1>2, <1>3, <1>4, <1>5

\* What a pass decides respects the settlement: it cleans up a failed escrow,
\* and reports an end to the domain only as the record states it.
LEMMA DecidesRespectfully ==
  ASSUME ~Abandons, ServicingTypeOK, NEW c \in Servicers, pass[c].k \in PassKinds, Decide(c)
  PROVE  \E new : Respects(new) /\ Pass(c, new)
<1> USE MovesRespect DEF LostStates
<1>0. PassKinds \subseteq Kinds
  BY DEF PassKinds, Kinds
<1>1. Respects(CheckOrCollect(c))
  BY <1>0 DEF CheckOrCollect, PassKinds
<1>2. Respects(AfterStatus(c))
  <2>1. \A paid : Respects(Terminal(c, ob.mst, paid)) /\ Respects(Terminal(c, "collected", paid))
    BY DEF Hopeless
  <2>2. ob.mst = "failed" => Respects(Call(c, "cleanup"))
    BY <1>0 DEF PassKinds
  <2>3. /\ Respects(Call(c, "fulfill")) /\ Respects(Schedule(c, "status"))
        /\ Respects(Schedule(c, "fulfill")) /\ Respects(Retry(c, "status")) /\ Respects(Off)
    BY <1>0 DEF PassKinds
  <2> QED
    BY <1>1, <2>1, <2>2, <2>3 DEF AfterStatus
<1>3. Respects(AfterFulfill(c))
  BY <1>0, <1>1 DEF AfterFulfill, PassKinds
<1>4. Respects(AfterCheck(c))
  <2>1. \A paid : Respects(Terminal(c, ob.cond, paid))
    BY DEF Hopeless, ServicingTypeOK, TypeOK, Obligations
  <2> QED
    BY <1>0, <2>1 DEF AfterCheck, PassKinds
<1>5. Respects(AfterCollect(c))
  BY <1>0 DEF AfterCollect, PassKinds
<1>6. Respects(AfterCleanup(c))
  BY <1>0 DEF AfterCleanup, PassKinds
<1>7. \/ Pass(c, AfterStatus(c)) \/ Pass(c, AfterFulfill(c)) \/ Pass(c, AfterCheck(c))
      \/ Pass(c, AfterCollect(c)) \/ Pass(c, AfterCleanup(c))
  BY DEF Decide, PassKinds
<1> QED
  BY <1>2, <1>3, <1>4, <1>5, <1>6, <1>7

\* Every move of a pass is one that respects the settlement, or the pass and
\* its kind stay as they were while it calls the runtime.
LEMMA PassRespects ==
  ASSUME ~Abandons, ServicingInv, EndsHopeless, [ServicingNext]_servicingVars, NEW d \in Servicers
  PROVE  Respects(pass'[d])
<1>0. /\ ServicingTypeOK /\ TypeOK /\ PassesFit /\ pass \in [Servicers -> PassRecords]
      /\ pass[d] \in PassRecords /\ Respects(pass[d]) /\ Respects(Off)
  BY MovesRespect DEF ServicingInv, ServicingTypeOK, EndsHopeless, Respects
<1>1. ASSUME NEW c \in Servicers, NEW new, Pass(c, new), Respects(new) PROVE Respects(pass'[d])
  <2>1. pass'[d] = pass[d] \/ pass'[d] = new
    BY <1>0, <1>1 DEF Pass
  <2> QED
    BY <1>0, <1>1, <2>1
<1>2. ASSUME NEW c \in Servicers, Start(c) PROVE Respects(pass'[d])
  <2>1. Respects([Off EXCEPT !.at = "call", !.k = "status", !.paid = (ob.coll = "succeeded")])
    BY DEF Respects, Off
  <2> QED
    BY <1>1, <1>2, <2>1 DEF Start
<1>3. ASSUME NEW c \in Servicers, Begin(c) PROVE Respects(pass'[d])
  <2>1. Respects([pass[c] EXCEPT !.at = "running"])
    BY <1>0, <1>3 DEF Begin, Respects, EndsHopeless, PassRecords
  <2> QED
    BY <1>1, <1>3, <2>1 DEF Begin
<1>4. ASSUME NEW c \in Servicers, Refuse(c) PROVE Respects(pass'[d])
  <2> DEFINE out == IF pass[c].k = "status" /\ Settled THEN "terminal" ELSE "error"
  <2>1. Pass(c, [pass[c] EXCEPT !.at = "returned", !.out = out])
    BY <1>4 DEF Refuse
  <2> HIDE DEF out
  <2>2. Respects([pass[c] EXCEPT !.at = "returned", !.out = out])
    BY <1>0 DEF Respects, PassRecords
  <2> QED
    BY <1>1, <2>1, <2>2
<1>5. ASSUME NEW c \in Servicers, Work(c) PROVE Respects(pass'[d])
  <2>1. CASE call'[c].at = "idle"
    <3>1. Respects([pass[c] EXCEPT !.at = "returned", !.out = Outcome(c)])
      BY <1>0 DEF Respects, PassRecords
    <3> QED
      BY <1>1, <1>5, <2>1, <3>1 DEF Work
  <2>2. CASE call'[c].at # "idle"
    <3>1. pass' = pass
      BY <1>0, <1>5, <2>2 DEF Work, Pass
    <3> QED
      BY <1>0, <3>1
  <2> QED
    BY <2>1, <2>2
<1>6. ASSUME NEW c \in Servicers, Decide(c) PROVE Respects(pass'[d])
  <2>1. pass[c].k \in PassKinds
    BY <1>0, <1>6 DEF Decide, PassesFit, PassFits
  <2> QED
    BY <1>0, <1>1, <1>6, <2>1, DecidesRespectfully
<1>7. ASSUME NEW c \in Servicers, ReadSchedule(c) PROVE Respects(pass'[d])
  <2>1. \E new : Respects(new) /\ Pass(c, new)
    BY <1>0, <1>7, MovesRespect DEF ReadSchedule
  <2> QED
    BY <1>1, <2>1
<1>8. ASSUME NEW c \in Servicers, WriteSchedule(c) PROVE Respects(pass'[d])
  <2>1. \A paid : Respects(Terminal(c, "manual_required", paid))
    BY <1>0, MovesRespect DEF LostStates
  <2>2. \E new : Respects(new) /\ Pass(c, new)
    BY <1>0, <1>8, <2>1 DEF WriteSchedule
  <2> QED
    BY <1>1, <2>2
<1>9. ASSUME NEW c \in Servicers, End(c) PROVE Respects(pass'[d])
  BY <1>0, <1>1, <1>9 DEF End
<1>10. ASSUME NEW w \in Workers, Stop(w) PROVE Respects(pass'[d])
  <2>1. pass'[d] = Off \/ pass'[d] = pass[d]
    BY <1>10 DEF Stop
  <2> QED
    BY <1>0, <2>1
<1>11. CASE UNCHANGED pass
  BY <1>0, <1>11
<1> QED
  BY <1>2, <1>3, <1>4, <1>5, <1>6, <1>7, <1>8, <1>9, <1>10, <1>11
     DEF ServicingNext, Service, Other, Environment, BackoffPasses, Wake, servicingVars

\* The two steps that end the service find the settlement come to nothing, and
\* leave the record as it is.
LEMMA EndsWhenHopeless ==
  ASSUME ServicingInv, EndsHopeless, [ServicingNext]_servicingVars, ~ended, ended'
  PROVE  Hopeless /\ (ob.mst = "failed" \/ ~Serviceable)
<1>0. PassesFit /\ ob \in Obligations
  BY DEF ServicingInv, ServicingTypeOK, TypeOK
<1>1. ASSUME NEW c \in Servicers, Work(c) PROVE ob.mst = "failed"
  <2>1. call[c].k = "cleanup"
    BY <1>1 DEF Work
  <2>2. pass[c].at = "running" /\ pass[c].k = "cleanup"
    BY <1>0, <1>1, <2>1 DEF Work, PassesFit, PassFits
  <2> QED
    BY <2>2 DEF EndsHopeless
<1>2. ASSUME NEW c \in Servicers, End(c) PROVE Hopeless
  BY <1>2 DEF End, EndsHopeless
<1>3. (\E c \in Servicers : Work(c) \/ End(c)) \/ UNCHANGED ended
  BY DEF ServicingNext, Service, Start, Begin, Refuse, Decide, ReadSchedule, WriteSchedule, Other,
     Environment, BackoffPasses, Wake, Stop, servicingVars
<1>4. Hopeless
  BY <1>1, <1>2, <1>3 DEF Hopeless, LostStates
<1>5. Hopeless => ob.mst = "failed" \/ ~Serviceable
  BY DEF Hopeless, Serviceable, LostStates
<1> QED
  BY <1>4, <1>5

LEMMA EndInvStep ==
  Adopts /\ ~Abandons /\ ServicingInv /\ EndInv /\ [ServicingNext]_servicingVars => EndInv'
<1> SUFFICES ASSUME Adopts, ~Abandons, ServicingInv, EndInv, [ServicingNext]_servicingVars PROVE EndInv'
  OBVIOUS
<1>0. /\ JournalInv /\ AdoptedFirst /\ LossFinal /\ EndsHopeless /\ [Next]_vars
  BY ServicingInvStep DEF ServicingInv, EndInv
<1>1. AdoptedFirst' /\ LossFinal'
  BY <1>0, AdoptedStep, LossStep
<1>2. (Hopeless => Hopeless') /\ (ob.mst = "failed" => ob'.mst = "failed")
  BY <1>0, HopelessStays, LostStays DEF LostStates
<1>3. ASSUME NEW d \in Servicers
      PROVE  /\ pass'[d].at = "ending" => Hopeless'
             /\ pass'[d].at \in {"call", "running"} /\ pass'[d].k = "cleanup" => ob'.mst = "failed"
  BY <1>0, <1>2, PassRespects DEF Respects
<1>4. ended' => Hopeless'
  BY <1>0, <1>2, EndsWhenHopeless DEF EndsHopeless
<1> QED
  BY <1>1, <1>3, <1>4 DEF EndInv, EndsHopeless

LEMMA EndInvInit == ServicingInit => EndInv
BY DEF ServicingInit, Init, EndInv, AdoptedFirst, LossFinal, EndsHopeless, LostStates, Hopeless,
   Idle, Off, Servicers

\* Where escrows are adopted and the domain ends the service on a loss (bare
\* metal), the service ends only with the settlement, however many passes of
\* timers and requests overlap, and whatever is stopped or answers late.
THEOREM ServiceEndsAtAnEnd == Adopts /\ ~Abandons => (ServicingSpec => EndedAtAnEnd)
<1> SUFFICES ASSUME Adopts, ~Abandons PROVE ServicingSpec => EndedAtAnEnd
  OBVIOUS
<1>1. ServicingInv /\ EndInv /\ [ServicingNext]_servicingVars => EndInv'
  BY EndInvStep
<1>2. ServicingInv /\ EndInv /\ [ServicingNext]_servicingVars
        => [~ended /\ ended' => ~Serviceable \/ ob.mst = "failed"]_servicingVars
  BY EndsWhenHopeless DEF EndInv
<1> QED
  BY <1>1, <1>2, EndInvInit, ServicingInvInit, ServicingInvStep, PTL DEF ServicingSpec, EndedAtAnEnd
=============================================================================
