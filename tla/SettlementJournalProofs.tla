----------------------- MODULE SettlementJournalProofs -----------------------
(***************************************************************************)
(* For every set of callers, workers and duties and every mechanism: the   *)
(* journal keeps its types, a reclaim in progress excludes collection,     *)
(* fulfillment and check, no two callers hold both effects' reservations,  *)
(* what the journal records of the money is what happened to it, and a     *)
(* collection follows its check.  For a mechanism that does not report     *)
(* effects itself: a recorded collection stays, and the journal implements *)
(* SettlementPromise.  With one reclaimer, nothing is refunded under a     *)
(* delivery that was not cleaned up.                                       *)
(***************************************************************************)
EXTENDS SettlementJournal, TLAPS

\* A call that ends is a call.
LEMMA IdleType == Idle \in Calls
BY DEF Idle, Calls

\* Releasing a row, and moving a caller, keep the types.
LEMMA ReleaseType ==
  ASSUME TypeOK, NEW c \in Callers, call[c].k \in Kinds,
         NEW st \in EffectStates, Release(c, st)
  PROVE  op' \in [Kinds -> Rows] /\ call' \in [Callers -> Calls]
<1>1. [op[call[c].k] EXCEPT !.st = st, !.owner = NoOwner, !.live = FALSE] \in Rows
  BY DEF TypeOK, Rows
<1>2. op' = [op EXCEPT ![call[c].k] =
               [op[call[c].k] EXCEPT !.st = st, !.owner = NoOwner, !.live = FALSE]]
  BY DEF Release
<1>3. call' = [call EXCEPT ![c] = Idle]
  BY DEF Release, Set
<1> QED
  BY <1>1, <1>2, <1>3, IdleType DEF TypeOK

LEMMA SetType ==
  ASSUME TypeOK, NEW c \in Callers, NEW new \in Calls, Set(c, new)
  PROVE  call' \in [Callers -> Calls]
BY DEF TypeOK, Set

LEMMA AnswerType ==
  ASSUME TypeOK, NEW c \in Callers,
         NEW a \in StateAnswers \cup {"error", "halt", "complete", "defer", "bound"},
         Answer(c, a)
  PROVE  call' \in [Callers -> Calls]
<1>1. [call[c] EXCEPT !.at = "answered", !.ans = a] \in Calls
  BY DEF TypeOK, Calls
<1> QED
  BY <1>1, SetType DEF Answer

\* Every step keeps the types, given that answers fit their operations.
LEMMA TypeStep == TypeOK /\ AnswersFit /\ [Next]_vars => TypeOK'
<1> USE JournalAssumption DEF EffectStates
<1> SUFFICES ASSUME TypeOK, AnswersFit, [Next]_vars PROVE TypeOK'
  OBVIOUS
<1>1. ASSUME NEW c \in Callers, Step(c) PROVE TypeOK'
  <2>0. call[c] \in Calls
    BY <1>1 DEF TypeOK
  <2>1. ASSUME NEW k \in Kinds, Load(c, k) PROVE TypeOK'
    <3>1. [Idle EXCEPT !.at = "loaded", !.k = k, !.fref = (k = "fulfill") /\ ob.fref,
             !.reason = ob.reason, !.parked = ob.reason /\ ParkedNow] \in Calls
      BY <2>1, IdleType DEF TypeOK, Calls, Obligations, ParkedNow, Idle
    <3> QED
      BY <2>1, <3>1, SetType DEF TypeOK, Load
  <2>2. ASSUME NEW a \in Answers(call[c].k), Ask(c, a) PROVE TypeOK'
    <3>1. a \in StateAnswers \cup {"open", "error", "halt", "complete", "defer"}
      BY <2>2, <2>0 DEF Answers, Failures, Calls, Kinds, StateAnswers
    <3>2. CASE a = "open"
      <4>1. [call[c] EXCEPT !.ans = a] \in Calls
        BY <2>0, <3>2 DEF Calls
      <4> QED
        BY <2>2, <3>2, <4>1, SetType DEF TypeOK, Ask
    <3>3. CASE a # "open"
      BY <2>2, <3>1, <3>3, AnswerType DEF TypeOK, Ask
    <3> QED
      BY <3>2, <3>3
  <2>3. ASSUME NEW a \in {"done", "error"}, Execute(c, a) PROVE TypeOK'
    <3>1. a \in StateAnswers \cup {"error"}
      BY <2>3 DEF StateAnswers
    <3> QED
      BY <2>3, <3>1, AnswerType DEF TypeOK, Execute, Effect
  <2>4. CASE BindFulfillment(c)
    BY <2>4 DEF TypeOK, BindFulfillment, Obligations
  <2>5. CASE ReserveRefused(c)
    BY <2>5, IdleType, SetType DEF TypeOK, ReserveRefused
  <2>6. CASE Reserve(c)
    <3>1. [st |-> "in_progress", owner |-> WorkerOf[c], live |-> TRUE] \in Rows
      BY DEF Rows
    <3>2. op' \in [Kinds -> Rows]
      BY <2>6, <3>1 DEF TypeOK, Reserve
    <3>3. ob' \in Obligations
      BY <2>6 DEF TypeOK, Reserve, Begun, Obligations
    <3>4. [call[c] EXCEPT !.at = IF AfterReserve(c) = "none" THEN "reserved" ELSE "answered",
                          !.ans = AfterReserve(c)] \in Calls
      BY <2>0 DEF Calls, AfterReserve, StateAnswers
    <3> QED
      BY <2>6, <3>2, <3>3, <3>4, SetType DEF TypeOK, Reserve
  <2>7. CASE Bind(c)
    <3>0. [ob EXCEPT !.fref = TRUE] \in Obligations
      BY DEF TypeOK, Obligations
    <3>1. ob' \in Obligations
      BY <2>7, <3>0 DEF TypeOK, Bind
    <3>2. call' \in [Callers -> Calls]
      BY <2>7, AnswerType, IdleType, SetType DEF Bind
    <3> QED
      BY <2>7, <3>1, <3>2 DEF TypeOK, Bind
  <2>8. CASE ReadPark(c)
    <3>1. [call[c] EXCEPT !.at = "read", !.parked = @ \/ op["fulfill"].st = "manual_required"]
            \in Calls
      BY <2>0 DEF Calls
    <3> QED
      BY <2>8, <3>1, SetType DEF TypeOK, ReadPark
  <2>9. CASE LeaseLost(c)
    BY <2>9, IdleType, SetType DEF TypeOK, LeaseLost
  <2>10. Reason(c) \in BOOLEAN
    BY <2>0 DEF Reason, Calls, Carried, TypeOK, Obligations
  <2>11. CASE FinishMaterialize(c)
    <3>1. call[c].k \in Kinds
      BY <2>11 DEF FinishMaterialize, ReadyToFinish, Kinds
    <3>2. op' \in [Kinds -> Rows] /\ call' \in [Callers -> Calls]
      BY <2>11, <3>1, ReleaseType DEF FinishMaterialize
    <3>3. ob' \in Obligations
      BY <2>11, <2>10 DEF FinishMaterialize, TypeOK, Obligations
    <3> QED
      BY <2>11, <3>2, <3>3 DEF TypeOK, FinishMaterialize, Release
  <2>12. CASE FinishStatus(c)
    <3>1. call[c].k \in Kinds /\ StatusState(call[c].ans) \in EffectStates
      BY <2>12 DEF FinishStatus, ReadyToFinish, Kinds, StatusState
    <3>2. op' \in [Kinds -> Rows] /\ call' \in [Callers -> Calls]
      BY <2>12, <3>1, ReleaseType DEF FinishStatus
    <3> DEFINE a == call[c].ans
               mst == IF a \in Reports THEN a ELSE ob.mst
               mat == CASE ob.coll # "succeeded" /\ a = "manual_required" -> "manual_required"
                        [] /\ ob.coll # "succeeded"
                           /\ a \in {"ready", "collected", "reclaimed", "expired"} -> "materialized"
                        [] OTHER -> ob.mat
               coll == IF a = "collected" THEN "succeeded" ELSE ob.coll
               recl == IF a = "reclaimed" THEN "succeeded" ELSE ob.recl
               cond == IF a = "failed" THEN "failed" ELSE ob.cond
    <3>a. ob' = [ob EXCEPT !.mst = mst, !.reason = Reason(c), !.mat = mat,
                           !.coll = coll, !.recl = recl, !.cond = cond]
      BY <2>12 DEF FinishStatus
    <3>b. mst \in Reports \cup {"none", "ready", "pending", "manual_required"}
      BY DEF TypeOK, Obligations
    <3>c. mat \in {"pending", "in_progress", "materialized", "manual_required"}
      BY DEF TypeOK, Obligations
    <3>d. coll \in EffectStates /\ recl \in EffectStates
      BY DEF TypeOK, Obligations
    <3>e. cond \in {"pending", "ready", "failed", "manual_required"}
      BY DEF TypeOK, Obligations
    <3>f. ob \in Obligations
      BY DEF TypeOK
    <3> HIDE DEF mst, mat, coll, recl, cond, EffectStates
    <3>g. [ob EXCEPT !.mst = mst, !.reason = Reason(c), !.mat = mat,
                     !.coll = coll, !.recl = recl, !.cond = cond] \in Obligations
      BY <2>10, <3>b, <3>c, <3>d, <3>e, <3>f DEF Obligations
    <3>3. ob' \in Obligations
      BY <3>a, <3>g
    <3> QED
      BY <2>12, <3>2, <3>3 DEF TypeOK, FinishStatus, Release
  <2>13. CASE FinishCheck(c)
    <3> DEFINE a == CASE call[c].ans = "error" -> "pending"
                      [] call[c].ans = "halt" -> "manual_required"
                      [] OTHER -> call[c].ans
    <3>1. call[c].k = "check" /\ call[c].at \in {"answered", "read"}
      BY <2>13 DEF FinishCheck, ReadyToFinish
    <3>2. a \in {"pending", "ready", "failed", "manual_required"}
      BY <1>1, <3>1 DEF AnswersFit
    <3> DEFINE st == IF a \in {"ready", "failed"} THEN "succeeded" ELSE a
    <3>3. Release(c, st) /\ ob' = [ob EXCEPT !.cond = a, !.reason = Reason(c)]
      BY <2>13 DEF FinishCheck
    <3>4. st \in EffectStates /\ call[c].k \in Kinds
      BY <3>1, <3>2 DEF Kinds
    <3> HIDE DEF a, st
    <3>5. op' \in [Kinds -> Rows] /\ call' \in [Callers -> Calls]
      BY <3>3, <3>4, ReleaseType
    <3>6. ob' \in Obligations
      BY <3>2, <3>3, <2>10 DEF TypeOK, Obligations
    <3> QED
      BY <3>3, <3>5, <3>6 DEF TypeOK, Release
  <2>14. CASE FinishCollect(c)
    <3>1. call[c].k \in Kinds /\ EffectState(call[c].ans) \in EffectStates
      BY <2>14 DEF FinishCollect, ReadyToFinish, Kinds, EffectState
    <3>2. op' \in [Kinds -> Rows] /\ call' \in [Callers -> Calls]
      BY <2>14, <3>1, ReleaseType DEF FinishCollect
    <3>3. ob' \in Obligations
      BY <2>14, <2>10, <3>1 DEF FinishCollect, TypeOK, Obligations
    <3> QED
      BY <2>14, <3>2, <3>3 DEF TypeOK, FinishCollect, Release
  <2>15. CASE FinishReclaim(c)
    <3>1. call[c].k \in Kinds /\ EffectState(call[c].ans) \in EffectStates
      BY <2>15 DEF FinishReclaim, ReadyToFinish, Kinds, EffectState
    <3>2. op' \in [Kinds -> Rows] /\ call' \in [Callers -> Calls]
      BY <2>15, <3>1, ReleaseType DEF FinishReclaim
    <3>3. ob' \in Obligations
      BY <2>15, <2>10, <3>1 DEF FinishReclaim, TypeOK, Obligations
    <3> QED
      BY <2>15, <3>2, <3>3 DEF TypeOK, FinishReclaim, Release
  <2>16. CASE FinishFulfill(c)
    <3>1. call[c].k \in Kinds
      BY <2>16 DEF FinishFulfill, ReadyToFinish, Kinds
    <3>2. op' \in [Kinds -> Rows] /\ call' \in [Callers -> Calls]
      BY <2>16, <3>1, ReleaseType DEF FinishFulfill
    <3>3. ob' \in Obligations
      BY <2>16, <2>10, <3>1 DEF FinishFulfill, TypeOK, Obligations
    <3> QED
      BY <2>16, <3>2, <3>3 DEF TypeOK, FinishFulfill, Release
  <2>17. CASE FinishCleanup(c)
    <3>1. call[c].k \in Kinds
      BY <2>17 DEF FinishCleanup, ReadyToFinish, Kinds
    <3>2. op' \in [Kinds -> Rows] /\ call' \in [Callers -> Calls]
      BY <2>17, <3>1, ReleaseType DEF FinishCleanup
    <3>3. ob' \in Obligations
      BY <2>17, <2>10, <3>1 DEF FinishCleanup, TypeOK, Obligations
    <3> QED
      BY <2>17, <3>2, <3>3 DEF TypeOK, FinishCleanup, Release
  <2>18. CASE ReadClock(c)
    <3>1. {"ready", "expired"} \cap (Reports \cup {"ready"}) \subseteq StateAnswers
      BY DEF StateAnswers
    <3> QED
      BY <2>18, <3>1, AnswerType DEF TypeOK, ReadClock
  <2> QED
    BY <1>1, <2>1, <2>2, <2>3, <2>4, <2>5, <2>6, <2>7, <2>8, <2>18,
       <2>9, <2>11, <2>12, <2>13, <2>14, <2>15, <2>16, <2>17 DEF Step, Finish
<1>2. ASSUME NEW k \in Kinds, ExpireLease(k) PROVE TypeOK'
  <2>0. op[k] \in Rows
    BY <1>2 DEF TypeOK
  <2>1. [op[k] EXCEPT !.live = FALSE] \in Rows
    BY <2>0 DEF Rows
  <2>2. op' = [op EXCEPT ![k] = [op[k] EXCEPT !.live = FALSE]]
    BY <1>2 DEF ExpireLease
  <2> QED
    BY <1>2, <2>1, <2>2 DEF TypeOK, ExpireLease
<1>3. ASSUME NEW w \in Workers, Crash(w) PROVE TypeOK'
  BY <1>3, IdleType DEF TypeOK, Crash
<1>4. CASE Expire
  BY <1>4 DEF TypeOK, Expire
<1>5. CASE DirectReclaim
  BY <1>5 DEF TypeOK, DirectReclaim
<1>6. CASE UNCHANGED vars
  BY <1>6 DEF TypeOK, vars
<1> QED
  BY <1>1, <1>2, <1>3, <1>4, <1>5, <1>6 DEF Next

\* Every step leaves each caller an answer its operation can get.
LEMMA AnswersStep == TypeOK /\ AnswersFit /\ [Next]_vars => AnswersFit'
<1> USE JournalAssumption DEF Idle
<1> SUFFICES ASSUME TypeOK, AnswersFit, [Next]_vars PROVE AnswersFit'
  OBVIOUS
<1>1. ASSUME NEW c \in Callers, Step(c) PROVE AnswersFit'
  <2> DEFINE Fits(new) == new.at \in {"answered", "read"} =>
               /\ new.k = "check" => new.ans \in Decisions \cup {"error", "halt"}
               /\ new.k = "status" => new.ans \in Reports \cup {"ready", "error", "halt"}
  <2>1. ASSUME NEW new, call' = [call EXCEPT ![c] = new], Fits(new) PROVE AnswersFit'
    BY <2>1 DEF AnswersFit, TypeOK
  <2>2. Fits(Idle)
    OBVIOUS
  <2>3. Fits(call[c]) /\ call[c] \in Calls
    BY <1>1 DEF AnswersFit, TypeOK
  <2>4. ASSUME NEW k \in Kinds, Load(c, k) PROVE AnswersFit'
    BY <2>4, <2>1 DEF Load, Set
  <2>5. ASSUME NEW a \in Answers(call[c].k), Ask(c, a) PROVE AnswersFit'
    <3>1. CASE a = "open"
      <4>1. Fits([call[c] EXCEPT !.ans = a])
        BY <2>3, <2>5 DEF Ask, Calls
      <4> QED
        BY <2>5, <2>1, <3>1, <4>1 DEF Ask, Set
    <3>2. CASE a # "open"
      <4>1. Fits([call[c] EXCEPT !.at = "answered", !.ans = a])
        BY <2>3, <2>5, <3>2 DEF Answers, Failures, Calls
      <4> QED
        BY <2>5, <2>1, <3>2, <4>1 DEF Ask, Answer, Set
    <3> QED
      BY <3>1, <3>2
  <2>6. ASSUME NEW a \in {"done", "error"}, Execute(c, a) PROVE AnswersFit'
    <3>1. Fits([call[c] EXCEPT !.at = "answered", !.ans = a])
      BY <2>3, <2>6 DEF Execute, Calls
    <3> QED
      BY <2>6, <2>1, <3>1 DEF Execute, Answer, Set
  <2>7. CASE BindFulfillment(c)
    BY <2>7 DEF BindFulfillment, AnswersFit
  <2>8. CASE Reserve(c)
    <3>1. Fits([call[c] EXCEPT !.at = IF AfterReserve(c) = "none" THEN "reserved" ELSE "answered",
                               !.ans = AfterReserve(c)])
      BY <2>3 DEF AfterReserve, Calls
    <3> QED
      BY <2>8, <2>1, <3>1 DEF Reserve, Set
  <2>9. CASE Bind(c)
    <3>1. Fits([call[c] EXCEPT !.at = "answered", !.ans = "bound"])
      BY <2>3, <2>9 DEF Bind, Calls, StateAnswers
    <3> QED
      BY <2>9, <2>1, <2>2, <3>1 DEF Bind, Answer, Set
  <2>10. CASE ReadPark(c)
    <3>1. Fits([call[c] EXCEPT !.at = "read",
                               !.parked = @ \/ op["fulfill"].st = "manual_required"])
      BY <2>3, <2>10 DEF ReadPark, Calls
    <3> QED
      BY <2>10, <2>1, <3>1 DEF ReadPark, Set
  <2>11. CASE ReserveRefused(c) \/ LeaseLost(c) \/ Finish(c)
    <3>1. call' = [call EXCEPT ![c] = Idle]
      BY <2>11 DEF ReserveRefused, LeaseLost, Finish, FinishMaterialize, FinishStatus,
         FinishCheck, FinishCollect, FinishReclaim, FinishFulfill, FinishCleanup, Release, Set
    <3> QED
      BY <2>1, <2>2, <3>1
  <2>12. CASE ReadClock(c)
    <3> DEFINE a == IF expired /\ "expired" \in Reports THEN "expired" ELSE "ready"
    <3>1. Fits([call[c] EXCEPT !.at = "answered", !.ans = a]) \/ call[c].k = "check"
      BY <2>3, <2>12 DEF Calls
    <3>2. call[c].k # "check"
      BY <2>12 DEF ReadClock
    <3> QED
      BY <2>12, <2>1, <3>1, <3>2 DEF ReadClock, Answer, Set
  <2> QED
    BY <1>1, <2>4, <2>5, <2>6, <2>7, <2>8, <2>9, <2>10, <2>11, <2>12 DEF Step
<1>2. ASSUME NEW w \in Workers, Crash(w) PROVE AnswersFit'
  BY <1>2 DEF AnswersFit, Crash
<1>3. CASE UNCHANGED call
  BY <1>3 DEF AnswersFit
<1> QED
  BY <1>1, <1>2, <1>3 DEF Next, ExpireLease, Expire, DirectReclaim, vars

\* What a finished operation does to the rows: its own is released.
LEMMA FinishedRow ==
  ASSUME TypeOK, AnswersFit, NEW c \in Callers, Finish(c)
  PROVE  /\ call[c].k \in Kinds /\ op[call[c].k].st = "in_progress"
         /\ \E st \in EffectStates \ {"in_progress"} :
              /\ op' = [op EXCEPT ![call[c].k].st = st, ![call[c].k].owner = NoOwner,
                                  ![call[c].k].live = FALSE]
<1> USE DEF EffectStates, ReadyToFinish, Release, Kinds
<1>1. CASE FinishMaterialize(c)
  <2> DEFINE st == CASE call[c].ans = "ready" -> "succeeded"
                     [] call[c].ans \in {"halt", "manual_required"} -> "manual_required"
                     [] OTHER -> "pending"
  <2>1. Release(c, st) /\ ReadyToFinish(c, call[c].k) /\ call[c].k \in Kinds
    BY <1>1 DEF FinishMaterialize
  <2>2. st \in EffectStates \ {"in_progress"}
    OBVIOUS
  <2> HIDE DEF st
  <2> QED
    BY <2>1, <2>2
<1>2. CASE FinishStatus(c)
  BY <1>2 DEF FinishStatus, StatusState
<1>3. CASE FinishCheck(c)
  BY <1>3, JournalAssumption DEF FinishCheck, AnswersFit
<1>4. CASE FinishCollect(c)
  BY <1>4 DEF FinishCollect, EffectState
<1>5. CASE FinishReclaim(c)
  BY <1>5 DEF FinishReclaim, EffectState
<1>6. CASE FinishFulfill(c)
  <2> DEFINE st == CASE call[c].ans \in {"bound", "repair"} -> "succeeded"
                     [] call[c].ans = "halt" -> "manual_required"
                     [] OTHER -> "pending"
  <2>1. Release(c, st) /\ ReadyToFinish(c, call[c].k) /\ call[c].k \in Kinds
    BY <1>6 DEF FinishFulfill
  <2>2. st \in EffectStates \ {"in_progress"}
    OBVIOUS
  <2> HIDE DEF st
  <2> QED
    BY <2>1, <2>2
<1>7. CASE FinishCleanup(c)
  <2> DEFINE st == IF call[c].ans = "done" THEN "succeeded" ELSE "pending"
  <2>1. Release(c, st) /\ ReadyToFinish(c, call[c].k) /\ call[c].k \in Kinds
    BY <1>7 DEF FinishCleanup
  <2>2. st \in EffectStates \ {"in_progress"}
    OBVIOUS
  <2> HIDE DEF st
  <2> QED
    BY <2>1, <2>2
<1> QED
  BY <1>1, <1>2, <1>3, <1>4, <1>5, <1>6, <1>7 DEF Finish

\* The columns of the two effects, and the binding, across a finished operation.
LEMMA FinishedColumns ==
  ASSUME TypeOK, NEW c \in Callers, Finish(c)
  PROVE  /\ ob'.fref = ob.fref
         /\ ob'.recl = "in_progress" => ob.recl = "in_progress"
         /\ ob'.coll = "in_progress" => ob.coll = "in_progress"
<1> USE DEF TypeOK, Obligations, EffectStates
<1>1. CASE FinishMaterialize(c)
  BY <1>1 DEF FinishMaterialize
<1>2. CASE FinishStatus(c)
  BY <1>2 DEF FinishStatus, StatusState
<1>3. CASE FinishCheck(c)
  BY <1>3 DEF FinishCheck
<1>4. CASE FinishCollect(c)
  BY <1>4 DEF FinishCollect, EffectState
<1>5. CASE FinishReclaim(c)
  BY <1>5 DEF FinishReclaim, EffectState
<1>6. CASE FinishFulfill(c)
  BY <1>6 DEF FinishFulfill
<1>7. CASE FinishCleanup(c)
  BY <1>7 DEF FinishCleanup
<1> QED
  BY <1>1, <1>2, <1>3, <1>4, <1>5, <1>6, <1>7 DEF Finish

\* A reclaim in progress stays alone.
LEMMA ReclaimStep == JournalInv /\ [Next]_vars => ReclaimAlone'
<1> SUFFICES ASSUME JournalInv, [Next]_vars PROVE ReclaimAlone'
  OBVIOUS
<1> USE DEF JournalInv, ReclaimAlone, LiveLease, CleanedUp
<1>0. /\ ob \in Obligations /\ op \in [Kinds -> Rows]
      /\ {"fulfill", "check", "cleanup", "collect", "reclaim"} \subseteq Kinds
  BY DEF TypeOK, Kinds
<1>1. ASSUME NEW c \in Callers, Step(c) PROVE ReclaimAlone'
  <2>1. CASE UNCHANGED <<ob, op>>
    BY <2>1
  <2>2. CASE BindFulfillment(c) \/ Bind(c)
    BY <1>0, <2>2 DEF BindFulfillment, Bind, Obligations
  <2>3. CASE Reserve(c)
    <3> DEFINE k == call[c].k
    <3>1. /\ op' = [op EXCEPT ![k] = [st |-> "in_progress", owner |-> WorkerOf[c], live |-> TRUE]]
          /\ ob' = Begun(k) /\ ~Excluded(k) /\ ~TerminalRow(k)
      BY <2>3 DEF Reserve, Reservable
    <3> HIDE DEF k
    <3>2. CASE k = "reclaim"
      BY <1>0, <3>1, <3>2 DEF Begun, Excluded, Obligations
    <3>3. CASE k = "collect"
      BY <1>0, <3>1, <3>3 DEF Begun, Excluded, Obligations
    <3>4. CASE k \in {"fulfill", "check"}
      BY <1>0, <3>1, <3>4 DEF Begun, Excluded, Obligations
    <3>5. CASE k = "cleanup"
      BY <1>0, <3>1, <3>5 DEF Begun, TerminalRow, Obligations
    <3>6. CASE k = "materialize"
      BY <1>0, <3>1, <3>6 DEF Begun, Obligations
    <3>7. CASE k \notin {"reclaim", "collect", "fulfill", "check", "cleanup", "materialize"}
      BY <1>0, <3>1, <3>7 DEF Begun
    <3> QED
      BY <3>2, <3>3, <3>4, <3>5, <3>6, <3>7
  <2>4. CASE Finish(c)
    <3> DEFINE k == call[c].k
    <3>1. k \in Kinds /\ op[k].st = "in_progress"
      BY <2>4, FinishedRow
    <3>2. PICK st \in EffectStates \ {"in_progress"} :
            op' = [op EXCEPT ![k].st = st, ![k].owner = NoOwner, ![k].live = FALSE]
      BY <2>4, FinishedRow
    <3> HIDE DEF k
    <3>3. \A j \in Kinds : /\ op'[j].st = "in_progress" => op[j].st = "in_progress" /\ op'[j] = op[j]
                           /\ op[j].st # "in_progress" => op'[j] = op[j]
      BY <1>0, <3>1, <3>2 DEF Rows
    <3>4. /\ ob'.fref = ob.fref
          /\ ob'.recl = "in_progress" => ob.recl = "in_progress"
          /\ ob'.coll = "in_progress" => ob.coll = "in_progress"
      BY <2>4, FinishedColumns
    <3> QED
      BY <1>0, <3>3, <3>4
  <2> QED
    BY <1>1, <2>1, <2>2, <2>3, <2>4 DEF Step, Load, ReserveRefused, Ask, ReadClock, Execute, ReadPark, LeaseLost
<1>2. ASSUME NEW k \in Kinds, ExpireLease(k) PROVE ReclaimAlone'
  <2>1. \A j \in Kinds : op'[j].st = op[j].st /\ (op'[j].live => op[j].live)
    BY <1>0, <1>2 DEF ExpireLease, Rows
  <2> QED
    BY <1>0, <1>2, <2>1 DEF ExpireLease
<1>3. CASE UNCHANGED <<ob, op>>
  BY <1>3
<1> QED
  BY <1>1, <1>2, <1>3 DEF Next, Crash, Expire, DirectReclaim, vars

\* The steps of one caller leave the calls of the others alone.
LEMMA OthersKeep ==
  ASSUME TypeOK, NEW c \in Callers, Step(c), NEW d \in Callers, c # d
  PROVE  call'[d] = call[d]
<1>1. (\E new : call' = [call EXCEPT ![c] = new]) \/ UNCHANGED call
  BY DEF Step, Load, BindFulfillment, ReserveRefused, Reserve, Ask, Execute, ReadClock, Bind,
     ReadPark, LeaseLost, Finish, FinishMaterialize, FinishStatus, FinishCheck, FinishCollect,
     FinishReclaim, FinishFulfill, FinishCleanup, Release, Answer, Set
<1> QED
  BY <1>1 DEF TypeOK

\* A refused reservation, a lost lease and a finish end the call.
LEMMA CallEnds ==
  ASSUME TypeOK, NEW c \in Callers, ReserveRefused(c) \/ LeaseLost(c) \/ Finish(c)
  PROVE  call' = [call EXCEPT ![c] = Idle] /\ call'[c] = Idle
<1>1. call' = [call EXCEPT ![c] = Idle]
  BY DEF ReserveRefused, LeaseLost, Finish, FinishMaterialize, FinishStatus,
     FinishCheck, FinishCollect, FinishReclaim, FinishFulfill, FinishCleanup, Release, Set
<1> QED
  BY <1>1 DEF TypeOK

\* Across any step an operation under way keeps its kind, and one that was not
\* under way has just been loaded.
LEMMA Underway ==
  ASSUME TypeOK, [Next]_vars, NEW d \in Callers, call'[d].at # "idle"
  PROVE  \/ call[d].at # "idle" /\ call'[d].k = call[d].k
         \/ \E k \in Kinds : Load(d, k) /\ call'[d].k = k
<1> USE DEF Idle
<1>0. call \in [Callers -> Calls] /\ call[d] \in Calls
  BY DEF TypeOK
<1> DEFINE Goes == call[d].at # "idle" /\ call'[d].k = call[d].k
<1>2. CASE Step(d)
  <2>1. ASSUME NEW k \in Kinds, Load(d, k) PROVE call'[d].k = k
    BY <1>0, <2>1 DEF Load, Set
  <2>2. ASSUME NEW a \in Answers(call[d].k), Ask(d, a) PROVE Goes
    BY <1>0, <2>2 DEF Ask, Answer, Set, Calls
  <2>3. ASSUME NEW a \in {"done", "error"}, Execute(d, a) PROVE Goes
    BY <1>0, <2>3 DEF Execute, Answer, Set, Calls
  <2>4. ASSUME Reserve(d) PROVE Goes
    BY <1>0, <2>4 DEF Reserve, Set, Calls
  <2>5. ASSUME ReadClock(d) PROVE Goes
    BY <1>0, <2>5 DEF ReadClock, Answer, Set, Calls
  <2>6. ASSUME Bind(d) PROVE Goes
    <3>1. call[d].at = "answered"
      BY <2>6 DEF Bind
    <3>2. \/ call' = [call EXCEPT ![d] = [call[d] EXCEPT !.at = "answered", !.ans = "bound"]]
          \/ call' = [call EXCEPT ![d] = Idle]
      BY <2>6 DEF Bind, Answer, Set
    <3>3. call'[d] = [call[d] EXCEPT !.at = "answered", !.ans = "bound"]
      BY <1>0, <3>2
    <3> QED
      BY <1>0, <3>1, <3>3 DEF Calls
  <2>7. ASSUME ReadPark(d) PROVE Goes
    BY <1>0, <2>7 DEF ReadPark, Set, Calls
  <2>8. ASSUME ReserveRefused(d) \/ LeaseLost(d) \/ Finish(d) PROVE FALSE
    BY <2>8, CallEnds
  <2>9. ASSUME BindFulfillment(d) PROVE Goes
    BY <1>0, <2>9 DEF BindFulfillment
  <2> QED
    BY <1>2, <2>1, <2>2, <2>3, <2>4, <2>5, <2>6, <2>7, <2>8, <2>9 DEF Step
<1>3. ASSUME NEW w \in Workers, Crash(w) PROVE call'[d] = call[d]
  BY <1>0, <1>3 DEF Crash
<1>4. CASE UNCHANGED call
  BY <1>4
<1> QED
  BY <1>2, <1>3, <1>4, OthersKeep DEF Next, ExpireLease, Expire, DirectReclaim, vars

\* Where an answer comes from: it was held before, or this step gave it.
LEMMA Answered ==
  ASSUME TypeOK, [Next]_vars, NEW d \in Callers, call'[d].at \in {"answered", "read"}
  PROVE  /\ call'[d].k = call[d].k
         /\ \/ call[d].at \in {"answered", "read"} /\ call'[d].ans = call[d].ans
            \/ Reserve(d) /\ call'[d].ans = AfterReserve(d) /\ AfterReserve(d) # "none"
            \/ \E a \in Answers(call[d].k) : Ask(d, a) /\ call'[d].ans = a /\ a # "open"
            \/ \E a \in {"done", "error"} : Execute(d, a) /\ call'[d].ans = a
            \/ /\ ReadClock(d)
               /\ call'[d].ans = IF expired /\ "expired" \in Reports THEN "expired" ELSE "ready"
            \/ Bind(d) /\ call'[d].ans = "bound"
<1> USE DEF Idle
<1>0. call \in [Callers -> Calls] /\ call[d] \in Calls
  BY DEF TypeOK
<1> DEFINE Kept == call'[d].k = call[d].k
           Held == call[d].at \in {"answered", "read"} /\ call'[d].ans = call[d].ans
<1>2. CASE Step(d)
  <2>1. ASSUME NEW k \in Kinds, Load(d, k) PROVE FALSE
    BY <1>0, <2>1 DEF Load, Set
  <2>2. ASSUME NEW a \in Answers(call[d].k), Ask(d, a) PROVE Kept /\ call'[d].ans = a /\ a # "open"
    <3>1. call[d].at = "reserved"
      BY <2>2 DEF Ask
    <3>2. a # "open"
      BY <1>0, <2>2, <3>1 DEF Ask, Set, Calls
    <3>3. call' = [call EXCEPT ![d] = [call[d] EXCEPT !.at = "answered", !.ans = a]]
      BY <2>2, <3>2 DEF Ask, Answer, Set
    <3> QED
      BY <1>0, <3>2, <3>3 DEF Calls
  <2>3. ASSUME NEW a \in {"done", "error"}, Execute(d, a) PROVE Kept /\ call'[d].ans = a
    BY <1>0, <2>3 DEF Execute, Answer, Set, Calls
  <2>4. ASSUME Reserve(d) PROVE Kept /\ call'[d].ans = AfterReserve(d) /\ AfterReserve(d) # "none"
    BY <1>0, <2>4 DEF Reserve, Set, Calls
  <2>5. ASSUME ReadClock(d)
        PROVE  Kept /\ call'[d].ans = IF expired /\ "expired" \in Reports THEN "expired" ELSE "ready"
    BY <1>0, <2>5 DEF ReadClock, Answer, Set, Calls
  <2>6. ASSUME Bind(d) PROVE Kept /\ call'[d].ans = "bound"
    <3>2. \/ call' = [call EXCEPT ![d] = [call[d] EXCEPT !.at = "answered", !.ans = "bound"]]
          \/ call' = [call EXCEPT ![d] = Idle]
      BY <2>6 DEF Bind, Answer, Set
    <3>3. call'[d] = [call[d] EXCEPT !.at = "answered", !.ans = "bound"]
      BY <1>0, <3>2
    <3> QED
      BY <1>0, <3>3 DEF Calls
  <2>7. ASSUME ReadPark(d) PROVE Kept /\ Held
    BY <1>0, <2>7 DEF ReadPark, Set, Calls
  <2>8. ASSUME ReserveRefused(d) \/ LeaseLost(d) \/ Finish(d) PROVE FALSE
    BY <2>8, CallEnds
  <2>9. ASSUME BindFulfillment(d) PROVE Kept /\ Held
    BY <1>0, <2>9 DEF BindFulfillment
  <2> HIDE DEF Kept, Held
  <2>10. Kept
    BY <1>2, <2>1, <2>2, <2>3, <2>4, <2>5, <2>6, <2>7, <2>8, <2>9 DEF Step
  <2> QED
    BY <1>2, <2>10, <2>1, <2>2, <2>3, <2>4, <2>5, <2>6, <2>7, <2>8, <2>9 DEF Step, Kept, Held
<1>3. ASSUME NEW w \in Workers, Crash(w) PROVE call'[d] = call[d]
  BY <1>0, <1>3 DEF Crash
<1>4. CASE UNCHANGED call
  BY <1>4
<1> QED
  BY <1>2, <1>3, <1>4, OthersKeep DEF Next, ExpireLease, Expire, DirectReclaim, vars

\* Finishing an operation writes the journal only.
LEMMA FinishMovesNothing ==
  ASSUME NEW c \in Callers, Finish(c) PROVE UNCHANGED effects
BY DEF Finish, FinishMaterialize, FinishStatus, FinishCheck, FinishCollect, FinishReclaim,
   FinishFulfill, FinishCleanup, Release

\* The mechanism moves the money once and for good.
LEMMA EffectsKept ==
  ASSUME TypeOK, [Next]_vars PROVE effects \subseteq effects'
<1>1. ASSUME NEW c \in Callers, NEW a \in {"done", "error"}, Execute(c, a) PROVE effects \subseteq effects'
  BY <1>1 DEF Execute
<1>2. CASE DirectReclaim
  BY <1>2 DEF DirectReclaim
<1>3. CASE UNCHANGED effects
  BY <1>3
<1> QED
  BY <1>1, <1>2, <1>3, FinishMovesNothing DEF Next, Step, Load, BindFulfillment, ReserveRefused,
     Reserve, Ask, ReadClock, Bind, ReadPark, LeaseLost, ExpireLease, Crash, Expire, vars

\* Which steps write rows: a reservation, a finish and the lapse of a lease.
\* A row that ended keeps its end.
LEMMA EndedRowsStay ==
  ASSUME TypeOK, AnswersFit, [Next]_vars, NEW k \in Kinds, TerminalRow(k)
  PROVE  op'[k].st = op[k].st
<1>0. op \in [Kinds -> Rows]
  BY DEF TypeOK
<1>1. ASSUME NEW c \in Callers, Reserve(c) PROVE op'[k].st = op[k].st
  BY <1>0, <1>1 DEF Reserve, Reservable
<1>2. ASSUME NEW c \in Callers, Finish(c) PROVE op'[k].st = op[k].st
  <2>1. op[call[c].k].st = "in_progress" /\ call[c].k # k
    BY <1>2, FinishedRow DEF TerminalRow
  <2>2. PICK st \in EffectStates :
          op' = [op EXCEPT ![call[c].k].st = st, ![call[c].k].owner = NoOwner, ![call[c].k].live = FALSE]
    BY <1>2, FinishedRow
  <2> QED
    BY <1>0, <2>1, <2>2
<1>3. ASSUME NEW j \in Kinds, ExpireLease(j) PROVE op'[k].st = op[k].st
  BY <1>0, <1>3 DEF ExpireLease, Rows
<1>4. CASE UNCHANGED op
  BY <1>4
<1> QED
  BY <1>1, <1>2, <1>3, <1>4 DEF Next, Step, Load, BindFulfillment, ReserveRefused, Ask, Execute,
     ReadClock, Bind, ReadPark, LeaseLost, Crash, Expire, DirectReclaim, vars

\* A call past its reservation was past it before, or has just reserved.
LEMMA PastReserve ==
  ASSUME TypeOK, [Next]_vars, NEW d \in Callers, call'[d].at \in {"reserved", "answered", "read"}
  PROVE  call[d].at \in {"reserved", "answered", "read"} \/ Reserve(d)
<1> USE DEF Idle
<1>0. call \in [Callers -> Calls] /\ call[d] \in Calls
  BY DEF TypeOK
<1>1. CASE Step(d)
  <2>1. ASSUME NEW k \in Kinds, Load(d, k) PROVE FALSE
    BY <1>0, <2>1 DEF Load, Set
  <2>2. ASSUME ReserveRefused(d) \/ LeaseLost(d) \/ Finish(d) PROVE FALSE
    BY <2>2, CallEnds
  <2>3. CASE BindFulfillment(d)
    BY <2>3 DEF BindFulfillment
  <2> QED
    BY <1>1, <2>1, <2>2, <2>3 DEF Step, Ask, Execute, ReadClock, Bind, ReadPark
<1>2. ASSUME NEW w \in Workers, Crash(w) PROVE call'[d] = call[d]
  BY <1>0, <1>2 DEF Crash
<1>3. CASE UNCHANGED call
  BY <1>3
<1> QED
  BY <1>1, <1>2, <1>3, OthersKeep DEF Next, ExpireLease, Expire, DirectReclaim, vars

\* Which steps move a row out of progress: only a finish of its own kind.
LEMMA RowInProgress ==
  ASSUME TypeOK, AnswersFit, [Next]_vars, NEW k \in Kinds,
         op[k].st = "in_progress", op'[k].st # "in_progress"
  PROVE  \E c \in Callers : Finish(c) /\ call[c].k = k
<1>0. op \in [Kinds -> Rows]
  BY DEF TypeOK
<1>1. ASSUME NEW c \in Callers, Reserve(c) PROVE FALSE
  BY <1>0, <1>1 DEF Reserve
<1>2. ASSUME NEW c \in Callers, Finish(c) PROVE call[c].k = k
  <2>1. PICK st \in EffectStates :
          op' = [op EXCEPT ![call[c].k].st = st, ![call[c].k].owner = NoOwner, ![call[c].k].live = FALSE]
    BY <1>2, FinishedRow
  <2> QED
    BY <1>0, <2>1
<1>3. ASSUME NEW j \in Kinds, ExpireLease(j) PROVE FALSE
  BY <1>0, <1>3 DEF ExpireLease, Rows
<1>4. CASE UNCHANGED op
  BY <1>4
<1> QED
  BY <1>1, <1>2, <1>3, <1>4 DEF Next, Step, Load, BindFulfillment, ReserveRefused, Ask, Execute,
     ReadClock, Bind, ReadPark, LeaseLost, Crash, Expire, DirectReclaim, vars

\* And only a reservation of its own kind moves it into progress.
LEMMA RowReserved ==
  ASSUME TypeOK, AnswersFit, [Next]_vars, NEW k \in Kinds,
         op[k].st # "in_progress", op'[k].st = "in_progress"
  PROVE  \E c \in Callers : Reserve(c) /\ call[c].k = k
<1>0. op \in [Kinds -> Rows]
  BY DEF TypeOK
<1>1. ASSUME NEW c \in Callers, Reserve(c) PROVE call[c].k = k
  BY <1>0, <1>1 DEF Reserve
<1>2. ASSUME NEW c \in Callers, Finish(c) PROVE FALSE
  <2>1. PICK st \in EffectStates \ {"in_progress"} :
          op' = [op EXCEPT ![call[c].k].st = st, ![call[c].k].owner = NoOwner, ![call[c].k].live = FALSE]
    BY <1>2, FinishedRow
  <2>2. call[c].k \in Kinds
    BY <1>2, FinishedRow
  <2> QED
    BY <1>0, <2>1, <2>2 DEF Rows
<1>3. ASSUME NEW j \in Kinds, ExpireLease(j) PROVE FALSE
  BY <1>0, <1>3 DEF ExpireLease, Rows
<1>4. CASE UNCHANGED op
  BY <1>4
<1> QED
  BY <1>1, <1>2, <1>3, <1>4 DEF Next, Step, Load, BindFulfillment, ReserveRefused, Ask, Execute,
     ReadClock, Bind, ReadPark, LeaseLost, Crash, Expire, DirectReclaim, vars

\* A call that waits for the mechanism waited before, has just been told that
\* the escrow is unspent, or has just reserved.
LEMMA StillReserved ==
  ASSUME TypeOK, [Next]_vars, NEW d \in Callers, call'[d].at = "reserved"
  PROVE  /\ call'[d].k = call[d].k
         /\ \/ call[d].at = "reserved" /\ call'[d].ans = call[d].ans
            \/ Ask(d, "open") /\ "open" \in Answers(call[d].k) /\ call'[d].ans = "open"
            \/ Reserve(d) /\ AfterReserve(d) = "none" /\ call'[d].ans = "none"
<1> USE DEF Idle
<1>0. call \in [Callers -> Calls] /\ call[d] \in Calls
  BY DEF TypeOK
<1> DEFINE Kept == call'[d].k = call[d].k
<1>1. CASE Step(d)
  <2>1. ASSUME NEW k \in Kinds, Load(d, k) PROVE FALSE
    BY <1>0, <2>1 DEF Load, Set
  <2>2. ASSUME NEW a \in Answers(call[d].k), Ask(d, a) PROVE Kept /\ call'[d].ans = a /\ a = "open"
    <3>1. ASSUME a # "open" PROVE FALSE
      <4>1. call' = [call EXCEPT ![d] = [call[d] EXCEPT !.at = "answered", !.ans = a]]
        BY <2>2, <3>1 DEF Ask, Answer, Set
      <4> QED
        BY <1>0, <4>1 DEF Calls
    <3>2. call' = [call EXCEPT ![d] = [call[d] EXCEPT !.ans = a]]
      BY <2>2, <3>1 DEF Ask, Set
    <3> QED
      BY <1>0, <3>1, <3>2 DEF Calls
  <2>3. ASSUME NEW a \in {"done", "error"}, Execute(d, a) PROVE FALSE
    BY <1>0, <2>3 DEF Execute, Answer, Set, Calls
  <2>4. ASSUME Reserve(d) PROVE Kept /\ AfterReserve(d) = "none" /\ call'[d].ans = "none"
    BY <1>0, <2>4 DEF Reserve, Set, Calls
  <2>5. ASSUME ReadClock(d) PROVE FALSE
    BY <1>0, <2>5 DEF ReadClock, Answer, Set, Calls
  <2>6. ASSUME Bind(d) PROVE FALSE
    <3>1. \/ call' = [call EXCEPT ![d] = [call[d] EXCEPT !.at = "answered", !.ans = "bound"]]
          \/ call' = [call EXCEPT ![d] = Idle]
      BY <2>6 DEF Bind, Answer, Set
    <3>2. CASE call' = [call EXCEPT ![d] = [call[d] EXCEPT !.at = "answered", !.ans = "bound"]]
      BY <1>0, <3>2 DEF Calls
    <3>3. CASE call' = [call EXCEPT ![d] = Idle]
      BY <1>0, <3>3
    <3> QED
      BY <3>1, <3>2, <3>3
  <2>7. ASSUME ReadPark(d) PROVE FALSE
    BY <1>0, <2>7 DEF ReadPark, Set, Calls
  <2>8. ASSUME ReserveRefused(d) \/ LeaseLost(d) \/ Finish(d) PROVE FALSE
    BY <2>8, CallEnds
  <2>9. ASSUME BindFulfillment(d) PROVE call' = call
    BY <2>9 DEF BindFulfillment
  <2> QED
    BY <1>1, <2>1, <2>2, <2>3, <2>4, <2>5, <2>6, <2>7, <2>8, <2>9 DEF Step
<1>2. ASSUME NEW w \in Workers, Crash(w) PROVE call'[d] = call[d]
  BY <1>0, <1>2 DEF Crash
<1>3. CASE UNCHANGED call
  BY <1>3
<1> QED
  BY <1>1, <1>2, <1>3, OthersKeep DEF Next, ExpireLease, Expire, DirectReclaim, vars

\* Who writes the mechanism's state, its reference and the condition.
LEMMA StateWriters ==
  ASSUME TypeOK, [Next]_vars
  PROVE  \/ ob'.mst = ob.mst /\ ob'.mref = ob.mref /\ ob'.cond = ob.cond
         \/ \E c \in Callers : FinishMaterialize(c) /\ ob'.cond = ob.cond
         \/ \E c \in Callers : FinishStatus(c) /\ ob'.mref = ob.mref
         \/ \E c \in Callers : FinishCheck(c) /\ ob'.mst = ob.mst /\ ob'.mref = ob.mref
<1>0. ob \in Obligations
  BY DEF TypeOK
<1> DEFINE Same == ob'.mst = ob.mst /\ ob'.mref = ob.mref /\ ob'.cond = ob.cond
<1> USE <1>0 DEF Obligations
<1>1. ASSUME NEW c \in Callers, Reserve(c) PROVE Same
  BY <1>1 DEF Reserve, Begun
<1>2. ASSUME NEW c \in Callers, BindFulfillment(c) \/ Bind(c) PROVE Same
  BY <1>2 DEF BindFulfillment, Bind
<1>3. ASSUME NEW c \in Callers, FinishMaterialize(c) PROVE ob'.cond = ob.cond
  BY <1>3 DEF FinishMaterialize
<1>4. ASSUME NEW c \in Callers, FinishStatus(c) PROVE ob'.mref = ob.mref
  BY <1>4 DEF FinishStatus
<1>5. ASSUME NEW c \in Callers, FinishCheck(c) PROVE ob'.mst = ob.mst /\ ob'.mref = ob.mref
  BY <1>5 DEF FinishCheck
<1>6. ASSUME NEW c \in Callers, FinishCollect(c) \/ FinishReclaim(c) PROVE Same
  BY <1>6 DEF FinishCollect, FinishReclaim
<1>7. ASSUME NEW c \in Callers, FinishFulfill(c) \/ FinishCleanup(c) PROVE Same
  BY <1>7 DEF FinishFulfill, FinishCleanup
<1>8. CASE UNCHANGED ob
  BY <1>8
<1> HIDE DEF Same
<1>9. \/ Same \/ UNCHANGED ob
      \/ \E c \in Callers : FinishMaterialize(c) \/ FinishStatus(c) \/ FinishCheck(c)
  BY <1>1, <1>2, <1>6, <1>7 DEF Next, Step, Finish, Load, ReserveRefused, Ask, Execute, ReadClock,
     ReadPark, LeaseLost, ExpireLease, Crash, Expire, DirectReclaim, vars
<1> QED
  BY <1>3, <1>4, <1>5, <1>8, <1>9 DEF Same

\* A loaded call has just been loaded, and has no answer, or has not moved.
LEMMA StillLoaded ==
  ASSUME TypeOK, [Next]_vars, NEW d \in Callers, call'[d].at = "loaded"
  PROVE  call'[d] = call[d] \/ call'[d].ans = "none"
<1> USE DEF Idle
<1>0. call \in [Callers -> Calls] /\ call[d] \in Calls
  BY DEF TypeOK
<1>1. CASE Step(d)
  <2>1. ASSUME NEW k \in Kinds, Load(d, k) PROVE call'[d].ans = "none"
    BY <1>0, <2>1 DEF Load, Set
  <2>2. ASSUME NEW a \in Answers(call[d].k), Ask(d, a) PROVE FALSE
    BY <1>0, <2>2 DEF Ask, Answer, Set, Calls
  <2>3. ASSUME NEW a \in {"done", "error"}, Execute(d, a) PROVE FALSE
    BY <1>0, <2>3 DEF Execute, Answer, Set, Calls
  <2>4. ASSUME Reserve(d) PROVE FALSE
    BY <1>0, <2>4 DEF Reserve, Set, Calls
  <2>5. ASSUME ReadClock(d) PROVE FALSE
    BY <1>0, <2>5 DEF ReadClock, Answer, Set, Calls
  <2>6. ASSUME Bind(d) PROVE FALSE
    <3>1. \/ call' = [call EXCEPT ![d] = [call[d] EXCEPT !.at = "answered", !.ans = "bound"]]
          \/ call' = [call EXCEPT ![d] = Idle]
      BY <2>6 DEF Bind, Answer, Set
    <3>2. CASE call' = [call EXCEPT ![d] = [call[d] EXCEPT !.at = "answered", !.ans = "bound"]]
      BY <1>0, <3>2 DEF Calls
    <3>3. CASE call' = [call EXCEPT ![d] = Idle]
      BY <1>0, <3>3
    <3> QED
      BY <3>1, <3>2, <3>3
  <2>7. ASSUME ReadPark(d) PROVE FALSE
    BY <1>0, <2>7 DEF ReadPark, Set, Calls
  <2>8. ASSUME ReserveRefused(d) \/ LeaseLost(d) \/ Finish(d) PROVE FALSE
    BY <2>8, CallEnds
  <2>9. ASSUME BindFulfillment(d) PROVE call' = call
    BY <2>9 DEF BindFulfillment
  <2> QED
    BY <1>1, <2>1, <2>2, <2>3, <2>4, <2>5, <2>6, <2>7, <2>8, <2>9 DEF Step
<1>2. ASSUME NEW w \in Workers, Crash(w) PROVE call'[d] = call[d]
  BY <1>0, <1>2 DEF Crash
<1>3. CASE UNCHANGED call
  BY <1>3
<1> QED
  BY <1>1, <1>2, <1>3, OthersKeep DEF Next, ExpireLease, Expire, DirectReclaim, vars

\* Only a caller that collects has the money collected.
LEMMA Collects ==
  ASSUME TypeOK, [Next]_vars, "collected" \in effects', "collected" \notin effects
  PROVE  \E c \in Callers : /\ call[c].at = "reserved" /\ call[c].k = "collect"
                            /\ UNCHANGED <<ob, op>>
<1>1. ASSUME NEW c \in Callers, NEW a \in {"done", "error"}, Execute(c, a)
      PROVE  call[c].at = "reserved" /\ call[c].k = "collect" /\ UNCHANGED <<ob, op>>
  BY <1>1 DEF Execute, Effect
<1>2. ASSUME DirectReclaim PROVE FALSE
  BY <1>2 DEF DirectReclaim
<1> QED
  BY <1>1, <1>2, FinishMovesNothing DEF Next, Step, Load, BindFulfillment, ReserveRefused, Reserve,
     Ask, ReadClock, Bind, ReadPark, LeaseLost, ExpireLease, Crash, Expire, vars

LEMMA JournalInit == Init => JournalInv
<1> SUFFICES ASSUME Init PROVE JournalInv
  OBVIOUS
<1>1. TypeOK
  BY IdleType DEF Init, TypeOK, Obligations, Rows, EffectStates
<1>2. AnswersFit
  BY DEF Init, AnswersFit, Idle
<1>3. ReclaimAlone
  BY DEF Init, ReclaimAlone
<1> QED
  BY <1>1, <1>2, <1>3 DEF JournalInv

LEMMA JournalStep == JournalInv /\ [Next]_vars => JournalInv'
BY TypeStep, AnswersStep, ReclaimStep DEF JournalInv

\* The journal's rows, calls and effects keep their types under every
\* interleaving of callers, crashes and lease expiries.
THEOREM TypeCorrect == Spec => []TypeOK
<1>1. JournalInv => TypeOK
  BY DEF JournalInv
<1> QED
  BY <1>1, JournalInit, JournalStep, PTL DEF Spec

\* While a reclaim is in progress there is no collection in progress, no live
\* lease to fulfil or check, and no bound delivery that was not cleaned up,
\* whatever the mechanism answers.
THEOREM ReclaimExclusive == Spec => []ReclaimAlone
<1>1. JournalInv => ReclaimAlone
  BY DEF JournalInv
<1> QED
  BY <1>1, JournalInit, JournalStep, PTL DEF Spec

-----------------------------------------------------------------------------
(* One winner reserves an effect.                                          *)

LEMMA RowsStep == JournalInv /\ RowsAgree /\ [Next]_vars => RowsAgree'
<1> SUFFICES ASSUME JournalInv, RowsAgree, [Next]_vars PROVE RowsAgree'
  OBVIOUS
<1> USE DEF RowsAgree
<1>0. /\ TypeOK /\ AnswersFit
      /\ ob \in Obligations /\ op \in [Kinds -> Rows] /\ {"collect", "reclaim"} \subseteq Kinds
  BY DEF JournalInv, TypeOK, Kinds
<1>1. ASSUME NEW c \in Callers, Step(c) PROVE RowsAgree'
  <2>1. CASE UNCHANGED <<ob, op>>
    BY <2>1
  <2>2. CASE BindFulfillment(c) \/ Bind(c)
    BY <1>0, <2>2 DEF BindFulfillment, Bind, Obligations
  <2>3. CASE Reserve(c)
    <3>1. /\ op' = [op EXCEPT ![call[c].k] = [st |-> "in_progress", owner |-> WorkerOf[c], live |-> TRUE]]
          /\ ob' = Begun(call[c].k) /\ ~Excluded(call[c].k)
      BY <2>3 DEF Reserve, Reservable
    <3>2. CASE call[c].k = "collect"
      BY <1>0, <3>1, <3>2 DEF Begun, Obligations, Excluded
    <3>3. CASE call[c].k = "reclaim"
      BY <1>0, <3>1, <3>3 DEF Begun, Obligations, Excluded
    <3>4. CASE call[c].k \notin {"collect", "reclaim"}
      BY <1>0, <3>1, <3>4 DEF Begun, Obligations
    <3> QED
      BY <3>2, <3>3, <3>4
  <2>4. CASE Finish(c)
    <3> DEFINE k == call[c].k
    <3>1. k \in Kinds /\ op[k].st = "in_progress"
      BY <1>0, <2>4, FinishedRow
    <3>2. PICK st \in EffectStates \ {"in_progress"} :
            op' = [op EXCEPT ![k].st = st, ![k].owner = NoOwner, ![k].live = FALSE]
      BY <1>0, <2>4, FinishedRow
    <3>3. \A j \in Kinds : op'[j].st = "in_progress" => op[j].st = "in_progress" /\ j # k
      BY <1>0, <3>1, <3>2 DEF Rows
    <3>4. /\ k # "collect" => ob'.coll \in {ob.coll, "succeeded"}
          /\ k # "reclaim" => ob'.recl \in {ob.recl, "succeeded"}
      <4> USE <1>0 DEF Obligations, ReadyToFinish
      <4>1. CASE FinishMaterialize(c)
        BY <4>1 DEF FinishMaterialize
      <4>2. CASE FinishStatus(c)
        BY <4>2 DEF FinishStatus
      <4>3. CASE FinishCheck(c)
        BY <4>3 DEF FinishCheck
      <4>4. CASE FinishCollect(c)
        BY <4>4 DEF FinishCollect
      <4>5. CASE FinishReclaim(c)
        BY <4>5 DEF FinishReclaim
      <4>6. CASE FinishFulfill(c)
        BY <4>6 DEF FinishFulfill
      <4>7. CASE FinishCleanup(c)
        BY <4>7 DEF FinishCleanup
      <4> QED
        BY <2>4, <4>1, <4>2, <4>3, <4>4, <4>5, <4>6, <4>7 DEF Finish
    <3> QED
      BY <1>0, <3>3, <3>4
  <2> QED
    BY <1>1, <2>1, <2>2, <2>3, <2>4 DEF Step, Load, ReserveRefused, Ask, ReadClock, Execute, ReadPark, LeaseLost
<1>2. ASSUME NEW k \in Kinds, ExpireLease(k) PROVE RowsAgree'
  <2>1. \A j \in Kinds : op'[j].st = op[j].st
    BY <1>0, <1>2 DEF ExpireLease, Rows
  <2> QED
    BY <1>0, <1>2, <2>1 DEF ExpireLease
<1>3. CASE UNCHANGED <<ob, op>>
  BY <1>3
<1> QED
  BY <1>1, <1>2, <1>3 DEF Next, Crash, Expire, DirectReclaim, vars

\* No two callers hold the reservations to collect and to reclaim at once,
\* whatever the mechanism reports.
THEOREM CollectionRacesReclaim == Spec => []OneInvoker
<1>1. Init => RowsAgree
  BY DEF Init, RowsAgree, Kinds
<1>2. JournalInv /\ RowsAgree /\ [Next]_vars => RowsAgree'
  BY RowsStep
<1>3. RowsAgree => OneInvoker
  BY DEF RowsAgree, OneInvoker, Invoking
<1> QED
  BY <1>1, <1>2, <1>3, JournalInit, JournalStep, PTL DEF Spec

-----------------------------------------------------------------------------
(* What the journal records of the money is what the mechanism did.        *)

\* A call that was told of an effect was told the truth, and still holds it.
AnswersTrue ==
  \A c \in Callers : call[c].at \in {"answered", "read"} =>
    /\ call[c].k = "collect" /\ call[c].ans = "done" => "collected" \in effects
    /\ call[c].k = "reclaim" /\ call[c].ans = "done" => "reclaimed" \in effects
    /\ call[c].k = "status" /\ call[c].ans \in {"collected", "reclaimed"} => call[c].ans \in effects

\* An answer that tells of an effect follows the effect.
LEMMA AnswersTrueStep ==
  JournalInv /\ AnswersTrue /\ [Next]_vars => AnswersTrue'
<1> SUFFICES ASSUME JournalInv, AnswersTrue, [Next]_vars,
                    NEW d \in Callers, call'[d].at \in {"answered", "read"}
             PROVE  /\ call'[d].k = "collect" /\ call'[d].ans = "done" => "collected" \in effects'
                    /\ call'[d].k = "reclaim" /\ call'[d].ans = "done" => "reclaimed" \in effects'
                    /\ call'[d].k = "status" /\ call'[d].ans \in {"collected", "reclaimed"}
                         => call'[d].ans \in effects'
  BY DEF AnswersTrue
<1>0. TypeOK /\ call[d] \in Calls
  BY DEF JournalInv, TypeOK
<1>1. call'[d].k = call[d].k /\ effects \subseteq effects'
  BY <1>0, Answered, EffectsKept
<1>2. CASE call[d].at \in {"answered", "read"} /\ call'[d].ans = call[d].ans
  BY <1>1, <1>2 DEF AnswersTrue
<1>3. CASE Reserve(d) /\ call'[d].ans = AfterReserve(d)
  BY <1>1, <1>3 DEF AfterReserve
<1>4. ASSUME NEW a \in Answers(call[d].k), Ask(d, a), call'[d].ans = a
      PROVE  /\ call[d].k \in {"collect", "reclaim"} => a # "done"
             /\ call[d].k = "status" /\ a \in {"collected", "reclaimed"} => a \in effects
  BY <1>4 DEF Answers, Failures, True
<1>5. ASSUME NEW a \in {"done", "error"}, Execute(d, a)
      PROVE  effects' = {Effect(call[d].k)} /\ call[d].k \in {"collect", "reclaim"}
  BY <1>5 DEF Execute
<1>6. CASE ReadClock(d) /\ call'[d].ans \in {"ready", "expired"}
  BY <1>1, <1>6 DEF ReadClock
<1>7. CASE Bind(d) /\ call'[d].ans = "bound"
  BY <1>1, <1>7
<1> QED
  BY <1>0, <1>1, <1>2, <1>3, <1>4, <1>5, <1>6, <1>7, Answered DEF Effect

\* Every writer of the effects' columns records what happened.
LEMMA TruthStep ==
  JournalInv /\ AnswersTrue /\ JournalTruthful /\ [Next]_vars => JournalTruthful'
<1> SUFFICES ASSUME JournalInv, AnswersTrue, JournalTruthful, [Next]_vars PROVE JournalTruthful'
  OBVIOUS
<1> USE DEF JournalTruthful
<1>0. TypeOK /\ ob \in Obligations /\ effects \subseteq effects'
  BY EffectsKept DEF JournalInv, TypeOK
<1>1. ASSUME NEW c \in Callers, Reserve(c) PROVE JournalTruthful'
  BY <1>0, <1>1 DEF Reserve, Begun, Obligations
<1>2. ASSUME NEW c \in Callers, BindFulfillment(c) \/ Bind(c) PROVE JournalTruthful'
  BY <1>0, <1>2 DEF BindFulfillment, Bind, Obligations
<1>3. ASSUME NEW c \in Callers, Finish(c) PROVE JournalTruthful'
  <2> USE <1>0 DEF Obligations, ReadyToFinish
  <2>0. call[c].at \in {"answered", "read"}
    BY <1>3 DEF Finish, FinishMaterialize, FinishStatus, FinishCheck, FinishCollect, FinishReclaim,
       FinishFulfill, FinishCleanup
  <2>1. CASE FinishStatus(c)
    BY <2>0, <2>1 DEF FinishStatus, AnswersTrue
  <2>2. CASE FinishCollect(c)
    BY <2>0, <2>2 DEF FinishCollect, EffectState, AnswersTrue
  <2>3. CASE FinishReclaim(c)
    BY <2>0, <2>3 DEF FinishReclaim, EffectState, AnswersTrue
  <2>4. CASE FinishMaterialize(c)
    BY <2>4 DEF FinishMaterialize
  <2>5. CASE FinishCheck(c)
    BY <2>5 DEF FinishCheck
  <2>6. CASE FinishFulfill(c) \/ FinishCleanup(c)
    BY <2>6 DEF FinishFulfill, FinishCleanup
  <2> QED
    BY <1>3, <2>1, <2>2, <2>3, <2>4, <2>5, <2>6 DEF Finish
<1>4. CASE UNCHANGED ob
  BY <1>0, <1>4
<1> QED
  BY <1>1, <1>2, <1>3, <1>4 DEF Next, Step, Load, ReserveRefused, Ask, Execute, ReadClock, ReadPark,
     LeaseLost, ExpireLease, Crash, Expire, DirectReclaim, vars

\* The journal never records a payout or a refund that the mechanism did not
\* make: whatever the mechanism reports, loses or repeats, however late.
THEOREM JournalTellsTruth == Spec => []JournalTruthful
<1>1. Init => AnswersTrue /\ JournalTruthful
  BY DEF Init, AnswersTrue, JournalTruthful, Idle
<1> QED
  BY <1>1, JournalInit, JournalStep, AnswersTrueStep, TruthStep, PTL DEF Spec

-----------------------------------------------------------------------------
(* Collection and the check before it.                                     *)

\* A check that passed is final, and only after one does anybody collect.
CheckFinal == op["check"].st = "succeeded"

CollectsChecked ==
  /\ ob.cond = "ready" => CheckFinal
  /\ \A c \in Callers : call[c].at # "idle" /\ call[c].k = "collect" => ob.fref /\ CheckFinal

\* What was paid was paid for a checked delivery.
PaidChecked == "collected" \in effects => ob.fref /\ CheckFinal

CheckedInv == CollectsChecked /\ PaidChecked /\ CollectedAfterCheck

\* Once a delivery is bound it stays bound.
LEMMA BindingStays ==
  ASSUME TypeOK, [Next]_vars, ob.fref PROVE ob'.fref
<1>0. ob \in Obligations
  BY DEF TypeOK
<1>1. ASSUME NEW c \in Callers, Reserve(c) PROVE ob'.fref
  BY <1>0, <1>1 DEF Reserve, Begun, Obligations
<1>2. ASSUME NEW c \in Callers, BindFulfillment(c) \/ Bind(c) PROVE ob'.fref
  BY <1>0, <1>2 DEF BindFulfillment, Bind, Obligations
<1>3. ASSUME NEW c \in Callers, Finish(c) PROVE ob'.fref
  BY <1>3, FinishedColumns
<1>4. CASE UNCHANGED ob
  BY <1>4
<1> QED
  BY <1>1, <1>2, <1>3, <1>4 DEF Next, Step, Load, ReserveRefused, Ask, Execute, ReadClock, ReadPark,
     LeaseLost, ExpireLease, Crash, Expire, DirectReclaim, vars

\* A collection begins only on a check that passed, and no writer of
\* condition_state takes that check's row back.
LEMMA CollectsCheckedStep == JournalInv /\ CollectsChecked /\ [Next]_vars => CollectsChecked'
<1> SUFFICES ASSUME JournalInv, CollectsChecked, [Next]_vars PROVE CollectsChecked'
  OBVIOUS
<1> USE DEF CollectsChecked, CheckFinal
<1>0. /\ TypeOK /\ AnswersFit /\ ob \in Obligations /\ op \in [Kinds -> Rows] /\ "check" \in Kinds
  BY DEF JournalInv, TypeOK, Kinds
<1>1. (ob.fref => ob'.fref) /\ (CheckFinal => CheckFinal')
  BY <1>0, BindingStays, EndedRowsStay DEF TerminalRow
<1>2. ASSUME NEW d \in Callers, call'[d].at # "idle", call'[d].k = "collect"
      PROVE  ob'.fref /\ CheckFinal'
  <2>1. CASE call[d].at # "idle" /\ call'[d].k = call[d].k
    BY <1>1, <1>2, <2>1
  <2>2. CASE Load(d, "collect")
    BY <1>1, <1>2, <2>2 DEF Load, Allowed
  <2> QED
    BY <1>0, <1>2, <2>1, <2>2, Underway
<1>3. ASSUME ob'.cond = "ready" PROVE CheckFinal'
  <2>1. CASE ob.cond = "ready"
    BY <1>1, <2>1
  <2>2. CASE ob.cond # "ready"
    <3> USE <1>0, <1>3, <2>2 DEF Obligations
    <3>1. ASSUME NEW c \in Callers, Reserve(c) PROVE FALSE
      BY <3>1 DEF Reserve, Begun
    <3>2. ASSUME NEW c \in Callers, BindFulfillment(c) \/ Bind(c) PROVE FALSE
      BY <3>2 DEF BindFulfillment, Bind
    <3>3. ASSUME NEW c \in Callers, FinishCheck(c) PROVE CheckFinal'
      BY <3>3 DEF FinishCheck, ReadyToFinish, Release, Rows
    <3>4. ASSUME NEW c \in Callers, FinishStatus(c) PROVE FALSE
      BY <3>4 DEF FinishStatus
    <3>5. ASSUME NEW c \in Callers, FinishMaterialize(c) PROVE FALSE
      BY <3>5 DEF FinishMaterialize
    <3>6. ASSUME NEW c \in Callers, FinishCollect(c) \/ FinishReclaim(c) PROVE FALSE
      BY <3>6 DEF FinishCollect, FinishReclaim
    <3>7. ASSUME NEW c \in Callers, FinishFulfill(c) \/ FinishCleanup(c) PROVE FALSE
      BY <3>7 DEF FinishFulfill, FinishCleanup
    <3> QED
      BY <3>1, <3>2, <3>3, <3>4, <3>5, <3>6, <3>7 DEF Next, Step, Finish, Load, ReserveRefused, Ask,
         Execute, ReadClock, ReadPark, LeaseLost, ExpireLease, Crash, Expire, DirectReclaim, vars
  <2> QED
    BY <2>1, <2>2
<1> QED
  BY <1>2, <1>3

\* Every writer of the collection's column collects, or was told by the
\* mechanism of a collection somebody made.
LEMMA CheckedStep ==
  JournalInv /\ AnswersTrue /\ CheckedInv /\ [Next]_vars => CheckedInv'
<1> SUFFICES ASSUME JournalInv, AnswersTrue, CheckedInv, [Next]_vars PROVE CheckedInv'
  OBVIOUS
<1> USE DEF CheckFinal
<1>0. /\ TypeOK /\ AnswersFit /\ ob \in Obligations /\ op \in [Kinds -> Rows] /\ "check" \in Kinds
      /\ CollectsChecked /\ PaidChecked /\ CollectedAfterCheck
  BY DEF JournalInv, TypeOK, Kinds, CheckedInv
<1> DEFINE Checked == ob.fref /\ CheckFinal
<1>1. Checked => Checked'
  BY <1>0, BindingStays, EndedRowsStay DEF TerminalRow
<1>2. PaidChecked'
  <2>1. CASE "collected" \in effects
    BY <1>0, <1>1, <2>1 DEF PaidChecked
  <2>2. CASE "collected" \notin effects
    BY <1>0, <1>1, <2>2, Collects DEF PaidChecked, CollectsChecked
  <2> QED
    BY <2>1, <2>2
<1>3. ASSUME ob'.coll # "pending", ob'.coll # ob.coll PROVE Checked
  <2> USE <1>0, <1>3 DEF Obligations, ReadyToFinish
  <2>1. ASSUME NEW c \in Callers, Reserve(c) PROVE Checked
    <3>1. call[c].at = "loaded" /\ ob' = Begun(call[c].k)
      BY <2>1 DEF Reserve
    <3>2. call[c].k = "collect"
      BY <3>1 DEF Begun
    <3> QED
      BY <3>1, <3>2 DEF CollectsChecked
  <2>2. ASSUME NEW c \in Callers, BindFulfillment(c) \/ Bind(c) PROVE FALSE
    BY <2>2 DEF BindFulfillment, Bind
  <2>3. ASSUME NEW c \in Callers, FinishStatus(c) PROVE Checked
    <3>1. call[c].at \in {"answered", "read"} /\ call[c].k = "status" /\ call[c].ans = "collected"
      BY <2>3 DEF FinishStatus
    <3> QED
      BY <3>1 DEF AnswersTrue, PaidChecked
  <2>4. ASSUME NEW c \in Callers, FinishCollect(c) PROVE Checked
    BY <2>4 DEF FinishCollect, CollectsChecked
  <2>5. ASSUME NEW c \in Callers, FinishReclaim(c) PROVE FALSE
    BY <2>5 DEF FinishReclaim
  <2>6. ASSUME NEW c \in Callers, FinishMaterialize(c) PROVE FALSE
    BY <2>6 DEF FinishMaterialize
  <2>7. ASSUME NEW c \in Callers, FinishCheck(c) PROVE FALSE
    BY <2>7 DEF FinishCheck
  <2>8. ASSUME NEW c \in Callers, FinishFulfill(c) \/ FinishCleanup(c) PROVE FALSE
    BY <2>8 DEF FinishFulfill, FinishCleanup
  <2> HIDE DEF Checked
  <2> QED
    BY <2>1, <2>2, <2>3, <2>4, <2>5, <2>6, <2>7, <2>8 DEF Next, Step, Finish, Load, ReserveRefused,
       Ask, Execute, ReadClock, ReadPark, LeaseLost, ExpireLease, Crash, Expire, DirectReclaim, vars
<1>4. CollectedAfterCheck'
  BY <1>0, <1>1, <1>3 DEF CollectedAfterCheck
<1> QED
  BY <1>0, <1>2, <1>4, CollectsCheckedStep DEF CheckedInv

LEMMA CheckedInit == Init => CheckedInv
BY DEF Init, CheckedInv, CollectsChecked, PaidChecked, CollectedAfterCheck, CheckFinal, Idle

\* The journal shows a collection begun, made or reported only for a bound
\* delivery whose check succeeded, for any number of callers, takeovers and
\* late answers, whatever the mechanism reports.
THEOREM CollectionFollowsCheck == Spec => []CollectedAfterCheck
<1>1. Init => AnswersTrue
  BY DEF Init, AnswersTrue, Idle
<1>2. CheckedInv => CollectedAfterCheck
  BY DEF CheckedInv
<1> QED
  BY <1>1, <1>2, CheckedInit, CheckedStep, AnswersTrueStep, JournalInit, JournalStep, PTL DEF Spec

\* The row behind a recorded collection has ended.
CollectionRow == ob.coll = "succeeded" => op["collect"].st = "succeeded"

\* A mechanism that does not report a collection itself.
CollectionUnreported == "collected" \notin Reports

\* Without such reports, only the collection's own finish records one.
LEMMA CollectionRowStep ==
  CollectionUnreported /\ JournalInv /\ CollectionRow /\ [Next]_vars => CollectionRow'
<1> SUFFICES ASSUME CollectionUnreported, JournalInv, CollectionRow, [Next]_vars,
                    ob'.coll = "succeeded"
             PROVE  op'["collect"].st = "succeeded"
  BY DEF CollectionRow
<1>0. /\ TypeOK /\ AnswersFit /\ ob \in Obligations /\ op \in [Kinds -> Rows] /\ "collect" \in Kinds
  BY DEF JournalInv, TypeOK, Kinds
<1>1. CASE ob.coll = "succeeded"
  BY <1>0, <1>1, EndedRowsStay DEF CollectionRow, TerminalRow
<1>2. CASE ob.coll # "succeeded"
  <2> USE <1>0, <1>2 DEF Obligations
  <2>1. ASSUME NEW c \in Callers, Reserve(c) PROVE FALSE
    BY <2>1 DEF Reserve, Begun
  <2>2. ASSUME NEW c \in Callers, BindFulfillment(c) \/ Bind(c) PROVE FALSE
    BY <2>2 DEF BindFulfillment, Bind
  <2>3. ASSUME NEW c \in Callers, FinishCollect(c) PROVE op'["collect"].st = "succeeded"
    BY <2>3 DEF FinishCollect, ReadyToFinish, Release, Rows
  <2>4. ASSUME NEW c \in Callers, FinishStatus(c) PROVE FALSE
    <3>1. call[c].ans # "collected"
      BY <2>4 DEF FinishStatus, ReadyToFinish, AnswersFit, CollectionUnreported
    <3> QED
      BY <2>4, <3>1 DEF FinishStatus
  <2>5. ASSUME NEW c \in Callers, FinishMaterialize(c) PROVE FALSE
    BY <2>5 DEF FinishMaterialize
  <2>6. ASSUME NEW c \in Callers, FinishCheck(c) PROVE FALSE
    BY <2>6 DEF FinishCheck
  <2>7. ASSUME NEW c \in Callers, FinishReclaim(c) PROVE FALSE
    BY <2>7 DEF FinishReclaim
  <2>8. ASSUME NEW c \in Callers, FinishFulfill(c) \/ FinishCleanup(c) PROVE FALSE
    BY <2>8 DEF FinishFulfill, FinishCleanup
  <2> QED
    BY <2>1, <2>2, <2>3, <2>4, <2>5, <2>6, <2>7, <2>8 DEF Next, Step, Finish, Load, ReserveRefused,
       Ask, Execute, ReadClock, ReadPark, LeaseLost, ExpireLease, Crash, Expire, DirectReclaim, vars
<1> QED
  BY <1>1, <1>2

\* With a mechanism that does not report collections itself, no call, however
\* late, takes a recorded collection back.
THEOREM CollectionStaysRecorded == CollectionUnreported => (Spec => CollectionFinal)
<1> SUFFICES ASSUME CollectionUnreported PROVE Spec => CollectionFinal
  OBVIOUS
<1>0. Init => CollectionRow
  BY DEF Init, CollectionRow
<1>1. JournalInv /\ CollectionRow /\ [Next]_vars => CollectionRow'
  BY CollectionRowStep
<1>2. ASSUME JournalInv, CollectionRow, [Next]_vars, ob.coll = "succeeded" PROVE ob'.coll = "succeeded"
  <2>0. /\ TypeOK /\ AnswersFit /\ ob \in Obligations /\ op["collect"].st = "succeeded"
    BY <1>2 DEF JournalInv, TypeOK, CollectionRow
  <2>1. ASSUME NEW c \in Callers, Reserve(c) PROVE ob'.coll = "succeeded"
    BY <1>2, <2>0, <2>1 DEF Reserve, Begun, Reservable, TerminalRow, Obligations
  <2>2. ASSUME NEW c \in Callers, BindFulfillment(c) \/ Bind(c) PROVE ob'.coll = "succeeded"
    BY <1>2, <2>0, <2>2 DEF BindFulfillment, Bind, Obligations
  <2>3. ASSUME NEW c \in Callers, Finish(c) PROVE ob'.coll = "succeeded"
    <3> USE <1>2, <2>0 DEF Obligations, ReadyToFinish
    <3>1. CASE FinishStatus(c)
      BY <3>1 DEF FinishStatus
    <3>2. CASE FinishCollect(c)
      BY <3>2 DEF FinishCollect
    <3>3. CASE FinishReclaim(c) \/ FinishCleanup(c)
      BY <3>3 DEF FinishReclaim, FinishCleanup
    <3>4. CASE FinishMaterialize(c)
      BY <3>4 DEF FinishMaterialize
    <3>5. CASE FinishCheck(c)
      BY <3>5 DEF FinishCheck
    <3>6. CASE FinishFulfill(c)
      BY <3>6 DEF FinishFulfill
    <3> QED
      BY <2>3, <3>1, <3>2, <3>3, <3>4, <3>5, <3>6 DEF Finish
  <2>4. CASE UNCHANGED ob
    BY <1>2, <2>4
  <2> QED
    BY <1>2, <2>1, <2>2, <2>3, <2>4 DEF Next, Step, Load, ReserveRefused, Ask, Execute, ReadClock,
       ReadPark, LeaseLost, ExpireLease, Crash, Expire, DirectReclaim, vars
<1>3. JournalInv /\ CollectionRow /\ [Next]_vars
        => [ob.coll = "succeeded" => ob'.coll = "succeeded"]_vars
  BY <1>2
<1> QED
  BY <1>0, <1>1, <1>3, JournalInit, JournalStep, PTL DEF Spec, CollectionFinal

-----------------------------------------------------------------------------
(* A reclaim and the delivery it would undercut.                           *)

\* While a reclaim's row is in progress no delivery can be bound any more.
ReclaimRow ==
  op["reclaim"].st = "in_progress" =>
    /\ ob.recl \in {"in_progress", "succeeded"}
    /\ ob.fref => CleanedUp

\* A caller performs its duties; and the one that reclaims holds the row.
OnDuty == \A c \in Callers : call[c].at # "idle" => call[c].k \in Duties[c]

OneReclaimer ==
  \A c, d \in Callers : "reclaim" \in Duties[c] /\ "reclaim" \in Duties[d] => c = d

ReclaimerHolds ==
  \A c \in Callers :
    call[c].at \in {"reserved", "answered", "read"} /\ call[c].k = "reclaim"
      => op["reclaim"].st = "in_progress"

LEMMA ReclaimRowStep == JournalInv /\ ReclaimRow /\ [Next]_vars => ReclaimRow'
<1> SUFFICES ASSUME JournalInv, ReclaimRow, [Next]_vars, op'["reclaim"].st = "in_progress"
             PROVE  ob'.recl \in {"in_progress", "succeeded"} /\ (ob'.fref => CleanedUp')
  BY DEF ReclaimRow
<1>0. /\ TypeOK /\ AnswersFit /\ ob \in Obligations /\ op \in [Kinds -> Rows]
      /\ {"reclaim", "cleanup"} \subseteq Kinds
  BY DEF JournalInv, TypeOK, Kinds
<1>1. CleanedUp => CleanedUp'
  BY <1>0, EndedRowsStay DEF CleanedUp, TerminalRow
<1>2. CASE op["reclaim"].st # "in_progress"
  <2>1. PICK c \in Callers : Reserve(c) /\ call[c].k = "reclaim"
    BY <1>0, <1>2, RowReserved
  <2>2. ob' = [ob EXCEPT !.recl = "in_progress"] /\ (ob.fref => CleanedUp)
    BY <2>1 DEF Reserve, Begun, Reservable, Excluded
  <2> QED
    BY <1>0, <1>1, <2>2 DEF Obligations
<1>3. CASE op["reclaim"].st = "in_progress"
  <2>0. ob.recl \in {"in_progress", "succeeded"} /\ (ob.fref => CleanedUp)
    BY <1>3 DEF ReclaimRow
  <2>1. ASSUME NEW c \in Callers, Reserve(c)
        PROVE  ob'.recl \in {"in_progress", "succeeded"} /\ ob'.fref = ob.fref
    BY <1>0, <2>0, <2>1 DEF Reserve, Begun, Obligations
  <2>2. ASSUME NEW c \in Callers, BindFulfillment(c) \/ Bind(c)
        PROVE  ob'.recl = ob.recl /\ ob'.fref = ob.fref
    BY <1>0, <2>0, <2>2 DEF BindFulfillment, Bind, Obligations
  <2>3. ASSUME NEW c \in Callers, Finish(c)
        PROVE  ob'.recl \in {"in_progress", "succeeded"} /\ ob'.fref = ob.fref
    <3>0. ob'.fref = ob.fref
      BY <1>0, <2>3, FinishedColumns
    <3> USE <1>0, <2>0 DEF Obligations, ReadyToFinish
    <3>1. CASE FinishStatus(c)
      BY <3>0, <3>1 DEF FinishStatus
    <3>2. CASE FinishCollect(c) \/ FinishCleanup(c)
      BY <3>0, <3>2 DEF FinishCollect, FinishCleanup
    <3>3. ASSUME FinishReclaim(c) PROVE FALSE
      BY <3>3 DEF FinishReclaim, Release, Rows, EffectState
    <3>4. CASE FinishMaterialize(c)
      BY <3>0, <3>4 DEF FinishMaterialize
    <3>5. CASE FinishCheck(c)
      BY <3>0, <3>5 DEF FinishCheck
    <3>6. CASE FinishFulfill(c)
      BY <3>0, <3>6 DEF FinishFulfill
    <3> QED
      BY <2>3, <3>1, <3>2, <3>3, <3>4, <3>5, <3>6 DEF Finish
  <2>4. CASE UNCHANGED ob
    BY <1>1, <2>0, <2>4
  <2> QED
    BY <1>1, <2>0, <2>1, <2>2, <2>3, <2>4 DEF Next, Step, Load, ReserveRefused, Ask, Execute, ReadClock,
       ReadPark, LeaseLost, ExpireLease, Crash, Expire, DirectReclaim, vars
<1> QED
  BY <1>2, <1>3

LEMMA OnDutyStep == TypeOK /\ OnDuty /\ [Next]_vars => OnDuty'
<1> SUFFICES ASSUME TypeOK, OnDuty, [Next]_vars, NEW d \in Callers, call'[d].at # "idle"
             PROVE  call'[d].k \in Duties[d]
  BY DEF OnDuty
<1>1. ASSUME NEW k \in Kinds, Load(d, k) PROVE k \in Duties[d]
  BY <1>1 DEF Load
<1> QED
  BY <1>1, Underway DEF OnDuty

LEMMA ReclaimerStep ==
  OneReclaimer /\ JournalInv /\ OnDuty /\ ReclaimerHolds /\ [Next]_vars => ReclaimerHolds'
<1> SUFFICES ASSUME OneReclaimer, JournalInv, OnDuty, ReclaimerHolds, [Next]_vars, NEW d \in Callers,
                    call'[d].at \in {"reserved", "answered", "read"}, call'[d].k = "reclaim",
                    op'["reclaim"].st # "in_progress"
             PROVE  FALSE
  BY DEF ReclaimerHolds
<1>0. TypeOK /\ AnswersFit /\ op \in [Kinds -> Rows] /\ "reclaim" \in Kinds /\ call[d] \in Calls
  BY DEF JournalInv, TypeOK, Kinds
<1>1. call[d].k = "reclaim" /\ call[d].at # "idle"
  <2>1. call[d].at # "idle"
    BY <1>0, PastReserve DEF Reserve
  <2>2. ASSUME NEW k \in Kinds, Load(d, k) PROVE FALSE
    BY <2>1, <2>2 DEF Load
  <2> QED
    BY <1>0, <2>1, <2>2, Underway
<1>2. CASE Reserve(d)
  BY <1>0, <1>1, <1>2 DEF Reserve
<1>3. CASE call[d].at \in {"reserved", "answered", "read"}
  <2>1. op["reclaim"].st = "in_progress"
    BY <1>1, <1>3 DEF ReclaimerHolds
  <2>2. PICK c \in Callers : Finish(c) /\ call[c].k = "reclaim"
    BY <1>0, <2>1, RowInProgress
  <2>3. call[c].at # "idle"
    BY <2>2 DEF Finish, FinishMaterialize, FinishStatus, FinishCheck, FinishCollect, FinishReclaim,
       FinishFulfill, FinishCleanup, ReadyToFinish
  <2>4. c = d
    BY <1>1, <2>2, <2>3 DEF OnDuty, OneReclaimer
  <2> QED
    BY <1>0, <2>2, <2>4, CallEnds DEF Idle
<1> QED
  BY <1>0, <1>2, <1>3, PastReserve

LEMMA UndercutInit == Init => ReclaimRow /\ OnDuty /\ ReclaimerHolds
BY DEF Init, ReclaimRow, OnDuty, ReclaimerHolds, Idle, Kinds

\* Whoever still holds the reclaim's reservation asks for the payer's money
\* only while no delivery is bound, or after the bound one was cleaned up.
THEOREM HolderDoesNotUndercut ==
  Spec => [](\A c \in Callers : Invoking(c, "reclaim") => (ob.fref => CleanedUp))
<1>1. ReclaimRow => \A c \in Callers : Invoking(c, "reclaim") => (ob.fref => CleanedUp)
  BY DEF ReclaimRow, Invoking
<1> QED
  BY <1>1, UndercutInit, ReclaimRowStep, JournalInit, JournalStep, PTL DEF Spec

\* When one caller at a time reclaims, no caller at all asks the mechanism to
\* return the money for a delivery that is bound and not cleaned up. (With two,
\* one whose lease was taken over and given back may still be asking.)
THEOREM ReclaimDoesNotUndercut == OneReclaimer => (Spec => []DeliveryNotUndercut)
<1> SUFFICES ASSUME OneReclaimer PROVE Spec => []DeliveryNotUndercut
  OBVIOUS
<1>1. JournalInv /\ OnDuty /\ ReclaimerHolds /\ [Next]_vars => ReclaimerHolds'
  BY ReclaimerStep
<1>2. JournalInv /\ OnDuty /\ [Next]_vars => OnDuty'
  BY OnDutyStep DEF JournalInv
<1>3. ReclaimRow /\ ReclaimerHolds => DeliveryNotUndercut
  BY DEF ReclaimRow, ReclaimerHolds, DeliveryNotUndercut
<1> QED
  BY <1>1, <1>2, <1>3, UndercutInit, ReclaimRowStep, JournalInit, JournalStep, PTL DEF Spec

-----------------------------------------------------------------------------
(* The journal implements SettlementPromise.                               *)

\* Whoever checks, checks a delivery that is bound.
ChecksBound ==
  \A c \in Callers : call[c].at # "idle" /\ call[c].k = "check" => ob.fref

\* The row behind a recorded reclaim has ended.
ReclamationRow == ob.recl = "succeeded" => op["reclaim"].st = "succeeded"

PromiseInv ==
  /\ AnswersTrue /\ JournalTruthful /\ CheckedInv /\ ChecksBound
  /\ CollectionRow /\ ReclamationRow

LEMMA ChecksBoundStep == TypeOK /\ ChecksBound /\ [Next]_vars => ChecksBound'
<1> SUFFICES ASSUME TypeOK, ChecksBound, [Next]_vars,
                    NEW d \in Callers, call'[d].at # "idle", call'[d].k = "check"
             PROVE  ob'.fref
  BY DEF ChecksBound
<1>1. CASE call[d].at # "idle" /\ call'[d].k = call[d].k
  BY <1>1, BindingStays DEF ChecksBound
<1>2. ASSUME Load(d, "check") PROVE ob.fref
  BY <1>2 DEF Load, Allowed
<1> QED
  BY <1>1, <1>2, Underway, BindingStays

\* Without reports of the mechanism, only the reclaim's own finish records one.
LEMMA ReclamationRowStep ==
  ReportsNoEffect /\ JournalInv /\ ReclamationRow /\ [Next]_vars => ReclamationRow'
<1> SUFFICES ASSUME ReportsNoEffect, JournalInv, ReclamationRow, [Next]_vars,
                    ob'.recl = "succeeded"
             PROVE  op'["reclaim"].st = "succeeded"
  BY DEF ReclamationRow
<1>0. /\ TypeOK /\ AnswersFit /\ ob \in Obligations /\ op \in [Kinds -> Rows] /\ "reclaim" \in Kinds
  BY DEF JournalInv, TypeOK, Kinds
<1>1. CASE ob.recl = "succeeded"
  BY <1>0, <1>1, EndedRowsStay DEF ReclamationRow, TerminalRow
<1>2. CASE ob.recl # "succeeded"
  <2> USE <1>0, <1>2 DEF Obligations
  <2>1. ASSUME NEW c \in Callers, Reserve(c) PROVE FALSE
    BY <2>1 DEF Reserve, Begun
  <2>2. ASSUME NEW c \in Callers, BindFulfillment(c) \/ Bind(c) PROVE FALSE
    BY <2>2 DEF BindFulfillment, Bind
  <2>3. ASSUME NEW c \in Callers, FinishReclaim(c) PROVE op'["reclaim"].st = "succeeded"
    BY <2>3 DEF FinishReclaim, ReadyToFinish, Release, Rows
  <2>4. ASSUME NEW c \in Callers, FinishStatus(c) PROVE FALSE
    <3>1. call[c].ans # "reclaimed"
      BY <2>4 DEF FinishStatus, ReadyToFinish, AnswersFit, ReportsNoEffect
    <3> QED
      BY <2>4, <3>1 DEF FinishStatus
  <2>5. ASSUME NEW c \in Callers, FinishMaterialize(c) PROVE FALSE
    BY <2>5 DEF FinishMaterialize
  <2>6. ASSUME NEW c \in Callers, FinishCheck(c) PROVE FALSE
    BY <2>6 DEF FinishCheck
  <2>7. ASSUME NEW c \in Callers, FinishCollect(c) PROVE FALSE
    BY <2>7 DEF FinishCollect
  <2>8. ASSUME NEW c \in Callers, FinishFulfill(c) \/ FinishCleanup(c) PROVE FALSE
    BY <2>8 DEF FinishFulfill, FinishCleanup
  <2> QED
    BY <2>1, <2>2, <2>3, <2>4, <2>5, <2>6, <2>7, <2>8 DEF Next, Step, Finish, Load, ReserveRefused,
       Ask, Execute, ReadClock, ReadPark, LeaseLost, ExpireLease, Crash, Expire, DirectReclaim, vars
<1> QED
  BY <1>1, <1>2

LEMMA PromiseInvStep ==
  ReportsNoEffect /\ JournalInv /\ PromiseInv /\ [Next]_vars => PromiseInv'
<1> SUFFICES ASSUME ReportsNoEffect, JournalInv, PromiseInv, [Next]_vars PROVE PromiseInv'
  OBVIOUS
<1>1. CollectionUnreported
  BY DEF ReportsNoEffect, CollectionUnreported
<1>2. TypeOK
  BY DEF JournalInv
<1> QED
  BY <1>1, <1>2, AnswersTrueStep, TruthStep, CheckedStep, ChecksBoundStep,
     CollectionRowStep, ReclamationRowStep
  DEF PromiseInv

LEMMA PromiseInvInit == Init => PromiseInv
<1>1. Init => AnswersTrue /\ JournalTruthful /\ ChecksBound /\ CollectionRow /\ ReclamationRow
  BY DEF Init, AnswersTrue, JournalTruthful, ChecksBound, CollectionRow, ReclamationRow, Idle
<1> QED
  BY <1>1, CheckedInit DEF PromiseInv

\* Money moves in the mechanism's two calls and in the payer's own reclaim:
\* from held, and to the claimant only after the check.
LEMMA MoneyMoves ==
  ASSUME JournalInv, CollectsChecked, NEW c \in Callers, NEW a \in {"done", "error"}, Execute(c, a)
  PROVE  [Promise!Next]_(Promise!vars)
<1>0. /\ effects \in {{}, {"collected"}, {"reclaimed"}} /\ UNCHANGED <<ob, op>>
      /\ effects' = {Effect(call[c].k)} /\ call[c].k \in {"collect", "reclaim"}
      /\ effects = {} \/ effects = {Effect(call[c].k)}
  BY DEF JournalInv, TypeOK, Execute
<1>1. Delivery' = Delivery /\ Book' = Book
  BY <1>0 DEF Delivery, Book
<1>2. CASE effects # {}
  <2>1. Money' = Money
    BY <1>0, <1>2 DEF Money
  <2> QED
    BY <1>1, <2>1 DEF Promise!vars
<1>3. CASE effects = {} /\ call[c].k = "collect"
  <2>1. Money = "held" /\ Money' = "paid"
    BY <1>0, <1>3 DEF Money, Effect
  <2>2. Delivery = "checked"
    BY <1>3 DEF Execute, CollectsChecked, CheckFinal, Delivery
  <2> QED
    BY <1>1, <2>1, <2>2 DEF Promise!Next, Promise!Pay
<1>4. CASE effects = {} /\ call[c].k = "reclaim"
  <2>1. Money = "held" /\ Money' = "refunded"
    BY <1>0, <1>4 DEF Money, Effect
  <2> QED
    BY <1>1, <2>1 DEF Promise!Next, Promise!Refund
<1> QED
  BY <1>0, <1>2, <1>3, <1>4

\* A reservation opens nothing that is recorded.
LEMMA ReserveKeepsPromise ==
  ASSUME JournalInv, PromiseInv, NEW c \in Callers, Reserve(c)
  PROVE  UNCHANGED <<Delivery, Money, Book>>
<1>0. /\ TypeOK /\ ob \in Obligations /\ op \in [Kinds -> Rows] /\ {"check", "collect", "reclaim"} \subseteq Kinds
      /\ ob.coll = "succeeded" => op["collect"].st = "succeeded"
      /\ ob.recl = "succeeded" => op["reclaim"].st = "succeeded"
      /\ call[c].k \in Kinds \cup {"none"}
  BY DEF JournalInv, TypeOK, Kinds, PromiseInv, CollectionRow, ReclamationRow, Calls
<1>1. /\ ~Excluded(call[c].k) /\ ~TerminalRow(call[c].k) /\ effects' = effects
      /\ ob' = Begun(call[c].k)
      /\ op' = [op EXCEPT ![call[c].k] = [st |-> "in_progress", owner |-> WorkerOf[c], live |-> TRUE]]
  BY DEF Reserve, Reservable
<1>2. Delivery' = Delivery
  <2>1. ob'.fref = ob.fref
    BY <1>0, <1>1 DEF Begun, Obligations
  <2>2. op'["check"].st = "succeeded" <=> op["check"].st = "succeeded"
    BY <1>0, <1>1 DEF TerminalRow
  <2> QED
    BY <2>1, <2>2 DEF Delivery
<1>3. Book' = Book
  <2>1. CASE call[c].k = "collect"
    BY <1>0, <1>1, <2>1 DEF Begun, Obligations, Book, TerminalRow, Excluded
  <2>2. CASE call[c].k = "reclaim"
    BY <1>0, <1>1, <2>2 DEF Begun, Obligations, Book, TerminalRow, Excluded
  <2>3. CASE call[c].k \notin {"collect", "reclaim"}
    BY <1>0, <1>1, <2>3 DEF Begun, Obligations, Book
  <2> QED
    BY <2>1, <2>2, <2>3
<1> QED
  BY <1>1, <1>2, <1>3 DEF Money

\* A finish checks the delivery, or records what happened to the money, or
\* changes nothing a party is promised.
LEMMA FinishKeepsPromise ==
  ASSUME ReportsNoEffect, JournalInv, PromiseInv, NEW c \in Callers, Finish(c)
  PROVE  [Promise!Next]_(Promise!vars)
<1>0. /\ TypeOK /\ AnswersFit /\ ob \in Obligations /\ op \in [Kinds -> Rows]
      /\ {"check", "collect", "reclaim"} \subseteq Kinds
      /\ ob.coll = "succeeded" => op["collect"].st = "succeeded"
      /\ ob.recl = "succeeded" => op["reclaim"].st = "succeeded"
      /\ effects \in {{}, {"collected"}, {"reclaimed"}}
      /\ JournalTruthful /\ AnswersTrue
  BY DEF JournalInv, TypeOK, Kinds, PromiseInv, CollectionRow, ReclamationRow
<1>1. call[c].at \in {"answered", "read"}
  BY DEF Finish, FinishMaterialize, FinishStatus, FinishCheck, FinishCollect, FinishReclaim,
     FinishFulfill, FinishCleanup, ReadyToFinish
<1>2. UNCHANGED effects /\ ob'.fref = ob.fref
  BY <1>0, FinishedColumns, FinishMovesNothing
<1>3. Money' = Money
  BY <1>2 DEF Money
<1>4. ASSUME call[c].k \in Kinds \ {"check"} PROVE Delivery' = Delivery
  <2>1. PICK st \in EffectStates \ {"in_progress"} :
          op' = [op EXCEPT ![call[c].k].st = st, ![call[c].k].owner = NoOwner, ![call[c].k].live = FALSE]
    BY <1>0, FinishedRow
  <2>2. op'["check"].st = op["check"].st
    BY <1>0, <1>4, <2>1
  <2> QED
    BY <1>2, <2>2 DEF Delivery
<1>5. ASSUME FinishMaterialize(c) \/ FinishStatus(c) \/ FinishCheck(c) \/ FinishFulfill(c) \/ FinishCleanup(c)
      PROVE  Book' = Book
  <2> USE <1>0 DEF Obligations
  <2>1. ob'.coll = ob.coll /\ ob'.recl = ob.recl
    <3>1. CASE FinishMaterialize(c)
      BY <3>1 DEF FinishMaterialize
    <3>2. CASE FinishStatus(c)
      <4>1. call[c].ans \notin {"collected", "reclaimed"}
        BY <1>1, <3>2 DEF FinishStatus, ReadyToFinish, AnswersFit, ReportsNoEffect
      <4> QED
        BY <3>2, <4>1 DEF FinishStatus
    <3>3. CASE FinishCheck(c)
      BY <3>3 DEF FinishCheck
    <3>4. CASE FinishFulfill(c)
      BY <3>4 DEF FinishFulfill
    <3>5. CASE FinishCleanup(c)
      BY <3>5 DEF FinishCleanup
    <3> QED
      BY <1>5, <3>1, <3>2, <3>3, <3>4, <3>5
  <2> QED
    BY <2>1 DEF Book
<1>6. CASE FinishMaterialize(c) \/ FinishStatus(c) \/ FinishFulfill(c) \/ FinishCleanup(c)
  <2>1. call[c].k \in Kinds \ {"check"}
    BY <1>6 DEF FinishMaterialize, FinishStatus, FinishFulfill, FinishCleanup, ReadyToFinish, Kinds
  <2> QED
    BY <1>3, <1>4, <1>5, <1>6, <2>1 DEF Promise!vars
<1>7. CASE FinishCheck(c)
  <2>1. op["check"].st = "in_progress" /\ ob.fref
    BY <1>1, <1>7 DEF FinishCheck, ReadyToFinish, PromiseInv, ChecksBound
  <2>2. Delivery = "bound" /\ Delivery' \in {"bound", "checked"}
    BY <1>2, <2>1 DEF Delivery
  <2> QED
    BY <1>3, <1>5, <1>7, <2>2 DEF Promise!Next, Promise!CheckDelivery, Promise!vars
<1>8. CASE FinishCollect(c)
  <2>1. /\ call[c].k = "collect" /\ op["collect"].st = "in_progress"
        /\ ob.coll # "succeeded"
    BY <1>0, <1>8 DEF FinishCollect, ReadyToFinish
  <2>2. Delivery' = Delivery
    BY <1>0, <1>4, <2>1
  <2>3. CASE ob' = ob \/ call[c].ans # "done"
    <3>1. Book' = Book
      BY <1>0, <1>8, <2>1, <2>3 DEF FinishCollect, EffectState, Obligations, Book
    <3> QED
      BY <1>3, <2>2, <3>1 DEF Promise!vars
  <2>4. CASE ob' # ob /\ call[c].ans = "done"
    <3>1. Book = "open" /\ Book' = "paid"
      BY <1>0, <1>8, <2>1, <2>4 DEF FinishCollect, EffectState, Obligations, Book
    <3>2. Money = "paid"
      BY <1>0, <1>1, <2>1, <2>4 DEF AnswersTrue, Money
    <3> QED
      BY <1>3, <2>2, <3>1, <3>2 DEF Promise!Next, Promise!Record
  <2> QED
    BY <2>3, <2>4
<1>9. CASE FinishReclaim(c)
  <2>1. /\ call[c].k = "reclaim" /\ op["reclaim"].st = "in_progress"
        /\ ob.recl # "succeeded"
    BY <1>0, <1>9 DEF FinishReclaim, ReadyToFinish
  <2>2. Delivery' = Delivery
    BY <1>0, <1>4, <2>1
  <2>3. CASE ob' = ob \/ call[c].ans # "done"
    <3>1. Book' = Book
      BY <1>0, <1>9, <2>1, <2>3 DEF FinishReclaim, EffectState, Obligations, Book
    <3> QED
      BY <1>3, <2>2, <3>1 DEF Promise!vars
  <2>4. CASE ob' # ob /\ call[c].ans = "done"
    <3>1. Book = "open" /\ Book' = "refunded"
      BY <1>0, <1>9, <2>1, <2>4 DEF FinishReclaim, EffectState, Obligations, Book
    <3>2. Money = "refunded"
      BY <1>0, <1>1, <2>1, <2>4 DEF AnswersTrue, Money
    <3> QED
      BY <1>3, <2>2, <3>1, <3>2 DEF Promise!Next, Promise!Record
  <2> QED
    BY <2>3, <2>4
<1> QED
  BY <1>6, <1>7, <1>8, <1>9 DEF Finish

\* With a mechanism that, like Alkahest, never reports collected or reclaimed,
\* the journal implements SettlementPromise, for any number of callers: the
\* money moves once, to the claimant only for a checked delivery, and what the
\* journal records of it has happened and stays recorded.
THEOREM SettlementPromiseKept == ReportsNoEffect => (Spec => KeepsSettlementPromise)
<1> SUFFICES ASSUME ReportsNoEffect PROVE Spec => KeepsSettlementPromise
  OBVIOUS
<1>1. Init => Promise!Init
  BY DEF Init, Promise!Init, Delivery, Money, Book, Kinds
<1>2. JournalInv /\ PromiseInv /\ [Next]_vars => [Promise!Next]_(Promise!vars)
  <2> SUFFICES ASSUME JournalInv, PromiseInv, [Next]_vars PROVE [Promise!Next]_(Promise!vars)
    OBVIOUS
  <2>0. /\ ob \in Obligations /\ op \in [Kinds -> Rows] /\ "check" \in Kinds
        /\ effects \in {{}, {"collected"}, {"reclaimed"}}
    BY DEF JournalInv, TypeOK, Kinds
  <2>1. ASSUME NEW c \in Callers, Reserve(c) PROVE [Promise!Next]_(Promise!vars)
    BY <2>1, ReserveKeepsPromise DEF Promise!vars
  <2>2. ASSUME NEW c \in Callers, BindFulfillment(c) \/ Bind(c) PROVE [Promise!Next]_(Promise!vars)
    <3>1. UNCHANGED <<op, effects>> /\ (ob' = ob \/ ob' = [ob EXCEPT !.fref = TRUE])
      BY <2>2 DEF BindFulfillment, Bind
    <3>2. Money' = Money /\ Book' = Book
      BY <2>0, <3>1 DEF Money, Book, Obligations
    <3>3. Delivery' = Delivery \/ (Delivery = "none" /\ Delivery' = "bound")
      BY <2>0, <3>1 DEF Delivery, Obligations
    <3> QED
      BY <3>2, <3>3 DEF Promise!Next, Promise!BindDelivery, Promise!vars
  <2>3. ASSUME NEW c \in Callers, NEW a \in {"done", "error"}, Execute(c, a)
        PROVE  [Promise!Next]_(Promise!vars)
    BY <2>3, MoneyMoves DEF PromiseInv, CheckedInv
  <2>4. ASSUME NEW c \in Callers, Finish(c) PROVE [Promise!Next]_(Promise!vars)
    BY <2>4, FinishKeepsPromise
  <2>5. CASE DirectReclaim
    <3>1. UNCHANGED <<ob, op>> /\ effects = {} /\ effects' = {"reclaimed"}
      BY <2>5 DEF DirectReclaim
    <3>2. Delivery' = Delivery /\ Book' = Book /\ Money = "held" /\ Money' = "refunded"
      BY <3>1 DEF Delivery, Book, Money
    <3> QED
      BY <3>2 DEF Promise!Next, Promise!Refund
  <2>6. ASSUME NEW k \in Kinds, ExpireLease(k) PROVE [Promise!Next]_(Promise!vars)
    <3>1. UNCHANGED <<ob, effects>> /\ op'["check"].st = op["check"].st
      BY <2>0, <2>6 DEF ExpireLease, Rows
    <3>2. UNCHANGED <<Delivery, Money, Book>>
      BY <3>1 DEF Delivery, Money, Book
    <3> QED
      BY <3>2 DEF Promise!vars
  <2>7. CASE UNCHANGED <<ob, op, effects>>
    <3>1. UNCHANGED <<Delivery, Money, Book>>
      BY <2>7 DEF Delivery, Money, Book
    <3> QED
      BY <3>1 DEF Promise!vars
  <2> QED
    BY <2>1, <2>2, <2>3, <2>4, <2>5, <2>6, <2>7 DEF Next, Step, Load, ReserveRefused, Ask, ReadClock,
       ReadPark, LeaseLost, Crash, Expire, vars
<1>3. JournalInv /\ PromiseInv /\ [Next]_vars => PromiseInv'
  BY PromiseInvStep
<1> QED
  BY <1>1, <1>2, <1>3, PromiseInvInit, JournalInit, JournalStep, PTL
  DEF Spec, KeepsSettlementPromise, Promise!Spec

=============================================================================
