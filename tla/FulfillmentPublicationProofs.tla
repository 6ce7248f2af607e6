------------------- MODULE FulfillmentPublicationProofs -------------------
(***************************************************************************)
(* For every set of callers, every assignment of worker ids to them (one   *)
(* id shared by all included) and every bound: the ready step keeps its    *)
(* types, completes only what is bound to a reference of the chain, and an *)
(* outcome once recorded is never rewritten.                               *)
(***************************************************************************)
EXTENDS FulfillmentPublication, TLAPS

\* Every step keeps the types of the journal, the callers and the chain.
LEMMA TypeStep == TypeOK /\ [Next]_vars => TypeOK'
<1> USE CallersAssumption DEF RowStates, Stages
<1> SUFFICES ASSUME TypeOK, [Next]_vars PROVE TypeOK'
  OBVIOUS
<1>1. ASSUME NEW c \in Callers, Advance(c) PROVE TypeOK'
  <2>1. CASE Load(c)
    BY <1>1, <2>1 DEF TypeOK, Load, GoTo, journal, chain
  <2>2. CASE ReserveRefused(c)
    BY <1>1, <2>2 DEF TypeOK, ReserveRefused, Leave, GoTo, journal, chain
  <2>3. CASE Reserve(c)
    BY <1>1, <2>3 DEF TypeOK, Reserve, Busy, GoTo, chain
  <2>4. CASE Repair(c)
    BY <1>1, <2>4 DEF TypeOK, Repair, FinishOr, FinishRow, Leave, GoTo, chain
  <2>5. CASE Defer(c)
    BY <1>1, <2>5 DEF TypeOK, Defer, FinishRow, Leave, GoTo, chain
  <2>6. CASE EvidenceFailed(c)
    BY <1>1, <2>6 DEF TypeOK, EvidenceFailed, GoTo, journal, chain
  <2>7. CASE RecordSubmission(c)
    BY <1>1, <2>7 DEF TypeOK, RecordSubmission, GoTo, chain
  <2>8. CASE PublishAccepted(c)
    BY <1>1, <2>8 DEF TypeOK, PublishAccepted, Submitted, GoTo, journal
  <2>9. CASE PublishUnknown(c)
    BY <1>1, <2>9 DEF TypeOK, PublishUnknown, Submitted, GoTo, journal
  <2>10. CASE PublishRejected(c)
    BY <1>1, <2>10 DEF TypeOK, PublishRejected, Submitted, GoTo, journal
  <2>11. CASE PublishNotSubmitted(c)
    BY <1>1, <2>11 DEF TypeOK, PublishNotSubmitted, GoTo, journal, chain
  <2>12. CASE RecordReference(c)
    BY <1>1, <2>12 DEF TypeOK, RecordReference, ReferenceWritable, GoTo, chain
  <2>13. CASE ReferenceLost(c)
    BY <1>1, <2>13 DEF TypeOK, ReferenceLost, Leave, GoTo, journal, chain
  <2>14. CASE Bind(c)
    BY <1>1, <2>14 DEF TypeOK, Bind, Bindable, GoTo, chain
  <2>15. CASE BindRefused(c)
    BY <1>1, <2>15 DEF TypeOK, BindRefused, Leave, GoTo, journal, chain
  <2>16. CASE Finish(c)
    BY <1>1, <2>16 DEF TypeOK, Finish, FinishOr, FinishRow, Leave, GoTo, chain
  <2>17. CASE Clear(c)
    <3>1. submits' \in 0 .. 2
      BY <2>17 DEF Clear
    <3> QED
      BY <1>1, <2>17, <3>1 DEF TypeOK, Clear, GoTo
  <2>18. CASE ClearRefused(c)
    BY <1>1, <2>18 DEF TypeOK, ClearRefused, Leave, GoTo, journal, chain
  <2>19. CASE CountRejection(c)
    BY <1>1, <2>19 DEF TypeOK, CountRejection, GoTo, journal, chain
  <2>20. CASE Retry(c)
    BY <1>1, <2>20 DEF TypeOK, Retry, FinishOr, FinishRow, Leave, GoTo, chain
  <2>21. CASE Park(c)
    BY <1>1, <2>21 DEF TypeOK, Park, FinishOr, FinishRow, Leave, GoTo, chain
  <2> QED
    BY <1>1, <2>1, <2>2, <2>3, <2>4, <2>5, <2>6, <2>7, <2>8, <2>9, <2>10, <2>11,
       <2>12, <2>13, <2>14, <2>15, <2>16, <2>17, <2>18, <2>19, <2>20, <2>21 DEF Advance
<1>2. ASSUME NEW c \in Callers, Enter(c) PROVE TypeOK'
  BY <1>2 DEF TypeOK, Enter, GoTo, journal, chain
<1>3. ASSUME NEW w \in Workers, Crash(w) PROVE TypeOK'
  BY <1>3 DEF TypeOK, Crash, Running, journal, chain
<1>4. CASE ExpireLease
  <2>1. faults' \in 0 .. MaxFaults
    BY <1>4 DEF TypeOK, ExpireLease
  <2> QED
    BY <1>4, <2>1 DEF TypeOK, ExpireLease, chain
<1>5. CASE EscrowEnds
  BY <1>5 DEF TypeOK, EscrowEnds, chain
<1>6. CASE Reclaim
  BY <1>6 DEF TypeOK, Reclaim, chain
<1>7. CASE ReclaimFails
  BY <1>7 DEF TypeOK, ReclaimFails, chain
<1>8. CASE UNCHANGED vars
  BY <1>8 DEF TypeOK, vars, journal, chain
<1> QED
  BY <1>1, <1>2, <1>3, <1>4, <1>5, <1>6, <1>7, <1>8 DEF Next

LEMMA TypeInit == Init => TypeOK
<1> USE CallersAssumption DEF RowStates, Stages
<1> SUFFICES ASSUME Init PROVE TypeOK
  OBVIOUS
<1>1. /\ rejections \in 0 .. RejectionBound /\ faults \in 0 .. MaxFaults
      /\ landed \in 0 .. MaxLanded /\ submits \in 0 .. 2
  BY DEF Init
<1>2. row \in [st : RowStates, owner : Workers \cup {NoOwner}, live : BOOLEAN,
               sub : BOOLEAN, ref : Nat, awaiting : BOOLEAN]
  BY DEF Init
<1> QED
  BY <1>1, <1>2 DEF Init, TypeOK

\* TypeOK holds in every reachable state: the journal row, the callers and the
\* chain of the ready step keep their types, rejections within their bound.
THEOREM TypeCorrect == Spec => []TypeOK
  BY TypeInit, TypeStep, PTL DEF Spec

-----------------------------------------------------------------------------
\* Every step keeps the origin of every reference: nobody, whatever worker id
\* it presents, holds or completes with one the chain did not create.
LEMMA ReferencesStep ==
  TypeOK /\ ReferencesLanded /\ [Next]_vars => ReferencesLanded'
<1> USE CallersAssumption DEF RowStates, Stages, Completing
<1> SUFFICES ASSUME TypeOK, ReferencesLanded, [Next]_vars
             PROVE ReferencesLanded'
  OBVIOUS
<1> USE DEF TypeOK, ReferencesLanded, Holds
<1>1. ASSUME NEW c \in Callers, Advance(c) PROVE ReferencesLanded'
  <2>1. CASE Load(c)
    BY <1>1, <2>1 DEF Load, GoTo, journal, chain
  <2>2. CASE ReserveRefused(c)
    BY <1>1, <2>2 DEF ReserveRefused, Leave, GoTo, journal, chain
  <2>3. CASE Reserve(c)
    BY <1>1, <2>3 DEF Reserve, Busy, GoTo, chain
  <2>4. CASE Repair(c)
    BY <1>1, <2>4 DEF Repair, FinishOr, FinishRow, Leave, GoTo, chain
  <2>5. CASE Defer(c)
    BY <1>1, <2>5 DEF Defer, FinishRow, Leave, GoTo, chain
  <2>6. CASE EvidenceFailed(c)
    BY <1>1, <2>6 DEF EvidenceFailed, GoTo, journal, chain
  <2>7. CASE RecordSubmission(c)
    BY <1>1, <2>7 DEF RecordSubmission, GoTo, chain
  <2>8. CASE PublishAccepted(c)
    BY <1>1, <2>8 DEF PublishAccepted, Submitted, GoTo, journal
  <2>9. CASE PublishUnknown(c)
    BY <1>1, <2>9 DEF PublishUnknown, Submitted, GoTo, journal
  <2>10. CASE PublishRejected(c)
    BY <1>1, <2>10 DEF PublishRejected, Submitted, GoTo, journal
  <2>11. CASE PublishNotSubmitted(c)
    BY <1>1, <2>11 DEF PublishNotSubmitted, GoTo, journal, chain
  <2>12. CASE RecordReference(c)
    BY <1>1, <2>12 DEF RecordReference, ReferenceWritable, GoTo, chain
  <2>13. CASE ReferenceLost(c)
    BY <1>1, <2>13 DEF ReferenceLost, Leave, GoTo, journal, chain
  <2>14. CASE Bind(c)
    BY <1>1, <2>14 DEF Bind, Bindable, GoTo, chain
  <2>15. CASE BindRefused(c)
    BY <1>1, <2>15 DEF BindRefused, Leave, GoTo, journal, chain
  <2>16. CASE Finish(c)
    BY <1>1, <2>16 DEF Finish, FinishOr, FinishRow, Leave, GoTo, chain
  <2>17. CASE Clear(c)
    BY <1>1, <2>17 DEF Clear, Clearable, GoTo
  <2>18. CASE ClearRefused(c)
    BY <1>1, <2>18 DEF ClearRefused, Leave, GoTo, journal, chain
  <2>19. CASE CountRejection(c)
    BY <1>1, <2>19 DEF CountRejection, GoTo, journal, chain
  <2>20. CASE Retry(c)
    BY <1>1, <2>20 DEF Retry, FinishOr, FinishRow, Leave, GoTo, chain
  <2>21. CASE Park(c)
    BY <1>1, <2>21 DEF Park, FinishOr, FinishRow, Leave, GoTo, chain
  <2> QED
    BY <1>1, <2>1, <2>2, <2>3, <2>4, <2>5, <2>6, <2>7, <2>8, <2>9, <2>10, <2>11,
       <2>12, <2>13, <2>14, <2>15, <2>16, <2>17, <2>18, <2>19, <2>20, <2>21 DEF Advance
<1>2. ASSUME NEW c \in Callers, Enter(c) PROVE ReferencesLanded'
  BY <1>2 DEF Enter, GoTo, journal, chain
<1>3. ASSUME NEW w \in Workers, Crash(w) PROVE ReferencesLanded'
  BY <1>3 DEF Crash, Running, journal, chain
<1>4. CASE ExpireLease
  BY <1>4 DEF ExpireLease, chain
<1>5. CASE EscrowEnds
  BY <1>5 DEF EscrowEnds, chain
<1>6. CASE Reclaim
  BY <1>6 DEF Reclaim, chain
<1>7. CASE ReclaimFails
  BY <1>7 DEF ReclaimFails, chain
<1>8. CASE UNCHANGED vars
  BY <1>8 DEF vars, journal, chain
<1> QED
  BY <1>1, <1>2, <1>3, <1>4, <1>5, <1>6, <1>7, <1>8 DEF Next

\* A fulfillment the journal calls succeeded names an attestation that is on
\* the chain, for any number of callers, takeovers, crashes and failed
\* reclaims, and also when every caller presents the same worker id.
THEOREM CompletionIsBound == Spec => []CompletedMeansBound
<1>1. Init => ReferencesLanded
  BY DEF Init, ReferencesLanded, Completing
<1>2. TypeOK /\ ReferencesLanded => CompletedMeansBound
  BY DEF TypeOK, ReferencesLanded, CompletedMeansBound
<1> QED
  BY <1>1, <1>2, TypeCorrect, ReferencesStep, PTL DEF Spec

-----------------------------------------------------------------------------
\* Once the operation is completed or parked, and once a reference is bound, no
\* write of any pass under way, with its own worker id or with one it shares,
\* changes that outcome.
THEOREM OutcomeStays == Spec => OutcomeFinal
<1> DEFINE Kept == /\ row.st \in {"succeeded", "manual_required"} => row' = row
                   /\ fref # 0 => fref' = fref
<1>a. ASSUME TypeOK, [Next]_vars PROVE Kept
<2> USE <1>a DEF Holds
<2>1. ASSUME NEW c \in Callers, Advance(c) PROVE Kept
  <3>1. CASE Load(c)
    BY <2>1, <3>1 DEF Load, GoTo, journal, chain
  <3>2. CASE ReserveRefused(c)
    BY <2>1, <3>2 DEF ReserveRefused, Leave, GoTo, journal, chain
  <3>3. CASE Reserve(c)
    BY <2>1, <3>3 DEF Reserve, Busy, GoTo, chain
  <3>4. CASE Repair(c)
    BY <2>1, <3>4 DEF Repair, FinishOr, FinishRow, Leave, GoTo, chain
  <3>5. CASE Defer(c)
    BY <2>1, <3>5 DEF Defer, FinishRow, Leave, GoTo, chain
  <3>6. CASE EvidenceFailed(c)
    BY <2>1, <3>6 DEF EvidenceFailed, GoTo, journal, chain
  <3>7. CASE RecordSubmission(c)
    BY <2>1, <3>7 DEF RecordSubmission, GoTo, chain
  <3>8. CASE PublishAccepted(c)
    BY <2>1, <3>8 DEF PublishAccepted, Submitted, GoTo, journal
  <3>9. CASE PublishUnknown(c)
    BY <2>1, <3>9 DEF PublishUnknown, Submitted, GoTo, journal
  <3>10. CASE PublishRejected(c)
    BY <2>1, <3>10 DEF PublishRejected, Submitted, GoTo, journal
  <3>11. CASE PublishNotSubmitted(c)
    BY <2>1, <3>11 DEF PublishNotSubmitted, GoTo, journal, chain
  <3>12. CASE RecordReference(c)
    BY <2>1, <3>12 DEF RecordReference, ReferenceWritable, GoTo, chain
  <3>13. CASE ReferenceLost(c)
    BY <2>1, <3>13 DEF ReferenceLost, Leave, GoTo, journal, chain
  <3>14. CASE Bind(c)
    BY <2>1, <3>14 DEF Bind, Bindable, GoTo, chain
  <3>15. CASE BindRefused(c)
    BY <2>1, <3>15 DEF BindRefused, Leave, GoTo, journal, chain
  <3>16. CASE Finish(c)
    BY <2>1, <3>16 DEF Finish, FinishOr, FinishRow, Leave, GoTo, chain
  <3>17. CASE Clear(c)
    BY <2>1, <3>17 DEF Clear, Clearable, GoTo
  <3>18. CASE ClearRefused(c)
    BY <2>1, <3>18 DEF ClearRefused, Leave, GoTo, journal, chain
  <3>19. CASE CountRejection(c)
    BY <2>1, <3>19 DEF CountRejection, GoTo, journal, chain
  <3>20. CASE Retry(c)
    BY <2>1, <3>20 DEF Retry, FinishOr, FinishRow, Leave, GoTo, chain
  <3>21. CASE Park(c)
    BY <2>1, <3>21 DEF Park, FinishOr, FinishRow, Leave, GoTo, chain
  <3> QED
    BY <2>1, <3>1, <3>2, <3>3, <3>4, <3>5, <3>6, <3>7, <3>8, <3>9, <3>10, <3>11,
       <3>12, <3>13, <3>14, <3>15, <3>16, <3>17, <3>18, <3>19, <3>20, <3>21 DEF Advance
<2>2. ASSUME NEW c \in Callers, Enter(c) PROVE Kept
  BY <2>2 DEF Enter, GoTo, journal, chain
<2>3. ASSUME NEW w \in Workers, Crash(w) PROVE Kept
  BY <2>3 DEF Crash, Running, journal, chain
<2>4. CASE ExpireLease
  BY <2>4 DEF ExpireLease, chain
<2>5. CASE EscrowEnds
  BY <2>5 DEF EscrowEnds, chain
<2>6. CASE Reclaim
  BY <2>6 DEF Reclaim, chain
<2>7. CASE ReclaimFails
  BY <2>7 DEF ReclaimFails, chain
<2>8. CASE UNCHANGED vars
  BY <2>8 DEF vars, journal, chain
<2> QED
  BY <2>1, <2>2, <2>3, <2>4, <2>5, <2>6, <2>7, <2>8 DEF Next
<1>b. [Next]_vars /\ TypeOK => [Kept]_vars
  BY <1>a
<1> QED
  BY <1>b, TypeCorrect, PTL DEF Spec, OutcomeFinal
=============================================================================
