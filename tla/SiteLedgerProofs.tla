-------------------------- MODULE SiteLedgerProofs --------------------------
(***************************************************************************)
(* Proofs about the site capacity ledger, for every number of resources,   *)
(* reservations and dimensions, and every set of claims and declarations.  *)
(***************************************************************************)
EXTENDS SiteLedger, FiniteSetTheorems, TLAPS

-----------------------------------------------------------------------------
(* What a step can do to the rows.                                         *)

\* Writing one row changes that row and no other.
LEMMA BecomeFacts ==
  ASSUME NEW r \in DOMAIN rsv, NEW row, Become(r, row)
  PROVE  /\ DOMAIN rsv' = DOMAIN rsv
         /\ rsv'[r] = row
         /\ \A q \in DOMAIN rsv : q # r => rsv'[q] = rsv[q]
         /\ decl' = decl /\ now' = now
BY DEF Become

\* Giving a row back changes its state and its fulfillment only.
LEMMA GiveBackFacts ==
  ASSUME NEW row \in Row, NEW st \in GivenBack
  PROVE  /\ GiveBack(row, st) \in Row
         /\ GiveBack(row, st).st = st
         /\ GiveBack(row, st).claim = row.claim
         /\ GiveBack(row, st).on = row.on
         /\ GiveBack(row, st).from = row.from
         /\ GiveBack(row, st).to = row.to
         /\ GiveBack(row, st).agg = IF row.agg = "assigned" THEN "abandoned" ELSE row.agg
BY DEF GiveBack, Row

\* The sweep gives back holds and leaves every other row alone.
LEMMA SweptFacts ==
  ASSUME TypeOK, NEW r \in DOMAIN rsv
  PROVE  /\ DOMAIN Swept = DOMAIN rsv
         /\ Swept[r] \in Row
         /\ Swept[r].claim = rsv[r].claim /\ Swept[r].on = rsv[r].on
         /\ Swept[r].from = rsv[r].from /\ Swept[r].to = rsv[r].to
         /\ \/ Swept[r] = rsv[r]
            \/ /\ rsv[r].st = "reserved" /\ Swept[r].st = "released"
               /\ Swept[r].agg \in Idle
<1>1. rsv[r] \in Row
  BY DEF TypeOK
<1>2. CASE Lapsed(r)
  <2>1. Swept[r] = GiveBack(rsv[r], "released")
    BY <1>2 DEF Swept
  <2>2. rsv[r].st = "reserved" /\ rsv[r].agg # "dispatched"
    BY <1>2 DEF Lapsed, Due, Permitted
  <2>3. rsv[r].agg \in {"none", "assigned", "dispatched", "torn_down", "abandoned"}
    BY <1>1 DEF Row
  <2> QED
    BY <1>1, <2>1, <2>2, <2>3, GiveBackFacts DEF Swept, GivenBack, Idle
<1>3. CASE ~Lapsed(r)
  BY <1>1, <1>3 DEF Swept
<1> QED
  BY <1>2, <1>3

\* The window of a claim lies within time, and so does the one a commit leaves.
LEMMA ClaimWindow ==
  ASSUME TypeOK, NEW c \in Claims
  PROVE  From(c) \in Times /\ To(c) \in Times
<1>1. /\ c.start \in Nat /\ c.len \in Nat /\ c.start + c.len < Forever
      /\ MaxNow + c.len < Forever /\ MaxNow \in Nat /\ Forever \in Nat
  BY LedgerAssumption
<1>2. now \in Nat /\ now <= MaxNow
  BY <1>1 DEF TypeOK
<1> QED
  BY <1>1, <1>2 DEF From, To, Times

LEMMA LeaseWindow ==
  ASSUME TypeOK, NEW row \in Row
  PROVE  LeaseFrom(row) \in Times /\ LeaseTo(row) \in Times
<1> DEFINE c == row.claim
<1>1. c \in Claims /\ row.from \in Times /\ row.to \in Times
  BY DEF Row
<1>2. /\ c.start \in Nat /\ c.len \in Nat /\ c.start + c.len < Forever
      /\ MaxNow + c.len < Forever /\ MaxNow \in Nat /\ Forever \in Nat
  BY <1>1, LedgerAssumption
<1>3. now \in Nat /\ now <= MaxNow
  BY <1>2 DEF TypeOK
<1> QED
  BY <1>1, <1>2, <1>3 DEF LeaseFrom, LeaseTo, Times

\* A reservation adds one row to the swept table.
LEMMA ReserveFacts ==
  ASSUME TypeOK, NEW r, NEW c \in Claims, NEW e, Reserve(r, c, e)
  PROVE  /\ r \notin DOMAIN rsv
         /\ DOMAIN rsv' = DOMAIN rsv \cup {r}
         /\ \A q \in DOMAIN rsv : rsv'[q] = Swept[q]
         /\ decl' = decl /\ now' = now
         /\ \E res \in Resources :
              /\ Candidate(c, res)
              /\ rsv'[r] = [st |-> "reserved", claim |-> c, deal |-> e, on |-> res,
                            from |-> From(c), to |-> To(c),
                            hold |-> IF c.ttl = 0 THEN 0 ELSE now + c.ttl,
                            agg |-> "none"]
BY DEF Reserve

\* A step that writes one row by an operation other than a reservation.
RowStep(r) ==
  \/ \E e \in Deals \cup {NoDeal} : Commit(r, e) \/ CommitAgain(r, e)
  \/ Release(r) \/ ReleaseAgain(r) \/ ForceRelease(r)
  \/ \E end \in Ends : TruncateLease(r, end)
  \/ BeginReleasing(r) \/ RecordReleaseFailed(r) \/ RecordUnmanaged(r)
  \/ \E res \in Resources : Schedule(r, res)
  \/ Begin(r) \/ TornDown(r)

\* The steps of the ledger, by what they write.
LEMMA NextCases ==
  ASSUME Next
  PROVE  \/ \E r \in Ids, c \in Claims, e \in Deals \cup {NoDeal} : Reserve(r, c, e)
         \/ \E r \in DOMAIN rsv : RowStep(r)
         \/ ExpireDueHolds
         \/ rsv' = rsv /\ \E res \in Resources, shape \in Shapes : Declare(res, shape)
         \/ rsv' = rsv /\ Tick
BY Zenon DEF Next, RowStep, Declare, Tick

\* What a single-row step may do to its row: the row stays well-formed, keeps
\* its claim, and its state and fulfillment move along the lifecycle.
LEMMA RowStepFacts ==
  ASSUME TypeOK, NEW r \in DOMAIN rsv, RowStep(r)
  PROVE  /\ DOMAIN rsv' = DOMAIN rsv
         /\ \A q \in DOMAIN rsv : q # r => rsv'[q] = rsv[q]
         /\ decl' = decl /\ now' = now
         /\ rsv'[r] \in Row
         /\ rsv'[r].on \in rsv'[r].claim.fits
         /\ rsv'[r].claim = rsv[r].claim
<1>1. rsv[r] \in Row /\ rsv[r].on \in rsv[r].claim.fits
  BY DEF TypeOK
<1>2. rsv[r].claim \in Claims
  BY <1>1 DEF Row
<1>3. CASE \E e \in Deals \cup {NoDeal} : Commit(r, e)
  <2>1. PICK e \in Deals \cup {NoDeal} : Commit(r, e)
    BY <1>3
  <2>2. RecordDeal(r, e) \in Deals \cup {NoDeal}
    BY <1>1 DEF RecordDeal, Row
  <2> DEFINE f == LeaseFrom(rsv[r])
             t == LeaseTo(rsv[r])
             d == RecordDeal(r, e)
             row == [rsv[r] EXCEPT !.st = "leased", !.hold = 0, !.deal = d,
                                   !.from = f, !.to = t]
  <2>3. f \in Times /\ t \in Times
    BY <1>1, LeaseWindow
  <2>4. Become(r, row)
    BY <2>1 DEF Commit
  <2> HIDE DEF f, t, d
  <2>5. row \in Row /\ row.on = rsv[r].on /\ row.claim = rsv[r].claim
    BY <1>1, <2>2, <2>3 DEF Row, Held, Windowed, d
  <2> HIDE DEF row
  <2> QED
    BY <1>1, <2>4, <2>5, BecomeFacts
<1>4. CASE \E e \in Deals \cup {NoDeal} : CommitAgain(r, e)
  <2>1. PICK e \in Deals \cup {NoDeal} : CommitAgain(r, e)
    BY <1>4
  <2>2. RecordDeal(r, e) \in Deals \cup {NoDeal}
    BY <1>1 DEF RecordDeal, Row
  <2> QED
    BY <1>1, <2>1, <2>2, BecomeFacts DEF CommitAgain, Row
<1>5. CASE Release(r)
  BY <1>1, <1>5, GiveBackFacts, BecomeFacts DEF Release, GivenBack
<1>6. CASE ReleaseAgain(r)
  BY <1>1, <1>6, GiveBackFacts, BecomeFacts DEF ReleaseAgain
<1>7. CASE ForceRelease(r)
  BY <1>1, <1>7, BecomeFacts DEF ForceRelease, Row, GivenBack
<1>8. CASE \E end \in Ends : TruncateLease(r, end)
  BY <1>1, <1>8, BecomeFacts, LedgerAssumption DEF TruncateLease, Row, Times
<1>9. CASE BeginReleasing(r) \/ RecordReleaseFailed(r) \/ RecordUnmanaged(r)
  BY <1>1, <1>9, BecomeFacts
    DEF BeginReleasing, RecordReleaseFailed, RecordUnmanaged, Row, Held, Lifecycle
<1>10. CASE \E res \in Resources : Schedule(r, res)
  <2>1. PICK res \in Resources : Schedule(r, res)
    BY <1>10
  <2>2. res \in rsv[r].claim.fits
    BY <2>1, Zenon DEF Schedule, Eligible
  <2> DEFINE row == [rsv[r] EXCEPT !.on = res, !.agg = "assigned"]
  <2>3. Become(r, row)
    BY <2>1, Zenon DEF Schedule
  <2>4. row \in Row /\ row.on = res /\ row.claim = rsv[r].claim
    BY <1>1 DEF Row
  <2> HIDE DEF row
  <2> QED
    BY <2>2, <2>3, <2>4, BecomeFacts
<1>11. CASE Begin(r) \/ TornDown(r)
  BY <1>1, <1>11, BecomeFacts DEF Begin, TornDown, Row
<1> QED
  BY <1>3, <1>4, <1>5, <1>6, <1>7, <1>8, <1>9, <1>10, <1>11 DEF RowStep

-----------------------------------------------------------------------------
(* Type correctness.                                                       *)

\* The type invariant is inductive.
LEMMA TypeStep ==
  ASSUME TypeOK, [Next]_vars
  PROVE  TypeOK'
<1>1. CASE \E r \in Ids, c \in Claims, e \in Deals \cup {NoDeal} : Reserve(r, c, e)
  <2>1. PICK r \in Ids, c \in Claims, e \in Deals \cup {NoDeal} : Reserve(r, c, e)
    BY <1>1
  <2>2. PICK res \in Resources :
          /\ Candidate(c, res)
          /\ rsv'[r] = [st |-> "reserved", claim |-> c, deal |-> e, on |-> res,
                        from |-> From(c), to |-> To(c),
                        hold |-> IF c.ttl = 0 THEN 0 ELSE now + c.ttl,
                        agg |-> "none"]
    BY <2>1, ReserveFacts
  <2>3. (IF c.ttl = 0 THEN 0 ELSE now + c.ttl) \in Nat
    BY LedgerAssumption DEF TypeOK
  <2>4. rsv'[r] \in Row /\ rsv'[r].on \in rsv'[r].claim.fits
    BY <2>2, <2>3, ClaimWindow DEF Row, Held, Windowed, Candidate
  <2>5. \A q \in DOMAIN rsv : rsv'[q] \in Row /\ rsv'[q].on \in rsv'[q].claim.fits
    <3> TAKE q \in DOMAIN rsv
    <3>1. rsv'[q] = Swept[q]
      BY <2>1, ReserveFacts
    <3> QED
      BY <3>1, SweptFacts DEF TypeOK
  <2>6. DOMAIN rsv' = DOMAIN rsv \cup {r} /\ decl' = decl /\ now' = now
    BY <2>1, ReserveFacts
  <2> QED
    BY <2>4, <2>5, <2>6 DEF TypeOK
<1>2. CASE \E r \in DOMAIN rsv : RowStep(r)
  BY <1>2, RowStepFacts DEF TypeOK
<1>3. CASE ExpireDueHolds
  <2>1. rsv' = Swept /\ decl' = decl /\ now' = now
    BY <1>3 DEF ExpireDueHolds
  <2>2. DOMAIN rsv' = DOMAIN rsv
    BY <2>1 DEF Swept
  <2>3. \A q \in DOMAIN rsv : rsv'[q] \in Row /\ rsv'[q].on \in rsv'[q].claim.fits
    BY <2>1, SweptFacts DEF TypeOK
  <2> QED
    BY <2>1, <2>2, <2>3 DEF TypeOK
<1>4. CASE rsv' = rsv /\ \E res \in Resources, shape \in Shapes : Declare(res, shape)
  BY <1>4 DEF TypeOK, Declare
<1>5. CASE rsv' = rsv /\ Tick
  BY <1>5, LedgerAssumption DEF TypeOK, Tick
<1>6. CASE UNCHANGED vars
  BY <1>6 DEF TypeOK, vars
<1> QED
  BY <1>1, <1>2, <1>3, <1>4, <1>5, <1>6, NextCases

\* Type correctness: every row is well-formed, on a resource its claim admits,
\* after any sequence of the ledger's operations.
THEOREM TypeCorrect == Spec => []TypeOK
<1>1. Init => TypeOK
  BY LedgerAssumption DEF Init, TypeOK
<1>2. TypeOK /\ [Next]_vars => TypeOK'
  BY TypeStep
<1> QED
  BY <1>1, <1>2, PTL DEF Spec

-----------------------------------------------------------------------------
(* How the state, the window and the place of a row may move.              *)

\* A row's window after a step: a hold's stays, or becomes the lease's by a
\* commit; a lease's may only end earlier.
Rewindows(r) ==
  /\ rsv'[r].st = "reserved" =>
       /\ rsv[r].st = "reserved"
       /\ rsv'[r].from = rsv[r].from /\ rsv'[r].to = rsv[r].to
  /\ rsv'[r].st = "leased" /\ rsv[r].st = "reserved" =>
       \/ rsv'[r].from = rsv[r].from /\ rsv'[r].to = rsv[r].to
       \/ /\ rsv'[r].from = LeaseFrom(rsv[r])
          /\ rsv'[r].to = LeaseTo(rsv[r])

\* A release needs the guard, and the guard leaves no work behind.
StaysIdle(r) ==
  rsv'[r].st = "released" =>
    \/ rsv'[r].agg \in Idle
    \/ rsv[r].st = "released" /\ rsv[r].agg \notin Idle

\* A row moves only when it is scheduled, and keeps its state and window.
Moves(r) ==
  rsv'[r].on # rsv[r].on =>
    /\ rsv'[r].st = rsv[r].st
    /\ rsv'[r].from = rsv[r].from /\ rsv'[r].to = rsv[r].to
    /\ \E res \in Resources : Schedule(r, res) /\ rsv'[r].on = res

\* Every single-row step keeps to these rules.
LEMMA RowMoves ==
  ASSUME TypeOK, NEW r \in DOMAIN rsv, RowStep(r)
  PROVE  KeepsEnd(r) /\ Rewindows(r) /\ StaysIdle(r) /\ Moves(r)
<1>1. rsv[r] \in Row
  BY DEF TypeOK
<1>2. rsv[r].to \in Nat
  BY <1>1, LedgerAssumption DEF Row, Times
<1>3. CASE \E e \in Deals \cup {NoDeal} : Commit(r, e)
  <2>1. PICK e \in Deals \cup {NoDeal} : Commit(r, e)
    BY <1>3
  <2>2. /\ rsv[r].st = "reserved" /\ rsv'[r].st = "leased"
        /\ rsv'[r].from = LeaseFrom(rsv[r]) /\ rsv'[r].to = LeaseTo(rsv[r])
        /\ rsv'[r].on = rsv[r].on
    <3> DEFINE f == LeaseFrom(rsv[r])
               t == LeaseTo(rsv[r])
               d == RecordDeal(r, e)
               row == [rsv[r] EXCEPT !.st = "leased", !.hold = 0, !.deal = d,
                                     !.from = f, !.to = t]
    <3>1. Become(r, row) /\ rsv[r].st = "reserved"
      BY <2>1 DEF Commit
    <3> HIDE DEF f, t, d
    <3>2. row.st = "leased" /\ row.from = f /\ row.to = t /\ row.on = rsv[r].on
      BY <1>1 DEF Row
    <3> HIDE DEF row
    <3>3. rsv'[r] = row
      BY <3>1, BecomeFacts
    <3> QED
      BY <3>1, <3>2, <3>3 DEF f, t
  <2> QED
    BY <2>2 DEF KeepsEnd, Rewindows, StaysIdle, Moves, Windowed, Held, Lifecycle, GivenBack, Idle
<1>4. CASE \E e \in Deals \cup {NoDeal} : CommitAgain(r, e)
  BY <1>1, <1>2, <1>4, BecomeFacts DEF CommitAgain, Row,
      KeepsEnd, Rewindows, StaysIdle, Moves, Windowed, Held, Lifecycle, GivenBack, Idle
<1>5. CASE Release(r)
  <2>1. rsv'[r] = GiveBack(rsv[r], "released")
    BY <1>5, BecomeFacts DEF Release
  <2> QED
    BY <1>1, <1>2, <1>5, <2>1, GiveBackFacts DEF Release, Permitted, Row,
      KeepsEnd, Rewindows, StaysIdle, Moves, Windowed, Held, Lifecycle, GivenBack, Idle
<1>6. CASE ReleaseAgain(r)
  <2>1. rsv'[r] = GiveBack(rsv[r], rsv[r].st) /\ rsv[r].st \in GivenBack
    BY <1>6, BecomeFacts DEF ReleaseAgain
  <2> QED
    BY <1>1, <1>2, <1>6, <2>1, GiveBackFacts DEF ReleaseAgain, Permitted, Row,
      KeepsEnd, Rewindows, StaysIdle, Moves, Windowed, Held, Lifecycle, GivenBack, Idle
<1>7. CASE ForceRelease(r)
  BY <1>1, <1>2, <1>7, BecomeFacts DEF ForceRelease, Row,
      KeepsEnd, Rewindows, StaysIdle, Moves, Windowed, Held, Lifecycle, GivenBack, Idle
<1>8. CASE \E end \in Ends : TruncateLease(r, end)
  BY <1>1, <1>8, BecomeFacts DEF TruncateLease, Row,
      KeepsEnd, Rewindows, StaysIdle, Moves, Windowed, Held, Lifecycle, GivenBack, Idle
<1>9. CASE BeginReleasing(r) \/ RecordReleaseFailed(r) \/ RecordUnmanaged(r)
  BY <1>1, <1>2, <1>9, BecomeFacts
    DEF BeginReleasing, RecordReleaseFailed, RecordUnmanaged, Row,
      KeepsEnd, Rewindows, StaysIdle, Moves, Windowed, Held, Lifecycle, GivenBack, Idle
<1>10. CASE \E res \in Resources : Schedule(r, res)
  <2>1. PICK res \in Resources : Schedule(r, res)
    BY <1>10
  <2>2. /\ Become(r, [rsv[r] EXCEPT !.on = res, !.agg = "assigned"])
        /\ rsv[r].st \in Windowed \cup {"unmanaged"}
    BY <2>1, Zenon DEF Schedule
  <2>3. /\ rsv'[r].on = res /\ rsv'[r].st = rsv[r].st
        /\ rsv'[r].from = rsv[r].from /\ rsv'[r].to = rsv[r].to
    <3> DEFINE row == [rsv[r] EXCEPT !.on = res, !.agg = "assigned"]
    <3>1. /\ row.on = res /\ row.st = rsv[r].st
          /\ row.from = rsv[r].from /\ row.to = rsv[r].to
      BY <1>1 DEF Row
    <3>2. Become(r, row)
      BY <2>2
    <3> HIDE DEF row
    <3> QED
      BY <3>1, <3>2, BecomeFacts
  <2>4. KeepsEnd(r) /\ Rewindows(r) /\ StaysIdle(r)
    BY <1>2, <2>2, <2>3
      DEF KeepsEnd, Rewindows, StaysIdle, Windowed, Held, Lifecycle, GivenBack, Idle
  <2>5. Moves(r)
    BY <2>1, <2>3, Zenon DEF Moves
  <2> QED
    BY <2>4, <2>5
<1>11. CASE Begin(r) \/ TornDown(r)
  BY <1>1, <1>2, <1>11, BecomeFacts DEF Begin, TornDown, Row,
      KeepsEnd, Rewindows, StaysIdle, Moves, Windowed, Held, Lifecycle, GivenBack, Idle
<1> QED
  BY <1>3, <1>4, <1>5, <1>6, <1>7, <1>8, <1>9, <1>10, <1>11 DEF RowStep

\* A row that only the sweep may touch keeps its end and its window, and is
\* idle if it was given back.
LEMMA SweptMoves ==
  ASSUME TypeOK, NEW r \in DOMAIN rsv, rsv'[r] \in {Swept[r], rsv[r]}
  PROVE  /\ KeepsEnd(r) /\ Rewindows(r) /\ StaysIdle(r)
         /\ rsv'[r].claim = rsv[r].claim /\ rsv'[r].on = rsv[r].on
         /\ rsv'[r].from = rsv[r].from /\ rsv'[r].to = rsv[r].to
         /\ rsv'[r].st \in {rsv[r].st, "released"}
<1>1. rsv[r] \in Row /\ rsv[r].to \in Nat
  BY LedgerAssumption DEF TypeOK, Row, Times
<1>2. \/ rsv'[r] = rsv[r]
      \/ /\ rsv[r].st = "reserved" /\ rsv'[r].st = "released"
         /\ rsv'[r].agg \in Idle
         /\ rsv'[r].claim = rsv[r].claim /\ rsv'[r].on = rsv[r].on
         /\ rsv'[r].from = rsv[r].from /\ rsv'[r].to = rsv[r].to
  BY SweptFacts
<1> QED
  BY <1>1, <1>2 DEF KeepsEnd, Rewindows, StaysIdle, Windowed, GivenBack, Idle

\* Every step moves every existing row by these rules, and the rows a step
\* does not write are swept or left.
LEMMA StepMoves ==
  ASSUME TypeOK, [Next]_vars
  PROVE  /\ DOMAIN rsv \subseteq DOMAIN rsv'
         /\ \A r \in DOMAIN rsv : KeepsEnd(r) /\ Rewindows(r) /\ StaysIdle(r)
         /\ \A r \in DOMAIN rsv : rsv'[r].claim = rsv[r].claim
<1>1. CASE \E r \in Ids, c \in Claims, e \in Deals \cup {NoDeal} : Reserve(r, c, e)
  BY <1>1, ReserveFacts, SweptMoves
<1>2. CASE \E r \in DOMAIN rsv : RowStep(r)
  <2>1. PICK r \in DOMAIN rsv : RowStep(r)
    BY <1>2
  <2>2. \A q \in DOMAIN rsv : q # r => rsv'[q] \in {Swept[q], rsv[q]}
    BY <2>1, RowStepFacts
  <2> QED
    BY <2>1, <2>2, RowStepFacts, RowMoves, SweptMoves
<1>3. CASE ExpireDueHolds
  <2>1. rsv' = Swept /\ DOMAIN Swept = DOMAIN rsv
    BY <1>3 DEF ExpireDueHolds, Swept
  <2> QED
    BY <2>1, SweptMoves
<1>4. CASE rsv' = rsv
  BY <1>4, SweptMoves
<1> QED
  BY <1>1, <1>2, <1>3, <1>4, NextCases DEF vars

\* A row that a step adds is a fresh hold.
LEMMA NewRow ==
  ASSUME TypeOK, [Next]_vars, NEW r \in DOMAIN rsv', r \notin DOMAIN rsv
  PROVE  /\ rsv'[r].st = "reserved" /\ rsv'[r].agg = "none"
         /\ decl' = decl
         /\ \E c \in Claims :
              /\ rsv'[r].claim = c
              /\ rsv'[r].from = From(c) /\ rsv'[r].to = To(c)
              /\ rsv'[r].on \in Resources
              /\ Candidate(c, rsv'[r].on)
         /\ DOMAIN rsv' = DOMAIN rsv \cup {r}
         /\ \A q \in DOMAIN rsv : rsv'[q] = Swept[q]
<1>1. CASE \E i \in Ids, c \in Claims, e \in Deals \cup {NoDeal} : Reserve(i, c, e)
  <2>1. PICK i \in Ids, c \in Claims, e \in Deals \cup {NoDeal} : Reserve(i, c, e)
    BY <1>1
  <2>0. /\ DOMAIN rsv' = DOMAIN rsv \cup {i} /\ decl' = decl
        /\ \A q \in DOMAIN rsv : rsv'[q] = Swept[q]
    BY <2>1, ReserveFacts
  <2>2. r = i
    BY <2>0
  <2>3. PICK res \in Resources :
          /\ Candidate(c, res)
          /\ rsv'[r] = [st |-> "reserved", claim |-> c, deal |-> e, on |-> res,
                        from |-> From(c), to |-> To(c),
                        hold |-> IF c.ttl = 0 THEN 0 ELSE now + c.ttl,
                        agg |-> "none"]
    <3>1. Reserve(r, c, e)
      BY <2>1, <2>2
    <3> QED
      BY <3>1, ReserveFacts
  <2> QED
    BY <2>0, <2>2, <2>3
<1>2. CASE DOMAIN rsv' = DOMAIN rsv
  BY <1>2
<1> QED
  BY <1>1, <1>2, NextCases, RowStepFacts DEF vars, ExpireDueHolds, Swept

\* A row changes its resource only by being scheduled, alone in its step.
LEMMA MovedRow ==
  ASSUME TypeOK, [Next]_vars, NEW r \in DOMAIN rsv, rsv'[r].on # rsv[r].on
  PROVE  /\ DOMAIN rsv' = DOMAIN rsv /\ decl' = decl
         /\ \A q \in DOMAIN rsv : q # r => rsv'[q] = rsv[q]
         /\ \E res \in Resources : Schedule(r, res) /\ rsv'[r].on = res
<1>1. CASE \E i \in Ids, c \in Claims, e \in Deals \cup {NoDeal} : Reserve(i, c, e)
  <2>1. rsv'[r] = Swept[r]
    BY <1>1, ReserveFacts
  <2> QED
    BY <2>1, SweptMoves
<1>2. CASE \E q \in DOMAIN rsv : RowStep(q)
  <2>1. PICK q \in DOMAIN rsv : RowStep(q)
    BY <1>2
  <2>2. q = r
    BY <2>1, RowStepFacts
  <2>3. RowStep(r)
    BY <2>1, <2>2
  <2>4. Moves(r)
    BY <2>3, RowMoves
  <2> QED
    BY <2>3, <2>4, RowStepFacts DEF Moves
<1>3. CASE ExpireDueHolds
  BY <1>3, SweptMoves DEF ExpireDueHolds
<1>4. CASE rsv' = rsv
  BY <1>4
<1> QED
  BY <1>1, <1>2, <1>3, <1>4, NextCases DEF vars

\* No late or repeated commit, stale failure report, sweep or move undoes a
\* lease's end: its start stays, it is never extended, and what the lifecycle
\* or an operator recorded stays recorded.
THEOREM LeaseKeptAlways == Spec => LeaseKept
<1>1. TypeOK /\ [Next]_vars => [\A r \in DOMAIN rsv : KeepsEnd(r)]_vars
  BY StepMoves
<1> QED
  BY <1>1, TypeCorrect, PTL DEF Spec, LeaseKept

\* Capacity that is given back by a release or a lapsed hold never has a
\* running workload, nor one that could still be started.
THEOREM GivenBackIdleAlways == Spec => []GivenBackIdle
<1>1. Init => GivenBackIdle
  BY DEF Init, GivenBackIdle
<1>2. TypeOK /\ GivenBackIdle /\ [Next]_vars => GivenBackIdle'
  <2> SUFFICES ASSUME TypeOK, GivenBackIdle, [Next]_vars,
                      NEW r \in DOMAIN rsv', rsv'[r].st = "released"
               PROVE  rsv'[r].agg \in Idle
    BY DEF GivenBackIdle
  <2>1. CASE r \in DOMAIN rsv
    BY <2>1, StepMoves DEF StaysIdle, GivenBackIdle
  <2>2. CASE r \notin DOMAIN rsv
    BY <2>2, NewRow DEF Idle
  <2> QED
    BY <2>1, <2>2
<1> QED
  BY <1>1, <1>2, TypeCorrect, PTL DEF Spec

-----------------------------------------------------------------------------
(* The windows of holds.                                                   *)

\* Time only goes on.
LEMMA NowGrows ==
  ASSUME TypeOK, [Next]_vars
  PROVE  now \in Nat /\ now' \in Nat /\ now <= now'
<1>1. now \in Nat
  BY LedgerAssumption DEF TypeOK
<1>2. CASE \E r \in Ids, c \in Claims, e \in Deals \cup {NoDeal} : Reserve(r, c, e)
  <2>1. now' = now
    BY <1>2, Zenon DEF Reserve
  <2> QED
    BY <1>1, <2>1
<1>3. CASE \E r \in DOMAIN rsv : RowStep(r)
  BY <1>1, <1>3, RowStepFacts
<1>4. CASE ExpireDueHolds
  BY <1>1, <1>4 DEF ExpireDueHolds
<1>5. CASE \E res \in Resources, shape \in Shapes : Declare(res, shape)
  BY <1>1, <1>5 DEF Declare
<1>6. CASE Tick
  BY <1>1, <1>6 DEF Tick
<1>7. CASE UNCHANGED vars
  BY <1>1, <1>7 DEF vars
<1> QED
  BY <1>2, <1>3, <1>4, <1>5, <1>6, <1>7, NextCases

\* A hold keeps the window it was made with until it is committed.
LEMMA HoldWindowStep ==
  ASSUME TypeOK, HoldWindow, [Next]_vars
  PROVE  HoldWindow'
<1> SUFFICES ASSUME NEW r \in DOMAIN rsv', rsv'[r].st = "reserved"
             PROVE  /\ rsv'[r].claim.start # 0 =>
                         /\ rsv'[r].from = rsv'[r].claim.start
                         /\ rsv'[r].to = rsv'[r].claim.start + rsv'[r].claim.len
                    /\ rsv'[r].claim.start = 0 => rsv'[r].from <= now'
  BY DEF HoldWindow
<1>1. CASE r \in DOMAIN rsv
  <2>1. /\ rsv[r].st = "reserved" /\ rsv'[r].claim = rsv[r].claim
        /\ rsv'[r].from = rsv[r].from /\ rsv'[r].to = rsv[r].to
    BY <1>1, StepMoves DEF Rewindows
  <2>2. rsv[r].from \in Nat
    BY <1>1, LedgerAssumption DEF TypeOK, Row, Times
  <2> QED
    BY <1>1, <2>1, <2>2, NowGrows DEF HoldWindow
<1>2. CASE r \notin DOMAIN rsv
  <2>1. PICK c \in Claims : /\ rsv'[r].claim = c
                            /\ rsv'[r].from = From(c) /\ rsv'[r].to = To(c)
    BY <1>2, NewRow
  <2>2. c.start \in Nat /\ c.len \in Nat /\ (c.start # 0 => c.len # 0)
    BY LedgerAssumption
  <2>3. now' = now /\ now \in Nat
    <3>1. \E i \in Ids, k \in Claims, e \in Deals \cup {NoDeal} : Reserve(i, k, e)
      BY <1>2, NextCases, RowStepFacts DEF vars, ExpireDueHolds, Swept
    <3> QED
      BY <3>1, ReserveFacts, NowGrows
  <2>4. c.start # 0 => From(c) = c.start /\ To(c) = c.start + c.len
    BY <2>2 DEF From, To
  <2>5. c.start = 0 => From(c) <= now
    BY <2>2, <2>3 DEF From
  <2> QED
    BY <2>1, <2>3, <2>4, <2>5
<1> QED
  BY <1>1, <1>2

LEMMA HoldWindowAlways == Spec => [](TypeOK /\ HoldWindow)
<1>1. Init => HoldWindow
  BY DEF Init, HoldWindow
<1>2. TypeOK /\ HoldWindow /\ [Next]_vars => HoldWindow'
  BY HoldWindowStep
<1> QED
  BY <1>1, <1>2, TypeCorrect, PTL DEF Spec

\* A row that holds or leases after a step, existed before and is not extended
\* by a late commit held a window at least as wide.
LEMMA Narrows ==
  ASSUME TypeOK, HoldWindow, [Next]_vars, NEW r \in DOMAIN rsv,
         rsv'[r].st \in Windowed, ~Extended(r)
  PROVE  /\ rsv[r].st \in Windowed
         /\ rsv[r].from \in Nat /\ rsv'[r].from \in Nat
         /\ rsv[r].to \in Nat /\ rsv'[r].to \in Nat
         /\ rsv[r].from <= rsv'[r].from /\ rsv'[r].to <= rsv[r].to
<1>1. KeepsEnd(r) /\ Rewindows(r) /\ rsv'[r].claim = rsv[r].claim
  BY StepMoves
<1>2. rsv[r].st \in Windowed
  BY <1>1 DEF KeepsEnd
<1>3. rsv[r] \in Row /\ rsv'[r] \in Row
  BY StepMoves, TypeStep DEF TypeOK
<1>4. /\ rsv[r].from \in Nat /\ rsv'[r].from \in Nat
      /\ rsv[r].to \in Nat /\ rsv'[r].to \in Nat
  BY <1>3, LedgerAssumption DEF Row, Times
<1>5. CASE rsv[r].st = "leased"
  BY <1>1, <1>2, <1>4, <1>5 DEF KeepsEnd
<1>6. CASE rsv[r].st = "reserved"
  <2>1. rsv[r].claim.start \in Nat /\ now \in Nat
    BY <1>3, LedgerAssumption, NowGrows DEF Row
  <2>2. LeaseFrom(rsv[r]) >= rsv[r].from
    BY <1>4, <1>6, <2>1 DEF HoldWindow, LeaseFrom
  <2>3. CASE rsv'[r].st = "reserved"
    BY <1>1, <1>2, <1>4, <2>3 DEF Rewindows
  <2>4. CASE rsv'[r].st = "leased"
    <3>1. rsv'[r].to <= rsv[r].to
      BY <1>4, <1>6, <2>4 DEF Extended
    <3>2. rsv[r].from <= rsv'[r].from
      BY <1>1, <1>4, <1>6, <2>2, <2>4 DEF Rewindows
    <3> QED
      BY <1>2, <1>4, <3>1, <3>2
  <2> QED
    BY <2>3, <2>4 DEF Windowed
<1> QED
  BY <1>2, <1>5, <1>6 DEF Windowed

-----------------------------------------------------------------------------
(* Hosts.                                                                  *)

\* A new hold shares no time with a row its resource may not share a host with.
LEMMA NewRowAlone ==
  ASSUME TypeOK, [Next]_vars, NEW r \in DOMAIN rsv', r \notin DOMAIN rsv,
         NEW q \in DOMAIN rsv, rsv'[q].st \in Windowed,
         Conflicting(rsv'[r].on, rsv'[q].on)
  PROVE  ~Overlap(rsv'[r].from, rsv'[r].to, rsv'[q].from, rsv'[q].to)
<1>1. PICK c \in Claims : /\ rsv'[r].from = From(c) /\ rsv'[r].to = To(c)
                          /\ Candidate(c, rsv'[r].on)
  BY NewRow
<1>2. rsv'[q] = Swept[q] /\ DOMAIN Swept = DOMAIN rsv
  BY NewRow, SweptFacts
<1>3. ~HostConflict(Swept, rsv'[r].on, From(c), To(c))
  BY <1>1 DEF Candidate
<1>4. ~Blocks(Swept[q], From(c), To(c))
  BY <1>2, <1>3 DEF HostConflict, Held
<1> QED
  BY <1>1, <1>2, <1>4 DEF Blocks

\* A row that is moved beside another, where they may not share the host, is
\* moved beside a window that is not current.
LEMMA MovedBesideLater ==
  ASSUME TypeOK, [Next]_vars, NEW r \in DOMAIN rsv, NEW q \in DOMAIN rsv, r # q,
         rsv'[q].st \in Windowed, rsv'[r].on # rsv[r].on,
         Conflicting(rsv'[r].on, rsv'[q].on)
  PROVE  MovedBeside(r, q)
<1> DEFINE others == [p \in DOMAIN rsv \ {r} |-> rsv[p]]
<1>1. PICK res \in Resources : Schedule(r, res) /\ rsv'[r].on = res
  BY MovedRow
<1>2. rsv'[q] = rsv[q]
  BY MovedRow
<1>3. ~HostConflict(others, res, now, now + 1)
  BY <1>1, Zenon DEF Schedule, Eligible
<1>4. q \in DOMAIN others /\ others[q] = rsv[q]
  OBVIOUS
<1>5. ~Blocks(rsv[q], now, now + 1)
  BY <1>1, <1>2, <1>3, <1>4 DEF HostConflict, Held
<1> QED
  BY <1>5 DEF MovedBeside, Blocks

LEMMA HostStep ==
  ASSUME TypeOK, HoldWindow, [Next]_vars, NEW r, NEW q, Shares(r, q)'
  PROVE  \/ Shares(r, q)
         \/ Extended(r) \/ Extended(q)
         \/ MovedBeside(r, q) \/ MovedBeside(q, r)
<1>0. /\ r \in DOMAIN rsv' /\ q \in DOMAIN rsv' /\ r # q
      /\ rsv'[r].st \in Windowed /\ rsv'[q].st \in Windowed
      /\ Conflicting(rsv'[r].on, rsv'[q].on) /\ Conflicting(rsv'[q].on, rsv'[r].on)
      /\ Overlap(rsv'[r].from, rsv'[r].to, rsv'[q].from, rsv'[q].to)
      /\ Overlap(rsv'[q].from, rsv'[q].to, rsv'[r].from, rsv'[r].to)
  BY DEF Shares, Conflicting, Overlap
<1>1. r \in DOMAIN rsv /\ q \in DOMAIN rsv
  <2>1. CASE r \notin DOMAIN rsv
    BY <1>0, <2>1, NewRow, NewRowAlone
  <2>2. CASE q \notin DOMAIN rsv
    BY <1>0, <2>2, NewRow, NewRowAlone
  <2> QED
    BY <2>1, <2>2
<1>2. CASE rsv'[r].on # rsv[r].on
  BY <1>0, <1>1, <1>2, MovedBesideLater
<1>3. CASE rsv'[q].on # rsv[q].on
  BY <1>0, <1>1, <1>3, MovedBesideLater
<1>4. CASE /\ ~Extended(r) /\ ~Extended(q)
           /\ rsv'[r].on = rsv[r].on /\ rsv'[q].on = rsv[q].on
  <2>1. /\ rsv[r].st \in Windowed
        /\ rsv[r].from \in Nat /\ rsv'[r].from \in Nat
        /\ rsv[r].to \in Nat /\ rsv'[r].to \in Nat
        /\ rsv[r].from <= rsv'[r].from /\ rsv'[r].to <= rsv[r].to
    BY <1>0, <1>1, <1>4, Narrows
  <2>2. /\ rsv[q].st \in Windowed
        /\ rsv[q].from \in Nat /\ rsv'[q].from \in Nat
        /\ rsv[q].to \in Nat /\ rsv'[q].to \in Nat
        /\ rsv[q].from <= rsv'[q].from /\ rsv'[q].to <= rsv[q].to
    BY <1>0, <1>1, <1>4, Narrows
  <2>3. Overlap(rsv[r].from, rsv[r].to, rsv[q].from, rsv[q].to)
    BY <1>0, <2>1, <2>2 DEF Overlap
  <2> QED
    BY <1>0, <1>1, <1>4, <2>1, <2>2, <2>3 DEF Shares
<1> QED
  BY <1>2, <1>3, <1>4

\* For every set of claims, with and without a start, movable or not: two rows
\* come to share a host they may not share only through a late commit or a move
\* beside a window that is not current, never by a reserve, a timely commit, a
\* sweep, a truncation or a move into the present.
THEOREM HostSharedOnlyAheadAlways == Spec => HostSharedOnlyAhead
<1> DEFINE Kept == \A r, q \in Ids :
       Shares(r, q)' => \/ Shares(r, q)
                        \/ Extended(r) \/ Extended(q)
                        \/ MovedBeside(r, q) \/ MovedBeside(q, r)
<1>1. TypeOK /\ HoldWindow /\ [Next]_vars => [Kept]_vars
  BY HostStep
<1> QED
  BY <1>1, HoldWindowAlways, PTL DEF Spec, HostSharedOnlyAhead

-----------------------------------------------------------------------------
(* Counting units.                                                         *)

\* A count of units of finitely many rows is a number, and grows with the
\* rows; it depends on their claims only.
LEMMA UnitsMonotone ==
  ASSUME NEW T, NEW U, NEW R, NEW S, IsFiniteSet(S), R \subseteq S, NEW d,
         \A r \in R : T[r].claim = U[r].claim
  PROVE  /\ Units(T, R, d) \in Nat /\ Units(U, S, d) \in Nat
         /\ Units(T, R, d) <= Units(U, S, d)
<1> DEFINE A == {p \in R \X (1 .. MaxUnits) : p[2] <= T[p[1]].claim.units[d]}
           B == {p \in S \X (1 .. MaxUnits) : p[2] <= U[p[1]].claim.units[d]}
<1>1. IsFiniteSet(1 .. MaxUnits)
  BY FS_Interval, LedgerAssumption
<1>2. IsFiniteSet(S \X (1 .. MaxUnits))
  BY <1>1, FS_Product
<1>3. IsFiniteSet(B)
  BY <1>2, FS_Subset
<1>4. A \subseteq B
  <2> SUFFICES ASSUME NEW p \in A
               PROVE  p \in B
    OBVIOUS
  <2>1. p[1] \in R
    OBVIOUS
  <2>2. T[p[1]].claim = U[p[1]].claim
    BY <2>1
  <2> QED
    BY <2>1, <2>2
<1>5. IsFiniteSet(A) /\ Cardinality(A) <= Cardinality(B)
  BY <1>3, <1>4, FS_Subset
<1>6. Cardinality(A) \in Nat /\ Cardinality(B) \in Nat
  BY <1>3, <1>5, FS_CardinalityType
<1> QED
  BY <1>5, <1>6 DEF Units

\* A row of n units counts n.
LEMMA RowCount ==
  ASSUME NEW r, NEW n \in Nat
  PROVE  IsFiniteSet({r} \X (1 .. n)) /\ Cardinality({r} \X (1 .. n)) = n
<1>1. IsFiniteSet(1 .. n) /\ Cardinality(1 .. n) = IF 1 > n THEN 0 ELSE n - 1 + 1
  BY FS_Interval
<1>2. Cardinality(1 .. n) = n
  BY <1>1
<1>3. IsFiniteSet({r}) /\ Cardinality({r}) = 1
  BY FS_Singleton, Zenon
<1>4. /\ IsFiniteSet({r} \X (1 .. n))
      /\ Cardinality({r} \X (1 .. n)) = Cardinality({r}) * Cardinality(1 .. n)
  BY <1>1, <1>3, FS_Product, Zenon
<1> QED
  BY <1>2, <1>3, <1>4

\* One more row adds its own units.
LEMMA UnitsAdd ==
  ASSUME NEW T, NEW R, IsFiniteSet(R), NEW r, r \notin R, NEW d,
         NEW n \in 0 .. MaxUnits, T[r].claim.units[d] = n
  PROVE  Units(T, R \cup {r}, d) = Units(T, R, d) + n
<1> DEFINE A == {p \in R \X (1 .. MaxUnits) : p[2] <= T[p[1]].claim.units[d]}
           B == {p \in (R \cup {r}) \X (1 .. MaxUnits) : p[2] <= T[p[1]].claim.units[d]}
           C == {r} \X (1 .. n)
<1>1. n \in Nat /\ n <= MaxUnits /\ MaxUnits \in Nat
  BY LedgerAssumption
<1>2. IsFiniteSet(C) /\ Cardinality(C) = n
  BY <1>1, RowCount
<1>3. IsFiniteSet(R \X (1 .. MaxUnits))
  <2>1. IsFiniteSet(1 .. MaxUnits)
    BY <1>1, FS_Interval
  <2> QED
    BY <2>1, FS_Product, Zenon
<1>4. IsFiniteSet(A)
  BY <1>3, FS_Subset
<1>5. B = A \cup C
  <2>1. ASSUME NEW p \in B PROVE p \in A \cup C
    <3>1. CASE p[1] = r
      <4>1. p = <<r, p[2]>> /\ p[2] \in 1 .. MaxUnits /\ p[2] <= n
        BY <3>1
      <4>2. p[2] \in 1 .. n
        BY <1>1, <4>1
      <4> QED
        BY <4>1, <4>2
    <3>2. CASE p[1] # r
      BY <3>2
    <3> QED
      BY <3>1, <3>2
  <2>2. ASSUME NEW p \in A PROVE p \in B
    OBVIOUS
  <2>3. ASSUME NEW p \in C PROVE p \in B
    <3>1. p = <<r, p[2]>> /\ p[1] = r /\ p[2] \in 1 .. n
      OBVIOUS
    <3>2. p[2] \in 1 .. MaxUnits /\ p[2] <= n
      BY <1>1, <3>1
    <3> QED
      BY <3>1, <3>2
  <2> QED
    BY <2>1, <2>2, <2>3
<1>6. A \cap C = {}
  OBVIOUS
<1> HIDE DEF A, B, C
<1>7. Cardinality(B) = Cardinality(A) + Cardinality(C) - Cardinality({})
  BY <1>2, <1>4, <1>5, <1>6, FS_Union
<1>8. Cardinality(A) \in Nat
  BY <1>4, FS_CardinalityType
<1>9. Cardinality({}) = 0
  BY FS_EmptySet
<1>10. Cardinality(B) = Cardinality(A) + n
  BY <1>1, <1>2, <1>7, <1>8, <1>9
<1> QED
  BY <1>10 DEF Units, A, B

\* Adding a row to rows that leave it room keeps within the declaration, for
\* any table with the same claims and any part of those rows.
LEMMA RoomForOne ==
  ASSUME TypeOK, NEW T, NEW U, NEW R, IsFiniteSet(R), NEW r, r \notin R, NEW S,
         S \subseteq R \cup {r}, \A q \in R : U[q].claim = T[q].claim,
         U[r].claim \in Claims, NEW res \in Resources,
         Room(T, R, U[r].claim, res), NEW d \in Asked(U[r].claim)
  PROVE  Units(U, S, d) <= decl[res].cap[d]
<1>1. IsFiniteSet(R \cup {r})
  BY FS_AddElement
<1>2. U[r].claim.units[d] \in 0 .. MaxUnits
  BY LedgerAssumption DEF Asked
<1>3. /\ Units(U, S, d) <= Units(U, R \cup {r}, d)
      /\ Units(U, S, d) \in Nat /\ Units(U, R \cup {r}, d) \in Nat
  BY <1>1, UnitsMonotone
<1>4. Units(U, R \cup {r}, d) = Units(U, R, d) + U[r].claim.units[d]
  <2>1. PICK n \in 0 .. MaxUnits : U[r].claim.units[d] = n
    BY <1>2
  <2>2. Units(U, R \cup {r}, d) = Units(U, R, d) + n
    BY <2>1, UnitsAdd
  <2> QED
    BY <2>1, <2>2
<1>5. /\ Units(U, R, d) <= Units(T, R, d)
      /\ Units(U, R, d) \in Nat /\ Units(T, R, d) \in Nat
  BY UnitsMonotone
<1>6. Units(T, R, d) + U[r].claim.units[d] <= decl[res].cap[d]
  BY DEF Room
<1>7. decl[res].cap[d] \in Nat
  BY LedgerAssumption DEF TypeOK, Asked
<1> QED
  BY <1>2, <1>3, <1>4, <1>5, <1>6, <1>7, LedgerAssumption

-----------------------------------------------------------------------------
(* Capacity.                                                               *)

\* Rows on a resource are finitely many, and those that hold at an instant are
\* among them.
LEMMA OnFinite ==
  ASSUME TypeOK, NEW T, DOMAIN T = DOMAIN rsv, NEW res, NEW f, NEW t
  PROVE  IsFiniteSet(On(T, res)) /\ IsFiniteSet(Holding(T, res, f, t))
<1>1. On(T, res) \subseteq Ids /\ Holding(T, res, f, t) \subseteq Ids
  BY DEF TypeOK, On, Holding
<1> QED
  BY <1>1, FS_Subset, LedgerAssumption

\* A reservation fits beside all that holds any instant of its window.
LEMMA NewRowFits ==
  ASSUME TypeOK, [Next]_vars, NEW res \in Resources, NEW t \in Times,
         NEW r \in Booked(res, t)', r \notin DOMAIN rsv,
         NEW d \in Asked(rsv'[r].claim)
  PROVE  Units(rsv', HeldAt(res, t)', d) <= decl'[res].cap[d]
<1>1. /\ r \in DOMAIN rsv' /\ rsv'[r].on = res
      /\ rsv'[r].from <= t /\ t < rsv'[r].to
  BY DEF Booked, On
<1>2. PICK c \in Claims : /\ rsv'[r].claim = c
                          /\ rsv'[r].from = From(c) /\ rsv'[r].to = To(c)
                          /\ Candidate(c, res)
  BY <1>1, NewRow
<1>3. /\ DOMAIN rsv' = DOMAIN rsv \cup {r} /\ decl' = decl
      /\ \A q \in DOMAIN rsv : rsv'[q] = Swept[q]
  BY <1>1, NewRow
<1>4. DOMAIN Swept = DOMAIN rsv
  BY DEF Swept
<1> DEFINE H == Holding(Swept, res, From(c), To(c))
<1>5. IsFiniteSet(H) /\ H \subseteq DOMAIN rsv
  <2>1. IsFiniteSet(H)
    BY <1>4, OnFinite, Zenon
  <2>2. H \subseteq DOMAIN rsv
    BY <1>4 DEF Holding, On
  <2> QED
    BY <2>1, <2>2
<1>6. HeldAt(res, t)' \subseteq H \cup {r}
  <2> SUFFICES ASSUME NEW q \in HeldAt(res, t)', q # r
               PROVE  q \in H
    OBVIOUS
  <2>1. /\ q \in DOMAIN rsv' /\ rsv'[q].st \in Held /\ rsv'[q].on = res
        /\ Blocks(rsv'[q], t, t + 1)
    BY DEF HeldAt, Holding, On
  <2>2. q \in DOMAIN rsv /\ rsv'[q] = Swept[q]
    BY <1>3, <2>1
  <2>3. q \in On(Swept, res) /\ Blocks(Swept[q], t, t + 1)
    BY <1>4, <2>1, <2>2 DEF On
  <2>4. Swept[q].from \in Nat /\ Swept[q].to \in Nat
    BY <2>2, SweptFacts, LedgerAssumption DEF Row, Times
  <2>5. From(c) \in Nat /\ To(c) \in Nat /\ t \in Nat
    BY ClaimWindow, LedgerAssumption DEF Times
  <2>6. Blocks(Swept[q], From(c), To(c))
    BY <1>1, <1>2, <2>3, <2>4, <2>5 DEF Blocks, Overlap
  <2> QED
    BY <2>3, <2>6 DEF Holding
<1>7. Room(Swept, H, rsv'[r].claim, res)
  BY <1>2 DEF Candidate
<1>8. \A q \in H : rsv'[q].claim = Swept[q].claim
  BY <1>3, <1>5
<1>9. r \notin H
  BY <1>5
<1> HIDE DEF H
<1>10. Units(rsv', HeldAt(res, t)', d) <= decl[res].cap[d]
  BY <1>2, <1>5, <1>6, <1>7, <1>8, <1>9, RoomForOne
<1> QED
  BY <1>3, <1>10

\* A moved reservation fits beside all that its new resource holds.
LEMMA MovedRowFits ==
  ASSUME TypeOK, [Next]_vars, NEW res \in Resources, NEW t \in Times,
         NEW r \in Booked(res, t)', r \in DOMAIN rsv, rsv'[r].on # rsv[r].on,
         NEW d \in Asked(rsv'[r].claim)
  PROVE  Units(rsv', HeldAt(res, t)', d) <= decl'[res].cap[d]
<1>1. rsv'[r].on = res
  BY DEF Booked, On
<1>2. /\ DOMAIN rsv' = DOMAIN rsv /\ decl' = decl
      /\ \A q \in DOMAIN rsv : q # r => rsv'[q] = rsv[q]
      /\ Schedule(r, res)
  BY <1>1, MovedRow
<1>3. rsv'[r].claim = rsv[r].claim /\ rsv[r].claim \in Claims
  BY StepMoves DEF TypeOK, Row
<1>4. Room(rsv, On(rsv, res), rsv'[r].claim, res)
  BY <1>1, <1>2, <1>3, Zenon DEF Schedule, Movable
<1>5. IsFiniteSet(On(rsv, res))
  BY OnFinite
<1>6. r \notin On(rsv, res)
  BY <1>1 DEF On
<1>7. \A q \in On(rsv, res) : rsv'[q].claim = rsv[q].claim
  BY StepMoves DEF On
<1>8. HeldAt(res, t)' \subseteq On(rsv, res) \cup {r}
  BY <1>2 DEF HeldAt, Holding, On
<1>9. Units(rsv', HeldAt(res, t)', d) <= decl[res].cap[d]
  BY <1>3, <1>4, <1>5, <1>6, <1>7, <1>8, RoomForOne
<1> QED
  BY <1>2, <1>9

\* A step that does not extend a lease by a late commit does not oversell.
LEMMA StepFits ==
  ASSUME TypeOK, HoldWindow, [Next]_vars, NEW res \in Resources, NEW t \in Times,
         NEW r \in Booked(res, t)' \ Booked(res, t), ~Extended(r),
         NEW d \in Asked(rsv'[r].claim)
  PROVE  Units(rsv', HeldAt(res, t)', d) <= decl'[res].cap[d]
<1>1. CASE r \notin DOMAIN rsv
  BY <1>1, NewRowFits
<1>2. CASE r \in DOMAIN rsv /\ rsv'[r].on # rsv[r].on
  BY <1>2, MovedRowFits
<1>3. CASE r \in DOMAIN rsv /\ rsv'[r].on = rsv[r].on
  <2>1. /\ rsv'[r].on = res /\ rsv'[r].st \in Windowed
        /\ rsv'[r].from <= t /\ t < rsv'[r].to
    BY DEF Booked, On
  <2>2. t \in Nat
    BY LedgerAssumption DEF Times
  <2>3. /\ rsv[r].st \in Windowed /\ rsv[r].from <= t /\ t < rsv[r].to
    BY <1>3, <2>1, <2>2, Narrows
  <2>4. r \in Booked(res, t)
    BY <1>3, <2>1, <2>3 DEF Booked, On, Held
  <2> QED
    BY <2>4
<1> QED
  BY <1>1, <1>2, <1>3

\* For every set of claims, with and without a start: the ledger sells a time
\* on a resource beyond its declaration in no dimension and by no sequence of
\* operations, except by a commit that comes later than its reservation and so
\* moves the end of the window.
THEOREM OversoldOnlyLate == Spec => OnlyLateCommitOversells
<1> DEFINE Kept == \A res \in Resources, t \in Times :
       \A r \in Booked(res, t)' \ Booked(res, t) : Extended(r) \/ Fits(r, res, t)'
<1>1. TypeOK /\ HoldWindow /\ [Next]_vars => [Kept]_vars
  BY StepFits DEF Fits
<1> QED
  BY <1>1, HoldWindowAlways, PTL DEF Spec, OnlyLateCommitOversells
=============================================================================
