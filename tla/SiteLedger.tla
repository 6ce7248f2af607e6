----------------------------- MODULE SiteLedger -----------------------------
(***************************************************************************)
(* The site capacity ledger: reservations of units on physical resources,  *)
(* from a hold with a time to live through a lease to its release, with    *)
(* the fulfillment that scheduling assigns and dispatches for it.          *)
(*                                                                         *)
(* Sources: market_site/ledger.py (one action is one operation, which runs *)
(* under the ledger's lock in one transaction), the scheduler that places  *)
(* a reservation, the acceptance of a fulfillment, and the release guard.  *)
(*                                                                         *)
(* Time is a counter.  A window is half-open; an absent start is 0 and an  *)
(* absent end Forever, which no other instant reaches.  A claim's          *)
(* attributes are the set of resources that satisfy them.  The fulfillment *)
(* of a reservation is "dispatched" from dispatch_pending until its        *)
(* teardown is proven.                                                     *)
(***************************************************************************)
EXTENDS Naturals, FiniteSets

CONSTANTS
  Ids,        \* capacity_reservation_id values
  Resources,  \* backing resources
  Dims,       \* quantity dimensions
  Claims,     \* [fits, units, start, len, ttl]; 0 is an absent start, len or ttl
  Shapes,     \* declarations of a resource: [cap, enabled]
  Deals,      \* escrow_uid values
  NoDeal,
  HostOf,     \* physical_host_id of each resource
  NoHost,
  ModeOf,     \* allocation_mode of each resource: "exclusive", "shareable", "none"
  Forces,     \* whether operators force-release
  Ends,       \* the ends that truncations ask for
  MaxUnits,   \* the most units of one dimension a claim asks for
  MaxNow,     \* bound on the clock
  Forever     \* later than every instant

ASSUME LedgerAssumption ==
  /\ IsFiniteSet(Ids)
  /\ MaxNow \in Nat \ {0} /\ MaxUnits \in Nat /\ Forever \in Nat /\ MaxNow < Forever
  /\ \A c \in Claims :
       /\ c = [fits |-> c.fits, units |-> c.units, start |-> c.start,
               len |-> c.len, ttl |-> c.ttl]
       /\ c.fits \subseteq Resources
       /\ c.units \in [Dims -> 0 .. MaxUnits]
       /\ c.start \in Nat /\ c.len \in Nat /\ c.ttl \in Nat
       /\ c.start # 0 => c.len # 0
       /\ c.start + c.len < Forever /\ MaxNow + c.len < Forever
  /\ \A s \in Shapes :
       /\ s = [cap |-> s.cap, enabled |-> s.enabled]
       /\ s.cap \in [Dims -> Nat] /\ s.enabled \in BOOLEAN
  /\ Forces \in BOOLEAN
  /\ Ends \subseteq 0 .. Forever

VARIABLES
  rsv,   \* the reservation rows, each with its debit and its fulfillment
  decl,  \* the declaration of each resource
  now

vars == <<rsv, decl, now>>

-----------------------------------------------------------------------------
(* States.                                                                 *)

\* ReservationState, HELD_RESERVATION_STATES, and the lifecycle's own states,
\* whose rows hold their units in every window.
Windowed == {"reserved", "leased"}
Lifecycle == {"releasing", "release_failed", "unmanaged"}
Held == Windowed \cup Lifecycle
GivenBack == {"released", "force_released"}

Init ==
  /\ rsv = [r \in {} |-> 0]
  /\ decl \in [Resources -> Shapes]
  /\ now = 1

-----------------------------------------------------------------------------
(* Accounting, over a table T of reservations.                             *)

\* _windows_overlap
Overlap(f1, t1, f2, t2) == f1 < t2 /\ f2 < t1

\* _reservation_overlaps
Blocks(row, from, to) ==
  row.st \in Lifecycle \/ Overlap(from, to, row.from, row.to)

On(T, res) == {r \in DOMAIN T : T[r].st \in Held /\ T[r].on = res}

\* The rows whose dimensions _held_dimensions accumulates.
Holding(T, res, from, to) == {r \in On(T, res) : Blocks(T[r], from, to)}

\* The sum of what the rows R hold of d, counted unit by unit.
Units(T, R, d) ==
  Cardinality({p \in R \X (1 .. MaxUnits) : p[2] <= T[p[1]].claim.units[d]})

Asked(c) == {d \in Dims : c.units[d] # 0}

\* _has_physical_host_conflict: rows on the same host, unless both share it.
Conflicting(res, other) ==
  /\ HostOf[res] # NoHost /\ HostOf[other] = HostOf[res]
  /\ ModeOf[res] # "none" /\ ModeOf[other] # "none"
  /\ "exclusive" \in {ModeOf[res], ModeOf[other]}

\* Mutant: rows on one resource are judged by their units alone.
HostConflict_OtherResources(T, res, from, to) ==
  \E r \in DOMAIN T : /\ T[r].st \in Held
                      /\ T[r].on # res
                      /\ Conflicting(res, T[r].on)
                      /\ Blocks(T[r], from, to)

HostConflict(T, res, from, to) ==
  \E r \in DOMAIN T : /\ T[r].st \in Held
                      /\ Conflicting(res, T[r].on)
                      /\ Blocks(T[r], from, to)

-----------------------------------------------------------------------------
(* Holds.                                                                  *)

\* Mutant: nothing that was ever assigned is given back.
Permitted_Unassigned(r) == rsv[r].agg \in {"none", "torn_down", "abandoned"}

\* FulfillmentReleaseGuard permits what was never dispatched or is torn down,
\* and abandons an assignment as it permits.
Permitted(r) == rsv[r].agg # "dispatched"

\* Mutant: the guard permits and leaves the assignment standing.
GiveBack_KeepsAssignment(row, st) == [row EXCEPT !.st = st]

GiveBack(row, st) ==
  [row EXCEPT !.st = st, !.agg = IF @ = "assigned" THEN "abandoned" ELSE @]

Due(r) == rsv[r].st = "reserved" /\ rsv[r].hold # 0 /\ rsv[r].hold <= now

\* _expire_stale_holds: a due hold lapses unless the guard refuses it.
Lapsed(r) == Due(r) /\ Permitted(r)

Swept ==
  [r \in DOMAIN rsv |->
     IF Lapsed(r) THEN GiveBack(rsv[r], "released") ELSE rsv[r]]

\* expire_due_holds. A probe, and a reserve that finds the deal's reservation
\* or finds no capacity, changes the ledger in the same way.
ExpireDueHolds ==
  /\ \E r \in DOMAIN rsv : Lapsed(r)
  /\ rsv' = Swept
  /\ UNCHANGED <<decl, now>>

\* _lease_window: a duration without a start begins now.
From(c) == IF c.start = 0 /\ c.len # 0 THEN now ELSE c.start
To(c) == IF c.len = 0 THEN Forever ELSE From(c) + c.len

\* Mutant: a claim is checked against one dimension only.
Room_OneDimension(T, R, c, res) ==
  \E d \in Dims : Units(T, R, d) + c.units[d] <= decl[res].cap[d]

Room(T, R, c, res) ==
  \A d \in Asked(c) : Units(T, R, d) + c.units[d] <= decl[res].cap[d]

\* _find_candidate. Which of several candidates comes first depends on when
\* they were declared; any may.
Candidate(c, res) ==
  /\ decl[res].enabled /\ res \in c.fits
  /\ Room(Swept, Holding(Swept, res, From(c), To(c)), c, res)
  /\ ~HostConflict(Swept, res, From(c), To(c))

\* reserve, for a deal that holds nothing yet.
Reserve(r, c, e) ==
  /\ r \notin DOMAIN rsv
  /\ e # NoDeal => \A q \in DOMAIN rsv : Swept[q].st \in Held => Swept[q].deal # e
  /\ \E res \in Resources :
       /\ Candidate(c, res)
       /\ rsv' = [q \in DOMAIN rsv \cup {r} |->
                    IF q = r
                    THEN [st |-> "reserved", claim |-> c, deal |-> e, on |-> res,
                          from |-> From(c), to |-> To(c),
                          hold |-> IF c.ttl = 0 THEN 0 ELSE now + c.ttl,
                          agg |-> "none"]
                    ELSE Swept[q]]
  /\ UNCHANGED <<decl, now>>

Become(r, row) == rsv' = [rsv EXCEPT ![r] = row] /\ UNCHANGED <<decl, now>>

\* The window a commit leaves. A storefront names the negotiated start, or
\* the instant of the commit; a commit that names no window keeps the recorded
\* start, if there is one, and the recorded end.
LeaseFrom(row) ==
  IF row.claim.start # 0 THEN row.claim.start
  ELSE IF row.claim.len # 0 \/ row.from = 0 THEN now ELSE row.from

LeaseTo(row) == IF row.claim.len = 0 THEN row.to ELSE LeaseFrom(row) + row.claim.len

RecordDeal(r, e) == IF rsv[r].deal = NoDeal THEN e ELSE rsv[r].deal

\* commit of a hold. Neither the hold's time nor the capacity is looked at.
Commit(r, e) ==
  /\ rsv[r].st = "reserved"
  /\ Become(r, [rsv[r] EXCEPT !.st = "leased", !.hold = 0, !.deal = RecordDeal(r, e),
                              !.from = LeaseFrom(rsv[r]),
                              !.to = LeaseTo(rsv[r])])

\* Mutant: a repeated commit writes the window it names.
CommitAgain_Rewindows(r, e) ==
  /\ rsv[r].st = "leased"
  /\ Become(r, [rsv[r] EXCEPT !.deal = RecordDeal(r, e),
                              !.from = LeaseFrom(rsv[r]),
                              !.to = LeaseTo(rsv[r])])

\* A repeated commit only records the deal.
CommitAgain(r, e) ==
  /\ rsv[r].st = "leased"
  /\ Become(r, [rsv[r] EXCEPT !.deal = RecordDeal(r, e)])

-----------------------------------------------------------------------------
(* The end of a lease.                                                     *)

\* release, unforced: an operator's row is left alone, and the guard decides.
Release(r) ==
  /\ rsv[r].st \in Held \ {"unmanaged"}
  /\ Permitted(r)
  /\ Become(r, GiveBack(rsv[r], "released"))

\* A retried release still abandons a stranded assignment.
ReleaseAgain(r) ==
  /\ rsv[r].st \in GivenBack
  /\ Permitted(r)
  /\ Become(r, GiveBack(rsv[r], rsv[r].st))

\* The operator's override: not guarded, and nothing is abandoned.
ForceRelease(r) ==
  /\ Forces
  /\ rsv[r].st \in Held \ {"reserved"}
  /\ Become(r, [rsv[r] EXCEPT !.st = "force_released"])

\* truncate_lease: a lease ends earlier, never later.
TruncateLease(r, end) ==
  /\ rsv[r].st = "leased"
  /\ end <= rsv[r].to
  /\ Become(r, [rsv[r] EXCEPT !.to = end])

BeginReleasing(r) ==
  /\ rsv[r].st \in Windowed \cup {"release_failed"}
  /\ Become(r, [rsv[r] EXCEPT !.st = "releasing"])

RecordReleaseFailed(r) ==
  /\ rsv[r].st \in Windowed \cup {"releasing"}
  /\ Become(r, [rsv[r] EXCEPT !.st = "release_failed"])

RecordUnmanaged(r) ==
  /\ rsv[r].st = "leased"
  /\ Become(r, [rsv[r] EXCEPT !.st = "unmanaged"])

-----------------------------------------------------------------------------
(* Scheduling and fulfillment.                                             *)

\* Mutant: scheduling forgets the claim's attributes.
Eligible_AnyResource(r, res) ==
  /\ decl[res].enabled
  /\ \A d \in Asked(rsv[r].claim) :
       Units(rsv, Holding(rsv, res, now, now + 1), d)
         + (IF res = rsv[r].on THEN 0 ELSE rsv[r].claim.units[d])
         <= decl[res].cap[d]

\* iter_scheduling_candidates_in_session: room and conflicts at this instant,
\* the reservation's own units credited back on the resource it is on.
Eligible(r, res) ==
  LET others == [q \in DOMAIN rsv \ {r} |-> rsv[q]]
  IN  /\ decl[res].enabled /\ res \in rsv[r].claim.fits
      /\ ~HostConflict(others, res, now, now + 1)
      /\ \A d \in Asked(rsv[r].claim) :
           Units(rsv, Holding(rsv, res, now, now + 1), d)
             + (IF res = rsv[r].on THEN 0 ELSE rsv[r].claim.units[d])
             <= decl[res].cap[d]

\* assign_settlement_resource_in_session: a move needs room beside every row
\* of the destination, in whatever window.
Movable(r, res) == res = rsv[r].on \/ Room(rsv, On(rsv, res), rsv[r].claim, res)

\* schedule_resource: any eligible resource may be next in the round.
Schedule(r, res) ==
  /\ rsv[r].st \in Windowed \cup {"unmanaged"}
  /\ rsv[r].hold = 0 \/ rsv[r].hold > now
  /\ rsv[r].agg = "none"
  /\ Eligible(r, res) /\ Movable(r, res)
  /\ Become(r, [rsv[r] EXCEPT !.on = res, !.agg = "assigned"])

\* begin_fulfillment: what the reservation has become is not looked at.
Begin(r) ==
  /\ rsv[r].agg = "assigned"
  /\ Become(r, [rsv[r] EXCEPT !.agg = "dispatched"])

\* The teardown a release asked for is proven.
TornDown(r) ==
  /\ rsv[r].agg = "dispatched"
  /\ rsv[r].st \in {"releasing", "release_failed", "force_released"}
  /\ Become(r, [rsv[r] EXCEPT !.agg = "torn_down"])

-----------------------------------------------------------------------------
(* The environment.                                                        *)

\* A whole new declaration of a resource replaces the old one, even below
\* what is held.
Declare(res, shape) ==
  /\ decl[res] # shape
  /\ decl' = [decl EXCEPT ![res] = shape]
  /\ UNCHANGED <<rsv, now>>

Tick ==
  /\ now < MaxNow
  /\ now' = now + 1
  /\ UNCHANGED <<rsv, decl>>

Next ==
  \/ \E r \in Ids, c \in Claims, e \in Deals \cup {NoDeal} : Reserve(r, c, e)
  \/ \E r \in DOMAIN rsv, e \in Deals \cup {NoDeal} : Commit(r, e) \/ CommitAgain(r, e)
  \/ \E r \in DOMAIN rsv : Release(r) \/ ReleaseAgain(r) \/ ForceRelease(r)
  \/ \E r \in DOMAIN rsv, end \in Ends : TruncateLease(r, end)
  \/ \E r \in DOMAIN rsv :
       BeginReleasing(r) \/ RecordReleaseFailed(r) \/ RecordUnmanaged(r)
  \/ \E r \in DOMAIN rsv, res \in Resources : Schedule(r, res)
  \/ \E r \in DOMAIN rsv : Begin(r) \/ TornDown(r)
  \/ ExpireDueHolds
  \/ \E res \in Resources, shape \in Shapes : Declare(res, shape)
  \/ Tick

Spec == Init /\ [][Next]_vars

\* The watchdog sweeps the holds for as long as the site runs.
FairSpec == Spec /\ WF_vars(ExpireDueHolds)

-----------------------------------------------------------------------------
(* Properties.                                                             *)

Times == 0 .. Forever

Row == [st : Held \cup GivenBack, claim : Claims, deal : Deals \cup {NoDeal},
        on : Resources, from : Times, to : Times, hold : Nat,
        agg : {"none", "assigned", "dispatched", "torn_down", "abandoned"}]

\* The rows, the declarations and the clock hold values of their types; a
\* row's resource is always one its claim admits.
TypeOK ==
  /\ DOMAIN rsv \subseteq Ids
  /\ \A r \in DOMAIN rsv : rsv[r] \in Row /\ rsv[r].on \in rsv[r].claim.fits
  /\ decl \in [Resources -> Shapes]
  /\ now \in 1 .. MaxNow

\* The rows that have the time t on a resource in their window, and all that
\* hold its units at t.
Booked(res, t) == {r \in On(rsv, res) : rsv[r].st \in Windowed
                                        /\ rsv[r].from <= t /\ t < rsv[r].to}
HeldAt(res, t) == Holding(rsv, res, t, t + 1)

\* A commit that comes later than its reservation did moves the end of a
\* window without a negotiated start: the times it adds were never checked.
Extended(r) ==
  /\ r \in DOMAIN rsv
  /\ rsv[r].st = "reserved" /\ rsv'[r].st = "leased"
  /\ rsv'[r].to > rsv[r].to

\* All that is held on a resource at a time fits its declaration, in every
\* dimension that a row of it asks for.
Fits(r, res, t) ==
  \A d \in Asked(rsv[r].claim) : Units(rsv, HeldAt(res, t), d) <= decl[res].cap[d]

\* Nothing but a late commit oversells: whenever any other operation (reserve,
\* a move of schedule_resource, a sweep, a truncation, a timely commit) lets a
\* row come to hold a time, the declaration has room for all that is held then.
OnlyLateCommitOversells ==
  [][\A res \in Resources, t \in Times :
       \A r \in Booked(res, t)' \ Booked(res, t) : Extended(r) \/ Fits(r, res, t)']_vars

\* Two rows have a time in common on a host their resources may not share.
Shares(r, q) ==
  /\ r \in DOMAIN rsv /\ q \in DOMAIN rsv /\ r # q
  /\ rsv[r].st \in Windowed /\ rsv[q].st \in Windowed
  /\ Conflicting(rsv[r].on, rsv[q].on)
  /\ Overlap(rsv[r].from, rsv[r].to, rsv[q].from, rsv[q].to)

\* Scheduling moves a row to another resource beside a row that is not current.
MovedBeside(r, q) ==
  /\ r \in DOMAIN rsv /\ q \in DOMAIN rsv
  /\ rsv'[r].on # rsv[r].on
  /\ ~Overlap(now, now + 1, rsv[q].from, rsv[q].to)

\* A host is never newly shared by a reserve, nor in the present: two rows come
\* to have a time in common on it only when a late commit extends one of them,
\* or when one is moved beside a window that is not current.
HostSharedOnlyAhead ==
  [][\A r, q \in Ids :
       Shares(r, q)' => \/ Shares(r, q)
                        \/ Extended(r) \/ Extended(q)
                        \/ MovedBeside(r, q) \/ MovedBeside(q, r)]_vars

Idle == {"none", "abandoned", "torn_down"}

\* A row given back without an operator's override has no fulfillment that
\* could still be, or become, a running workload.
GivenBackIdle ==
  \A r \in DOMAIN rsv :
    rsv[r].st = "released" => rsv[r].agg \in Idle

\* A row's end is never undone: a lease keeps its start and is not extended,
\* no row becomes a hold or a lease again, an operator's row leaves only by the
\* operator, and one that was given back stays so.
KeepsEnd(r) ==
  /\ rsv[r].st = "leased" => rsv'[r].from = rsv[r].from /\ rsv'[r].to <= rsv[r].to
  /\ rsv[r].st \notin Windowed => rsv'[r].st \notin Windowed
  /\ rsv[r].st = "unmanaged" => rsv'[r].st \in {"unmanaged", "force_released"}
  /\ rsv[r].st \in GivenBack => rsv'[r].st = rsv[r].st

\* A late or repeated commit, a stale failure report and a sweep all leave
\* what the lease lifecycle or an operator has recorded.
LeaseKept == [][\A r \in DOMAIN rsv : KeepsEnd(r)]_vars

\* A hold whose time has passed does not stay: it is committed, released, or
\* its workload is already under way.
HoldsLapse ==
  \A r \in Ids :
    (r \in DOMAIN rsv /\ Due(r))
      ~> (r \in DOMAIN rsv /\ (rsv[r].st # "reserved" \/ rsv[r].agg = "dispatched"))

\* What a hold's window is until it is committed: the negotiated one, one that
\* began when the hold was made, or one without an end.
HoldWindow ==
  \A r \in DOMAIN rsv :
    rsv[r].st = "reserved" =>
      /\ rsv[r].claim.start # 0 =>
           rsv[r].from = rsv[r].claim.start /\ rsv[r].to = rsv[r].claim.start + rsv[r].claim.len
      /\ rsv[r].claim.start = 0 => rsv[r].from <= now
=============================================================================
