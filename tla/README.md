# Verification of the Simple Compute Market

TLA+ models of the parts of the Simple Compute Market that move money and
sell capacity: the settlement journal and the worker that services it, the
publication of a delivery on chain, the site capacity ledger, the provisioning
service from a job on a host to the release of a lease, and a purchase of API
credits with its issuance and refund. TLC checks them on small instances; TLAPS
proves every safety property the passing runs check, for every value of the
constants (some of the journal's for the mechanisms that section 4 names), and
three refinements: of `ReleasePromise`, of `SettlementPromise`, and of the journal by its worker.
Paths below are relative to the repository.

- [1. The system](#1-the-system)
- [2. Modules and the code](#2-modules-and-the-code)
- [3. What the runs check](#3-what-the-runs-check)
- [4. What is proved](#4-what-is-proved)
- [5. Where code and documentation disagree](#5-where-code-and-documentation-disagree)
- [6. What is abstracted or left out](#6-what-is-abstracted-or-left-out)
- [7. Plan](#7-plan)

## 1. The system

A buyer finds a listing in a registry, negotiates with a storefront, pays into
an escrow and gets capacity: a virtual machine, a bare-metal machine or API
credits. The seller's storefront services the settlement until the money is
collected, and a site hands out and takes back the physical capacity.

### Components

| Component | State it keeps | Operations | Hard behaviour | What makes it correct |
|---|---|---|---|---|
| **Settlement journal** (`kit/settlement-runtime`: `runtime.py`, `sqlite_repository.py`) | one obligation row (materialization, condition, collection, reclaim, mechanism status, fulfillment reference) and one operation row per kind, each with a lease | adopt, materialize, reconcile status, fulfill, check, collect, clean up, reclaim, bind a fulfillment | every operation is load, reserve, call the mechanism, finish; other callers run in between; leases expire under a running call; answers get lost | collect and reclaim exclude each other; nothing is recorded that did not happen; nothing recorded is taken back |
| **Servicing worker** (`servicing.py`) | its pass; the schedules in the operation rows | timer pass, immediate pass, schedule, wake, terminal callback | passes overlap; a step fails and is backed off; the row changes between a read and a write | every obligation comes round again; a failed delivery is cleaned up; a service ends only with its settlement |
| **Fulfillment publication** (`alkahest_lifecycle.py`, `fulfillment_publisher.py`) | the receipt of the fulfill row: submission intent, reference, rejection count | deliver, record intent, publish, record reference, bind, finish, park, clear | the chain may accept a submission whose answer is lost; crash at each boundary | what is completed is bound, an outcome stays, and no submission is forgotten while the escrow can be earned |
| **Site capacity ledger** (`kit/site`: `ledger.py`, `db.py`) | reservations with windows and debits, declarations of resources | declare, reserve, commit, release, force-release, truncate, lifecycle transitions, sweep of holds | windows are admitted at one time and written at another; reservations move between resources; commits come late or twice | nothing but a late commit oversells, hosts are not shared in the present, no end undone |
| **Fulfillment scheduler and aggregate** (`kit/fulfillment`) | placement and the settlement record's state, claim and failure reason | schedule, accept, acknowledge, abandon, begin a teardown or a compensation | a release or a lapse lands between assignment and dispatch; a request and several cycles act on one record | nothing starts on capacity that was given back |
| **Fulfillment convergence** (`fulfillment_convergence.py`, `job_fulfillment.py`) | claims on records | the five passes of a cycle, a cycle run by hand | claims lapse, cycles overlap, an outcome is read in one transaction and applied in another | an outcome is applied once, to the state it is about |
| **Provisioning jobs engine** (`compute_provisioning/jobs`) | job rows; a queue in memory | submit, retry sweep, process, report, cancel | a restart empties the queue and leaves executions behind; a cancellation is only a request | one execution per job, and an outcome stays |
| **Lease lifecycle** (`lease_lifecycle.py`, `release.py`) | the lease's state, an outbox of callbacks | terminate, retry, force, hand over, the releasing pass, release, notify | a decision is taken from one read and acted on later; a grace period races a late teardown; a restart between a release and its callback | capacity returns only after proven teardown, and the storefront hears of it |
| **API credits storefront** (`payment_settlement_service.py`, `settlement_stages.py`, `settlement_repository.py`) | evidence, progress, the hold's row, private credentials | settle, reconcile, refund, failure policy | settles overlap without a common lock; a refund races a delivery; answers time out and come late | paid deals end; a refund closes a deal |
| **API credits service** (`keys_service.py`) | keys, grants, quota reservations | issue, replay, revoke, consume | quota and grant are two commits; issuances are retried and served late | quota taken once, grants backed by it |
| **API credits gate** (`apicredits/middleware`) | batches, estimates of balances | charge, flush | a lost answer is queued again | a request charged once |
| **Relay port allocator** | port leases and fences | grant, renew, release | stale holders | one holder per port |
| **Negotiation runtime** | threads of offers | offer, counter, accept | both sides move at once | one agreement, by both |
| **Deal servicing journal** | requests of an active deal | submit, answer, end | retries, ends racing requests | an ended deal accepts nothing |
| **Capacity publication** | listings, event cursor | cycle, publish, close | events out of order with reads | listings follow what can be sold |
| Registry, clients, query language, policy, identity, configuration, delivery sinks, capabilities, Ansible roles, tools | rows or none | CRUD, HTTP, pure functions | none with a protocol | see `PROJECT.json` |

### Interactions

- A storefront's timer (`lifecycle_steps.py`) and its settle request
  (`settlement_service.py`) both run the servicing worker, in bare metal with
  **one worker id**. The VM storefront also runs a manual claim and a reclaim
  from its listing service.
- The worker calls the runtime; the runtime calls a *mechanism* through a port.
  Alkahest (adopts an escrow the buyer created) and contact exchange
  (materializes its own record) implement it.
- The worker's `on_ready` hook (bare metal) is the fulfillment publication; its
  `on_terminal` hook ends the buyer's lease at the site.
- A settlement reserves capacity at the site, commits the hold once paid for,
  has the scheduler place it and the provisioning service start it: a request
  accepts the fulfillment and dispatches its create, and the convergence
  watchdog dispatches what the request left, polls the jobs and applies their
  outcomes. The lease lifecycle gives capacity back through a release guard that
  asks the fulfillment aggregate, and tells the storefront through an outbox.
- A buyer of API credits pays through Arkhai payments. The buyer's settle, the
  status request (which settles) and the reconciliation loop run one code path;
  it verifies the receipt, asks the credits service to issue, and stores the
  credentials. An operator, or the seller's failure policy, refunds.

## 2. Modules and the code

| Module | Models | Composes |
|---|---|---|
| `FulfillmentPublication` | the ready step of one obligation | |
| `SettlementJournal` | the journal of one obligation over any mechanism of the port | implements `SettlementPromise` |
| `SettlementPromise` | abstract: what the runtime promises of an obligation's money | INSTANCE in `SettlementJournal` |
| `SettlementServicing` | the worker's passes, the due list, backoff, the terminal callback | EXTENDS `SettlementJournal`: every runtime call of a pass is a journal operation |
| `SiteLedger` | the ledger, with the placement, acceptance, abandonment and teardown that capacity depends on | |
| `JobEngine` | job rows, the queue in memory and the executions on a host | |
| `FulfillmentConvergence` | the settlement record, the request that begins it, the watchdog's cycles | EXTENDS `JobEngine`: a dispatch is a submission, a status is a row's |
| `LeaseLifecycle` | the lease, its releasers, the release guard and the outbox | EXTENDS `FulfillmentConvergence`, and implements `ReleasePromise` |
| `ReleasePromise` | abstract: what the service promises of released capacity | INSTANCE in `LeaseLifecycle` |
| `CreditDeal` | one purchase of API credits: storefront, credits service, payment | |
| `...Proofs` | theorems about the module of that name | |
| `MC...` | instances for TLC | |

**`FulfillmentPublication`.** `row` is the fulfill row of
`settlement_operations`, `fref` the obligation's `fulfillment_ref`, `pc[c]`
the statement of `ready` a caller is at. `landed` and `submits` are ghosts of
the chain: attestations made, and submissions sent under the recorded intent.
`escrow` is the obligation's `mechanism_status`, ready or ended: a pass enters
the step (`Enter`) only while it is ready and nothing is bound, as `_service`
and `ready` demand, and `EscrowEnds` ends that. `reclaimed` is set by the payer's
reservation and reset when a reclaim fails. Callers have the worker ids the
storefront gives them: the timer's pass and a settle request share one.
One action is one transaction or one chain call, so callers interleave where
the code awaits. A publication has the four outcomes of
`fulfillment_publisher.py`; an unknown outcome may or may not have landed.

**`SettlementJournal`.** `ob` is the obligation row, `op[k]` the operation row
of kind `k`, `call[c]` the operation a caller runs with the *snapshot* it
loaded (`at` is idle, loaded, reserved, answered, read). `Reserve` is
`reserve_settlement_operation` with its exclusion of collect and reclaim, its
live leases and takeovers; `Ask`, `ReadClock` and `Execute` are the mechanism's
call; the `Finish...` actions are `finish_settlement_operation`, fenced by the
owner. `effects` is what the mechanism really did with the money, which no
caller sees. Constants describe the mechanism: what it answers (`Reports`,
`Decisions`), whether it adopts, halts, carries its state, asks for monitoring,
answers a repeated effect.

**`SettlementPromise`.** Three variables: `delivery`, `money`, `book`. The
refinement mapping reads the delivery from `fulfillment_ref` and the check's
row, the money from what the mechanism did, and the book from the obligation's
collection and reclaim columns.

**`SettlementServicing`.** `pass[c]` is where `_service` is; `later` the kinds
whose `next_attempt_unix` lies ahead; `mark` the awaiting-delivery mark;
`ended` whether the terminal callback has ended the buyer's service.
`Schedule` is two steps, `ReadSchedule` and `WriteSchedule`, because
`_schedule` uses two transactions.

**`SiteLedger`.** `rsv` maps a reservation to its row: state, claim, deal,
resource, window, hold deadline, and the state of its fulfillment (`agg`).
`decl` is each resource's declaration and `now` the clock. A claim may name its
start or only a duration, and may fit several resources; ordinary deals name a
duration, and their commit (`LeaseFrom`, `LeaseTo`) then starts at the instant
of the commit, while a commit that names no window keeps what is recorded. An operation of the
ledger runs under its lock in one transaction and is one action, the sweep of
due holds that `reserve` begins with included. Commits and the scheduler's
placement do not sweep; the listings and the probe do nothing else, and are the
action of the sweep itself.

**`JobEngine`.** `job[j]` is the row of the create or the teardown that
`job_contract` gives a reservation: whoever submits it again finds the same
row. `queue` is `AsyncJobQueue`, `runs[j]` the executions of `j` that have not
ended, `watched` those the running process awaits, `present` whether the
workload is on the host. `ProcessJob` and `ReportOutcome` are the two halves of
`process_job` around the executor's call; `RestartEngine` empties what lives in
memory and leaves rows, executions and host alone.

**`FulfillmentConvergence`.** `rec` is the settlement record: state, claim and
failure reason, moved along `_ALLOWED_TRANSITIONS`. `begin` is where
`begin_fulfillment` is (accept, dispatch and acknowledge are two transactions
with a provider call between them), `conv[c]` what cycle `c` claimed and read.
An outcome is applied under `_with_owned_record`, which looks at state and claim
again. A claim lapses with time, so a cycle may claim what another holds.

**`LeaseLifecycle`.** `lease` is the reservation's state in the ledger, `outbox`
its callback, `rel[r]` where a cycle of the timer or an operator's request is
and why. `Decide` is `submit_release`; `SweepReleasing` and `SweepUnreadable`
are the releasing pass, with and without a readable status; `ReserveCallback`, `FinishRelease` and
`Notify` are the three transactions of a release; `Permitted` is
`FulfillmentReleaseGuard`. `Restart` restarts all three components together.

**`ReleasePromise`.** Four variables: `held`, `workload`, `overridden`, `told`.
The refinement mapping is: capacity is held until the lease is released; a
workload is possible from the submission of a create and gone when the record
is torn down; the operator's override is a forced release; the storefront is
told when the callback was acknowledged.

**`CreditDeal`.** `ev`, `prog`, `held` and `cred` are the storefront's rows:
evidence, progress, the hold, the stored secret; `act[p]` is where a settle or a
refund is with what it remembers. `key`, `granted`, `hold` and `fresh` are the
service's: the key, the grant, and the two reservations an issuance may commit.
`svc` is the issuance that has the service's global lock, whose quota and grant
commit apart; `late` are requests whose callers gave up and that may still be
served. A secret is "current" or "stale", since a replay rotates it.

`PROJECT.json` maps every definition to its lines.

## 3. What the runs check

### Passing runs

| Run | Instance | Shows |
|---|---|---|
| `publication` | the timer's pass and a settle request under one worker id, 2 rejections, 2 faults, an escrow that may end, reclaims that may fail | `CompletedMeansBound`, `OutcomeFinal`; with fairness, `SubmissionResolved` |
| `journal_payer` | a servicing worker of the claimant against a payer that reclaims, Alkahest answers | `ReclaimAlone`, `OneInvoker`, `DeliveryNotUndercut`, and `KeepsSettlementPromise`: the journal refines `SettlementPromise` |
| `journal_port` | the rest of the port: a mechanism that creates the escrow, reports collections and reclaims, demands repair, asks for monitoring | `ReclaimAlone`, `JournalTruthful` |
| `servicing` | a bare-metal storefront's timer, 2 process stops | with fairness, `StaysServiced` and `FailedDeliveryCleaned` |
| `servicing_overlap` | the timer and a settle request, both passing under one worker id, no process stops | `CollectedAfterCheck`, `CollectionFinal`, `EndedAtAnEnd` hold where the lease does not keep the passes apart |
| `ledger` | slices and the whole machine of one host, a claim with a duration and no start, one with a window ahead, both movable, and one without an end; shrinking declarations, forced releases | `OnlyLateCommitOversells`, `HostSharedOnlyAhead`, `GivenBackIdle`, `LeaseKept`; with fairness, `HoldsLapse` |
| `provisioning` | two convergence workers and two releasers on one lease, a create that is retried once, cancellations, no restart | `OneExecution`, `OutcomeKept`, `CompensationMarked`, `NothingLeftBehind` |
| `provisioning_recovery` | one cycle, one releaser, a restart, operators that force and take over | `KeepsReleasePromise`; with fairness, `ReleaseSettles` and `CallbackDelivered` |
| `credit_deal` | a buyer's settle, the reconciliation and an operator's refund; quota for two purchases, other buyers, one fault | `QuotaOnce`, `GrantBacked`, `RefundCloses` |
| `credit_recovery` | the reconciliation alone with a refund; quota for one purchase, two faults | with fairness, `DealSettles` and `RefundEnds` |

Each module's type invariant is checked in the first of its runs.

Why the interesting cases happen in these bounds:

- *Two callers* are enough for every race the journal's rows can see: a row
  has one lease, so a third caller is another holder of the same lease. The
  proofs cover any number.
- *Faults and stops* (2) allow a crash, a takeover and a second crash of
  the new holder. `RejectionBound = 2` reaches the bound and the step before.
  `servicing_overlap` has no stops: a stop ends both passes of the one worker
  id, which leaves the timer's instance.
- *Two reservations* are the least that can compete. With two units declared
  and claims of one, a second fits beside the first in one dimension and not in
  the other. The clock runs to 2, so that holds lapse, starts lie ahead, a commit
  comes later than its reservation and ends pass; `Forever` lies beyond every
  sum. Each exception that the two properties on capacity make is reached, as
  leaving it out shows. The instance has no deals (`Deals = {}`), so the deal a
  commit records is not exercised; no property depends on it.
- *Provisioning.* Two cycles and two releasers are what a takeover of a claim
  and a stale decision need; a retry of the create exercises the retry sweep
  and a requeued job, and the teardown's adoption of a failed job needs none.
  The recovery run has one of each, because a restart and operators' overrides
  multiply its states and liveness needs the whole graph. One restart is the
  least that loses a queue, an execution or a release half done; the proofs of
  the safety properties are for any number.
- *Credits.* One fault (a lost call, a time-out, a stop of the service or of the
  storefront) with three overlapping actors, or two with one actor: enough for
  a late issuance beside a refused one, and for a refund whose process stops.
  `Quota = 2` lets a hold and a fresh reservation exist together or compete with
  another buyer, `Quota = 1` lets quota run out.
- No bound is in a property: every bound is a constant in a guard.

The runs set `CHECK_DEADLOCK FALSE` where the system may really stop: an
obligation that has ended, a clock at its bound with nothing left to do, a lease
that was released and told of, a deal that was delivered or refunded.

### The runs that find a violation

`publication_overlap` checks `OneSubmissionPerIntent`: no submission is sent
while an earlier one under the same recorded intent has no recorded outcome. The
timer's pass and a settle request, without any fault, violate it.

`credit_credentials` checks `CredentialsWork`: when a purchase of a new key is
ready and nothing is in flight, the secret that is stored is the one the service
accepts. A settle and the reconciliation, without any fault, violate it.
Section 5 quotes what they contradict.

### Fairness

- `publication`: weak fairness of the timer's entry into the step, which is
  enabled only while the escrow is ready and nothing is bound (the servicing
  loop comes round to such an obligation every interval), of each pass that has
  entered (a process that runs goes on) and of lease expiry (wall-clock time).
  Nothing is assumed of settle requests, of the escrow's end or of reclaims, and
  `SubmissionResolved` promises nothing once the escrow has ended or the payer
  reclaims.
- `servicing`: weak fairness of the timer's start, of every step of a pass, of
  lease expiry and of the backoff's end; the loop in `lifecycle_steps.py` and
  the due list's comparison with the clock provide them. Strong fairness is
  assumed of one thing only, that a domain cleanup that is asked over and over
  succeeds once; without it nobody can promise a reclaim.
- `ledger`: weak fairness of the sweep, which
  `capacity_reservation_watchdog.py` runs in a loop.
- `provisioning_recovery`: `JobFairness` is weak fairness of the engine's sweep,
  of its queue and of the end of an execution, which a timeout bounds.
  `ConvergenceFairness` is weak fairness of the watchdog's cycle and strong
  fairness of a dispatch that is tried over and over. `ReleaseFairness` is weak
  fairness of a releaser's own next step, and strong fairness of the steps that
  may fail and that the timer's cycle repeats: the sweep, the beginning of a
  teardown, the callback's reservation, the release, the drain and an answered
  callback. No fairness is assumed of the executor's success, of a status that cannot be
  read, of requests or of operators.
- `credit_recovery`: weak fairness of the reconciliation loop and of each step of
  a request, and of the service's own steps; strong fairness of the service
  taking a request that waits for its lock. Faults are bounded, so a call that
  is retried is answered in the end.

No fairness is assumed of the mechanism, of commits, of a storefront's own
releases at the ledger or of operators.

## 4. What is proved

TLAPS checks every leaf. The theorems hold for every set of callers, workers,
claims, resources and dimensions that satisfies the named assumptions of the
modules (`CallersAssumption`, `JournalAssumption`, `LedgerAssumption`,
`JobAssumption`, `WorkerAssumption`, `LeaseAssumption`, `CreditAssumption`:
types, and that "none" values are not values).

**`FulfillmentPublicationProofs`.** For any number of callers, whatever worker
ids they share: `TypeCorrect`, `CompletionIsBound` (`CompletedMeansBound`) and
`OutcomeStays` (`OutcomeFinal`). `CompletedMeansBound` is not inductive: a pass
about to finish must know that a reference is bound, and every reference that
anybody holds must be one the chain made. `ReferencesLanded` says both, and needs
that a pass which loaded a reference before its reservation still finds it bound.
`OutcomeFinal` is an action property: an operation that has ended has no owner,
so every write that a late pass attempts finds that it does not hold the row.

**`SettlementJournalProofs`.** For every mechanism of the port: `TypeCorrect`,
`ReclaimExclusive` (`ReclaimAlone`), `CollectionRacesReclaim` (`OneInvoker`),
`JournalTellsTruth` (`JournalTruthful`), `CollectionFollowsCheck`
(`CollectedAfterCheck`) and `HolderDoesNotUndercut`. For a mechanism that, like
Alkahest, leaves it to the journal to record effects: `CollectionStaysRecorded`
(`CollectionFinal`) and the refinement `SettlementPromiseKept`. With one caller
that reclaims: `ReclaimDoesNotUndercut` (`DeliveryNotUndercut`). The invariant
is `TypeOK`, `AnswersFit` (an answer waiting to be written is one its operation
can get; without it a finish could write a status into a decision) and
`ReclaimAlone`, and each theorem adds the part it needs:

- `RowsAgree` for `OneInvoker`: an effect in progress in its row is in progress,
  or already recorded from a report, in the column that the other effect's
  reservation looks at, so the two rows are never in progress together.
- `AnswersTrue` for `JournalTruthful`: a call that was told of an effect was
  told after the effect, and effects are not undone, so that writing it late is
  still writing the truth. This is why lost, repeated and stale answers are
  harmless.
- `CheckedInv` for the check: who collects has a bound delivery and a check row
  that has ended (`CollectsChecked`), so what was paid was paid for a checked
  delivery (`PaidChecked`), and a report of it is one too; ended rows stay
  (`EndedRowsStay`).
- `CollectionRow` for `CollectionFinal`: a recorded collection's row has ended,
  so that no late failure and no new reservation finds a row to write through.
- `ReclaimRow` for the undercut: while the reclaim's row is in progress a
  delivery can no longer be bound.
- `PromiseInv` for the refinement: these, that a check in progress has a bound
  delivery (`ChecksBound`), and `CollectionRow`'s counterpart for the reclaim.

The refinement maps a binding to `BindDelivery`, a check that ended to
`CheckDelivery`, the mechanism's effects to `Pay` and `Refund`, the payer's own
reclaim on chain to `Refund`, a finish that was told of success to `Record`, and
everything else, reservations and takeovers included, to a stutter.

Neither hypothesis can be dropped, as TLC shows. Where the mechanism reports
effects, a status writes `collection_state` or `reclaim_state` while that
effect's own row is still open, and the next reservation of the row sets the
column back to in progress (`CollectionFinal` and `KeepsSettlementPromise` fail
on the instance of `journal_port`); the Alkahest client makes no such reports.
With two reclaimers, one whose lease was taken over and released by the other
still asks the mechanism while a delivery is bound; `HolderDoesNotUndercut` is
what holds then.

**`SettlementServicingProofs`.** `ServicingRunsJournal`: every behaviour of the
worker is a behaviour of the journal, since a pass's runtime calls are the
journal's own steps and its other steps leave the journal alone. With it the
journal's theorems carry over (`ServicedCollectionFollowsCheck`,
`ServicedCollectionStays`, `ServicedPromiseKept`). `ServicingTypeCorrect` needs
`PassesFit` (a pass that runs a call is in that call) and `IdleCalls`. For
domains that adopt escrows and end the service on a loss (`Adopts`, not
`Abandons`: bare metal),
`ServiceEndsAtAnEnd` (`EndedAtAnEnd`) holds for any number of overlapping passes.
The invariant `EndInv` says that a pass about to end the service saw a loss
(`EndsHopeless`), and that a loss is not taken back: the rows that could
overwrite it have ended (`LossFinal`), which needs that adoption comes before
every status (`AdoptedFirst`).

**`SiteLedgerProofs`.** `TypeCorrect`, `LeaseKeptAlways`,
`GivenBackIdleAlways`, `HostSharedOnlyAheadAlways` and `OversoldOnlyLate`, all
for every kind of claim. The properties on capacity are about steps: section 5
has the two steps, a late commit and a move ahead of time, that do what the
documentation excludes, and the theorems say that there is no third. The
strengthening is `HoldWindow`: until it is committed, a hold's window is the
negotiated one, or began when the hold was made, or has no end. With it a step
other than a late commit adds no time to a row's window (`Narrows`), so that a
newly booked time comes from a reserve or a move (`NewRow`, `MovedRow`). Both
check room with `Units`, a cardinality of pairs; `UnitsMonotone`, `UnitsAdd` and
`RoomForOne` turn the check that one more fits into the bound on what is then
held (`NewRowFits`, `MovedRowFits`). For the host, a new row is alone in its
window (`NewRowAlone`), and a moved one is beside rows that are not current
(`MovedBesideLater`). `RowMoves` and `StepMoves` say once, for all single-row
actions, what they cannot do to a row, and serve all the theorems.

**`LeaseLifecycleProofs`.** For any number of overlapping cycles and releasers,
retries and restarts: `TypeCorrect`, `OneExecutionAlways`,
`NothingLeftBehindAlways`, `CompensationMarkedAlways`, `OutcomesNeverChange`,
and `ReleasePromiseKept`: the composition implements `ReleasePromise`. `LeaseInv` has four parts beside the types.

- `JobsSound`: an execution exists only while its row runs or after it was
  cancelled, and the workload is there only where a create may have put it.
  Without it a finished row could have an execution that puts the workload back
  after a teardown.
- `RecordSound`: what the record's state says of the two jobs (an assigned
  record has no create, a torn-down one has a succeeded teardown), and that the
  compensation's reason is there exactly when the create did not succeed.
- `MemorySound`: what a request or a cycle read is still true when it is used.
  This is the part that makes the interleavings harmless: the states it relies
  on are never left (`AdvanceKeeps`), and ended rows never change.
- `LeaseSound`: a released lease's record is abandoned or torn down, both final.

The steps are proved component by component. Engine steps and submissions only
move rows forward (`EngineAdvances`), and rows that move forward contradict
nothing (`AdvanceSound`). A step of the record follows its table
(`RecordAdvance`). A step of the lifecycle is `Lawful`: it releases under
`Permitted`, or by force without touching the record, and tells only of what was
released. The refinement then maps a submission of a create to `Deliver`, an
applied teardown to `ProveGone`, a release to `GiveBack` or `Override`, an
acknowledged callback to `Tell`, and everything else to a stutter. `Deliver`
needs held capacity: a create is not submitted for an abandoned record.

**`CreditDealProofs`.** `TypeCorrect`, `QuotaTakenOnce`, `GrantsStayBacked` and
`RefundClosesDeal`, for every set of settlers and refunders, quota and number of
faults. `CreditInv` adds to the types that

- whoever does not name the hold (the storefront without its row, a request in
  flight, the issuance under the lock) does so only when the hold holds nothing
  or no quota will be taken again (`Gone`, `UnnamedGone`), so that a fresh
  reservation is never made beside it; whoever has a certain answer may drop the
  hold's row (`AnsweredGone`);
- a failure policy about to give the hold back was refused for a lasting reason:
  the hold holds nothing, or the key is revoked and nothing was granted
  (`Barred`, `RefusedBarred`);
- what the issuance under the service's lock has read is still so when it
  commits, and it grants only against a committed reservation
  (`ServiceLocked`).

`RefundClosesDeal` needs only the types: it is an action property of
`claim_delivery_start` and of what an issuance in flight is.

**Only model-checked.** Liveness (`SubmissionResolved`, `StaysServiced`,
`FailedDeliveryCleaned`, `HoldsLapse`, `ReleaseSettles`, `CallbackDelivered`,
`DealSettles`, `RefundEnds`) is out of the prover's reach: it reasons neither
about fairness nor about ENABLED. Every other property of a passing run is
stated by a theorem.

**Alternatives in the models.** A CASE whose guards overlap has no fixed value
in TLA+, although TLC takes the first true guard. Where the code's order
decides, the modules therefore write IF ... ELSE or guards that exclude each
other.

## 5. Where code and documentation disagree

**Found by a run: two settles, one secret.** The buyer's settle takes a lock per
negotiation (`settle_controller.py:89`); the reconciliation loop calls the same
settle without it (`payment_settlement_service.py:135`). When both send the
issuance, the second is a replay of a grant nobody has used yet and rotates the
key's secret (`keys_service.py:314`). `persist_delivery` stores secrets
unconditionally, so the settle that was answered first may store its dead secret
last. The deal is ready and not settled again; the buyer holds a key that does
not verify. `kit/arkhai-payments/.../reconciliation.py:41`: "``settle`` is
idempotent"; `openspec/specs/api-credits/spec.md:93`: "the storefront persists
credentials for buyer retrieval". Run: `credit_credentials`.

**Found by a run: two passes, one worker id.** `sqlite_repository.py:1151`
refuses a live lease only to another owner, and the timer's pass
(`lifecycle_steps.py:288`) and the settle request's (`settlement_service.py:103`)
of a bare-metal storefront present the same one (`runtime.py:383`). Both enter
the fulfill operation and both submit the evidence under one recorded intent.
`servicing.py:73`: "A concurrent pass sees the obligation as busy rather than
servicing it twice"; `openspec/specs/settlement-servicing/spec.md:423`: "MUST NOT
submit again while a recorded intent has no recorded reference". Run:
`publication_overlap`. What still holds then is what `publication` checks: a
completed operation has bound a reference that exists, and a recorded outcome is
not changed by the pass that comes late.

**Met while modelling.** In 1 the passing run has other constants; 2 to 5 are
named exceptions of the properties, and taking the exception out makes TLC find
the case. No property states 6 and 7 as correct.

1. *Schedule against claim.* `_schedule` reads and writes in two transactions. A
   manual claim in between makes the write raise `KeyError`, which is reported
   as terminal and truncates the VM lease. `settlement_composition.py:697`:
   "Only uncollected terminal obligations abandon VM capacity service."
   `servicing` with `VmDuties`, checked for `EndedAtAnEnd`.
2. *A late commit.* A deal reserves a duration without a start (bare metal
   `fulfillment_service.py:279`, `vm_fulfillment_service.py:288`), and
   `ledger.py:1611` writes the window computed at commit without a check of
   capacity, so that a commit later than its reservation books times that others
   may hold. `openspec/specs/site-capacity/spec.md:261` asks for accounting "kept
   exact under concurrent holds". It is the exception `Extended` of
   `OnlyLateCommitOversells`.
3. *A move that looks at now.* `ledger.py:1525` looks for host conflicts in the
   current instant and moves a reservation for a later one.
   `site-capacity/spec.md:248`: allocations "MUST conflict according to
   allocation mode before executor work starts". It is the exception
   `MovedBeside` of `HostSharedOnlyAhead`.
4. *Jobs lost with the process.* The queue lives in memory and nothing reads
   queued or running rows back at a start. `openspec/specs/
   physical-provisioning/spec.md:2228` says that periodic recovery resumes the
   lifecycle. `ReleaseSettles` has the exception by name (`Lost`): without it,
   a create lost before it ended holds its release up for ever.
5. *A refund that cannot end.* A refund whose process stopped after its intent,
   and whose payment matured meanwhile, stays refunding:
   `abandon_refund_intent` restores only what the same call found verified.
   `payment_settlement_service.py:395` calls the completion "safe to repeat
   after a crash". `DealSettles` and `RefundEnds` except it.
6. *Paid service ended.* `servicing.py:202` looks at the polled status before the
   collection. With two passes of one worker id, a poll answered before the other
   pass collected ends the service that was just paid for; under the VM rule of
   what ends a service (`Abandons = TRUE`, `VmDuties`) a collection whose answer
   was lost does the same. Bare metal's `alkahest_lifecycle.py:198`: "a collected
   one was paid for". `EndedAtAnEnd` promises less, that the settlement has an
   end, and is checked with overlapping passes for the bare-metal rule.
7. *A teardown that cannot be retried.* `fulfillment_convergence.py:243` calls
   `teardown_failed` "not terminal -- recovery may retry teardown" and requeues
   it, and `release.py:319` lets an operator's retry adopt the teardown again.
   But `job_contract` (`job_fulfillment.py:182`) gives an operation one
   idempotency key, so the dispatch finds the job that failed, whose outcome does
   not change (`OutcomeKept`), and fails again. The release ends as
   `release_failed`, which `ReleaseSettles` counts as an end, and the capacity
   comes back only by an operator's override.

Related behaviour is listed under the hazards with a note, and has no run:

- a status poll loaded before a park overwrites the parked reason;
- a workload that runs past its window has its units sold again before its
  lease is releasing;
- a create cancelled while it runs is only asked to stop, and may put the
  workload on the host after a compensating teardown: `NothingLeftBehind`
  excepts it;
- a slow settle of API credits writes provisioning or failed over a deal that
  another settle made ready; the run of `DealSettles` has one settler, so no run
  shows that such a deal ends again;
- the gate of the API credits middleware queues a batch again, under new
  idempotency keys, when its answer was lost.

Known and smaller: the arbitration requests that Alkahest keeps in
`mechanism_state` are replaced by every finish (`claim_hooks.py:359`); a
collection left in progress by a claimant that never returns keeps the payer
from reclaiming (`sqlite_repository.py:1104`); an obligation that stays pending
and has no fulfillment is never due (`sqlite_repository.py:1675`); a listing's
claim and reclaim requests write the listing's state also from a busy outcome
(`listing_service.py:1136`).

## 6. What is abstracted or left out

- *Journal.* Receipts, error texts and the request hash (a request that differs
  from the first is refused and writes nothing). A reference is there or not.
  `mechanism_state` is one bit, whether it carries a parked reason; the
  arbitration requests Alkahest keeps in it are not modelled.
  `bind_mechanism_params` has no caller. A crash loses the call, whose effect
  has happened or not by then: a transaction that lands on chain after its
  sender's crash or timeout is not modelled. One obligation is modelled;
  obligations share no rows.
- *Publication.* The evidence is recorded once and reused, so a submission is a
  Boolean; the rejection count stops at its bound, where the code parks.
- *Ledger.* A claim's attributes are the set of resources that satisfy them;
  the round-robin choice is any eligible resource; a host's mode is a constant
  of the resource. "dispatched" stands for the aggregate's states from
  `dispatch_pending` until a teardown is proven. A reserve or probe that is
  refused changes nothing but the sweep. `resize_reservation` (no caller outside
  tests), `activate_lease` and the job handles (no accounting), pools and the
  event feeds are left out. The ledger's lock makes an operation atomic; two
  site processes over one database are not modelled.
- *Provisioning.* One reservation with one fulfillment; two reservations share
  only the worker, and the ledger that `SiteLedger` models. A cycle takes the
  pass its record's state calls for, which is any order of the five passes. An
  executor is external: it may act at any moment it runs, report failure at any
  time, and report success only when the host agrees. `reconcile_lease_targets`
  repairs old rows, and the event feeds and the report of a lease's end write no
  state of these components. The handle that a release is failed or finished
  under is not compared: `begin_releasing` always records it, a report that names
  it matches, and one that names none is accepted (`ledger.py:2032`). A create
  that reports success without usable evidence of delivery counts as failed. The
  failed record without a compensating teardown
  (`fulfillment_convergence.py:448`) is left out, because the provider reads the
  same metadata before it answers a status, and answers unknown where it is
  unusable.
- *Credits.* One purchase; others are the quota they hold. Amounts, balances,
  owner checks, `adjust` and consumption by idempotency key are left out, since
  no step of the protocol depends on them: the first consumption is there,
  because it ends the rotation of the secret. The payment service is external:
  a payment is held, matured or reversed, and the receipt's and the deposit's
  answers of unavailability are faults. A receipt that never verifies, and stored
  evidence that does not prove the Agreement, are refused for good before any of
  the modelled state is written, and are left out. The Alkahest stage of this storefront
  is serviced by the settlement journal.
- *Share of the code.* The repository has some 230 000 lines, most of them
  migrations, typed clients, schemas, command lines, routes, playbooks and
  storefronts assembled from one kit. The modules model the
  parts of that kit and of the services that run the protocols, so that a low
  share of lines is the expected result.
- *Components not modelled*, with the reason for each, are in `PROJECT.json`:
  typed clients and sinks (pure I/O), schemas, predicates and prices (pure
  functions, some over decimals), identity (cryptography), configuration.

## 7. Plan

Built, in this order: publication, journal, servicing, ledger; then the
provisioning composition with its refinement, and the credits purchase; then the
proofs of the journal's and the worker's properties and the refinement of
`SettlementPromise`. What is left, in the order of what can go wrong for a buyer
or a seller:

1. `CreditGate`: batches, estimates and lost answers, over an abstract balance
   that charges a request once.
2. An abstract `Purchase` (delivered or refunded, credits granted once) that
   `CreditDeal` refines, proved from `CreditInv`.
3. An abstract `Publication` (unpublished, bound, parked) that
   `FulfillmentPublication` refines for callers that share a worker id.
4. `Negotiation` and `DealServicing`: alternating offers, one agreement; the
   request journal of an active deal and its end.
5. `RelayPorts`: one holder of a port through renewals and stale fences.
6. `CapacityPublication`: the cycle against the event feed.
