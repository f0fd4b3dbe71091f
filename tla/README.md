# service-fintech: specifications

TLA+ modules for the money-moving core of this repository, the TLC runs that
check them on small instances, and TLAPS proofs of what holds for every
instance. `PROJECT.json` maps each definition to the lines it models.

## 1. The system

Go services (`apps/*`), each with its own PostgreSQL schema, speaking Connect
RPC; a platform scheduler (trustage, `products/*/workflows`) calls each
service's job RPC. Every service may run on any number of replicas, so the
database row is the only thing calls share.

| Component | State it keeps | Operations | Talks to |
|---|---|---|---|
| limits: reservations (`apps/limits`) | `limits_reservations`, `limits_ledger`, advisory locks | Reserve, Commit, Release, Reverse, Check, TTL reaper, archival | every gated service, through `pkg/limits/gate.go` |
| limits: approvals | `limits_approval_requests`, decisions | Decide, List, Get, approval reaper | approvers; reservations |
| limits: policies | `limits_policies`, versions, in-memory cache | save, delete, invalidate, broadcast | reservations (candidate set) |
| limits gate (`pkg/limits`) | none (one key per operation) | Reserve, then the handler, then Commit or Release | operations, loans, savings, funding |
| operations: transfer orders | `transfer_orders` | Save, Execute, RecordFailure, ReconcilePayout, NotifyOriginator | ledger service, payment service, gate |
| operations: payment routing | `incoming_payments`, `obligations` | identify, assign, allocate, apply suspense, settle job | transfer orders, loans, savings, funding |
| loans | requests, accounts, schedules, balances, disbursements, repayments, penalties | save, approve, create, disburse, repay, penalise, write off, cancel, jobs | gate, operations, funding, notifications |
| funding | investor accounts, capital movements, allocation claims, fundings with their tranches, distributions, losses | allocate, release, deposit, withdraw, distribute, absorb, recover | operations, savings, loans |
| savings | accounts, balances, deposits, withdrawals, accruals | deposit, request/approve/cancel withdrawal, freeze, close, accrue | gate, operations |
| identity | organisations, workforce, clients, client data, approval cases | records with review and maker-checker | login, notifications |
| stawi | groups, periods, obligations, loan offers | close period, generate, originate, expire offers | loans, operations |
| seed | credit profiles, loan slots, USSD sessions | request, disburse, paid-off, reconcile | loans, identity |
| shared packages, products, API, SDKs, UI | none of the domain | clients, audit, interest arithmetic, generated code | |

**How money moves.** A payout (disbursement, withdrawal, investor withdrawal) is
a row of its service, a transfer order at operations, a ledger leg and a payment
on the rail; its failure may be told long after it was answered. A receipt is an
incoming payment, identified, allocated by orders, and delivered to loans,
savings or funding under a reference. A loan reserves investor capital before
its account exists, and shares every repayment and loss over its tranches.

**What is hard here.** Nothing serialises two calls but row guards, advisory
locks, leases and conditional updates. Reserve is a READ COMMITTED transaction
whose statements see different snapshots; row locks are taken in different
orders by different transactions. A lease (allocation of a loan or of a payment,
a repayment) is taken over by age, so its first holder may still run. A ledger
or rail call may land although its answer is lost; the payment service does not
dedupe. A row is read, another service called, and the row then changed; some
saves carry the whole row as it was read to an event. A scheduled pass lists
first and acts later; archival deletes what idempotency relies on.
`PROJECT.json` lists each of these under `hazards` at its line.

**What makes each part correct.**

- *Reservations*: holds granted under an enforced rolling cap never exceed it;
  one idempotency key, one reservation; what is granted was judged by every
  enforced policy; every Reserve is answered and every lapsed hold ends.
- *Approvals*: a hold is usable only after every request on it has its quorum;
  a refusal releases the hold; a settled request stays settled; a late one is
  settled.
- *Payout orders*: the rail is handed the money at most once, after the ledger
  leg; the books are put back only for money that never arrives; the recorded
  outcome is the rail's; a hold is committed only for a completed order.
- *Savings*: the balance row is the sum of the movements; nothing is settled that
  operations has not booked; interest is that of the day's closing balance.
- *Funding*: a reservation is the capital of active tranches; a complete claim is
  a funded loan; each repayment, loss and recovery is shared once and whole; an
  investor's capital is accounted for to the unit.
- *Payment routing*: no outage changes whose a payment is; an obligation is paid
  once; a payment spends no more than came in, except in the ways section 6 names;
  no remainder is lost.
- *Loans*: one payment per loan; capital given back only for a loan that is not
  paid; no account without capital; a repayment is allocated and applied once;
  the status never runs ahead of the ledger and keeps to its transitions.
- *Identity, stawi, seed* (not modelled): a case is decided once; an offer
  originates one loan; a client holds one loan slot.

## 2. Modules

| Module | Models | State and actions |
|---|---|---|
| `ReservationLifecycle` | the promise: statuses of a reservation and whether its entries count | `status`, `counted`; Open, Activate, Commit, Release, Expire, Reverse, Archive, ArchiveEntries |
| `LimitsReservation` | `reservation.go`, `evaluator.go`, `advisory_lock.go`, `reaper_reservation.go`, `archival.go` and their repositories | `resv` and `ledger` are the two tables, `pc`/`tx`/`reply` a Reserve in flight, `lock` the advisory locks, `reaping` a listed batch. `breakers` is a history variable: the Commits that fell between two sums or hit a lapsed hold |
| `LimitsApproval` | `approval.go`, `reaper_approval.go`, `approval_repo.go` and the Release cascade | `req`, `votes`, `hold` the rows, `row` the row locks, `at`/`job` the transactions; deadlocks and lost transactions are actions |
| `Payout` | the promise of a payout order | `book` (the ledger), `cash` (the rail); Post, Send, Settle, Reverse |
| `TransferOrder` | `transfer_order.go`, `payout_recipient.go`, `payout_reconcile.go`, `transfer_order_repo.go`, and `pkg/limits/gate.go` around Execute | `row` is `transfer_orders` (the payout and its reversal), `booked` the ledger, `rail` the payments, `hold` the reservation, `job` the calls under way |
| `PayoutOrder` | what a service that pays out sees of its order | the answers `PayoutAnswers` allows from "none", "sent", "paid", "failed" |
| `Savings` | `deposit.go`, `withdrawal.go`, `interest_accrual.go`, `savings_account.go`, `jobs.go` and repositories | `dep`, `wdr`, `interest` the rows, `bal`, `res` the balance row, `order`, `posted`, `told` what operations knows, `saves` the account events under way |
| `FundingAllocation` | `funding_allocation.go`, `loan_funding_repo.go`, `allocation_claim_repo.go`, `calculation/funding.go` | `claim` with its lease, `funding` (a funding and its tranche), `reserved` the investor rows. `given`, `unseen`, `overtaken`, `robbed`, `broken` are history |
| `InvestorCapital` | `investor_account.go`, `repayment_distribution.go`, `loss_recovery.go` and repositories | `tranche`, `applied`, `share` the distribution, `avail`, `res`, `move` the capital, `posted`, `order` at operations, `save` the account events under way |
| `PaymentIdentification` | the identification strategies of `payment_routing.go`, `borrower_*_routing.go`, `investor_deposit_routing.go`, `lookup_errors.go` | `reg` the peers' records, `down` the peers that are out, `next` the strategy asked |
| `PaymentAllocation` | `payment_routing.go`, `member_suspense.go`, `payment_suspense.go`, `operations_jobs.go` and repositories | `row` with its lease, `owed`, `order`, `landing`, `run`. `exceeded`, `overrun`, `torn` are history |
| `LoanRepayment` | `repayment.go`, `repayment_apply.go`, `penalty.go`, `delinquency.go`, `funding_settlement.go`, the write-off | `status`, `lock`, `row`, `paid`, `bal`, `pen` the tables (`row` says whether it is settled with a share or a note), `posted`, `woff`, `shares` what operations and funding know |
| `LoanOrigination` | `loan_request.go`, `loan_account.go`, `disbursement.go`, `payout_failed.go`, `upsert.go` | `req`, `claimant`, `acct`, `opened`, `fund`, `disb` the tables, `order`, `told` at operations. `overlap` is history |
| `MC*` | small instances | amounts, policies, registries, symmetry |
| `Sums` | what a SUM over rows and a loop over allocations add up to | `Total(f, S)`, used by the modules about money |
| `*_proofs` | theorems about the module of that name; `LimitsReservation_proofs` is about `LimitsApproval` and `Savings` too, `PaymentRouting_proofs` about `PaymentIdentification` and `PaymentAllocation`, `Sums_proofs` holds the lemmas on sums | |

**Composition.** `LimitsReservation` and `LimitsApproval` both implement
`ReservationLifecycle` (`FollowsLifecycle`, `HoldFollowsLifecycle`): either may move the reservation,
neither in a way the lifecycle forbids. `TransferOrder` implements `Payout`
(`KeepsContract`) and meets the limits service at the reservation's status,
`hold`. The services that pay out do not carry a transfer order of their own:
`Savings`, `InvestorCapital` and `LoanOrigination` take every answer that
`PayoutOrder` allows, which is what is left of `Payout` for a caller: an order
may be sent and the answer lost, it fails at any time after it was sent, and
once failed it never pays. Calls from loans to funding are steps of the caller
(`FundLoan`, `FundingRelease`), and deliveries from loans to funding are
repeated and unordered in `InvestorCapital`.

**Grain of atomicity.** A statement, or an RPC, that other calls can interleave
with is a step of its own. In Reserve the lookup, each lock, each of the two
sums of each policy and the insert are steps. In approvals a transaction takes
its row locks one by one and shows its writes at COMMIT. In a payout every
repository update and every call to the ledger, the rail or the limits service
is a step. In the other modules a transaction that guards its update on the row
(`ClaimStatus`, `SettleWithdrawal`, `ConsumeObligationForOrder`...) is one step,
and a call is cut wherever it leaves a transaction or calls another service:
there it may die, fail, be overtaken, or find what it read changed. Reads that
a later guarded update repeats are part of the update.

## 3. Runs

| Run | Question | Bounds |
|---|---|---|
| `limits_race` | Do concurrent Reserves, Commits, Releases, Reverses, the reaper and archival keep holds under the caps, one reservation per key, and do all end? | 2 calls, 6 policies of every kind and mode on 2 subjects, 3 rows, clock 0..2, fairness |
| `approval_race` | Three decisions on two requests, a Release, the reaper: nothing usable before every quorum, refusal releases, verdicts stand, lifecycle | 3 users of whom one is the maker, quorums 2 and 1, one lost transaction |
| `approval_live` | Is a late request settled although locks are taken in opposite orders? | 2 decisions, one Release, one reaper, one lost transaction, fairness |
| `payout_race` | Done means sent, the outcome is the rail's, a committed hold means done, `Payout` implemented | 2 calls at a time of any kind, one crash or failed statement, 2 payments, clock 0..2 |
| `savings_race` | Do the balance row, the rows and operations agree, and is interest due? | 2 calls, a deposit, 2 withdrawals, one day, one account event, one fault |
| `funding_race` | Reservations are active tranches, complete claims are funded, nothing is left behind | 3 calls on one request, 2 sources, 2 attempts, one fault; any lease may lapse |
| `capital_race` | Shared once and whole, capital accounted for, rows tell the money | 2 loan calls and 1 movement call, 2 tranches, a repayment, the loss, 2 recoveries, a deposit and a withdrawal, one fault |
| `capital_saves` | (violation) does a profile save keep off the balances? | one save |
| `identify_race` | Does an outage ever change whose a payment is? | every registry of two people, two groups, two loans; at most 2 peers out at a time |
| `routing_race` | Obligations paid once, payments not overspent, remainders kept | 2 runs, 2 payments, 2 obligations of which one is raised late, one fault, one outlived lease |
| `loans_race` | Repayments allocated and applied once, status after the ledger, transitions kept | 2 calls, 2 payments of different size, 2 installments, a penalty, one fault, one outlived lease |
| `origination_race` | One payment, capital behind it, rows tell the money | 2 calls, 2 disbursement keys, one stale save, 2 faults |

**Why the bounds are enough.** Two calls are what a race needs, and a fault or a
lapse on top is what leaves one of them half way for the other to resume;
funding takes three, since the call that is robbed, the one that takes over and
one that cancels are different. Two obligations, two tranches, two installments
are what an order of priority and a remainder need; two subjects are what a
lock cycle needs; two requests are what a quorum on each side of a skew needs.
Amounts are chosen so that sums meet at the boundary (a payment one unit short
of what is owed, a reservation that fits once). Each property was seen to fail
in its run when the code it guards is changed in one plausible way (`mutants` in
`PROJECT.json`; the changed forms stand before the definitions they change), so
the bounds reach the case. Symmetry permutes calls, runs and keys of equal
amount only, and no liveness run uses it.

**Deadlock.** Runs say `CHECK_DEADLOCK FALSE` where the instance ends by itself:
calls or keys are issued once, the clock, the days and the faults are bounded.
`payout_race`, where a caller may always try again, and `identify_race`, where
payments keep coming, are checked for deadlock.

## 4. Fairness and assumptions

- `LimitsReservation.FairSpec`: weak fairness of a started Reserve (its handler
  goroutine runs on; a statement is not refused for ever) and of the two steps
  of the reaper, which the scheduler calls periodically (`jobs.go`). Nobody has
  to start a Reserve, commit or release one.
- `LimitsApproval.ApprovalFairSpec`: strong fairness of started transactions and of the
  reaper, because PostgreSQL queues the waiters of a row and so serves each in
  turn, and weak fairness of its deadlock detector. Nobody has to call Decide
  or Release.
- The other modules state safety only. Their progress depends on callers that
  retry and on jobs, and several ends the code can reach have no retry (see
  section 6), so liveness would be false or hollow.
- `TransferOrder` rests on one timing assumption, `WithinGrace`, which is what
  `payoutConfirmationGrace` (ten minutes) is for: an execution uses the payout
  claim it holds, the payment service shows a payment it was handed, and a
  lookup that met a young claim is over, all before that claim is a grace old.
- Some properties of the newer modules speak only of what ran one at a time, and
  a history variable says so: `overlap` (two attempts on one disbursement key,
  two cancels of one loan), `lapses` and `overrun` (a run that outlives its
  lease), `robbed` and `exceeded`, `given` and `overtaken` (a run a release has read
  some of, and one whose complete claim a release dropped without having read all
  of it), `torn` (an order a run stopped at, or could not park). The runs do reach those states; the code has
  no guard there, and section 6 says what happens. In `InvestorCapital` it is a
  condition on the state, `OneAttempt` (attempts on one withdrawal), which the
  run keeps with its one movement call and the theorems take as a hypothesis.
- The ledger dedupes on the transfer order id, the payment service does not
  dedupe on the reference; both are said in `transfer_order.go` and neither is
  in this repository.

## 5. Proofs

`LimitsReservation_proofs` (for every set of calls, keys, policies, intents):

- `TypeCorrect`. `TypeOK` alone is not inductive: a Reserve step reads its
  transaction record, so `TxInv` says what the record holds at each `pc`.
- `HoldsNeverExceedCap`. The induction needs to know what a Reserve in the
  middle of its evaluation has seen. `HoldsRoom` says that a call that judged a
  hard cap favourably still has the room it saw, as long as it holds the cap's
  advisory lock; `OneAtATime` is the lock's exclusion; `Measure*`/`CountWith*`
  are the lemmas on sums (as cardinalities of sets of units), and `HoldsShrink`
  says that every other step only frees space. `Frame` is `TypeOK`, `TxInv` and
  `RowInv` (what each row was judged by).
- `OnlyCommitPassesCap`. `UsageInv` adds `UsageRoom` and `BaseCovers`: until a
  Commit breaks it, the ledger sum a call has read still covers what the ledger
  holds; `breakers` records the Commits that do.
- `ReservationsFollowLifecycle`: refinement of `ReservationLifecycle`.

Also there: `KeysNameOneReservation` (rows keep their key,
stored rows have distinct keys, and an answer names a row of its key: `KeyInv`)
and `GrantsAreJudged` (a call in flight has the verdicts on its per-transaction
limits from the start and only gains others: `VerdictInv`).

Second part (`LimitsApproval`, for every set of requests, users, quorums, replicas):
`ApprovalTypeCorrect`, `UsableHoldsAreApproved`, `RefusalsRelease`,
`SettledRequestsStand`, `ApprovalFollowsLifecycle`. The inductive invariant is
`IInv == Types /\ Locks /\ Facts`: *Locks* ties each transaction's position to
the rows it has locked and to the request being still pending under it, *Facts*
says that votes are sound, that nothing happened before the reservation was
written, that a usable hold has every request approved, and that refusals
release. The safety properties are not inductive without *Locks*, since a
decision acts on what it read several steps earlier.

Third part (`Savings`, for every set of deposits and withdrawals and their amounts,
attempts under way, rate, number of days and failures): `TheBalanceFollows`,
`NothingUnbookedSettles`, `InterestIsPaid`. The proof has two layers. `BooksInv` is
inductive by itself: the balance row is the sum of the rows (`FundsAddUp`), what is
settled is booked, and an attempt between two transactions relies only on what no
other attempt takes back (`AttemptSound`: past the ledger its key is posted, past the
payout its order is there). The repositories change the balance in the transaction
that turns the row, guarded on the row's status, so each such step is one of a few
turns of a row (`RowTurns`, with one lemma on the sums, `RowsTurn`). `EarnsInv` rests
on it: a completed withdrawal is dated when it completed, no later than today, and a
reversal keeps that date (`RowsDated`), so no later step changes the closing balance of
a day that has ended (`ClosingStays`), whatever is deposited, paid or reversed since; and where no reversal makes `BalanceAt` wrong (`Reliable`),
what it computes backwards from the balance row is that closing balance
(`BalanceIsClosing`), provided the days before are settled or earn nothing
(`Passed`, what `CursorSound` says of the days behind the cursor). The run has one
day; that days catch up on one another is in the theorem only.

`TransferOrder_proofs` (for every set of jobs and all bounds): `TypeCorrect`,
`DoneIsSent` and `CommittedIsDone`. `DoneMeansSent` is not inductive: Complete
sets the state from where the job stands, not from what it reads. `JobSound`
says what each position relies on (a job past the ledger leg has its order
marked posted, one past a payment has a payment landed, one about to commit the
hold has seen the order done), `RowsSound` that a posted row is in the books;
`Grows` is what no step takes back, so that a job that does not move keeps what
it relies on. A failed statement or a crash goes through the same lemmas.

Also there: `RailSaysTheOutcome` and
`TransferOrderKeepsContract`, the refinement of `Payout`. The argument is about
ages. `PInv` adds to `IInv`: `OneSender` (one job holds the payout claim);
`RailSound` (one payment at most, handed over under the claim on the row, still
unseen only while that claim is younger than the grace; a failed status means
whatever was sent failed; no reversal in the books unless the payout failed) and
`PaySound`, what a job relies on: a sender holds a young claim under which nothing
was sent or failed, and a job about to take a claim over has looked when the
claim was already old, so if the row still carries that claim nothing was sent
under it. `WithinGrace`, the guard of `Tick`, is what makes the ages hold; a
grace of zero would not do, hence `Grace \in Nat \ {0}`. Most steps leave claim,
status and rail alone (`Calm`, `CalmMove`); five lemmas cover the ones that do not
(`ClaimStamped`, `PaymentLands`, `FailureWritten`, `ConfirmedPay`, `RailPay`).

`LoanOrigination_proofs` (for every set of keys and calls and all bounds):
`OriginationTypeCorrect`, `OriginationPaysOnce`, `OriginationReleasesUnpaid`,
`OriginationRowsTellTheMoney`, `OriginationIsFunded`. None of the four is
inductive, since each step acts on what its call read before. The invariant
`IInv` adds, beside types: `Keyed` (a call at a disbursement has its key);
`Funded` (no account row before its allocation); `SoleCancel` (a cancel that runs
by itself has found or made the loan closed where it releases); `RowFirst` (no
order before its row); `SoleAttempt` (an attempt is alone with its key, its row
is still PROCESSING where it drives it, one row is live, and money is out for
it only); and `NothingUnderway` (once a cancel goes on to release, a live row has
no order and belongs to an attempt that has yet to look at the loan, which it
will find closed). The proof has two kinds of steps: *quiet* ones, which touch no
row and no order (`QuietSteps`), and the five that drive a disbursement, which
move their own row only (`DriveSteps`, `DriveEffects`); what each conjunct needs
is proved once per kind.

`FundingAllocation_proofs` (for every set of requests, calls, sources, amounts,
attempts and faults): `InvestorsNotOverlent` and `CapitalIsAnsweredFor`, that is
`Spec => []NothingIsLeftBehind`. That property looks at calls that are over; the
invariant says what a call answers for wherever it is (`Answers`: nothing, the run
of its attempt, or what is left on its todo list), that a complete claim is that
of a call which writes no more (`Completed`), and, of each of any number of releases
under way, that it has in hand all that is tied up for the request but for what a
fault left and the runs that wrote since it read (`Released`, with `unseen`). The last
is why a release that drops a complete claim leaves capital behind only for a run it
did not read in full, which is then in `overtaken`. Steps that touch no funding share
`Settle`, the three that do share `Shift`.

`CapitalIsCounted` and `CompleteClaimsStand` need `FundsInv` beside it. That an
account holds what its active tranches lend (`Counted`) is kept by each statement
only because a row that is written over held nothing (`Blank`). That a complete
claim is funded is settled long before it is complete: what the holder of a claim
has written, with what its plan still lists, is the loan (`Covers`); what it has is
of this attempt and no longer in the plan (`Tidy`), at most the tranche it stands
at waits for its capital (`Activated`), and the calls that void leftovers or a
cancelled loan list the fundings of others (`Listed`), those of a release only once
the runs they are of are in `given` (`Begun`). Each step either writes one
tranche, moves one to active, or blanks one, and the three have a lemma each.

`PaymentRouting_proofs`, first part (`PaymentIdentification`, for every content of the
peers, every payment and any number of services out): `OutagesOnlyDelay`, that is
`IdSpec => []OutageNeverMisroutes`. Each strategy either meets the outage or answers
what it would with everything up (`ClientSound`, `AccountSound`, `InvestorSound`,
`MemberSound`, from lemmas on `Ask` and `Else`; `Walk` collects them by position). The
invariant adds what the walk remembers: every strategy behind it finds nobody, and
would with everything up (`Passed`), so the next match is the first match
(`TruthFound`).

Second part (`PaymentAllocation`, for every set of payments and obligations, amounts,
runs, lapses and faults): `ObligationsArePaidOnce`, `PaymentsAreNotOverspent`,
`NoMoneyIsStranded`. None of the three is inductive: a run carries what is left
through steps that other runs of the payment, on a resumed order, also spend.
`AllocInv` says of every run what it has seen of the obligations (`RunSound`: each
was at least that high and has only gone down), and of a payment none of whose
runs outlived its lease that one run holds it (`RunKept`), that what the run has
left and what was spent make the payment (at most, for overspending, unless an
order was finished at more than was left; at least, for stranding), and that an
order raised and not yet consumed takes all that the obligation can still use of
what is unspent (`PaymentKept`), which is why a remainder computed past it strands
nothing. What leaves suspense is counted apart from what obligations lost: `HeldInv`,
the theorem `OrdersAreHeld`, says that an order neither debited nor parked has a run at
it or was left by one (`OrdersHeld`, with `torn`), and that what a run posts itself was
debited (`DoneTook`), so that where nothing is torn the posted orders are among the
consumed ones.

`LoanRepayment_proofs` (for every schedule, penalty, set of payments, number of
calls, lapses and faults): `RepaymentsAreAppliedOnce`, `NothingIsAllocatedTwice`,
`TheBooksFollow`, `StatusMoves`. `LoanInv` says what a call relies on at each step
(`CallSound`: the row it is at is recorded, booked, applied), that installments and
balance are the sums of the applied rows (`PaidSums`), and, while no repayment has
outlived its lease, that whoever works on a row holds the lease and that nothing
recorded before is left unapplied when a new row is allocated (`Leased`), so the
recorded rows never ask an installment for more than is due (`LeasedMoney`). A call at
the mark of a share has seen funding keep it, a call with a note has nothing to show
for (`CallSound`), and a recovery is one of a loan already booked as lost (`Recoveries`).
`WaterfallPours` is the lemma on the allocation itself: it gives each installment
no more than is open and hands out no more than was paid.

`InvestorCapital_proofs` (for every set of tranches and amounts, investors, references,
movements, number of calls and faults): `SharesAreWhole`, `CapitalStaysAccounted`,
`TheRowsStayTrue`. The shares are whole because of four lemmas on the arithmetic:
rounding down never gives out more than there is before the last tranche
(`ProportionsFit`), so the remainder it takes is an amount (`RepaymentIsWhole`), and
charging tranches in turn charges all there is up to what they have open
(`ChargeIsWhole`, `ChargeFits`). The loss is then carried whole only because what the
tranches have out is never less than what the loan owes: `BooksInv` ties the loan, its
tranches and the rows together (`LoanSound`, `RowsSound`, `LegsSound`), says that a
call about to absorb carries the whole write-off while the loss has no row
(`CallSound`), and `LossIsWhole` follows. `MoneyInv` adds that what a tranche has out
is reserved on its investor's account (`Backed`), so no balance is cut short at zero,
and what a withdrawal under way relies on of its row and its order (`MovesSound`,
`OrdersSound`). The last needs the hypothesis `[]OneAttempt` of the two theorems:
nothing in the code keeps two attempts on one withdrawal apart, and a second one may
complete a movement the first has just given back.

`Sums_proofs` is what the sums of the others rest on, for every function and every finite
set: a total exists and is the only one, adds a member's amount with the member,
is monotone, and of amounts that are sums is the sum of the totals. The library defines the sum by
recursion on a set and states induction with an operator for the predicate, which
the provers cannot instantiate; `EveryNatural` and `EverySubset` state induction of
a *set* of numbers or of subsets instead and follow from well-foundedness, so
these inductions are checked like any other step.

Assumptions on the constants are the named `ASSUME`s of the modules; TLC
evaluates them in every run. Those for proofs about sums say that the keys, calls
and sources are finite sets, as the rows of a table and the requests of a process
are.

Only model-checked: liveness (`ReserveAnswered`, `LapsedHoldEnds`,
`LateRequestSettles`), which is out of the prover's reach under fairness. Every
safety property of a passing run is the statement of a theorem.

## 6. Where code and words disagree, and ends nobody owns

One run ends in a counterexample, `capital_saves`: `investor_account.go:129` says
that Save never writes a balance; the event carries the whole row as it was read
and writes it over what deposits, withdrawals and repayments did since.

The other disagreements met while modelling are in the models as the code has
them, and are described with their lines under `hazards`:

- a Commit between the ledger sum and the pending sum of a Reserve is in neither
  (`evaluator.go:104`), and so is a Commit of a lapsed hold; `OverCapOnlyByCommit`
  says, and the proof shows, that these are the only ways past a cap;
- shadow holds take cap space (`reservation_repo.go:195`), and a
  currency-agnostic count policy never counts (`reservation_repo.go:177`);
- the last approvals of two requests, deciding together, leave the hold
  `pending_approval` for ever (`approval.go:334`);
- RecordFailure may shut an order whose execution goes on to pay
  (`transfer_order_repo.go:314`); a late failure whose reversal fails is not tried
  again (`payout_reconcile.go:93`); with the gate on, one failed attempt uses up
  the order's key (`transfer_order.go:162`);
- a Cancel between a withdrawal's payout and its settlement gives the hold back
  for money that is out (`withdrawal.go:257`);
- a stalled holder of an allocation voids the fundings of the call that took
  over (`funding_allocation.go:156`); group savings and the platform reserve are
  promised by balance, not reserved (`funding_allocation.go:489`);
- a release drops the claim of its request whoever holds it
  (`funding_allocation.go:1055`): an allocation that claims and completes after the
  release has read the fundings, and before it drops the claim, stays reserved behind
  no claim until the leftovers of a next allocation are voided; a release that reads
  part of an allocation under way may leave its complete claim short;
- an order that a dead allocation run left is finished at its stored amount
  (`payment_routing.go:1232`), and two runs that overlap may overspend a payment;
- the settle job posts an order that a stopped run raised, or could not park, though
  its obligation was never debited (`transfer_order_repo.go:473`): the obligation still
  stands, and the same money may leave suspense for another as well;
- a repayment that funding refuses for good is settled with a note and no share, which
  is what `funding_settlement.go:77-80` announces;
- a loan settled by a repayment whose call dies before the status moves stays
  ACTIVE (`repayment.go:538`);
- a second attempt on a disbursement key may pay after the first was rejected and
  freed the row (`disbursement.go:402`); a payout that fails between COMPLETED and
  ACTIVE leaves an active loan without money (`payout_failed.go:104`); an account
  whose schedule was not written keeps no balance (`loan_account.go:239`).

## 7. Not modelled, and why

The map covers about a ninth of the implementation's lines: the repository is 84
thousand lines, most of them records, queries, clients, handlers and reports
around the protocols modelled here.

In the modelled components: Check and the searches (reads); edits of policies
while reservations exist; overlapping passes of the reservation reaper (its
update is guarded per row); reads from a replica; the outcome of the limit
recheck at approval, which is a free choice; shadow mode of the gate, and the
gate around loans, savings and funding; allocation orders, which bypass the
gate; CBS sync and audit records (best effort, nothing reads them back here);
loan offers, restructures, collections and commissions; the schedule's
arithmetic (installments are amounts); more than one account, loan or funding
request per instance.

Smaller cuts: the cap on the amount a call to ApplySuspense may use
(`payment_suspense.go:122-127`), which only makes it spend less; a
`ConsumeObligationForOrder` whose commit succeeds and reports an error, after which the
code parks an order that was consumed (`transfer_order_repo.go:314` does not look at
`obligation_consumed`); the write-off and the delinquency scan, cut where a status is
claimed from what was read and not at each of their statements; and whether a
repayment holds any principal or interest to share, which is a free choice.

Whole components: policies and their cache, identity, stawi, seed, limits-admin,
the reconciliation tool, workflow definitions, authorization namespaces,
generated code, SDKs and user interfaces. `PROJECT.json` says why of each; the
first four hold protocols that would make modules, the rest do I/O.

## 8. What is left

1. `StawiOffers` and `LoanSlots` (seed): an offer originates one loan, a client
   holds one slot, on top of `LoanOrigination`.
2. `PolicyCache`: save, invalidate and candidate selection with stale replicas.
3. Two loans over one pool of capital: `FundingAllocation` with group savings and
   the platform reserve promised twice.
4. The gate as a module of its own, instantiated by the services that call it.

Theorems: the safety properties of the modules above are proved; the new ones come
with theirs, on `Sums_proofs` where they add up money.
