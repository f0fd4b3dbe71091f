------------------------------- MODULE Savings -------------------------------
(***************************************************************************)
(* One account of apps/savings: deposits from the payment rail, withdrawals *)
(* held, approved, cancelled and failed late by the rail, the daily interest *)
(* job, and the freeze and close of the account, against the contract that  *)
(* apps/operations gives for a transfer order (module Payout).              *)
(*                                                                         *)
(* A call is one request under way, cut where it leaves a transaction or    *)
(* calls operations; it may die between two steps. A key stands for the     *)
(* idempotency key of a request, hence for the one row it can make.         *)
(* Days are counted by their ends: a movement stamped m lands after the end  *)
(* of day d when m >= d.                                                    *)
(***************************************************************************)
EXTENDS PayoutOrder, Sums

CONSTANTS
  Deposits, Withdrawals,   \* idempotency keys
  Attempts,                \* requests and job runs under way at a time
  Amount,                  \* [key -> minor units]
  Opening,                 \* what earlier deposits left on the account
  Rate, Scale,             \* interest of a day on a balance b is b * Rate / Scale
  MaxDay,                  \* bound: the days that end
  MaxSaves,                \* bound: account save events under way
  MaxFailures              \* bound: deaths and errors of operations

ASSUME MovementAssumption ==
  /\ \A k \in Deposits \union Withdrawals : Amount[k] \in Nat \ {0}
  /\ IsFiniteSet(Deposits) /\ IsFiniteSet(Withdrawals)
  /\ Opening \in Nat
ASSUME RateAssumption == Rate \in Nat /\ Scale \in Nat \ {0}
ASSUME SavingsBounds == MaxDay \in Nat /\ MaxSaves \in Nat /\ MaxFailures \in Nat

VARIABLES
  acct,      \* savings_accounts.status
  saves,     \* savings_account.save events not yet applied: status, through
  dep, wdr,  \* the rows by key; at: modified_at, done: when it completed
  interest,  \* interest_accruals by day
  through,   \* interest_accrued_through
  bal, res,  \* savings_balances: balance, reserved_balance
  order,     \* the withdrawals' payout orders at operations
  posted,    \* deposits and days whose transfer order operations has booked
  told,      \* withdrawals operations has told the failure of
  today, call, failures

account == <<acct, saves, through>>
books == <<bal, res>>
rows == <<dep, wdr, interest>>
payouts == <<order, posted, told>>
savingsVars == <<account, rows, books, payouts, today, call, failures>>

Days == 1..MaxDay
Stamps == 0..MaxDay
Idle == [pc |-> "idle", key |-> 0, day |-> 0, end |-> 0, sum |-> 0]

SavingsInit ==
  /\ acct = "ACTIVE" /\ saves = {}
  /\ dep = [k \in Deposits |-> [st |-> "NONE", at |-> 0]]
  /\ wdr = [k \in Withdrawals |-> [st |-> "NONE", at |-> 0, done |-> 0]]
  /\ interest = [d \in Days |-> [st |-> "NONE", sum |-> 0]]
  /\ through = 0 /\ bal = Opening /\ res = 0
  /\ order = [k \in Withdrawals |-> "none"]
  /\ posted = {} /\ told = {} /\ today = 0
  /\ call = [c \in Attempts |-> Idle]
  /\ failures = MaxFailures

At(c, pc) == call[c].pc = pc
To(c, pc) == call' = [call EXCEPT ![c].pc = pc]
Return(c) == call' = [call EXCEPT ![c] = Idle]
Begin(c, pc, k) ==
  /\ At(c, "idle")
  /\ call' = [call EXCEPT ![c] = [Idle EXCEPT !.pc = pc, !.key = k]]

------------------------------------------------------------------------------
(* Transfer orders at operations *)

\* The rail decides a payout it took.
RailDecides(k) ==
  /\ order[k] = "sent"
  /\ order' = [order EXCEPT ![k] = "paid"] \/ order' = [order EXCEPT ![k] = "failed"]
  /\ UNCHANGED <<account, rows, books, posted, told, today, call, failures>>

\* WithdrawalBusiness.PayoutFailed, called by NotifyOriginator, which asks no
\* more whether or not a completed withdrawal was there to reverse.
PayoutFailed(k) ==
  /\ order[k] = "failed" /\ k \notin told
  /\ told' = told \union {k}
  /\ IF wdr[k].st = "COMPLETED"
       THEN /\ wdr' = [wdr EXCEPT ![k].st = "REVERSED", ![k].at = today]
            /\ bal' = bal + Amount[k]
       ELSE UNCHANGED <<wdr, bal>>
  /\ UNCHANGED <<account, dep, interest, res, order, posted, today, call, failures>>

------------------------------------------------------------------------------
(* Deposits *)

\* Record: a completed row answers the key; else the account must be active.
Record(c, k) ==
  /\ dep[k].st # "COMPLETED" /\ acct = "ACTIVE"
  /\ Begin(c, "depClaim", k)
  /\ UNCHANGED <<account, rows, books, payouts, today, failures>>

\* Mutant: the row settles on its claim, before the ledger is asked.
DepositClaimSettles(c) ==
  LET k == call[c].key IN
  /\ At(c, "depClaim")
  /\ dep' = [dep EXCEPT ![k].st = IF @ = "NONE" THEN "PENDING" ELSE @]
  /\ IF dep[k].st = "COMPLETED" THEN Return(c) ELSE To(c, "depSettle")
  /\ UNCHANGED <<account, wdr, interest, books, payouts, today, failures>>

\* Claim: insert, or inherit the row another attempt left.
DepositClaim(c) ==
  LET k == call[c].key IN
  /\ At(c, "depClaim")
  /\ dep' = [dep EXCEPT ![k].st = IF @ = "NONE" THEN "PENDING" ELSE @]
  /\ IF dep[k].st = "COMPLETED" THEN Return(c) ELSE To(c, "depPost")
  /\ UNCHANGED <<account, wdr, interest, books, payouts, today, failures>>

\* The transfer order "deposit:<id>".
DepositPost(c) ==
  /\ At(c, "depPost")
  /\ posted' = posted \union {call[c].key}
  /\ To(c, "depSettle")
  /\ UNCHANGED <<account, rows, books, order, told, today, failures>>

DepositSettle(c) ==
  LET k == call[c].key IN
  /\ At(c, "depSettle")
  /\ IF dep[k].st = "PENDING"
       THEN /\ dep' = [dep EXCEPT ![k] = [st |-> "COMPLETED", at |-> today]]
            /\ bal' = bal + Amount[k]
       ELSE UNCHANGED <<dep, bal>>
  /\ Return(c)
  /\ UNCHANGED <<account, wdr, interest, res, payouts, today, failures>>

------------------------------------------------------------------------------
(* Withdrawals *)

\* Request: the operability check, and ClaimWithHold later.
Request(c, k) ==
  /\ wdr[k].st = "NONE" /\ acct = "ACTIVE"
  /\ Begin(c, "hold", k)
  /\ UNCHANGED <<account, rows, books, payouts, today, failures>>

\* ClaimWithHold: the row and the hold, or neither; a second insert of a key
\* is answered with the first.
ClaimWithHold(c) ==
  LET k == call[c].key IN
  /\ At(c, "hold")
  /\ IF wdr[k].st = "NONE" /\ bal - res >= Amount[k]
       THEN /\ wdr' = [wdr EXCEPT ![k].st = "PENDING"]
            /\ res' = res + Amount[k]
       ELSE UNCHANGED <<wdr, res>>
  /\ Return(c)
  /\ UNCHANGED <<account, dep, interest, bal, payouts, today, failures>>

\* Approve reads the row.
Approve(c, k) ==
  /\ wdr[k].st = "PENDING"
  /\ Begin(c, "pay", k)
  /\ UNCHANGED <<account, rows, books, payouts, today, failures>>

\* postWithdrawalTransferOrder.
PostWithdrawal(c) ==
  LET k == call[c].key IN
  /\ At(c, "pay")
  /\ \E a \in PayoutAnswers(order[k]) :
       /\ order' = [order EXCEPT ![k] = a[1]]
       /\ \/ a[2] = "done" /\ To(c, "settle") /\ UNCHANGED failures
          \/ a[2] = "rejected" /\ To(c, "release") /\ UNCHANGED failures
          \/ a[2] = "error" /\ Return(c) /\ failures > 0 /\ failures' = failures - 1
  /\ UNCHANGED <<account, rows, books, posted, told, today>>

\* Settle: only a PENDING row, only over the hold; otherwise it changes
\* nothing, and Approve answers COMPLETED when the row was not PENDING.
SettleWithdrawal(c) ==
  LET k == call[c].key IN
  /\ At(c, "settle")
  /\ IF wdr[k].st = "PENDING" /\ res >= Amount[k] /\ bal >= Amount[k]
       THEN /\ wdr' = [wdr EXCEPT ![k] =
                 [st |-> "COMPLETED", at |-> today, done |-> today]]
            /\ bal' = bal - Amount[k] /\ res' = res - Amount[k]
       ELSE UNCHANGED <<wdr, books>>
  /\ Return(c)
  /\ UNCHANGED <<account, dep, interest, payouts, today, failures>>

\* Cancel reads the row.
Cancel(c, k) ==
  /\ wdr[k].st = "PENDING"
  /\ Begin(c, "cancel", k)
  /\ UNCHANGED <<account, rows, books, payouts, today, failures>>

\* Mutant: the hold is given back without claiming the row.
ReleaseUnclaimed(c, pc) ==
  LET k == call[c].key IN
  /\ At(c, pc)
  /\ IF res >= Amount[k]
       THEN /\ wdr' = [wdr EXCEPT ![k].st = "REJECTED", ![k].at = today]
            /\ res' = res - Amount[k]
       ELSE UNCHANGED <<wdr, res>>
  /\ Return(c)
  /\ UNCHANGED <<account, dep, interest, bal, payouts, today, failures>>

\* ReleaseHold, for Cancel and for an approval whose payout was rejected: only
\* a PENDING row gives its hold back.
ReleaseHold(c, pc) ==
  LET k == call[c].key IN
  /\ At(c, pc)
  /\ IF wdr[k].st = "PENDING" /\ res >= Amount[k]
       THEN /\ wdr' = [wdr EXCEPT ![k].st = "REJECTED", ![k].at = today]
            /\ res' = res - Amount[k]
       ELSE UNCHANGED <<wdr, res>>
  /\ Return(c)
  /\ UNCHANGED <<account, dep, interest, bal, payouts, today, failures>>

------------------------------------------------------------------------------
(* Interest *)

DepositsAfter(d) == {k \in Deposits : dep[k].st = "COMPLETED" /\ dep[k].at >= d}
WithdrawalsAfter(d) == {k \in Withdrawals : wdr[k].st = "COMPLETED" /\ wdr[k].at >= d}
Credited(d) == interest[d].st = "SETTLED"
Earned == [d \in Days |-> interest[d].sum]

\* The balance less what moved after the end of the day.
BalanceAt(d) ==
  bal - Total(Amount, DepositsAfter(d)) + Total(Amount, WithdrawalsAfter(d))
      - Total(Earned, {e \in Days : e > d /\ Credited(e)})

\* Mutant: reversals are not looked for.
AlwaysReliable(d) == TRUE

\* No reversal after the day: it would not say when the withdrawal landed.
Reliable(d) == {k \in Withdrawals : wdr[k].st = "REVERSED" /\ wdr[k].at >= d} = {}

\* Half-up rounding of the interest on a balance.
computeAccrual(b) ==
  (b * Rate) \div Scale + (IF 2 * ((b * Rate) % Scale) >= Scale THEN 1 ELSE 0)

\* The job lists an account that is behind: day is the next one to settle,
\* key the cursor it read, end the last day that has ended.
AccrueInterest(c) ==
  /\ At(c, "idle") /\ acct = "ACTIVE" /\ through < today
  /\ call' = [call EXCEPT ![c] =
       [Idle EXCEPT !.pc = "basis", !.key = through, !.day = through + 1, !.end = today]]
  /\ UNCHANGED <<account, rows, books, payouts, today, failures>>

\* accrueMissedDays goes on with the next day, or stops at the last.
NextDay(c) ==
  call' = [call EXCEPT ![c].pc = IF call[c].day < call[c].end THEN "basis" ELSE "mark",
                       ![c].day = @ + 1]

\* Accrue up to the claim: a settled row, an account no longer active and a
\* balance that earns nothing pass the day; a balance that cannot be
\* reconstructed stops the run.
AccrualBasis(c) ==
  LET d == call[c].day
      due == computeAccrual(BalanceAt(d)) IN
  /\ At(c, "basis")
  /\ IF Credited(d) \/ acct # "ACTIVE" THEN NextDay(c)
     ELSE IF ~Reliable(d) THEN To(c, "mark")
     ELSE IF BalanceAt(d) <= 0 \/ due <= 0 THEN NextDay(c)
     ELSE call' = [call EXCEPT ![c].pc = "accClaim", ![c].sum = due]
  /\ UNCHANGED <<account, rows, books, payouts, today, failures>>

\* The row, unique on the account and the day; another run's row stands.
AccrualClaim(c) ==
  LET d == call[c].day IN
  /\ At(c, "accClaim")
  /\ interest' = [interest EXCEPT ![d] =
       IF @.st = "NONE" THEN [st |-> "CLAIMED", sum |-> call[c].sum] ELSE @]
  /\ IF Credited(d) THEN NextDay(c) ELSE To(c, "accPost")
  /\ UNCHANGED <<account, dep, wdr, books, payouts, today, failures>>

\* The transfer order "interest_accrual:<account>:<day>".
AccrualPost(c) ==
  /\ At(c, "accPost")
  /\ posted' = posted \union {call[c].day}
  /\ To(c, "accSettle")
  /\ UNCHANGED <<account, rows, books, order, told, today, failures>>

AccrualSettle(c) ==
  LET d == call[c].day IN
  /\ At(c, "accSettle")
  /\ IF interest[d].st = "CLAIMED"
       THEN /\ interest' = [interest EXCEPT ![d].st = "SETTLED"]
            /\ bal' = bal + interest[d].sum
       ELSE UNCHANGED <<interest, bal>>
  /\ NextDay(c)
  /\ UNCHANGED <<account, dep, wdr, res, payouts, today, failures>>

\* MarkInterestChecked: the last day settled, if the run settled any.
MarkInterestChecked(c) ==
  /\ At(c, "mark")
  /\ through' = IF call[c].day - 1 > call[c].key THEN call[c].day - 1 ELSE through
  /\ Return(c)
  /\ UNCHANGED <<acct, saves, rows, books, payouts, today, failures>>

------------------------------------------------------------------------------
(* The account *)

Emit(s) ==
  /\ Cardinality(saves) < MaxSaves
  /\ saves' = saves \union {<<s, through>>}

Freeze ==
  /\ acct = "ACTIVE" /\ Emit("FROZEN")
  /\ UNCHANGED <<acct, rows, through, books, payouts, today, call, failures>>

\* Close: refused while the balance row holds anything.
Close ==
  /\ acct \in {"ACTIVE", "FROZEN"} /\ bal = 0 /\ res = 0
  /\ Emit("CLOSED")
  /\ UNCHANGED <<acct, rows, through, books, payouts, today, call, failures>>

\* savings_account.save writes the account as Freeze or Close had read it: the
\* last event applied wins, over the interest cursor too.
ApplySave(s) ==
  /\ s \in saves
  /\ acct' = s[1] /\ through' = s[2] /\ saves' = saves \ {s}
  /\ UNCHANGED <<rows, books, payouts, today, call, failures>>

\* A call dies, or its transaction or its call of operations fails: nothing
\* later of it happens.
Die(c) ==
  /\ ~At(c, "idle") /\ failures > 0
  /\ failures' = failures - 1
  /\ Return(c)
  /\ UNCHANGED <<account, rows, books, payouts, today>>

\* A failed day stops the run, which marks what it settled.
AccrualFails(c) ==
  /\ call[c].pc \in {"basis", "accClaim", "accPost", "accSettle"} /\ failures > 0
  /\ failures' = failures - 1
  /\ To(c, "mark")
  /\ UNCHANGED <<account, rows, books, payouts, today>>

EndOfDay ==
  /\ today < MaxDay
  /\ today' = today + 1
  /\ UNCHANGED <<account, rows, books, payouts, call, failures>>

CallStep(c) ==
  \/ DepositClaim(c) \/ DepositPost(c) \/ DepositSettle(c)
  \/ ClaimWithHold(c) \/ PostWithdrawal(c) \/ SettleWithdrawal(c)
  \/ ReleaseHold(c, "cancel") \/ ReleaseHold(c, "release")
  \/ AccrualBasis(c) \/ AccrualClaim(c) \/ AccrualPost(c) \/ AccrualSettle(c)
  \/ MarkInterestChecked(c)

SavingsNext ==
  \/ \E c \in Attempts :
       \/ CallStep(c) \/ Die(c) \/ AccrualFails(c) \/ AccrueInterest(c)
       \/ \E k \in Deposits : Record(c, k)
       \/ \E k \in Withdrawals : Request(c, k) \/ Approve(c, k) \/ Cancel(c, k)
  \/ \E k \in Withdrawals : RailDecides(k) \/ PayoutFailed(k)
  \/ Freeze \/ Close \/ \E s \in saves : ApplySave(s)
  \/ EndOfDay

SavingsSpec == SavingsInit /\ [][SavingsNext]_savingsVars

------------------------------------------------------------------------------
(* Properties *)

\* Shape of the rows, the orders and the calls.
SavingsTypeOK ==
  /\ acct \in {"ACTIVE", "FROZEN", "CLOSED"} /\ saves \subseteq {"FROZEN", "CLOSED"} \X Stamps
  /\ dep \in [Deposits -> [st : {"NONE", "PENDING", "COMPLETED"}, at : Stamps]]
  /\ wdr \in [Withdrawals ->
       [st : {"NONE", "PENDING", "COMPLETED", "REJECTED", "REVERSED"},
        at : Stamps, done : Stamps]]
  /\ interest \in [Days -> [st : {"NONE", "CLAIMED", "SETTLED"}, sum : Nat]]
  /\ through \in Stamps /\ bal \in Int /\ res \in Int
  /\ order \in [Withdrawals -> {"none", "sent", "paid", "failed"}]
  /\ posted \subseteq Deposits \union Days /\ told \subseteq Withdrawals
  /\ today \in Stamps /\ failures \in 0..MaxFailures

Rows(st) == {k \in Withdrawals : wdr[k].st = st}
Completed == {k \in Deposits : dep[k].st = "COMPLETED"}

\* The balance row agrees with the movements: what is reserved is the sum of
\* the PENDING withdrawals, the balance is what was deposited and earned less
\* what was withdrawn, and no hold is larger than the money behind it. The row
\* is only ever changed by arithmetic in the transaction of a movement, from
\* calls that read the rows earlier (withdrawal_repo.go, deposit_repo.go).
FundsMatchRows ==
  /\ SavingsTypeOK
  /\ res = Total(Amount, Rows("PENDING"))
  /\ bal = Opening + Total(Amount, Completed) - Total(Amount, Rows("COMPLETED"))
             + Total(Earned, {d \in Days : Credited(d)})
  /\ res <= bal

\* Nothing reaches a member's balance before operations has booked it: a
\* completed deposit and settled interest have their ledger transaction, a
\* completed withdrawal its payout, and a withdrawal is reversed only when its
\* payout was (deposit.go, interest_accrual.go, withdrawal.go: post, then settle).
SettledIsBooked ==
  /\ Completed \union {d \in Days : Credited(d)} \subseteq posted
  /\ \A k \in Withdrawals :
       /\ wdr[k].st = "COMPLETED" => order[k] # "none"
       /\ wdr[k].st = "REVERSED" => order[k] = "failed"

\* The balance at the end of day d, told from when each movement completed.
Closing(d) ==
  Opening + Total(Amount, {k \in Completed : dep[k].at < d})
    - Total(Amount, {k \in Rows("COMPLETED") \union Rows("REVERSED") : wdr[k].done < d})
    + Total(Amount, {k \in Rows("REVERSED") : wdr[k].at < d})
    + Total(Earned, {e \in Days : e < d /\ Credited(e)})

\* Interest is paid on what the account held at the end of the day, however
\* late the day is accrued and whatever moved or was reversed since
\* (BalanceAt; "a day accrued late does not pay interest on money deposited
\* since"), and the cursor passes no day of an active account that earned some.
InterestIsDue ==
  /\ \A d \in Days : interest[d].st # "NONE" => interest[d].sum = computeAccrual(Closing(d))
  /\ acct = "ACTIVE" =>
       \A d \in 1..through : Credited(d) \/ Closing(d) <= 0 \/ computeAccrual(Closing(d)) = 0
=============================================================================
