--------------------------- MODULE InvestorCapital ---------------------------
(***************************************************************************)
(* apps/funding: the capital behind one disbursed loan. Its tranches share   *)
(* every repayment and carry its loss and recoveries, investors deposit and  *)
(* withdraw meanwhile, and the accounts are saved by event.                 *)
(*                                                                         *)
(* The loans service decides what the loan still owes and delivers each     *)
(* repayment, loss and recovery by reference, again until it is answered,    *)
(* in any order. A call is cut where it leaves a transaction or calls        *)
(* operations, and may end between two steps. Tranches are in priority      *)
(* order; payouts follow the contract of module Payout.                     *)
(***************************************************************************)
EXTENDS PayoutOrder, FiniteSets, Sums

CONSTANTS
  Last,                    \* the tranches are 1..Last
  Lent,                    \* [tranche -> minor units]
  Investors, Owner,        \* [tranche -> investor, or "platform"]
  Opening, Elsewhere,      \* [investor -> capital; reserved for other loans]
  Repayments, Recoveries,  \* references, one row each
  Principal, Interest,     \* [reference -> minor units]
  Deposits, Withdrawals,   \* idempotency keys of capital movements
  Of, Amount,              \* [key -> investor; minor units]
  LoanCalls, MoveCalls,    \* calls under way at a time
  MaxSaves, MaxFaults      \* bounds: account saves; deaths and lost answers

Tranches == 1..Last
Moves == Deposits \union Withdrawals
References == Repayments \union Recoveries

Behind(i) == {t \in Tranches : Owner[t] = i}
Backing(i) == Total(Lent, Behind(i))

ASSUME LoanAssumption ==
  /\ Last \in Nat \ {0} /\ \A t \in Tranches : Lent[t] \in Nat \ {0}
  /\ \A t \in Tranches : Owner[t] \in Investors \union {"platform"}
  /\ \A k \in References : Principal[k] \in Nat /\ Interest[k] \in Nat
  /\ IsFiniteSet(References) /\ Repayments \intersect Recoveries = {}
  /\ "loss" \notin References
\* An investor has one tranche of a loan (appendInvestorSources skips those it has), and
\* what is reserved is within the balance (FundingAllocation).
ASSUME AccountAssumption ==
  /\ Opening \in [Investors -> Nat]
  /\ \A i \in Investors : /\ Elsewhere[i] \in Nat /\ Elsewhere[i] + Backing(i) <= Opening[i]
                          /\ \A t, u \in Behind(i) : t = u
  /\ "platform" \notin Investors
  /\ \A m \in Moves : Of[m] \in Investors /\ Amount[m] \in Nat \ {0}
  /\ IsFiniteSet(Moves) /\ Deposits \intersect Withdrawals = {}
  /\ MaxSaves \in Nat /\ MaxFaults \in Nat

VARIABLES
  owed,      \* loans: principal outstanding
  recorded,  \* loans: repayments recorded, and "loss" once written off
  writeOff,  \* loans: the principal written off
  tranche,   \* funding_tranches: repaid, loss, back
  applied,   \* references with a row, "loss" for the absorption
  share,     \* the stored shares of every row
  posted,    \* ledger legs operations has booked: reference and tranche
  settled,   \* rows with settled_at
  avail, res,\* investor_accounts: available_balance, reserved_balance
  move,      \* investor_capital_movements.status by key
  order,     \* the withdrawals' payout orders at operations
  booked,    \* deposits operations has booked
  told,      \* withdrawals operations has told the failure of
  save,      \* account save events not yet applied: the row as it was read
  saves, call, faults

loan == <<owed, recorded, writeOff>>
rows == <<tranche, applied, share>>
legs == <<posted, settled>>
account == <<avail, res>>
payouts == <<order, booked, told>>
events == <<save, saves>>
vars == <<loan, rows, legs, account, move, payouts, events, call, faults>>

Calls == LoanCalls \union MoveCalls
Idle == [pc |-> "idle", key |-> "none", shares |-> [t \in Tranches |-> 0]]
Financed == Total(Lent, Tranches)

Init ==
  /\ owed = Financed /\ recorded = {} /\ writeOff = 0
  /\ tranche = [t \in Tranches |-> [repaid |-> 0, loss |-> 0, back |-> 0]]
  /\ applied = {} /\ share = [k \in References \union {"loss"} |-> Idle.shares]
  /\ posted = {} /\ settled = {}
  /\ avail = Opening
  /\ res = [i \in Investors |-> Elsewhere[i] + Backing(i)]
  /\ move = [m \in Moves |-> "NONE"]
  /\ order = [m \in Withdrawals |-> "none"] /\ booked = {} /\ told = {}
  /\ save = {} /\ saves = MaxSaves
  /\ call = [c \in Calls |-> Idle] /\ faults = MaxFaults

At(c, pc) == call[c].pc = pc
To(c, pc) == call' = [call EXCEPT ![c].pc = pc]
Return(c) == call' = [call EXCEPT ![c] = Idle]
Begin(c, pc, k) ==
  At(c, "idle") /\ call' = [call EXCEPT ![c].pc = pc, ![c].key = k]
Floor0(n) == IF n < 0 THEN 0 ELSE n

------------------------------------------------------------------------------
(* The loans service *)

\* A repayment is recorded with the principal it settles.
LoanRecords(k) ==
  /\ k \notin recorded /\ "loss" \notin recorded /\ Principal[k] <= owed
  /\ owed' = owed - Principal[k] /\ recorded' = recorded \union {k}
  /\ UNCHANGED <<writeOff, rows, legs, account, move, payouts, events, call, faults>>

LoanWritesOff ==
  /\ "loss" \notin recorded /\ owed > 0
  /\ recorded' = recorded \union {"loss"} /\ writeOff' = owed /\ owed' = 0
  /\ UNCHANGED <<rows, legs, account, move, payouts, events, call, faults>>

------------------------------------------------------------------------------
(* Shares *)

\* computeRepaymentShares: in proportion, rounded down, the last tranche takes
\* the remainder.
ProportionOf(n, t) == (n * Lent[t]) \div Financed
RepaymentShares(n) ==
  LET p == [t \in Tranches |-> ProportionOf(n, t)]
  IN [p EXCEPT ![Last] = n - Total(p, 1..(Last - 1))]

\* Each tranche is charged what it has open, up to what those before it left.
Charge(open, n, before) ==
  [t \in Tranches |->
     LET left == Floor0(n - Total(open, before[t]))
     IN IF open[t] < left THEN open[t] ELSE left]

\* computeLossShares: each tranche in turn carries the most it still has out.
Exposure == [t \in Tranches |-> Floor0(Lent[t] - tranche[t].repaid - tranche[t].loss)]
LossShares(n) == Charge(Exposure, n, [t \in Tranches |-> 1..(t - 1)])

\* recoveryShares: from the most senior tranche down, what it absorbed and has
\* not recovered.
Absorbed(t) == LET s == share["loss"][t]
               IN IF s < tranche[t].loss THEN s ELSE tranche[t].loss
Recoverable == [t \in Tranches |-> Floor0(Absorbed(t) - tranche[t].back)]
RecoveryShares(n) == Charge(Recoverable, n, [t \in Tranches |-> (t + 1)..Last])

\* What a share pattern moves on an investor's account.
Part(i, s) == Total(s, Behind(i))

------------------------------------------------------------------------------
(* LoanRepaymentApply, AbsorbLoss, LossRecovery *)

StartRepayment(c, k) ==
  /\ k \in recorded /\ Begin(c, "repay", k)
  /\ UNCHANGED <<loan, rows, legs, account, move, payouts, events, faults>>

\* Mutant: the row of a repayment is not unique on its reference.
RepayTwice(c) ==
  LET k == call[c].key
      p == RepaymentShares(Principal[k])
  IN /\ At(c, "repay")
     /\ applied' = applied \union {k} /\ share' = [share EXCEPT ![k] = p]
     /\ tranche' = [t \in Tranches |-> [tranche[t] EXCEPT !.repaid = @ + p[t]]]
     /\ To(c, "post")
     /\ UNCHANGED <<loan, legs, account, move, payouts, events, faults>>

\* Apply: the row, unique on its reference, and every counter in one
\* transaction; a repeat only settles.
ApplyRepayment(c) ==
  LET k == call[c].key
      p == RepaymentShares(Principal[k])
      n == RepaymentShares(Interest[k])
  IN /\ At(c, "repay")
     /\ IF k \in applied THEN UNCHANGED <<rows, account>>
        ELSE /\ applied' = applied \union {k}
             /\ share' = [share EXCEPT ![k] = n]
             /\ tranche' = [t \in Tranches |-> [tranche[t] EXCEPT !.repaid = @ + p[t]]]
             /\ res' = [i \in Investors |-> Floor0(res[i] - Part(i, p))]
             /\ avail' = [i \in Investors |-> avail[i] + Part(i, n)]
     /\ To(c, "post")
     /\ UNCHANGED <<loan, legs, move, payouts, events, faults>>

\* AbsorbLoss up to its transaction: the shares on the exposures it reads.
StartLoss(c) ==
  /\ "loss" \in recorded /\ At(c, "idle")
  /\ call' = [call EXCEPT ![c] = [pc |-> "lose", key |-> "loss",
                                  shares |-> LossShares(writeOff)]]
  /\ UNCHANGED <<loan, rows, legs, account, move, payouts, events, faults>>

\* ClaimAndApply of a loss: all tranches still carry their share, or nothing
\* is written and the call is to be made again.
AbsorbLoss(c) ==
  LET s == call[c].shares IN
  /\ At(c, "lose")
  /\ IF "loss" \in applied THEN To(c, "post") /\ UNCHANGED <<rows, account>>
     ELSE IF \A t \in Tranches : s[t] > 0 =>
               Lent[t] - tranche[t].repaid - tranche[t].loss >= s[t]
       THEN /\ applied' = applied \union {"loss"}
            /\ share' = [share EXCEPT !["loss"] = s]
            /\ tranche' = [t \in Tranches |-> [tranche[t] EXCEPT !.loss = @ + s[t]]]
            /\ res' = [i \in Investors |-> Floor0(res[i] - Part(i, s))]
            /\ avail' = [i \in Investors |-> Floor0(avail[i] - Part(i, s))]
            /\ To(c, "post")
       ELSE Return(c) /\ UNCHANGED <<rows, account>>
  /\ UNCHANGED <<loan, legs, move, payouts, events, faults>>

StartRecovery(c, k) ==
  /\ "loss" \in applied /\ At(c, "idle")
  /\ call' = [call EXCEPT ![c] = [pc |-> "recover", key |-> k,
                                  shares |-> RecoveryShares(Principal[k])]]
  /\ UNCHANGED <<loan, rows, legs, account, move, payouts, events, faults>>

\* ClaimAndApply of a recovery.
ApplyRecovery(c) ==
  LET k == call[c].key
      s == call[c].shares
  IN /\ At(c, "recover")
     /\ IF k \in applied THEN To(c, "post") /\ UNCHANGED <<rows, avail>>
        ELSE IF \A t \in Tranches : s[t] > 0 => tranche[t].loss - tranche[t].back >= s[t]
          THEN /\ applied' = applied \union {k}
               /\ share' = [share EXCEPT ![k] = s]
               /\ tranche' = [t \in Tranches |-> [tranche[t] EXCEPT !.back = @ + s[t]]]
               /\ avail' = [i \in Investors |-> avail[i] + Part(i, s)]
               /\ To(c, "post")
          ELSE Return(c) /\ UNCHANGED <<rows, avail>>
     /\ UNCHANGED <<loan, legs, res, move, payouts, events, faults>>

\* The platform keeps its interest where it arrived.
Unposted(k) ==
  {t \in Tranches : /\ share[k][t] > 0 /\ <<k, t>> \notin posted
                    /\ k \in Repayments => Owner[t] # "platform"}

\* settle: one ledger leg, keyed on the row and the tranche.
Post(c) ==
  /\ At(c, "post")
  /\ \E t \in Unposted(call[c].key) : posted' = posted \union {<<call[c].key, t>>}
  /\ UNCHANGED <<loan, rows, settled, account, move, payouts, events, call, faults>>

MarkSettled(c) ==
  /\ At(c, "post") /\ Unposted(call[c].key) = {}
  /\ settled' = settled \union {call[c].key} /\ Return(c)
  /\ UNCHANGED <<loan, rows, posted, account, move, payouts, events, faults>>

------------------------------------------------------------------------------
(* Deposit, Withdraw *)

\* The movement row is the idempotency record: a completed one answers.
ClaimMovement(c, m) ==
  LET st == IF move[m] = "NONE" THEN "PENDING" ELSE move[m] IN
  /\ move[m] # "COMPLETED"
  /\ move' = [move EXCEPT ![m] = st]
  /\ Begin(c, CASE m \in Deposits -> "bank"
              [] m \in Withdrawals /\ st = "PENDING" -> "debit"
              [] OTHER -> "pay", m)
  /\ UNCHANGED <<loan, rows, legs, account, payouts, events, faults>>

\* The transfer order of a deposit.
Bank(c) ==
  /\ At(c, "bank")
  /\ booked' = booked \union {call[c].key} /\ To(c, "credit")
  /\ UNCHANGED <<loan, rows, legs, account, move, order, told, events, faults>>

CreditDeposit(c) ==
  LET m == call[c].key IN
  /\ At(c, "credit")
  /\ IF move[m] = "PENDING"
       THEN /\ move' = [move EXCEPT ![m] = "COMPLETED"]
            /\ avail' = [avail EXCEPT ![Of[m]] = @ + Amount[m]]
       ELSE UNCHANGED <<move, avail>>
  /\ Return(c)
  /\ UNCHANGED <<loan, rows, legs, res, payouts, events, faults>>

\* Mutant: the debit looks at the balance and not at what is lent out.
DebitLent(c) ==
  LET m == call[c].key IN
  /\ At(c, "debit") /\ To(c, "pay")
  /\ move[m] = "PENDING" /\ avail[Of[m]] >= Amount[m]
  /\ move' = [move EXCEPT ![m] = "DEBITED"]
  /\ avail' = [avail EXCEPT ![Of[m]] = @ - Amount[m]]
  /\ UNCHANGED <<loan, rows, legs, res, payouts, events, faults>>

\* DebitWithdrawal: free capital covers it, or the call is refused. A movement
\* that left PENDING meanwhile is not debited, and the call goes on.
DebitWithdrawal(c) ==
  LET m == call[c].key IN
  /\ At(c, "debit")
  /\ CASE move[m] # "PENDING" -> To(c, "pay") /\ UNCHANGED <<move, avail>>
       [] move[m] = "PENDING" /\ avail[Of[m]] - res[Of[m]] >= Amount[m] ->
            /\ move' = [move EXCEPT ![m] = "DEBITED"]
            /\ avail' = [avail EXCEPT ![Of[m]] = @ - Amount[m]]
            /\ To(c, "pay")
       [] OTHER -> Return(c) /\ UNCHANGED <<move, avail>>
  /\ UNCHANGED <<loan, rows, legs, res, payouts, events, faults>>

\* Mutant: whatever stops the payout counts as a refusal.
PayOrRevert(c) ==
  LET m == call[c].key IN
  /\ At(c, "pay")
  /\ \E a \in PayoutAnswers(order[m]) :
       /\ order' = [order EXCEPT ![m] = a[1]]
       /\ To(c, IF a[2] = "done" THEN "finish" ELSE "revert")
  /\ UNCHANGED <<loan, rows, legs, account, move, booked, told, events, faults>>

\* The transfer order of a withdrawal; an outcome that is not known leaves it
\* debited for a retry of the same key.
Pay(c) ==
  LET m == call[c].key IN
  /\ At(c, "pay")
  /\ \E a \in PayoutAnswers(order[m]) :
       /\ order' = [order EXCEPT ![m] = a[1]]
       /\ CASE a[2] = "done" -> To(c, "finish")
            [] a[2] = "rejected" -> To(c, "revert")
            [] a[2] = "error" -> Return(c)
  /\ UNCHANGED <<loan, rows, legs, account, move, booked, told, events, faults>>

RevertWithdrawalDebit(c) ==
  LET m == call[c].key IN
  /\ At(c, "revert")
  /\ IF move[m] = "DEBITED"
       THEN /\ move' = [move EXCEPT ![m] = "PENDING"]
            /\ avail' = [avail EXCEPT ![Of[m]] = @ + Amount[m]]
       ELSE UNCHANGED <<move, avail>>
  /\ Return(c)
  /\ UNCHANGED <<loan, rows, legs, res, payouts, events, faults>>

\* MarkCompleted, from whatever status but COMPLETED.
MarkCompleted(c) ==
  /\ At(c, "finish")
  /\ move' = [move EXCEPT ![call[c].key] = "COMPLETED"] /\ Return(c)
  /\ UNCHANGED <<loan, rows, legs, account, payouts, events, faults>>

\* The rail decides a payout it took.
RailDecides(m) ==
  /\ order[m] = "sent" /\ \E o \in {"paid", "failed"} : order' = [order EXCEPT ![m] = o]
  /\ UNCHANGED <<loan, rows, legs, account, move, booked, told, events, call, faults>>

\* WithdrawalFailed: told once, it gives back a completed withdrawal only.
WithdrawalFailed(m) ==
  /\ order[m] = "failed" /\ m \notin told
  /\ told' = told \union {m}
  /\ IF move[m] = "COMPLETED"
       THEN /\ move' = [move EXCEPT ![m] = "REVERTED"]
            /\ avail' = [avail EXCEPT ![Of[m]] = @ + Amount[m]]
       ELSE UNCHANGED <<move, avail>>
  /\ UNCHANGED <<loan, rows, legs, res, order, booked, events, call, faults>>

\* A process that dies, or a database or service that does not answer.
Die(c) ==
  /\ ~At(c, "idle") /\ faults > 0 /\ faults' = faults - 1 /\ Return(c)
  /\ UNCHANGED <<loan, rows, legs, account, move, payouts, events>>

------------------------------------------------------------------------------
(* Save, SetState *)

\* Both emit the whole row as they read it.
EmitAccount(i) ==
  /\ saves > 0 /\ saves' = saves - 1
  /\ save' = save \union {[of |-> i, avail |-> avail[i], res |-> res[i]]}
  /\ UNCHANGED <<loan, rows, legs, account, move, payouts, call, faults>>

\* upsert.ByID writes the row of the event over the stored one.
ApplyAccount(e) ==
  /\ e \in save /\ save' = save \ {e}
  /\ avail' = [avail EXCEPT ![e.of] = e.avail] /\ res' = [res EXCEPT ![e.of] = e.res]
  /\ UNCHANGED <<loan, rows, legs, move, payouts, saves, call, faults>>

------------------------------------------------------------------------------
LoanStep(c) ==
  \/ \E k \in Repayments : StartRepayment(c, k)
  \/ \E k \in Recoveries : StartRecovery(c, k)
  \/ StartLoss(c) \/ ApplyRepayment(c) \/ AbsorbLoss(c) \/ ApplyRecovery(c)
  \/ Post(c) \/ MarkSettled(c)

MoveStep(c) ==
  \/ \E m \in Moves : ClaimMovement(c, m)
  \/ Bank(c) \/ CreditDeposit(c) \/ DebitWithdrawal(c) \/ Pay(c)
  \/ RevertWithdrawalDebit(c) \/ MarkCompleted(c)

Next ==
  \/ LoanWritesOff \/ \E k \in Repayments : LoanRecords(k)
  \/ \E c \in LoanCalls : LoanStep(c)
  \/ \E c \in MoveCalls : MoveStep(c)
  \/ \E m \in Withdrawals : RailDecides(m) \/ WithdrawalFailed(m)
  \/ \E c \in Calls : Die(c)

Spec == Init /\ [][Next]_vars

\* The same, with accounts saved meanwhile.
NextSaving ==
  Next \/ (\E i \in Investors : EmitAccount(i)) \/ \E e \in save : ApplyAccount(e)
SpecSaving == Init /\ [][NextSaving]_vars

------------------------------------------------------------------------------
(* Properties *)

Pcs == {"idle", "repay", "lose", "recover", "post", "bank", "credit", "debit",
        "pay", "revert", "finish"}

\* Rows, movements and calls are well typed, and no balance is negative.
TypeOK ==
  /\ owed \in 0..Financed /\ writeOff \in 0..Financed
  /\ \A t \in Tranches : tranche[t] \in [repaid : Nat, loss : Nat, back : 0..Lent[t]]
  /\ applied \subseteq recorded \union Recoveries /\ settled \subseteq applied
  /\ \A i \in Investors : avail[i] \in Nat /\ res[i] \in Nat
  /\ \A m \in Moves : move[m] \in {"NONE", "PENDING", "DEBITED", "COMPLETED", "REVERTED"}
  /\ \A c \in Calls : call[c].pc \in Pcs
  /\ faults \in 0..MaxFaults

Repaid == [t \in Tranches |-> tranche[t].repaid]
\* What the rows of some references share out on a tranche, and to an investor.
OnTranche(t, ks) == Total([k \in References |-> share[k][t]], ks \intersect applied)
ToInvestor(i, ks) == Total([k \in References |-> Part(i, share[k])], ks \intersect applied)
Moved(i, ms, sts) == Total(Amount, {m \in ms : Of[m] = i /\ move[m] \in sts})

\* funding_allocation.go:622-626, :679-682, repayment_distribution.go:163-166,
\* loss_recovery.go:73-74: every repayment, the loss and every recovery is on
\* the tranches once, however often and in whatever order they are delivered;
\* repayments and the loss are on them whole, so that nothing is left
\* unrecoverable, and no tranche recovers more than it lost.
SharesAddUp ==
  /\ TypeOK
  /\ Total(Repaid, Tranches) = Total(Principal, applied \intersect Repayments)
  /\ "loss" \in applied => Total(share["loss"], Tranches) = writeOff
  /\ \A t \in Tranches : /\ tranche[t].loss = share["loss"][t]
                          /\ tranche[t].back = OnTranche(t, Recoveries)
                          /\ tranche[t].back <= tranche[t].loss

\* repayment_distribution_repo.go:141-143, loss_absorption_repo.go:154-156,
\* capital_movement_repo.go:65-69: an investor's capital is what was put in
\* and earned, less what was lost for good and what left or is leaving, and
\* what is lent out is never withdrawn.
CapitalIsAccounted ==
  \A i \in Investors :
    /\ avail[i] = Opening[i] + Moved(i, Deposits, {"COMPLETED"})
                   - Moved(i, Withdrawals, {"DEBITED", "COMPLETED"})
                   + ToInvestor(i, References) - Part(i, share["loss"])
    /\ res[i] <= avail[i]

\* repayment_distribution.go:222-224, investor_account.go:495-499, :516-521: what
\* the rows say has happened to the money. A settled share has all its legs on
\* the ledger and there is no leg without its row; while one attempt of a key
\* runs at a time, money that is out at the rail left the investor's balance,
\* and a withdrawal that is complete went out.
RowsTellTheMoney ==
  /\ \A k \in settled : Unposted(k) = {}
  /\ \A l \in posted : l[1] \in applied /\ share[l[1]][l[2]] > 0
  /\ \A m \in Withdrawals :
       /\ order[m] \in {"sent", "paid"} => move[m] \in {"DEBITED", "COMPLETED"}
       /\ move[m] = "COMPLETED" => order[m] # "none"

\* Attempts on a withdrawal one at a time: nothing in the code sees to it.
OneAttempt ==
  \A c, d \in Calls :
    ~At(c, "idle") /\ ~At(d, "idle") /\ call[c].key = call[d].key
      /\ call[c].key \in Withdrawals => c = d

\* Not what the code does: investor_account.go:128-133, "It never writes a
\* balance". The event carries the row as it was read, and is written over
\* whatever deposits, withdrawals and repayments did since. As
\* CapitalIsAccounted, under SpecSaving.
SavesNoBalance == CapitalIsAccounted
=============================================================================
