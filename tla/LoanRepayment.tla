---------------------------- MODULE LoanRepayment ----------------------------
(***************************************************************************)
(* One disbursed loan of apps/loans: repayments taken one at a time under   *)
(* the loan's lease, recorded, posted, applied and shared with the funders; *)
(* the late penalty, charged and waived; the delinquency job; the write-off. *)
(*                                                                         *)
(* A call is one request or job run under way, cut where it leaves a         *)
(* transaction or calls operations or funding; it may die between two steps. *)
(* A key stands for the idempotency key of a payment, hence for its one row. *)
(* Interest, fees and principal of an installment are one amount: whether a   *)
(* payment holds any that funders share is left open. The accounts a          *)
(* component is booked on are left out.                                       *)
(***************************************************************************)
EXTENDS Integers, Sequences, FiniteSets, Sums

CONSTANTS
  Keys,             \* payments, by idempotency key
  Pay,              \* [key -> minor units]
  Due,              \* [installment -> minor units], installments from 1 on
  Penalty,          \* the late penalty of the loan, in minor units
  Calls,            \* requests and job runs under way at a time
  MaxFaults,        \* bound: deaths and errors
  MaxLapses         \* bound: calls that outlive the loan's lease

ASSUME AmountAssumption ==
  /\ IsFiniteSet(Keys) /\ Pay \in [Keys -> Nat \ {0}]
  /\ Due \in Seq(Nat \ {0})
  /\ Penalty \in Nat \ {0}
ASSUME BoundAssumption == MaxFaults \in Nat /\ MaxLapses \in Nat

VARIABLES
  status,   \* loan_accounts.status
  lock,     \* repayment_locked_at: the call whose lease it is, or Free
  row,      \* repayments by key: st, pens, parts, excess, recovery, settled
  paid,     \* schedule_entries: what is paid on each installment
  bal,      \* loan_balances: owed on installments, pens, total, paid
  pen,      \* the penalty row: saved, charged, waived
  posted,   \* [key -> components operations has booked]
  woff,     \* the written-off amount operations has booked, or None
  shares,   \* [key -> how funding has shared it]
  call, faults, lapses

vars == <<status, lock, row, paid, bal, pen, posted, woff, shares, call, faults, lapses>>
books == <<paid, bal>>
outside == <<posted, woff, shares>>

Free == "free"
None == -1
ASSUME NameAssumption == Free \notin Calls /\ None \notin Keys

Parts == DOMAIN Due
NoParts == [i \in Parts |-> 0]
SumOf(f) == Total(f, DOMAIN f)
AtLeast0(n) == IF n > 0 THEN n ELSE 0
Least(a, b) == IF a < b THEN a ELSE b

\* A call that starts: at pc, for key k, on row r, with the loan as la, of amount n.
Fresh(pc, k, r, la, n) == [pc |-> pc, key |-> k, row |-> r, left |-> {}, la |-> la, n |-> n]
Idle == Fresh("idle", None, None, "NONE", 0)
NoRow == [st |-> "NONE", pens |-> 0, parts |-> NoParts, excess |-> 0,
          recovery |-> FALSE, settled |-> "no"]

\* validTransitions, of a loan that was disbursed and is never restructured.
validTransitions ==
  {<<"ACTIVE", "DELINQUENT">>, <<"ACTIVE", "PAID_OFF">>,
   <<"DELINQUENT", "DEFAULT">>, <<"DELINQUENT", "ACTIVE">>, <<"DELINQUENT", "PAID_OFF">>,
   <<"DEFAULT", "WRITTEN_OFF">>, <<"DEFAULT", "PAID_OFF">>,
   <<"PAID_OFF", "CLOSED">>, <<"WRITTEN_OFF", "CLOSED">>}

isRepayableStatus(s) == s \in {"ACTIVE", "DELINQUENT", "DEFAULT", "WRITTEN_OFF"}

Init ==
  /\ status = "ACTIVE" /\ lock = Free
  /\ row = [k \in Keys |-> NoRow]
  /\ paid = NoParts
  /\ bal = [owed |-> SumOf(Due), pens |-> 0, total |-> SumOf(Due), paid |-> 0]
  /\ pen = [saved |-> FALSE, charged |-> FALSE, waived |-> FALSE]
  /\ posted = [k \in Keys |-> {}] /\ woff = None /\ shares = [k \in Keys |-> {}]
  /\ call = [c \in Calls |-> Idle]
  /\ faults = MaxFaults /\ lapses = 0

At(c, pc) == call[c].pc = pc
To(c, pc) == call' = [call EXCEPT ![c].pc = pc]
Begin(c, pc, k, la) ==
  /\ At(c, "idle")
  /\ call' = [call EXCEPT ![c] = Fresh(pc, k, k, la, 0)]

\* ReleaseRepaymentLock: only its own lease.
Unlock(c) == lock' = IF lock = c THEN Free ELSE lock
Return(c) == call' = [call EXCEPT ![c] = Idle]

\* ClaimStatus: only from the status that was read.
ClaimStatus(from, to) == status' = IF status = from THEN to ELSE status

------------------------------------------------------------------------------
(* A repayment *)

Unapplied == {k \in Keys : row[k].st = "RECORDED"}

\* waterfallAllocate: the penalties on the balance, then the installments in
\* order, each up to what it still asks for; the rest is excess.
waterfallAllocate(amount) ==
  LET pens == Least(bal.pens, amount)
      open == [i \in Parts |-> AtLeast0(Due[i] - paid[i])]
      before(i) == Total(open, {j \in Parts : j < i})
      parts == [i \in Parts |-> Least(open[i], AtLeast0(amount - pens - before(i)))]
  IN [pens |-> pens, parts |-> parts, excess |-> amount - pens - SumOf(parts)]

\* Record reads the loan and the row of the key, if there is one.
Record(c, k) ==
  /\ row[k].st # "APPLIED"
  /\ Begin(c, "lock", k, status)
  /\ UNCHANGED <<status, lock, row, books, pen, outside, faults, lapses>>

\* The next row the call works on: one of S, which it owes to finish first,
\* or, with the loan as la, its own.
FinishOr(c, S, la) ==
  LET own == call[c].key IN
  IF S = {} THEN call' = [call EXCEPT ![c] = [@ EXCEPT !.row = own, !.pc = "record",
                                                       !.la = la, !.left = {}]]
  ELSE \E k \in S : call' = [call EXCEPT ![c] = [@ EXCEPT !.row = k, !.pc = "post",
                                                          !.left = S]]

\* Mutant: earlier repayments that are still unapplied are passed over.
PlanSkipsUnapplied(c) ==
  LET own == call[c].key IN
  IF row[own].st # "NONE" THEN To(c, "post") ELSE FinishOr(c, {}, call[c].la)

\* The row of the key is resumed; else the unapplied repayments of the loan are
\* finished first.
Plan(c) ==
  LET own == call[c].key IN
  IF row[own].st # "NONE" THEN To(c, "post") ELSE FinishOr(c, Unapplied, call[c].la)

\* ClaimRepaymentLock: a loan whose lease is held refuses the repayment.
ClaimRepaymentLock(c) ==
  /\ At(c, "lock")
  /\ IF lock = Free THEN lock' = c /\ Plan(c) ELSE lock' = lock /\ Return(c)
  /\ UNCHANGED <<status, row, books, pen, outside, faults, lapses>>

\* The allocation, and ClaimIdempotencyKey: the row stands as first written.
RecordRow(c) ==
  LET k == call[c].key
      a == waterfallAllocate(Pay[k]) IN
  /\ At(c, "record")
  /\ IF isRepayableStatus(call[c].la)
       THEN /\ row' = [row EXCEPT ![k] = IF @.st # "NONE" THEN @ ELSE
                 [st |-> "RECORDED", pens |-> a.pens, parts |-> a.parts, excess |-> a.excess,
                  recovery |-> call[c].la = "WRITTEN_OFF", settled |-> "no"]]
            /\ To(c, "post") /\ UNCHANGED lock
       ELSE Unlock(c) /\ Return(c) /\ UNCHANGED row
  /\ UNCHANGED <<status, books, pen, outside, faults, lapses>>

\* The transfer orders a row calls for, in the order they are emitted.
Components(r) ==
  (IF SumOf(r.parts) > 0 THEN {"installments"} ELSE {})
    \union (IF r.pens > 0 THEN {"penalties"} ELSE {})
    \union (IF r.excess > 0 THEN {"excess"} ELSE {})

\* finishRepayment ends, or goes on to the next repayment of its list.
Finished(c) ==
  IF call[c].row # call[c].key
    THEN FinishOr(c, call[c].left \ {call[c].row}, status) /\ UNCHANGED lock
    ELSE Unlock(c) /\ Return(c)

\* emitRepaymentTransferOrders: each keyed on the idempotency key and its name.
PostOrders(c) ==
  LET k == call[c].row IN
  /\ At(c, "post")
  /\ posted' = [posted EXCEPT ![k] = @ \union Components(row[k])]
  /\ To(c, "apply")
  /\ UNCHANGED <<status, lock, row, books, pen, woff, shares, faults, lapses>>

\* Mutant: a component that did not post is only logged.
PostFailsOnwards(c) ==
  LET k == call[c].row IN
  /\ At(c, "post") /\ faults > 0 /\ faults' = faults - 1
  /\ \E S \in {{}, {"installments"}, {"installments", "penalties"}} :
       posted' = [posted EXCEPT ![k] = @ \union (S \intersect Components(row[k]))]
  /\ To(c, "apply")
  /\ UNCHANGED <<status, lock, row, books, pen, woff, shares, lapses>>

\* A component does not post: the repayment stays unapplied.
PostFails(c) ==
  LET k == call[c].row IN
  /\ At(c, "post") /\ faults > 0 /\ faults' = faults - 1
  /\ \E S \in {{}, {"installments"}, {"installments", "penalties"}} :
       posted' = [posted EXCEPT ![k] = @ \union (S \intersect Components(row[k]))]
  /\ Unlock(c) /\ Return(c)
  /\ UNCHANGED <<status, row, books, pen, woff, shares, lapses>>

\* Mutant: a row that another call has applied is applied again.
ApplyAgain(c) ==
  LET k == call[c].row
      r == row[k]
      sum == SumOf(r.parts) + r.pens IN
  /\ At(c, "apply")
  /\ row' = [row EXCEPT ![k].st = "APPLIED"]
  /\ paid' = [i \in Parts |-> paid[i] + r.parts[i]]
  /\ bal' = [owed |-> AtLeast0(bal.owed - SumOf(r.parts)),
             pens |-> AtLeast0(bal.pens - r.pens),
             total |-> AtLeast0(bal.total - sum), paid |-> bal.paid + sum]
  /\ To(c, IF bal'.total = 0 THEN "payoff" ELSE "settle")
  /\ UNCHANGED <<status, lock, pen, outside, faults, lapses>>

\* RepaymentApplier.Apply, one transaction: the mark on the row, the
\* installments, the balance, no column of it below zero. A row already applied
\* changes nothing, and its consequences are left to the call that applied it.
Apply(c) ==
  LET k == call[c].row
      r == row[k]
      sum == SumOf(r.parts) + r.pens IN
  /\ At(c, "apply")
  /\ IF r.st = "APPLIED" THEN Finished(c) /\ UNCHANGED <<row, books>>
     ELSE /\ row' = [row EXCEPT ![k].st = "APPLIED"]
          /\ paid' = [i \in Parts |-> paid[i] + r.parts[i]]
          /\ bal' = [owed |-> AtLeast0(bal.owed - SumOf(r.parts)),
                     pens |-> AtLeast0(bal.pens - r.pens),
                     total |-> AtLeast0(bal.total - sum), paid |-> bal.paid + sum]
          /\ To(c, IF bal'.total = 0 THEN "payoff" ELSE "settle")
          /\ UNCHANGED lock
  /\ UNCHANGED <<status, pen, outside, faults, lapses>>

\* Mutant: the loan row is saved as it was read.
PayOffSaves(c) ==
  /\ At(c, "payoff")
  /\ status' = IF call[c].la = "WRITTEN_OFF" THEN "CLOSED" ELSE "PAID_OFF"
  /\ call' = [call EXCEPT ![c].pc = "settle", ![c].la = status']
  /\ UNCHANGED <<lock, row, books, pen, outside, faults, lapses>>

\* afterRepaymentApplied, of a loan that owes nothing: PAID_OFF when the status
\* it was read with allows it, CLOSED when it was written off. A lost claim
\* leaves the copy of the loan as it was read.
PayOff(c) ==
  LET la == call[c].la
      to == IF la = "WRITTEN_OFF" THEN "CLOSED" ELSE "PAID_OFF"
      claimed == <<la, to>> \in validTransitions /\ status = la IN
  /\ At(c, "payoff")
  /\ status' = IF claimed THEN to ELSE status
  /\ call' = [call EXCEPT ![c].pc = "settle", ![c].la = IF claimed THEN to ELSE la]
  /\ UNCHANGED <<lock, row, books, pen, outside, faults, lapses>>

------------------------------------------------------------------------------
(* The funders' shares *)

\* A call of Settle goes back to its repayment; a run of the job ends.
Settled(c) == IF call[c].key = None THEN Return(c) /\ UNCHANGED lock ELSE Finished(c)

\* What a repayment is settled as: with the share funding keeps, or with a note
\* that says why there is none. A call at one of them is about to mark it so.
Settlements == {"shared", "noted"}

\* FundingSettlement.Settle up to its answer. Funding keeps a share once under its
\* reference, a recovery for whoever bore the loss. It may refuse one for good, and
\* what holds no interest or principal is not sent to it: both are noted.
Settle(c) ==
  LET k == call[c].row
      r == row[k]
      how == IF r.recovery \/ call[c].la = "WRITTEN_OFF" THEN "recovery" ELSE "repayment" IN
  /\ At(c, "settle")
  /\ \/ /\ SumOf(r.parts) > 0
        /\ shares' = [shares EXCEPT ![k] = @ \union {how}] /\ To(c, "shared")
     \/ To(c, "noted") /\ UNCHANGED shares
  /\ UNCHANGED <<status, lock, row, books, pen, posted, woff, faults, lapses>>

\* Funding does not answer, before or after it kept the share, has not posted it
\* yet, or the mark fails: the job retries.
SettleFails(c) ==
  /\ call[c].pc \in {"settle"} \union Settlements /\ faults > 0 /\ faults' = faults - 1
  /\ Settled(c)
  /\ UNCHANGED <<status, row, books, pen, outside, lapses>>

MarkFundingSettled(c) ==
  /\ call[c].pc \in Settlements
  /\ row' = [row EXCEPT ![call[c].row].settled = call[c].pc]
  /\ Settled(c)
  /\ UNCHANGED <<status, books, pen, outside, faults, lapses>>

\* RunBatch: an applied repayment not yet settled, and its loan as it is now.
SettlementJob(c, k) ==
  /\ row[k].st = "APPLIED" /\ row[k].settled = "no"
  /\ At(c, "idle")
  /\ call' = [call EXCEPT ![c] = Fresh("settle", None, k, status, 0)]
  /\ UNCHANGED <<status, lock, row, books, pen, outside, faults, lapses>>

------------------------------------------------------------------------------
(* The penalty *)

\* Save up to the claim of the installment's slot and the accrual: a penalty
\* already charged or waived is answered as it is.
SavePenalty(c) ==
  /\ ~pen.charged /\ ~pen.waived
  /\ pen' = [pen EXCEPT !.saved = TRUE]
  /\ Begin(c, "charge", None, "NONE")
  /\ UNCHANGED <<status, lock, row, books, outside, faults, lapses>>

\* ChargeBalanceOnce: the marker on the row and the balance together.
ChargeBalanceOnce(c) ==
  /\ At(c, "charge")
  /\ IF pen.charged \/ pen.waived THEN UNCHANGED <<pen, bal>>
     ELSE /\ pen' = [pen EXCEPT !.charged = TRUE]
          /\ bal' = [bal EXCEPT !.pens = @ + Penalty, !.total = @ + Penalty]
  /\ Return(c)
  /\ UNCHANGED <<status, lock, row, paid, outside, faults, lapses>>

\* Waive up to ClaimWaiver, which asks only that nobody waived it before.
Waive(c) ==
  /\ pen.saved /\ ~pen.waived
  /\ pen' = [pen EXCEPT !.waived = TRUE]
  /\ Begin(c, "release", None, "NONE")
  /\ UNCHANGED <<status, lock, row, books, outside, faults, lapses>>

\* ApplyPenaltyDelta of a waiver: each column on its own stops at zero.
ReleasePenalty(c) ==
  /\ At(c, "release")
  /\ bal' = [bal EXCEPT !.pens = AtLeast0(@ - Penalty), !.total = AtLeast0(@ - Penalty)]
  /\ Return(c)
  /\ UNCHANGED <<status, lock, row, paid, pen, outside, faults, lapses>>

------------------------------------------------------------------------------
(* The status of the loan *)

\* The delinquency run: a loan with an installment unpaid falls into arrears
\* and into default, one that caught up on an installment is cured.
Assess ==
  /\ \/ /\ \E i \in Parts : paid[i] < Due[i]
        /\ \/ status = "ACTIVE" /\ status' = "DELINQUENT"
           \/ status = "DELINQUENT" /\ status' = "DEFAULT"
     \/ /\ \E i \in Parts : paid[i] >= Due[i]
        /\ status = "DELINQUENT" /\ status' = "ACTIVE"
  /\ UNCHANGED <<lock, row, books, pen, outside, call, faults, lapses>>

\* Approve of a write-off reads the loan, and the balance for the cascade. One
\* already written off is only closed.
WriteOff(c) ==
  /\ status \in {"DEFAULT", "WRITTEN_OFF"}
  /\ At(c, "idle")
  /\ call' = [call EXCEPT ![c] = Fresh(IF status = "DEFAULT" THEN "book" ELSE "close",
                                      None, None, "NONE", bal.owed)]
  /\ UNCHANGED <<status, lock, row, books, pen, outside, faults, lapses>>

\* postWriteOffLedgerCascade and absorbWriteOffLoss, keyed on the loan.
BookWriteOff(c) ==
  /\ At(c, "book")
  /\ woff' = IF woff = None THEN call[c].n ELSE woff
  /\ To(c, "claim")
  /\ UNCHANGED <<status, lock, row, books, pen, posted, shares, faults, lapses>>

\* TransitionStatus to WRITTEN_OFF, claimed from the status it validated.
ClaimWriteOff(c) ==
  /\ At(c, "claim")
  /\ ClaimStatus("DEFAULT", "WRITTEN_OFF")
  /\ IF status = "DEFAULT" THEN To(c, "close") ELSE Return(c)
  /\ UNCHANGED <<lock, row, books, pen, outside, faults, lapses>>

\* TransitionStatus to CLOSED, from whatever it reads.
CloseLoan(c) ==
  /\ At(c, "close")
  /\ status' = IF <<status, "CLOSED">> \in validTransitions THEN "CLOSED" ELSE status
  /\ Return(c)
  /\ UNCHANGED <<lock, row, books, pen, outside, faults, lapses>>

------------------------------------------------------------------------------
(* Faults *)

\* A call dies, or its database call fails: nothing later of it happens, and
\* its lease runs out before anyone is let in.
Die(c) ==
  /\ ~At(c, "idle") /\ faults > 0
  /\ faults' = faults - 1
  /\ Unlock(c) /\ Return(c)
  /\ UNCHANGED <<status, row, books, pen, outside, lapses>>

\* A repayment takes longer than its lease.
Lapse ==
  /\ lock # Free /\ lapses < MaxLapses
  /\ lock' = Free /\ lapses' = lapses + 1
  /\ UNCHANGED <<status, row, books, pen, outside, call, faults>>

Step(c) ==
  \/ ClaimRepaymentLock(c) \/ RecordRow(c) \/ PostOrders(c) \/ PostFails(c)
  \/ Apply(c) \/ PayOff(c) \/ Settle(c) \/ SettleFails(c) \/ MarkFundingSettled(c)
  \/ ChargeBalanceOnce(c) \/ ReleasePenalty(c)
  \/ BookWriteOff(c) \/ ClaimWriteOff(c) \/ CloseLoan(c) \/ Die(c)

Next ==
  \/ \E c \in Calls :
       \/ Step(c) \/ SavePenalty(c) \/ Waive(c) \/ WriteOff(c)
       \/ \E k \in Keys : Record(c, k) \/ SettlementJob(c, k)
  \/ Assess \/ Lapse

Spec == Init /\ [][Next]_vars

------------------------------------------------------------------------------
(* Properties *)

Sums == 0..(SumOf(Pay) + SumOf(Due) + Penalty)

\* Shape of the loan, its rows and its balance; no column of the balance is
\* ever below zero, whatever is waived or applied twice over.
TypeOK ==
  /\ status \in {s[1] : s \in validTransitions} \union {"CLOSED"}
  /\ lock \in Calls \union {Free}
  /\ row \in [Keys -> [st : {"NONE", "RECORDED", "APPLIED"}, pens : 0..Penalty,
                       parts : [Parts -> Sums], excess : Sums,
                       recovery : BOOLEAN, settled : {"no"} \union Settlements]]
  /\ paid \in [Parts -> Sums]
  /\ bal \in [owed : Sums, pens : 0..Penalty, total : Sums, paid : Sums]
  /\ pen \in [saved : BOOLEAN, charged : BOOLEAN, waived : BOOLEAN]
  /\ posted \in [Keys -> SUBSET {"installments", "penalties", "excess"}]
  /\ woff \in Sums \union {None}
  /\ shares \in [Keys -> SUBSET {"repayment", "recovery"}]
  /\ faults \in 0..MaxFaults /\ lapses \in 0..MaxLapses

Applied == {k \in Keys : row[k].st = "APPLIED"}
Recorded == {k \in Keys : row[k].st # "NONE"}
PensOf == [k \in Keys |-> row[k].pens]
PartsOf == [k \in Keys |-> SumOf(row[k].parts)]
PartOn(i) == [k \in Keys |-> row[k].parts[i]]

\* A repayment moves the installments and the balance exactly once, however
\* often it is resumed and by whom (repayment_apply.go: the mark on the row is
\* the claim): what is paid is the sum of the applied rows.
PaidIsApplied ==
  /\ TypeOK
  /\ \A i \in Parts : paid[i] = Total(PartOn(i), Applied)
  /\ bal.paid = Total(PensOf, Applied) + Total(PartsOf, Applied)

\* "two payments never allocate against the same installments"
\* (repayment.go:163), one of them stranded between its row and its
\* application included, as long as no repayment outlives its lease: no
\* installment and no penalty is paid beyond what it asks for, and the balance
\* still owes the rest.
AllocatedOnce ==
  lapses = 0 =>
    /\ \A i \in Parts : Total(PartOn(i), Recorded) <= Due[i]
    /\ Total(PensOf, Recorded) <= Penalty
    /\ bal.owed = SumOf(Due) - Total(PartsOf, Applied)

\* What the rows and the status say has happened elsewhere. "A failed posting
\* never leaves installments paid" (repayment.go:608): a repayment counts only when
\* operations has booked each of its components; it is settled without a note only
\* when funding has its share, a refusal for good and a payment with nothing to
\* share being "recorded on the repayment" (funding_settlement.go:77-80), and
\* funders are handed a recovery only of a loss that is booked; the loan is
\* written off only when its loss is booked, since "claiming first would strand it in WRITTEN_OFF"
\* (loan_account.go:923); and it is PAID_OFF only when nothing was left on its
\* installments, while no penalty is waived and no repayment outlives its lease:
\* the balance that is decided on is older than the claim of the status.
StatusFollowsMoney ==
  /\ \A k \in Applied : posted[k] = Components(row[k])
  /\ \A k \in Keys : row[k].settled = "shared" => shares[k] # {}
  /\ \A k \in Keys : "recovery" \in shares[k] => woff # None
  /\ status = "WRITTEN_OFF" => woff # None
  /\ status = "PAID_OFF" /\ ~pen.waived /\ lapses = 0 => bal.owed = 0

\* Whoever moves the loan, and however stale the copy it decided on, the status
\* only makes moves of the state machine (ClaimStatus).
FollowsTransitions == [][status' = status \/ <<status, status'>> \in validTransitions]_vars
=============================================================================
