------------------------ MODULE LoanRepayment_proofs ------------------------
(***************************************************************************)
(* Proofs about LoanRepayment for every set of payments, every schedule,    *)
(* any number of calls and any bound on the faults: a repayment moves the   *)
(* books exactly once; no installment and no penalty is paid beyond what it *)
(* asks for while no repayment outlives its lease; what a row or the status *)
(* says has happened at operations and funding has; and the status only     *)
(* makes moves of the state machine.                                        *)
(***************************************************************************)
EXTENDS LoanRepayment, Sums_proofs

Statuses == {"ACTIVE", "DELINQUENT", "DEFAULT", "WRITTEN_OFF", "PAID_OFF", "CLOSED"}
\* A call at one of Working acts on a row; a repayment does so under its lease.
Working == {"record", "post", "apply", "payoff", "settle", "shared", "noted"}
Pcs == Working \union {"idle", "lock", "charge", "release", "book", "claim", "close"}

RowShape == [st : {"NONE", "RECORDED", "APPLIED"}, pens : 0..Penalty, parts : [Parts -> Nat],
             excess : Nat, recovery : BOOLEAN, settled : {"no"} \union Settlements]
CallShape == [pc : Pcs, key : Keys \union {None}, row : Keys \union {None},
              left : SUBSET Keys, la : Statuses \union {"NONE"}, n : 0..SumOf(Due)]

Shapes ==
  /\ status \in Statuses /\ lock \in Calls \union {Free}
  /\ row \in [Keys -> RowShape]
  /\ paid \in [Parts -> Nat]
  /\ bal \in [owed : 0..SumOf(Due), pens : 0..Penalty, total : Nat, paid : Nat]
  /\ pen \in [saved : BOOLEAN, charged : BOOLEAN, waived : BOOLEAN]
  /\ posted \in [Keys -> SUBSET {"installments", "penalties", "excess"}]
  /\ woff \in 0..SumOf(Due) \union {None}
  /\ shares \in [Keys -> SUBSET {"repayment", "recovery"}]
  /\ call \in [Calls -> CallShape]
  /\ faults \in 0..MaxFaults /\ lapses \in 0..MaxLapses

\* A row never allocates more than its payment, and an unborn one nothing.
RowSound(k) ==
  /\ row[k].st = "NONE" => row[k] = NoRow
  /\ row[k].pens + SumOf(row[k].parts) + row[k].excess <= Pay[k]
  /\ posted[k] \subseteq Components(row[k])
  /\ row[k].st = "APPLIED" => posted[k] = Components(row[k])
  /\ row[k].settled # "no" => row[k].st = "APPLIED"
  /\ row[k].settled = "shared" => shares[k] # {}

\* What a call relies on at each of its steps.
CallSound(c) ==
  LET x == call[c] IN
  /\ x.pc \in {"lock", "record", "post", "apply", "payoff"} => x.key \in Keys
  /\ x.pc \in Working => x.row \in Keys
  /\ x.key = None \/ x.pc \in {"lock"} \union Working
  /\ x.pc \in {"lock", "record"} => x.row = x.key
  /\ x.pc \in {"post", "apply"} => row[x.row].st # "NONE"
  /\ x.pc = "apply" => posted[x.row] = Components(row[x.row])
  /\ x.pc \in {"payoff", "settle", "shared", "noted"} => row[x.row].st = "APPLIED"
  /\ x.pc = "shared" => shares[x.row] # {}
  /\ x.pc = "claim" => woff # None
  /\ \A k \in x.left : row[k].st # "NONE"

\* What is paid is the sum of the applied rows.
PaidSums ==
  /\ \A i \in Parts : paid[i] = Total(PartOn(i), Applied)
  /\ SumOf(paid) = Total(PartsOf, Applied)
  /\ bal.paid = Total(PensOf, Applied) + Total(PartsOf, Applied)

Charged == IF pen.charged THEN Penalty ELSE 0
BalanceSound ==
  /\ bal.total <= SumOf(Due) + Charged
  /\ ~pen.charged => bal.pens = 0
  /\ status = "WRITTEN_OFF" => woff # None

\* A loan is taken for written off only once its loss is booked.
Recoveries ==
  /\ \A k \in Keys : row[k].recovery \/ "recovery" \in shares[k] => woff # None
  /\ \A c \in Calls : call[c].la = "WRITTEN_OFF" => woff # None

\* While no repayment has outlived its lease.
Leased(c) ==
  LET x == call[c] IN
  /\ x.pc \in Working /\ x.key # None => lock = c
  /\ x.pc = "record" => Unapplied = {}
  /\ x.pc \in {"post", "apply"} /\ x.row # x.key => Unapplied \subseteq x.left
  /\ x.pc \in {"payoff", "settle", "shared", "noted"} /\ x.key # None /\ x.row # x.key =>
       Unapplied \subseteq x.left \ {x.row}
  /\ x.pc = "payoff" /\ ~pen.waived => bal.owed = 0
  /\ x.pc = "release" => pen.waived
LeasedMoney ==
  /\ \A i \in Parts : Total(PartOn(i), Recorded) <= Due[i]
  /\ bal.owed = SumOf(Due) - Total(PartsOf, Applied)
  /\ Total(PensOf, Recorded) <= Charged
  /\ bal.pens + Total(PensOf, Applied) <= Charged
  /\ ~pen.waived => /\ bal.pens + Total(PensOf, Applied) = Charged
                    /\ bal.total = bal.owed + bal.pens
  /\ status = "PAID_OFF" /\ ~pen.waived => bal.owed = 0

LoanInv ==
  /\ Shapes
  /\ \A k \in Keys : RowSound(k)
  /\ \A c \in Calls : CallSound(c)
  /\ PaidSums /\ BalanceSound /\ Recoveries
  /\ lapses = 0 => (\A c \in Calls : Leased(c)) /\ LeasedMoney
-----------------------------------------------------------------------------
(* The waterfall *)

\* The installments are finitely many, each with something due.
LEMMA PartsAreFinite ==
  /\ IsFiniteSet(Parts) /\ Parts = 1..Len(Due) /\ Len(Due) \in Nat
  /\ Due \in [Parts -> Nat \ {0}]
  <1>1. Due \in Seq(Nat \ {0})
    BY AmountAssumption
  <1>2. Parts = 1..Len(Due) /\ Len(Due) \in Nat /\ Due \in [1..Len(Due) -> Nat \ {0}]
    BY <1>1 DEF Parts
  <1> QED
    BY <1>2, FS_Interval

\* The waterfall gives the installments before any n what is there to give, up
\* to what they ask for.
LEMMA WaterfallPours ==
  ASSUME NEW open, open \in [Parts -> Nat], NEW a \in Nat,
         NEW parts, parts = [i \in Parts |->
           Least(open[i], AtLeast0(a - Total(open, {j \in Parts : j < i})))]
  PROVE  parts \in [Parts -> Nat] /\ SumOf(parts) \in Nat /\ SumOf(parts) <= a
  <1> DEFINE B(n) == {j \in Parts : j < n}
             T == {n \in Nat : Total(parts, B(n)) = Least(a, Total(open, B(n)))}
  <1>1. \A n : IsFiniteSet(B(n)) /\ B(n) \subseteq Parts
    BY PartsAreFinite, FS_Subset
  <1>2. \A n : Amounts(open, B(n)) /\ Whole(open, B(n))
    BY DEF Amounts, Whole
  <1>3. \A n : Total(open, B(n)) \in Nat
    <2> TAKE n
    <2>1. B(n) \in SUBSET B(n)
      OBVIOUS
    <2> QED
      BY <1>1, <1>2, <2>1, TotalPart
  <1>4. parts \in [Parts -> Nat]
    <2> SUFFICES ASSUME NEW i \in Parts PROVE parts[i] \in Nat
      OBVIOUS
    <2>1. parts[i] = Least(open[i], AtLeast0(a - Total(open, B(i))))
      OBVIOUS
    <2>2. PICK t \in Nat : t = Total(open, B(i))
      BY <1>3
    <2>3. open[i] \in Nat /\ AtLeast0(a - t) \in Nat
      BY DEF AtLeast0
    <2>4. parts[i] = Least(open[i], AtLeast0(a - t))
      BY <2>1, <2>2
    <2> HIDE DEF B
    <2> QED
      BY <2>3, <2>4 DEF Least
  <1>5. \A n : Amounts(parts, B(n)) /\ Whole(parts, B(n))
    BY <1>4 DEF Amounts, Whole
  <1>6. 0 \in T
    <2>1. B(0) = {}
      BY PartsAreFinite
    <2>2. Total(parts, B(0)) = 0 /\ Total(open, B(0)) = 0
      BY <2>1, TotalEmpty
    <2> HIDE DEF B
    <2> QED
      BY <2>2 DEF Least
  <1>7. ASSUME NEW n \in T PROVE n + 1 \in T
    <2>1. n \in Nat /\ Total(parts, B(n)) = Least(a, Total(open, B(n)))
      OBVIOUS
    <2>2. CASE n \in Parts
      <3>1. B(n + 1) = B(n) \union {n} /\ n \notin B(n)
        BY <2>2, PartsAreFinite
      <3>2. open[n] \in Nat /\ parts[n] \in Nat
            /\ parts[n] = Least(open[n], AtLeast0(a - Total(open, B(n))))
        BY <2>2, <1>4
      <3> HIDE DEF B
      <3>3. Total(open, B(n) \union {n}) = Total(open, B(n)) + open[n]
        BY <3>1, <3>2, <1>1, <1>2, TotalInsert
      <3>4. Total(parts, B(n) \union {n}) = Total(parts, B(n)) + parts[n]
        BY <3>1, <3>2, <1>1, <1>5, TotalInsert
      <3>5. Total(open, B(n)) \in Nat
        BY <1>3
      <3>6. Total(parts, B(n) \union {n}) = Least(a, Total(open, B(n) \union {n}))
        BY <2>1, <3>2, <3>3, <3>4, <3>5 DEF Least, AtLeast0
      <3>7. Total(parts, B(n + 1)) = Least(a, Total(open, B(n + 1)))
        BY <3>1, <3>6
      <3> QED
        BY <2>1, <3>7
    <2>3. CASE n \notin Parts
      <3>1. B(n + 1) = B(n)
        BY <2>3, <2>1, PartsAreFinite
      <3> QED
        BY <2>1, <3>1
    <2> QED
      BY <2>2, <2>3
  <1>8. T = Nat
    <2> HIDE DEF T
    <2>1. T \subseteq Nat
      BY DEF T
    <2> QED
      BY <1>6, <1>7, <2>1, EveryNatural
  <1>9. B(Len(Due) + 1) = Parts /\ DOMAIN parts = Parts
    BY <1>4, PartsAreFinite
  <1>10. Total(parts, B(Len(Due) + 1)) = Least(a, Total(open, B(Len(Due) + 1)))
    <2>1. Len(Due) + 1 \in T
      <3> HIDE DEF T
      <3> QED
        BY <1>8, PartsAreFinite
    <2> HIDE DEF B
    <2> QED
      BY <2>1
  <1>11. SumOf(parts) = Least(a, Total(open, Parts)) /\ Total(open, Parts) \in Nat
    BY <1>9, <1>10, <1>3 DEF SumOf
  <1> QED
    BY <1>4, <1>11 DEF Least

\* An allocation takes from the penalties and from each installment no more than
\* is open, and adds up to the payment.
LEMMA WaterfallFits ==
  ASSUME paid \in [Parts -> Nat], bal.pens \in Nat, NEW a \in Nat
  PROVE  LET w == waterfallAllocate(a) IN
         /\ w = [pens |-> w.pens, parts |-> w.parts, excess |-> w.excess]
         /\ w.pens \in Nat /\ w.pens <= bal.pens
         /\ w.parts \in [Parts -> Nat] /\ SumOf(w.parts) \in Nat
         /\ \A i \in Parts : w.parts[i] <= AtLeast0(Due[i] - paid[i])
         /\ w.excess \in Nat
         /\ w.pens + SumOf(w.parts) + w.excess = a
  <1> DEFINE w == waterfallAllocate(a)
             pens == Least(bal.pens, a)
             open == [i \in Parts |-> AtLeast0(Due[i] - paid[i])]
             parts == [i \in Parts |-> Least(open[i], AtLeast0(a - pens - Total(open, {j \in Parts : j < i})))]
  <1>1. w = [pens |-> pens, parts |-> parts, excess |-> a - pens - SumOf(parts)]
    BY DEF waterfallAllocate
  <1>2. pens \in Nat /\ pens <= bal.pens /\ pens <= a
    BY DEF Least
  <1>3. open \in [Parts -> Nat]
    BY PartsAreFinite DEF AtLeast0
  <1>4. /\ parts \in [Parts -> Nat] /\ SumOf(parts) \in Nat /\ SumOf(parts) <= a - pens
    <2>1. a - pens \in Nat
      BY <1>2
    <2> HIDE DEF open, pens
    <2> QED
      BY <1>3, <2>1, WaterfallPours
  <1>5. \A i \in Parts : Total(open, {j \in Parts : j < i}) \in Int
    <2> TAKE i \in Parts
    <2>1. IsFiniteSet({j \in Parts : j < i}) /\ Whole(open, {j \in Parts : j < i})
      BY <1>3, PartsAreFinite, FS_Subset DEF Whole
    <2> QED
      BY <2>1, TotalType
  <1>6. \A i \in Parts : parts[i] <= AtLeast0(Due[i] - paid[i])
    <2> TAKE i \in Parts
    <2>1. parts[i] = Least(open[i], AtLeast0(a - pens - Total(open, {j \in Parts : j < i})))
          /\ open[i] \in Nat /\ open[i] = AtLeast0(Due[i] - paid[i])
      BY <1>3
    <2> HIDE DEF open, pens, parts
    <2> QED
      BY <2>1, <1>2, <1>5 DEF Least, AtLeast0
  <1> HIDE DEF w, pens, parts
  <1>7. w.pens = pens /\ w.parts = parts /\ w.excess = a - pens - SumOf(parts)
        /\ w = [pens |-> w.pens, parts |-> w.parts, excess |-> w.excess]
    BY <1>1
  <1> QED
    BY <1>2, <1>4, <1>6, <1>7 DEF w
-----------------------------------------------------------------------------
(* The shape of the loan, its rows and the calls under way *)

\* An allocation over the installments has a sum.
LEMMA PartsSum ==
  ASSUME NEW parts, parts \in [Parts -> Nat]
  PROVE  SumOf(parts) \in Nat /\ \A i \in Parts : parts[i] <= SumOf(parts)
  <1>1. DOMAIN parts = Parts /\ Amounts(parts, Parts) /\ IsFiniteSet(Parts)
    BY PartsAreFinite DEF Amounts
  <1>2. Total(parts, Parts) \in Nat
    BY <1>1, TotalPart
  <1>3. ASSUME NEW i \in Parts PROVE parts[i] <= Total(parts, Parts)
    <2>1. Total(parts, {i}) <= Total(parts, Parts)
      BY <1>1, TotalPart
    <2>2. Total(parts, {i}) = parts[i]
      BY TotalOne
    <2> QED
      BY <2>1, <2>2
  <1> QED
    BY <1>1, <1>2, <1>3 DEF SumOf

\* A row that is not written allocates nothing and calls for no order.
LEMMA NothingIsDue == SumOf(NoParts) = 0 /\ NoParts \in [Parts -> Nat] /\ Components(NoRow) = {}
  <1>1. SumOf(NoParts) = 0
    BY PartsAreFinite, TotalNone DEF SumOf, NoParts
  <1> QED
    BY <1>1 DEF Components, NoRow, NoParts

\* What the schedule asks for has a sum.
LEMMA DueSum == SumOf(Due) \in Nat
  BY PartsAreFinite, PartsSum

\* A loan just disbursed has the shape the steps keep.
LEMMA InitShapes == Init => Shapes
  BY NothingIsDue, DueSum, AmountAssumption, BoundAssumption
     DEF Init, Shapes, Statuses, RowShape, CallShape, Pcs, Idle, Fresh, NoRow

\* A call goes on, or ends.
LEMMA GoesOn ==
  ASSUME call \in [Calls -> CallShape], NEW c \in Calls, NEW pc \in Pcs, To(c, pc)
  PROVE  call' \in [Calls -> CallShape]
  BY DEF To, CallShape

\* A call that ends, with or without its lease.
LEMMA Ends ==
  ASSUME call \in [Calls -> CallShape], NEW c \in Calls, Return(c)
  PROVE  call' \in [Calls -> CallShape]
  BY DueSum DEF Return, CallShape, Idle, Fresh, Pcs

\* A call that begins.
LEMMA Begins ==
  ASSUME call \in [Calls -> CallShape], NEW c \in Calls, NEW pc \in Pcs,
         NEW k \in Keys \union {None}, NEW la \in Statuses \union {"NONE"}, Begin(c, pc, k, la)
  PROVE  call' \in [Calls -> CallShape]
  BY DueSum DEF Begin, Fresh, CallShape

\* A call that goes on with the rows it has left.
LEMMA FinishesOr ==
  ASSUME call \in [Calls -> CallShape], NEW c \in Calls, NEW S \in SUBSET Keys,
         NEW la \in Statuses \union {"NONE"}, FinishOr(c, S, la)
  PROVE  call' \in [Calls -> CallShape]
  <1>1. CASE S = {}
    <2> DEFINE new == [call[c] EXCEPT !.row = call[c].key, !.pc = "record", !.la = la, !.left = {}]
    <2>1. new \in CallShape
      BY DEF CallShape, Pcs, Working
    <2>2. call' = [call EXCEPT ![c] = new]
      BY <1>1 DEF FinishOr
    <2> QED
      BY <2>1, <2>2
  <1>2. CASE S # {}
    <2>1. PICK k \in S : call' = [call EXCEPT ![c] = [@ EXCEPT !.row = k, !.pc = "post", !.left = S]]
      BY <1>2 DEF FinishOr
    <2>2. [call[c] EXCEPT !.row = k, !.pc = "post", !.left = S] \in CallShape
      BY DEF CallShape, Pcs, Working
    <2> QED
      BY <2>1, <2>2
  <1> QED
    BY <1>1, <1>2

\* A call that is through with a row.
LEMMA FinishedShape ==
  ASSUME Shapes, NEW c \in Calls, Finished(c)
  PROVE  call' \in [Calls -> CallShape] /\ lock' \in Calls \union {Free}
  <1>1. CASE call[c].row # call[c].key
    <2>1. call[c].left \ {call[c].row} \in SUBSET Keys
      BY DEF Shapes, CallShape
    <2> QED
      BY <1>1, <2>1, FinishesOr DEF Finished, Shapes
  <1>2. CASE call[c].row = call[c].key
    BY <1>2, Ends DEF Finished, Unlock, Shapes
  <1> QED
    BY <1>1, <1>2

\* A call that is through with the shares of a row.
LEMMA SettledShape ==
  ASSUME Shapes, NEW c \in Calls, Settled(c)
  PROVE  call' \in [Calls -> CallShape] /\ lock' \in Calls \union {Free}
  BY FinishedShape, Ends DEF Settled, Shapes

\* The claim of the lease, and what the call does next.
LEMMA ClaimRepaymentLockShape ==
  ASSUME Shapes, NEW c \in Calls, ClaimRepaymentLock(c)
  PROVE  call' \in [Calls -> CallShape] /\ lock' \in Calls \union {Free}
  <1>1. CASE lock = Free
    <2>1. Unapplied \in SUBSET Keys /\ call[c].la \in Statuses \union {"NONE"}
      BY DEF Unapplied, Shapes, CallShape
    <2>2. "post" \in Pcs
      BY DEF Pcs, Working
    <2> QED
      BY <1>1, <2>1, <2>2, GoesOn, FinishesOr DEF ClaimRepaymentLock, Plan, Shapes
  <1>2. CASE lock # Free
    BY <1>2, Ends DEF ClaimRepaymentLock, Shapes
  <1> QED
    BY <1>1, <1>2

\* The allocation of a payment.
LEMMA RecordRowShape ==
  ASSUME Shapes, NEW c \in Calls, RecordRow(c), call[c].key \in Keys
  PROVE  /\ row' \in [Keys -> RowShape] /\ call' \in [Calls -> CallShape]
         /\ lock' \in Calls \union {Free}
  <1> DEFINE k == call[c].key
             a == waterfallAllocate(Pay[k])
  <1>1. CASE isRepayableStatus(call[c].la)
    <2>1. /\ a.pens \in 0..Penalty /\ a.parts \in [Parts -> Nat] /\ a.excess \in Nat
      <3>1. Pay[k] \in Nat /\ bal.pens \in 0..Penalty /\ paid \in [Parts -> Nat]
        BY AmountAssumption DEF Shapes
      <3> QED
        BY <3>1, AmountAssumption, WaterfallFits
    <2> HIDE DEF a
    <2> DEFINE new == [st |-> "RECORDED", pens |-> a.pens, parts |-> a.parts, excess |-> a.excess,
                       recovery |-> call[c].la = "WRITTEN_OFF", settled |-> "no"]
    <2>2. new \in RowShape
      BY <2>1 DEF RowShape
    <2>3. row' = [row EXCEPT ![k] = IF row[k].st # "NONE" THEN row[k] ELSE new]
      BY <1>1 DEF RecordRow, a
    <2>4. row' \in [Keys -> RowShape]
      <3> HIDE DEF new
      <3> QED
        BY <2>2, <2>3 DEF Shapes
    <2>5. "post" \in Pcs
      BY DEF Pcs, Working
    <2> QED
      BY <1>1, <2>4, <2>5, GoesOn DEF RecordRow, Shapes
  <1>2. CASE ~isRepayableStatus(call[c].la)
    BY <1>2, Ends DEF RecordRow, Shapes, Unlock
  <1> QED
    BY <1>1, <1>2

\* The application of a row; no column falls below zero.
LEMMA ApplyShape ==
  ASSUME Shapes, NEW c \in Calls, Apply(c), call[c].row \in Keys
  PROVE  /\ row' \in [Keys -> RowShape] /\ call' \in [Calls -> CallShape]
         /\ paid' \in [Parts -> Nat]
         /\ bal' \in [owed : 0..SumOf(Due), pens : 0..Penalty, total : Nat, paid : Nat]
         /\ lock' \in Calls \union {Free}
  <1> DEFINE k == call[c].row
             r == row[k]
             sum == SumOf(r.parts) + r.pens
  <1>1. CASE r.st = "APPLIED"
    BY <1>1, FinishedShape DEF Apply, books, Shapes
  <1>2. CASE r.st # "APPLIED"
    <2>1. r.parts \in [Parts -> Nat] /\ r.pens \in Nat
      BY AmountAssumption DEF Shapes, RowShape
    <2>2. SumOf(r.parts) \in Nat
      BY <2>1, PartsSum
    <2>3. row' = [row EXCEPT ![k].st = "APPLIED"]
          /\ paid' = [i \in Parts |-> paid[i] + r.parts[i]]
          /\ bal' = [owed |-> AtLeast0(bal.owed - SumOf(r.parts)),
                     pens |-> AtLeast0(bal.pens - r.pens),
                     total |-> AtLeast0(bal.total - sum), paid |-> bal.paid + sum]
          /\ To(c, IF bal'.total = 0 THEN "payoff" ELSE "settle") /\ lock' = lock
      BY <1>2 DEF Apply
    <2>4. row' \in [Keys -> RowShape]
      <3>1. r \in RowShape
        BY DEF Shapes
      <3>2. [r EXCEPT !.st = "APPLIED"] \in RowShape
        BY <3>1 DEF RowShape
      <3> QED
        BY <2>3, <3>2 DEF Shapes
    <2>5. paid' \in [Parts -> Nat]
      BY <2>1, <2>3 DEF Shapes
    <2>6. bal.owed \in 0..SumOf(Due) /\ bal.pens \in 0..Penalty /\ bal.total \in Nat /\ bal.paid \in Nat
      BY DEF Shapes
    <2>7. bal' \in [owed : 0..SumOf(Due), pens : 0..Penalty, total : Nat, paid : Nat]
      <3> HIDE DEF r
      <3>1. AtLeast0(bal.owed - SumOf(r.parts)) \in 0..SumOf(Due)
        BY <2>2, <2>6, DueSum DEF AtLeast0
      <3>2. AtLeast0(bal.pens - r.pens) \in 0..Penalty
        BY <2>1, <2>6, AmountAssumption DEF AtLeast0
      <3>3. AtLeast0(bal.total - sum) \in Nat /\ bal.paid + sum \in Nat
        BY <2>1, <2>2, <2>6 DEF AtLeast0
      <3> QED
        BY <2>3, <3>1, <3>2, <3>3
    <2>8. (IF bal'.total = 0 THEN "payoff" ELSE "settle") \in Pcs
      BY DEF Pcs, Working
    <2>9. call' \in [Calls -> CallShape]
      BY <2>3, <2>8, GoesOn DEF Shapes
    <2> QED
      BY <2>3, <2>4, <2>5, <2>7, <2>9 DEF Shapes
  <1> QED
    BY <1>1, <1>2

\* Every step keeps the shape of the loan.
LEMMA ShapesKept ==
  ASSUME LoanInv, [Next]_vars
  PROVE  Shapes'
  <1> USE DEF LoanInv
  <1>1. ASSUME NEW c \in Calls, ClaimRepaymentLock(c) PROVE Shapes'
    BY <1>1, ClaimRepaymentLockShape DEF ClaimRepaymentLock, Shapes, books, outside
  <1>2. ASSUME NEW c \in Calls, RecordRow(c) PROVE Shapes'
    <2>1. call[c].key \in Keys
      BY <1>2 DEF RecordRow, At, CallSound
    <2> QED
      BY <1>2, <2>1, RecordRowShape DEF RecordRow, Shapes, books, outside
  <1>3. ASSUME NEW c \in Calls, PostOrders(c) \/ PostFails(c) PROVE Shapes'
    <2>1. call' \in [Calls -> CallShape]
      <3>1. "apply" \in Pcs
        BY DEF Pcs, Working
      <3> QED
        BY <1>3, <3>1, GoesOn, Ends DEF PostOrders, PostFails, Shapes
    <2>2. posted' \in [Keys -> SUBSET {"installments", "penalties", "excess"}]
      BY <1>3 DEF PostOrders, PostFails, Shapes, Components
    <2>3. lock' \in Calls \union {Free} /\ faults' \in 0..MaxFaults
      BY <1>3, BoundAssumption DEF PostOrders, PostFails, Unlock, Shapes
    <2> QED
      BY <1>3, <2>1, <2>2, <2>3 DEF PostOrders, PostFails, Shapes, books
  <1>4. ASSUME NEW c \in Calls, Apply(c) PROVE Shapes'
    <2>1. call[c].row \in Keys
      BY <1>4 DEF Apply, At, CallSound, Working
    <2> QED
      BY <1>4, <2>1, ApplyShape DEF Apply, Shapes, outside
  <1>5. ASSUME NEW c \in Calls, PayOff(c) PROVE Shapes'
    <2> DEFINE la == call[c].la
               to == IF la = "WRITTEN_OFF" THEN "CLOSED" ELSE "PAID_OFF"
               la2 == IF <<la, to>> \in validTransitions /\ status = la THEN to ELSE la
    <2>1. la2 \in Statuses \union {"NONE"} /\ status' \in Statuses
      BY <1>5 DEF PayOff, Shapes, CallShape, Statuses
    <2>2. call' = [call EXCEPT ![c] = [call[c] EXCEPT !.pc = "settle", !.la = la2]]
      BY <1>5 DEF PayOff
    <2> HIDE DEF la2
    <2>3. call[c] \in CallShape
      BY DEF Shapes
    <2>4. [call[c] EXCEPT !.pc = "settle", !.la = la2] \in CallShape
      BY <2>1, <2>3 DEF CallShape, Pcs, Working
    <2>5. call' \in [Calls -> CallShape]
      BY <2>2, <2>4 DEF Shapes
    <2>6. UNCHANGED <<lock, row, paid, bal, pen, posted, woff, shares, faults, lapses>>
      BY <1>5 DEF PayOff, books, outside
    <2> QED
      BY <2>1, <2>5, <2>6 DEF Shapes
  <1>6. ASSUME NEW c \in Calls, Settle(c) PROVE Shapes'
    <2>1. "shared" \in Pcs /\ "noted" \in Pcs
      BY DEF Pcs, Working, Settlements
    <2>2. call' \in [Calls -> CallShape]
      BY <1>6, <2>1, GoesOn DEF Settle, Shapes
    <2>3. shares' \in [Keys -> SUBSET {"repayment", "recovery"}]
      BY <1>6 DEF Settle, Shapes
    <2> QED
      BY <1>6, <2>2, <2>3 DEF Settle, Shapes, books
  <1>7. ASSUME NEW c \in Calls, SettleFails(c) PROVE Shapes'
    BY <1>7, SettledShape, BoundAssumption DEF SettleFails, Shapes, books, outside
  <1>8. ASSUME NEW c \in Calls, MarkFundingSettled(c) PROVE Shapes'
    <2>1. call[c].row \in Keys /\ call[c].pc \in Settlements
      BY <1>8 DEF MarkFundingSettled, CallSound, Working, Settlements
    <2>2. row[call[c].row] \in RowShape
      BY <2>1 DEF Shapes
    <2>3. [row[call[c].row] EXCEPT !.settled = call[c].pc] \in RowShape
      BY <2>1, <2>2 DEF RowShape
    <2>4. row' \in [Keys -> RowShape]
      BY <1>8, <2>1, <2>3 DEF MarkFundingSettled, Shapes
    <2> QED
      BY <1>8, <2>4, SettledShape DEF MarkFundingSettled, Shapes, books, outside
  <1>9. ASSUME NEW c \in Calls, ChargeBalanceOnce(c) PROVE Shapes'
    <2>1. call' \in [Calls -> CallShape]
      BY <1>9, Ends DEF ChargeBalanceOnce, Shapes
    <2>2. bal.total + Penalty \in Nat /\ (~pen.charged => bal.pens + Penalty \in 0..Penalty)
      BY AmountAssumption DEF Shapes, BalanceSound
    <2>3. bal' \in [owed : 0..SumOf(Due), pens : 0..Penalty, total : Nat, paid : Nat]
      BY <1>9, <2>2 DEF ChargeBalanceOnce, Shapes
    <2>4. pen' \in [saved : BOOLEAN, charged : BOOLEAN, waived : BOOLEAN]
      BY <1>9 DEF ChargeBalanceOnce, Shapes
    <2> QED
      BY <1>9, <2>1, <2>3, <2>4 DEF ChargeBalanceOnce, Shapes, outside
  <1>10. ASSUME NEW c \in Calls, ReleasePenalty(c) PROVE Shapes'
    <2>1. call' \in [Calls -> CallShape]
      BY <1>10, Ends DEF ReleasePenalty, Shapes
    <2>2. AtLeast0(bal.pens - Penalty) \in 0..Penalty /\ AtLeast0(bal.total - Penalty) \in Nat
      BY AmountAssumption DEF Shapes, AtLeast0
    <2>3. bal' \in [owed : 0..SumOf(Due), pens : 0..Penalty, total : Nat, paid : Nat]
      BY <1>10, <2>2 DEF ReleasePenalty, Shapes
    <2> QED
      BY <1>10, <2>1, <2>3 DEF ReleasePenalty, Shapes, outside
  <1>11. ASSUME NEW c \in Calls, BookWriteOff(c) PROVE Shapes'
    <2>1. "claim" \in Pcs
      BY DEF Pcs
    <2>2. call' \in [Calls -> CallShape]
      BY <1>11, <2>1, GoesOn DEF BookWriteOff, Shapes
    <2>3. woff' \in 0..SumOf(Due) \union {None}
      BY <1>11 DEF BookWriteOff, Shapes, CallShape
    <2> QED
      BY <1>11, <2>2, <2>3 DEF BookWriteOff, Shapes, books
  <1>12. ASSUME NEW c \in Calls, ClaimWriteOff(c) PROVE Shapes'
    <2>1. "close" \in Pcs
      BY DEF Pcs
    <2>2. call' \in [Calls -> CallShape]
      BY <1>12, <2>1, GoesOn, Ends DEF ClaimWriteOff, Shapes
    <2>3. status' \in Statuses
      BY <1>12 DEF ClaimWriteOff, ClaimStatus, Shapes, Statuses
    <2> QED
      BY <1>12, <2>2, <2>3 DEF ClaimWriteOff, Shapes, books, outside
  <1>13. ASSUME NEW c \in Calls, CloseLoan(c) PROVE Shapes'
    <2>1. status' \in Statuses
      BY <1>13 DEF CloseLoan, Shapes, Statuses
    <2> QED
      BY <1>13, <2>1, Ends DEF CloseLoan, Shapes, books, outside
  <1>14. ASSUME NEW c \in Calls, Die(c) PROVE Shapes'
    BY <1>14, Ends, BoundAssumption DEF Die, Unlock, Shapes, books, outside
  <1>15. ASSUME NEW c \in Calls, SavePenalty(c) \/ Waive(c) PROVE Shapes'
    <2>1. "charge" \in Pcs /\ "release" \in Pcs
      BY DEF Pcs
    <2>2. call' \in [Calls -> CallShape]
      BY <1>15, <2>1, Begins DEF SavePenalty, Waive, Shapes
    <2>3. pen' \in [saved : BOOLEAN, charged : BOOLEAN, waived : BOOLEAN]
      BY <1>15 DEF SavePenalty, Waive, Shapes
    <2> QED
      BY <1>15, <2>2, <2>3 DEF SavePenalty, Waive, Shapes, books, outside
  <1>16. ASSUME NEW c \in Calls, WriteOff(c) PROVE Shapes'
    <2> DEFINE new == Fresh(IF status = "DEFAULT" THEN "book" ELSE "close",
                            None, None, "NONE", bal.owed)
    <2>1. new \in CallShape
      BY DEF Fresh, Shapes, CallShape, Pcs
    <2>2. call' = [call EXCEPT ![c] = new]
      BY <1>16 DEF WriteOff
    <2> HIDE DEF new
    <2> QED
      BY <1>16, <2>1, <2>2 DEF WriteOff, Shapes, books, outside
  <1>17. ASSUME NEW c \in Calls, NEW k \in Keys, Record(c, k) PROVE Shapes'
    <2>1. "lock" \in Pcs /\ status \in Statuses
      BY DEF Pcs, Shapes
    <2>2. call' \in [Calls -> CallShape]
      BY <1>17, <2>1, Begins DEF Record, Shapes
    <2> QED
      BY <1>17, <2>2 DEF Record, Shapes, books, outside
  <1>18. ASSUME NEW c \in Calls, NEW k \in Keys, SettlementJob(c, k) PROVE Shapes'
    <2> DEFINE new == Fresh("settle", None, k, status, 0)
    <2>1. new \in CallShape
      BY DueSum DEF Fresh, Shapes, CallShape, Pcs, Working
    <2>2. call' = [call EXCEPT ![c] = new]
      BY <1>18 DEF SettlementJob
    <2> HIDE DEF new
    <2> QED
      BY <1>18, <2>1, <2>2 DEF SettlementJob, Shapes, books, outside
  <1>19. CASE Assess
    BY <1>19 DEF Assess, Shapes, Statuses, books, outside
  <1>20. CASE Lapse
    BY <1>20, BoundAssumption DEF Lapse, Shapes, books, outside
  <1>21. CASE UNCHANGED vars
    BY <1>21 DEF vars, Shapes, books, outside
  <1> QED
    BY <1>1, <1>2, <1>3, <1>4, <1>5, <1>6, <1>7, <1>8, <1>9, <1>10, <1>11, <1>12, <1>13, <1>14,
       <1>15, <1>16, <1>17, <1>18, <1>19, <1>20, <1>21 DEF Next, Step

-----------------------------------------------------------------------------
(* Rows and calls *)

\* A row, once written, keeps its allocation; what is done for it stays done.
RowsGrow ==
  /\ \A k \in Keys : row[k].st # "NONE" =>
       /\ row'[k].st # "NONE"
       /\ row'[k].parts = row[k].parts /\ row'[k].pens = row[k].pens
       /\ row'[k].excess = row[k].excess
       /\ posted[k] = Components(row[k]) => posted'[k] = Components(row'[k])
  /\ \A k \in Keys : row[k].st = "APPLIED" => row'[k].st = "APPLIED"
  /\ \A k \in Keys : shares[k] \subseteq shares'[k]
  /\ woff # None => woff' # None

\* What a step that records row k finds and leaves.
NewRow(k, new) ==
  /\ row[k].st = "NONE" /\ row' = [row EXCEPT ![k] = new]
  /\ new \in RowShape /\ new.st = "RECORDED" /\ new.settled = "no"
  /\ new.pens <= bal.pens
  /\ \A i \in Parts : new.parts[i] <= AtLeast0(Due[i] - paid[i])
  /\ new.pens + SumOf(new.parts) + new.excess = Pay[k]

\* RecordRow leaves the rows alone or writes one, within what is open.
LEMMA RecordsARow ==
  ASSUME Shapes, NEW c \in Calls, RecordRow(c), call[c].key \in Keys
  PROVE  UNCHANGED row \/ \E new : NewRow(call[c].key, new)
  <1> DEFINE k == call[c].key
             a == waterfallAllocate(Pay[k])
             new == [st |-> "RECORDED", pens |-> a.pens, parts |-> a.parts, excess |-> a.excess,
                     recovery |-> call[c].la = "WRITTEN_OFF", settled |-> "no"]
  <1>1. /\ a.pens \in 0..Penalty /\ a.parts \in [Parts -> Nat] /\ a.excess \in Nat
        /\ a.pens <= bal.pens
        /\ \A i \in Parts : a.parts[i] <= AtLeast0(Due[i] - paid[i])
        /\ a.pens + SumOf(a.parts) + a.excess = Pay[k]
    <2>1. Pay[k] \in Nat /\ bal.pens \in 0..Penalty /\ paid \in [Parts -> Nat]
      BY AmountAssumption DEF Shapes
    <2> QED
      BY <2>1, AmountAssumption, WaterfallFits
  <1>2. CASE isRepayableStatus(call[c].la) /\ row[k].st = "NONE"
    <2>1. row' = [row EXCEPT ![k] = new]
      BY <1>2 DEF RecordRow
    <2> HIDE DEF a
    <2>2. new \in RowShape
      BY <1>1 DEF RowShape
    <2>3. NewRow(k, new)
      BY <1>1, <1>2, <2>1, <2>2 DEF NewRow
    <2> QED
      BY <2>3
  <1>3. CASE ~(isRepayableStatus(call[c].la) /\ row[k].st = "NONE")
    BY <1>3 DEF RecordRow, Shapes
  <1> QED
    BY <1>2, <1>3

\* The orders a row calls for only depend on its allocation.
LEMMA SameAllocation ==
  ASSUME NEW r, NEW s, s.parts = r.parts, s.pens = r.pens, s.excess = r.excess
  PROVE  Components(s) = Components(r)
  BY DEF Components

\* The steps that leave the rows, the orders and the shares alone.
RowsStill == UNCHANGED <<row, posted, shares>> /\ (woff # None => woff' # None)

\* A step that leaves the rows alone takes nothing back from them.
LEMMA StillGrows ==
  ASSUME RowsStill
  PROVE  RowsGrow
  BY DEF RowsStill, RowsGrow

\* Every step keeps each row sound, and takes nothing back from it.
LEMMA RowsKept ==
  ASSUME LoanInv, [Next]_vars
  PROVE  RowsGrow /\ \A k \in Keys : RowSound(k)'
  <1> USE DEF LoanInv
  <1>1. CASE RowsStill
    BY <1>1, StillGrows DEF RowsStill, RowSound, PartsOf, Components
  <1>2. ASSUME NEW c \in Calls, RecordRow(c) PROVE RowsGrow /\ \A k \in Keys : RowSound(k)'
    <2>1. call[c].key \in Keys
      BY <1>2 DEF RecordRow, At, CallSound
    <2>2. CASE UNCHANGED row
      BY <1>2, <2>2, <1>1 DEF RowsStill, RecordRow, outside
    <2>3. CASE \E new : NewRow(call[c].key, new)
      <3>0. PICK k \in Keys : k = call[c].key
        BY <2>1
      <3>1. PICK new : NewRow(k, new)
        BY <2>3, <3>0
      <3>2. /\ row' = [row EXCEPT ![k] = new] /\ row[k].st = "NONE" /\ row'[k] = new
            /\ \A j \in Keys : j # k => row'[j] = row[j]
        BY <2>1, <3>1 DEF NewRow, Shapes
      <3>3. UNCHANGED <<posted, shares, woff>>
        BY <1>2 DEF RecordRow, outside
      <3>4. RowsGrow
        BY <3>2, <3>3 DEF RowsGrow
      <3>5. RowSound(k)'
        <4>1. posted[k] = {}
          BY <2>1, <3>2, NothingIsDue DEF RowSound
        <4>2. new.pens + SumOf(new.parts) + new.excess = Pay[k] /\ Pay[k] \in Nat
          BY <2>1, <3>1, AmountAssumption DEF NewRow
        <4> QED
          BY <3>1, <3>2, <3>3, <4>1, <4>2 DEF RowSound, NewRow
      <3>6. \A j \in Keys : j # k => RowSound(j)'
        BY <3>2, <3>3 DEF RowSound, PartsOf
      <3> QED
        BY <3>4, <3>5, <3>6
    <2> QED
      BY <1>2, <2>1, <2>2, <2>3, RecordsARow
  <1>3. ASSUME NEW c \in Calls, PostOrders(c) \/ PostFails(c)
        PROVE  RowsGrow /\ \A k \in Keys : RowSound(k)'
    <2>1. PICK k \in Keys : k = call[c].row
      BY <1>3 DEF PostOrders, PostFails, At, CallSound, Working
    <2>2. UNCHANGED <<row, shares, woff>>
      BY <1>3 DEF PostOrders, PostFails
    <2>3. PICK S \in SUBSET Components(row[k]) : posted' = [posted EXCEPT ![k] = @ \union S]
      BY <1>3, <2>1 DEF PostOrders, PostFails
    <2>4. posted'[k] = posted[k] \union S /\ \A j \in Keys : j # k => posted'[j] = posted[j]
      BY <2>1, <2>3 DEF Shapes
    <2>5. \A j \in Keys : posted[j] \subseteq Components(row[j])
      BY DEF RowSound
    <2>6. \A j \in Keys : /\ posted'[j] \subseteq Components(row'[j])
                          /\ posted[j] = Components(row[j]) => posted'[j] = Components(row'[j])
      BY <2>2, <2>3, <2>4, <2>5
    <2>7. RowsGrow
      BY <2>2, <2>6 DEF RowsGrow
    <2> QED
      BY <2>2, <2>6, <2>7 DEF RowSound, PartsOf
  <1>4. ASSUME NEW c \in Calls, Apply(c) PROVE RowsGrow /\ \A k \in Keys : RowSound(k)'
    <2>1. PICK k \in Keys : k = call[c].row /\ row[k].st # "NONE" /\ posted[k] = Components(row[k])
      BY <1>4 DEF Apply, At, CallSound, Working
    <2>2. CASE row[k].st = "APPLIED"
      BY <1>4, <2>1, <2>2, <1>1 DEF RowsStill, Apply, outside
    <2>3. CASE row[k].st # "APPLIED"
      <3>1. row' = [row EXCEPT ![k].st = "APPLIED"] /\ UNCHANGED <<posted, shares, woff>>
        BY <1>4, <2>1, <2>3 DEF Apply, outside
      <3>2. row[k] \in RowShape
        BY <2>1 DEF Shapes
      <3>3. /\ row'[k].st = "APPLIED" /\ row'[k].parts = row[k].parts /\ row'[k].pens = row[k].pens
            /\ row'[k].excess = row[k].excess /\ row'[k].settled = row[k].settled
            /\ \A j \in Keys : j # k => row'[j] = row[j]
        BY <2>1, <3>1, <3>2 DEF Shapes, RowShape
      <3>4. Components(row'[k]) = Components(row[k])
        BY <3>3 DEF Components
      <3>5. RowsGrow
        BY <2>1, <3>1, <3>3, <3>4 DEF RowsGrow
      <3>6. RowSound(k)'
        BY <2>1, <3>1, <3>3, <3>4 DEF RowSound, PartsOf
      <3>7. \A j \in Keys : j # k => RowSound(j)'
        BY <3>1, <3>3 DEF RowSound, PartsOf
      <3> QED
        BY <3>5, <3>6, <3>7
    <2> QED
      BY <2>2, <2>3
  <1>5. ASSUME NEW c \in Calls, Settle(c) PROVE RowsGrow /\ \A k \in Keys : RowSound(k)'
    <2>1. UNCHANGED <<row, posted, woff>>
      BY <1>5 DEF Settle
    <2>2. \A k \in Keys : shares[k] \subseteq shares'[k]
      BY <1>5 DEF Settle, Shapes
    <2>3. RowsGrow
      BY <2>1, <2>2 DEF RowsGrow
    <2> QED
      BY <2>1, <2>2, <2>3 DEF RowSound, PartsOf
  <1>6. ASSUME NEW c \in Calls, MarkFundingSettled(c)
        PROVE  RowsGrow /\ \A k \in Keys : RowSound(k)'
    <2>1. PICK k \in Keys :
            k = call[c].row /\ row[k].st = "APPLIED" /\ (call[c].pc = "shared" => shares[k] # {})
      BY <1>6 DEF MarkFundingSettled, CallSound, Working, Settlements
    <2>2. row' = [row EXCEPT ![k].settled = call[c].pc] /\ UNCHANGED <<posted, shares, woff>>
      BY <1>6, <2>1 DEF MarkFundingSettled, outside
    <2>3. row[k] \in RowShape
      BY <2>1 DEF Shapes
    <2>4. /\ row'[k].st = row[k].st /\ row'[k].parts = row[k].parts /\ row'[k].pens = row[k].pens
          /\ row'[k].excess = row[k].excess /\ row'[k].settled = call[c].pc
          /\ \A j \in Keys : j # k => row'[j] = row[j]
      BY <2>1, <2>2, <2>3 DEF Shapes, RowShape
    <2>5. Components(row'[k]) = Components(row[k])
      BY <2>4 DEF Components
    <2>6. RowsGrow
      BY <2>2, <2>4, <2>5 DEF RowsGrow
    <2>7. RowSound(k)'
      BY <2>1, <2>2, <2>4, <2>5 DEF RowSound
    <2>8. \A j \in Keys : j # k => RowSound(j)'
      BY <2>2, <2>4 DEF RowSound, PartsOf
    <2> QED
      BY <2>6, <2>7, <2>8
  <1>7. ASSUME NEW c \in Calls, BookWriteOff(c) PROVE RowsStill
    BY <1>7 DEF BookWriteOff, RowsStill
  <1>8. ASSUME NEW c \in Calls,
               \/ ClaimRepaymentLock(c) \/ PayOff(c) \/ SettleFails(c) \/ ChargeBalanceOnce(c)
               \/ ReleasePenalty(c) \/ ClaimWriteOff(c) \/ CloseLoan(c) \/ Die(c)
        PROVE  RowsStill
    BY <1>8 DEF RowsStill, outside, ClaimRepaymentLock, PayOff, SettleFails, ChargeBalanceOnce,
                ReleasePenalty, ClaimWriteOff, CloseLoan, Die
  <1>9. ASSUME NEW c \in Calls, SavePenalty(c) \/ Waive(c) \/ WriteOff(c) PROVE RowsStill
    BY <1>9 DEF RowsStill, outside, SavePenalty, Waive, WriteOff
  <1>10. ASSUME NEW c \in Calls, NEW k \in Keys, Record(c, k) \/ SettlementJob(c, k) PROVE RowsStill
    BY <1>10 DEF RowsStill, outside, Record, SettlementJob
  <1>11. CASE Assess \/ Lapse \/ UNCHANGED vars
    <2>1. RowsStill
      BY <1>11 DEF RowsStill, outside, Assess, Lapse, vars
    <2> QED
      BY <2>1, <1>1
  <1> QED
    BY <1>1, <1>2, <1>3, <1>4, <1>5, <1>6, <1>7, <1>8, <1>9, <1>10, <1>11 DEF Next, Step

\* What a call relies on survives the steps of the others.
LEMMA OthersKeep ==
  ASSUME Shapes, RowsGrow, NEW d \in Calls, CallSound(d), call'[d] = call[d]
  PROVE  CallSound(d)'
  <1> DEFINE x == call[d]
  <1>1. x \in CallShape
    BY DEF Shapes
  <1>2. x.pc \in Working => x.row \in Keys
    BY DEF CallSound
  <1>3. x.pc \in {"post", "apply"} =>
          x.row \in Keys /\ row[x.row].st # "NONE" /\ row'[x.row].st # "NONE"
    BY <1>2 DEF CallSound, Working, RowsGrow
  <1>4. x.pc = "apply" => posted'[x.row] = Components(row'[x.row])
    BY <1>3 DEF CallSound, RowsGrow
  <1>5. x.pc \in {"payoff", "settle", "shared", "noted"} => row'[x.row].st = "APPLIED"
    BY <1>2 DEF CallSound, Working, RowsGrow
  <1>6. x.pc = "shared" => shares'[x.row] # {}
    BY <1>2 DEF CallSound, Working, Settlements, RowsGrow
  <1>7. \A k \in x.left : row'[k].st # "NONE"
    BY <1>1 DEF CallShape, CallSound, RowsGrow
  <1>8. x.pc = "claim" => woff' # None
    BY DEF CallSound, RowsGrow
  <1>9. /\ x.pc \in {"lock", "record", "post", "apply", "payoff"} => x.key \in Keys
        /\ x.key = None \/ x.pc \in {"lock"} \union Working
        /\ x.pc \in {"lock", "record"} => x.row = x.key
    BY DEF CallSound
  <1> HIDE DEF x
  <1>10. call'[d] = x
    BY DEF x
  <1> QED
    BY <1>2, <1>3, <1>4, <1>5, <1>6, <1>7, <1>8, <1>9, <1>10 DEF CallSound

\* A call that has ended relies on nothing.
LEMMA IdleSound ==
  ASSUME NEW c \in Calls, call'[c] = Idle
  PROVE  CallSound(c)'
  BY DEF CallSound, Idle, Fresh, Working

\* The next row of a call is one that is written.
LEMMA FinishOrSound ==
  ASSUME Shapes, RowsGrow, NEW c \in Calls, NEW la, NEW S \in SUBSET Keys,
         FinishOr(c, S, la), \A k \in S : row[k].st # "NONE", call[c].key \in Keys
  PROVE  CallSound(c)'
  <1>1. call[c] \in CallShape
    BY DEF Shapes
  <1>2. CASE S = {}
    <2>1. /\ call'[c].pc = "record" /\ call'[c].row = call[c].key /\ call'[c].key = call[c].key
          /\ call'[c].left = {}
      <3>1. call' = [call EXCEPT ![c] = [call[c] EXCEPT !.row = call[c].key, !.pc = "record",
                                                       !.la = la, !.left = {}]]
        BY <1>2 DEF FinishOr
      <3>2. call'[c] = [call[c] EXCEPT !.row = call[c].key, !.pc = "record", !.la = la, !.left = {}]
        BY <3>1 DEF Shapes
      <3> QED
        BY <1>1, <3>2 DEF CallShape
    <2> QED
      BY <2>1 DEF CallSound, Working
  <1>3. CASE S # {}
    <2>1. PICK k \in S : call' = [call EXCEPT ![c] = [@ EXCEPT !.row = k, !.pc = "post", !.left = S]]
      BY <1>3 DEF FinishOr
    <2>2. call'[c].pc = "post" /\ call'[c].row = k /\ call'[c].key = call[c].key /\ call'[c].left = S
      BY <1>1, <2>1 DEF CallShape, Shapes
    <2>3. \A j \in S : row'[j].st # "NONE"
      BY DEF RowsGrow
    <2> QED
      BY <2>2, <2>3 DEF CallSound, Working
  <1> QED
    BY <1>2, <1>3

\* Finishing a row, a call goes on with those it has left, or ends.
LEMMA FinishedSound ==
  ASSUME Shapes, RowsGrow, NEW c \in Calls, CallSound(c), Finished(c), call[c].key # None
  PROVE  CallSound(c)'
  <1>1. CASE call[c].row # call[c].key
    <2>1. call[c].key \in Keys /\ call[c].left \in SUBSET Keys
      BY DEF Shapes, CallShape
    <2>2. call[c].left \ {call[c].row} \in SUBSET Keys
          /\ \A k \in call[c].left \ {call[c].row} : row[k].st # "NONE"
      BY <2>1 DEF CallSound
    <2> QED
      BY <1>1, <2>1, <2>2, FinishOrSound DEF Finished
  <1>2. CASE call[c].row = call[c].key
    BY <1>2, IdleSound DEF Finished, Return, Shapes
  <1> QED
    BY <1>1, <1>2

\* A call that is through with the shares goes on soundly, or ends.
LEMMA SettledSound ==
  ASSUME Shapes, RowsGrow, NEW c \in Calls, CallSound(c), Settled(c)
  PROVE  CallSound(c)'
  BY FinishedSound, IdleSound DEF Settled, Return, Shapes

\* A call that goes on to pc with everything else as it was.
LEMMA Goes ==
  ASSUME Shapes, NEW c \in Calls, NEW pc, To(c, pc)
  PROVE  /\ call'[c].pc = pc /\ call'[c].key = call[c].key /\ call'[c].row = call[c].row
         /\ call'[c].left = call[c].left /\ call'[c].la = call[c].la
  BY DEF To, Shapes, CallShape

\* The steps of one call.
Moves(c) ==
  \/ Step(c) \/ SavePenalty(c) \/ Waive(c) \/ WriteOff(c)
  \/ \E k \in Keys : Record(c, k) \/ SettlementJob(c, k)

\* Only one call moves.
LEMMA OneMoves ==
  ASSUME Shapes, NEW c \in Calls, Moves(c)
  PROVE  \A d \in Calls : d # c => call'[d] = call[d]
  BY DEF Moves, Step, ClaimRepaymentLock, RecordRow, PostOrders, PostFails, Apply, PayOff,
         Settle, SettleFails, MarkFundingSettled, ChargeBalanceOnce, ReleasePenalty, BookWriteOff,
         ClaimWriteOff, CloseLoan, Die, SavePenalty, Waive, WriteOff, Record, SettlementJob,
         To, Return, Begin, Plan, FinishOr, Finished, Settled, Shapes

\* Each step of a call establishes what its next step relies on.
LEMMA MoverSound ==
  ASSUME LoanInv, RowsGrow, NEW c \in Calls, Moves(c)
  PROVE  CallSound(c)'
  <1> USE DEF LoanInv
  <1>0. CallSound(c) /\ call[c] \in CallShape
    BY DEF Shapes
  <1>1. CASE ClaimRepaymentLock(c)
    <2>1. call[c].key \in Keys
      BY <1>1 DEF ClaimRepaymentLock, At, CallSound
    <2>2. CASE lock = Free /\ row[call[c].key].st # "NONE"
      <3>1. To(c, "post") /\ UNCHANGED row
        BY <1>1, <2>2 DEF ClaimRepaymentLock, Plan
      <3>2. call[c].row = call[c].key /\ \A j \in call[c].left : row[j].st # "NONE"
        BY <1>0, <1>1 DEF ClaimRepaymentLock, At, CallSound
      <3> QED
        BY <2>1, <2>2, <3>1, <3>2, Goes DEF CallSound, Working
    <2>3. CASE lock = Free /\ row[call[c].key].st = "NONE"
      <3>1. FinishOr(c, Unapplied, call[c].la)
        BY <1>1, <2>3 DEF ClaimRepaymentLock, Plan
      <3>2. Unapplied \in SUBSET Keys /\ \A k \in Unapplied : row[k].st # "NONE"
        BY DEF Unapplied
      <3> QED
        BY <2>1, <3>1, <3>2, FinishOrSound
    <2>4. CASE lock # Free
      BY <1>1, <2>4, IdleSound DEF ClaimRepaymentLock, Return, Shapes
    <2> QED
      BY <2>2, <2>3, <2>4
  <1>2. CASE RecordRow(c)
    <2>1. call[c].key \in Keys /\ call[c].row = call[c].key /\ call[c].pc = "record"
      BY <1>2 DEF RecordRow, At, CallSound
    <2>2. CASE isRepayableStatus(call[c].la)
      <3>1. To(c, "post")
        BY <1>2, <2>2 DEF RecordRow
      <3>2. row'[call[c].key].st # "NONE"
        BY <1>2, <2>1, <2>2 DEF RecordRow, Shapes
      <3>3. \A k \in call[c].left : row'[k].st # "NONE"
        BY <1>0 DEF CallSound, RowsGrow, CallShape
      <3> QED
        BY <2>1, <3>1, <3>2, <3>3, Goes DEF CallSound, Working
    <2>3. CASE ~isRepayableStatus(call[c].la)
      BY <1>2, <2>3, IdleSound DEF RecordRow, Return, Shapes
    <2> QED
      BY <2>2, <2>3
  <1>3. CASE PostOrders(c)
    <2> DEFINE k == call[c].row
    <2>1. k \in Keys /\ row[k].st # "NONE" /\ call[c].key \in Keys /\ call[c].pc = "post"
      BY <1>3 DEF PostOrders, At, CallSound, Working
    <2>2. To(c, "apply") /\ UNCHANGED row /\ posted'[k] = posted[k] \union Components(row[k])
      BY <1>3, <2>1 DEF PostOrders, Shapes
    <2>3. posted'[k] = Components(row[k])
      BY <2>1, <2>2 DEF RowSound
    <2> QED
      BY <1>0, <2>1, <2>2, <2>3, Goes DEF CallSound, Working
  <1>4. CASE PostFails(c)
    BY <1>4, IdleSound DEF PostFails, Return, Shapes
  <1>5. CASE Apply(c)
    <2> DEFINE k == call[c].row
    <2>1. k \in Keys /\ call[c].key \in Keys /\ call[c].key # None
      BY <1>5, NameAssumption DEF Apply, At, CallSound, Working
    <2>2. CASE row[k].st = "APPLIED"
      BY <1>0, <1>5, <2>1, <2>2, FinishedSound DEF Apply
    <2>3. CASE row[k].st # "APPLIED"
      <3>1. PICK pc \in {"payoff", "settle"} : To(c, pc)
        BY <1>5, <2>3 DEF Apply
      <3>2. row'[k].st = "APPLIED"
        <4>1. row' = [row EXCEPT ![k].st = "APPLIED"] /\ row[k] \in RowShape
          BY <1>5, <2>1, <2>3 DEF Apply, Shapes
        <4> QED
          BY <2>1, <4>1 DEF Shapes, RowShape
      <3>3. \A j \in call[c].left : row'[j].st # "NONE"
        BY <1>0 DEF CallSound, RowsGrow, CallShape
      <3> QED
        BY <2>1, <3>1, <3>2, <3>3, Goes DEF CallSound, Working
    <2> QED
      BY <2>2, <2>3
  <1>6. CASE PayOff(c)
    <2>1. call[c].pc = "payoff" /\ call[c].key \in Keys /\ call[c].row \in Keys
          /\ row[call[c].row].st = "APPLIED" /\ \A j \in call[c].left : row[j].st # "NONE"
      BY <1>0, <1>6 DEF PayOff, At, CallSound, Working
    <2>2. /\ call'[c].pc = "settle" /\ call'[c].key = call[c].key /\ call'[c].row = call[c].row
          /\ call'[c].left = call[c].left /\ UNCHANGED row
      BY <1>0, <1>6 DEF PayOff, Shapes, CallShape
    <2> QED
      BY <2>1, <2>2 DEF CallSound, Working
  <1>7. CASE Settle(c)
    <2> DEFINE k == call[c].row
    <2>1. k \in Keys /\ row[k].st = "APPLIED" /\ call[c].pc = "settle"
      BY <1>7 DEF Settle, At, CallSound, Working
    <2>2. UNCHANGED row
      BY <1>7 DEF Settle
    <2>3. CASE To(c, "shared") /\ shares'[k] # {}
      BY <1>0, <2>1, <2>2, <2>3, Goes DEF CallSound, Working, Settlements
    <2>4. CASE To(c, "noted")
      BY <1>0, <2>1, <2>2, <2>4, Goes DEF CallSound, Working, Settlements
    <2>5. \/ \E how : shares' = [shares EXCEPT ![k] = @ \union {how}] /\ To(c, "shared")
          \/ To(c, "noted")
      BY <1>7 DEF Settle
    <2>6. ASSUME NEW how, shares' = [shares EXCEPT ![k] = @ \union {how}]
          PROVE  shares'[k] # {}
      BY <2>1, <2>6 DEF Shapes
    <2> QED
      BY <2>3, <2>4, <2>5, <2>6
  <1>8. CASE SettleFails(c)
    BY <1>0, <1>8, SettledSound DEF SettleFails
  <1>9. CASE MarkFundingSettled(c)
    BY <1>0, <1>9, SettledSound DEF MarkFundingSettled
  <1>10. CASE ChargeBalanceOnce(c) \/ ReleasePenalty(c) \/ CloseLoan(c) \/ Die(c)
    BY <1>10, IdleSound DEF ChargeBalanceOnce, ReleasePenalty, CloseLoan, Die, Return, Shapes
  <1>11. CASE BookWriteOff(c)
    <2>1. To(c, "claim") /\ call[c].pc = "book" /\ UNCHANGED row
      BY <1>11 DEF BookWriteOff, At
    <2>2. woff' # None
      BY <1>0, <1>11 DEF BookWriteOff, CallShape, None
    <2> QED
      BY <1>0, <2>1, <2>2, Goes DEF CallSound, Working
  <1>12. CASE ClaimWriteOff(c)
    <2>1. CASE status = "DEFAULT"
      <3>1. To(c, "close") /\ call[c].pc = "claim" /\ UNCHANGED row
        BY <1>12, <2>1 DEF ClaimWriteOff, At
      <3> QED
        BY <1>0, <3>1, Goes DEF CallSound, Working
    <2>2. CASE status # "DEFAULT"
      BY <1>12, <2>2, IdleSound DEF ClaimWriteOff, Return, Shapes
    <2> QED
      BY <2>1, <2>2
  <1>13. CASE SavePenalty(c) \/ Waive(c)
    <2>1. call'[c].pc \in {"charge", "release"} /\ call'[c].key = None /\ call'[c].left = {}
      BY <1>13 DEF SavePenalty, Waive, Begin, Fresh, Shapes
    <2> QED
      BY <2>1 DEF CallSound, Working
  <1>14. CASE WriteOff(c)
    <2>1. call'[c].pc \in {"book", "close"} /\ call'[c].key = None /\ call'[c].left = {}
      BY <1>14 DEF WriteOff, Fresh, Shapes
    <2> QED
      BY <2>1 DEF CallSound, Working
  <1>15. ASSUME NEW k \in Keys, Record(c, k) PROVE CallSound(c)'
    <2>1. call'[c].pc = "lock" /\ call'[c].key = k /\ call'[c].left = {} /\ call'[c].row = k
      BY <1>15 DEF Record, Begin, Fresh, Shapes
    <2> QED
      BY <2>1 DEF CallSound, Working
  <1>16. ASSUME NEW k \in Keys, SettlementJob(c, k) PROVE CallSound(c)'
    <2>1. call'[c].pc = "settle" /\ call'[c].key = None /\ call'[c].left = {} /\ call'[c].row = k
          /\ row'[k].st = "APPLIED"
      BY <1>16 DEF SettlementJob, Fresh, Shapes
    <2> QED
      BY <2>1 DEF CallSound, Working
  <1> QED
    BY <1>1, <1>2, <1>3, <1>4, <1>5, <1>6, <1>7, <1>8, <1>9, <1>10, <1>11, <1>12, <1>13, <1>14,
       <1>15, <1>16 DEF Moves, Step

\* Every step keeps every call sound.
LEMMA CallsKept ==
  ASSUME LoanInv, [Next]_vars
  PROVE  \A d \in Calls : CallSound(d)'
  <1>1. RowsGrow
    BY RowsKept
  <1>2. ASSUME UNCHANGED call PROVE \A d \in Calls : CallSound(d)'
    BY <1>1, <1>2, OthersKeep DEF LoanInv
  <1>3. ASSUME NEW c \in Calls, Moves(c)
        PROVE  \A d \in Calls : CallSound(d)'
    <2>1. CallSound(c)'
      BY <1>1, <1>3, MoverSound
    <2>2. \A d \in Calls : d # c => call'[d] = call[d]
      BY <1>3, OneMoves DEF LoanInv
    <2> QED
      BY <1>1, <2>1, <2>2, OthersKeep DEF LoanInv
  <1> QED
    BY <1>2, <1>3 DEF Next, Moves, Assess, Lapse, vars

-----------------------------------------------------------------------------
(* The sums *)

\* Any set of rows is finite, so that it has sums.
LEMMA RowsFinite == \A S \in SUBSET Keys : IsFiniteSet(S)
  BY AmountAssumption, FS_Subset

\* What the rows allocate are amounts.
LEMMA SumTypes ==
  ASSUME Shapes
  PROVE  /\ Amounts(PensOf, Keys) /\ Amounts(PartsOf, Keys)
         /\ \A i \in Parts : Amounts(PartOn(i), Keys)
         /\ \A k \in Keys : row[k].parts \in [Parts -> Nat] /\ row[k].pens \in Nat
                            /\ SumOf(row[k].parts) \in Nat
  <1>1. \A k \in Keys : row[k].parts \in [Parts -> Nat] /\ row[k].pens \in Nat
    BY AmountAssumption DEF Shapes, RowShape
  <1>2. \A k \in Keys : SumOf(row[k].parts) \in Nat
    BY <1>1, PartsSum
  <1> QED
    BY <1>1, <1>2 DEF Amounts, PensOf, PartsOf, PartOn

\* A set of rows that keep their allocation keeps its sums.
LEMMA SumsKept ==
  ASSUME NEW S \in SUBSET Keys,
         \A k \in S : row'[k].parts = row[k].parts /\ row'[k].pens = row[k].pens
  PROVE  /\ \A i \in Parts : Total(PartOn(i)', S) = Total(PartOn(i), S)
         /\ Total(PensOf', S) = Total(PensOf, S)
         /\ Total(PartsOf', S) = Total(PartsOf, S)
  <1>1. IsFiniteSet(S)
    BY RowsFinite
  <1>2. SameOn(PensOf', PensOf, S) /\ SameOn(PartsOf', PartsOf, S)
    BY DEF SameOn, PensOf, PartsOf
  <1>3. \A i \in Parts : SameOn(PartOn(i)', PartOn(i), S)
    BY DEF SameOn, PartOn
  <1> QED
    BY <1>1, <1>2, <1>3, TotalSame

\* The steps that leave the applied rows and what is paid alone.
PaidStill ==
  /\ Applied' = Applied /\ UNCHANGED paid /\ bal'.paid = bal.paid
  /\ \A k \in Applied : row'[k].parts = row[k].parts /\ row'[k].pens = row[k].pens

\* Such a step keeps what is paid equal to the applied rows.
LEMMA PaidStillKeeps ==
  ASSUME PaidSums, PaidStill
  PROVE  PaidSums'
  <1>1. Applied \in SUBSET Keys
    BY DEF Applied
  <1>2. /\ \A i \in Parts : Total(PartOn(i)', Applied) = Total(PartOn(i), Applied)
        /\ Total(PensOf', Applied) = Total(PensOf, Applied)
        /\ Total(PartsOf', Applied) = Total(PartsOf, Applied)
    BY <1>1, SumsKept DEF PaidStill
  <1> QED
    BY <1>2 DEF PaidSums, PaidStill

\* What Apply does to a row that was not applied.
Applies(k) ==
  LET r == row[k]
      sum == SumOf(r.parts) + r.pens IN
  /\ r.st # "APPLIED" /\ row' = [row EXCEPT ![k].st = "APPLIED"]
  /\ paid' = [i \in Parts |-> paid[i] + r.parts[i]]
  /\ bal' = [owed |-> AtLeast0(bal.owed - SumOf(r.parts)),
             pens |-> AtLeast0(bal.pens - r.pens),
             total |-> AtLeast0(bal.total - sum), paid |-> bal.paid + sum]

\* Applying a row adds its allocation to the sums of the applied rows.
LEMMA AppliedGrows ==
  ASSUME Shapes, NEW k \in Keys, Applies(k)
  PROVE  /\ k \notin Applied /\ Applied' = Applied \union {k} /\ Applied \in SUBSET Keys
         /\ PensOf' = PensOf /\ PartsOf' = PartsOf /\ \A i \in Parts : PartOn(i)' = PartOn(i)
         /\ \A i \in Parts : Total(PartOn(i), Applied') = Total(PartOn(i), Applied) + row[k].parts[i]
         /\ Total(PensOf, Applied') = Total(PensOf, Applied) + row[k].pens
         /\ Total(PartsOf, Applied') = Total(PartsOf, Applied) + SumOf(row[k].parts)
  <1>1. row[k] \in RowShape /\ row' = [row EXCEPT ![k].st = "APPLIED"]
    BY DEF Shapes, Applies
  <1>2. /\ row'[k].st = "APPLIED" /\ row'[k].parts = row[k].parts /\ row'[k].pens = row[k].pens
        /\ \A j \in Keys : j # k => row'[j] = row[j]
    BY <1>1 DEF Shapes, RowShape
  <1>3. k \notin Applied /\ Applied' = Applied \union {k} /\ Applied \in SUBSET Keys
    BY <1>2 DEF Applied, Applies
  <1>4. PensOf' = PensOf /\ PartsOf' = PartsOf /\ \A i \in Parts : PartOn(i)' = PartOn(i)
    BY <1>2 DEF PensOf, PartsOf, PartOn
  <1>5. IsFiniteSet(Applied)
    BY <1>3, RowsFinite
  <1>6. /\ Whole(PensOf, Applied) /\ Whole(PartsOf, Applied)
        /\ \A i \in Parts : Whole(PartOn(i), Applied)
        /\ PensOf[k] = row[k].pens /\ PartsOf[k] = SumOf(row[k].parts)
        /\ PensOf[k] \in Int /\ PartsOf[k] \in Int
        /\ \A i \in Parts : PartOn(i)[k] = row[k].parts[i] /\ PartOn(i)[k] \in Int
    BY <1>3, SumTypes DEF Whole, Amounts, PensOf, PartsOf, PartOn
  <1>7. \A i \in Parts : Total(PartOn(i), Applied \union {k}) = Total(PartOn(i), Applied) + row[k].parts[i]
    BY <1>3, <1>5, <1>6, TotalInsert
  <1>8. Total(PensOf, Applied \union {k}) = Total(PensOf, Applied) + row[k].pens
    BY <1>3, <1>5, <1>6, TotalInsert
  <1>9. Total(PartsOf, Applied \union {k}) = Total(PartsOf, Applied) + SumOf(row[k].parts)
    BY <1>3, <1>5, <1>6, TotalInsert
  <1> QED
    BY <1>3, <1>4, <1>7, <1>8, <1>9

\* The sums over any set of rows are amounts.
LEMMA SumsAre ==
  ASSUME Shapes, NEW S \in SUBSET Keys
  PROVE  /\ Total(PensOf, S) \in Nat /\ Total(PartsOf, S) \in Nat
         /\ \A i \in Parts : Total(PartOn(i), S) \in Nat
  <1>1. IsFiniteSet(Keys)
    BY AmountAssumption
  <1> QED
    BY <1>1, SumTypes, TotalPart

\* Applying a row adds the same to what is paid.
LEMMA AppliesKeepsSums ==
  ASSUME Shapes, PaidSums, NEW k \in Keys, Applies(k)
  PROVE  PaidSums'
  <1> DEFINE r == row[k]
  <1>1. r.parts \in [Parts -> Nat] /\ r.pens \in Nat /\ SumOf(r.parts) \in Nat
    BY SumTypes
  <1>2. paid' = [i \in Parts |-> paid[i] + r.parts[i]] /\ bal'.paid = bal.paid + (SumOf(r.parts) + r.pens)
    BY DEF Applies
  <1>3. \A i \in Parts : paid'[i] = Total(PartOn(i)', Applied')
    BY <1>2, AppliedGrows DEF PaidSums
  <1>4. SumOf(paid') = SumOf(paid) + SumOf(r.parts)
    <2>1. paid \in [Parts -> Nat] /\ DOMAIN paid' = Parts /\ DOMAIN r.parts = Parts
      BY <1>1, <1>2 DEF Shapes
    <2>2. Whole(paid, Parts) /\ Whole(r.parts, Parts) /\ Sum2(paid, r.parts, paid', Parts)
      BY <1>1, <1>2, <2>1 DEF Whole, Sum2
    <2>3. Total(paid', Parts) = Total(paid, Parts) + Total(r.parts, Parts)
      BY <2>2, PartsAreFinite, TotalPlus
    <2> QED
      BY <2>1, <2>3 DEF SumOf
  <1>5. SumOf(paid') = Total(PartsOf', Applied')
    BY <1>4, AppliedGrows DEF PaidSums
  <1>6. bal'.paid = Total(PensOf', Applied') + Total(PartsOf', Applied')
    <2>1. Total(PensOf, Applied) \in Nat /\ Total(PartsOf, Applied) \in Nat
      BY SumsAre, AppliedGrows
    <2>2. bal.paid = Total(PensOf, Applied) + Total(PartsOf, Applied)
      BY DEF PaidSums
    <2> HIDE DEF r
    <2>3. /\ Total(PensOf', Applied') = Total(PensOf, Applied) + r.pens
          /\ Total(PartsOf', Applied') = Total(PartsOf, Applied) + SumOf(r.parts)
      BY AppliedGrows DEF r
    <2> QED
      BY <1>1, <1>2, <2>1, <2>2, <2>3
  <1> QED
    BY <1>3, <1>5, <1>6 DEF PaidSums

\* Every step keeps what is paid equal to the applied rows.
LEMMA SumsStay ==
  ASSUME LoanInv, [Next]_vars
  PROVE  PaidSums'
  <1> USE DEF LoanInv
  <1>1. CASE UNCHANGED <<row, paid>> /\ bal'.paid = bal.paid
    BY <1>1, PaidStillKeeps DEF PaidStill, Applied
  <1>2. ASSUME NEW c \in Calls, RecordRow(c) PROVE PaidSums'
    <2>1. call[c].key \in Keys /\ UNCHANGED <<paid, bal>>
      BY <1>2 DEF RecordRow, At, CallSound, books
    <2>2. CASE \E new : NewRow(call[c].key, new)
      <3>1. PICK k \in Keys : \E new : NewRow(k, new)
        BY <2>1, <2>2
      <3>2. row'[k].st = "RECORDED" /\ row[k].st = "NONE" /\ \A j \in Keys : j # k => row'[j] = row[j]
        BY <3>1 DEF NewRow, Shapes
      <3>3. Applied' = Applied /\ \A j \in Applied : row'[j] = row[j]
        BY <3>2 DEF Applied
      <3> QED
        BY <2>1, <3>3, PaidStillKeeps DEF PaidStill
    <2> QED
      BY <1>1, <1>2, <2>1, <2>2, RecordsARow
  <1>3. ASSUME NEW c \in Calls, Apply(c) PROVE PaidSums'
    <2>1. PICK k \in Keys : k = call[c].row
      BY <1>3 DEF Apply, At, CallSound, Working
    <2>2. CASE row[k].st = "APPLIED"
      BY <1>1, <1>3, <2>1, <2>2 DEF Apply, books
    <2>3. CASE row[k].st # "APPLIED"
      <3>1. Applies(k)
        BY <1>3, <2>1, <2>3 DEF Apply, Applies
      <3> QED
        BY <3>1, AppliesKeepsSums
    <2> QED
      BY <2>2, <2>3
  <1>4. ASSUME NEW c \in Calls, MarkFundingSettled(c) PROVE PaidSums'
    <2>1. PICK k \in Keys : k = call[c].row
      BY <1>4 DEF MarkFundingSettled, CallSound, Working, Settlements
    <2>2. row[k] \in RowShape /\ row' = [row EXCEPT ![k].settled = call[c].pc] /\ UNCHANGED <<paid, bal>>
      BY <1>4, <2>1 DEF MarkFundingSettled, books, Shapes
    <2>3. \A j \in Keys : row'[j].st = row[j].st /\ row'[j].parts = row[j].parts /\ row'[j].pens = row[j].pens
      BY <2>2 DEF Shapes, RowShape
    <2> QED
      BY <2>2, <2>3, PaidStillKeeps DEF PaidStill, Applied
  <1>5. ASSUME NEW c \in Calls, ChargeBalanceOnce(c) \/ ReleasePenalty(c)
        PROVE  UNCHANGED <<row, paid>> /\ bal'.paid = bal.paid
    BY <1>5 DEF ChargeBalanceOnce, ReleasePenalty, Shapes
  <1>6. ASSUME NEW c \in Calls,
               \/ ClaimRepaymentLock(c) \/ PostOrders(c) \/ PostFails(c) \/ PayOff(c) \/ Settle(c)
               \/ SettleFails(c) \/ BookWriteOff(c) \/ ClaimWriteOff(c) \/ CloseLoan(c) \/ Die(c)
               \/ SavePenalty(c) \/ Waive(c) \/ WriteOff(c)
               \/ \E k \in Keys : Record(c, k) \/ SettlementJob(c, k)
        PROVE  UNCHANGED <<row, paid>> /\ bal'.paid = bal.paid
    BY <1>6 DEF ClaimRepaymentLock, PostOrders, PostFails, PayOff, Settle, SettleFails,
                BookWriteOff, ClaimWriteOff, CloseLoan, Die, SavePenalty, Waive, WriteOff,
                Record, SettlementJob, books
  <1>7. CASE Assess \/ Lapse \/ UNCHANGED vars
    <2>1. UNCHANGED <<row, paid>> /\ bal'.paid = bal.paid
      BY <1>7 DEF Assess, Lapse, vars, books
    <2> QED
      BY <2>1, <1>1
  <1> QED
    BY <1>1, <1>2, <1>3, <1>4, <1>5, <1>6, <1>7 DEF Next, Step

-----------------------------------------------------------------------------
(* The balance *)

\* What is charged stays charged, what is waived stays waived.
LEMMA PenaltyGrows ==
  ASSUME Shapes, [Next]_vars
  PROVE  (pen.charged => pen'.charged) /\ (pen.waived => pen'.waived)
  <1>1. ASSUME NEW c \in Calls, SavePenalty(c) \/ Waive(c) \/ ChargeBalanceOnce(c)
        PROVE  (pen.charged => pen'.charged) /\ (pen.waived => pen'.waived)
    BY <1>1 DEF SavePenalty, Waive, ChargeBalanceOnce, Shapes
  <1>2. CASE UNCHANGED pen
    BY <1>2
  <1> QED
    BY <1>1, <1>2 DEF Next, Step, vars, ClaimRepaymentLock, RecordRow, PostOrders, PostFails,
         Apply, PayOff, Settle, SettleFails, MarkFundingSettled, ReleasePenalty, BookWriteOff,
         ClaimWriteOff, CloseLoan, Die, WriteOff, Record, SettlementJob, Assess, Lapse

\* The total never passes what the loan was lent for and charged, a penalty is
\* only owed once it is charged, and a loan is written off only once it is booked.
LEMMA BalanceKept ==
  ASSUME LoanInv, [Next]_vars
  PROVE  BalanceSound'
  <1> USE DEF LoanInv
  <1>1. (woff # None => woff' # None) /\ (pen.charged => pen'.charged)
    BY RowsKept, PenaltyGrows DEF RowsGrow
  <1>2. SumOf(Due) \in Nat /\ Penalty \in Nat /\ bal.total \in Nat /\ bal.pens \in Nat
        /\ bal.owed \in Nat /\ pen.charged \in BOOLEAN /\ pen'.charged \in BOOLEAN
    BY DueSum, AmountAssumption, ShapesKept DEF Shapes
  <1>3. Charged \in Nat /\ Charged' \in Nat /\ Charged <= Charged'
    BY <1>1, <1>2 DEF Charged
  <1>4. /\ status' = "WRITTEN_OFF" => woff' # None
    BY <1>1 DEF Next, Step, vars, ClaimRepaymentLock, RecordRow, PostOrders, PostFails, Apply,
         PayOff, Settle, SettleFails, MarkFundingSettled, ChargeBalanceOnce, ReleasePenalty,
         BookWriteOff, ClaimWriteOff, CloseLoan, Die, SavePenalty, Waive, WriteOff, Record,
         SettlementJob, Assess, Lapse, ClaimStatus, BalanceSound, CallSound, At
  <1>5. CASE UNCHANGED bal
    BY <1>1, <1>2, <1>3, <1>4, <1>5 DEF BalanceSound
  <1>6. ASSUME NEW c \in Calls, Apply(c) PROVE BalanceSound'
    <2>1. PICK k \in Keys : k = call[c].row
      BY <1>6 DEF Apply, At, CallSound, Working
    <2>2. CASE row[k].st = "APPLIED"
      BY <1>5, <1>6, <2>1, <2>2 DEF Apply, books
    <2>3. CASE row[k].st # "APPLIED"
      <3>1. Applies(k) /\ UNCHANGED pen
        BY <1>6, <2>1, <2>3 DEF Apply, Applies
      <3>2. row[k].pens \in Nat /\ SumOf(row[k].parts) \in Nat
        BY SumTypes
      <3>3. bal'.total = AtLeast0(bal.total - (SumOf(row[k].parts) + row[k].pens))
            /\ bal'.pens = AtLeast0(bal.pens - row[k].pens)
        BY <3>1 DEF Applies
      <3>4. bal'.total <= bal.total /\ bal'.pens \in Nat /\ bal'.pens <= bal.pens
        BY <1>2, <3>2, <3>3 DEF AtLeast0
      <3>5. bal'.total \in Nat
        BY <1>2, <3>2, <3>3 DEF AtLeast0
      <3>6. bal'.total <= SumOf(Due) + Charged /\ Charged' = Charged
        BY <1>2, <1>3, <3>1, <3>4, <3>5 DEF BalanceSound, Charged
      <3> QED
        BY <1>2, <1>4, <3>1, <3>4, <3>6 DEF BalanceSound
    <2> QED
      BY <2>2, <2>3
  <1>7. ASSUME NEW c \in Calls, ChargeBalanceOnce(c) PROVE BalanceSound'
    <2>1. CASE pen.charged \/ pen.waived
      BY <1>5, <1>7, <2>1 DEF ChargeBalanceOnce
    <2>2. CASE ~pen.charged /\ ~pen.waived
      <3>1. bal'.total = bal.total + Penalty /\ pen'.charged
        BY <1>7, <2>2 DEF ChargeBalanceOnce, Shapes
      <3>2. Charged = 0 /\ Charged' = Penalty
        BY <2>2, <3>1 DEF Charged
      <3> QED
        BY <1>2, <1>4, <3>1, <3>2 DEF BalanceSound
    <2> QED
      BY <2>1, <2>2
  <1>8. ASSUME NEW c \in Calls, ReleasePenalty(c) PROVE BalanceSound'
    <2>1. bal'.total = AtLeast0(bal.total - Penalty) /\ bal'.pens = AtLeast0(bal.pens - Penalty)
          /\ UNCHANGED pen
      BY <1>8 DEF ReleasePenalty, Shapes
    <2>2. bal'.total <= bal.total /\ bal'.total \in Nat /\ bal'.pens <= bal.pens /\ bal'.pens \in Nat
      BY <1>2, <2>1 DEF AtLeast0
    <2> QED
      BY <1>2, <1>3, <1>4, <2>1, <2>2 DEF BalanceSound, Charged
  <1> QED
    BY <1>5, <1>6, <1>7, <1>8 DEF Next, Step, vars, ClaimRepaymentLock, RecordRow, PostOrders,
         PostFails, PayOff, Settle, SettleFails, MarkFundingSettled, BookWriteOff, ClaimWriteOff,
         CloseLoan, Die, SavePenalty, Waive, WriteOff, Record, SettlementJob, Assess, Lapse, books

\* Every step keeps what makes a recovery one of a loss that is booked.
LEMMA RecoveriesKept ==
  ASSUME LoanInv, [Next]_vars
  PROVE  Recoveries'
  <1> USE DEF LoanInv
  <1>1. woff # None => woff' # None
    BY RowsKept DEF RowsGrow
  <1>2. \A c \in Calls : call[c].la = "WRITTEN_OFF" => woff # None
    BY DEF Recoveries
  <1>3. status = "WRITTEN_OFF" => woff # None
    BY DEF BalanceSound
  <1>4. \A k \in Keys : row'[k].recovery => woff' # None
    <2>1. CASE UNCHANGED row
      BY <1>1, <2>1 DEF Recoveries
    <2>2. ASSUME NEW c \in Calls, RecordRow(c) PROVE \A k \in Keys : row'[k].recovery => woff' # None
      <3> SUFFICES ASSUME NEW k \in Keys PROVE row'[k].recovery => woff # None
        BY <1>1
      <3> DEFINE a == waterfallAllocate(Pay[call[c].key])
                 new == [st |-> "RECORDED", pens |-> a.pens, parts |-> a.parts, excess |-> a.excess,
                         recovery |-> call[c].la = "WRITTEN_OFF", settled |-> "no"]
      <3>1. row' = row \/ row' = [row EXCEPT ![call[c].key] = IF @.st # "NONE" THEN @ ELSE new]
        BY <2>2 DEF RecordRow
      <3>2. new.recovery <=> call[c].la = "WRITTEN_OFF"
        OBVIOUS
      <3> HIDE DEF new
      <3>3. row'[k] = row[k] \/ row'[k] = new
        BY <3>1 DEF Shapes
      <3> QED
        BY <1>2, <3>2, <3>3 DEF Recoveries
    <2>3. ASSUME NEW c \in Calls, Apply(c) \/ MarkFundingSettled(c)
          PROVE  \A k \in Keys : row'[k].recovery => woff' # None
      <3>1. \A k \in Keys : row[k] \in RowShape
        BY DEF Shapes
      <3>2. \A k \in Keys : row'[k].recovery = row[k].recovery
        BY <2>3, <3>1 DEF Apply, MarkFundingSettled, Shapes, RowShape
      <3> QED
        BY <1>1, <3>2 DEF Recoveries
    <2> QED
      BY <2>1, <2>2, <2>3 DEF Next, Step, vars, ClaimRepaymentLock, PostOrders, PostFails, PayOff,
         Settle, SettleFails, ChargeBalanceOnce, ReleasePenalty, BookWriteOff, ClaimWriteOff,
         CloseLoan, Die, SavePenalty, Waive, WriteOff, Record, SettlementJob, Assess, Lapse
  <1>5. \A k \in Keys : "recovery" \in shares'[k] => woff' # None
    <2>1. CASE UNCHANGED shares
      BY <1>1, <2>1 DEF Recoveries
    <2>2. ASSUME NEW c \in Calls, Settle(c), NEW k \in Keys, "recovery" \in shares'[k]
          PROVE  woff' # None
      <3>1. PICK j \in Keys : j = call[c].row
        BY <2>2 DEF Settle, At, CallSound, Working
      <3>2. \/ "recovery" \in shares[k]
            \/ row[j].recovery \/ call[c].la = "WRITTEN_OFF"
        BY <2>2, <3>1 DEF Settle, Shapes
      <3> QED
        BY <1>1, <1>2, <3>2 DEF Recoveries
    <2> QED
      BY <2>1, <2>2 DEF Next, Step, vars, outside, ClaimRepaymentLock, RecordRow, PostOrders,
         PostFails, Apply, PayOff, SettleFails, MarkFundingSettled, ChargeBalanceOnce,
         ReleasePenalty, BookWriteOff, ClaimWriteOff, CloseLoan, Die, SavePenalty, Waive, WriteOff,
         Record, SettlementJob, Assess, Lapse
  <1>6. \A c \in Calls : call'[c].la = "WRITTEN_OFF" => woff' # None
    <2>1. CASE UNCHANGED call
      BY <1>1, <1>2, <2>1
    <2>2. ASSUME NEW c \in Calls, Moves(c)
          PROVE  call'[c].la = "WRITTEN_OFF" => call[c].la = "WRITTEN_OFF" \/ status = "WRITTEN_OFF"
      <3>1. call[c] \in CallShape
        BY DEF Shapes
      <3>2. ASSUME NEW la, NEW S, FinishOr(c, S, la) PROVE call'[c].la \in {call[c].la, la}
        <4>1. CASE S = {}
          <5>1. call' = [call EXCEPT ![c] = [call[c] EXCEPT !.row = call[c].key, !.pc = "record",
                                                           !.la = la, !.left = {}]]
            BY <3>2, <4>1 DEF FinishOr
          <5>2. call'[c] = [call[c] EXCEPT !.row = call[c].key, !.pc = "record", !.la = la, !.left = {}]
            BY <5>1 DEF Shapes
          <5> QED
            BY <3>1, <5>2 DEF CallShape
        <4>2. CASE S # {}
          <5>1. PICK k \in S : call' = [call EXCEPT ![c] = [@ EXCEPT !.row = k, !.pc = "post", !.left = S]]
            BY <3>2, <4>2 DEF FinishOr
          <5> QED
            BY <3>1, <5>1 DEF Shapes, CallShape
        <4> QED
          BY <4>1, <4>2
      <3>3. ASSUME NEW pc, To(c, pc) PROVE call'[c].la = call[c].la
        BY <3>3, Goes
      <3>4. ASSUME Return(c) PROVE call'[c].la = "NONE"
        BY <3>4 DEF Return, Idle, Fresh, Shapes
      <3>5. ASSUME Finished(c) \/ Settled(c) PROVE call'[c].la \in {call[c].la, status, "NONE"}
        BY <3>2, <3>4, <3>5 DEF Finished, Settled
      <3>6. CASE ClaimRepaymentLock(c)
        BY <3>2, <3>3, <3>4, <3>6 DEF ClaimRepaymentLock, Plan
      <3>7. CASE RecordRow(c) \/ PostOrders(c) \/ PostFails(c) \/ Apply(c)
        BY <3>3, <3>4, <3>5, <3>7 DEF RecordRow, PostOrders, PostFails, Apply
      <3>8. CASE PayOff(c)
        BY <3>1, <3>8 DEF PayOff, Shapes, CallShape
      <3>9. CASE Settle(c) \/ SettleFails(c) \/ MarkFundingSettled(c)
        BY <3>3, <3>5, <3>9 DEF Settle, SettleFails, MarkFundingSettled
      <3>10. CASE ChargeBalanceOnce(c) \/ ReleasePenalty(c) \/ BookWriteOff(c) \/ ClaimWriteOff(c)
                 \/ CloseLoan(c) \/ Die(c)
        BY <3>1, <3>10 DEF ChargeBalanceOnce, ReleasePenalty, BookWriteOff, ClaimWriteOff, CloseLoan,
           Die, To, Return, Idle, Fresh, Shapes, CallShape
      <3>11. CASE SavePenalty(c) \/ Waive(c) \/ WriteOff(c) \/ \E k \in Keys : Record(c, k) \/ SettlementJob(c, k)
        BY <3>11 DEF SavePenalty, Waive, WriteOff, Record, SettlementJob, Begin, Fresh, Shapes
      <3> QED
        BY <2>2, <3>10, <3>11, <3>6, <3>7, <3>8, <3>9 DEF Moves, Step
    <2>3. ASSUME NEW c \in Calls, Moves(c)
          PROVE  \A d \in Calls : call'[d].la = "WRITTEN_OFF" => woff' # None
      BY <1>1, <1>2, <1>3, <2>2, <2>3, OneMoves
    <2> QED
      BY <2>1, <2>3 DEF Next, Moves, Assess, Lapse, vars
  <1> QED
    BY <1>4, <1>5, <1>6 DEF Recoveries

-----------------------------------------------------------------------------
(* While no repayment has outlived its lease *)

\* Every row is as recorded or applied, and allocates, as before.
RowsAlike ==
  \A k \in Keys : row'[k].st = row[k].st /\ row'[k].parts = row[k].parts /\ row'[k].pens = row[k].pens

\* Then the sets of rows and their allocations are as before.
LEMMA AlikeRows ==
  ASSUME RowsAlike
  PROVE  /\ Applied' = Applied /\ Recorded' = Recorded /\ Unapplied' = Unapplied
         /\ PensOf' = PensOf /\ PartsOf' = PartsOf /\ \A i \in Parts : PartOn(i)' = PartOn(i)
  BY DEF RowsAlike, Applied, Recorded, Unapplied, PensOf, PartsOf, PartOn

\* Only the recording and the application of a row change what the rows say.
LEMMA OthersKeepRows ==
  ASSUME LoanInv, NEW c \in Calls, Moves(c), ~RecordRow(c), ~Apply(c)
  PROVE  RowsAlike
  <1>1. CASE MarkFundingSettled(c)
    <2>1. PICK k \in Keys : k = call[c].row
      BY <1>1 DEF MarkFundingSettled, LoanInv, CallSound, Working, Settlements
    <2>2. row[k] \in RowShape /\ row' = [row EXCEPT ![k].settled = call[c].pc]
      BY <1>1, <2>1 DEF MarkFundingSettled, LoanInv, Shapes
    <2> QED
      BY <2>2 DEF RowsAlike, LoanInv, Shapes, RowShape
  <1>2. CASE UNCHANGED row
    BY <1>2 DEF RowsAlike
  <1> QED
    BY <1>1, <1>2 DEF Moves, Step, ClaimRepaymentLock, PostOrders, PostFails, PayOff, Settle,
         SettleFails, ChargeBalanceOnce, ReleasePenalty, BookWriteOff, ClaimWriteOff, CloseLoan,
         Die, SavePenalty, Waive, WriteOff, Record, SettlementJob

\* A step of a call takes a lease that is free, gives back its own, or leaves it.
LEMMA LockMoves ==
  ASSUME NEW c \in Calls, Moves(c)
  PROVE  lock' = lock \/ (lock = Free /\ lock' = c) \/ (lock = c /\ lock' = Free)
  <1>1. ASSUME Unlock(c) PROVE lock' = lock \/ (lock = c /\ lock' = Free)
    BY <1>1 DEF Unlock
  <1>2. ASSUME Finished(c) \/ Settled(c) PROVE lock' = lock \/ (lock = c /\ lock' = Free)
    BY <1>1, <1>2 DEF Finished, Settled
  <1> QED
    BY <1>1, <1>2 DEF Moves, Step, ClaimRepaymentLock, RecordRow, PostOrders, PostFails, Apply,
         PayOff, Settle, SettleFails, MarkFundingSettled, ChargeBalanceOnce, ReleasePenalty,
         BookWriteOff, ClaimWriteOff, CloseLoan, Die, SavePenalty, Waive, WriteOff, Record,
         SettlementJob

\* The balance owes less on the installments, or as much, after every step.
LEMMA OwedFalls ==
  ASSUME LoanInv, NEW c \in Calls, Moves(c)
  PROVE  bal.owed = 0 => bal'.owed = 0
  <1> USE DEF LoanInv
  <1>1. CASE Apply(c)
    <2>1. PICK k \in Keys : k = call[c].row
      BY <1>1 DEF Apply, At, CallSound, Working
    <2>2. row[k].pens \in Nat /\ SumOf(row[k].parts) \in Nat
      BY SumTypes
    <2>3. UNCHANGED bal \/ bal'.owed = AtLeast0(bal.owed - SumOf(row[k].parts))
      BY <1>1, <2>1 DEF Apply, books
    <2> QED
      BY <2>2, <2>3 DEF AtLeast0
  <1>2. CASE ChargeBalanceOnce(c) \/ ReleasePenalty(c)
    BY <1>2 DEF ChargeBalanceOnce, ReleasePenalty, Shapes
  <1>3. CASE UNCHANGED bal
    BY <1>3
  <1> QED
    BY <1>1, <1>2, <1>3 DEF Moves, Step, ClaimRepaymentLock, RecordRow, PostOrders,
         PostFails, PayOff, Settle, SettleFails, MarkFundingSettled, BookWriteOff, ClaimWriteOff,
         CloseLoan, Die, SavePenalty, Waive, WriteOff, Record, SettlementJob, books

\* What the other calls rely on, while one moves.
LEMMA OthersLeased ==
  ASSUME LoanInv, lapses = 0, NEW c \in Calls, Moves(c), NEW d \in Calls, d # c
  PROVE  Leased(d)'
  <1> DEFINE x == call[d]
  <1> USE DEF LoanInv
  <1>0. Leased(d) /\ Leased(c) /\ CallSound(d) /\ CallSound(c)
    OBVIOUS
  <1>1. call'[d] = x
    BY OneMoves
  <1>2. (pen.waived => pen'.waived) /\ (bal.owed = 0 => bal'.owed = 0)
    <2>1. [Next]_vars
      BY DEF Next, Moves
    <2> QED
      BY <2>1, PenaltyGrows, OwedFalls
  <1>3. x.pc \in Working /\ x.key # None => lock' = d
    BY <1>0, NameAssumption, LockMoves DEF Leased
  <1>4. ASSUME x.pc \in Working, x.key # None PROVE Unapplied' = Unapplied
    <2>1. lock = d
      BY <1>0, <1>4 DEF Leased
    <2>2. ~RecordRow(c) /\ ~Apply(c)
      BY <1>0, <2>1, NameAssumption DEF Leased, RecordRow, Apply, At, CallSound, Working
    <2> QED
      BY <2>2, OthersKeepRows, AlikeRows
  <1>5. x.pc = "record" => Unapplied' = {}
    BY <1>0, <1>4, NameAssumption DEF Leased, CallSound, Working
  <1>6. x.pc \in {"post", "apply"} /\ x.row # x.key => Unapplied' \subseteq x.left
    BY <1>0, <1>4, NameAssumption DEF Leased, CallSound, Working
  <1>7. x.pc \in {"payoff", "settle", "shared", "noted"} /\ x.key # None /\ x.row # x.key =>
          Unapplied' \subseteq x.left \ {x.row}
    BY <1>0, <1>4 DEF Leased, Working
  <1>8. (x.pc = "payoff" /\ ~pen'.waived => bal'.owed = 0) /\ (x.pc = "release" => pen'.waived)
    <2>1. pen.waived \in BOOLEAN /\ pen'.waived \in BOOLEAN
      <3>1. [Next]_vars
        BY DEF Next, Moves
      <3> QED
        BY <3>1, ShapesKept DEF Shapes
    <2> QED
      BY <1>0, <1>2, <2>1 DEF Leased
  <1> HIDE DEF x
  <1> QED
    BY <1>1, <1>3, <1>5, <1>6, <1>7, <1>8 DEF Leased

\* The steps that leave the rows and the books alone keep the money, if they only
\* make the loan PAID_OFF when it owes nothing.
LEMMA MoneyStill ==
  ASSUME LoanInv, lapses = 0, [Next]_vars, RowsAlike, UNCHANGED bal, pen'.charged = pen.charged,
         status' = "PAID_OFF" /\ ~pen'.waived => bal.owed = 0
  PROVE  LeasedMoney'
  <1>1. pen.waived => pen'.waived
    BY PenaltyGrows DEF LoanInv
  <1>2. Charged' = Charged
    BY DEF Charged
  <1> QED
    BY <1>1, <1>2, AlikeRows DEF LoanInv, LeasedMoney

\* What is recorded is what is applied, when a repayment allocates.
LEMMA RecordKeepsMoney ==
  ASSUME LoanInv, lapses = 0, [Next]_vars, NEW c \in Calls, RecordRow(c)
  PROVE  LeasedMoney'
  <1> USE DEF LoanInv
  <1>1. call[c].key \in Keys /\ UNCHANGED <<bal, paid, pen, status>> /\ Unapplied = {}
    <2>1. Leased(c) /\ CallSound(c)
      OBVIOUS
    <2> QED
      BY <1>1, <2>1 DEF RecordRow, At, CallSound, Leased, books
  <1>2. CASE UNCHANGED row
    BY <1>1, <1>2, MoneyStill DEF RowsAlike, LeasedMoney
  <1>3. ASSUME NEW k \in Keys, NEW new, NewRow(k, new) PROVE LeasedMoney'
    <2>1. /\ row'[k] = new /\ \A j \in Keys : j # k => row'[j] = row[j]
          /\ row[k].st = "NONE" /\ new.st = "RECORDED"
      BY <1>3 DEF NewRow, Shapes
    <2>2. /\ Recorded = Applied /\ Applied' = Applied /\ Recorded' = Applied \union {k}
          /\ k \notin Applied /\ Applied \in SUBSET Keys /\ IsFiniteSet(Applied)
      <3>1. \A j \in Keys : row[j].st \in {"NONE", "RECORDED", "APPLIED"}
        BY DEF Shapes, RowShape
      <3>2. Recorded = Applied /\ Applied \in SUBSET Keys
        BY <1>1, <3>1 DEF Unapplied, Recorded, Applied
      <3> QED
        BY <2>1, <3>2, RowsFinite DEF Recorded, Applied
    <2>3. \A j \in Applied : row'[j].parts = row[j].parts /\ row'[j].pens = row[j].pens
      BY <2>1, <2>2
    <2>4. /\ \A i \in Parts : Total(PartOn(i)', Applied) = Total(PartOn(i), Applied)
          /\ Total(PensOf', Applied) = Total(PensOf, Applied)
          /\ Total(PartsOf', Applied) = Total(PartsOf, Applied)
      BY <2>2, <2>3, SumsKept
    <2>5. /\ Amounts(PensOf', Keys) /\ \A i \in Parts : Amounts(PartOn(i)', Keys)
      <3>1. Shapes'
        BY ShapesKept
      <3>2. \A j \in Keys : row'[j] \in RowShape
        BY <3>1 DEF Shapes, RowShape
      <3>3. \A j \in Keys : row'[j].parts \in [Parts -> Nat] /\ row'[j].pens \in Nat
        BY <3>2, AmountAssumption DEF RowShape
      <3> QED
        BY <3>3 DEF Amounts, PensOf, PartOn
    <2>6. /\ Whole(PensOf', Applied) /\ PensOf'[k] = new.pens /\ PensOf'[k] \in Int
          /\ \A i \in Parts : /\ Whole(PartOn(i)', Applied)
                              /\ PartOn(i)'[k] = new.parts[i] /\ PartOn(i)'[k] \in Int
      BY <2>1, <2>2, <2>5 DEF Whole, Amounts, PensOf, PartOn
    <2>7. /\ Total(PensOf', Recorded') = Total(PensOf, Applied) + new.pens
          /\ \A i \in Parts : Total(PartOn(i)', Recorded') = Total(PartOn(i), Applied) + new.parts[i]
      BY <2>2, <2>4, <2>6, TotalInsert
    <2>8. \A i \in Parts : Total(PartOn(i)', Recorded') <= Due[i]
      <3> TAKE i \in Parts
      <3>1. new.parts[i] <= AtLeast0(Due[i] - paid[i]) /\ new.parts[i] \in Nat
        BY <1>3 DEF NewRow, RowShape
      <3>2. paid[i] = Total(PartOn(i), Applied) /\ Total(PartOn(i), Applied) <= Due[i]
        BY <2>2 DEF PaidSums, LeasedMoney
      <3>3. Due[i] \in Nat /\ Total(PartOn(i), Applied) \in Nat
        BY <2>2, PartsAreFinite, SumsAre
      <3> QED
        BY <2>7, <3>1, <3>2, <3>3 DEF AtLeast0
    <2>9. Total(PensOf', Recorded') <= Charged'
      <3>1. new.pens <= bal.pens /\ new.pens \in Nat /\ bal.pens \in Nat
        BY <1>3, AmountAssumption DEF NewRow, RowShape, Shapes
      <3>2. bal.pens + Total(PensOf, Applied) <= Charged /\ Charged' = Charged
        BY <1>1 DEF LeasedMoney, Charged
      <3>3. Charged \in Nat /\ Total(PensOf, Applied) \in Nat
        BY <2>2, SumsAre, AmountAssumption DEF Charged
      <3> QED
        BY <2>7, <3>1, <3>2, <3>3
    <2>10. Charged' = Charged
      BY <1>1 DEF Charged
    <2> QED
      BY <1>1, <2>2, <2>4, <2>8, <2>9, <2>10 DEF LeasedMoney
  <1> QED
    BY <1>1, <1>2, <1>3, RecordsARow

\* The balance still owes what an unapplied row allocates, so that no column of it
\* is cut at zero.
LEMMA ApplyKeepsMoney ==
  ASSUME LoanInv, lapses = 0, [Next]_vars, NEW k \in Keys, Applies(k), row[k].st # "NONE",
         UNCHANGED <<pen, status>>
  PROVE  LeasedMoney'
  <1> USE DEF LoanInv
  <1> DEFINE r == row[k]
  <1>1. /\ Applied' = Applied \union {k} /\ Applied \in SUBSET Keys /\ Applied' \in SUBSET Keys
        /\ Recorded' = Recorded /\ Applied' \subseteq Recorded /\ Recorded \in SUBSET Keys
        /\ IsFiniteSet(Recorded)
    <2>1. row' = [row EXCEPT ![k].st = "APPLIED"] /\ r \in RowShape
      BY DEF Applies, Shapes
    <2>2. \A j \in Keys : row'[j].st # "NONE" <=> row[j].st # "NONE"
      BY <2>1 DEF Shapes, RowShape
    <2>3. Recorded' = Recorded /\ Recorded \in SUBSET Keys
      BY <2>2 DEF Recorded
    <2>4. Applied' = Applied \union {k} /\ Applied \in SUBSET Keys
      BY AppliedGrows
    <2>5. Applied \subseteq Recorded /\ k \in Recorded
      BY DEF Applied, Recorded
    <2> QED
      BY <2>3, <2>4, <2>5, RowsFinite
  <1>2. /\ PensOf' = PensOf /\ PartsOf' = PartsOf /\ \A i \in Parts : PartOn(i)' = PartOn(i)
        /\ Total(PensOf, Applied') = Total(PensOf, Applied) + r.pens
        /\ Total(PartsOf, Applied') = Total(PartsOf, Applied) + SumOf(r.parts)
    BY AppliedGrows
  <1>3. /\ r.pens \in Nat /\ SumOf(r.parts) \in Nat /\ Total(PensOf, Applied) \in Nat
        /\ Total(PartsOf, Applied) \in Nat /\ Total(PensOf, Recorded) \in Nat
        /\ Total(PensOf, Applied') \in Nat
        /\ \A i \in Parts : Total(PartOn(i), Applied') \in Nat /\ Total(PartOn(i), Recorded) \in Nat
    BY <1>1, SumTypes, SumsAre
  <1>4. /\ Total(PensOf, Applied') <= Total(PensOf, Recorded)
        /\ \A i \in Parts : Total(PartOn(i), Applied') <= Total(PartOn(i), Recorded)
    <2>1. /\ Amounts(PensOf, Recorded) /\ \A i \in Parts : Amounts(PartOn(i), Recorded)
      BY <1>1, SumTypes DEF Amounts
    <2> QED
      BY <1>1, <2>1, TotalPart
  <1>5. /\ \A i \in Parts : Total(PartOn(i), Recorded) <= Due[i]
        /\ bal.owed = SumOf(Due) - Total(PartsOf, Applied)
        /\ Total(PensOf, Recorded) <= Charged
        /\ bal.pens + Total(PensOf, Applied) <= Charged
        /\ ~pen.waived => /\ bal.pens + Total(PensOf, Applied) = Charged
                          /\ bal.total = bal.owed + bal.pens
        /\ status = "PAID_OFF" /\ ~pen.waived => bal.owed = 0
    BY DEF LeasedMoney
  <1>6. SumOf(Due) \in Nat /\ Charged \in Nat /\ bal.pens \in Nat /\ bal.total \in Nat /\ bal.owed \in Nat
        /\ Charged' = Charged
    BY DueSum, AmountAssumption DEF Shapes, Charged
  <1>7. Total(PartsOf, Applied') <= SumOf(Due)
    <2>1. PaidSums' /\ Shapes'
      BY SumsStay, ShapesKept
    <2>2. SumOf(paid') = Total(PartsOf, Applied') /\ \A i \in Parts : paid'[i] = Total(PartOn(i), Applied')
      BY <1>2, <2>1 DEF PaidSums
    <2>3. \A i \in Parts : paid'[i] <= Due[i] /\ paid'[i] \in Int /\ Due[i] \in Int
      <3> TAKE i \in Parts
      <3>1. Total(PartOn(i), Applied') <= Total(PartOn(i), Recorded) /\ Total(PartOn(i), Recorded) <= Due[i]
            /\ Total(PartOn(i), Applied') \in Nat /\ Total(PartOn(i), Recorded) \in Nat
        BY <1>3, <1>4, <1>5
      <3>2. paid'[i] = Total(PartOn(i), Applied') /\ Due[i] \in Nat
        BY <2>2, PartsAreFinite
      <3> QED
        BY <3>1, <3>2
    <2>4. Whole(paid', Parts) /\ Whole(Due, Parts) /\ NoMore(paid', Due, Parts)
      BY <2>3 DEF Whole, NoMore
    <2>5. Total(paid', Parts) <= Total(Due, Parts)
      BY <2>4, PartsAreFinite, TotalAtMost
    <2>6. DOMAIN paid' = Parts /\ DOMAIN Due = Parts
      BY <2>1, PartsAreFinite DEF Shapes
    <2> QED
      BY <2>2, <2>5, <2>6 DEF SumOf
  <1>8. /\ bal'.owed = AtLeast0(bal.owed - SumOf(r.parts))
        /\ bal'.pens = AtLeast0(bal.pens - r.pens)
        /\ bal'.total = AtLeast0(bal.total - (SumOf(r.parts) + r.pens))
    BY DEF Applies
  <1> HIDE DEF r
  <1>9. bal'.owed = SumOf(Due) - Total(PartsOf, Applied') /\ bal'.owed = bal.owed - SumOf(r.parts)
    BY <1>2, <1>3, <1>5, <1>6, <1>7, <1>8 DEF AtLeast0
  <1>10. bal'.pens + Total(PensOf, Applied') <= Charged
    BY <1>2, <1>3, <1>4, <1>5, <1>6, <1>8 DEF AtLeast0
  <1>11. ASSUME ~pen.waived
         PROVE  bal'.pens + Total(PensOf, Applied') = Charged /\ bal'.total = bal'.owed + bal'.pens
    <2>1. bal'.pens = bal.pens - r.pens
      BY <1>2, <1>3, <1>4, <1>5, <1>6, <1>8, <1>11 DEF AtLeast0
    <2>2. bal'.owed \in Nat /\ bal'.pens \in Nat
      BY ShapesKept, AmountAssumption DEF Shapes
    <2>3. bal.total = bal.owed + bal.pens
      BY <1>5, <1>11
    <2>4. bal.total - (SumOf(r.parts) + r.pens) = bal'.owed + bal'.pens
      BY <1>3, <1>6, <1>9, <2>1, <2>3
    <2>5. bal'.total = bal'.owed + bal'.pens
      BY <1>8, <2>2, <2>4 DEF AtLeast0
    <2> QED
      BY <1>2, <1>3, <1>5, <1>6, <1>11, <2>1, <2>5
  <1>12. status' = "PAID_OFF" /\ ~pen'.waived => bal'.owed = 0
    BY <1>3, <1>5, <1>6, <1>8 DEF AtLeast0
  <1> QED
    BY <1>1, <1>2, <1>5, <1>6, <1>9, <1>10, <1>11, <1>12 DEF LeasedMoney

\* The penalty that is charged is owed until it is paid or waived.
LEMMA PenaltyKeepsMoney ==
  ASSUME LoanInv, lapses = 0, [Next]_vars, NEW c \in Calls,
         ChargeBalanceOnce(c) \/ ReleasePenalty(c)
  PROVE  LeasedMoney'
  <1> USE DEF LoanInv
  <1>1. /\ RowsAlike /\ UNCHANGED status /\ bal'.owed = bal.owed
        /\ Recorded \in SUBSET Keys /\ Applied \in SUBSET Keys
    BY DEF ChargeBalanceOnce, ReleasePenalty, RowsAlike, Shapes, Recorded, Applied
  <1>2. /\ Applied' = Applied /\ Recorded' = Recorded /\ PensOf' = PensOf /\ PartsOf' = PartsOf
        /\ \A i \in Parts : PartOn(i)' = PartOn(i)
    BY <1>1, AlikeRows
  <1>3. /\ Total(PensOf, Recorded) \in Nat /\ Total(PensOf, Applied) \in Nat
        /\ Total(PartsOf, Applied) \in Nat
    BY <1>1, SumsAre
  <1>4. /\ bal.pens \in Nat /\ bal.total \in Nat /\ bal.owed \in Nat /\ Penalty \in Nat
        /\ Charged \in Nat
    BY AmountAssumption DEF Shapes, Charged
  <1>5. CASE ChargeBalanceOnce(c) /\ ~pen.charged /\ ~pen.waived
    <2>1. /\ bal'.pens = bal.pens + Penalty /\ bal'.total = bal.total + Penalty
          /\ pen'.charged /\ pen'.waived = pen.waived
      BY <1>5 DEF ChargeBalanceOnce, Shapes
    <2>2. Charged = 0 /\ Charged' = Penalty
      BY <1>5, <2>1 DEF Charged
    <2>3. /\ Total(PensOf, Recorded) <= Charged
          /\ bal.pens + Total(PensOf, Applied) = Charged /\ bal.total = bal.owed + bal.pens
          /\ (status = "PAID_OFF" /\ ~pen.waived => bal.owed = 0)
      BY <1>5 DEF LeasedMoney
    <2>4. /\ Total(PensOf', Recorded') <= Charged'
          /\ bal'.pens + Total(PensOf', Applied') = Charged' /\ bal'.total = bal'.owed + bal'.pens
      BY <1>1, <1>2, <1>3, <1>4, <2>1, <2>2, <2>3
    <2> QED
      BY <1>1, <1>2, <1>4, <2>1, <2>2, <2>3, <2>4 DEF LeasedMoney
  <1>6. CASE ChargeBalanceOnce(c) /\ (pen.charged \/ pen.waived)
    BY <1>1, <1>6, MoneyStill DEF ChargeBalanceOnce, LeasedMoney
  <1>7. CASE ReleasePenalty(c)
    <2>1. /\ bal'.pens = AtLeast0(bal.pens - Penalty) /\ UNCHANGED pen
          /\ call[c].pc = "release"
      BY <1>7 DEF ReleasePenalty, At, Shapes
    <2>2. pen.waived /\ pen'.waived
      BY <2>1 DEF Leased
    <2>3. bal'.pens <= bal.pens /\ bal'.pens \in Nat
      BY <1>4, <2>1 DEF AtLeast0
    <2>4. Charged' = Charged
      BY <2>1 DEF Charged
    <2>5. Total(PensOf, Recorded) <= Charged /\ bal.pens + Total(PensOf, Applied) <= Charged
      BY DEF LeasedMoney
    <2>6. bal'.pens + Total(PensOf', Applied') <= Charged'
      BY <1>2, <1>3, <1>4, <2>3, <2>4, <2>5
    <2> QED
      BY <1>1, <1>2, <2>2, <2>4, <2>5, <2>6 DEF LeasedMoney
  <1> QED
    BY <1>5, <1>6, <1>7

\* Every step under the lease keeps the money.
LEMMA LeasedMoneyKept ==
  ASSUME LoanInv, lapses = 0, lapses' = 0, [Next]_vars
  PROVE  LeasedMoney'
  <1> USE DEF LoanInv
  <1>1. ASSUME NEW c \in Calls, Apply(c) PROVE LeasedMoney'
    <2>1. PICK k \in Keys : k = call[c].row /\ row[k].st # "NONE"
      BY <1>1 DEF Apply, At, CallSound, Working
    <2>2. CASE row[k].st = "APPLIED"
      BY <1>1, <2>1, <2>2, MoneyStill DEF Apply, books, RowsAlike, LeasedMoney
    <2>3. CASE row[k].st # "APPLIED"
      <3>1. Applies(k) /\ UNCHANGED <<pen, status>>
        BY <1>1, <2>1, <2>3 DEF Apply, Applies
      <3> QED
        BY <2>1, <3>1, ApplyKeepsMoney
    <2> QED
      BY <2>2, <2>3
  <1>2. ASSUME NEW c \in Calls, PayOff(c) PROVE LeasedMoney'
    <2>1. UNCHANGED <<row, bal, pen>> /\ call[c].pc = "payoff" /\ Leased(c)
      BY <1>2 DEF PayOff, At, books
    <2> QED
      BY <2>1, MoneyStill DEF RowsAlike, Leased
  <1>3. ASSUME NEW c \in Calls, Moves(c), ~RecordRow(c), ~Apply(c), ~PayOff(c),
               ~ChargeBalanceOnce(c), ~ReleasePenalty(c)
        PROVE  LeasedMoney'
    <2>1. RowsAlike
      BY <1>3, OthersKeepRows
    <2>2. UNCHANGED bal /\ pen'.charged = pen.charged /\ (status' = "PAID_OFF" => status = "PAID_OFF")
      BY <1>3 DEF Moves, Step, ClaimRepaymentLock, PostOrders, PostFails, Settle, SettleFails,
         MarkFundingSettled, BookWriteOff, ClaimWriteOff, CloseLoan, Die, SavePenalty, Waive,
         WriteOff, Record, SettlementJob, ClaimStatus, books, Shapes
    <2>3. (pen.waived => pen'.waived) /\ pen.waived \in BOOLEAN /\ pen'.waived \in BOOLEAN
      BY PenaltyGrows, ShapesKept DEF Shapes
    <2> QED
      BY <2>1, <2>2, <2>3, MoneyStill DEF LeasedMoney
  <1>4. CASE Assess \/ Lapse \/ UNCHANGED vars
    <2>1. UNCHANGED <<row, bal, pen>> /\ (status' = "PAID_OFF" => status = "PAID_OFF")
      BY <1>4 DEF Assess, Lapse, vars, books
    <2> QED
      BY <2>1, MoneyStill DEF RowsAlike, LeasedMoney
  <1> QED
    BY <1>1, <1>2, <1>3, <1>4, RecordKeepsMoney, PenaltyKeepsMoney DEF Next, Moves

\* A repayment that is through with a row goes on only when no other is unapplied.
LEMMA FinishedLeased ==
  ASSUME LoanInv, lapses = 0, NEW c \in Calls, Finished(c), UNCHANGED pen,
         call[c].pc \in Working, call[c].key # None, Unapplied' = Unapplied,
         call[c].row # call[c].key => Unapplied \subseteq call[c].left \ {call[c].row}
  PROVE  Leased(c)'
  <1> USE DEF LoanInv
  <1>1. call[c] \in CallShape /\ lock = c
    BY DEF Shapes, Leased
  <1>2. CASE call[c].row = call[c].key
    <2>1. call'[c] = Idle
      BY <1>2 DEF Finished, Return, Shapes
    <2> QED
      BY <2>1 DEF Leased, Idle, Fresh, Working
  <1>3. CASE call[c].row # call[c].key
    <2> DEFINE S == call[c].left \ {call[c].row}
    <2>1. FinishOr(c, S, status) /\ lock' = c
      BY <1>1, <1>3 DEF Finished
    <2>2. CASE S = {}
      <3>1. call' = [call EXCEPT ![c] = [call[c] EXCEPT !.row = call[c].key, !.pc = "record",
                                                       !.la = status, !.left = {}]]
        BY <2>1, <2>2 DEF FinishOr
      <3>2. call'[c].pc = "record"
        <4>1. call'[c] = [call[c] EXCEPT !.row = call[c].key, !.pc = "record", !.la = status, !.left = {}]
          BY <3>1 DEF Shapes
        <4> QED
          BY <1>1, <4>1 DEF CallShape
      <3>3. Unapplied' = {}
        BY <1>3, <2>2
      <3> QED
        BY <2>1, <3>2, <3>3 DEF Leased
    <2>3. CASE S # {}
      <3>1. PICK k \in S : call' = [call EXCEPT ![c] = [@ EXCEPT !.row = k, !.pc = "post", !.left = S]]
        BY <2>1, <2>3 DEF FinishOr
      <3>2. call'[c].pc = "post" /\ call'[c].left = S
        BY <1>1, <3>1 DEF CallShape, Shapes
      <3>3. Unapplied' \subseteq S
        BY <1>3
      <3> QED
        BY <2>1, <3>2, <3>3 DEF Leased
    <2> QED
      BY <2>2, <2>3
  <1> QED
    BY <1>2, <1>3

\* The same, of a call that is through with the shares of a row.
LEMMA SettledLeased ==
  ASSUME LoanInv, lapses = 0, NEW c \in Calls, Settled(c), UNCHANGED pen,
         call[c].pc \in {"settle", "shared", "noted"}, Unapplied' = Unapplied
  PROVE  Leased(c)'
  <1> USE DEF LoanInv
  <1>1. CASE call[c].key = None
    <2>1. call'[c] = Idle
      BY <1>1 DEF Settled, Return, Shapes
    <2> QED
      BY <2>1 DEF Leased, Idle, Fresh, Working
  <1>2. CASE call[c].key # None
    <2>1. Leased(c) /\ Finished(c)
      BY <1>2 DEF Settled
    <2> QED
      BY <1>2, <2>1, FinishedLeased DEF Leased, Working
  <1> QED
    BY <1>1, <1>2

\* A call that has ended holds nothing.
LEMMA IdleLeased ==
  ASSUME NEW c \in Calls, call'[c] = Idle
  PROVE  Leased(c)'
  BY DEF Leased, Idle, Fresh, Working

\* Each step of a call keeps its lease and the list it owes to finish.
LEMMA MoverLeased ==
  ASSUME LoanInv, lapses = 0, lapses' = 0, NEW c \in Calls, Moves(c)
  PROVE  Leased(c)'
  <1> USE DEF LoanInv
  <1>0. CallSound(c) /\ Leased(c) /\ call[c] \in CallShape /\ [Next]_vars
    BY DEF Shapes, Next, Moves
  <1>1. CASE ClaimRepaymentLock(c)
    <2>1. call[c].row = call[c].key /\ UNCHANGED row
      BY <1>0, <1>1 DEF ClaimRepaymentLock, At, CallSound
    <2>2. CASE lock # Free
      BY <1>1, <2>2, IdleLeased DEF ClaimRepaymentLock, Return, Shapes
    <2>3. CASE lock = Free /\ row[call[c].key].st # "NONE"
      <3>1. To(c, "post") /\ lock' = c
        BY <1>1, <2>3 DEF ClaimRepaymentLock, Plan
      <3> QED
        BY <2>1, <3>1, Goes DEF Leased
    <2>4. CASE lock = Free /\ row[call[c].key].st = "NONE"
      <3>1. FinishOr(c, Unapplied, call[c].la) /\ lock' = c
        BY <1>1, <2>4 DEF ClaimRepaymentLock, Plan
      <3>2. Unapplied' = Unapplied
        BY <2>1 DEF Unapplied
      <3>3. CASE Unapplied = {}
        <4>1. call'[c] = [call[c] EXCEPT !.row = call[c].key, !.pc = "record", !.la = call[c].la, !.left = {}]
          BY <3>1, <3>3 DEF FinishOr, Shapes
        <4>2. call'[c].pc = "record"
          BY <1>0, <4>1 DEF CallShape
        <4> QED
          BY <3>1, <3>2, <3>3, <4>2 DEF Leased
      <3>4. CASE Unapplied # {}
        <4>1. PICK k \in Unapplied :
                call' = [call EXCEPT ![c] = [@ EXCEPT !.row = k, !.pc = "post", !.left = Unapplied]]
          BY <3>1, <3>4 DEF FinishOr
        <4>2. call'[c].pc = "post" /\ call'[c].left = Unapplied
          BY <1>0, <4>1 DEF CallShape, Shapes
        <4> QED
          BY <3>1, <3>2, <4>2 DEF Leased
      <3> QED
        BY <3>3, <3>4
    <2> QED
      BY <2>2, <2>3, <2>4
  <1>2. CASE RecordRow(c)
    <2>1. call[c].row = call[c].key /\ call[c].pc = "record" /\ call[c].key \in Keys
      BY <1>0, <1>2 DEF RecordRow, At, CallSound
    <2>2. CASE isRepayableStatus(call[c].la)
      <3>1. To(c, "post") /\ lock' = c
        BY <1>0, <1>2, <2>1, <2>2, NameAssumption DEF RecordRow, Leased, Working
      <3> QED
        BY <2>1, <3>1, Goes DEF Leased
    <2>3. CASE ~isRepayableStatus(call[c].la)
      BY <1>2, <2>3, IdleLeased DEF RecordRow, Return, Shapes
    <2> QED
      BY <2>2, <2>3
  <1>3. CASE PostOrders(c)
    <2>1. To(c, "apply") /\ UNCHANGED <<lock, row>> /\ call[c].pc = "post"
      BY <1>3 DEF PostOrders, At
    <2>2. Unapplied' = Unapplied
      BY <2>1 DEF Unapplied
    <2> QED
      BY <1>0, <2>1, <2>2, Goes DEF Leased, Working
  <1>4. CASE PostFails(c)
    BY <1>4, IdleLeased DEF PostFails, Return, Shapes
  <1>5. CASE Apply(c)
    <2>1. PICK k \in Keys : k = call[c].row /\ row[k].st # "NONE"
      BY <1>5 DEF Apply, At, CallSound, Working
    <2>2. call[c].pc = "apply" /\ call[c].key \in Keys /\ call[c].key # None /\ lock = c
      BY <1>0, <1>5, NameAssumption DEF Apply, At, CallSound, Leased, Working
    <2>3. CASE row[k].st = "APPLIED"
      <3>1. Finished(c) /\ UNCHANGED <<row, pen>>
        BY <1>5, <2>1, <2>3 DEF Apply
      <3>2. Unapplied' = Unapplied /\ k \notin Unapplied
        BY <2>3, <3>1 DEF Unapplied
      <3> QED
        BY <1>0, <2>1, <2>2, <3>1, <3>2, FinishedLeased DEF Leased, Working
    <2>4. CASE row[k].st # "APPLIED"
      <3>1. /\ To(c, IF bal'.total = 0 THEN "payoff" ELSE "settle") /\ UNCHANGED <<lock, pen>>
            /\ row' = [row EXCEPT ![k].st = "APPLIED"]
        BY <1>5, <2>1, <2>4 DEF Apply
      <3>2. Unapplied' = Unapplied \ {k}
        <4>1. \A j \in Keys : row'[j].st = IF j = k THEN "APPLIED" ELSE row[j].st
          BY <3>1 DEF Shapes, RowShape
        <4> QED
          BY <4>1 DEF Unapplied
      <3>3. ASSUME call'[c].pc = "payoff", ~pen'.waived PROVE bal'.owed = 0
        <4>1. bal'.total = 0
          BY <3>1, <3>3, Goes
        <4>2. bal'.total = bal'.owed + bal'.pens
          BY <1>0, <3>3, LeasedMoneyKept DEF LeasedMoney
        <4>3. bal'.owed \in Nat /\ bal'.pens \in Nat
          BY <1>0, ShapesKept, AmountAssumption DEF Shapes
        <4> QED
          BY <4>1, <4>2, <4>3
      <3>4. /\ call'[c].pc \in {"payoff", "settle"} /\ call'[c].key = call[c].key
            /\ call'[c].row = k /\ call'[c].left = call[c].left
        BY <2>1, <3>1, Goes
      <3>5. call[c].row # call[c].key => Unapplied \subseteq call[c].left
        BY <1>0, <2>2 DEF Leased
      <3> QED
        BY <2>1, <2>2, <3>1, <3>2, <3>3, <3>4, <3>5 DEF Leased
    <2> QED
      BY <2>3, <2>4
  <1>6. CASE PayOff(c)
    <2>1. call[c].pc = "payoff" /\ UNCHANGED <<row, lock>>
      BY <1>6 DEF PayOff, At
    <2>2. /\ call'[c].pc = "settle" /\ call'[c].key = call[c].key /\ call'[c].row = call[c].row
          /\ call'[c].left = call[c].left
      BY <1>0, <1>6 DEF PayOff, Shapes, CallShape
    <2>3. Unapplied' = Unapplied
      BY <2>1 DEF Unapplied
    <2> QED
      BY <1>0, <2>1, <2>2, <2>3 DEF Leased, Working
  <1>7. CASE Settle(c)
    <2>1. PICK pc \in Settlements : To(c, pc)
      BY <1>7 DEF Settle, Settlements
    <2>2. UNCHANGED <<lock, row>> /\ call[c].pc = "settle"
      BY <1>7 DEF Settle, At
    <2>3. Unapplied' = Unapplied
      BY <2>2 DEF Unapplied
    <2> QED
      BY <1>0, <2>1, <2>2, <2>3, Goes DEF Leased, Working, Settlements
  <1>8. CASE SettleFails(c) \/ MarkFundingSettled(c)
    <2>1. Settled(c) /\ UNCHANGED pen /\ call[c].pc \in {"settle", "shared", "noted"}
      BY <1>8 DEF SettleFails, MarkFundingSettled, Settlements
    <2>2. RowsAlike
      <3>1. ~RecordRow(c) /\ ~Apply(c)
        BY <2>1 DEF RecordRow, Apply, At
      <3> QED
        BY <3>1, OthersKeepRows
    <2> QED
      BY <2>1, <2>2, AlikeRows, SettledLeased
  <1>9. CASE ChargeBalanceOnce(c) \/ ReleasePenalty(c) \/ CloseLoan(c) \/ Die(c)
    BY <1>9, IdleLeased DEF ChargeBalanceOnce, ReleasePenalty, CloseLoan, Die, Return, Shapes
  <1>10. CASE BookWriteOff(c) \/ ClaimWriteOff(c)
    <2>1. call'[c] = Idle \/ call'[c].pc \in {"claim", "close"}
      BY <1>10, Goes DEF BookWriteOff, ClaimWriteOff, Return, Shapes
    <2> QED
      BY <2>1, IdleLeased DEF Leased, Working
  <1>11. CASE SavePenalty(c) \/ WriteOff(c)
    <2>1. call'[c].pc \in {"charge", "book", "close"}
      BY <1>11 DEF SavePenalty, WriteOff, Begin, Fresh, Shapes
    <2> QED
      BY <2>1 DEF Leased, Working
  <1>12. CASE Waive(c)
    <2>1. call'[c].pc = "release" /\ pen'.waived
      BY <1>12 DEF Waive, Begin, Fresh, Shapes
    <2> QED
      BY <2>1 DEF Leased, Working
  <1>13. ASSUME NEW k \in Keys, Record(c, k) PROVE Leased(c)'
    <2>1. call'[c].pc = "lock"
      BY <1>13 DEF Record, Begin, Fresh, Shapes
    <2> QED
      BY <2>1 DEF Leased, Working
  <1>14. ASSUME NEW k \in Keys, SettlementJob(c, k) PROVE Leased(c)'
    <2>1. call'[c].pc = "settle" /\ call'[c].key = None
      BY <1>14 DEF SettlementJob, Fresh, Shapes
    <2> QED
      BY <2>1 DEF Leased
  <1> QED
    BY <1>1, <1>2, <1>3, <1>4, <1>5, <1>6, <1>7, <1>8, <1>9, <1>10, <1>11, <1>12, <1>13, <1>14
       DEF Moves, Step

\* Every step keeps what holds while no repayment outlives its lease.
LEMMA LeaseKept ==
  ASSUME LoanInv, [Next]_vars, lapses' = 0
  PROVE  (\A d \in Calls : Leased(d)') /\ LeasedMoney'
  <1> USE DEF LoanInv
  <1>0. lapses = 0
    <2>1. CASE Lapse
      BY <2>1 DEF Lapse, Shapes
    <2>2. CASE lapses' = lapses
      BY <2>2
    <2> QED
      BY <2>1, <2>2 DEF Next, Step, vars, ClaimRepaymentLock, RecordRow, PostOrders, PostFails,
         Apply, PayOff, Settle, SettleFails, MarkFundingSettled, ChargeBalanceOnce,
         ReleasePenalty, BookWriteOff, ClaimWriteOff, CloseLoan, Die, SavePenalty, Waive,
         WriteOff, Record, SettlementJob, Assess
  <1>1. LeasedMoney'
    BY <1>0, LeasedMoneyKept
  <1>2. ASSUME NEW c \in Calls, Moves(c) PROVE \A d \in Calls : Leased(d)'
    BY <1>0, <1>2, MoverLeased, OthersLeased
  <1>3. CASE Assess \/ UNCHANGED vars
    <2>1. UNCHANGED <<lock, row, bal, pen, call>>
      BY <1>3 DEF Assess, vars, books
    <2>2. Unapplied' = Unapplied
      BY <2>1 DEF Unapplied
    <2> QED
      BY <1>0, <1>1, <2>1, <2>2 DEF Leased
  <1>4. CASE Lapse
    BY <1>0, <1>4 DEF Lapse
  <1> QED
    BY <1>1, <1>2, <1>3, <1>4 DEF Next, Moves

\* A loan just disbursed satisfies the invariant.
LEMMA InitHolds == Init => LoanInv
  <1> SUFFICES ASSUME Init PROVE LoanInv
    OBVIOUS
  <1>1. Shapes
    BY InitShapes
  <1>2. \A k \in Keys : row[k] = NoRow /\ row[k].st = "NONE" /\ posted[k] = {}
    BY DEF Init, NoRow
  <1>3. \A k \in Keys : RowSound(k)
    <2> TAKE k \in Keys
    <2>1. NoRow.pens = 0 /\ SumOf(NoRow.parts) = 0 /\ NoRow.excess = 0 /\ NoRow.settled = "no"
      BY NothingIsDue DEF NoRow
    <2>2. Pay[k] \in Nat
      BY AmountAssumption
    <2>3. row[k].pens + SumOf(row[k].parts) + row[k].excess <= Pay[k]
      BY <1>2, <2>1, <2>2
    <2> QED
      BY <1>2, <2>1, <2>3 DEF RowSound
  <1>4. \A c \in Calls : CallSound(c) /\ Leased(c)
    BY DEF Init, CallSound, Leased, Idle, Fresh, Working
  <1>5. /\ Applied = {} /\ Recorded = {}
    BY <1>2 DEF Applied, Recorded
  <1>6. /\ Total(PensOf, {}) = 0 /\ Total(PartsOf, {}) = 0
        /\ \A i \in Parts : Total(PartOn(i), {}) = 0
    BY TotalEmpty
  <1>7. /\ paid = NoParts /\ bal.owed = SumOf(Due) /\ bal.pens = 0 /\ bal.total = SumOf(Due)
        /\ bal.paid = 0 /\ status = "ACTIVE" /\ ~pen.charged
    BY DEF Init
  <1>8. PaidSums
    BY <1>5, <1>6, <1>7, NothingIsDue DEF PaidSums, NoParts
  <1>9. BalanceSound
    BY <1>7, DueSum DEF BalanceSound, Charged
  <1>10. LeasedMoney
    BY <1>5, <1>6, <1>7, DueSum, PartsAreFinite DEF LeasedMoney, Charged
  <1>11. Recoveries
    BY <1>2 DEF Init, Recoveries, NoRow, Idle, Fresh
  <1> QED
    BY <1>1, <1>3, <1>4, <1>8, <1>9, <1>10, <1>11 DEF LoanInv

\* Every step keeps the invariant.
LEMMA StepHolds == LoanInv /\ [Next]_vars => LoanInv'
  <1> SUFFICES ASSUME LoanInv, [Next]_vars PROVE LoanInv'
    OBVIOUS
  <1> QED
    BY ShapesKept, RowsKept, CallsKept, SumsStay, BalanceKept, RecoveriesKept, LeaseKept DEF LoanInv

\* The inductive invariant of the loan, for every set of payments, schedule and number of calls.
THEOREM LoanHolds == Spec => []LoanInv
  BY InitHolds, StepHolds, PTL DEF Spec
-----------------------------------------------------------------------------
(* The properties *)

\* A payment is no more than all of them.
LEMMA PaysFit ==
  SumOf(Pay) \in Nat /\ \A k \in Keys : Pay[k] \in Nat /\ Pay[k] <= SumOf(Pay)
  <1>1. IsFiniteSet(Keys) /\ DOMAIN Pay = Keys /\ Pay \in [Keys -> Nat] /\ Amounts(Pay, Keys)
    BY AmountAssumption DEF Amounts
  <1>2. SumOf(Pay) \in Nat
    <2>1. Keys \in SUBSET Keys
      OBVIOUS
    <2> QED
      BY <1>1, <2>1, TotalPart DEF SumOf
  <1>3. \A k \in Keys : Pay[k] \in Nat /\ Pay[k] <= SumOf(Pay)
    <2> TAKE k \in Keys
    <2>1. Pay[k] \in Int /\ {k} \in SUBSET Keys
      BY <1>1
    <2>2. Total(Pay, {k}) = Pay[k] /\ Total(Pay, {k}) <= Total(Pay, Keys)
      BY <1>1, <2>1, TotalOne, TotalPart
    <2> QED
      BY <1>1, <2>2 DEF SumOf
  <1> QED
    BY <1>2, <1>3

\* What is paid is never more than the payments.
LEMMA PaidFits ==
  ASSUME LoanInv
  PROVE  /\ \A k \in Keys : \A i \in Parts : row[k].parts[i] <= SumOf(Pay)
         /\ \A i \in Parts : paid[i] <= SumOf(Pay)
         /\ bal.paid <= SumOf(Pay) /\ SumOf(Pay) \in Nat
  <1> USE DEF LoanInv
  <1>1. IsFiniteSet(Keys) /\ DOMAIN Pay = Keys /\ Pay \in [Keys -> Nat] /\ Applied \in SUBSET Keys
    BY AmountAssumption DEF Applied
  <1>2. \A k \in Keys : /\ row[k].parts \in [Parts -> Nat] /\ row[k].pens \in Nat
                        /\ SumOf(row[k].parts) \in Nat /\ row[k].excess \in Nat
                        /\ row[k].pens + SumOf(row[k].parts) + row[k].excess <= Pay[k]
    BY SumTypes DEF RowSound, Shapes, RowShape
  <1>3. \A k \in Keys : Pay[k] \in Nat /\ Pay[k] <= SumOf(Pay)
    BY PaysFit
  <1>4. SumOf(Pay) \in Nat
    BY PaysFit
  <1>5. \A k \in Keys : \A i \in Parts : row[k].parts[i] <= SumOf(row[k].parts)
    <2> TAKE k \in Keys
    <2> TAKE i \in Parts
    <2> DEFINE f == row[k].parts
    <2>1. f \in [Parts -> Nat]
      BY <1>2
    <2> HIDE DEF f
    <2>2. Amounts(f, Parts) /\ f[i] \in Int /\ {i} \in SUBSET Parts /\ DOMAIN f = Parts
      BY <2>1 DEF Amounts
    <2>3. Total(f, {i}) = f[i] /\ Total(f, {i}) <= Total(f, Parts)
      BY <2>2, PartsAreFinite, TotalOne, TotalPart
    <2> QED
      BY <2>2, <2>3 DEF SumOf, f
  <1>6. \A k \in Keys : \A i \in Parts : row[k].parts[i] <= SumOf(Pay)
    <2> TAKE k \in Keys
    <2> TAKE i \in Parts
    <2>1. row[k].parts[i] \in Nat /\ row[k].parts[i] <= SumOf(row[k].parts)
      BY <1>2, <1>5
    <2>2. Pay[k] \in Nat /\ Pay[k] <= SumOf(Pay)
      BY <1>3
    <2>3. /\ row[k].pens \in Nat /\ SumOf(row[k].parts) \in Nat /\ row[k].excess \in Nat
          /\ row[k].pens + SumOf(row[k].parts) + row[k].excess <= Pay[k]
      BY <1>2
    <2> QED
      BY <1>4, <2>1, <2>2, <2>3
  <1>7. bal.paid <= SumOf(Pay)
    <2> DEFINE g == [k \in Keys |-> row[k].pens + SumOf(row[k].parts)]
    <2>1. /\ Sum2(PensOf, PartsOf, g, Applied) /\ Whole(PensOf, Applied) /\ Whole(PartsOf, Applied)
          /\ Whole(g, Applied) /\ Whole(Pay, Applied) /\ NoMore(g, Pay, Applied) /\ Amounts(Pay, Keys)
      <3>1. \A k \in Applied : /\ g[k] = row[k].pens + SumOf(row[k].parts)
                               /\ PensOf[k] = row[k].pens /\ PartsOf[k] = SumOf(row[k].parts)
                               /\ Pay[k] \in Nat /\ g[k] <= Pay[k]
                               /\ row[k].pens \in Nat /\ SumOf(row[k].parts) \in Nat
        BY <1>1, <1>2, <1>3 DEF PensOf, PartsOf
      <3> HIDE DEF g
      <3> QED
        BY <1>1, <3>1 DEF Sum2, Whole, NoMore, Amounts
    <2> HIDE DEF g
    <2>2. IsFiniteSet(Applied)
      BY <1>1, RowsFinite
    <2>3. Total(g, Applied) = Total(PensOf, Applied) + Total(PartsOf, Applied)
      BY <2>1, <2>2, TotalPlus
    <2>4. Total(g, Applied) <= Total(Pay, Applied)
      BY <2>1, <2>2, TotalAtMost
    <2>5. Total(Pay, Applied) <= Total(Pay, Keys) /\ Total(Pay, Applied) \in Nat
      BY <1>1, <2>1, TotalPart
    <2>6. bal.paid = Total(g, Applied) /\ bal.paid \in Nat
      BY <2>3 DEF PaidSums, Shapes
    <2> QED
      BY <1>1, <1>4, <2>4, <2>5, <2>6 DEF SumOf
  <1>8. \A i \in Parts : paid[i] <= SumOf(Pay)
    <2> TAKE i \in Parts
    <2>1. /\ Whole(PartOn(i), Applied) /\ Whole(Pay, Applied) /\ NoMore(PartOn(i), Pay, Applied)
          /\ Amounts(Pay, Keys)
      <3>1. \A k \in Applied : /\ PartOn(i)[k] = row[k].parts[i] /\ row[k].parts[i] \in Nat
                               /\ row[k].parts[i] <= Pay[k] /\ Pay[k] \in Nat
        <4> TAKE k \in Applied
        <4>1. /\ row[k].pens \in Nat /\ SumOf(row[k].parts) \in Nat /\ row[k].excess \in Nat
              /\ row[k].pens + SumOf(row[k].parts) + row[k].excess <= Pay[k]
              /\ row[k].parts[i] \in Nat /\ row[k].parts[i] <= SumOf(row[k].parts) /\ Pay[k] \in Nat
          BY <1>1, <1>2, <1>3, <1>5
        <4> QED
          BY <1>1, <4>1 DEF PartOn
      <3> QED
        BY <1>1, <3>1 DEF Whole, NoMore, Amounts
    <2>2. IsFiniteSet(Applied)
      BY <1>1, RowsFinite
    <2>3. Total(PartOn(i), Applied) <= Total(Pay, Applied) /\ Total(PartOn(i), Applied) \in Int
      BY <2>1, <2>2, TotalAtMost, TotalType
    <2>4. Total(Pay, Applied) <= Total(Pay, Keys) /\ Total(Pay, Applied) \in Nat
      BY <1>1, <2>1, TotalPart
    <2>5. paid[i] = Total(PartOn(i), Applied)
      BY DEF PaidSums
    <2> QED
      BY <1>1, <1>4, <2>3, <2>4, <2>5 DEF SumOf
  <1> QED
    BY <1>4, <1>6, <1>7, <1>8

\* Every number the books hold is within the payments, the schedule and the penalty.
LEMMA BooksFit == LoanInv => TypeOK
  <1> SUFFICES ASSUME LoanInv PROVE TypeOK
    OBVIOUS
  <1> USE DEF LoanInv
  <1>1. /\ SumOf(Due) \in Nat /\ Penalty \in Nat /\ SumOf(Pay) \in Nat
    BY DueSum, PaidFits, AmountAssumption
  <1>2. \A n \in Nat : n <= SumOf(Pay) \/ n <= SumOf(Due) + Penalty => n \in Sums
    BY <1>1 DEF Sums
  <1>3. \A k \in Keys : row[k] \in [st : {"NONE", "RECORDED", "APPLIED"}, pens : 0..Penalty,
                       parts : [Parts -> Sums], excess : Sums,
                       recovery : BOOLEAN, settled : {"no"} \union Settlements]
    <2> TAKE k \in Keys
    <2>1. row[k] \in RowShape
      BY DEF Shapes
    <2>2. row[k].parts \in [Parts -> Sums]
      <3>1. row[k].parts \in [Parts -> Nat] /\ \A i \in Parts : row[k].parts[i] <= SumOf(Pay)
        BY <2>1, PaidFits DEF RowShape
      <3> QED
        BY <1>2, <3>1
    <2>3. row[k].excess \in Sums
      <3>1. row[k].excess \in Nat /\ row[k].excess <= SumOf(Pay)
        <4>1. /\ row[k].pens \in Nat /\ SumOf(row[k].parts) \in Nat /\ row[k].excess \in Nat
              /\ row[k].pens + SumOf(row[k].parts) + row[k].excess <= Pay[k]
          BY <2>1, SumTypes DEF RowShape, RowSound
        <4>2. Pay[k] \in Nat /\ Pay[k] <= SumOf(Pay)
          BY PaysFit
        <4> QED
          BY <1>1, <4>1, <4>2
      <3> QED
        BY <1>2, <3>1
    <2> QED
      BY <2>1, <2>2, <2>3 DEF RowShape
  <1>4. row \in [Keys -> [st : {"NONE", "RECORDED", "APPLIED"}, pens : 0..Penalty,
                       parts : [Parts -> Sums], excess : Sums,
                       recovery : BOOLEAN, settled : {"no"} \union Settlements]]
    BY <1>3 DEF Shapes
  <1>5. paid \in [Parts -> Sums]
    <2>1. paid \in [Parts -> Nat] /\ \A i \in Parts : paid[i] <= SumOf(Pay)
      BY PaidFits DEF Shapes
    <2> QED
      BY <1>2, <2>1
  <1>6. bal \in [owed : Sums, pens : 0..Penalty, total : Sums, paid : Sums]
    <2>1. bal.owed \in Sums
      BY <1>1, <1>2 DEF Shapes
    <2>2. bal.total \in Sums
      <3>1. bal.total \in Nat /\ bal.total <= SumOf(Due) + Charged /\ Charged \in 0..Penalty
        BY <1>1 DEF Shapes, BalanceSound, Charged
      <3> QED
        BY <1>1, <1>2, <3>1
    <2>3. bal.paid \in Sums
      BY <1>2, PaidFits DEF Shapes
    <2> QED
      BY <2>1, <2>2, <2>3 DEF Shapes
  <1>7. woff \in Sums \union {None}
    BY <1>1, <1>2 DEF Shapes
  <1>8. status \in {s[1] : s \in validTransitions} \union {"CLOSED"}
    <2>1. ASSUME status # "CLOSED" PROVE status \in {s[1] : s \in validTransitions}
      <3>1. PICK to \in {"PAID_OFF", "CLOSED"} : <<status, to>> \in validTransitions
        BY <2>1 DEF Shapes, Statuses, validTransitions
      <3>2. <<status, to>>[1] = status
        OBVIOUS
      <3> QED
        BY <3>1, <3>2
    <2> QED
      BY <2>1
  <1> QED
    BY <1>4, <1>5, <1>6, <1>7, <1>8 DEF TypeOK, Shapes

\* A repayment moves the installments and the balance exactly once, whoever resumes
\* it and however often (repayment_apply.go): what is paid is the sum of the applied rows.
THEOREM RepaymentsAreAppliedOnce == Spec => []PaidIsApplied
  <1>1. LoanInv => PaidIsApplied
    BY BooksFit DEF LoanInv, PaidSums, PaidIsApplied
  <1> QED
    BY <1>1, LoanHolds, PTL

\* While no repayment outlives its lease, no two of them allocate against the same
\* installment or the same penalty (repayment.go:163), and no column of the balance is
\* ever cut at zero for it.
THEOREM NothingIsAllocatedTwice == Spec => []AllocatedOnce
  <1>1. LoanInv => AllocatedOnce
    <2> SUFFICES ASSUME LoanInv, lapses = 0
                 PROVE  /\ \A i \in Parts : Total(PartOn(i), Recorded) <= Due[i]
                        /\ Total(PensOf, Recorded) <= Penalty
                        /\ bal.owed = SumOf(Due) - Total(PartsOf, Applied)
      BY DEF AllocatedOnce
    <2>1. LeasedMoney /\ Shapes
      BY DEF LoanInv
    <2>2. Recorded \in SUBSET Keys
      BY DEF Recorded
    <2>3. Total(PensOf, Recorded) \in Nat /\ Charged \in Nat /\ Charged <= Penalty /\ Penalty \in Nat
      BY <2>1, <2>2, SumsAre, AmountAssumption DEF Charged
    <2> QED
      BY <2>1, <2>3 DEF LeasedMoney
  <1> QED
    BY <1>1, LoanHolds, PTL

\* A row counts only when operations has booked it; it is settled without a note only
\* when funding has its share, a recovery only of a loss that is booked
\* (funding_settlement.go); and the loan is written off, or paid off, only when the
\* money says so.
THEOREM TheBooksFollow == Spec => []StatusFollowsMoney
  <1>1. LoanInv => StatusFollowsMoney
    <2> SUFFICES ASSUME LoanInv PROVE StatusFollowsMoney
      OBVIOUS
    <2>1. \A k \in Keys : RowSound(k)
      BY DEF LoanInv
    <2>2. \A k \in Applied : posted[k] = Components(row[k])
      BY <2>1 DEF RowSound, Applied
    <2>3. \A k \in Keys : row[k].settled = "shared" => shares[k] # {}
      BY <2>1 DEF RowSound
    <2>4. status = "WRITTEN_OFF" => woff # None
      BY DEF LoanInv, BalanceSound
    <2>5. status = "PAID_OFF" /\ ~pen.waived /\ lapses = 0 => bal.owed = 0
      BY DEF LoanInv, LeasedMoney
    <2>6. \A k \in Keys : "recovery" \in shares[k] => woff # None
      BY DEF LoanInv, Recoveries
    <2> QED
      BY <2>2, <2>3, <2>4, <2>5, <2>6 DEF StatusFollowsMoney
  <1> QED
    BY <1>1, LoanHolds, PTL

\* The status only makes moves of the state machine, whoever claims it.
THEOREM StatusMoves == Spec => FollowsTransitions
  <1>1. [Next]_vars => [status' = status \/ <<status, status'>> \in validTransitions]_vars
    <2> SUFFICES ASSUME Next PROVE status' = status \/ <<status, status'>> \in validTransitions
      BY DEF vars
    <2>1. ASSUME NEW c \in Calls, PayOff(c) \/ ClaimWriteOff(c) \/ CloseLoan(c)
          PROVE  status' = status \/ <<status, status'>> \in validTransitions
      BY <2>1 DEF PayOff, ClaimWriteOff, CloseLoan, ClaimStatus, validTransitions
    <2>2. CASE Assess
      BY <2>2 DEF Assess, validTransitions
    <2>3. CASE UNCHANGED status
      BY <2>3
    <2> QED
      BY <2>1, <2>2, <2>3 DEF Next, Step, ClaimRepaymentLock, RecordRow, PostOrders, PostFails,
         Apply, Settle, SettleFails, MarkFundingSettled, ChargeBalanceOnce, ReleasePenalty,
         BookWriteOff, Die, SavePenalty, Waive, WriteOff, Record, SettlementJob, Lapse
  <1> QED
    BY <1>1, PTL DEF Spec, FollowsTransitions
=============================================================================
