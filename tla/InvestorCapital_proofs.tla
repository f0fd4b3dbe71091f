------------------------ MODULE InvestorCapital_proofs ------------------------
(***************************************************************************)
(* Proofs about InvestorCapital for every loan, every set of tranches,       *)
(* investors, repayments, recoveries and movements, any number of calls and  *)
(* faults: what is repaid, lost and recovered is on the tranches once and    *)
(* whole, an investor's capital is what came in less what went out or was    *)
(* lost, and the rows tell what happened to the money.                       *)
(***************************************************************************)
EXTENDS InvestorCapital, Sums_proofs

Least(a, b) == IF a < b THEN a ELSE b
Rows == References \union {"loss"}
Statuses == {"NONE", "PENDING", "DEBITED", "COMPLETED", "REVERTED"}
Shares == [Tranches -> Nat]
CallShape == [pc : Pcs, key : Rows \union Moves \union {"none"}, shares : Shares]

-----------------------------------------------------------------------------
(* Shares *)

\* The tranches are finitely many, and all of them are financed.
LEMMA TranchesAreFinite ==
  /\ IsFiniteSet(Tranches) /\ Last \in Tranches /\ Last \in Nat \ {0}
  /\ \A S \in SUBSET Tranches : IsFiniteSet(S)
  /\ \A n \in Nat : n <= Last => 1..n \in SUBSET Tranches
  /\ \A i : Behind(i) \in SUBSET Tranches
  <1>1. IsFiniteSet(Tranches)
    BY LoanAssumption, FS_Interval DEF Tranches
  <1>2. \A S \in SUBSET Tranches : IsFiniteSet(S)
    BY <1>1, FS_Subset
  <1>3. Last \in Tranches /\ Last \in Nat \ {0}
    BY LoanAssumption DEF Tranches
  <1>4. \A n \in Nat : n <= Last => 1..n \in SUBSET Tranches
    BY LoanAssumption DEF Tranches
  <1>5. \A i : Behind(i) \in SUBSET Tranches
    BY DEF Behind
  <1> QED
    BY <1>1, <1>2, <1>3, <1>4, <1>5

\* Whatever some tranches add up to is an amount.
LEMMA TrancheTotals ==
  ASSUME NEW s, Amounts(s, Tranches), NEW S \in SUBSET Tranches
  PROVE  /\ IsFiniteSet(S) /\ Whole(s, S) /\ Amounts(s, S)
         /\ Total(s, S) \in Nat
         /\ Total(s, S) <= Total(s, Tranches)
  <1>1. IsFiniteSet(S) /\ IsFiniteSet(Tranches)
    BY TranchesAreFinite
  <1>2. Whole(s, S) /\ Amounts(s, S)
    BY DEF Whole, Amounts
  <1>3. S \in SUBSET S
    OBVIOUS
  <1>4. Total(s, S) \in Nat
    BY <1>1, <1>2, <1>3, TotalPart
  <1>5. Total(s, S) <= Total(s, Tranches)
    BY <1>1, TotalPart
  <1> QED
    BY <1>1, <1>2, <1>4, <1>5

\* A loan is of at least one unit.
LEMMA FinancedIsPositive ==
  /\ Amounts(Lent, Tranches) /\ Financed \in Nat \ {0}
  <1>1. Amounts(Lent, Tranches)
    BY LoanAssumption DEF Amounts
  <1>2. {Last} \in SUBSET Tranches
    BY TranchesAreFinite
  <1>3. Total(Lent, {Last}) = Lent[Last]
    <2>1. Lent[Last] \in Int
      BY LoanAssumption, TranchesAreFinite
    <2> QED
      BY <2>1, TotalOne
  <1>4. Lent[Last] \in Nat /\ Lent[Last] > 0
    BY LoanAssumption, TranchesAreFinite
  <1>5. Total(Lent, {Last}) <= Total(Lent, Tranches)
    BY <1>1, <1>2, TrancheTotals
  <1>6. Tranches \in SUBSET Tranches
    OBVIOUS
  <1>7. Total(Lent, Tranches) \in Nat
    BY <1>1, <1>6, TrancheTotals
  <1> QED
    BY <1>1, <1>3, <1>4, <1>5, <1>7 DEF Financed

\* Division rounds down.
LEMMA DivRoundsDown ==
  ASSUME NEW a \in Nat, NEW b \in Nat \ {0}
  PROVE  a \div b \in Nat /\ b * (a \div b) <= a
  OBVIOUS

\* What is less by weight is less.
LEMMA ScaledDown ==
  ASSUME NEW f \in Nat \ {0}, NEW n \in Nat, NEW x \in Nat, NEW y \in Nat,
         f * x <= n * y, y <= f
  PROVE  x <= n
  <1> SUFFICES ASSUME x >= n + 1 PROVE FALSE
    OBVIOUS
  <1>1. f * x >= f * (n + 1)
    OBVIOUS
  <1>2. n * y <= n * f
    OBVIOUS
  <1> QED
    BY <1>1, <1>2

\* One tranche more.
LEMMA NextTotal ==
  ASSUME NEW f, NEW k \in Nat, Whole(f, 1..k), f[k + 1] \in Nat
  PROVE  Total(f, 1..(k + 1)) = Total(f, 1..k) + f[k + 1]
  <1>1. PICK y, S, T : y = k + 1 /\ S = 1..k /\ T = 1..(k + 1)
    OBVIOUS
  <1>2. T = S \union {y} /\ y \notin S
    BY <1>1
  <1>3. IsFiniteSet(S)
    BY <1>1, FS_Interval
  <1>4. Whole(f, S) /\ f[y] \in Int
    BY <1>1
  <1>5. Total(f, S \union {y}) = Total(f, S) + f[y]
    BY <1>2, <1>3, <1>4, TotalInsert
  <1> QED
    BY <1>1, <1>2, <1>5

\* What is given out before the last tranche is no more than there is.
LEMMA ProportionsFit ==
  ASSUME NEW n \in Nat, NEW p, p = [t \in Tranches |-> ProportionOf(n, t)]
  PROVE  /\ Amounts(p, Tranches) /\ Total(p, 1..(Last - 1)) \in Nat
         /\ Total(p, 1..(Last - 1)) <= n
  <1> DEFINE T == {k \in Nat : k <= Last =>
                     Financed * Total(p, 1..k) <= n * Total(Lent, 1..k)}
  <1>1. \A t \in Tranches : p[t] \in Nat /\ Financed * p[t] <= n * Lent[t]
    <2> TAKE t \in Tranches
    <2>1. Lent[t] \in Nat /\ n * Lent[t] \in Nat /\ Financed \in Nat \ {0}
      BY FinancedIsPositive, LoanAssumption
    <2>2. p[t] = (n * Lent[t]) \div Financed
      BY DEF ProportionOf
    <2>3. PICK a \in Nat : a = n * Lent[t]
      BY <2>1
    <2>4. a \div Financed \in Nat /\ Financed * (a \div Financed) <= a
      BY <2>1, DivRoundsDown
    <2> QED
      BY <2>2, <2>3, <2>4
  <1>2. Amounts(p, Tranches) /\ Amounts(Lent, Tranches)
    BY <1>1, FinancedIsPositive DEF Amounts
  <1>3. \A k \in Nat : k <= Last =>
          /\ 1..k \in SUBSET Tranches /\ IsFiniteSet(1..k)
          /\ Whole(p, 1..k) /\ Whole(Lent, 1..k)
          /\ Total(p, 1..k) \in Nat /\ Total(Lent, 1..k) \in Nat
    <2> SUFFICES ASSUME NEW k \in Nat, k <= Last
                 PROVE  /\ 1..k \in SUBSET Tranches /\ IsFiniteSet(1..k)
                        /\ Whole(p, 1..k) /\ Whole(Lent, 1..k)
                        /\ Total(p, 1..k) \in Nat /\ Total(Lent, 1..k) \in Nat
      OBVIOUS
    <2>1. 1..k \in SUBSET Tranches
      BY TranchesAreFinite
    <2> QED
      BY <2>1, <1>2, TrancheTotals
  <1>4. 0 \in T
    <2>1. 1..0 = {}
      OBVIOUS
    <2>2. Total(p, 1..0) = 0 /\ Total(Lent, 1..0) = 0
      BY <2>1, TotalEmpty
    <2> QED
      BY <2>2, FinancedIsPositive
  <1>5. ASSUME NEW k \in T PROVE k + 1 \in T
    <2> SUFFICES ASSUME k + 1 <= Last
                 PROVE  Financed * Total(p, 1..(k + 1)) <= n * Total(Lent, 1..(k + 1))
      OBVIOUS
    <2>1. /\ k \in Nat /\ k <= Last
          /\ Financed * Total(p, 1..k) <= n * Total(Lent, 1..k)
      BY TranchesAreFinite
    <2>2. k + 1 \in Tranches /\ k + 1 \notin 1..k /\ 1..(k + 1) = (1..k) \union {k + 1}
      BY <2>1, TranchesAreFinite DEF Tranches
    <2>3. p[k + 1] \in Nat /\ Lent[k + 1] \in Nat /\ Financed * p[k + 1] <= n * Lent[k + 1]
      BY <1>1, <2>2, LoanAssumption
    <2>4. /\ IsFiniteSet(1..k) /\ Whole(p, 1..k) /\ Whole(Lent, 1..k)
          /\ Total(p, 1..k) \in Nat /\ Total(Lent, 1..k) \in Nat
      BY <1>3, <2>1
    <2>5. Total(p, 1..(k + 1)) = Total(p, 1..k) + p[k + 1]
      BY <2>1, <2>3, <2>4, NextTotal
    <2>6. Total(Lent, 1..(k + 1)) = Total(Lent, 1..k) + Lent[k + 1]
      BY <2>1, <2>3, <2>4, NextTotal
    <2>7. \A f, a, b, c, d \in Nat :
            f * a <= n * b /\ f * c <= n * d => f * (a + c) <= n * (b + d)
      OBVIOUS
    <2>8. Financed * (Total(p, 1..k) + p[k + 1]) <= n * (Total(Lent, 1..k) + Lent[k + 1])
      BY <2>1, <2>3, <2>4, <2>7, FinancedIsPositive
    <2> QED
      BY <2>5, <2>6, <2>8
  <1>6. T = Nat
    <2> HIDE DEF T
    <2>1. T \subseteq Nat
      BY DEF T
    <2> QED
      BY <1>4, <1>5, <2>1, EveryNatural
  <1>7. Last - 1 \in T /\ Last - 1 \in Nat /\ Last - 1 <= Last
    <2> HIDE DEF T
    <2> QED
      BY <1>6, TranchesAreFinite
  <1>8. Financed * Total(p, 1..(Last - 1)) <= n * Total(Lent, 1..(Last - 1))
    BY <1>7
  <1>9. /\ 1..(Last - 1) \in SUBSET Tranches
        /\ Total(p, 1..(Last - 1)) \in Nat /\ Total(Lent, 1..(Last - 1)) \in Nat
    BY <1>3, <1>7
  <1>10. Total(Lent, 1..(Last - 1)) <= Financed /\ Financed \in Nat \ {0}
    BY <1>2, <1>9, TrancheTotals, FinancedIsPositive DEF Financed
  <1> HIDE DEF T
  <1> QED
    BY <1>2, <1>8, <1>9, <1>10, ScaledDown

\* The shares of a repayment are amounts, and add up to it.
LEMMA RepaymentIsWhole ==
  ASSUME NEW n \in Nat
  PROVE  RepaymentShares(n) \in Shares /\ Total(RepaymentShares(n), Tranches) = n
  <1>1. PICK p : p = [t \in Tranches |-> ProportionOf(n, t)]
    OBVIOUS
  <1>2. PICK q : q = [p EXCEPT ![Last] = n - Total(p, 1..(Last - 1))]
    OBVIOUS
  <1>3. RepaymentShares(n) = q
    BY <1>1, <1>2 DEF RepaymentShares
  <1>4. /\ Amounts(p, Tranches) /\ Total(p, 1..(Last - 1)) \in Nat
        /\ Total(p, 1..(Last - 1)) <= n
    BY <1>1, ProportionsFit
  <1>5. /\ Last \in Tranches /\ Last \notin 1..(Last - 1)
        /\ Tranches = 1..(Last - 1) \union {Last}
        /\ IsFiniteSet(1..(Last - 1)) /\ 1..(Last - 1) \in SUBSET Tranches
    <2>1. Last \in Nat \ {0} /\ Last - 1 \in Nat /\ Last - 1 <= Last
      BY TranchesAreFinite
    <2>2. 1..(Last - 1) \in SUBSET Tranches
      BY <2>1, TranchesAreFinite
    <2> QED
      BY <2>1, <2>2, TranchesAreFinite DEF Tranches
  <1>6. /\ q[Last] = n - Total(p, 1..(Last - 1)) /\ q[Last] \in Nat
        /\ \A t \in Tranches \ {Last} : q[t] = p[t] /\ q[t] \in Nat
        /\ q \in Shares
    <2>1. PICK u \in Nat : u = Total(p, 1..(Last - 1)) /\ u <= n
      BY <1>4
    <2>2. q = [p EXCEPT ![Last] = n - u] /\ n - u \in Nat
      BY <1>2, <2>1
    <2>3. \A t \in Tranches : p[t] \in Nat
      BY <1>4 DEF Amounts
    <2>4. /\ q[Last] = n - u
          /\ \A t \in Tranches \ {Last} : q[t] = p[t]
          /\ q = [t \in Tranches |-> q[t]]
      BY <1>1, <1>5, <2>2
    <2> QED
      BY <2>1, <2>2, <2>3, <2>4 DEF Shares
  <1>7. SameOn(q, p, 1..(Last - 1)) /\ Whole(q, 1..(Last - 1))
    BY <1>5, <1>6 DEF SameOn, Whole
  <1>8. Total(q, 1..(Last - 1)) = Total(p, 1..(Last - 1))
    BY <1>5, <1>7, TotalSame
  <1>9. Total(q, 1..(Last - 1) \union {Last}) = Total(q, 1..(Last - 1)) + q[Last]
    <2>1. PICK S : S = 1..(Last - 1)
      OBVIOUS
    <2>2. IsFiniteSet(S) /\ Whole(q, S) /\ Last \notin S /\ q[Last] \in Int
      BY <1>5, <1>6, <1>7, <2>1
    <2>3. Total(q, S \union {Last}) = Total(q, S) + q[Last]
      BY <2>2, TotalInsert
    <2> QED
      BY <2>1, <2>3
  <1> QED
    BY <1>3, <1>4, <1>5, <1>6, <1>8, <1>9

\* Charging the tranches in turn charges all there is, up to what they have open.
LEMMA ChargeIsWhole ==
  ASSUME NEW open, open \in Shares, NEW n \in Nat, NEW before,
         before = [t \in Tranches |-> 1..(t - 1)], NEW q, q = Charge(open, n, before)
  PROVE  Total(q, Tranches) = Least(n, Total(open, Tranches))
  <1> DEFINE T == {k \in Nat : k <= Last =>
                     /\ \A t \in 1..k : q[t] \in Nat
                     /\ Total(q, 1..k) = Least(n, Total(open, 1..k))}
  <1>1. Amounts(open, Tranches)
    BY DEF Amounts, Shares
  <1>2. \A k \in Nat : k <= Last =>
          /\ 1..k \in SUBSET Tranches /\ IsFiniteSet(1..k)
          /\ Whole(open, 1..k) /\ Total(open, 1..k) \in Nat
    <2> SUFFICES ASSUME NEW k \in Nat, k <= Last
                 PROVE  /\ 1..k \in SUBSET Tranches /\ IsFiniteSet(1..k)
                        /\ Whole(open, 1..k) /\ Total(open, 1..k) \in Nat
      OBVIOUS
    <2>1. 1..k \in SUBSET Tranches
      BY TranchesAreFinite
    <2> QED
      BY <2>1, <1>1, TrancheTotals
  <1>3. 0 \in T
    <2>1. 1..0 = {}
      OBVIOUS
    <2>2. Total(q, 1..0) = 0 /\ Total(open, 1..0) = 0
      BY <2>1, TotalEmpty
    <2> QED
      BY <2>1, <2>2 DEF Least
  <1>4. ASSUME NEW k \in T PROVE k + 1 \in T
    <2> SUFFICES ASSUME k + 1 <= Last
                 PROVE  /\ \A t \in 1..(k + 1) : q[t] \in Nat
                        /\ Total(q, 1..(k + 1)) = Least(n, Total(open, 1..(k + 1)))
      OBVIOUS
    <2>1. /\ k \in Nat /\ k <= Last /\ \A t \in 1..k : q[t] \in Nat
          /\ Total(q, 1..k) = Least(n, Total(open, 1..k))
      BY TranchesAreFinite
    <2>2. k + 1 \in Tranches /\ k + 1 \notin 1..k /\ 1..(k + 1) = (1..k) \union {k + 1}
      BY <2>1, TranchesAreFinite DEF Tranches
    <2>3. before[k + 1] = 1..k /\ open[k + 1] \in Nat
      BY <2>1, <2>2 DEF Shares
    <2>4. IsFiniteSet(1..k) /\ Whole(open, 1..k)
      BY <1>2, <2>1
    <2>5. PICK u \in Nat : u = Total(open, 1..k)
      BY <1>2, <2>1
    <2>6. q[k + 1] = Least(open[k + 1], Floor0(n - u))
      BY <2>2, <2>3, <2>5 DEF Charge, Least
    <2>7. q[k + 1] \in Nat /\ Least(n, u) + q[k + 1] = Least(n, u + open[k + 1])
      BY <2>3, <2>6 DEF Least, Floor0
    <2>8. Whole(q, 1..k)
      BY <2>1 DEF Whole
    <2>9. Total(q, 1..(k + 1)) = Total(q, 1..k) + q[k + 1]
      BY <2>1, <2>7, <2>8, NextTotal
    <2>10. Total(open, 1..(k + 1)) = Total(open, 1..k) + open[k + 1]
      BY <2>1, <2>3, <2>4, NextTotal
    <2>11. \A t \in 1..(k + 1) : q[t] \in Nat
      BY <2>1, <2>2, <2>7
    <2> QED
      BY <2>1, <2>5, <2>7, <2>9, <2>10, <2>11
  <1>5. T = Nat
    <2> HIDE DEF T
    <2>1. T \subseteq Nat
      BY DEF T
    <2> QED
      BY <1>3, <1>4, <2>1, EveryNatural
  <1>6. Last \in T
    <2> HIDE DEF T
    <2> QED
      BY <1>5, TranchesAreFinite
  <1> QED
    BY <1>6, TranchesAreFinite DEF Tranches

\* A charge is an amount on each tranche, and no more than it has open.
LEMMA ChargeFits ==
  ASSUME NEW open, open \in Shares, NEW n \in Nat, NEW before,
         \A t \in Tranches : before[t] \in SUBSET Tranches, NEW q, q = Charge(open, n, before)
  PROVE  q \in Shares /\ \A t \in Tranches : q[t] <= open[t]
  <1> SUFFICES ASSUME NEW t \in Tranches PROVE q[t] \in Nat /\ q[t] <= open[t]
    BY DEF Charge, Shares
  <1>1. Amounts(open, Tranches) /\ open[t] \in Nat
    BY DEF Amounts, Shares
  <1>2. before[t] \in SUBSET Tranches
    OBVIOUS
  <1>3. PICK u \in Nat : u = Total(open, before[t])
    BY <1>1, <1>2, TrancheTotals
  <1>4. q[t] = Least(open[t], Floor0(n - u))
    BY <1>3 DEF Charge, Least
  <1> QED
    BY <1>1, <1>4 DEF Least, Floor0

\* An investor has one tranche of the loan, or none.
LEMMA PartIsOne ==
  ASSUME NEW i \in Investors, NEW s \in Shares
  PROVE  /\ Part(i, s) \in Nat
         /\ \A t \in Tranches : Owner[t] = i => Part(i, s) = s[t]
         /\ (\A t \in Tranches : Owner[t] # i) => Part(i, s) = 0
  <1>1. Amounts(s, Tranches) /\ Behind(i) \in SUBSET Tranches
    BY TranchesAreFinite DEF Amounts, Shares
  <1>2. Part(i, s) \in Nat
    BY <1>1, TrancheTotals DEF Part
  <1>3. ASSUME NEW t \in Tranches, Owner[t] = i PROVE Part(i, s) = s[t]
    <2>1. Behind(i) = {t}
      BY <1>3, AccountAssumption DEF Behind
    <2>2. s[t] \in Int
      BY DEF Shares
    <2> QED
      BY <2>1, <2>2, TotalOne DEF Part
  <1>4. ASSUME \A t \in Tranches : Owner[t] # i PROVE Part(i, s) = 0
    <2>1. Behind(i) = {}
      BY <1>4 DEF Behind
    <2> QED
      BY <2>1, TotalEmpty DEF Part
  <1> QED
    BY <1>2, <1>3, <1>4

-----------------------------------------------------------------------------
(* Loan, rows and calls *)

Shapes ==
  /\ owed \in Nat /\ writeOff \in Nat
  /\ recorded \subseteq Repayments \union {"loss"}
  /\ tranche \in [Tranches -> [repaid : Nat, loss : Nat, back : Nat]]
  /\ applied \subseteq Rows /\ share \in [Rows -> Shares]
  /\ posted \subseteq Rows \X Tranches
  /\ avail \in [Investors -> Nat] /\ res \in [Investors -> Nat]
  /\ move \in [Moves -> Statuses]
  /\ order \in [Withdrawals -> {"none", "sent", "paid", "failed"}]
  /\ call \in [Calls -> CallShape]
  /\ faults \in 0..MaxFaults

\* What the loan still owes, what was recorded and what was written off is the loan.
LoanSound ==
  /\ owed + Total(Principal, recorded \intersect Repayments) + writeOff = Financed
  /\ "loss" \notin recorded => writeOff = 0

\* The tranches are what the rows shared out, and there is a row of the loss only
\* for a loan that is written off.
RowsSound ==
  /\ applied \subseteq recorded \union Recoveries
  /\ Total(Repaid, Tranches) = Total(Principal, applied \intersect Repayments)
  /\ IF "loss" \in applied THEN Total(share["loss"], Tranches) = writeOff
                           ELSE \A t \in Tranches : share["loss"][t] = 0
  /\ \A t \in Tranches :
       /\ tranche[t].loss = share["loss"][t] /\ tranche[t].loss <= Lent[t]
       /\ tranche[t].back = OnTranche(t, Recoveries)
       /\ tranche[t].back <= tranche[t].loss

\* A leg is on the ledger for a row that shares it, and all of them once it is settled.
LegsSound ==
  /\ settled \subseteq applied
  /\ \A k \in settled : Unposted(k) = {}
  /\ \A l \in posted : l[1] \in applied /\ share[l[1]][l[2]] > 0

\* What a call relies on at each of its steps.
CallSound(x) ==
  /\ x.pc = "repay" => x.key \in Repayments /\ x.key \in recorded
  /\ x.pc = "lose" => /\ x.key = "loss" /\ "loss" \in recorded
                      /\ "loss" \notin applied => Total(x.shares, Tranches) = writeOff
  /\ x.pc = "recover" => x.key \in Recoveries
  /\ x.pc = "post" => x.key \in applied
  /\ x.pc \in {"bank", "credit"} => x.key \in Deposits
  /\ x.pc \in {"debit", "pay", "revert", "finish"} => x.key \in Withdrawals

BooksInv ==
  /\ Shapes /\ LoanSound /\ RowsSound /\ LegsSound
  /\ \A c \in Calls : CallSound(call[c])


\* A call that takes a step becomes x, and the others stay.
Becomes(c, x) == x \in CallShape /\ call' = [call EXCEPT ![c] = x]
\* What is recorded stays recorded, and what is applied applied.
Grows ==
  /\ recorded \subseteq recorded' /\ applied \subseteq applied'
  /\ "loss" \in recorded => writeOff' = writeOff

\* A call that goes on.
LEMMA Goes ==
  ASSUME Shapes, NEW c \in Calls, NEW pc \in Pcs, To(c, pc)
  PROVE  \E x : Becomes(c, x) /\ x.pc = pc /\ x.key = call[c].key
  <1>1. call[c] \in CallShape
    BY DEF Shapes
  <1>2. PICK x : x = [call[c] EXCEPT !.pc = pc]
    OBVIOUS
  <1>3. x \in CallShape /\ x.pc = pc /\ x.key = call[c].key
    BY <1>1, <1>2 DEF CallShape
  <1>4. call' = [call EXCEPT ![c] = x]
    BY <1>2 DEF To
  <1> QED
    BY <1>3, <1>4 DEF Becomes

\* A call that returns.
LEMMA Returns ==
  ASSUME NEW c \in Calls, Return(c)
  PROVE  Becomes(c, Idle)
  BY DEF Return, Becomes, Idle, CallShape, Shares, Pcs

\* A call that begins with a key.
LEMMA Begins ==
  ASSUME Shapes, NEW c \in Calls, NEW pc \in Pcs, NEW k \in Rows \union Moves, Begin(c, pc, k)
  PROVE  \E x : Becomes(c, x) /\ x.pc = pc /\ x.key = k
  <1>1. call[c] \in CallShape
    BY DEF Shapes
  <1>2. PICK x : x = [call[c] EXCEPT !.pc = pc, !.key = k]
    OBVIOUS
  <1>3. x \in CallShape /\ x.pc = pc /\ x.key = k
    BY <1>1, <1>2 DEF CallShape
  <1>4. call' = [call EXCEPT ![c] = x]
    BY <1>2 DEF Begin
  <1> QED
    BY <1>3, <1>4 DEF Becomes

\* What a call relies on stays so while the rows only grow.
LEMMA StillSound ==
  ASSUME Grows, NEW x, CallSound(x)
  PROVE  CallSound(x)'
  BY DEF Grows, CallSound

\* The call that steps is sound, and the others stay so.
LEMMA CallsKept ==
  ASSUME Shapes, \A d \in Calls : CallSound(call[d]), Grows,
         NEW c \in Calls, NEW x, Becomes(c, x), CallSound(x)'
  PROVE  call' \in [Calls -> CallShape] /\ \A d \in Calls : CallSound(call[d])'
  <1>1. call' \in [Calls -> CallShape] /\ call'[c] = x
        /\ \A d \in Calls \ {c} : call'[d] = call[d]
    BY DEF Becomes, Shapes
  <1>2. ASSUME NEW d \in Calls PROVE CallSound(call[d])'
    <2>1. CASE d = c
      BY <1>1, <2>1 DEF CallSound
    <2>2. CASE d # c
      <3>1. PICK y : y = call[d]
        OBVIOUS
      <3>2. CallSound(y)
        BY <3>1 DEF CallSound
      <3>3. CallSound(y)' /\ call'[d] = y
        BY <1>1, <2>2, <3>1, <3>2, StillSound
      <3> QED
        BY <3>3 DEF CallSound
    <2> QED
      BY <2>1, <2>2
  <1> QED
    BY <1>1, <1>2

\* Calls that wait keep what they rely on.
LEMMA CallsRest ==
  ASSUME Shapes, \A d \in Calls : CallSound(call[d]), Grows, call' = call
  PROVE  call' \in [Calls -> CallShape] /\ \A d \in Calls : CallSound(call[d])'
  <1>1. call' \in [Calls -> CallShape]
    BY DEF Shapes
  <1>2. ASSUME NEW d \in Calls PROVE CallSound(call[d])'
    <2>1. PICK y : y = call[d]
      OBVIOUS
    <2>2. CallSound(y)
      BY <2>1 DEF CallSound
    <2>3. CallSound(y)' /\ call'[d] = y
      BY <2>1, <2>2, StillSound
    <2> QED
      BY <2>3 DEF CallSound
  <1> QED
    BY <1>1, <1>2

\* The rows say what they said while nobody writes them.
LEMMA RowsRest ==
  ASSUME Shapes, RowsSound, UNCHANGED rows, recorded \subseteq recorded', writeOff' = writeOff
  PROVE  RowsSound'
  <1>1. tranche' = tranche /\ applied' = applied /\ share' = share
    BY DEF rows
  <1>2. Repaid' = Repaid /\ \A t \in Tranches : OnTranche(t, Recoveries)' = OnTranche(t, Recoveries)
    BY <1>1 DEF Repaid, OnTranche
  <1> QED
    BY <1>1, <1>2 DEF RowsSound

\* So do the legs while no row is written and no leg is booked.
LEMMA LegsRest ==
  ASSUME LegsSound, UNCHANGED rows, UNCHANGED legs
  PROVE  LegsSound'
  BY DEF LegsSound, Unposted, rows, legs

\* Steps that leave the loan, its rows and its legs alone.
LEMMA Aside ==
  ASSUME BooksInv, UNCHANGED <<loan, rows, legs>>,
         avail' \in [Investors -> Nat], res' \in [Investors -> Nat],
         move' \in [Moves -> Statuses],
         order' \in [Withdrawals -> {"none", "sent", "paid", "failed"}],
         faults' \in 0..MaxFaults,
         \/ call' = call
         \/ \E c \in Calls : \E x : Becomes(c, x) /\ CallSound(x)'
  PROVE  BooksInv'
  <1>1. /\ UNCHANGED loan /\ UNCHANGED rows /\ UNCHANGED legs
        /\ owed' = owed /\ recorded' = recorded /\ writeOff' = writeOff
        /\ tranche' = tranche /\ applied' = applied /\ share' = share
        /\ posted' = posted /\ settled' = settled
    BY DEF loan, rows, legs
  <1>2. Shapes /\ RowsSound /\ LegsSound /\ LoanSound /\ \A c \in Calls : CallSound(call[c])
    BY DEF BooksInv
  <1>3. Grows
    BY <1>1 DEF Grows
  <1>4. call' \in [Calls -> CallShape] /\ \A d \in Calls : CallSound(call[d])'
    <2>1. CASE call' = call
      BY <1>2, <1>3, <2>1, CallsRest
    <2>2. CASE \E c \in Calls : \E x : Becomes(c, x) /\ CallSound(x)'
      <3>1. PICK c \in Calls : \E x : Becomes(c, x) /\ CallSound(x)'
        BY <2>2
      <3>2. PICK x : Becomes(c, x) /\ CallSound(x)'
        BY <3>1
      <3> QED
        BY <1>2, <1>3, <3>2, CallsKept
    <2> QED
      BY <2>1, <2>2
  <1>5. Shapes'
    BY <1>1, <1>2, <1>4 DEF Shapes
  <1>6. LoanSound'
    BY <1>1, <1>2 DEF LoanSound
  <1>7. RowsSound' /\ LegsSound'
    BY <1>1, <1>2, RowsRest, LegsRest
  <1> QED
    BY <1>4, <1>5, <1>6, <1>7 DEF BooksInv

-----------------------------------------------------------------------------
(* The loans service *)

\* The references are finitely many.
LEMMA ReferencesAreFinite ==
  /\ \A S \in SUBSET References : IsFiniteSet(S) /\ Whole(Principal, S) /\ Amounts(Principal, S)
                                  /\ Total(Principal, S) \in Nat
  /\ Repayments \subseteq References /\ Recoveries \subseteq References /\ "loss" \notin References
  <1>1. ASSUME NEW S \in SUBSET References
        PROVE  IsFiniteSet(S) /\ Whole(Principal, S) /\ Amounts(Principal, S)
               /\ Total(Principal, S) \in Nat
    <2>1. IsFiniteSet(S)
      BY LoanAssumption, FS_Subset
    <2>2. Amounts(Principal, S) /\ Whole(Principal, S)
      BY LoanAssumption DEF Amounts, Whole
    <2>3. S \in SUBSET S
      OBVIOUS
    <2> QED
      BY <2>1, <2>2, <2>3, TotalPart
  <1> QED
    BY <1>1, LoanAssumption DEF References

\* A repayment is recorded within what is owed.
LEMMA LoanRecordsBooks ==
  ASSUME BooksInv, NEW k \in Repayments, LoanRecords(k)
  PROVE  BooksInv'
  <1>1. Shapes /\ RowsSound /\ LegsSound /\ LoanSound /\ \A c \in Calls : CallSound(call[c])
    BY DEF BooksInv
  <1>2. /\ UNCHANGED rows /\ UNCHANGED legs /\ call' = call /\ writeOff' = writeOff
        /\ k \notin recorded /\ "loss" \notin recorded /\ Principal[k] <= owed
        /\ owed' = owed - Principal[k] /\ recorded' = recorded \union {k}
        /\ avail' = avail /\ res' = res /\ move' = move /\ order' = order /\ faults' = faults
    BY DEF LoanRecords, account, payouts
  <1>3. Grows
    BY <1>2 DEF Grows, rows
  <1>4. call' \in [Calls -> CallShape] /\ \A d \in Calls : CallSound(call[d])'
    BY <1>1, <1>2, <1>3, CallsRest
  <1>5. k \in References /\ Principal[k] \in Nat /\ k # "loss"
    BY LoanAssumption DEF References
  <1>6. owed' \in Nat
    BY <1>1, <1>2, <1>5 DEF Shapes
  <1>7. Shapes'
    BY <1>1, <1>2, <1>4, <1>6 DEF Shapes, rows, legs
  <1>8. LoanSound'
    <2>1. PICK S : S = recorded \intersect Repayments
      OBVIOUS
    <2>2. S \in SUBSET References /\ k \notin S /\ recorded' \intersect Repayments = S \union {k}
      BY <1>2, <2>1, ReferencesAreFinite
    <2>3. Total(Principal, S \union {k}) = Total(Principal, S) + Principal[k]
      BY <1>5, <2>2, ReferencesAreFinite, TotalInsert
    <2>4. Total(Principal, S) \in Nat
      BY <2>2, ReferencesAreFinite
    <2>5. Total(Principal, recorded \intersect Repayments)' = Total(Principal, S) + Principal[k]
      BY <2>2, <2>3
    <2>6. owed + Total(Principal, S) + writeOff = Financed /\ writeOff = 0 /\ owed \in Nat
      BY <1>1, <1>2, <2>1 DEF LoanSound, Shapes
    <2>7. owed' + (Total(Principal, S) + Principal[k]) + writeOff' = Financed /\ writeOff' = 0
      BY <1>2, <1>5, <2>4, <2>6, FinancedIsPositive
    <2> QED
      BY <2>5, <2>7 DEF LoanSound
  <1>9. RowsSound' /\ LegsSound'
    BY <1>1, <1>2, RowsRest, LegsRest
  <1> QED
    BY <1>4, <1>7, <1>8, <1>9 DEF BooksInv

\* What is still owed is written off.
LEMMA LoanWritesOffBooks ==
  ASSUME BooksInv, LoanWritesOff
  PROVE  BooksInv'
  <1>1. Shapes /\ RowsSound /\ LegsSound /\ LoanSound /\ \A c \in Calls : CallSound(call[c])
    BY DEF BooksInv
  <1>2. /\ UNCHANGED rows /\ UNCHANGED legs /\ call' = call /\ writeOff' = owed
        /\ "loss" \notin recorded /\ owed' = 0 /\ recorded' = recorded \union {"loss"}
        /\ avail' = avail /\ res' = res /\ move' = move /\ order' = order /\ faults' = faults
    BY DEF LoanWritesOff, account, payouts
  <1>3. Grows
    BY <1>2 DEF Grows, rows
  <1>4. call' \in [Calls -> CallShape] /\ \A d \in Calls : CallSound(call[d])'
    BY <1>1, <1>2, <1>3, CallsRest
  <1>5. Shapes'
    BY <1>1, <1>2, <1>4 DEF Shapes, rows, legs
  <1>6. LoanSound'
    <2>1. recorded' \intersect Repayments = recorded \intersect Repayments
      BY <1>2, ReferencesAreFinite
    <2>2. Total(Principal, recorded \intersect Repayments)' = Total(Principal, recorded \intersect Repayments)
      BY <2>1
    <2>3. writeOff = 0 /\ owed \in Nat
      BY <1>1, <1>2 DEF LoanSound, Shapes
    <2>4. Total(Principal, recorded \intersect Repayments) \in Nat
      <3>1. recorded \intersect Repayments \in SUBSET References
        BY ReferencesAreFinite
      <3> QED
        BY <3>1, ReferencesAreFinite
    <2>5. owed + Total(Principal, recorded \intersect Repayments) + writeOff = Financed
      BY <1>1 DEF LoanSound
    <2> QED
      BY <1>2, <2>2, <2>3, <2>4, <2>5 DEF LoanSound
  <1>7. "loss" \notin applied
    BY <1>1, <1>2, ReferencesAreFinite DEF RowsSound
  <1>8. RowsSound'
    <2>1. tranche' = tranche /\ applied' = applied /\ share' = share
      BY <1>2 DEF rows
    <2>2. Repaid' = Repaid /\ \A t \in Tranches : OnTranche(t, Recoveries)' = OnTranche(t, Recoveries)
      BY <2>1 DEF Repaid, OnTranche
    <2> QED
      BY <1>1, <1>2, <1>7, <2>1, <2>2 DEF RowsSound
  <1>9. LegsSound'
    BY <1>1, <1>2, LegsRest
  <1> QED
    BY <1>4, <1>5, <1>6, <1>8, <1>9 DEF BooksInv

-----------------------------------------------------------------------------
(* Rows *)

\* A sum with one member more, of a function that says the same of the others.
LEMMA OneMore ==
  ASSUME NEW f, NEW g, NEW S, IsFiniteSet(S), Whole(f, S), SameOn(f, g, S),
         NEW k, k \notin S, g[k] \in Int
  PROVE  Total(g, S \union {k}) = Total(f, S) + g[k]
  <1>1. Whole(g, S)
    BY DEF Whole, SameOn
  <1>2. Total(g, S \union {k}) = Total(g, S) + g[k]
    BY <1>1, TotalInsert
  <1>3. Total(f, S) = Total(g, S)
    BY TotalSame
  <1> QED
    BY <1>2, <1>3

\* A row is written.
NewRow(k, s) ==
  /\ k \in Rows /\ s \in Shares /\ k \notin applied
  /\ applied' = applied \union {k} /\ share' = [share EXCEPT ![k] = s]

\* The shares of a new row are its own.
LEMMA NewRowShares ==
  ASSUME Shapes, NEW k, NEW s, NewRow(k, s)
  PROVE  /\ share' \in [Rows -> Shares] /\ share'[k] = s
         /\ \A j \in Rows \ {k} : share'[j] = share[j]
  BY DEF Shapes, NewRow

\* The recoveries' shares on a tranche add up to an amount.
LEMMA OnTrancheType ==
  ASSUME Shapes, NEW t \in Tranches
  PROVE  /\ OnTranche(t, Recoveries) \in Nat
         /\ \A k \in Recoveries \intersect applied : share[k][t] <= OnTranche(t, Recoveries)
  <1>1. PICK f : f = [k \in References |-> share[k][t]]
    OBVIOUS
  <1>2. PICK S : S = Recoveries \intersect applied
    OBVIOUS
  <1>3. IsFiniteSet(S) /\ S \subseteq References
    BY <1>2, ReferencesAreFinite
  <1>4. Amounts(f, S)
    BY <1>1, <1>3 DEF Amounts, Shapes, Shares, Rows
  <1>5. OnTranche(t, Recoveries) = Total(f, S)
    BY <1>1, <1>2 DEF OnTranche
  <1>6. S \in SUBSET S
    OBVIOUS
  <1>7. Total(f, S) \in Nat
    BY <1>3, <1>4, <1>6, TotalPart
  <1>8. ASSUME NEW k \in S PROVE f[k] <= Total(f, S)
    <2>1. {k} \in SUBSET S
      OBVIOUS
    <2>2. Total(f, {k}) <= Total(f, S)
      BY <1>3, <1>4, <2>1, TotalPart
    <2>3. f[k] \in Int
      BY <1>4 DEF Amounts
    <2> QED
      BY <2>2, <2>3, TotalOne
  <1> QED
    BY <1>1, <1>2, <1>3, <1>5, <1>7, <1>8

\* A new recovery adds its share to a tranche; another row adds nothing.
LEMMA OnTrancheRow ==
  ASSUME Shapes, NEW k, NEW s, NewRow(k, s), NEW t \in Tranches
  PROVE  OnTranche(t, Recoveries)' =
           OnTranche(t, Recoveries) + (IF k \in Recoveries THEN s[t] ELSE 0)
  <1>1. PICK f : f = [j \in References |-> share[j][t]]
    OBVIOUS
  <1>2. PICK g : g = [j \in References |-> share'[j][t]]
    OBVIOUS
  <1>3. PICK S : S = Recoveries \intersect applied
    OBVIOUS
  <1>4. OnTranche(t, Recoveries) = Total(f, S)
    BY <1>1, <1>3 DEF OnTranche
  <1>5. OnTranche(t, Recoveries)' = Total(g, Recoveries \intersect applied')
    BY <1>2 DEF OnTranche
  <1>6. IsFiniteSet(S) /\ S \subseteq References /\ k \notin S
    BY <1>3, ReferencesAreFinite DEF NewRow
  <1>7. SameOn(f, g, S)
    BY <1>1, <1>2, <1>6, NewRowShares DEF SameOn, Rows
  <1>8. Whole(f, S)
    BY <1>1, <1>6 DEF Whole, Shapes, Shares, Rows
  <1>9. Total(f, S) = Total(g, S) /\ Total(f, S) \in Int
    BY <1>6, <1>7, <1>8, TotalSame, TotalType
  <1>10. CASE k \in Recoveries
    <2>1. Recoveries \intersect applied' = S \union {k}
      BY <1>3, <1>10 DEF NewRow
    <2>2. g[k] = s[t] /\ g[k] \in Int
      <3>1. k \in References /\ share'[k] = s
        BY <1>10, ReferencesAreFinite, NewRowShares
      <3>2. s[t] \in Nat
        BY DEF NewRow, Shares
      <3> QED
        BY <1>2, <3>1, <3>2
    <2>3. Total(g, S \union {k}) = Total(f, S) + g[k]
      BY <1>6, <1>7, <1>8, <2>2, OneMore
    <2> QED
      BY <1>4, <1>5, <1>10, <2>1, <2>2, <2>3
  <1>11. CASE k \notin Recoveries
    <2>1. Recoveries \intersect applied' = S
      BY <1>3, <1>11 DEF NewRow
    <2> QED
      BY <1>4, <1>5, <1>9, <1>11, <2>1
  <1> QED
    BY <1>10, <1>11

\* A new repayment adds its principal to what is repaid; another row adds nothing.
LEMMA PrincipalRow ==
  ASSUME NEW k, NEW s, NewRow(k, s)
  PROVE  Total(Principal, applied \intersect Repayments)' =
           Total(Principal, applied \intersect Repayments)
             + (IF k \in Repayments THEN Principal[k] ELSE 0)
  <1>1. PICK S : S = applied \intersect Repayments
    OBVIOUS
  <1>2. S \in SUBSET References /\ k \notin S
    BY <1>1, ReferencesAreFinite DEF NewRow
  <1>3. IsFiniteSet(S) /\ Whole(Principal, S) /\ Total(Principal, S) \in Nat
    BY <1>2, ReferencesAreFinite
  <1>4. Total(Principal, applied \intersect Repayments)' = Total(Principal, applied' \intersect Repayments)
    OBVIOUS
  <1>5. CASE k \in Repayments
    <2>1. applied' \intersect Repayments = S \union {k}
      BY <1>1, <1>5 DEF NewRow
    <2>2. Principal[k] \in Int
      BY <1>5, LoanAssumption DEF References
    <2>3. Total(Principal, S \union {k}) = Total(Principal, S) + Principal[k]
      BY <1>2, <1>3, <2>2, TotalInsert
    <2> QED
      BY <1>1, <1>4, <1>5, <2>1, <2>3
  <1>6. CASE k \notin Repayments
    <2>1. applied' \intersect Repayments = S
      BY <1>1, <1>6 DEF NewRow
    <2> QED
      BY <1>1, <1>3, <1>4, <1>6, <2>1
  <1> QED
    BY <1>5, <1>6

\* A transaction that writes a row, and the call goes on to its legs.
LEMMA RowBooks ==
  ASSUME BooksInv, NEW c \in Calls, NEW k, NEW s, NewRow(k, s), call[c].key = k,
         To(c, "post"), UNCHANGED <<loan, legs, move, payouts, events, faults>>,
         tranche' \in [Tranches -> [repaid : Nat, loss : Nat, back : Nat]],
         avail' \in [Investors -> Nat], res' \in [Investors -> Nat], RowsSound'
  PROVE  BooksInv'
  <1>1. Shapes /\ RowsSound /\ LegsSound /\ LoanSound /\ \A d \in Calls : CallSound(call[d])
    BY DEF BooksInv
  <1>2. /\ owed' = owed /\ recorded' = recorded /\ writeOff' = writeOff
        /\ posted' = posted /\ settled' = settled
        /\ move' = move /\ order' = order /\ faults' = faults
    BY DEF loan, legs, payouts
  <1>3. k \in Rows /\ k \notin applied /\ applied' = applied \union {k}
    BY DEF NewRow
  <1>4. Grows
    BY <1>2, <1>3 DEF Grows
  <1>5. /\ share' \in [Rows -> Shares] /\ share'[k] = s
        /\ \A j \in Rows \ {k} : share'[j] = share[j]
    BY <1>1, NewRowShares
  <1>6. \E x : Becomes(c, x) /\ x.pc = "post" /\ x.key = k
    <2>1. "post" \in Pcs
      BY DEF Pcs
    <2> QED
      BY <1>1, <2>1, Goes
  <1>7. PICK x : Becomes(c, x) /\ x.pc = "post" /\ x.key = k
    BY <1>6
  <1>8. CallSound(x)'
    BY <1>3, <1>7 DEF CallSound
  <1>9. call' \in [Calls -> CallShape] /\ \A d \in Calls : CallSound(call[d])'
    BY <1>1, <1>4, <1>7, <1>8, CallsKept
  <1>10. Shapes'
    BY <1>1, <1>2, <1>3, <1>5, <1>9 DEF Shapes
  <1>11. LoanSound'
    BY <1>1, <1>2 DEF LoanSound
  <1>12. LegsSound'
    <2>1. settled \subseteq applied /\ applied \subseteq Rows /\ posted \subseteq Rows \X Tranches
      BY <1>1 DEF LegsSound, Shapes
    <2>2. ASSUME NEW j \in settled PROVE Unposted(j)' = {}
      <3>1. j \in Rows \ {k}
        BY <1>3, <2>1
      <3>2. Unposted(j)' = Unposted(j)
        BY <1>2, <1>5, <3>1 DEF Unposted
      <3> QED
        BY <1>1, <3>2 DEF LegsSound
    <2>3. ASSUME NEW l \in posted PROVE l[1] \in applied' /\ share'[l[1]][l[2]] > 0
      <3>1. l[1] \in applied /\ share[l[1]][l[2]] > 0
        BY <1>1 DEF LegsSound
      <3>2. l[1] \in Rows \ {k}
        BY <1>3, <2>1, <3>1
      <3> QED
        BY <1>3, <1>5, <3>1, <3>2
    <2> QED
      BY <1>2, <1>3, <2>1, <2>2, <2>3 DEF LegsSound
  <1> QED
    BY <1>9, <1>10, <1>11, <1>12 DEF BooksInv

\* What the tranches are repaid adds up to an amount.
LEMMA RepaidIsWhole ==
  ASSUME Shapes
  PROVE  /\ IsFiniteSet(Tranches) /\ Amounts(Repaid, Tranches) /\ Whole(Repaid, Tranches)
         /\ Total(Repaid, Tranches) \in Nat
  <1>1. Amounts(Repaid, Tranches)
    BY DEF Amounts, Repaid, Shapes
  <1>2. Tranches \in SUBSET Tranches
    OBVIOUS
  <1> QED
    BY <1>1, <1>2, TrancheTotals

\* Apply of a repayment: the row, and what it repays on every tranche.
LEMMA ApplyRepaymentBooks ==
  ASSUME BooksInv, NEW c \in Calls, ApplyRepayment(c)
  PROVE  BooksInv'
  <1>1. Shapes /\ RowsSound /\ LegsSound /\ LoanSound /\ \A d \in Calls : CallSound(call[d])
    BY DEF BooksInv
  <1>2. PICK k : k = call[c].key
    OBVIOUS
  <1>3. /\ call[c].pc = "repay" /\ To(c, "post")
        /\ UNCHANGED <<loan, legs, move, payouts, events, faults>>
    BY DEF ApplyRepayment, At
  <1>4. k \in Repayments /\ k \in recorded /\ k \in References /\ k \notin Recoveries /\ k # "loss"
    BY <1>1, <1>2, <1>3, LoanAssumption DEF CallSound, References
  <1>5. Principal[k] \in Nat /\ Interest[k] \in Nat
    BY <1>4, LoanAssumption
  <1>6. PICK p : p = RepaymentShares(Principal[k])
    OBVIOUS
  <1>7. PICK n : n = RepaymentShares(Interest[k])
    OBVIOUS
  <1>8. p \in Shares /\ n \in Shares /\ Total(p, Tranches) = Principal[k]
    BY <1>5, <1>6, <1>7, RepaymentIsWhole
  <1>9. CASE k \in applied
    <2>1. UNCHANGED <<rows, account>>
      BY <1>2, <1>9 DEF ApplyRepayment
    <2>2. /\ avail' = avail /\ res' = res /\ move' = move /\ order' = order /\ faults' = faults
          /\ applied' = applied
      BY <1>3, <2>1 DEF account, payouts, rows
    <2>3. "post" \in Pcs
      BY DEF Pcs
    <2>4. \E x : Becomes(c, x) /\ x.pc = "post" /\ x.key = k
      BY <1>1, <1>2, <1>3, <2>3, Goes
    <2>5. PICK x : Becomes(c, x) /\ x.pc = "post" /\ x.key = k
      BY <2>4
    <2>6. CallSound(x)'
      BY <1>9, <2>2, <2>5 DEF CallSound
    <2>7. /\ avail' \in [Investors -> Nat] /\ res' \in [Investors -> Nat]
          /\ move' \in [Moves -> Statuses] /\ faults' \in 0..MaxFaults
          /\ order' \in [Withdrawals -> {"none", "sent", "paid", "failed"}]
      BY <1>1, <2>2 DEF Shapes
    <2>8. UNCHANGED <<loan, rows, legs>>
      BY <1>3, <2>1
    <2> QED
      BY <2>5, <2>6, <2>7, <2>8, Aside
  <1>10. CASE k \notin applied
    <2>1. /\ applied' = applied \union {k} /\ share' = [share EXCEPT ![k] = n]
          /\ tranche' = [t \in Tranches |-> [tranche[t] EXCEPT !.repaid = @ + p[t]]]
          /\ res' = [i \in Investors |-> Floor0(res[i] - Part(i, p))]
          /\ avail' = [i \in Investors |-> avail[i] + Part(i, n)]
      BY <1>2, <1>6, <1>7, <1>10 DEF ApplyRepayment
    <2>2. NewRow(k, n)
      BY <1>4, <1>8, <1>10, <2>1 DEF NewRow, Rows
    <2>3. \A i \in Investors : Part(i, p) \in Nat /\ Part(i, n) \in Nat
      BY <1>8, PartIsOne
    <2>4. avail' \in [Investors -> Nat]
      BY <1>1, <2>1, <2>3 DEF Shapes
    <2>5. res' \in [Investors -> Nat]
      <3>1. \A a, b \in Nat : Floor0(a - b) \in Nat
        BY DEF Floor0
      <3>2. \A i \in Investors : Floor0(res[i] - Part(i, p)) \in Nat
        BY <1>1, <2>3, <3>1 DEF Shapes
      <3> QED
        BY <2>1, <3>2
    <2>6. \A t \in Tranches : p[t] \in Nat
      BY <1>8 DEF Shares
    <2>7. /\ tranche' \in [Tranches -> [repaid : Nat, loss : Nat, back : Nat]]
          /\ \A t \in Tranches :
               /\ tranche'[t].repaid = tranche[t].repaid + p[t]
               /\ tranche'[t].loss = tranche[t].loss /\ tranche'[t].back = tranche[t].back
      BY <1>1, <2>1, <2>6 DEF Shapes
    <2>8. RowsSound'
      <3>1. applied' \subseteq recorded' \union Recoveries
        BY <1>1, <1>3, <1>4, <2>1 DEF RowsSound, loan
      <3>2. Total(Repaid', Tranches) = Total(Repaid, Tranches) + Total(p, Tranches)
        <4>1. PICK f : f = Repaid
          OBVIOUS
        <4>2. PICK g : g = Repaid'
          OBVIOUS
        <4>3. Sum2(f, p, g, Tranches)
          BY <2>7, <4>1, <4>2 DEF Sum2, Repaid
        <4>4. IsFiniteSet(Tranches) /\ Whole(f, Tranches)
          BY <1>1, <4>1, RepaidIsWhole
        <4>5. Whole(p, Tranches)
          BY <2>6 DEF Whole
        <4>6. Total(g, Tranches) = Total(f, Tranches) + Total(p, Tranches)
          BY <4>3, <4>4, <4>5, TotalPlus
        <4> QED
          BY <4>1, <4>2, <4>6
      <3>3. Total(Principal, applied \intersect Repayments)' =
              Total(Principal, applied \intersect Repayments) + Principal[k]
        BY <1>4, <2>2, PrincipalRow
      <3>4. Total(Repaid, Tranches) = Total(Principal, applied \intersect Repayments)
        BY <1>1 DEF RowsSound
      <3>5. Total(Repaid, Tranches)' = Total(Principal, applied \intersect Repayments)'
        BY <1>8, <3>2, <3>3, <3>4
      <3>6. /\ share'["loss"] = share["loss"] /\ ("loss" \in applied' <=> "loss" \in applied)
            /\ writeOff' = writeOff
        BY <1>1, <1>3, <1>4, <2>1, <2>2, NewRowShares DEF Rows, loan
      <3>7. \A t \in Tranches : OnTranche(t, Recoveries)' = OnTranche(t, Recoveries)
        <4> TAKE t \in Tranches
        <4>1. OnTranche(t, Recoveries) \in Nat
          BY <1>1, OnTrancheType
        <4>2. OnTranche(t, Recoveries)' = OnTranche(t, Recoveries) + 0
          BY <1>1, <1>4, <2>2, OnTrancheRow
        <4> QED
          BY <4>1, <4>2
      <3> QED
        BY <1>1, <2>7, <3>1, <3>5, <3>6, <3>7 DEF RowsSound
    <2>9. call[c].key = k
      BY <1>2
    <2> QED
      BY <1>3, <2>2, <2>4, <2>5, <2>7, <2>8, <2>9, RowBooks
  <1> QED
    BY <1>9, <1>10

\* What a tranche still has out is an amount.
LEMMA ExposureType ==
  ASSUME Shapes
  PROVE  /\ Exposure \in Shares
         /\ \A t \in Tranches : Exposure[t] = Floor0(Lent[t] - tranche[t].repaid - tranche[t].loss)
  <1>1. \A t \in Tranches : Floor0(Lent[t] - tranche[t].repaid - tranche[t].loss) \in Nat
    <2>1. \A n \in Int : Floor0(n) \in Nat
      BY DEF Floor0
    <2>2. \A t \in Tranches : Lent[t] - tranche[t].repaid - tranche[t].loss \in Int
      BY LoanAssumption DEF Shapes
    <2> QED
      BY <2>1, <2>2
  <1> QED
    BY <1>1 DEF Exposure, Shares

\* The tranches carry the whole of a loss, each within what it has out.
LEMMA LossIsWhole ==
  ASSUME BooksInv, "loss" \in recorded
  PROVE  /\ LossShares(writeOff) \in Shares
         /\ "loss" \notin applied => Total(LossShares(writeOff), Tranches) = writeOff
  <1>1. Shapes /\ RowsSound /\ LoanSound
    BY DEF BooksInv
  <1>2. PICK q, before, w, open : /\ before = [t \in Tranches |-> 1..(t - 1)] /\ w = writeOff
                            /\ open = Exposure /\ q = Charge(open, w, before)
    OBVIOUS
  <1>3. q = LossShares(writeOff) /\ open \in Shares /\ w \in Nat
    BY <1>1, <1>2, ExposureType DEF LossShares, Shapes
  <1>4. \A t \in Tranches : before[t] \in SUBSET Tranches
    BY <1>2, LoanAssumption DEF Tranches
  <1>5. q \in Shares
    BY <1>2, <1>3, <1>4, ChargeFits
  <1>6. ASSUME "loss" \notin applied PROVE Total(q, Tranches) = writeOff
    <2>1. Total(q, Tranches) = Least(w, Total(open, Tranches))
      <3>1. before = [t \in Tranches |-> 1..(t - 1)]
        BY <1>2
      <3>2. open \in Shares /\ w \in Nat
        BY <1>3
      <3>3. q = Charge(open, w, before)
        BY <1>2
      <3> QED
        BY ONLY <3>1, <3>2, <3>3, ChargeIsWhole
    <2>2. PICK r : r = Repaid
      OBVIOUS
    <2>3. PICK g : g = [t \in Tranches |-> Lent[t] - r[t]]
      OBVIOUS
    <2>4. \A t \in Tranches : r[t] = tranche[t].repaid /\ r[t] \in Nat /\ g[t] = Lent[t] - r[t]
                              /\ Lent[t] \in Nat
      BY <1>1, <2>2, <2>3, LoanAssumption DEF Repaid, Shapes
    <2>5. IsFiniteSet(Tranches) /\ Whole(g, Tranches) /\ Whole(r, Tranches)
      <3>1. \A t \in Tranches : r[t] \in Int /\ g[t] \in Int
        BY <2>4
      <3> QED
        BY <3>1, TranchesAreFinite DEF Whole
    <2>6. Sum2(g, r, Lent, Tranches)
      BY <2>4 DEF Sum2
    <2>7. Financed = Total(g, Tranches) + Total(r, Tranches)
      BY <2>5, <2>6, TotalPlus DEF Financed
    <2>8. NoMore(g, open, Tranches)
      <3>1. \A n \in Int : Floor0(n) >= n
        BY DEF Floor0
      <3>2. ASSUME NEW t \in Tranches PROVE g[t] <= open[t]
        <4>1. tranche[t].loss = 0
          BY <1>1, <1>6 DEF RowsSound
        <4>2. open[t] = Floor0(Lent[t] - tranche[t].repaid - tranche[t].loss)
          BY <1>1, <1>2, ExposureType
        <4>3. open[t] = Floor0(g[t]) /\ g[t] \in Int
          BY <2>4, <4>1, <4>2
        <4> QED
          BY <3>1, <4>3
      <3> QED
        BY <3>2 DEF NoMore
    <2>9. Whole(open, Tranches)
      BY <1>3 DEF Whole, Shares
    <2>10. Total(g, Tranches) <= Total(open, Tranches)
      BY <2>5, <2>8, <2>9, TotalAtMost
    <2>11. Total(g, Tranches) \in Int /\ Total(r, Tranches) \in Int /\ Total(open, Tranches) \in Int
      BY <2>5, <2>9, TotalType
    <2>12. Total(r, Tranches) <= Total(Principal, recorded \intersect Repayments)
           /\ Total(Principal, recorded \intersect Repayments) \in Nat
      <3>1. PICK S, R : S = recorded \intersect Repayments /\ R = applied \intersect Repayments
        OBVIOUS
      <3>2. S \in SUBSET References /\ R \in SUBSET S
        BY <1>1, <3>1, LoanAssumption DEF RowsSound, References
      <3>3. IsFiniteSet(S) /\ Amounts(Principal, S) /\ Total(Principal, S) \in Nat
        BY <3>2, ReferencesAreFinite
      <3>4. Total(Principal, R) <= Total(Principal, S)
        BY <3>2, <3>3, TotalPart
      <3>5. Total(r, Tranches) = Total(Principal, R)
        BY <1>1, <2>2, <3>1 DEF RowsSound
      <3> QED
        BY <3>1, <3>3, <3>4, <3>5
    <2>13. owed + Total(Principal, recorded \intersect Repayments) + writeOff = Financed /\ owed \in Nat
      BY <1>1 DEF LoanSound, Shapes
    <2> QED
      BY <1>2, <1>3, <2>1, <2>7, <2>10, <2>11, <2>12, <2>13 DEF Least
  <1> QED
    BY <1>3, <1>5, <1>6

\* What may be recovered on a tranche is an amount, and so is its share.
LEMMA RecoveryFits ==
  ASSUME Shapes, NEW k \in Recoveries
  PROVE  RecoveryShares(Principal[k]) \in Shares
  <1>1. Principal[k] \in Nat
    BY LoanAssumption DEF References
  <1>2. PICK open, before, n : open = Recoverable /\ before = [t \in Tranches |-> (t + 1)..Last]
                               /\ n = Principal[k]
    OBVIOUS
  <1>3. open \in Shares
    <2>1. \A t \in Tranches : Absorbed(t) \in Nat
      BY DEF Absorbed, Shapes, Shares, Rows
    <2>2. \A a, b \in Nat : Floor0(a - b) \in Nat
      BY DEF Floor0
    <2>3. \A t \in Tranches : Floor0(Absorbed(t) - tranche[t].back) \in Nat
      BY <2>1, <2>2 DEF Shapes
    <2> QED
      BY <1>2, <2>3 DEF Recoverable, Shares
  <1>4. \A t \in Tranches : before[t] \in SUBSET Tranches
    BY <1>2, LoanAssumption DEF Tranches
  <1>5. n \in Nat
    BY <1>1, <1>2
  <1>6. Charge(open, n, before) \in Shares
    BY <1>3, <1>4, <1>5, ChargeFits
  <1> QED
    BY <1>2, <1>6 DEF RecoveryShares

\* A call that starts a repayment, a loss or a recovery.
LEMMA StartsBooks ==
  ASSUME BooksInv, NEW c \in Calls,
         \/ \E k \in Repayments : StartRepayment(c, k)
         \/ \E k \in Recoveries : StartRecovery(c, k)
         \/ StartLoss(c)
  PROVE  BooksInv'
  <1>1. Shapes /\ \A d \in Calls : CallSound(call[d])
    BY DEF BooksInv
  <1>2. UNCHANGED <<loan, rows, legs, account, move, payouts, faults>>
    BY DEF StartRepayment, StartRecovery, StartLoss
  <1>3. /\ avail' \in [Investors -> Nat] /\ res' \in [Investors -> Nat]
        /\ move' \in [Moves -> Statuses] /\ faults' \in 0..MaxFaults
        /\ order' \in [Withdrawals -> {"none", "sent", "paid", "failed"}]
    BY <1>1, <1>2 DEF Shapes, account, payouts
  <1>4. /\ recorded' = recorded /\ applied' = applied /\ writeOff' = writeOff
        /\ UNCHANGED <<loan, rows, legs>>
    BY <1>2 DEF loan, rows
  <1>5. \E x : Becomes(c, x) /\ CallSound(x)'
    <2>1. CASE \E k \in Repayments : StartRepayment(c, k)
      <3>1. PICK k \in Repayments : StartRepayment(c, k)
        BY <2>1
      <3>2. k \in Rows \union Moves /\ "repay" \in Pcs
        BY ReferencesAreFinite DEF Rows, Pcs
      <3>3. Begin(c, "repay", k) /\ k \in recorded
        BY <3>1 DEF StartRepayment
      <3>4. \E x : Becomes(c, x) /\ x.pc = "repay" /\ x.key = k
        BY <1>1, <3>2, <3>3, Begins
      <3>5. PICK x : Becomes(c, x) /\ x.pc = "repay" /\ x.key = k
        BY <3>4
      <3>6. CallSound(x)'
        BY <1>4, <3>3, <3>5 DEF CallSound
      <3> QED
        BY <3>5, <3>6
    <2>2. CASE \E k \in Recoveries : StartRecovery(c, k)
      <3>1. PICK k \in Recoveries : StartRecovery(c, k)
        BY <2>2
      <3>2. PICK s : s = RecoveryShares(Principal[k])
        OBVIOUS
      <3>3. PICK x : x = [pc |-> "recover", key |-> k, shares |-> s]
        OBVIOUS
      <3>4. s \in Shares
        BY <1>1, <3>2, RecoveryFits
      <3>5. x \in CallShape
        BY <3>3, <3>4, ReferencesAreFinite DEF CallShape, Pcs, Rows
      <3>6. call' = [call EXCEPT ![c] = x]
        BY <3>1, <3>2, <3>3 DEF StartRecovery
      <3>7. CallSound(x)'
        BY <3>3 DEF CallSound
      <3> QED
        BY <3>5, <3>6, <3>7 DEF Becomes
    <2>3. CASE StartLoss(c)
      <3>1. PICK s : s = LossShares(writeOff)
        OBVIOUS
      <3>2. PICK x : x = [pc |-> "lose", key |-> "loss", shares |-> s]
        OBVIOUS
      <3>3. "loss" \in recorded /\ call' = [call EXCEPT ![c] = x]
        BY <2>3, <3>1, <3>2 DEF StartLoss
      <3>4. s \in Shares /\ ("loss" \notin applied => Total(s, Tranches) = writeOff)
        BY <3>1, <3>3, LossIsWhole
      <3>5. x \in CallShape
        BY <3>2, <3>4 DEF CallShape, Pcs, Rows
      <3>6. CallSound(x)'
        BY <1>4, <3>2, <3>3, <3>4 DEF CallSound
      <3> QED
        BY <3>3, <3>5, <3>6 DEF Becomes
    <2> QED
      BY <2>1, <2>2, <2>3
  <1> QED
    BY <1>3, <1>4, <1>5, Aside

\* A call that stops, to be made again.
LEMMA StopsBooks ==
  ASSUME BooksInv, NEW c \in Calls, Return(c), UNCHANGED <<loan, rows, legs, account, move>>,
         order' \in [Withdrawals -> {"none", "sent", "paid", "failed"}], faults' \in 0..MaxFaults
  PROVE  BooksInv'
  <1>1. Shapes /\ \A d \in Calls : CallSound(call[d])
    BY DEF BooksInv
  <1>2. /\ avail' \in [Investors -> Nat] /\ res' \in [Investors -> Nat]
        /\ move' \in [Moves -> Statuses]
    BY <1>1 DEF Shapes, account
  <1>3. Becomes(c, Idle) /\ CallSound(Idle)'
    <2>1. Becomes(c, Idle)
      BY Returns
    <2>2. CallSound(Idle)'
      BY DEF CallSound, Idle
    <2> QED
      BY <2>1, <2>2
  <1>4. UNCHANGED <<loan, rows, legs>>
    OBVIOUS
  <1> QED
    BY <1>2, <1>3, <1>4, Aside

\* A call that finds its row goes on to its legs.
LEMMA RepeatBooks ==
  ASSUME BooksInv, NEW c \in Calls, To(c, "post"), call[c].key \in applied,
         UNCHANGED <<loan, rows, legs, account, move, payouts, faults>>
  PROVE  BooksInv'
  <1>1. Shapes /\ \A d \in Calls : CallSound(call[d])
    BY DEF BooksInv
  <1>2. PICK k : k = call[c].key
    OBVIOUS
  <1>3. /\ avail' = avail /\ res' = res /\ move' = move /\ order' = order /\ faults' = faults
        /\ applied' = applied /\ UNCHANGED <<loan, rows, legs>>
    BY DEF account, payouts, rows
  <1>4. "post" \in Pcs
    BY DEF Pcs
  <1>5. \E x : Becomes(c, x) /\ x.pc = "post" /\ x.key = k
    BY <1>1, <1>2, <1>4, Goes
  <1>6. PICK x : Becomes(c, x) /\ x.pc = "post" /\ x.key = k
    BY <1>5
  <1>7. CallSound(x)'
    BY <1>2, <1>3, <1>6 DEF CallSound
  <1>8. /\ avail' \in [Investors -> Nat] /\ res' \in [Investors -> Nat]
        /\ move' \in [Moves -> Statuses] /\ faults' \in 0..MaxFaults
        /\ order' \in [Withdrawals -> {"none", "sent", "paid", "failed"}]
    BY <1>1, <1>3 DEF Shapes
  <1> QED
    BY <1>3, <1>6, <1>7, <1>8, Aside

\* The loss is carried by tranches that still have it out, and in full.
LEMMA AbsorbLossBooks ==
  ASSUME BooksInv, NEW c \in Calls, AbsorbLoss(c)
  PROVE  BooksInv'
  <1>1. Shapes /\ RowsSound /\ LegsSound /\ LoanSound /\ \A d \in Calls : CallSound(call[d])
    BY DEF BooksInv
  <1>2. /\ call[c].pc = "lose" /\ UNCHANGED <<loan, legs, move, payouts, events, faults>>
    BY DEF AbsorbLoss, At
  <1>3. PICK s : s = call[c].shares
    OBVIOUS
  <1>4. /\ call[c].key = "loss" /\ "loss" \in recorded /\ s \in Shares
        /\ "loss" \notin applied => Total(s, Tranches) = writeOff
    BY <1>1, <1>2, <1>3 DEF CallSound, Shapes, CallShape
  <1>5. faults' \in 0..MaxFaults /\ order' \in [Withdrawals -> {"none", "sent", "paid", "failed"}]
    BY <1>1, <1>2 DEF Shapes, payouts
  <1>6. CASE "loss" \in applied
    <2>1. To(c, "post") /\ UNCHANGED <<rows, account>>
      BY <1>6 DEF AbsorbLoss
    <2>2. call[c].key \in applied /\ UNCHANGED <<loan, rows, legs, account, move, payouts, faults>>
      BY <1>2, <1>4, <1>6, <2>1
    <2> QED
      BY <2>1, <2>2, RepeatBooks
  <1>7. CASE "loss" \notin applied /\ ~(\A t \in Tranches : s[t] > 0 =>
               Lent[t] - tranche[t].repaid - tranche[t].loss >= s[t])
    <2>1. Return(c) /\ UNCHANGED <<rows, account>>
      BY <1>3, <1>7 DEF AbsorbLoss
    <2>2. UNCHANGED <<loan, rows, legs, account, move>>
      BY <1>2, <2>1
    <2> QED
      BY <1>5, <2>1, <2>2, StopsBooks
  <1>8. CASE "loss" \notin applied /\ \A t \in Tranches : s[t] > 0 =>
               Lent[t] - tranche[t].repaid - tranche[t].loss >= s[t]
    <2>1. /\ applied' = applied \union {"loss"} /\ share' = [share EXCEPT !["loss"] = s]
          /\ tranche' = [t \in Tranches |-> [tranche[t] EXCEPT !.loss = @ + s[t]]]
          /\ res' = [i \in Investors |-> Floor0(res[i] - Part(i, s))]
          /\ avail' = [i \in Investors |-> Floor0(avail[i] - Part(i, s))]
          /\ To(c, "post")
      BY <1>3, <1>8 DEF AbsorbLoss
    <2>2. NewRow("loss", s)
      BY <1>4, <1>8, <2>1 DEF NewRow, Rows
    <2>3. res' \in [Investors -> Nat] /\ avail' \in [Investors -> Nat]
      <3>1. \A a, b \in Nat : Floor0(a - b) \in Nat
        BY DEF Floor0
      <3>2. \A i \in Investors : Part(i, s) \in Nat
        BY <1>4, PartIsOne
      <3>3. \A i \in Investors : Floor0(res[i] - Part(i, s)) \in Nat
        BY <1>1, <3>1, <3>2 DEF Shapes
      <3>4. \A i \in Investors : Floor0(avail[i] - Part(i, s)) \in Nat
        BY <1>1, <3>1, <3>2 DEF Shapes
      <3> QED
        BY <2>1, <3>3, <3>4
    <2>4. \A t \in Tranches : s[t] \in Nat
      BY <1>4 DEF Shares
    <2>5. /\ tranche' \in [Tranches -> [repaid : Nat, loss : Nat, back : Nat]]
          /\ \A t \in Tranches :
               /\ tranche'[t].repaid = tranche[t].repaid
               /\ tranche'[t].loss = tranche[t].loss + s[t] /\ tranche'[t].back = tranche[t].back
      BY <1>1, <2>1, <2>4 DEF Shapes
    <2>6. /\ share'["loss"] = s /\ "loss" \in applied' /\ writeOff' = writeOff
          /\ recorded' = recorded
      BY <1>1, <1>2, <2>1, <2>2, NewRowShares DEF loan
    <2>7. RowsSound'
      <3>1. applied' \subseteq recorded' \union Recoveries
        BY <1>1, <1>4, <2>1, <2>6 DEF RowsSound
      <3>2. Total(Repaid, Tranches)' = Total(Repaid, Tranches)
        <4>1. Repaid' = Repaid
          BY <2>5 DEF Repaid
        <4> QED
          BY <4>1
      <3>3. Total(Principal, applied \intersect Repayments)' =
              Total(Principal, applied \intersect Repayments)
        <4>1. applied' \intersect Repayments = applied \intersect Repayments
          BY <2>1, ReferencesAreFinite
        <4> QED
          BY <4>1
      <3>4. Total(Repaid, Tranches)' = Total(Principal, applied \intersect Repayments)'
        BY <1>1, <3>2, <3>3 DEF RowsSound
      <3>5. ASSUME NEW t \in Tranches
            PROVE  /\ tranche'[t].loss = s[t] /\ s[t] <= Lent[t]
                   /\ tranche'[t].back = OnTranche(t, Recoveries)'
                   /\ tranche'[t].back <= tranche'[t].loss
        <4>1. OnTranche(t, Recoveries) \in Nat
          BY <1>1, OnTrancheType
        <4>2. OnTranche(t, Recoveries)' = OnTranche(t, Recoveries) + 0
          BY <1>1, <2>2, ReferencesAreFinite, OnTrancheRow
        <4>3. /\ tranche[t].loss = 0 /\ tranche[t].back = OnTranche(t, Recoveries)
              /\ tranche[t].back <= tranche[t].loss
          BY <1>1, <1>8 DEF RowsSound
        <4>4. tranche[t].repaid \in Nat /\ tranche[t].back \in Nat /\ Lent[t] \in Nat /\ s[t] \in Nat
          BY <1>1, <2>4, LoanAssumption DEF Shapes
        <4>5. s[t] <= Lent[t]
          BY <1>8, <4>3, <4>4
        <4> QED
          BY <2>5, <4>1, <4>2, <4>3, <4>4, <4>5
      <3>6. Total(share["loss"], Tranches)' = writeOff'
        BY <1>4, <1>8, <2>6
      <3> QED
        BY <2>6, <3>1, <3>4, <3>5, <3>6 DEF RowsSound
    <2> QED
      BY <1>2, <1>4, <2>1, <2>2, <2>3, <2>5, <2>7, RowBooks
  <1> QED
    BY <1>6, <1>7, <1>8

\* A recovery goes to what a tranche lost and has not recovered.
LEMMA ApplyRecoveryBooks ==
  ASSUME BooksInv, NEW c \in Calls, ApplyRecovery(c)
  PROVE  BooksInv'
  <1>1. Shapes /\ RowsSound /\ LegsSound /\ LoanSound /\ \A d \in Calls : CallSound(call[d])
    BY DEF BooksInv
  <1>2. /\ call[c].pc = "recover" /\ UNCHANGED <<loan, legs, res, move, payouts, events, faults>>
    BY DEF ApplyRecovery, At
  <1>3. PICK k, s : k = call[c].key /\ s = call[c].shares
    OBVIOUS
  <1>4. k \in Recoveries /\ s \in Shares /\ k \in Rows /\ k # "loss" /\ k \notin Repayments
    <2>1. k \in Recoveries /\ s \in Shares
      BY <1>1, <1>2, <1>3 DEF CallSound, Shapes, CallShape
    <2> QED
      BY <2>1, LoanAssumption DEF Rows, References
  <1>5. faults' \in 0..MaxFaults /\ order' \in [Withdrawals -> {"none", "sent", "paid", "failed"}]
    BY <1>1, <1>2 DEF Shapes, payouts
  <1>6. CASE k \in applied
    <2>1. To(c, "post") /\ UNCHANGED <<rows, avail>>
      BY <1>3, <1>6 DEF ApplyRecovery
    <2>2. call[c].key \in applied /\ UNCHANGED <<loan, rows, legs, account, move, payouts, faults>>
      BY <1>2, <1>3, <1>6, <2>1 DEF account
    <2> QED
      BY <2>1, <2>2, RepeatBooks
  <1>7. CASE k \notin applied /\ ~(\A t \in Tranches : s[t] > 0 => tranche[t].loss - tranche[t].back >= s[t])
    <2>1. Return(c) /\ UNCHANGED <<rows, avail>>
      BY <1>3, <1>7 DEF ApplyRecovery
    <2>2. UNCHANGED <<loan, rows, legs, account, move>>
      BY <1>2, <2>1 DEF account
    <2> QED
      BY <1>5, <2>1, <2>2, StopsBooks
  <1>8. CASE k \notin applied /\ \A t \in Tranches : s[t] > 0 => tranche[t].loss - tranche[t].back >= s[t]
    <2>1. /\ applied' = applied \union {k} /\ share' = [share EXCEPT ![k] = s]
          /\ tranche' = [t \in Tranches |-> [tranche[t] EXCEPT !.back = @ + s[t]]]
          /\ avail' = [i \in Investors |-> avail[i] + Part(i, s)]
          /\ To(c, "post")
      BY <1>3, <1>8 DEF ApplyRecovery
    <2>2. NewRow(k, s)
      BY <1>4, <1>8, <2>1 DEF NewRow
    <2>3. res' \in [Investors -> Nat] /\ avail' \in [Investors -> Nat]
      <3>1. \A i \in Investors : Part(i, s) \in Nat
        BY <1>4, PartIsOne
      <3> QED
        BY <1>1, <1>2, <2>1, <3>1 DEF Shapes
    <2>4. \A t \in Tranches : s[t] \in Nat
      BY <1>4 DEF Shares
    <2>5. /\ tranche' \in [Tranches -> [repaid : Nat, loss : Nat, back : Nat]]
          /\ \A t \in Tranches :
               /\ tranche'[t].repaid = tranche[t].repaid
               /\ tranche'[t].loss = tranche[t].loss /\ tranche'[t].back = tranche[t].back + s[t]
      BY <1>1, <2>1, <2>4 DEF Shapes
    <2>6. /\ share'["loss"] = share["loss"] /\ ("loss" \in applied' <=> "loss" \in applied)
          /\ writeOff' = writeOff /\ recorded' = recorded
      BY <1>1, <1>2, <1>4, <2>1, <2>2, NewRowShares DEF Rows, loan
    <2>7. RowsSound'
      <3>1. applied' \subseteq recorded' \union Recoveries
        BY <1>1, <1>4, <2>1, <2>6 DEF RowsSound
      <3>2. Total(Repaid, Tranches)' = Total(Repaid, Tranches)
        <4>1. Repaid' = Repaid
          BY <2>5 DEF Repaid
        <4> QED
          BY <4>1
      <3>3. Total(Principal, applied \intersect Repayments)' =
              Total(Principal, applied \intersect Repayments)
        <4>1. applied' \intersect Repayments = applied \intersect Repayments
          BY <1>4, <2>1
        <4> QED
          BY <4>1
      <3>4. Total(Repaid, Tranches)' = Total(Principal, applied \intersect Repayments)'
        BY <1>1, <3>2, <3>3 DEF RowsSound
      <3>5. ASSUME NEW t \in Tranches
            PROVE  /\ tranche'[t].loss = share'["loss"][t] /\ tranche'[t].loss <= Lent[t]
                   /\ tranche'[t].back = OnTranche(t, Recoveries)'
                   /\ tranche'[t].back <= tranche'[t].loss
        <4>1. OnTranche(t, Recoveries)' = OnTranche(t, Recoveries) + s[t]
          BY <1>1, <1>4, <2>2, OnTrancheRow
        <4>2. /\ tranche[t].loss = share["loss"][t] /\ tranche[t].back = OnTranche(t, Recoveries)
              /\ tranche[t].back <= tranche[t].loss /\ tranche[t].loss <= Lent[t]
          BY <1>1 DEF RowsSound
        <4>3. tranche[t].loss \in Nat /\ tranche[t].back \in Nat /\ s[t] \in Nat
          BY <1>1, <2>4 DEF Shapes
        <4>4. tranche[t].back + s[t] <= tranche[t].loss
          BY <1>8, <4>2, <4>3
        <4> QED
          BY <2>5, <2>6, <4>1, <4>2, <4>4
      <3>6. IF "loss" \in applied' THEN Total(share["loss"], Tranches)' = writeOff'
                                   ELSE \A t \in Tranches : share'["loss"][t] = 0
        BY <1>1, <2>6 DEF RowsSound
      <3> QED
        BY <3>1, <3>4, <3>5, <3>6 DEF RowsSound
    <2>8. tranche' \in [Tranches -> [repaid : Nat, loss : Nat, back : Nat]]
      BY <2>5
    <2>9. call[c].key = k /\ UNCHANGED <<loan, legs, move, payouts, events, faults>>
      BY <1>2, <1>3
    <2> QED
      BY <2>1, <2>2, <2>3, <2>7, <2>8, <2>9, RowBooks
  <1> QED
    BY <1>6, <1>7, <1>8

\* A leg is booked for a row that shares it.
LEMMA PostBooks ==
  ASSUME BooksInv, NEW c \in Calls, Post(c)
  PROVE  BooksInv'
  <1>1. Shapes /\ RowsSound /\ LegsSound /\ LoanSound /\ \A d \in Calls : CallSound(call[d])
    BY DEF BooksInv
  <1>2. PICK k : k = call[c].key
    OBVIOUS
  <1>3. k \in applied
    BY <1>1, <1>2 DEF Post, At, CallSound
  <1>4. PICK t \in Unposted(k) : posted' = posted \union {<<k, t>>}
    BY <1>2 DEF Post
  <1>5. /\ UNCHANGED loan /\ UNCHANGED rows /\ call' = call /\ settled' = settled
        /\ owed' = owed /\ recorded' = recorded /\ writeOff' = writeOff
        /\ tranche' = tranche /\ applied' = applied /\ share' = share
        /\ avail' = avail /\ res' = res /\ move' = move /\ order' = order /\ faults' = faults
    BY DEF Post, loan, rows, account, payouts
  <1>6. Grows
    BY <1>5 DEF Grows
  <1>7. call' \in [Calls -> CallShape] /\ \A d \in Calls : CallSound(call[d])'
    BY <1>1, <1>5, <1>6, CallsRest
  <1>8. k \in Rows /\ t \in Tranches /\ share[k][t] > 0
    BY <1>1, <1>3, <1>4 DEF Unposted, Shapes
  <1>9. Shapes'
    BY <1>1, <1>4, <1>5, <1>7, <1>8 DEF Shapes
  <1>10. LoanSound' /\ RowsSound'
    <2>1. LoanSound'
      BY <1>1, <1>5 DEF LoanSound
    <2>2. RowsSound'
      BY <1>1, <1>5, RowsRest
    <2> QED
      BY <2>1, <2>2
  <1>11. LegsSound'
    <2>1. ASSUME NEW j \in settled PROVE Unposted(j)' = {}
      <3>1. Unposted(j) = {}
        BY <1>1 DEF LegsSound
      <3> QED
        BY <1>4, <1>5, <3>1 DEF Unposted
    <2>2. ASSUME NEW l \in posted' PROVE l[1] \in applied /\ share[l[1]][l[2]] > 0
      <3>1. CASE l \in posted
        BY <1>1, <3>1 DEF LegsSound
      <3>2. CASE l = <<k, t>>
        BY <1>3, <1>8, <3>2
      <3> QED
        BY <1>4, <3>1, <3>2
    <2> QED
      BY <1>1, <1>5, <2>1, <2>2 DEF LegsSound
  <1> QED
    BY <1>7, <1>9, <1>10, <1>11 DEF BooksInv

\* A row is settled when it has all its legs.
LEMMA MarkSettledBooks ==
  ASSUME BooksInv, NEW c \in Calls, MarkSettled(c)
  PROVE  BooksInv'
  <1>1. Shapes /\ RowsSound /\ LegsSound /\ LoanSound /\ \A d \in Calls : CallSound(call[d])
    BY DEF BooksInv
  <1>2. PICK k : k = call[c].key
    OBVIOUS
  <1>3. k \in applied
    BY <1>1, <1>2 DEF MarkSettled, At, CallSound
  <1>4. /\ UNCHANGED loan /\ UNCHANGED rows /\ posted' = posted
        /\ settled' = settled \union {k} /\ Unposted(k) = {} /\ Return(c)
        /\ owed' = owed /\ recorded' = recorded /\ writeOff' = writeOff
        /\ tranche' = tranche /\ applied' = applied /\ share' = share
        /\ avail' = avail /\ res' = res /\ move' = move /\ order' = order /\ faults' = faults
    BY <1>2 DEF MarkSettled, loan, rows, account, payouts
  <1>5. Grows
    BY <1>4 DEF Grows
  <1>6. Becomes(c, Idle) /\ CallSound(Idle)'
    <2>1. Becomes(c, Idle)
      BY <1>4, Returns
    <2>2. CallSound(Idle)'
      BY DEF CallSound, Idle
    <2> QED
      BY <2>1, <2>2
  <1>7. call' \in [Calls -> CallShape] /\ \A d \in Calls : CallSound(call[d])'
    BY <1>1, <1>5, <1>6, CallsKept
  <1>8. Shapes'
    BY <1>1, <1>4, <1>7 DEF Shapes
  <1>9. LoanSound' /\ RowsSound'
    <2>1. LoanSound'
      BY <1>1, <1>4 DEF LoanSound
    <2>2. RowsSound'
      BY <1>1, <1>4, RowsRest
    <2> QED
      BY <2>1, <2>2
  <1>10. LegsSound'
    <2>1. \A j \in settled' : Unposted(j)' = {}
      <3>1. \A j : Unposted(j)' = Unposted(j)
        BY <1>4 DEF Unposted
      <3> QED
        BY <1>1, <1>4, <3>1 DEF LegsSound
    <2> QED
      BY <1>1, <1>3, <1>4, <2>1 DEF LegsSound
  <1> QED
    BY <1>7, <1>8, <1>9, <1>10 DEF BooksInv

-----------------------------------------------------------------------------
(* Deposits and withdrawals *)


\* A key is claimed, and the call goes where its row says.
LEMMA ClaimBooks ==
  ASSUME BooksInv, NEW c \in Calls, NEW m \in Moves, ClaimMovement(c, m)
  PROVE  BooksInv'
  <1>1. Shapes /\ \A d \in Calls : CallSound(call[d])
    BY DEF BooksInv
  <1>2. PICK st : st = IF move[m] = "NONE" THEN "PENDING" ELSE move[m]
    OBVIOUS
  <1>3. PICK pc : pc = CASE m \in Deposits -> "bank"
                         [] m \in Withdrawals /\ st = "PENDING" -> "debit"
                         [] OTHER -> "pay"
    OBVIOUS
  <1>4. move' = [move EXCEPT ![m] = st] /\ Begin(c, pc, m)
    BY <1>2, <1>3 DEF ClaimMovement
  <1>5. st \in Statuses
    BY <1>1, <1>2 DEF Shapes, Statuses
  <1>6. /\ UNCHANGED <<loan, rows, legs>> /\ faults' = faults /\ avail' = avail /\ res' = res
        /\ order' = order
    BY DEF ClaimMovement, account, payouts
  <1>7. \/ m \in Deposits /\ pc = "bank"
        \/ m \in Withdrawals /\ pc \in {"debit", "pay"}
    <2>1. CASE m \in Deposits
      BY <1>3, <2>1, AccountAssumption
    <2>2. CASE m \notin Deposits /\ st = "PENDING"
      BY <1>3, <2>2 DEF Moves
    <2>3. CASE m \notin Deposits /\ st # "PENDING"
      BY <1>3, <2>3 DEF Moves
    <2> QED
      BY <2>1, <2>2, <2>3
  <1>8. pc \in Pcs /\ m \in Rows \union Moves
    BY <1>7 DEF Pcs
  <1>9. \E x : Becomes(c, x) /\ x.pc = pc /\ x.key = m
    BY <1>1, <1>4, <1>8, Begins
  <1>10. PICK x : Becomes(c, x) /\ x.pc = pc /\ x.key = m
    BY <1>9
  <1>11. CallSound(x)'
    BY <1>7, <1>10 DEF CallSound
  <1>12. /\ avail' \in [Investors -> Nat] /\ res' \in [Investors -> Nat]
         /\ move' \in [Moves -> Statuses] /\ faults' \in 0..MaxFaults
         /\ order' \in [Withdrawals -> {"none", "sent", "paid", "failed"}]
    BY <1>1, <1>4, <1>5, <1>6 DEF Shapes
  <1> QED
    BY <1>6, <1>10, <1>11, <1>12, Aside

\* What a payout's answer says of its order: a done one is on its way or paid, and a
\* rejected one is not.
LEMMA Answers ==
  ASSUME NEW o \in {"none", "sent", "paid", "failed"}, NEW a \in PayoutAnswers(o)
  PROVE  /\ a[1] \in {"none", "sent", "paid", "failed"} /\ a[2] \in {"done", "rejected", "error"}
         /\ a[2] = "done" => a[1] \in {"sent", "paid"}
         /\ a[2] = "rejected" => a[1] \in {"none", "failed"}
         /\ o \in {"sent", "paid"} => a[1] = o
         /\ o = "failed" => a[1] = "failed" /\ a[2] # "done"
  <1>1. CASE o = "none"
    <2>1. a \in {<<"none", "rejected">>, <<"sent", "done">>, <<"paid", "done">>,
                <<"failed", "rejected">>, <<"none", "error">>, <<"sent", "error">>}
      BY <1>1 DEF PayoutAnswers
    <2> QED
      BY <1>1, <2>1
  <1>2. CASE o \in {"sent", "paid"}
    <2>1. a \in {<<o, "done">>, <<o, "error">>}
      BY <1>2 DEF PayoutAnswers
    <2> QED
      BY <1>2, <2>1
  <1>3. CASE o = "failed"
    <2>1. a \in {<<o, "rejected">>, <<o, "error">>}
      BY <1>3 DEF PayoutAnswers
    <2> QED
      BY <1>3, <2>1
  <1> QED
    BY <1>1, <1>2, <1>3

\* A movement's step: the status of its row, an amount on a balance, the call.
LEMMA MovesBooks ==
  ASSUME BooksInv, NEW c \in Calls,
         \/ Bank(c) \/ CreditDeposit(c) \/ DebitWithdrawal(c) \/ Pay(c)
         \/ RevertWithdrawalDebit(c) \/ MarkCompleted(c)
  PROVE  BooksInv'
  <1>1. Shapes /\ \A d \in Calls : CallSound(call[d])
    BY DEF BooksInv
  <1>2. PICK m : m = call[c].key
    OBVIOUS
  <1>3. m \in Moves
    BY <1>1, <1>2 DEF Bank, CreditDeposit, DebitWithdrawal, Pay, RevertWithdrawalDebit,
         MarkCompleted, At, CallSound, Moves
  <1>4. UNCHANGED <<loan, rows, legs>> /\ faults' = faults /\ res' = res
    BY DEF Bank, CreditDeposit, DebitWithdrawal, Pay, RevertWithdrawalDebit, MarkCompleted, account
  <1>5. Of[m] \in Investors /\ Amount[m] \in Nat /\ avail[Of[m]] \in Nat /\ res[Of[m]] \in Nat
    BY <1>1, <1>3, AccountAssumption DEF Shapes
  <1>6. order' \in [Withdrawals -> {"none", "sent", "paid", "failed"}]
    <2>1. CASE Pay(c)
      <3>1. PICK a \in PayoutAnswers(order[m]) : order' = [order EXCEPT ![m] = a[1]]
        BY <1>2, <2>1 DEF Pay
      <3>2. m \in Withdrawals
        BY <1>1, <1>2, <2>1 DEF Pay, At, CallSound
      <3>3. order[m] \in {"none", "sent", "paid", "failed"}
        BY <1>1, <3>2 DEF Shapes
      <3>4. a[1] \in {"none", "sent", "paid", "failed"}
        BY <3>3, Answers
      <3> QED
        BY <1>1, <3>1, <3>4 DEF Shapes
    <2>2. CASE ~Pay(c)
      BY <1>1, <2>2 DEF Shapes, Bank, CreditDeposit, DebitWithdrawal, RevertWithdrawalDebit,
           MarkCompleted, payouts
    <2> QED
      BY <2>1, <2>2
  <1>7. avail' \in [Investors -> Nat] /\ move' \in [Moves -> Statuses]
    <2>1. ASSUME NEW n \in Nat PROVE [avail EXCEPT ![Of[m]] = n] \in [Investors -> Nat]
      BY <1>1 DEF Shapes
    <2>2. ASSUME NEW st \in Statuses PROVE [move EXCEPT ![m] = st] \in [Moves -> Statuses]
      BY <1>1 DEF Shapes
    <2>3. avail \in [Investors -> Nat] /\ move \in [Moves -> Statuses]
      BY <1>1 DEF Shapes
    <2>4. "COMPLETED" \in Statuses /\ "DEBITED" \in Statuses /\ "PENDING" \in Statuses
      BY DEF Statuses
    <2>5. avail[Of[m]] + Amount[m] \in Nat
      BY <1>5
    <2>6. CASE Bank(c) \/ Pay(c)
      BY <2>3, <2>6 DEF Bank, Pay, account
    <2>7. CASE CreditDeposit(c)
      <3>1. \/ move' = [move EXCEPT ![m] = "COMPLETED"]
               /\ avail' = [avail EXCEPT ![Of[m]] = avail[Of[m]] + Amount[m]]
            \/ move' = move /\ avail' = avail
        BY <1>2, <2>7 DEF CreditDeposit
      <3> QED
        BY <2>1, <2>2, <2>3, <2>4, <2>5, <3>1
    <2>8. CASE RevertWithdrawalDebit(c)
      <3>1. \/ move' = [move EXCEPT ![m] = "PENDING"]
               /\ avail' = [avail EXCEPT ![Of[m]] = avail[Of[m]] + Amount[m]]
            \/ move' = move /\ avail' = avail
        BY <1>2, <2>8 DEF RevertWithdrawalDebit
      <3> QED
        BY <2>1, <2>2, <2>3, <2>4, <2>5, <3>1
    <2>9. CASE DebitWithdrawal(c)
      <3>1. \/ /\ move' = [move EXCEPT ![m] = "DEBITED"]
               /\ avail' = [avail EXCEPT ![Of[m]] = avail[Of[m]] - Amount[m]]
               /\ avail[Of[m]] - res[Of[m]] >= Amount[m]
            \/ move' = move /\ avail' = avail
        BY <1>2, <2>9 DEF DebitWithdrawal
      <3>2. avail[Of[m]] - res[Of[m]] >= Amount[m] => avail[Of[m]] - Amount[m] \in Nat
        BY <1>5
      <3> QED
        BY <2>1, <2>2, <2>3, <2>4, <3>1, <3>2
    <2>10. CASE MarkCompleted(c)
      <3>1. move' = [move EXCEPT ![m] = "COMPLETED"] /\ avail' = avail
        BY <1>2, <2>10 DEF MarkCompleted, account
      <3> QED
        BY <2>2, <2>3, <2>4, <3>1
    <2> QED
      BY <2>6, <2>7, <2>8, <2>9, <2>10
  <1>8. \E x : Becomes(c, x) /\ CallSound(x)'
    <2>1. ASSUME Return(c) PROVE \E x : Becomes(c, x) /\ CallSound(x)'
      <3>1. Becomes(c, Idle)
        BY <2>1, Returns
      <3>2. CallSound(Idle)'
        BY DEF CallSound, Idle
      <3> QED
        BY <3>1, <3>2
    <2>2. ASSUME NEW pc \in {"credit", "pay", "finish", "revert"}, To(c, pc),
                 pc = "credit" => m \in Deposits, pc # "credit" => m \in Withdrawals
          PROVE  \E x : Becomes(c, x) /\ CallSound(x)'
      <3>1. pc \in Pcs
        BY DEF Pcs
      <3>2. \E x : Becomes(c, x) /\ x.pc = pc /\ x.key = m
        BY <1>1, <1>2, <2>2, <3>1, Goes
      <3>3. PICK x : Becomes(c, x) /\ x.pc = pc /\ x.key = m
        BY <3>2
      <3>4. CallSound(x)'
        BY <2>2, <3>3 DEF CallSound
      <3> QED
        BY <3>3, <3>4
    <2>3. CASE Bank(c)
      <3>1. To(c, "credit") /\ m \in Deposits
        BY <1>1, <1>2, <2>3 DEF Bank, At, CallSound
      <3> QED
        BY <2>2, <3>1
    <2>4. CASE CreditDeposit(c) \/ RevertWithdrawalDebit(c) \/ MarkCompleted(c)
      <3>1. Return(c)
        BY <2>4 DEF CreditDeposit, RevertWithdrawalDebit, MarkCompleted
      <3> QED
        BY <2>1, <3>1
    <2>5. CASE DebitWithdrawal(c)
      <3>1. (To(c, "pay") \/ Return(c)) /\ m \in Withdrawals
        BY <1>1, <1>2, <2>5 DEF DebitWithdrawal, At, CallSound
      <3> QED
        BY <2>1, <2>2, <3>1
    <2>6. CASE Pay(c)
      <3>1. m \in Withdrawals
        BY <1>1, <1>2, <2>6 DEF Pay, At, CallSound
      <3>2. PICK a \in PayoutAnswers(order[m]) :
              CASE a[2] = "done" -> To(c, "finish")
                [] a[2] = "rejected" -> To(c, "revert")
                [] a[2] = "error" -> Return(c)
        BY <1>2, <2>6 DEF Pay
      <3>3. a[2] \in {"done", "rejected", "error"}
        <4>1. order[m] \in {"none", "sent", "paid", "failed"}
          BY <1>1, <3>1 DEF Shapes
        <4> QED
          BY <4>1, Answers
      <3>4. To(c, "finish") \/ To(c, "revert") \/ Return(c)
        BY <3>2, <3>3
      <3> QED
        BY <2>1, <2>2, <3>1, <3>4
    <2> QED
      BY <2>3, <2>4, <2>5, <2>6
  <1> QED
    BY <1>1, <1>4, <1>6, <1>7, <1>8, Aside DEF Shapes

\* The rail decides, a failure is told, a call dies.
LEMMA OutsideBooks ==
  ASSUME BooksInv,
         \/ \E m \in Withdrawals : RailDecides(m) \/ WithdrawalFailed(m)
         \/ \E c \in Calls : Die(c)
  PROVE  BooksInv'
  <1>1. Shapes
    BY DEF BooksInv
  <1>2. ASSUME NEW m \in Withdrawals, RailDecides(m) PROVE BooksInv'
    <2>1. /\ UNCHANGED <<loan, rows, legs>> /\ avail' = avail /\ res' = res /\ move' = move
          /\ faults' = faults /\ call' = call
          /\ \E o \in {"paid", "failed"} : order' = [order EXCEPT ![m] = o]
      BY <1>2 DEF RailDecides, account
    <2>2. /\ avail' \in [Investors -> Nat] /\ res' \in [Investors -> Nat]
          /\ move' \in [Moves -> Statuses] /\ faults' \in 0..MaxFaults
          /\ order' \in [Withdrawals -> {"none", "sent", "paid", "failed"}]
      BY <1>1, <2>1 DEF Shapes
    <2> QED
      BY <2>1, <2>2, Aside
  <1>3. ASSUME NEW m \in Withdrawals, WithdrawalFailed(m) PROVE BooksInv'
    <2>1. /\ UNCHANGED <<loan, rows, legs>> /\ res' = res /\ order' = order
          /\ faults' = faults /\ call' = call
          /\ \/ move' = [move EXCEPT ![m] = "REVERTED"]
                /\ avail' = [avail EXCEPT ![Of[m]] = avail[Of[m]] + Amount[m]]
             \/ move' = move /\ avail' = avail
      BY <1>3 DEF WithdrawalFailed
    <2>2. Of[m] \in Investors /\ Amount[m] \in Nat /\ avail[Of[m]] + Amount[m] \in Nat
      BY <1>1, AccountAssumption DEF Moves, Shapes
    <2>3. /\ avail' \in [Investors -> Nat] /\ res' \in [Investors -> Nat]
          /\ move' \in [Moves -> Statuses] /\ faults' \in 0..MaxFaults
          /\ order' \in [Withdrawals -> {"none", "sent", "paid", "failed"}]
      BY <1>1, <2>1, <2>2 DEF Shapes, Statuses
    <2> QED
      BY <2>1, <2>3, Aside
  <1>4. ASSUME NEW c \in Calls, Die(c) PROVE BooksInv'
    <2>1. /\ Return(c) /\ UNCHANGED <<loan, rows, legs, account, move>>
          /\ order' = order /\ faults > 0 /\ faults' = faults - 1
      BY <1>4 DEF Die, payouts
    <2>2. faults' \in 0..MaxFaults /\ order' \in [Withdrawals -> {"none", "sent", "paid", "failed"}]
      BY <1>1, <2>1, AccountAssumption DEF Shapes
    <2> QED
      BY <2>1, <2>2, StopsBooks
  <1> QED
    BY <1>2, <1>3, <1>4

-----------------------------------------------------------------------------
(* What is repaid, lost and recovered is on the tranches once and whole *)

\* A loan just disbursed.
LEMMA InitBooks ==
  ASSUME Init
  PROVE  BooksInv
  <1>1. \A t \in Tranches : Idle.shares[t] = 0
    BY DEF Idle
  <1>2. Idle \in CallShape /\ Idle.shares \in Shares
    BY DEF Idle, CallShape, Shares, Pcs
  <1>3. \A i \in Investors : Opening[i] \in Nat /\ Elsewhere[i] + Backing(i) \in Nat
    <2> TAKE i \in Investors
    <2>1. Backing(i) \in Nat
      BY TranchesAreFinite, FinancedIsPositive, TrancheTotals DEF Backing
    <2> QED
      BY <2>1, AccountAssumption
  <1>4. Shapes
    <2>1. owed \in Nat /\ writeOff \in Nat
      BY FinancedIsPositive DEF Init
    <2>2. tranche \in [Tranches -> [repaid : Nat, loss : Nat, back : Nat]]
      BY DEF Init
    <2>3. share \in [Rows -> Shares]
      BY <1>2 DEF Init, Rows
    <2>4. call \in [Calls -> CallShape]
      BY <1>2 DEF Init
    <2>5. avail \in [Investors -> Nat]
      BY AccountAssumption DEF Init
    <2>6. res \in [Investors -> Nat]
      BY <1>3 DEF Init
    <2>7. faults \in 0..MaxFaults
      BY AccountAssumption DEF Init
    <2>8. /\ recorded \subseteq Repayments \union {"loss"}
          /\ applied \subseteq Rows /\ posted \subseteq Rows \X Tranches
      BY DEF Init
    <2>9. move \in [Moves -> Statuses] /\ order \in [Withdrawals -> {"none", "sent", "paid", "failed"}]
      BY DEF Init, Statuses
    <2> QED
      BY <2>1, <2>2, <2>3, <2>4, <2>5, <2>6, <2>7, <2>8, <2>9 DEF Shapes
  <1>5. LoanSound
    <2>1. recorded \intersect Repayments = {}
      BY DEF Init
    <2>2. Total(Principal, recorded \intersect Repayments) = 0
      BY <2>1, TotalEmpty
    <2> QED
      BY <2>2, FinancedIsPositive DEF Init, LoanSound
  <1>6. RowsSound
    <2>1. Total(Repaid, Tranches) = 0
      <3>1. \A t \in Tranches : Repaid[t] = 0
        BY DEF Init, Repaid
      <3> QED
        BY <3>1, TranchesAreFinite, TotalNone
    <2>2. Total(Principal, applied \intersect Repayments) = 0
      <3>1. applied \intersect Repayments = {}
        BY DEF Init
      <3> QED
        BY <3>1, TotalEmpty
    <2>3. \A t \in Tranches : OnTranche(t, Recoveries) = 0
      <3>1. Recoveries \intersect applied = {}
        BY DEF Init
      <3> QED
        BY <3>1, TotalEmpty DEF OnTranche
    <2>4. \A t \in Tranches : tranche[t].loss = 0 /\ tranche[t].back = 0 /\ share["loss"][t] = 0
      BY <1>1 DEF Init
    <2>5. \A t \in Tranches : Lent[t] \in Nat
      BY LoanAssumption
    <2>6. applied = {}
      BY DEF Init
    <2> QED
      BY <2>1, <2>2, <2>3, <2>4, <2>5, <2>6 DEF RowsSound
  <1>7. LegsSound
    BY DEF Init, LegsSound
  <1>8. \A c \in Calls : CallSound(call[c])
    BY DEF Init, CallSound, Idle
  <1> QED
    BY <1>4, <1>5, <1>6, <1>7, <1>8 DEF BooksInv

\* Every step keeps the books.
LEMMA NextBooks ==
  ASSUME BooksInv, Next
  PROVE  BooksInv'
  <1>1. CASE LoanWritesOff \/ \E k \in Repayments : LoanRecords(k)
    BY <1>1, LoanWritesOffBooks, LoanRecordsBooks
  <1>2. ASSUME NEW c \in LoanCalls, LoanStep(c) PROVE BooksInv'
    <2>1. c \in Calls
      BY DEF Calls
    <2>2. CASE \/ \E k \in Repayments : StartRepayment(c, k)
               \/ \E k \in Recoveries : StartRecovery(c, k)
               \/ StartLoss(c)
      BY <2>1, <2>2, StartsBooks
    <2>3. CASE ApplyRepayment(c)
      BY <2>1, <2>3, ApplyRepaymentBooks
    <2>4. CASE AbsorbLoss(c)
      BY <2>1, <2>4, AbsorbLossBooks
    <2>5. CASE ApplyRecovery(c)
      BY <2>1, <2>5, ApplyRecoveryBooks
    <2>6. CASE Post(c)
      BY <2>1, <2>6, PostBooks
    <2>7. CASE MarkSettled(c)
      BY <2>1, <2>7, MarkSettledBooks
    <2> QED
      BY <1>2, <2>2, <2>3, <2>4, <2>5, <2>6, <2>7 DEF LoanStep
  <1>3. ASSUME NEW c \in MoveCalls, MoveStep(c) PROVE BooksInv'
    <2>1. c \in Calls
      BY DEF Calls
    <2>2. CASE \E m \in Moves : ClaimMovement(c, m)
      BY <2>1, <2>2, ClaimBooks
    <2>3. CASE ~(\E m \in Moves : ClaimMovement(c, m))
      <3>1. \/ Bank(c) \/ CreditDeposit(c) \/ DebitWithdrawal(c) \/ Pay(c)
            \/ RevertWithdrawalDebit(c) \/ MarkCompleted(c)
        BY <1>3, <2>3 DEF MoveStep
      <3> QED
        BY <2>1, <3>1, MovesBooks
    <2> QED
      BY <2>2, <2>3
  <1>4. CASE \/ \E m \in Withdrawals : RailDecides(m) \/ WithdrawalFailed(m)
             \/ \E c \in Calls : Die(c)
    BY <1>4, OutsideBooks
  <1> QED
    BY <1>1, <1>2, <1>3, <1>4 DEF Next

\* A step that changes nothing keeps them too.
LEMMA StutterBooks ==
  ASSUME BooksInv, UNCHANGED vars
  PROVE  BooksInv'
  <1>1. Shapes
    BY DEF BooksInv
  <1>2. /\ UNCHANGED <<loan, rows, legs>> /\ avail' = avail /\ res' = res /\ move' = move
        /\ order' = order /\ faults' = faults /\ call' = call
    BY DEF vars, account, payouts
  <1>3. /\ avail' \in [Investors -> Nat] /\ res' \in [Investors -> Nat]
        /\ move' \in [Moves -> Statuses] /\ faults' \in 0..MaxFaults
        /\ order' \in [Withdrawals -> {"none", "sent", "paid", "failed"}]
    BY <1>1, <1>2 DEF Shapes
  <1> QED
    BY <1>2, <1>3, Aside

\* The books hold the money properties' half that is about the loan.
LEMMA BooksAddUp ==
  ASSUME BooksInv
  PROVE  SharesAddUp
  <1>1. Shapes /\ RowsSound /\ LegsSound /\ LoanSound
    BY DEF BooksInv
  <1>2. TypeOK
    <2>1. owed \in 0..Financed /\ writeOff \in 0..Financed
      <3>1. recorded \intersect Repayments \in SUBSET References
        BY ReferencesAreFinite
      <3>2. Total(Principal, recorded \intersect Repayments) \in Nat
        BY <3>1, ReferencesAreFinite
      <3> QED
        BY <1>1, <3>2, FinancedIsPositive DEF LoanSound, Shapes
    <2>2. \A t \in Tranches : tranche[t] \in [repaid : Nat, loss : Nat, back : 0..Lent[t]]
      <3> TAKE t \in Tranches
      <3>1. tranche[t] \in [repaid : Nat, loss : Nat, back : Nat] /\ Lent[t] \in Nat
        BY <1>1, LoanAssumption DEF Shapes
      <3>2. tranche[t].back <= tranche[t].loss /\ tranche[t].loss <= Lent[t]
        BY <1>1 DEF RowsSound
      <3> QED
        BY <3>1, <3>2
    <2>3. applied \subseteq recorded \union Recoveries /\ settled \subseteq applied
      BY <1>1 DEF RowsSound, LegsSound
    <2>4. /\ \A i \in Investors : avail[i] \in Nat /\ res[i] \in Nat
          /\ \A m \in Moves : move[m] \in {"NONE", "PENDING", "DEBITED", "COMPLETED", "REVERTED"}
          /\ \A c \in Calls : call[c].pc \in Pcs
          /\ faults \in 0..MaxFaults
      BY <1>1 DEF Shapes, Statuses, CallShape
    <2> QED
      BY <2>1, <2>2, <2>3, <2>4 DEF TypeOK
  <1> QED
    BY <1>1, <1>2 DEF RowsSound, SharesAddUp

\* The books hold in every behaviour.
THEOREM BooksAreKept == Spec => []BooksInv
  <1>1. Init => BooksInv
    BY InitBooks
  <1>2. BooksInv /\ [Next]_vars => BooksInv'
    BY NextBooks, StutterBooks
  <1> QED
    BY <1>1, <1>2, PTL DEF Spec

\* Every repayment, the loss and every recovery is on the tranches once and
\* whole, however often, in whatever order and by however many calls they are
\* delivered, for every loan and every way to share it out: nothing is left
\* unrecoverable and no tranche recovers more than it lost.
THEOREM SharesAreWhole == Spec => []SharesAddUp
  <1>1. BooksInv => SharesAddUp
    BY BooksAddUp
  <1> QED
    BY <1>1, BooksAreKept, PTL

-----------------------------------------------------------------------------
(* Capital, while attempts on a withdrawal run one at a time *)

\* What a withdrawal's row says of its order.
OrderSound(m) ==
  /\ order[m] \in {"sent", "paid"} => move[m] \in {"DEBITED", "COMPLETED"}
  /\ move[m] = "COMPLETED" => order[m] # "none"
  /\ move[m] = "REVERTED" => order[m] = "failed"

\* What a withdrawal under way relies on.
MoveSound(x) ==
  /\ x.pc = "debit" => move[x.key] = "PENDING"
  /\ x.pc \in {"pay", "revert"} => move[x.key] \in {"DEBITED", "REVERTED"}
  /\ x.pc = "revert" => order[x.key] \in {"none", "failed"}
  /\ x.pc = "finish" => move[x.key] = "DEBITED" /\ order[x.key] # "none"

\* What a tranche has out is reserved on its investor's account.
Backed == \A t \in Tranches : Owner[t] \in Investors => Exposure[t] <= res[Owner[t]]

\* The capital's half, the orders' half and the calls' half of what is shown.
Capital == CapitalIsAccounted /\ Backed
OrdersSound == \A m \in Withdrawals : OrderSound(m)
MovesSound == \A c \in Calls : MoveSound(call[c])
MoneyInv == Capital /\ OrdersSound /\ MovesSound

\* A movement's status is set.
Turns(m, st) == m \in Moves /\ st \in Statuses /\ move' = [move EXCEPT ![m] = st]
\* What a set of statuses counts of a movement in one of them.
Counted(m, st, sts) == IF st \in sts THEN Amount[m] ELSE 0

\* The movements are finitely many amounts.
LEMMA MovementsAreFinite ==
  ASSUME NEW S \in SUBSET Moves
  PROVE  IsFiniteSet(S) /\ Whole(Amount, S) /\ Total(Amount, S) \in Nat
  <1>1. IsFiniteSet(S)
    BY AccountAssumption, FS_Subset
  <1>2. Amounts(Amount, S) /\ Whole(Amount, S)
    BY AccountAssumption DEF Amounts, Whole
  <1>3. S \in SUBSET S
    OBVIOUS
  <1> QED
    BY <1>1, <1>2, <1>3, TotalPart

\* What moved changes by the movement that turned, and only on its investor.
LEMMA MovedTurns ==
  ASSUME Shapes, NEW m, NEW st, Turns(m, st), NEW i, NEW ms \in SUBSET Moves, NEW sts
  PROVE  /\ Moved(i, ms, sts) \in Nat
         /\ Moved(i, ms, sts)' = Moved(i, ms, sts)
              + (IF m \in ms /\ Of[m] = i THEN Counted(m, st, sts) - Counted(m, move[m], sts)
                                         ELSE 0)
  <1>1. PICK S : S = {w \in ms : Of[w] = i /\ move[w] \in sts}
    OBVIOUS
  <1>2. PICK T : T = {w \in ms : Of[w] = i /\ move'[w] \in sts}
    OBVIOUS
  <1>3. Moved(i, ms, sts) = Total(Amount, S) /\ Moved(i, ms, sts)' = Total(Amount, T)
    BY <1>1, <1>2 DEF Moved
  <1>4. S \in SUBSET Moves /\ T \in SUBSET Moves /\ m \in Moves
    BY <1>1, <1>2 DEF Turns
  <1>5. /\ IsFiniteSet(S) /\ Whole(Amount, S) /\ Total(Amount, S) \in Nat
        /\ IsFiniteSet(T) /\ Whole(Amount, T) /\ Total(Amount, T) \in Nat
    BY <1>4, MovementsAreFinite
  <1>6. move'[m] = st /\ \A w \in Moves \ {m} : move'[w] = move[w]
    BY DEF Turns, Shapes
  <1>7. Amount[m] \in Nat
    BY <1>4, AccountAssumption
  <1>8. CASE m \in ms /\ Of[m] = i /\ st \in sts /\ move[m] \notin sts
    <2>1. T = S \union {m} /\ m \notin S
      BY <1>1, <1>2, <1>4, <1>6, <1>8
    <2>2. Amount[m] \in Int
      BY <1>7
    <2>3. Total(Amount, S \union {m}) = Total(Amount, S) + Amount[m]
      BY <1>5, <2>1, <2>2, TotalInsert
    <2> QED
      BY <1>3, <1>5, <1>7, <1>8, <2>1, <2>3 DEF Counted
  <1>9. CASE m \in ms /\ Of[m] = i /\ st \notin sts /\ move[m] \in sts
    <2>1. T = S \ {m} /\ m \in S
      BY <1>1, <1>2, <1>4, <1>6, <1>9
    <2>2. Total(Amount, S) = Amount[m] + Total(Amount, S \ {m})
      BY <1>5, <2>1, TotalRemove
    <2> QED
      BY <1>3, <1>5, <1>7, <1>9, <2>1, <2>2 DEF Counted
  <1>10. CASE ~(m \in ms /\ Of[m] = i) \/ (st \in sts <=> move[m] \in sts)
    <2>1. T = S
      BY <1>1, <1>2, <1>4, <1>6, <1>10
    <2> QED
      BY <1>3, <1>5, <1>7, <1>10, <2>1 DEF Counted
  <1> QED
    BY <1>8, <1>9, <1>10

\* What moved is an amount.
LEMMA MovedType ==
  ASSUME NEW i, NEW sts
  PROVE  Moved(i, Deposits, sts) \in Nat /\ Moved(i, Withdrawals, sts) \in Nat
  <1>1. PICK D, W : /\ D = {w \in Deposits : Of[w] = i /\ move[w] \in sts}
                    /\ W = {w \in Withdrawals : Of[w] = i /\ move[w] \in sts}
    OBVIOUS
  <1>2. D \in SUBSET Moves /\ W \in SUBSET Moves
    BY <1>1 DEF Moves
  <1> QED
    BY <1>1, <1>2, MovementsAreFinite DEF Moved

\* The rows pay an investor an amount.
LEMMA ToInvestorType ==
  ASSUME Shapes, NEW i \in Investors
  PROVE  ToInvestor(i, References) \in Nat /\ Part(i, share["loss"]) \in Nat
  <1>1. PICK f : f = [k \in References |-> Part(i, share[k])]
    OBVIOUS
  <1>2. PICK S : S = References \intersect applied
    OBVIOUS
  <1>3. ASSUME NEW k \in Rows PROVE Part(i, share[k]) \in Nat
    <2>1. share[k] \in Shares
      BY DEF Shapes
    <2> QED
      BY <2>1, PartIsOne
  <1>4. Amounts(f, S) /\ IsFiniteSet(S) /\ S \in SUBSET S
    BY <1>1, <1>2, <1>3, ReferencesAreFinite DEF Amounts, Rows
  <1>5. Total(f, S) \in Nat
    BY <1>4, TotalPart
  <1> QED
    BY <1>1, <1>2, <1>3, <1>5 DEF ToInvestor, Rows

\* A new row pays an investor its part; the loss pays nobody.
LEMMA ToInvestorRow ==
  ASSUME Shapes, NEW k, NEW s, NewRow(k, s), NEW i \in Investors
  PROVE  ToInvestor(i, References)' =
           ToInvestor(i, References) + (IF k \in References THEN Part(i, s) ELSE 0)
  <1>1. PICK f : f = [j \in References |-> Part(i, share[j])]
    OBVIOUS
  <1>2. PICK g : g = [j \in References |-> Part(i, share'[j])]
    OBVIOUS
  <1>3. PICK S : S = References \intersect applied
    OBVIOUS
  <1>4. ToInvestor(i, References) = Total(f, S)
    BY <1>1, <1>3 DEF ToInvestor
  <1>5. ToInvestor(i, References)' = Total(g, References \intersect applied')
    BY <1>2 DEF ToInvestor, Part
  <1>6. IsFiniteSet(S) /\ S \subseteq References /\ k \notin S
    BY <1>3, ReferencesAreFinite DEF NewRow
  <1>7. SameOn(f, g, S)
    BY <1>1, <1>2, <1>6, NewRowShares DEF SameOn, Rows
  <1>8. Whole(f, S)
    <2>1. ASSUME NEW j \in S PROVE f[j] \in Int
      <3>1. share[j] \in Shares
        BY <1>6 DEF Shapes, Rows
      <3>2. Part(i, share[j]) \in Nat
        BY <3>1, PartIsOne
      <3> QED
        BY <1>1, <1>6, <3>2
    <2> QED
      BY <2>1 DEF Whole
  <1>9. Total(f, S) = Total(g, S) /\ Total(f, S) \in Int
    BY <1>6, <1>7, <1>8, TotalSame, TotalType
  <1>10. CASE k \in References
    <2>1. References \intersect applied' = S \union {k}
      BY <1>3, <1>10 DEF NewRow
    <2>2. g[k] = Part(i, s) /\ g[k] \in Int
      <3>1. share'[k] = s
        BY NewRowShares
      <3>2. s \in Shares
        BY DEF NewRow
      <3>3. Part(i, s) \in Nat
        BY <3>2, PartIsOne
      <3> QED
        BY <1>2, <1>10, <3>1, <3>3
    <2>3. Total(g, S \union {k}) = Total(f, S) + g[k]
      BY <1>6, <1>7, <1>8, <2>2, OneMore
    <2> QED
      BY <1>4, <1>5, <1>10, <2>1, <2>2, <2>3
  <1>11. CASE k \notin References
    <2>1. References \intersect applied' = S
      BY <1>3, <1>11 DEF NewRow
    <2>2. ToInvestor(i, References)' = ToInvestor(i, References)
      BY <1>4, <1>5, <1>9, <2>1
    <2>3. ToInvestor(i, References) \in Int
      BY <1>4, <1>9
    <2> QED
      BY <1>11, <2>2, <2>3
  <1> QED
    BY <1>10, <1>11

\* What is moved and what is out stays while rows and movements do.
LEMMA SumsRest ==
  ASSUME UNCHANGED rows
  PROVE  /\ Exposure' = Exposure
         /\ \A i : ToInvestor(i, References)' = ToInvestor(i, References)
         /\ \A i : Part(i, share["loss"])' = Part(i, share["loss"])
  <1>1. tranche' = tranche /\ applied' = applied /\ share' = share
    BY DEF rows
  <1>2. \A i : ToInvestor(i, References)' = ToInvestor(i, References)
    BY <1>1 DEF ToInvestor, Part
  <1>3. \A i : Part(i, share["loss"])' = Part(i, share["loss"])
    BY <1>1 DEF Part
  <1> QED
    BY <1>1, <1>2, <1>3 DEF Exposure

\* Movements that do not turn count what they counted.
LEMMA MovedRests ==
  ASSUME move' = move
  PROVE  \A i, ms, sts : Moved(i, ms, sts)' = Moved(i, ms, sts)
  BY DEF Moved

\* Capital stays accounted while nothing of it changes.
LEMMA CapitalRests ==
  ASSUME Capital, UNCHANGED <<rows, account, move>>
  PROVE  Capital'
  <1>1. UNCHANGED rows /\ move' = move /\ avail' = avail /\ res' = res
    BY DEF account
  <1>2. CapitalIsAccounted'
    <2>1. \A i \in Investors :
            /\ avail[i] = Opening[i] + Moved(i, Deposits, {"COMPLETED"})
                   - Moved(i, Withdrawals, {"DEBITED", "COMPLETED"})
                   + ToInvestor(i, References) - Part(i, share["loss"])
            /\ res[i] <= avail[i]
      BY DEF Capital, CapitalIsAccounted
    <2> QED
      BY <1>1, <2>1, SumsRest, MovedRests DEF CapitalIsAccounted
  <1>3. Backed'
    BY <1>1, SumsRest DEF Capital, Backed
  <1> QED
    BY <1>2, <1>3 DEF Capital

\* Capital, and a row that pays an investor its part.
LEMMA RowCapital ==
  ASSUME Shapes, Capital, NEW k, NEW s, NewRow(k, s), k \in References, move' = move,
         avail' = [i \in Investors |-> avail[i] + Part(i, s)],
         \A i \in Investors : res'[i] <= res[i], Backed', res' \in [Investors -> Nat]
  PROVE  Capital'
  <1>1. /\ share'["loss"] = share["loss"] /\ s \in Shares
    <2>1. "loss" \in Rows \ {k}
      BY ReferencesAreFinite DEF Rows
    <2> QED
      BY <2>1, NewRowShares DEF NewRow
  <1>2. ASSUME NEW i \in Investors
        PROVE  /\ avail'[i] = Opening[i] + Moved(i, Deposits, {"COMPLETED"})'
                      - Moved(i, Withdrawals, {"DEBITED", "COMPLETED"})'
                      + ToInvestor(i, References)' - Part(i, share["loss"])'
               /\ res'[i] <= avail'[i]
    <2>1. PICK d, w, n, r, l : /\ d = Moved(i, Deposits, {"COMPLETED"})
                               /\ w = Moved(i, Withdrawals, {"DEBITED", "COMPLETED"})
                               /\ n = ToInvestor(i, References) /\ r = Part(i, s)
                               /\ l = Part(i, share["loss"])
      OBVIOUS
    <2>2. /\ avail[i] = Opening[i] + d - w + n - l /\ res[i] <= avail[i]
          /\ avail[i] \in Nat /\ res[i] \in Nat /\ res'[i] \in Nat
      BY <2>1 DEF Capital, CapitalIsAccounted, Shapes
    <2>3. d \in Nat /\ w \in Nat /\ n \in Nat /\ r \in Nat /\ l \in Nat /\ Opening[i] \in Nat
      <3>1. d \in Nat /\ w \in Nat
        BY <2>1, MovedType
      <3>2. n \in Nat /\ l \in Nat
        BY <2>1, ToInvestorType
      <3>3. r \in Nat
        BY <1>1, <2>1, PartIsOne
      <3> QED
        BY <3>1, <3>2, <3>3, AccountAssumption
    <2>4. ToInvestor(i, References)' = n + r
      BY <2>1, ToInvestorRow
    <2>5. /\ Moved(i, Deposits, {"COMPLETED"})' = d
          /\ Moved(i, Withdrawals, {"DEBITED", "COMPLETED"})' = w
      BY <2>1, MovedRests
    <2>6. Part(i, share["loss"])' = l
      BY <1>1, <2>1 DEF Part
    <2>7. avail'[i] = avail[i] + r /\ res'[i] <= res[i]
      BY <2>1
    <2> QED
      BY <2>2, <2>3, <2>4, <2>5, <2>6, <2>7
  <1> QED
    BY <1>2 DEF Capital, CapitalIsAccounted

\* A repayment frees what it repays, and pays its interest.
LEMMA ApplyRepaymentCapital ==
  ASSUME BooksInv, Capital, NEW c \in Calls, ApplyRepayment(c)
  PROVE  Capital'
  <1>1. Shapes /\ \A d \in Calls : CallSound(call[d])
    BY DEF BooksInv
  <1>2. PICK k : k = call[c].key
    OBVIOUS
  <1>3. move' = move /\ call[c].pc = "repay"
    BY DEF ApplyRepayment, At
  <1>4. k \in Repayments /\ k \in References /\ k \in Rows
    BY <1>1, <1>2, <1>3, ReferencesAreFinite DEF CallSound, Rows
  <1>5. Principal[k] \in Nat /\ Interest[k] \in Nat
    BY <1>4, LoanAssumption
  <1>6. PICK p, n : p = RepaymentShares(Principal[k]) /\ n = RepaymentShares(Interest[k])
    OBVIOUS
  <1>7. p \in Shares /\ n \in Shares
    BY <1>5, <1>6, RepaymentIsWhole
  <1>8. CASE k \in applied
    <2>1. UNCHANGED <<rows, account, move>>
      BY <1>2, <1>3, <1>8 DEF ApplyRepayment
    <2> QED
      BY <2>1, CapitalRests
  <1>9. CASE k \notin applied
    <2>1. /\ applied' = applied \union {k} /\ share' = [share EXCEPT ![k] = n]
          /\ tranche' = [t \in Tranches |-> [tranche[t] EXCEPT !.repaid = @ + p[t]]]
          /\ res' = [i \in Investors |-> Floor0(res[i] - Part(i, p))]
          /\ avail' = [i \in Investors |-> avail[i] + Part(i, n)]
      BY <1>2, <1>6, <1>9 DEF ApplyRepayment
    <2>2. NewRow(k, n)
      BY <1>4, <1>7, <1>9, <2>1 DEF NewRow
    <2>3. \A a, b \in Nat : Floor0(a - b) \in Nat /\ Floor0(a - b) <= a /\ Floor0(a - b) >= a - b
      BY DEF Floor0
    <2>4. \A i \in Investors : Part(i, p) \in Nat /\ res[i] \in Nat
      BY <1>1, <1>7, PartIsOne DEF Shapes
    <2>5. \A i \in Investors : res'[i] <= res[i] /\ res'[i] >= res[i] - Part(i, p)
      BY <2>1, <2>3, <2>4
    <2>6. res' \in [Investors -> Nat]
      <3>1. \A i \in Investors : Floor0(res[i] - Part(i, p)) \in Nat
        BY <2>3, <2>4
      <3> QED
        BY <2>1, <3>1
    <2>7. Backed'
      <3>1. ASSUME NEW t \in Tranches, Owner[t] \in Investors
            PROVE  Floor0(Lent[t] - tranche'[t].repaid - tranche'[t].loss) <= res'[Owner[t]]
        <4>1. Part(Owner[t], p) = p[t] /\ p[t] \in Nat
          BY <1>7, <3>1, PartIsOne DEF Shares
        <4>2. Exposure[t] = Floor0(Lent[t] - tranche[t].repaid - tranche[t].loss)
          BY <1>1, ExposureType
        <4>3. Exposure[t] <= res[Owner[t]]
          BY <3>1 DEF Capital, Backed
        <4>4. /\ tranche'[t].repaid = tranche[t].repaid + p[t] /\ tranche'[t].loss = tranche[t].loss
              /\ tranche[t].repaid \in Nat /\ tranche[t].loss \in Nat /\ Lent[t] \in Nat
          BY <1>1, <2>1, LoanAssumption DEF Shapes
        <4>5. res'[Owner[t]] \in Nat /\ res[Owner[t]] \in Nat /\ res'[Owner[t]] >= res[Owner[t]] - p[t]
          BY <2>4, <2>5, <2>6, <3>1, <4>1
        <4>6. PICK e \in Int : e = Lent[t] - tranche[t].repaid - tranche[t].loss
          BY <4>4
        <4>7. Floor0(e) <= res[Owner[t]]
          BY <4>2, <4>3, <4>6
        <4>8. Floor0(e - p[t]) <= res'[Owner[t]]
          BY <4>1, <4>5, <4>7 DEF Floor0
        <4>9. Lent[t] - tranche'[t].repaid - tranche'[t].loss = e - p[t]
          BY <4>1, <4>4, <4>6
        <4> QED
          BY <4>8, <4>9
      <3> QED
        BY <3>1 DEF Backed, Exposure
    <2> QED
      BY <1>1, <1>3, <1>4, <2>1, <2>2, <2>5, <2>6, <2>7, RowCapital
  <1> QED
    BY <1>8, <1>9

\* A loss is taken from what its tranches have reserved, so no balance is cut short.
LEMMA AbsorbLossCapital ==
  ASSUME BooksInv, Capital, NEW c \in Calls, AbsorbLoss(c)
  PROVE  Capital'
  <1>1. Shapes /\ RowsSound /\ \A d \in Calls : CallSound(call[d])
    BY DEF BooksInv
  <1>2. move' = move /\ call[c].pc = "lose"
    BY DEF AbsorbLoss, At
  <1>3. PICK s : s = call[c].shares
    OBVIOUS
  <1>4. s \in Shares
    BY <1>1, <1>3 DEF Shapes, CallShape
  <1>5. CASE "loss" \in applied \/ ~(\A t \in Tranches : s[t] > 0 =>
               Lent[t] - tranche[t].repaid - tranche[t].loss >= s[t])
    <2>1. UNCHANGED <<rows, account, move>>
      BY <1>2, <1>3, <1>5 DEF AbsorbLoss
    <2> QED
      BY <2>1, CapitalRests
  <1>6. CASE "loss" \notin applied /\ \A t \in Tranches : s[t] > 0 =>
               Lent[t] - tranche[t].repaid - tranche[t].loss >= s[t]
    <2>1. /\ applied' = applied \union {"loss"} /\ share' = [share EXCEPT !["loss"] = s]
          /\ tranche' = [t \in Tranches |-> [tranche[t] EXCEPT !.loss = @ + s[t]]]
          /\ res' = [i \in Investors |-> Floor0(res[i] - Part(i, s))]
          /\ avail' = [i \in Investors |-> Floor0(avail[i] - Part(i, s))]
      BY <1>3, <1>6 DEF AbsorbLoss
    <2>2. NewRow("loss", s)
      BY <1>4, <1>6, <2>1 DEF NewRow, Rows
    <2>3. \A t \in Tranches :
            /\ s[t] \in Nat /\ Lent[t] \in Nat
            /\ tranche[t].repaid \in Nat /\ tranche[t].loss \in Nat
            /\ tranche'[t].repaid = tranche[t].repaid
            /\ tranche'[t].loss = tranche[t].loss + s[t]
      BY <1>1, <1>4, <2>1, LoanAssumption DEF Shapes, Shares
    <2>4. \A t \in Tranches : s[t] <= Exposure[t]
      <3> TAKE t \in Tranches
      <3>1. Exposure[t] = Floor0(Lent[t] - tranche[t].repaid - tranche[t].loss)
        BY <1>1, ExposureType
      <3>2. PICK e \in Int : e = Lent[t] - tranche[t].repaid - tranche[t].loss
        BY <2>3
      <3>3. s[t] > 0 => e >= s[t]
        BY <1>6, <3>2
      <3>4. s[t] <= Floor0(e)
        BY <2>3, <3>3 DEF Floor0
      <3> QED
        BY <3>1, <3>2, <3>4
    <2>5. ASSUME NEW i \in Investors
          PROVE  /\ Part(i, s) \in Nat /\ Part(i, s) <= res[i] /\ res[i] <= avail[i]
                 /\ res[i] \in Nat /\ avail[i] \in Nat
      <3>1. Part(i, s) \in Nat /\ res[i] \in Nat /\ avail[i] \in Nat
        BY <1>1, <1>4, PartIsOne DEF Shapes
      <3>2. res[i] <= avail[i]
        BY DEF Capital, CapitalIsAccounted
      <3>3. CASE \A t \in Tranches : Owner[t] # i
        <4>1. Part(i, s) = 0
          BY <1>4, <3>3, PartIsOne
        <4> QED
          BY <3>1, <3>2, <4>1
      <3>4. CASE ~(\A t \in Tranches : Owner[t] # i)
        <4>1. PICK t \in Tranches : Owner[t] = i
          BY <3>4
        <4>2. Part(i, s) = s[t]
          BY <1>4, <4>1, PartIsOne
        <4>3. Exposure[t] <= res[i]
          BY <4>1 DEF Capital, Backed
        <4>4. s[t] <= Exposure[t]
          BY <2>4
        <4>5. Exposure[t] \in Nat
          BY <1>1, ExposureType DEF Shares
        <4> QED
          BY <2>3, <3>1, <3>2, <4>2, <4>3, <4>4, <4>5
      <3> QED
        BY <3>3, <3>4
    <2>6. \A i \in Investors : /\ res'[i] = res[i] - Part(i, s)
                               /\ avail'[i] = avail[i] - Part(i, s)
      <3>1. \A a, b \in Nat : b <= a => Floor0(a - b) = a - b
        BY DEF Floor0
      <3> TAKE i \in Investors
      <3>2. /\ Part(i, s) \in Nat /\ Part(i, s) <= res[i] /\ res[i] <= avail[i]
            /\ res[i] \in Nat /\ avail[i] \in Nat
        BY <2>5
      <3>3. Floor0(res[i] - Part(i, s)) = res[i] - Part(i, s)
        BY <3>1, <3>2
      <3>4. Part(i, s) <= avail[i]
        BY <3>2
      <3>5. Floor0(avail[i] - Part(i, s)) = avail[i] - Part(i, s)
        BY <3>1, <3>2, <3>4
      <3> QED
        BY <2>1, <3>3, <3>5
    <2>7. Backed'
      <3>1. ASSUME NEW t \in Tranches, Owner[t] \in Investors
            PROVE  Floor0(Lent[t] - tranche'[t].repaid - tranche'[t].loss) <= res'[Owner[t]]
        <4>1. Part(Owner[t], s) = s[t]
          BY <1>4, <3>1, PartIsOne
        <4>2. Exposure[t] = Floor0(Lent[t] - tranche[t].repaid - tranche[t].loss)
          BY <1>1, ExposureType
        <4>3. Exposure[t] <= res[Owner[t]]
          BY <3>1 DEF Capital, Backed
        <4>4. res'[Owner[t]] = res[Owner[t]] - s[t] /\ res[Owner[t]] \in Nat /\ s[t] <= res[Owner[t]]
          BY <2>5, <2>6, <3>1, <4>1
        <4>5. PICK e \in Int : e = Lent[t] - tranche[t].repaid - tranche[t].loss
          BY <2>3
        <4>6. Floor0(e) <= res[Owner[t]]
          BY <4>2, <4>3, <4>5
        <4>7. Floor0(e - s[t]) <= res'[Owner[t]]
          BY <2>3, <4>4, <4>6 DEF Floor0
        <4>8. Lent[t] - tranche'[t].repaid - tranche'[t].loss = e - s[t]
          BY <2>3, <4>5
        <4> QED
          BY <4>7, <4>8
      <3> QED
        BY <3>1 DEF Backed, Exposure
    <2>8. CapitalIsAccounted'
      <3>1. ASSUME NEW i \in Investors
            PROVE  /\ avail'[i] = Opening[i] + Moved(i, Deposits, {"COMPLETED"})'
                          - Moved(i, Withdrawals, {"DEBITED", "COMPLETED"})'
                          + ToInvestor(i, References)' - Part(i, share["loss"])'
                   /\ res'[i] <= avail'[i]
        <4>1. PICK d, w, n, r : /\ d = Moved(i, Deposits, {"COMPLETED"})
                                /\ w = Moved(i, Withdrawals, {"DEBITED", "COMPLETED"})
                                /\ n = ToInvestor(i, References) /\ r = Part(i, s)
          OBVIOUS
        <4>2. d \in Nat /\ w \in Nat /\ n \in Nat /\ Opening[i] \in Nat
          BY <1>1, <4>1, MovedType, ToInvestorType, AccountAssumption
        <4>3. Part(i, share["loss"]) = 0
          <5>1. \A t \in Tranches : share["loss"][t] = 0
            BY <1>1, <1>6 DEF RowsSound
          <5>2. IsFiniteSet(Behind(i)) /\ \A t \in Behind(i) : share["loss"][t] = 0
            BY <5>1, TranchesAreFinite
          <5> QED
            BY <5>2, TotalNone DEF Part
        <4>4. avail[i] = Opening[i] + d - w + n /\ res[i] <= avail[i]
          <5>1. avail[i] = Opening[i] + d - w + n - 0 /\ res[i] <= avail[i]
            BY <4>1, <4>3 DEF Capital, CapitalIsAccounted
          <5> QED
            BY <4>2, <5>1
        <4>5. ToInvestor(i, References)' = n
          <5>1. ToInvestor(i, References)' = ToInvestor(i, References) + 0
            BY <1>1, <2>2, ReferencesAreFinite, ToInvestorRow
          <5> QED
            BY <4>1, <4>2, <5>1
        <4>6. Part(i, share["loss"])' = r
          <5>1. share'["loss"] = s
            BY <1>1, <2>2, NewRowShares
          <5> QED
            BY <4>1, <5>1 DEF Part
        <4>7. /\ Moved(i, Deposits, {"COMPLETED"})' = d
              /\ Moved(i, Withdrawals, {"DEBITED", "COMPLETED"})' = w
          BY <1>2, <4>1, MovedRests
        <4>8. /\ r \in Nat /\ avail'[i] = avail[i] - r /\ res'[i] = res[i] - r
              /\ avail[i] \in Nat /\ res[i] \in Nat
          BY <2>5, <2>6, <4>1
        <4> QED
          BY <4>2, <4>4, <4>5, <4>6, <4>7, <4>8
      <3> QED
        BY <3>1 DEF CapitalIsAccounted
    <2> QED
      BY <2>7, <2>8 DEF Capital
  <1> QED
    BY <1>5, <1>6

\* A recovery pays what it recovers, and reserves nothing.
LEMMA ApplyRecoveryCapital ==
  ASSUME BooksInv, Capital, NEW c \in Calls, ApplyRecovery(c)
  PROVE  Capital'
  <1>1. Shapes /\ \A d \in Calls : CallSound(call[d])
    BY DEF BooksInv
  <1>2. move' = move /\ res' = res /\ call[c].pc = "recover"
    BY DEF ApplyRecovery, At
  <1>3. PICK k, s : k = call[c].key /\ s = call[c].shares
    OBVIOUS
  <1>4. k \in References /\ k \in Rows /\ s \in Shares
    BY <1>1, <1>2, <1>3, ReferencesAreFinite DEF CallSound, Shapes, CallShape, Rows
  <1>5. CASE k \in applied \/ ~(\A t \in Tranches : s[t] > 0 => tranche[t].loss - tranche[t].back >= s[t])
    <2>1. UNCHANGED <<rows, account, move>>
      BY <1>2, <1>3, <1>5 DEF ApplyRecovery, account
    <2> QED
      BY <2>1, CapitalRests
  <1>6. CASE k \notin applied /\ \A t \in Tranches : s[t] > 0 => tranche[t].loss - tranche[t].back >= s[t]
    <2>1. /\ applied' = applied \union {k} /\ share' = [share EXCEPT ![k] = s]
          /\ tranche' = [t \in Tranches |-> [tranche[t] EXCEPT !.back = @ + s[t]]]
          /\ avail' = [i \in Investors |-> avail[i] + Part(i, s)]
      BY <1>3, <1>6 DEF ApplyRecovery
    <2>2. NewRow(k, s)
      BY <1>4, <1>6, <2>1 DEF NewRow
    <2>3. Backed'
      <3>1. \A t \in Tranches : tranche'[t].repaid = tranche[t].repaid /\ tranche'[t].loss = tranche[t].loss
        BY <1>1, <2>1 DEF Shapes
      <3>2. Exposure' = Exposure
        BY <3>1 DEF Exposure
      <3> QED
        BY <1>2, <3>2 DEF Capital, Backed
    <2>4. (\A i \in Investors : res'[i] <= res[i]) /\ res' \in [Investors -> Nat]
      BY <1>1, <1>2 DEF Shapes
    <2> QED
      BY <1>1, <1>2, <1>4, <2>1, <2>2, <2>3, <2>4, RowCapital
  <1> QED
    BY <1>5, <1>6

\* A movement that turns puts on the balance what it no longer counts, or takes
\* off it what it now counts.
Gain(m, st) ==
  IF m \in Deposits
    THEN Counted(m, st, {"COMPLETED"}) - Counted(m, move[m], {"COMPLETED"})
    ELSE Counted(m, move[m], {"DEBITED", "COMPLETED"}) - Counted(m, st, {"DEBITED", "COMPLETED"})

\* Capital stays accounted when a movement turns, and covers what is reserved.
LEMMA TurnCapital ==
  ASSUME Shapes, Capital, NEW m, NEW st, Turns(m, st), UNCHANGED rows, res' = res,
         avail' = [avail EXCEPT ![Of[m]] = avail[Of[m]] + Gain(m, st)],
         res[Of[m]] <= avail[Of[m]] + Gain(m, st)
  PROVE  Capital'
  <1>1. m \in Moves /\ Of[m] \in Investors /\ Amount[m] \in Nat /\ Deposits \intersect Withdrawals = {}
    BY AccountAssumption DEF Turns
  <1>2. ASSUME NEW i \in Investors
        PROVE  /\ avail'[i] = Opening[i] + Moved(i, Deposits, {"COMPLETED"})'
                      - Moved(i, Withdrawals, {"DEBITED", "COMPLETED"})'
                      + ToInvestor(i, References)' - Part(i, share["loss"])'
               /\ res'[i] <= avail'[i]
    <2>1. PICK d, w, n, l, g :
            /\ d = Moved(i, Deposits, {"COMPLETED"})
            /\ w = Moved(i, Withdrawals, {"DEBITED", "COMPLETED"})
            /\ n = ToInvestor(i, References) /\ l = Part(i, share["loss"])
            /\ g = IF Of[m] = i THEN Gain(m, st) ELSE 0
      OBVIOUS
    <2>2. d \in Nat /\ w \in Nat /\ n \in Nat /\ l \in Nat /\ Opening[i] \in Nat
      BY <2>1, MovedType, ToInvestorType, AccountAssumption
    <2>3. /\ avail[i] = Opening[i] + d - w + n - l /\ res[i] <= avail[i]
          /\ avail[i] \in Nat /\ res[i] \in Nat
      BY <2>1 DEF Capital, CapitalIsAccounted, Shapes
    <2>4. ToInvestor(i, References)' = n /\ Part(i, share["loss"])' = l
      BY <2>1, SumsRest
    <2>5. Deposits \in SUBSET Moves /\ Withdrawals \in SUBSET Moves
      BY DEF Moves
    <2>6. PICK dd, ww :
            /\ dd = IF m \in Deposits /\ Of[m] = i
                      THEN Counted(m, st, {"COMPLETED"}) - Counted(m, move[m], {"COMPLETED"}) ELSE 0
            /\ ww = IF m \in Withdrawals /\ Of[m] = i
                      THEN Counted(m, st, {"DEBITED", "COMPLETED"})
                             - Counted(m, move[m], {"DEBITED", "COMPLETED"}) ELSE 0
      OBVIOUS
    <2>7. Moved(i, Deposits, {"COMPLETED"})' = d + dd
      BY <2>1, <2>5, <2>6, MovedTurns
    <2>8. Moved(i, Withdrawals, {"DEBITED", "COMPLETED"})' = w + ww
      BY <2>1, <2>5, <2>6, MovedTurns
    <2>9. dd \in Int /\ ww \in Int /\ g = dd - ww
      <3>1. \A s, ss : Counted(m, s, ss) \in Nat
        BY <1>1 DEF Counted
      <3>2. m \in Deposits => m \notin Withdrawals
        BY <1>1
      <3>3. m \notin Deposits => m \in Withdrawals
        BY <1>1 DEF Moves
      <3> QED
        BY <2>1, <2>6, <3>1, <3>2, <3>3 DEF Gain
    <2>10. avail'[i] = avail[i] + g /\ res'[i] <= avail'[i]
      <3>1. avail \in [Investors -> Nat]
        BY DEF Shapes
      <3>2. CASE Of[m] = i
        BY <1>1, <2>1, <3>1, <3>2
      <3>3. CASE Of[m] # i
        BY <1>1, <2>1, <2>3, <3>1, <3>3
      <3> QED
        BY <3>2, <3>3
    <2> QED
      BY <2>2, <2>3, <2>4, <2>7, <2>8, <2>9, <2>10
  <1>3. Backed'
    BY SumsRest DEF Capital, Backed
  <1> QED
    BY <1>2, <1>3 DEF Capital, CapitalIsAccounted

\* A movement that gains nothing, or is claimed.
LEMMA EvenTurn ==
  ASSUME Shapes, Capital, NEW m, NEW st, Turns(m, st), Gain(m, st) = 0,
         UNCHANGED rows, UNCHANGED account
  PROVE  Capital'
  <1>1. Of[m] \in Investors
    BY AccountAssumption DEF Turns
  <1>2. avail \in [Investors -> Nat] /\ res[Of[m]] <= avail[Of[m]] /\ avail' = avail /\ res' = res
    BY <1>1 DEF Shapes, Capital, CapitalIsAccounted, account
  <1>3. avail[Of[m]] + Gain(m, st) = avail[Of[m]]
    BY <1>1, <1>2
  <1>4. avail' = [avail EXCEPT ![Of[m]] = avail[Of[m]] + Gain(m, st)]
    BY <1>1, <1>2, <1>3
  <1>5. res[Of[m]] <= avail[Of[m]] + Gain(m, st)
    BY <1>2, <1>3
  <1> QED
    BY <1>2, <1>4, <1>5, TurnCapital

\* Every step of a movement keeps capital accounted.
LEMMA MovesCapital ==
  ASSUME BooksInv, Capital, MovesSound, NEW c \in Calls, MoveStep(c)
  PROVE  Capital'
  <1>1. Shapes /\ \A d \in Calls : CallSound(call[d])
    BY DEF BooksInv
  <1>2. CASE \E m \in Moves : ClaimMovement(c, m)
    <2>1. PICK m \in Moves : ClaimMovement(c, m)
      BY <1>2
    <2>2. PICK st : st = IF move[m] = "NONE" THEN "PENDING" ELSE move[m]
      OBVIOUS
    <2>3. move' = [move EXCEPT ![m] = st] /\ UNCHANGED rows /\ UNCHANGED account
      BY <2>1, <2>2 DEF ClaimMovement
    <2>4. move[m] \in Statuses /\ st \in Statuses
      BY <1>1, <2>2 DEF Shapes, Statuses
    <2>5. Gain(m, st) = 0
      BY <2>2, AccountAssumption DEF Gain, Counted
    <2>6. Turns(m, st)
      BY <2>3, <2>4 DEF Turns
    <2> QED
      BY <1>1, <2>3, <2>5, <2>6, EvenTurn
  <1>3. PICK m : m = call[c].key
    OBVIOUS
  <1>4. CASE \/ Bank(c) \/ CreditDeposit(c) \/ DebitWithdrawal(c) \/ Pay(c)
             \/ RevertWithdrawalDebit(c) \/ MarkCompleted(c)
    <2>1. m \in Moves /\ Of[m] \in Investors /\ Amount[m] \in Nat
      <3>1. m \in Moves
        BY <1>1, <1>3, <1>4 DEF Bank, CreditDeposit, DebitWithdrawal, Pay, RevertWithdrawalDebit,
             MarkCompleted, At, CallSound, Moves
      <3> QED
        BY <3>1, AccountAssumption
    <2>2. UNCHANGED rows
      BY <1>4 DEF Bank, CreditDeposit, DebitWithdrawal, Pay, RevertWithdrawalDebit, MarkCompleted
    <2>3. /\ avail[Of[m]] \in Nat /\ res[Of[m]] \in Nat /\ res[Of[m]] <= avail[Of[m]]
          /\ Deposits \intersect Withdrawals = {}
      BY <1>1, <2>1, AccountAssumption DEF Shapes, Capital, CapitalIsAccounted
    <2>4. "COMPLETED" \in Statuses /\ "DEBITED" \in Statuses /\ "PENDING" \in Statuses
      BY DEF Statuses
    <2>5. CASE Bank(c) \/ Pay(c)
      <3>1. UNCHANGED <<rows, account, move>>
        BY <2>5 DEF Bank, Pay
      <3> QED
        BY <3>1, CapitalRests
    <2>6. CASE CreditDeposit(c)
      <3>1. m \in Deposits /\ res' = res
        BY <1>1, <1>3, <2>6 DEF CreditDeposit, At, CallSound
      <3>2. CASE move[m] = "PENDING"
        <4>1. Turns(m, "COMPLETED")
          BY <1>3, <2>1, <2>4, <2>6, <3>2 DEF CreditDeposit, Turns
        <4>2. Gain(m, "COMPLETED") = Amount[m]
          BY <2>1, <3>1, <3>2 DEF Gain, Counted
        <4>3. avail' = [avail EXCEPT ![Of[m]] = avail[Of[m]] + Gain(m, "COMPLETED")]
          BY <1>3, <2>6, <3>2, <4>2 DEF CreditDeposit
        <4>4. res[Of[m]] <= avail[Of[m]] + Gain(m, "COMPLETED")
          BY <2>1, <2>3, <4>2
        <4> QED
          BY <1>1, <2>2, <3>1, <4>1, <4>3, <4>4, TurnCapital
      <3>3. CASE move[m] # "PENDING"
        <4>1. UNCHANGED <<rows, account, move>>
          BY <1>3, <2>2, <2>6, <3>1, <3>3 DEF CreditDeposit, account
        <4> QED
          BY <4>1, CapitalRests
      <3> QED
        BY <3>2, <3>3
    <2>7. CASE DebitWithdrawal(c)
      <3>1. m \in Withdrawals /\ m \notin Deposits /\ res' = res /\ move[m] = "PENDING"
        BY <1>1, <1>3, <2>3, <2>7 DEF DebitWithdrawal, At, CallSound, MovesSound, MoveSound
      <3>2. CASE avail[Of[m]] - res[Of[m]] >= Amount[m]
        <4>1. move' = [move EXCEPT ![m] = "DEBITED"] /\ avail' = [avail EXCEPT ![Of[m]] = @ - Amount[m]]
          BY <1>3, <2>7, <3>1, <3>2 DEF DebitWithdrawal
        <4>2. Turns(m, "DEBITED")
          BY <2>1, <2>4, <4>1 DEF Turns
        <4>3. Gain(m, "DEBITED") = 0 - Amount[m]
          BY <2>1, <3>1 DEF Gain, Counted
        <4>4. avail[Of[m]] + Gain(m, "DEBITED") = avail[Of[m]] - Amount[m]
          BY <2>1, <2>3, <4>3
        <4>5. avail' = [avail EXCEPT ![Of[m]] = avail[Of[m]] + Gain(m, "DEBITED")]
          BY <4>1, <4>4
        <4>6. res[Of[m]] <= avail[Of[m]] + Gain(m, "DEBITED")
          BY <2>1, <2>3, <3>2, <4>4
        <4> QED
          BY <1>1, <2>2, <3>1, <4>2, <4>5, <4>6, TurnCapital
      <3>3. CASE ~(avail[Of[m]] - res[Of[m]] >= Amount[m])
        <4>1. UNCHANGED <<rows, account, move>>
          BY <1>3, <2>2, <2>7, <3>1, <3>3 DEF DebitWithdrawal, account
        <4> QED
          BY <4>1, CapitalRests
      <3> QED
        BY <3>2, <3>3
    <2>8. CASE RevertWithdrawalDebit(c)
      <3>1. m \in Withdrawals /\ m \notin Deposits /\ res' = res
        BY <1>1, <1>3, <2>3, <2>8 DEF RevertWithdrawalDebit, At, CallSound
      <3>2. CASE move[m] = "DEBITED"
        <4>1. Turns(m, "PENDING")
          BY <1>3, <2>1, <2>4, <2>8, <3>2 DEF RevertWithdrawalDebit, Turns
        <4>2. Gain(m, "PENDING") = Amount[m]
          BY <2>1, <3>1, <3>2 DEF Gain, Counted
        <4>3. avail' = [avail EXCEPT ![Of[m]] = avail[Of[m]] + Gain(m, "PENDING")]
          BY <1>3, <2>8, <3>2, <4>2 DEF RevertWithdrawalDebit
        <4>4. res[Of[m]] <= avail[Of[m]] + Gain(m, "PENDING")
          BY <2>1, <2>3, <4>2
        <4> QED
          BY <1>1, <2>2, <3>1, <4>1, <4>3, <4>4, TurnCapital
      <3>3. CASE move[m] # "DEBITED"
        <4>1. UNCHANGED <<rows, account, move>>
          BY <1>3, <2>2, <2>8, <3>1, <3>3 DEF RevertWithdrawalDebit, account
        <4> QED
          BY <4>1, CapitalRests
      <3> QED
        BY <3>2, <3>3
    <2>9. CASE MarkCompleted(c)
      <3>1. m \in Withdrawals /\ m \notin Deposits /\ move[m] = "DEBITED"
        BY <1>1, <1>3, <2>3, <2>9 DEF MarkCompleted, At, CallSound, MovesSound, MoveSound
      <3>2. Turns(m, "COMPLETED") /\ UNCHANGED account
        BY <1>3, <2>1, <2>4, <2>9 DEF MarkCompleted, Turns
      <3>3. Gain(m, "COMPLETED") = 0
        BY <2>1, <3>1 DEF Gain, Counted
      <3> QED
        BY <1>1, <2>2, <3>2, <3>3, EvenTurn
    <2> QED
      BY <1>4, <2>5, <2>6, <2>7, <2>8, <2>9
  <1> QED
    BY <1>2, <1>4 DEF MoveStep

\* What failed at the rail is given back.
LEMMA FailedCapital ==
  ASSUME BooksInv, Capital, NEW m \in Withdrawals, WithdrawalFailed(m)
  PROVE  Capital'
  <1>1. Shapes
    BY DEF BooksInv
  <1>2. /\ m \in Moves /\ m \notin Deposits /\ Of[m] \in Investors /\ Amount[m] \in Nat
        /\ avail[Of[m]] \in Nat /\ res[Of[m]] \in Nat /\ res[Of[m]] <= avail[Of[m]]
    BY <1>1, AccountAssumption DEF Moves, Shapes, Capital, CapitalIsAccounted
  <1>3. UNCHANGED rows /\ res' = res
    BY DEF WithdrawalFailed
  <1>4. CASE move[m] = "COMPLETED"
    <2>1. Turns(m, "REVERTED")
      BY <1>2, <1>4 DEF WithdrawalFailed, Turns, Statuses
    <2>2. Gain(m, "REVERTED") = Amount[m]
      BY <1>2, <1>4 DEF Gain, Counted
    <2>3. avail' = [avail EXCEPT ![Of[m]] = avail[Of[m]] + Gain(m, "REVERTED")]
      BY <1>4, <2>2 DEF WithdrawalFailed
    <2>4. res[Of[m]] <= avail[Of[m]] + Gain(m, "REVERTED")
      BY <1>2, <2>2
    <2> QED
      BY <1>1, <1>3, <2>1, <2>3, <2>4, TurnCapital
  <1>5. CASE move[m] # "COMPLETED"
    <2>1. UNCHANGED <<rows, account, move>>
      BY <1>3, <1>5 DEF WithdrawalFailed, account
    <2> QED
      BY <2>1, CapitalRests
  <1> QED
    BY <1>4, <1>5

\* The other steps leave the capital alone.
LEMMA NextCapital ==
  ASSUME BooksInv, Capital, MovesSound, Next
  PROVE  Capital'
  <1>1. CASE LoanWritesOff \/ \E k \in Repayments : LoanRecords(k)
    <2>1. UNCHANGED <<rows, account, move>>
      BY <1>1 DEF LoanWritesOff, LoanRecords
    <2> QED
      BY <2>1, CapitalRests
  <1>2. ASSUME NEW c \in LoanCalls, LoanStep(c) PROVE Capital'
    <2>1. c \in Calls
      BY DEF Calls
    <2>2. CASE \/ \E k \in Repayments : StartRepayment(c, k)
               \/ \E k \in Recoveries : StartRecovery(c, k)
               \/ StartLoss(c) \/ Post(c) \/ MarkSettled(c)
      <3>1. UNCHANGED <<rows, account, move>>
        BY <2>2 DEF StartRepayment, StartRecovery, StartLoss, Post, MarkSettled
      <3> QED
        BY <3>1, CapitalRests
    <2>3. CASE ApplyRepayment(c)
      BY <2>1, <2>3, ApplyRepaymentCapital
    <2>4. CASE AbsorbLoss(c)
      BY <2>1, <2>4, AbsorbLossCapital
    <2>5. CASE ApplyRecovery(c)
      BY <2>1, <2>5, ApplyRecoveryCapital
    <2> QED
      BY <1>2, <2>2, <2>3, <2>4, <2>5 DEF LoanStep
  <1>3. ASSUME NEW c \in MoveCalls, MoveStep(c) PROVE Capital'
    <2>1. c \in Calls
      BY DEF Calls
    <2> QED
      BY <1>3, <2>1, MovesCapital
  <1>4. ASSUME NEW m \in Withdrawals, RailDecides(m) PROVE Capital'
    <2>1. UNCHANGED <<rows, account, move>>
      BY <1>4 DEF RailDecides
    <2> QED
      BY <2>1, CapitalRests
  <1>5. ASSUME NEW m \in Withdrawals, WithdrawalFailed(m) PROVE Capital'
    BY <1>5, FailedCapital
  <1>6. ASSUME NEW c \in Calls, Die(c) PROVE Capital'
    <2>1. UNCHANGED <<rows, account, move>>
      BY <1>6 DEF Die
    <2> QED
      BY <2>1, CapitalRests
  <1> QED
    BY <1>1, <1>2, <1>3, <1>4, <1>5, <1>6 DEF Next

-----------------------------------------------------------------------------
(* The rows tell the money *)

\* The call that steps is sound, and the others stay so.
LEMMA CallsTell ==
  ASSUME Shapes, NEW c \in Calls, NEW x, Becomes(c, x), MoveSound(x)',
         \A d \in Calls \ {c} : \A y : y = call[d] => MoveSound(y)'
  PROVE  MovesSound'
  <1>1. call'[c] = x /\ \A d \in Calls \ {c} : call'[d] = call[d]
    BY DEF Becomes, Shapes
  <1>2. ASSUME NEW d \in Calls PROVE MoveSound(call[d])'
    <2>1. CASE d = c
      BY <1>1, <2>1 DEF MoveSound
    <2>2. CASE d # c
      <3>1. PICK y : y = call[d]
        OBVIOUS
      <3>2. MoveSound(y)' /\ call'[d] = y
        BY <1>1, <2>2, <3>1
      <3> QED
        BY <3>2 DEF MoveSound
    <2> QED
      BY <2>1, <2>2
  <1> QED
    BY <1>2 DEF MovesSound

\* Attempts on other withdrawals rely on other rows and orders.
LEMMA OthersTell ==
  ASSUME BooksInv, MovesSound, OneAttempt, NEW c \in Calls, call[c].pc # "idle",
         call[c].key \in Withdrawals,
         \A w \in Withdrawals \ {call[c].key} : move'[w] = move[w] /\ order'[w] = order[w]
  PROVE  \A d \in Calls \ {c} : \A y : y = call[d] => MoveSound(y)'
  <1> SUFFICES ASSUME NEW d \in Calls \ {c}, NEW y, y = call[d] PROVE MoveSound(y)'
    OBVIOUS
  <1>1. MoveSound(y) /\ CallSound(y)
    BY DEF MovesSound, MoveSound, BooksInv, CallSound
  <1>2. CASE y.pc \in {"debit", "pay", "revert", "finish"}
    <2>1. y.key \in Withdrawals
      BY <1>1, <1>2 DEF CallSound
    <2>2. y.key # call[c].key
      BY <1>2, <2>1 DEF OneAttempt, At
    <2>3. move'[y.key] = move[y.key] /\ order'[y.key] = order[y.key]
      BY <2>1, <2>2
    <2> QED
      BY <1>1, <2>3 DEF MoveSound
  <1>3. CASE y.pc \notin {"debit", "pay", "revert", "finish"}
    BY <1>3 DEF MoveSound
  <1> QED
    BY <1>2, <1>3

\* Where no withdrawal's row or order changes, no call minds.
LEMMA UnturnedTell ==
  ASSUME BooksInv, OrdersSound, MovesSound,
         \A w \in Withdrawals : move'[w] = move[w] /\ order'[w] = order[w],
         \/ call' = call
         \/ \E c \in Calls : \E x : Becomes(c, x) /\ MoveSound(x)'
  PROVE  OrdersSound' /\ MovesSound'
  <1>1. ASSUME NEW d \in Calls, NEW y, y = call[d] PROVE MoveSound(y)'
    <2>1. MoveSound(y) /\ CallSound(y)
      BY <1>1 DEF MovesSound, MoveSound, BooksInv, CallSound
    <2>2. CASE y.pc \in {"debit", "pay", "revert", "finish"}
      <3>1. y.key \in Withdrawals
        BY <2>1, <2>2 DEF CallSound
      <3>2. move'[y.key] = move[y.key] /\ order'[y.key] = order[y.key]
        BY <3>1
      <3> QED
        BY <2>1, <3>2 DEF MoveSound
    <2>3. CASE y.pc \notin {"debit", "pay", "revert", "finish"}
      BY <2>3 DEF MoveSound
    <2> QED
      BY <2>2, <2>3
  <1>2. MovesSound'
    <2>1. CASE call' = call
      <3>1. ASSUME NEW d \in Calls PROVE MoveSound(call[d])'
        <4>1. PICK y : y = call[d]
          OBVIOUS
        <4>2. MoveSound(y)' /\ call'[d] = y
          BY <1>1, <2>1, <4>1
        <4> QED
          BY <4>2 DEF MoveSound
      <3> QED
        BY <3>1 DEF MovesSound
    <2>2. CASE \E c \in Calls : \E x : Becomes(c, x) /\ MoveSound(x)'
      <3>1. PICK c \in Calls : \E x : Becomes(c, x) /\ MoveSound(x)'
        BY <2>2
      <3>2. PICK x : Becomes(c, x) /\ MoveSound(x)'
        BY <3>1
      <3>3. \A d \in Calls \ {c} : \A y : y = call[d] => MoveSound(y)'
        BY <1>1
      <3>4. Shapes
        BY DEF BooksInv
      <3> QED
        BY <3>2, <3>3, <3>4, CallsTell
    <2> QED
      BY <2>1, <2>2
  <1>3. OrdersSound'
    BY DEF OrdersSound, OrderSound
  <1> QED
    BY <1>2, <1>3

\* A call that returns or leaves for a step of another kind relies on no withdrawal.
LEMMA LeavesTell ==
  ASSUME Shapes, NEW c \in Calls,
         Return(c) \/ (\E pc \in Pcs \ {"debit", "pay", "revert", "finish"} : To(c, pc))
  PROVE  \E x : Becomes(c, x) /\ MoveSound(x)'
  <1>1. CASE Return(c)
    <2>1. Becomes(c, Idle)
      BY <1>1, Returns
    <2>2. MoveSound(Idle)'
      BY DEF MoveSound, Idle
    <2> QED
      BY <2>1, <2>2
  <1>2. CASE \E pc \in Pcs \ {"debit", "pay", "revert", "finish"} : To(c, pc)
    <2>1. PICK pc \in Pcs \ {"debit", "pay", "revert", "finish"} : To(c, pc)
      BY <1>2
    <2>2. \E x : Becomes(c, x) /\ x.pc = pc /\ x.key = call[c].key
      BY <2>1, Goes
    <2>3. PICK x : Becomes(c, x) /\ x.pc = pc /\ x.key = call[c].key
      BY <2>2
    <2>4. MoveSound(x)'
      BY <2>3 DEF MoveSound
    <2> QED
      BY <2>3, <2>4
  <1> QED
    BY <1>1, <1>2

\* The calls of the loan leave withdrawals alone.
LEMMA LoanStepTells ==
  ASSUME BooksInv, OrdersSound, MovesSound, NEW c \in Calls, LoanStep(c)
  PROVE  OrdersSound' /\ MovesSound'
  <1>1. Shapes
    BY DEF BooksInv
  <1>2. \A w \in Withdrawals : move'[w] = move[w] /\ order'[w] = order[w]
    BY DEF LoanStep, StartRepayment, StartRecovery, StartLoss, ApplyRepayment, AbsorbLoss,
           ApplyRecovery, Post, MarkSettled, payouts
  <1>3. CASE \E k \in Repayments : StartRepayment(c, k)
    <2>1. PICK k \in Repayments : StartRepayment(c, k)
      BY <1>3
    <2>2. Begin(c, "repay", k) /\ "repay" \in Pcs /\ k \in Rows \union Moves
      BY <2>1, ReferencesAreFinite DEF StartRepayment, Pcs, Rows
    <2>3. \E x : Becomes(c, x) /\ x.pc = "repay" /\ x.key = k
      BY <1>1, <2>2, Begins
    <2>4. PICK x : Becomes(c, x) /\ x.pc = "repay" /\ x.key = k
      BY <2>3
    <2>5. MoveSound(x)'
      BY <2>4 DEF MoveSound
    <2> QED
      BY <1>2, <2>4, <2>5, UnturnedTell
  <1>4. CASE \E k \in Recoveries : StartRecovery(c, k)
    <2>1. PICK k \in Recoveries : StartRecovery(c, k)
      BY <1>4
    <2>2. PICK x : x = [pc |-> "recover", key |-> k, shares |-> RecoveryShares(Principal[k])]
      OBVIOUS
    <2>3. x \in CallShape
      <3>1. RecoveryShares(Principal[k]) \in Shares
        BY <1>1, RecoveryFits
      <3> QED
        BY <2>2, <3>1, ReferencesAreFinite DEF CallShape, Pcs, Rows
    <2>4. call' = [call EXCEPT ![c] = x]
      BY <2>1, <2>2 DEF StartRecovery
    <2>5. MoveSound(x)'
      BY <2>2 DEF MoveSound
    <2>6. Becomes(c, x)
      BY <2>3, <2>4 DEF Becomes
    <2> QED
      BY <1>2, <2>5, <2>6, UnturnedTell
  <1>5. CASE StartLoss(c)
    <2>1. PICK x : x = [pc |-> "lose", key |-> "loss", shares |-> LossShares(writeOff)]
      OBVIOUS
    <2>2. x \in CallShape
      <3>1. LossShares(writeOff) \in Shares
        BY <1>5, LossIsWhole DEF StartLoss
      <3> QED
        BY <2>1, <3>1 DEF CallShape, Pcs, Rows
    <2>3. call' = [call EXCEPT ![c] = x]
      BY <1>5, <2>1 DEF StartLoss
    <2>4. MoveSound(x)'
      BY <2>1 DEF MoveSound
    <2>5. Becomes(c, x)
      BY <2>2, <2>3 DEF Becomes
    <2> QED
      BY <1>2, <2>4, <2>5, UnturnedTell
  <1>6. CASE Post(c)
    <2>1. call' = call
      BY <1>6 DEF Post
    <2> QED
      BY <1>2, <2>1, UnturnedTell
  <1>7. CASE ApplyRepayment(c) \/ AbsorbLoss(c) \/ ApplyRecovery(c) \/ MarkSettled(c)
    <2>1. To(c, "post") \/ Return(c)
      BY <1>7 DEF ApplyRepayment, AbsorbLoss, ApplyRecovery, MarkSettled
    <2>2. "post" \in Pcs \ {"debit", "pay", "revert", "finish"}
      BY DEF Pcs
    <2>3. \E x : Becomes(c, x) /\ MoveSound(x)'
      BY <1>1, <2>1, <2>2, LeavesTell
    <2> QED
      BY <1>2, <2>3, UnturnedTell
  <1> QED
    BY <1>3, <1>4, <1>5, <1>6, <1>7 DEF LoanStep

\* A step of a withdrawal: its row and its order fit each other, and the call relies on both.
LEMMA WithdrawalTells ==
  ASSUME BooksInv, OrdersSound, MovesSound, OneAttempt, NEW c \in Calls, call[c].pc # "idle",
         NEW m \in Withdrawals, call[c].key = m,
         \A w \in Withdrawals \ {m} : move'[w] = move[w] /\ order'[w] = order[w],
         OrderSound(m)', \E x : Becomes(c, x) /\ MoveSound(x)'
  PROVE  OrdersSound' /\ MovesSound'
  <1>1. Shapes
    BY DEF BooksInv
  <1>2. PICK x : Becomes(c, x) /\ MoveSound(x)'
    OBVIOUS
  <1>3. \A d \in Calls \ {c} : \A y : y = call[d] => MoveSound(y)'
    BY OthersTell
  <1>4. MovesSound'
    BY <1>1, <1>2, <1>3, CallsTell
  <1>5. OrdersSound'
    <2>1. ASSUME NEW w \in Withdrawals PROVE OrderSound(w)'
      <3>1. CASE w = m
        BY <3>1 DEF OrderSound
      <3>2. CASE w # m
        BY <3>2 DEF OrdersSound, OrderSound
      <3> QED
        BY <3>1, <3>2
    <2> QED
      BY <2>1 DEF OrdersSound
  <1> QED
    BY <1>4, <1>5

\* A claim moves a new row to PENDING, which no call relied on.
LEMMA ClaimTells ==
  ASSUME BooksInv, OrdersSound, MovesSound, NEW c \in Calls, NEW m \in Moves, ClaimMovement(c, m)
  PROVE  OrdersSound' /\ MovesSound'
  <1>1. Shapes
    BY DEF BooksInv
  <1>2. PICK st : st = IF move[m] = "NONE" THEN "PENDING" ELSE move[m]
    OBVIOUS
  <1>3. PICK pc : pc = CASE m \in Deposits -> "bank"
                         [] m \in Withdrawals /\ st = "PENDING" -> "debit"
                         [] OTHER -> "pay"
    OBVIOUS
  <1>4. /\ move' = [move EXCEPT ![m] = st] /\ Begin(c, pc, m) /\ move[m] # "COMPLETED"
        /\ order' = order
    BY <1>2, <1>3 DEF ClaimMovement, payouts
  <1>5. move[m] \in Statuses /\ st \in Statuses /\ move'[m] = st
        /\ \A w \in Moves \ {m} : move'[w] = move[w]
    BY <1>1, <1>2, <1>4 DEF Shapes, Statuses
  <1>6. pc \in {"bank", "debit", "pay"} /\ pc \in Pcs /\ m \in Rows \union Moves
    <2>1. CASE m \in Deposits
      BY <1>3, <2>1, AccountAssumption DEF Pcs
    <2>2. CASE m \notin Deposits /\ st = "PENDING"
      BY <1>3, <2>2 DEF Moves, Pcs
    <2>3. CASE m \notin Deposits /\ st # "PENDING"
      BY <1>3, <2>3 DEF Moves, Pcs
    <2> QED
      BY <2>1, <2>2, <2>3
  <1>7. /\ pc = "debit" => st = "PENDING"
        /\ pc = "pay" => st \in {"DEBITED", "REVERTED"}
    <2>1. CASE m \in Deposits
      BY <1>3, <2>1, AccountAssumption
    <2>2. CASE m \notin Deposits /\ st = "PENDING"
      BY <1>3, <2>2 DEF Moves
    <2>3. CASE m \notin Deposits /\ st # "PENDING"
      BY <1>2, <1>3, <1>4, <1>5, <2>3 DEF Moves, Statuses
    <2> QED
      BY <2>1, <2>2, <2>3
  <1>8. \E x : Becomes(c, x) /\ x.pc = pc /\ x.key = m
    BY <1>1, <1>4, <1>6, Begins
  <1>9. PICK x : Becomes(c, x) /\ x.pc = pc /\ x.key = m
    BY <1>8
  <1>10. MoveSound(x)'
    BY <1>5, <1>6, <1>7, <1>9 DEF MoveSound
  <1>11. \A d \in Calls \ {c} : \A y : y = call[d] => MoveSound(y)'
    <2> SUFFICES ASSUME NEW d \in Calls \ {c}, NEW y, y = call[d] PROVE MoveSound(y)'
      OBVIOUS
    <2>1. MoveSound(y) /\ CallSound(y)
      BY DEF MovesSound, MoveSound, BooksInv, CallSound
    <2>2. CASE y.pc \in {"debit", "pay", "revert", "finish"}
      <3>1. y.key \in Moves
        BY <2>1, <2>2 DEF CallSound, Moves
      <3>2. move'[y.key] = move[y.key] \/ move[y.key] = "NONE"
        BY <1>2, <1>5, <3>1
      <3>3. move[y.key] # "NONE"
        BY <2>1, <2>2 DEF MoveSound
      <3> QED
        BY <1>4, <2>1, <3>2, <3>3 DEF MoveSound
    <2>3. CASE y.pc \notin {"debit", "pay", "revert", "finish"}
      BY <2>3 DEF MoveSound
    <2> QED
      BY <2>2, <2>3
  <1>12. MovesSound'
    BY <1>1, <1>9, <1>10, <1>11, CallsTell
  <1>13. OrdersSound'
    <2>1. ASSUME NEW w \in Withdrawals PROVE OrderSound(w)'
      <3>1. OrderSound(w) /\ w \in Moves
        BY DEF OrdersSound, Moves
      <3>2. CASE move'[w] = move[w]
        BY <1>4, <3>1, <3>2 DEF OrderSound
      <3>3. CASE move'[w] # move[w]
        <4>1. move[w] = "NONE" /\ move'[w] = "PENDING"
          BY <1>2, <1>5, <3>1, <3>3
        <4> QED
          BY <1>4, <3>1, <4>1 DEF OrderSound
      <3> QED
        BY <3>2, <3>3
    <2> QED
      BY <2>1 DEF OrdersSound
  <1> QED
    BY <1>12, <1>13

\* Every step of a movement: its row and its order keep fitting each other.
LEMMA MoveStepTells ==
  ASSUME BooksInv, OrdersSound, MovesSound, OneAttempt, NEW c \in Calls, MoveStep(c)
  PROVE  OrdersSound' /\ MovesSound'
  <1>1. Shapes /\ CallSound(call[c]) /\ MoveSound(call[c])
    BY DEF BooksInv, MovesSound
  <1>2. PICK m : m = call[c].key
    OBVIOUS
  <1>3. CASE \E m1 \in Moves : ClaimMovement(c, m1)
    BY <1>3, ClaimTells
  <1>4. CASE Bank(c) \/ CreditDeposit(c)
    <2>1. m \in Deposits /\ m \notin Withdrawals
      BY <1>1, <1>2, <1>4, AccountAssumption DEF Bank, CreditDeposit, At, CallSound
    <2>2. \A w \in Withdrawals : move'[w] = move[w] /\ order'[w] = order[w]
      BY <1>1, <1>2, <1>4, <2>1 DEF Bank, CreditDeposit, payouts, Shapes, Moves
    <2>3. To(c, "credit") \/ Return(c)
      BY <1>4 DEF Bank, CreditDeposit
    <2>4. "credit" \in Pcs \ {"debit", "pay", "revert", "finish"}
      BY DEF Pcs
    <2>5. \E x : Becomes(c, x) /\ MoveSound(x)'
      BY <1>1, <2>3, <2>4, LeavesTell
    <2> QED
      BY <2>2, <2>5, UnturnedTell
  <1>5. CASE DebitWithdrawal(c) \/ Pay(c) \/ RevertWithdrawalDebit(c) \/ MarkCompleted(c)
    <2>1. m \in Withdrawals /\ m \in Moves /\ call[c].pc # "idle"
      BY <1>1, <1>2, <1>5 DEF DebitWithdrawal, Pay, RevertWithdrawalDebit, MarkCompleted, At,
         CallSound, Moves
    <2>2. OrderSound(m) /\ move[m] \in Statuses /\ order[m] \in {"none", "sent", "paid", "failed"}
      BY <1>1, <2>1 DEF OrdersSound, Shapes
    <2>3. \A w \in Withdrawals \ {m} : move'[w] = move[w] /\ order'[w] = order[w]
      BY <1>1, <1>2, <1>5, <2>1 DEF DebitWithdrawal, Pay, RevertWithdrawalDebit, MarkCompleted,
         payouts, Shapes, Moves
    <2>4. CASE DebitWithdrawal(c)
      <3>1. move[m] = "PENDING" /\ order' = order
        BY <1>1, <1>2, <2>4 DEF DebitWithdrawal, At, MoveSound, payouts
      <3>2. \/ move'[m] = "DEBITED" /\ To(c, "pay")
            \/ move' = move /\ Return(c)
        BY <1>1, <1>2, <2>1, <2>4, <3>1 DEF DebitWithdrawal, Shapes
      <3>3. OrderSound(m)'
        BY <2>2, <3>1, <3>2 DEF OrderSound
      <3>4. \E x : Becomes(c, x) /\ MoveSound(x)'
        <4>1. CASE Return(c)
          BY <1>1, <4>1, LeavesTell
        <4>2. CASE move'[m] = "DEBITED" /\ To(c, "pay")
          <5>1. "pay" \in Pcs
            BY DEF Pcs
          <5>2. \E x : Becomes(c, x) /\ x.pc = "pay" /\ x.key = m
            BY <1>1, <1>2, <4>2, <5>1, Goes
          <5>3. PICK x : Becomes(c, x) /\ x.pc = "pay" /\ x.key = m
            BY <5>2
          <5>4. MoveSound(x)'
            BY <4>2, <5>3 DEF MoveSound
          <5> QED
            BY <5>3, <5>4
        <4> QED
          BY <3>2, <4>1, <4>2
      <3> QED
        BY <1>2, <2>1, <2>3, <3>3, <3>4, WithdrawalTells
    <2>5. CASE Pay(c)
      <3>1. move' = move /\ move[m] \in {"DEBITED", "REVERTED"}
        BY <1>1, <1>2, <2>5 DEF Pay, At, MoveSound
      <3>2. PICK a \in PayoutAnswers(order[m]) :
              /\ order' = [order EXCEPT ![m] = a[1]]
              /\ CASE a[2] = "done" -> To(c, "finish")
                   [] a[2] = "rejected" -> To(c, "revert")
                   [] a[2] = "error" -> Return(c)
        BY <1>2, <2>5 DEF Pay
      <3>3. /\ a[1] \in {"none", "sent", "paid", "failed"} /\ a[2] \in {"done", "rejected", "error"}
            /\ a[2] = "done" => a[1] \in {"sent", "paid"}
            /\ a[2] = "rejected" => a[1] \in {"none", "failed"}
            /\ order[m] \in {"sent", "paid"} => a[1] = order[m]
            /\ order[m] = "failed" => a[1] = "failed" /\ a[2] # "done"
        BY <2>2, Answers
      <3>4. order'[m] = a[1]
        BY <1>1, <2>1, <3>2 DEF Shapes
      <3>5. move[m] = "REVERTED" => order[m] = "failed"
        BY <2>2 DEF OrderSound
      <3>6. OrderSound(m)'
        BY <3>1, <3>3, <3>4, <3>5 DEF OrderSound
      <3>7. \/ a[2] = "done" /\ To(c, "finish")
            \/ a[2] = "rejected" /\ To(c, "revert")
            \/ a[2] = "error" /\ Return(c)
        BY <3>2, <3>3
      <3>8. \E x : Becomes(c, x) /\ MoveSound(x)'
        <4>1. CASE Return(c)
          BY <1>1, <4>1, LeavesTell
        <4>2. ASSUME NEW pc \in {"finish", "revert"}, To(c, pc),
                     pc = "finish" => a[2] = "done", pc = "revert" => a[2] = "rejected"
              PROVE  \E x : Becomes(c, x) /\ MoveSound(x)'
          <5>1. pc \in Pcs
            BY DEF Pcs
          <5>2. \E x : Becomes(c, x) /\ x.pc = pc /\ x.key = m
            BY <1>1, <1>2, <4>2, <5>1, Goes
          <5>3. PICK x : Becomes(c, x) /\ x.pc = pc /\ x.key = m
            BY <5>2
          <5>4. MoveSound(x)'
            BY <3>1, <3>3, <3>4, <3>5, <4>2, <5>3 DEF MoveSound
          <5> QED
            BY <5>3, <5>4
        <4> QED
          BY <3>7, <4>1, <4>2
      <3> QED
        BY <1>2, <2>1, <2>3, <3>6, <3>8, WithdrawalTells
    <2>6. CASE RevertWithdrawalDebit(c)
      <3>1. order' = order /\ order[m] \in {"none", "failed"} /\ Return(c)
        BY <1>1, <1>2, <2>6 DEF RevertWithdrawalDebit, At, MoveSound, payouts
      <3>2. move'[m] = "PENDING" \/ move'[m] = move[m]
        BY <1>1, <1>2, <2>1, <2>6 DEF RevertWithdrawalDebit, Shapes
      <3>3. OrderSound(m)'
        BY <2>2, <3>1, <3>2 DEF OrderSound
      <3>4. \E x : Becomes(c, x) /\ MoveSound(x)'
        BY <1>1, <3>1, LeavesTell
      <3> QED
        BY <1>2, <2>1, <2>3, <3>3, <3>4, WithdrawalTells
    <2>7. CASE MarkCompleted(c)
      <3>1. order' = order /\ order[m] # "none" /\ Return(c)
        BY <1>1, <1>2, <2>7 DEF MarkCompleted, At, MoveSound, payouts
      <3>2. move'[m] = "COMPLETED"
        BY <1>1, <1>2, <2>1, <2>7 DEF MarkCompleted, Shapes
      <3>3. OrderSound(m)'
        BY <3>1, <3>2 DEF OrderSound
      <3>4. \E x : Becomes(c, x) /\ MoveSound(x)'
        BY <1>1, <3>1, LeavesTell
      <3> QED
        BY <1>2, <2>1, <2>3, <3>3, <3>4, WithdrawalTells
    <2> QED
      BY <1>5, <2>4, <2>5, <2>6, <2>7
  <1> QED
    BY <1>3, <1>4, <1>5 DEF MoveStep

\* What the rail decides and what is told afterwards fits the row.
LEMMA RailTells ==
  ASSUME BooksInv, OrdersSound, MovesSound, NEW m \in Withdrawals,
         RailDecides(m) \/ WithdrawalFailed(m)
  PROVE  OrdersSound' /\ MovesSound'
  <1>1. Shapes /\ m \in Moves
    BY DEF BooksInv, Moves
  <1>2. /\ \A w \in Withdrawals \ {m} : move'[w] = move[w] /\ order'[w] = order[w]
        /\ call' = call
        /\ \/ order[m] = "sent" /\ order'[m] \in {"paid", "failed"} /\ move'[m] = move[m]
           \/ order[m] = "failed" /\ order'[m] = order[m]
              /\ (move'[m] = move[m] \/ (move[m] = "COMPLETED" /\ move'[m] = "REVERTED"))
    BY <1>1 DEF RailDecides, WithdrawalFailed, Shapes, Moves
  <1>3. OrdersSound'
    <2>1. ASSUME NEW w \in Withdrawals PROVE OrderSound(w)'
      <3>1. OrderSound(w)
        BY DEF OrdersSound
      <3>2. CASE w = m
        BY <1>2, <3>1, <3>2 DEF OrderSound
      <3>3. CASE w # m
        BY <1>2, <3>1, <3>3 DEF OrderSound
      <3> QED
        BY <3>2, <3>3
    <2> QED
      BY <2>1 DEF OrdersSound
  <1>4. ASSUME NEW d \in Calls PROVE MoveSound(call[d])'
    <2>1. PICK y : y = call[d]
      OBVIOUS
    <2>2. MoveSound(y) /\ CallSound(y) /\ call'[d] = y
      BY <1>2, <2>1 DEF MovesSound, MoveSound, BooksInv, CallSound
    <2>3. CASE y.pc \in {"debit", "pay", "revert", "finish"}
      <3>1. y.key \in Withdrawals
        BY <2>2, <2>3 DEF CallSound
      <3>2. MoveSound(y)'
        <4>1. CASE y.key = m
          BY <1>2, <2>2, <4>1 DEF MoveSound
        <4>2. CASE y.key # m
          BY <1>2, <2>2, <3>1, <4>2 DEF MoveSound
        <4> QED
          BY <4>1, <4>2
      <3> QED
        BY <2>2, <3>2 DEF MoveSound
    <2>4. CASE y.pc \notin {"debit", "pay", "revert", "finish"}
      BY <2>2, <2>4 DEF MoveSound
    <2> QED
      BY <2>3, <2>4
  <1> QED
    BY <1>3, <1>4 DEF MovesSound

\* Every step keeps rows, orders and calls in keeping.
LEMMA NextTells ==
  ASSUME BooksInv, OrdersSound, MovesSound, OneAttempt, Next
  PROVE  OrdersSound' /\ MovesSound'
  <1>1. CASE LoanWritesOff \/ \E k \in Repayments : LoanRecords(k)
    <2>1. move' = move /\ order' = order /\ call' = call
      BY <1>1 DEF LoanWritesOff, LoanRecords, payouts
    <2> QED
      BY <2>1, UnturnedTell
  <1>2. ASSUME NEW c \in LoanCalls, LoanStep(c) PROVE OrdersSound' /\ MovesSound'
    <2>1. c \in Calls
      BY DEF Calls
    <2> QED
      BY <1>2, <2>1, LoanStepTells
  <1>3. ASSUME NEW c \in MoveCalls, MoveStep(c) PROVE OrdersSound' /\ MovesSound'
    <2>1. c \in Calls
      BY DEF Calls
    <2> QED
      BY <1>3, <2>1, MoveStepTells
  <1>4. CASE \E m \in Withdrawals : RailDecides(m) \/ WithdrawalFailed(m)
    BY <1>4, RailTells
  <1>5. ASSUME NEW c \in Calls, Die(c) PROVE OrdersSound' /\ MovesSound'
    <2>1. Return(c) /\ move' = move /\ order' = order
      BY <1>5 DEF Die, payouts
    <2>2. Shapes
      BY DEF BooksInv
    <2>3. \E x : Becomes(c, x) /\ MoveSound(x)'
      BY <2>1, <2>2, LeavesTell
    <2> QED
      BY <2>1, <2>3, UnturnedTell
  <1> QED
    BY <1>1, <1>2, <1>3, <1>4, <1>5 DEF Next

-----------------------------------------------------------------------------
(* What is shown of the money *)

\* A loan just disbursed is covered by what is reserved for it.
LEMMA InitMoney ==
  ASSUME Init
  PROVE  MoneyInv
  <1>1. \A i, ms, sts : "NONE" \notin sts /\ ms \in SUBSET Moves => Moved(i, ms, sts) = 0
    <2> SUFFICES ASSUME NEW i, NEW sts, NEW ms \in SUBSET Moves, "NONE" \notin sts
                 PROVE  Moved(i, ms, sts) = 0
      OBVIOUS
    <2>1. {m \in ms : Of[m] = i /\ move[m] \in sts} = {}
      BY DEF Init
    <2> QED
      BY <2>1, TotalEmpty DEF Moved
  <1>2. \A i \in Investors : ToInvestor(i, References) = 0
    <2>1. References \intersect applied = {}
      BY DEF Init
    <2> QED
      BY <2>1, TotalEmpty DEF ToInvestor
  <1>3. \A i \in Investors : Part(i, share["loss"]) = 0
    <2> TAKE i \in Investors
    <2>1. IsFiniteSet(Behind(i)) /\ \A t \in Behind(i) : share["loss"][t] = 0
      BY TranchesAreFinite DEF Init, Idle, Behind
    <2> QED
      BY <2>1, TotalNone DEF Part
  <1>4. CapitalIsAccounted
    <2> SUFFICES ASSUME NEW i \in Investors
                 PROVE  /\ avail[i] = Opening[i] + Moved(i, Deposits, {"COMPLETED"})
                             - Moved(i, Withdrawals, {"DEBITED", "COMPLETED"})
                             + ToInvestor(i, References) - Part(i, share["loss"])
                        /\ res[i] <= avail[i]
      BY DEF CapitalIsAccounted
    <2>1. Deposits \in SUBSET Moves /\ Withdrawals \in SUBSET Moves
      BY DEF Moves
    <2>2. Moved(i, Deposits, {"COMPLETED"}) = 0 /\ Moved(i, Withdrawals, {"DEBITED", "COMPLETED"}) = 0
      BY <1>1, <2>1
    <2>3. avail[i] = Opening[i] /\ res[i] = Elsewhere[i] + Backing(i)
      BY DEF Init
    <2>4. Opening[i] \in Nat /\ Elsewhere[i] + Backing(i) <= Opening[i]
      BY AccountAssumption
    <2> QED
      BY <1>2, <1>3, <2>2, <2>3, <2>4
  <1>5. Backed
    <2> SUFFICES ASSUME NEW t \in Tranches, Owner[t] \in Investors
                 PROVE  Floor0(Lent[t] - tranche[t].repaid - tranche[t].loss) <= res[Owner[t]]
      BY DEF Backed, Exposure
    <2>1. Behind(Owner[t]) = {t} /\ Lent[t] \in Nat
      BY LoanAssumption, AccountAssumption DEF Behind
    <2>2. Backing(Owner[t]) = Lent[t]
      BY <2>1, TotalOne DEF Backing
    <2>3. res[Owner[t]] = Elsewhere[Owner[t]] + Lent[t] /\ Elsewhere[Owner[t]] \in Nat
      BY <2>2, AccountAssumption DEF Init
    <2>4. tranche[t].repaid = 0 /\ tranche[t].loss = 0
      BY DEF Init
    <2> QED
      BY <2>1, <2>3, <2>4 DEF Floor0
  <1>6. OrdersSound
    BY DEF Init, OrdersSound, OrderSound, Moves
  <1>7. MovesSound
    BY DEF Init, MovesSound, MoveSound, Idle
  <1> QED
    BY <1>4, <1>5, <1>6, <1>7 DEF MoneyInv, Capital

\* A step that changes nothing leaves the money alone.
LEMMA StutterMoney ==
  ASSUME BooksInv, MoneyInv, UNCHANGED vars
  PROVE  MoneyInv'
  <1>1. UNCHANGED <<rows, account, move>> /\ move' = move /\ order' = order /\ call' = call
    BY DEF vars, payouts
  <1>2. Capital'
    BY <1>1, CapitalRests DEF MoneyInv
  <1>3. OrdersSound' /\ MovesSound'
    BY <1>1, UnturnedTell DEF MoneyInv
  <1> QED
    BY <1>2, <1>3 DEF MoneyInv

\* The money follows the rows, while attempts on a withdrawal come one at a time.
THEOREM MoneyIsKept == Spec /\ []OneAttempt => [](BooksInv /\ MoneyInv)
  <1>1. Init => BooksInv /\ MoneyInv
    BY InitBooks, InitMoney
  <1>2. BooksInv /\ MoneyInv /\ OneAttempt /\ [Next]_vars => BooksInv' /\ MoneyInv'
    <2> SUFFICES ASSUME BooksInv, MoneyInv, OneAttempt, [Next]_vars
                 PROVE  BooksInv' /\ MoneyInv'
      OBVIOUS
    <2>1. CASE Next
      <3>1. BooksInv'
        BY <2>1, NextBooks
      <3>2. Capital /\ OrdersSound /\ MovesSound
        BY DEF MoneyInv
      <3>3. Capital'
        BY <2>1, <3>2, NextCapital
      <3>4. OrdersSound' /\ MovesSound'
        BY <2>1, <3>2, NextTells
      <3> QED
        BY <3>1, <3>3, <3>4 DEF MoneyInv
    <2>2. CASE UNCHANGED vars
      BY <2>2, StutterBooks, StutterMoney
    <2> QED
      BY <2>1, <2>2
  <1> QED
    BY <1>1, <1>2, PTL DEF Spec

\* An investor's capital is what was put in and earned, less what was lost for
\* good and what left or is leaving, and what is lent out is never withdrawn: for
\* every loan, any number of investors and movements, with every repayment, loss
\* and recovery delivered at any time, while attempts on one withdrawal run one
\* at a time.
THEOREM CapitalStaysAccounted == Spec /\ []OneAttempt => []CapitalIsAccounted
  <1>1. BooksInv /\ MoneyInv => CapitalIsAccounted
    BY DEF MoneyInv, Capital
  <1> QED
    BY <1>1, MoneyIsKept, PTL

\* A settled share has all its legs on the ledger and there is no leg without its
\* row; money that is out at the rail left the investor's balance, and a complete
\* withdrawal went out, under the same condition.
THEOREM TheRowsStayTrue == Spec /\ []OneAttempt => []RowsTellTheMoney
  <1>1. BooksInv /\ MoneyInv => RowsTellTheMoney
    BY DEF MoneyInv, OrdersSound, OrderSound, BooksInv, LegsSound, RowsTellTheMoney
  <1> QED
    BY <1>1, MoneyIsKept, PTL
=============================================================================
