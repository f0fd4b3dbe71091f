-------------------------- MODULE PaymentAllocation --------------------------
(***************************************************************************)
(* apps/operations: received payments matched to their owner and allocated. *)
(* A group member's payment moves into the member's suspense and from there *)
(* pays the member's obligations in priority order; an individual's payment *)
(* is booked whole onto their loan, or deposited to their savings or        *)
(* investor account. The obligations here are those of one member, numbered *)
(* in the order the buckets and deadlines take them.                        *)
(*                                                                         *)
(* A run is one AllocatePayment or applySuspensePayment: it holds the        *)
(* payment's lease and is cut at every database call. A lease of a run that *)
(* died lapses, and so may that of a run which is only slow.                *)
(***************************************************************************)
EXTENDS Integers, FiniteSets, Sums

CONSTANTS
  Payments, Runs,
  Amount,        \* [Payments -> minor units]
  MayOwn,        \* [Payments -> owners that identification may find]
  Obligations,   \* 1..n
  Owed,          \* [Obligations -> minor units]
  Late,          \* the obligations raised only after payments came in
  MaxLapses,     \* bound: runs that outlive their lease
  MaxFaults      \* bound: deaths and failed calls

\* A member's membership, a borrower's loan, a savings or investor account.
Owners == {"member", "loan", "account"}

ASSUME AmountAssumption ==
  /\ IsFiniteSet(Payments) /\ IsFiniteSet(Obligations)
  /\ Obligations \subseteq Nat \ {0} /\ Late \subseteq Obligations
  /\ \A p \in Payments : Amount[p] \in Nat \ {0} /\ MayOwn[p] \subseteq Owners
  /\ \A o \in Obligations : Owed[o] \in Nat \ {0}
ASSUME NameAssumption == "free" \notin Runs
ASSUME BoundAssumption == MaxLapses \in Nat /\ MaxFaults \in Nat

VARIABLES
  row,      \* incoming_payments: owner, state, recorded remainder and lease
  owed,     \* obligations.amount, and which obligations are raised
  order,    \* transfer_orders "payment:p:obligation:o"
  landing,  \* the order or deposit that takes the whole payment in
  run,      \* the allocation runs under way
  exceeded, \* payments of which a run finished an order at more than it had left
  overrun,  \* payments of which a run outlived its lease
  torn,     \* <<payment, obligation>>: orders a run raised, and neither debited nor parked
  lapses, faults

vars == <<row, owed, order, landing, run, exceeded, overrun, torn, lapses, faults>>
past == <<exceeded, overrun, torn, lapses>>

Unknown == -1
NoOrder == [amt |-> 0, st |-> "none", consumed |-> FALSE]
Idle == [pc |-> "idle", pay |-> 0, suspense |-> FALSE, left |-> 0,
         seen |-> [o \in Obligations |-> 0], next |-> 0, amt |-> 0, done |-> {}]

Init ==
  /\ row = [p \in Payments |-> [owner |-> "none", st |-> "new", left |-> Unknown,
                                lease |-> "free"]]
  /\ owed = [o \in Obligations |-> IF o \in Late THEN Unknown ELSE Owed[o]]
  /\ order = [p \in Payments |-> [o \in Obligations |-> NoOrder]]
  /\ landing = [p \in Payments |-> "none"]
  /\ run = [r \in Runs |-> Idle]
  /\ exceeded = {} /\ overrun = {} /\ torn = {} /\ lapses = MaxLapses /\ faults = MaxFaults

At(r, pc) == run[r].pc = pc
To(r, pc) == run' = [run EXCEPT ![r].pc = pc]
Fault == faults > 0 /\ faults' = faults - 1
Pay(r) == run[r].pay
Least(a, b) == IF a < b THEN a ELSE b
AtLeast0(n) == IF n > 0 THEN n ELSE 0

\* SumConsumedObligationOrders.
Spent(p) ==
  Total([o \in Obligations |-> order[p][o].amt], {o \in Obligations : order[p][o].consumed})

\* resolvePaymentState.
Resolved(p, left) ==
  IF left = 0 THEN "full" ELSE IF left < Amount[p] THEN "partial" ELSE "unallocated"

\* allocatableRemainder.
Remainder(p) ==
  IF row[p].left # Unknown THEN row[p].left
  ELSE IF row[p].st = "new" THEN Amount[p] ELSE Unknown

------------------------------------------------------------------------------
(* Identification *)

\* IdentifyPayment and AssignPayment: AssignOwner lands only on a payment that
\* nobody matched, allocated or leases.
AssignOwner(p, owner) ==
  /\ row[p].owner = "none" /\ row[p].st = "new" /\ row[p].lease = "free"
  /\ row' = [row EXCEPT ![p].owner = owner]
  /\ UNCHANGED <<owed, order, landing, run, past, faults>>

------------------------------------------------------------------------------
(* A run *)

\* The lease p has is free, or has lapsed under a run that still goes on.
Claimable(p) ==
  \/ row[p].lease = "free" /\ UNCHANGED <<overrun, lapses>>
  \/ /\ row[p].lease \in Runs /\ lapses > 0
     /\ overrun' = overrun \union {p} /\ lapses' = lapses - 1

\* ClaimAllocation, for AllocatePayment (called at identification, by staff,
\* by SettleMember and by the settle job) or for ApplySuspense.
Claim(r, p, suspense) ==
  /\ At(r, "idle") /\ row[p].owner # "none" /\ row[p].st # "full"
  /\ suspense => row[p].owner = "member" /\ row[p].left > 0
  /\ Claimable(p)
  /\ row' = [row EXCEPT ![p].lease = r]
  /\ run' = [run EXCEPT ![r] = [Idle EXCEPT !.pay = p, !.suspense = suspense,
                !.left = Remainder(p), !.pc = IF suspense THEN "paid" ELSE "land"]]
  /\ UNCHANGED <<owed, order, landing, exceeded, torn, faults>>

\* fundMemberSuspense and allocateToBorrowerLoan raise an order to be posted;
\* allocateToSavings and allocateToInvestor have the deposit recorded at once.
\* Each is keyed on the payment. An individual's payment is then all spent.
Land(r) ==
  /\ At(r, "land")
  /\ landing' = [landing EXCEPT ![Pay(r)] =
       IF row[Pay(r)].owner = "account" THEN "posted"
       ELSE IF @ = "none" THEN "raised" ELSE @]
  /\ IF row[Pay(r)].owner = "member"
       THEN To(r, "owed")
       ELSE run' = [run EXCEPT ![r].pc = "walk", ![r].left = 0]
  /\ UNCHANGED <<row, owed, order, past, faults>>

\* GetByMembershipID: what is active, as it is when read.
ReadOwed(r) ==
  /\ At(r, "owed")
  /\ run' = [run EXCEPT ![r].pc = IF run[r].suspense THEN "walk" ELSE "paid",
                        ![r].seen = [o \in Obligations |-> AtLeast0(owed[o])]]
  /\ UNCHANGED <<row, owed, order, landing, past, faults>>

\* Mutant: what a stopped run paid and did not record is spent again.
ReadPaidIgnored(r) ==
  /\ At(r, "paid")
  /\ To(r, IF run[r].suspense THEN "owed" ELSE "walk")
  /\ UNCHANGED <<row, owed, order, landing, past, faults>>

\* Mutant: it comes off a remainder that already leaves it out.
ReadPaidTwice(r) ==
  /\ At(r, "paid")
  /\ run' = [run EXCEPT ![r].left = AtLeast0(@ - Spent(Pay(r))),
                        ![r].pc = IF run[r].suspense THEN "owed" ELSE "walk"]
  /\ UNCHANGED <<row, owed, order, landing, past, faults>>

\* What the payment's orders already paid comes off what this run may spend. A
\* suspense run with nothing to spend and nothing to correct gives its lease
\* back.
ReadPaid(r) ==
  /\ At(r, "paid")
  /\ LET spendable == AtLeast0(Least(run[r].left, Amount[Pay(r)] - Spent(Pay(r))))
     IN run' = [run EXCEPT ![r].left = spendable,
                           ![r].pc = IF run[r].suspense THEN "owed" ELSE "walk"]
  /\ UNCHANGED <<row, owed, order, landing, past, faults>>

\* The obligation the buckets come to next, if any.
Open(r) == {o \in Obligations : run[r].seen[o] > 0}
AtObligation(r, o) == run[r].left > 0 /\ o \in Open(r) /\ o = Min(Open(r))

Portion(r, o) == Least(run[r].seen[o], run[r].left)

\* The runs once r is through with the obligation it is at.
Passed(r) == [run EXCEPT ![r].pc = "walk", ![r].seen[run[r].next] = 0,
                         ![r].next = 0, ![r].amt = 0]

\* allocateObligation up to the transaction. CreateIfAbsent answers with the row
\* that has the reference: a parked order is passed over, a consumed one is
\* reported and not counted, an unfinished one is finished at its own amount.
WriteOrder(r, o) ==
  /\ At(r, "walk") /\ AtObligation(r, o)
  /\ LET p == Pay(r)
         was == order[p][o]
     IN /\ CASE was.st = "none" ->
                  /\ order' = [order EXCEPT ![p][o] =
                       [amt |-> Portion(r, o), st |-> "raised", consumed |-> FALSE]]
                  /\ run' = [run EXCEPT ![r].pc = "consume", ![r].next = o,
                                        ![r].amt = Portion(r, o)]
             [] was.st = "parked" ->
                  /\ run' = [run EXCEPT ![r].seen[o] = 0] /\ UNCHANGED order
             [] was.st \in {"raised", "posted"} /\ was.consumed ->
                  /\ run' = [run EXCEPT ![r].seen[o] = 0, ![r].done = @ \union {o}]
                  /\ UNCHANGED order
             [] was.st \in {"raised", "posted"} /\ ~was.consumed ->
                  /\ run' = [run EXCEPT ![r].pc = "consume", ![r].next = o,
                                        ![r].amt = was.amt]
                  /\ UNCHANGED order
        /\ exceeded' = IF was.st \in {"raised", "posted"} /\ ~was.consumed
                             /\ was.amt > Portion(r, o) /\ p \notin overrun
                          THEN exceeded \union {p} ELSE exceeded
  /\ UNCHANGED <<row, owed, landing, overrun, torn, lapses, faults>>

\* The order could not be written: the obligation is passed over.
WriteFails(r, o) ==
  /\ At(r, "walk") /\ AtObligation(r, o) /\ Fault
  /\ run' = [run EXCEPT ![r].seen[o] = 0]
  /\ UNCHANGED <<row, owed, order, landing, past>>

\* Mutant: the debit does not look at what is left of the obligation.
ConsumeBlind(r) ==
  /\ At(r, "consume")
  /\ LET p == Pay(r)
         o == run[r].next
     IN /\ owed' = [owed EXCEPT ![o] = AtLeast0(@ - run[r].amt)]
        /\ order' = [order EXCEPT ![p][o].consumed = TRUE]
        /\ run' = [Passed(r) EXCEPT ![r].left = @ - Portion(r, o),
                                    ![r].done = @ \union {o}]
  /\ UNCHANGED <<row, landing, past, faults>>

\* ConsumeObligationForOrder: the obligation is debited and the order marked, or
\* neither. The run counts the portion it worked out, whatever the order says.
Consume(r) ==
  /\ At(r, "consume")
  /\ LET p == Pay(r)
         o == run[r].next
     IN IF owed[o] >= run[r].amt /\ ~order[p][o].consumed
          THEN /\ owed' = [owed EXCEPT ![o] = @ - run[r].amt]
               /\ order' = [order EXCEPT ![p][o].consumed = TRUE]
               /\ run' = [Passed(r) EXCEPT ![r].left = @ - Portion(r, o),
                                           ![r].done = @ \union {o}]
          ELSE To(r, "park") /\ UNCHANGED <<owed, order>>
  /\ UNCHANGED <<row, landing, past, faults>>

\* A transaction that fails changes nothing.
ConsumeFails(r) ==
  /\ At(r, "consume") /\ Fault /\ To(r, "park")
  /\ UNCHANGED <<row, owed, order, landing, past>>

\* MarkFailedIfUnposted: the order never executes, unless it already has.
Park(r) ==
  /\ At(r, "park")
  /\ order' = [order EXCEPT ![Pay(r)][run[r].next].st =
                 IF @ = "raised" THEN "parked" ELSE @]
  /\ run' = Passed(r)
  /\ UNCHANGED <<row, owed, landing, past, faults>>

\* The order a run is at, if it stops there or goes on without it.
Abandons(r) ==
  torn' = IF At(r, "consume") \/ At(r, "park")
            THEN torn \union {<<Pay(r), run[r].next>>} ELSE torn

\* An order that could not be parked is logged and passed over.
ParkFails(r) ==
  /\ At(r, "park") /\ Fault
  /\ run' = Passed(r) /\ Abandons(r)
  /\ UNCHANGED <<row, owed, order, landing, exceeded, overrun, lapses>>

\* SetAllocationOutcome of a run that is through, fenced by the lease.
Record(r) ==
  /\ At(r, "walk") /\ (run[r].left = 0 \/ Open(r) = {})
  /\ row' = IF row[Pay(r)].lease = r
              THEN [row EXCEPT ![Pay(r)].st = Resolved(Pay(r), run[r].left),
                      ![Pay(r)].left = run[r].left, ![Pay(r)].lease = "free"]
              ELSE row
  /\ run' = [run EXCEPT ![r] = [Idle EXCEPT !.pay = Pay(r), !.pc = "post",
                          !.suspense = run[r].suspense, !.done = run[r].done]]
  /\ UNCHANGED <<owed, order, landing, past, faults>>

\* The orders left to post, or none: the run ends.
Posting(r, left) ==
  run' = [run EXCEPT ![r] = IF left = {} THEN Idle
                            ELSE [@ EXCEPT !.pc = "orders", !.done = left]]

\* executeMemberOrders, executeRepayment: what takes the payment in posts first.
\* A suspense run takes that as done.
PostLanding(r) ==
  /\ At(r, "post")
  /\ landing' = IF run[r].suspense THEN landing
                ELSE [landing EXCEPT ![Pay(r)] = "posted"]
  /\ Posting(r, run[r].done)
  /\ UNCHANGED <<row, owed, order, past, faults>>

PostOrder(r) ==
  /\ At(r, "orders")
  /\ LET o == Min(run[r].done)
     IN /\ order' = [order EXCEPT ![Pay(r)][o].st = IF @ = "raised" THEN "posted" ELSE @]
        /\ Posting(r, run[r].done \ {o})
  /\ UNCHANGED <<row, owed, landing, past, faults>>

\* An execution the ledger refuses leaves its order to the settle job, and the
\* others too when it was what takes the payment in.
PostFails(r) ==
  /\ Fault
  /\ \/ At(r, "post") /\ run' = [run EXCEPT ![r] = Idle]
     \/ At(r, "orders") /\ Posting(r, run[r].done \ {Min(run[r].done)})
  /\ UNCHANGED <<row, owed, order, landing, past>>

\* A landing or a read that fails: the lease is given back.
Release(r) ==
  /\ \E pc \in {"land", "owed", "paid"} : At(r, pc)
  /\ Fault
  /\ row' = IF row[Pay(r)].lease = r THEN [row EXCEPT ![Pay(r)].lease = "free"] ELSE row
  /\ run' = [run EXCEPT ![r] = Idle]
  /\ UNCHANGED <<owed, order, landing, past>>

\* The process dies; the lease it leaves behind lapses in its time.
Die(r) ==
  /\ ~At(r, "idle") /\ Fault
  /\ row' = IF row[Pay(r)].lease = r THEN [row EXCEPT ![Pay(r)].lease = "free"] ELSE row
  /\ run' = [run EXCEPT ![r] = Idle] /\ Abandons(r)
  /\ UNCHANGED <<owed, order, landing, exceeded, overrun, lapses>>

------------------------------------------------------------------------------
(* Obligations raised late, and the settle job *)

\* RaiseGroupObligations, CreateLoanObligations, raisePenalty.
Raise(o) ==
  /\ owed[o] = Unknown
  /\ owed' = [owed EXCEPT ![o] = Owed[o]]
  /\ UNCHANGED <<row, order, landing, run, past, faults>>

\* ListUnexecutedAllocations leaves alone an order that was touched lately: one
\* that a run has just raised, not one that it takes up from a run before it.
Rests(p, o) ==
  \/ p \in overrun \/ <<p, o>> \in torn
  \/ ~\E r \in Runs : /\ At(r, "consume") \/ At(r, "park")
                     /\ Pay(r) = p /\ run[r].next = o

SettleLanding(p) ==
  /\ landing[p] = "raised"
  /\ landing' = [landing EXCEPT ![p] = "posted"]
  /\ UNCHANGED <<row, owed, order, run, past, faults>>

\* memberSuspenseFunded: an obligation order posts once its payment's landing
\* has, whether or not its obligation was consumed.
SettleOrder(p, o) ==
  /\ order[p][o].st = "raised" /\ landing[p] = "posted" /\ Rests(p, o)
  /\ order' = [order EXCEPT ![p][o].st = "posted"]
  /\ UNCHANGED <<row, owed, landing, run, past, faults>>

------------------------------------------------------------------------------
Step(r) ==
  \/ Land(r) \/ ReadOwed(r) \/ ReadPaid(r) \/ Consume(r) \/ Park(r)
  \/ \E o \in Obligations : WriteOrder(r, o) \/ WriteFails(r, o)
  \/ Record(r) \/ PostLanding(r) \/ PostOrder(r)
  \/ ConsumeFails(r) \/ ParkFails(r) \/ PostFails(r) \/ Release(r) \/ Die(r)

Next ==
  \/ \E p \in Payments : \E owner \in MayOwn[p] : AssignOwner(p, owner)
  \/ \E r \in Runs, p \in Payments, s \in BOOLEAN : Claim(r, p, s)
  \/ \E r \in Runs : Step(r)
  \/ \E o \in Obligations : Raise(o)
  \/ \E p \in Payments : SettleLanding(p) \/ \E o \in Obligations : SettleOrder(p, o)

Spec == Init /\ [][Next]_vars

------------------------------------------------------------------------------
(* Properties *)

Pcs == {"idle", "land", "owed", "paid", "walk", "consume", "park", "post", "orders"}

\* Rows, orders and runs are well typed.
TypeOK ==
  /\ row \in [Payments -> [owner : {"none"} \union Owners,
                st : {"new", "unallocated", "partial", "full"},
                left : Int, lease : {"free"} \union Runs]]
  /\ \A p \in Payments : row[p].left \in Unknown..Amount[p]
  /\ \A o \in Obligations : owed[o] \in Unknown..Owed[o]
  /\ \A p \in Payments, o \in Obligations :
       /\ order[p][o].amt \in 0..Owed[o]
       /\ order[p][o].st \in {"none", "raised", "posted", "parked"}
  /\ landing \in [Payments -> {"none", "raised", "posted"}]
  /\ \A r \in Runs : ~At(r, "idle") =>
       run[r].pc \in Pcs /\ Pay(r) \in Payments /\ run[r].left \in 0..Amount[Pay(r)]
  /\ overrun \subseteq Payments /\ lapses \in 0..MaxLapses /\ faults \in 0..MaxFaults

\* What the payments have paid on an obligation.
Taken(o) ==
  Total([p \in Payments |-> order[p][o].amt], {p \in Payments : order[p][o].consumed})

\* payment_routing.go:1167-1172, transfer_order_repo.go:108-119: whatever runs
\* overlap, retry or die, what an obligation has lost is what its consumed
\* orders say, so no obligation is paid twice and no order counts for nothing.
\* An order parked as never to execute is not one of them, on a payment whose
\* runs kept their lease.
ObligationPaidOnce ==
  /\ TypeOK
  /\ \A o \in Obligations \ {k \in Late : owed[k] = Unknown} :
       owed[o] + Taken(o) = Owed[o]
  /\ \A p \in Payments \ overrun, o \in Obligations :
       order[p][o].st = "parked" => ~order[p][o].consumed

\* What leaves the member's suspense for p: the orders that took from their
\* obligation, and those that posted whether they did or not.
PaidOut(p) ==
  Total([o \in Obligations |-> order[p][o].amt],
        {o \in Obligations : order[p][o].consumed \/ order[p][o].st = "posted"})

\* payment_routing.go:929-940: what a stopped run paid and did not record is not
\* spent again, so the obligations a payment paid come to no more than came in, if
\* its runs kept their lease and finished no order at more than they had left. No
\* more leaves suspense either, unless a run stopped on an order it had raised, or
\* could not park it: the settle job posts what was raised, debited or not
\* (ListUnexecutedAllocations), and the obligation of that order still stands, so
\* that the same money may pay another.
SpentWithinPayment ==
  \A p \in Payments \ (exceeded \union overrun) :
    /\ Spent(p) <= Amount[p]
    /\ (\A o \in Obligations : <<p, o>> \notin torn) => PaidOut(p) <= Amount[p]

\* payment_suspense.go:28-45: the remainder recorded on a payment nobody is
\* allocating never leaves out money, as long as its runs kept their lease:
\* what no obligation took is still there to be applied to the next one.
NothingIsStranded ==
  \A p \in Payments \ overrun :
    row[p].owner = "member" /\ row[p].left # Unknown =>
      row[p].left + Spent(p) >= Amount[p]
=============================================================================
