---------------------------- MODULE TransferOrder ----------------------------
(***************************************************************************)
(* A payout order of apps/operations (business/transfer_order.go,           *)
(* payout_recipient.go, payout_reconcile.go): concurrent executions of one  *)
(* order and of its reversal, statement by statement, against the ledger    *)
(* and the payment rail, with the limits gate (pkg/limits/gate.go) around   *)
(* Execute, the reconcile job, RecordFailure, crashes and failed statements. *)
(*                                                                         *)
(* A job is one call: Execute, ReconcilePayout, RecordFailure or            *)
(* NotifyOriginator. `row` holds the two rows of transfer_orders, `booked`  *)
(* what the ledger has posted (it dedupes on the order id), `rail` the      *)
(* payments the rail was handed under the order's reference.                *)
(***************************************************************************)
EXTENDS Integers, FiniteSets

CONSTANTS
  Jobs,          \* calls that may be under way at a time
  MaxSends,      \* bound: payments the rail may be handed
  StaleAfter,    \* staleExecutionAfter, and the reconcile job's settleAfter
  Grace,         \* payoutConfirmationGrace
  MaxTime,       \* bound: the clock
  MaxFaults,     \* bound: failed statements and crashes
  None           \* no time, no payment

ASSUME TimesAssumption ==
  /\ StaleAfter \in Nat /\ Grace \in Nat \ {0} /\ MaxTime \in Nat /\ MaxFaults \in Nat
  /\ StaleAfter <= Grace
ASSUME SendsAssumption == MaxSends \in Nat
ASSUME NoneAssumption == None \notin Nat

VARIABLES
  now,      \* the database clock, in ticks
  row,      \* the payout order and its reversal in transfer_orders
  booked,   \* orders whose ledger transaction exists
  rail,     \* each payment at the payment service, and the claim it was sent under
  hold,     \* the limits reservation of "operations_transfer:<id>"
  told,     \* the originator knows its payout failed
  job,      \* the calls under way
  faults    \* failed statements and crashes left

vars == <<now, row, booked, rail, hold, told, job, faults>>

Orders == {"payout", "reversal"}
Payments == 1..MaxSends      \* the payment ids, in the order they are given
Times == 0..MaxTime
Outcomes == {"", "pending", "confirmed", "failed"}
PaymentStates == {"none", "queued", "taken", "paid", "failed"}

Row ==
  [state : {"absent", "created", "executing", "done", "shut"},
   posted : BOOLEAN, initiated : Times \union {None},
   payment : Payments \union {None}, outcome : Outcomes,
   notified : BOOLEAN, modified : Times]

Job ==
  [pc : {"idle", "reserve", "load", "claim", "inspect", "resume", "post", "mark",
         "pay", "unsendable", "send", "record", "outcome", "rejected", "reload",
         "lookup", "retake", "complete", "release", "reverse", "close",
         "commit", "unhold", "reconcile", "ask", "shut", "tell", "notified"},
   call : {"execute", "reconcile", "fail", "notify"},
   order : Orders,                  \* the row being executed
   posted : BOOLEAN,                \* order.LedgerPosted() as read
   failed : BOOLEAN,                \* order.PayoutFailed(), or ErrPayoutFailed
   before : Times \union {None},    \* staleBefore, or the observed claim time
   payment : Payments \union {None},
   paid : BOOLEAN]                  \* the rail answered STATUS_SUCCESSFUL

Idle ==
  [pc |-> "idle", call |-> "execute", order |-> "payout", posted |-> FALSE,
   failed |-> FALSE, before |-> None, payment |-> None, paid |-> FALSE]

NewRow(state) ==
  [state |-> state, posted |-> FALSE, initiated |-> None, payment |-> None,
   outcome |-> "", notified |-> FALSE, modified |-> now]

Landed == {i \in Payments : rail[i].state # "none"}
Visible == {i \in Landed : rail[i].state # "queued"}

Init ==
  /\ now = 0
  /\ row = [o \in Orders |-> NewRow(IF o = "payout" THEN "created" ELSE "absent")]
  /\ booked = {}
  /\ rail = [i \in Payments |-> [state |-> "none", claimed |-> None]]
  /\ hold \in {"off", "none"}
  /\ told = FALSE
  /\ job = [p \in Jobs |-> Idle]
  /\ faults = MaxFaults

------------------------------------------------------------------------------
(* Where a job goes when a call ends *)

To(p, j) == job' = [job EXCEPT ![p] = j]
At(p, pc) == job[p].pc = pc
Write(o, r) == row' = [row EXCEPT ![o] = [r EXCEPT !.modified = now]]

\* Mutant: the hold is committed whatever the handler said.
CommitAlways(j, ok) ==
  IF j.call = "execute" /\ hold # "off" THEN [Idle EXCEPT !.pc = "commit"] ELSE Idle

\* Execute is done with the handler: Gate commits or releases the hold.
Leave(j, ok) ==
  IF j.call = "execute" /\ hold # "off"
    THEN [Idle EXCEPT !.pc = IF ok THEN "commit" ELSE "unhold"]
    ELSE Idle

\* executeInner returns, to reverseRejectedPayout when it ran the reversal.
Ended(j, ok) ==
  IF j.order = "payout" THEN Leave(j, ok)
  ELSE IF ok THEN [j EXCEPT !.order = "payout", !.pc = "close"]
  ELSE Leave(j, FALSE)

\* An error after the claim: releaseExecution, then failSideEffect. The error
\* is ErrPayoutFailed or any other.
Fail(j, payoutFailed) == [j EXCEPT !.pc = "release", !.failed = payoutFailed]

------------------------------------------------------------------------------
(* Calls *)

Start(p, call, pc) ==
  /\ At(p, "idle")
  /\ To(p, [Idle EXCEPT !.call = call, !.pc = pc])
  /\ UNCHANGED <<now, row, booked, rail, hold, told, faults>>

\* A caller may drive the order any number of times with one reference.
StartExecute(p) == Start(p, "execute", IF hold = "off" THEN "load" ELSE "reserve")

\* ListPayoutsToReconcile.
StartReconcile(p) ==
  /\ row["payout"].initiated # None
  /\ row["payout"].initiated <= now - StaleAfter
  /\ row["payout"].outcome \in {"", "pending"}
  /\ Start(p, "reconcile", "reconcile")

\* ListLateFailedPayouts.
StartNotify(p) ==
  /\ row["payout"].outcome = "failed" /\ row["payout"].state = "done"
  /\ ~row["payout"].notified
  /\ Start(p, "notify", "tell")

\* RecordFailure up to its conditional update.
StartFail(p) ==
  /\ row["payout"].state # "done"
  /\ ~row["payout"].posted /\ row["payout"].initiated = None
  /\ Start(p, "fail", "shut")

\* MarkFailedIfUnposted.
MarkShut(p) ==
  LET r == row["payout"] IN
  /\ At(p, "shut")
  /\ IF r.state \in {"created", "executing"} /\ ~r.posted /\ r.initiated = None
       THEN Write("payout", [r EXCEPT !.state = "shut"])
       ELSE UNCHANGED row
  /\ To(p, Idle)
  /\ UNCHANGED <<now, booked, rail, hold, told, faults>>

------------------------------------------------------------------------------
(* The limits gate: one reservation per order id *)

\* Reserve grants, parks, denies, or replays the reservation the key names.
GateReserve(p) ==
  /\ At(p, "reserve")
  /\ \/ /\ hold = "none"
        /\ hold' \in {"none", "active", "pending"}
     \/ /\ hold # "none"
        /\ UNCHANGED hold
  /\ To(p, IF hold' = "active" THEN [job[p] EXCEPT !.pc = "load"] ELSE Idle)
  /\ UNCHANGED <<now, row, booked, rail, told, faults>>

\* Commit refuses a reservation another call has released or the TTL ended.
GateCommit(p) ==
  /\ At(p, "commit")
  /\ hold' = IF hold = "active" THEN "committed" ELSE hold
  /\ To(p, Idle)
  /\ UNCHANGED <<now, row, booked, rail, told, faults>>

GateRelease(p) ==
  /\ At(p, "unhold")
  /\ hold' = IF hold \in {"active", "pending"} THEN "released" ELSE hold
  /\ To(p, Idle)
  /\ UNCHANGED <<now, row, booked, rail, told, faults>>

\* The limits service decides a parked reservation, or its TTL ends.
HoldMoves ==
  /\ \/ hold = "pending" /\ hold' \in {"active", "released", "expired"}
     \/ hold = "active" /\ hold' = "expired"
  /\ UNCHANGED <<now, row, booked, rail, told, job, faults>>

------------------------------------------------------------------------------
(* executeInner: load, claim, ledger leg *)

\* The unlocked read and the early returns on a settled order.
Load(p) ==
  LET j == job[p]
      r == row[j.order]
  IN
  /\ At(p, "load")
  /\ To(p, IF r.state = "done" THEN Ended(j, r.outcome # "failed")
           ELSE IF r.state = "shut" THEN Ended(j, FALSE)
           ELSE [j EXCEPT !.pc = "claim", !.posted = r.posted,
                          !.failed = r.outcome = "failed"])
  /\ UNCHANGED <<now, row, booked, rail, hold, told, faults>>

\* claimForExecution takes a fresh order by its state alone, keeping what it
\* read before; otherwise it reads the row again.
Claim(p) ==
  LET j == job[p]
      r == row[j.order]
  IN
  /\ At(p, "claim")
  /\ IF r.state = "created"
       THEN /\ Write(j.order, [r EXCEPT !.state = "executing"])
            /\ To(p, [j EXCEPT !.pc = "post"])
       ELSE /\ To(p, [j EXCEPT !.pc = "inspect"])
            /\ UNCHANGED row
  /\ UNCHANGED <<now, booked, rail, hold, told, faults>>

Inspect(p) ==
  LET j == job[p]
      r == row[j.order]
  IN
  /\ At(p, "inspect")
  /\ To(p, IF r.state = "done" THEN Ended(j, TRUE)
           ELSE IF r.state = "executing" /\ r.modified <= now - StaleAfter
             THEN [j EXCEPT !.pc = "resume", !.posted = r.posted,
                            !.failed = r.outcome = "failed",
                            !.before = now - StaleAfter]
           ELSE Ended(j, FALSE))
  /\ UNCHANGED <<now, row, booked, rail, hold, told, faults>>

\* ClaimStaleExecution.
Resume(p) ==
  LET j == job[p]
      r == row[j.order]
  IN
  /\ At(p, "resume")
  /\ IF r.state = "executing" /\ r.modified <= j.before
       THEN /\ Write(j.order, r)
            /\ To(p, [j EXCEPT !.pc = "post", !.before = None])
       ELSE /\ To(p, Ended(j, FALSE))
            /\ UNCHANGED row
  /\ UNCHANGED <<now, booked, rail, hold, told, faults>>

\* Only payouts have a side effect that matters here.
AfterPosting(j) ==
  [j EXCEPT !.posted = TRUE, !.pc = IF j.order = "payout" THEN "pay" ELSE "complete"]

\* checkPayoutRecipient and CreateTransaction, unless the ledger leg is on the
\* row already. A refused recipient posts nothing; a failed call may have.
PostLedger(p) ==
  LET j == job[p] IN
  /\ At(p, "post")
  /\ \/ /\ j.posted
        /\ To(p, AfterPosting(j))
        /\ UNCHANGED booked
     \/ /\ ~j.posted
        /\ booked' = booked \union {j.order}
        /\ \/ To(p, [j EXCEPT !.pc = "mark"])
           \/ To(p, Fail(j, FALSE))
     \/ /\ ~j.posted
        /\ To(p, Fail(j, FALSE))
        /\ UNCHANGED booked
  /\ UNCHANGED <<now, row, rail, hold, told, faults>>

\* MarkLedgerPosted looks at no state.
MarkPosted(p) ==
  LET j == job[p] IN
  /\ At(p, "mark")
  /\ Write(j.order, [row[j.order] EXCEPT !.posted = TRUE])
  /\ To(p, AfterPosting(j))
  /\ UNCHANGED <<now, booked, rail, hold, told, faults>>

------------------------------------------------------------------------------
(* sendPayment: the payout claim, the rail, the lookup of an earlier attempt *)

\* Mutant: a claim found taken counts as a payout sent.
TakenMeansSent(p) ==
  LET j == job[p]
      r == row["payout"]
  IN
  /\ At(p, "pay")
  /\ IF j.failed
       THEN /\ To(p, Fail(j, TRUE))
            /\ UNCHANGED row
       ELSE \/ /\ r.initiated = None
               /\ Write("payout", [r EXCEPT !.initiated = now])
               /\ To(p, [j EXCEPT !.pc = "send"])
            \/ /\ r.initiated # None
               /\ To(p, [j EXCEPT !.pc = "complete"])
               /\ UNCHANGED row
  /\ UNCHANGED <<now, booked, rail, hold, told, faults>>

\* The recipient checks out, cannot be paid, or could not be checked.
ClaimPayout(p) ==
  LET j == job[p]
      r == row["payout"]
  IN
  /\ At(p, "pay")
  /\ IF j.failed
       THEN /\ To(p, Fail(j, TRUE))
            /\ UNCHANGED row
       ELSE \/ /\ To(p, Fail(j, FALSE))
               /\ UNCHANGED row
            \/ /\ r.initiated = None
               /\ Write("payout", [r EXCEPT !.initiated = now])
               /\ \E pc \in {"send", "unsendable"} : To(p, [j EXCEPT !.pc = pc])
            \/ /\ r.initiated # None
               /\ To(p, [j EXCEPT !.pc = "reload"])
               /\ UNCHANGED row
  /\ UNCHANGED <<now, booked, rail, hold, told, faults>>

\* MarkPayoutFailed leaves a row alone that names another payment.
WriteFailed(payment) ==
  LET r == row["payout"] IN
  IF r.payment \in {None, payment}
    THEN Write("payout", [r EXCEPT !.outcome = "failed", !.payment = payment])
    ELSE UNCHANGED row

\* The first claim of a payout to a recipient who cannot be paid.
MarkUnsendable(p) ==
  /\ At(p, "unsendable")
  /\ WriteFailed(None)
  /\ To(p, Fail(job[p], TRUE))
  /\ UNCHANGED <<now, booked, rail, hold, told, faults>>

NextPayment == CHOOSE i \in Payments \ Landed : \A k \in Payments \ Landed : i <= k

\* sendPayoutNow: the request is lost, or lands and is answered by an error,
\* by nothing, by a rejection, or by the payment's id and status.
Send(p) ==
  LET j == job[p]
      i == NextPayment
      Lands(state) == rail' = [rail EXCEPT ![i] = [state |-> state, claimed |-> row["payout"].initiated]]
  IN
  /\ At(p, "send")
  /\ \/ /\ To(p, Fail(j, FALSE))
        /\ UNCHANGED rail
     \/ /\ Landed # Payments
        /\ \/ /\ Lands("queued")
              /\ \/ To(p, Fail(j, FALSE))
                 \/ To(p, [j EXCEPT !.pc = "complete"])
                 \/ To(p, [j EXCEPT !.pc = "record", !.payment = i])
           \/ /\ Lands("paid")
              /\ To(p, [j EXCEPT !.pc = "record", !.payment = i, !.paid = TRUE])
           \/ /\ Lands("failed")
              /\ To(p, [j EXCEPT !.pc = "rejected", !.payment = i])
  /\ UNCHANGED <<now, row, booked, hold, told, faults>>

RecordPayment(p) ==
  /\ At(p, "record")
  /\ Write("payout", [row["payout"] EXCEPT !.payment = job[p].payment])
  /\ To(p, [job[p] EXCEPT !.pc = "outcome"])
  /\ UNCHANGED <<now, booked, rail, hold, told, faults>>

\* SetPayoutOutcome never overwrites a failure. The reconcile job ends here.
SetOutcome(p) ==
  LET j == job[p]
      r == row["payout"]
  IN
  /\ At(p, "outcome")
  /\ IF r.outcome = "failed" THEN UNCHANGED row
     ELSE Write("payout", [r EXCEPT !.outcome = IF j.paid THEN "confirmed" ELSE "pending"])
  /\ To(p, IF j.call = "reconcile" THEN Idle ELSE [j EXCEPT !.pc = "complete"])
  /\ UNCHANGED <<now, booked, rail, hold, told, faults>>

\* The rail rejected the payout, at once or when asked.
MarkRejected(p) ==
  LET j == job[p] IN
  /\ At(p, "rejected")
  /\ WriteFailed(j.payment)
  /\ To(p, IF j.call = "reconcile" THEN [j EXCEPT !.pc = "reverse"] ELSE Fail(j, TRUE))
  /\ UNCHANGED <<now, booked, rail, hold, told, faults>>

\* confirmEarlierPayout reads the row, asks the rail, and acts on the answer.
Reload(p) ==
  LET j == job[p]
      r == row["payout"]
  IN
  /\ At(p, "reload")
  /\ To(p, IF r.outcome = "failed" THEN Fail(j, TRUE)
           ELSE [j EXCEPT !.pc = "lookup", !.payment = r.payment, !.before = r.initiated])
  /\ UNCHANGED <<now, row, booked, rail, hold, told, faults>>

\* What settleFoundPayout does with payment i of this order.
Found(j, i) ==
  IF rail[i].state = "failed" THEN [j EXCEPT !.pc = "rejected", !.payment = i]
  ELSE [j EXCEPT !.pc = IF j.payment = None /\ j.call # "reconcile" THEN "record" ELSE "outcome",
                 !.payment = i, !.paid = rail[i].state = "paid"]

\* The answer is no use (an error, inconclusive, another payment), a payment
\* of this order, or that there is none: then an old claim may be retaken. The
\* age is taken right after the answer; ticks are minutes, so they are one step.
Lookup(p) ==
  LET j == job[p] IN
  /\ At(p, "lookup")
  /\ \/ To(p, Fail(j, FALSE))
     \/ \E i \in Visible : j.payment \in {None, i} /\ To(p, Found(j, i))
     \/ /\ Visible = {} /\ j.payment = None
        /\ j.before <= now - Grace
        /\ To(p, [j EXCEPT !.pc = "retake"])
  /\ UNCHANGED <<now, row, booked, rail, hold, told, faults>>

\* Mutants: the claim is retaken without looking at the observed one; it is
\* stamped by a clock that runs ahead.
RetakeUnseen(p) ==
  /\ At(p, "retake")
  /\ Write("payout", [row["payout"] EXCEPT !.initiated = now])
  /\ To(p, [job[p] EXCEPT !.pc = "send", !.before = None])
  /\ UNCHANGED <<now, booked, rail, hold, told, faults>>
RetakeAhead(p) ==
  /\ At(p, "retake")
  /\ Write("payout", [row["payout"] EXCEPT !.initiated = now + 1])
  /\ To(p, [job[p] EXCEPT !.pc = "send", !.before = None])
  /\ UNCHANGED <<now, booked, rail, hold, told, faults>>

\* RetakePaymentInitiation: a compare-and-swap on the observed claim.
Retake(p) ==
  LET j == job[p]
      r == row["payout"]
  IN
  /\ At(p, "retake")
  /\ IF r.initiated = j.before /\ r.payment = None
       THEN /\ Write("payout", [r EXCEPT !.initiated = now])
            /\ To(p, [j EXCEPT !.pc = "send", !.before = None])
       ELSE /\ To(p, Fail(j, FALSE))
            /\ UNCHANGED row
  /\ UNCHANGED <<now, booked, rail, hold, told, faults>>

------------------------------------------------------------------------------
(* The end of an execution: completion, release, reversal *)

Complete(p) ==
  LET j == job[p]
      r == row[j.order]
  IN
  /\ At(p, "complete")
  /\ IF r.state = "executing" THEN Write(j.order, [r EXCEPT !.state = "done"])
     ELSE UNCHANGED row
  /\ To(p, Ended(j, r.state = "executing"))
  /\ UNCHANGED <<now, booked, rail, hold, told, faults>>

\* Mutant: any payout that did not go through is reversed.
ReverseUnsettled(j) ==
  IF j.order = "payout" /\ j.posted THEN [j EXCEPT !.pc = "reverse"]
  ELSE Ended(j, FALSE)

\* Only a payout the rail failed, with its ledger leg posted, is reversed.
Released(j) ==
  IF j.order = "payout" /\ j.failed /\ j.posted THEN [j EXCEPT !.pc = "reverse"]
  ELSE Ended(j, FALSE)

\* ReleaseExecution looks at the state alone, not at who claimed the order.
Release(p) ==
  LET j == job[p]
      r == row[j.order]
  IN
  /\ At(p, "release")
  /\ IF r.state = "executing" THEN Write(j.order, [r EXCEPT !.state = "created"])
     ELSE UNCHANGED row
  /\ To(p, Released(j))
  /\ UNCHANGED <<now, booked, rail, hold, told, faults>>

\* reverseRejectedPayout saves the reversal once and executes it, ungated.
SaveReversal(p) ==
  LET j == job[p] IN
  /\ At(p, "reverse")
  /\ IF row["reversal"].state = "absent" THEN Write("reversal", NewRow("created"))
     ELSE UNCHANGED row
  /\ To(p, [j EXCEPT !.order = "reversal", !.pc = "load"])
  /\ UNCHANGED <<now, booked, rail, hold, told, faults>>

\* The reversal is booked: the payout is not to be executed again.
Close(p) ==
  LET r == row["payout"] IN
  /\ At(p, "close")
  /\ IF r.state \in {"created", "executing"} THEN Write("payout", [r EXCEPT !.state = "shut"])
     ELSE UNCHANGED row
  /\ To(p, Leave(job[p], FALSE))
  /\ UNCHANGED <<now, booked, rail, hold, told, faults>>

------------------------------------------------------------------------------
(* The reconcile job *)

\* ReconcilePayout resumes an order that never completed, and asks the rail
\* about one that did.
Reconcile(p) ==
  LET j == job[p]
      r == row["payout"]
  IN
  /\ At(p, "reconcile")
  /\ To(p, IF r.outcome = "failed" THEN Idle
           ELSE IF r.state # "done" THEN [Idle EXCEPT !.pc = IF hold = "off" THEN "load" ELSE "reserve"]
           ELSE [j EXCEPT !.pc = "ask", !.posted = r.posted, !.payment = r.payment])
  /\ UNCHANGED <<now, row, booked, rail, hold, told, faults>>

Ask(p) ==
  LET j == job[p] IN
  /\ At(p, "ask")
  /\ \/ To(p, Idle)
     \/ \E i \in Visible : j.payment \in {None, i} /\ To(p, Found(j, i))
  /\ UNCHANGED <<now, row, booked, rail, hold, told, faults>>

\* NotifyOriginator: the call, then the mark. The call may fail either way.
Tell(p) ==
  /\ At(p, "tell")
  /\ \/ /\ told' = TRUE
        /\ \/ To(p, [job[p] EXCEPT !.pc = "notified"])
           \/ To(p, Idle)
     \/ /\ To(p, Idle)
        /\ UNCHANGED told
  /\ UNCHANGED <<now, row, booked, rail, hold, faults>>

MarkNotified(p) ==
  /\ At(p, "notified")
  /\ row' = [row EXCEPT !["payout"].notified = TRUE]
  /\ To(p, Idle)
  /\ UNCHANGED <<now, booked, rail, hold, told, faults>>

------------------------------------------------------------------------------
(* The payment service, time, faults *)

\* A queued payment shows in searches; one taken is paid or failed.
RailMoves(i) ==
  /\ \/ rail[i].state = "queued" /\ rail' = [rail EXCEPT ![i].state = "taken"]
     \/ /\ rail[i].state = "taken"
        /\ \E s \in {"paid", "failed"} : rail' = [rail EXCEPT ![i].state = s]
  /\ UNCHANGED <<now, row, booked, hold, told, job, faults>>

\* What payoutConfirmationGrace takes for granted ("live executions finish in
\* seconds"): an execution uses the payout claim it holds, the payment service
\* shows a payment it was handed, and a lookup that met a young claim is over,
\* before that claim is Grace old.
Young(claimed) == now + 1 < claimed + Grace
WithinGrace ==
  /\ \A p \in Jobs : job[p].pc \in {"send", "unsendable"} => Young(row["payout"].initiated)
  /\ \A p \in Jobs : job[p].pc \in {"lookup", "retake"} /\ now < job[p].before + Grace =>
       Young(job[p].before)
  /\ \A i \in Payments : rail[i].state = "queued" => Young(rail[i].claimed)

Tick ==
  /\ now < MaxTime
  /\ WithinGrace
  /\ now' = now + 1
  /\ UNCHANGED <<row, booked, rail, hold, told, job, faults>>

\* What a job does when its statement, or its call to the limits service,
\* fails and changes nothing.
OnError(j) ==
  CASE j.pc \in {"load", "claim", "inspect", "resume", "complete"} -> Ended(j, FALSE)
    [] j.pc \in {"mark", "pay", "unsendable", "reload", "retake"} -> Fail(j, FALSE)
    [] j.pc = "rejected" /\ j.call # "reconcile" -> Fail(j, TRUE)
    [] j.pc = "record" -> [j EXCEPT !.pc = "outcome"]
    [] j.pc = "outcome" /\ j.call # "reconcile" -> [j EXCEPT !.pc = "complete"]
    [] j.pc = "release" -> Released(j)
    [] j.pc \in {"reverse", "close"} -> Leave(j, FALSE)
    [] OTHER -> Idle

StatementFails(p) ==
  /\ faults > 0 /\ faults' = faults - 1
  /\ job[p].pc \notin {"idle", "post", "send", "lookup", "ask", "tell"}
  /\ To(p, OnError(job[p]))
  /\ UNCHANGED <<now, row, booked, rail, hold, told>>

Crash(p) ==
  /\ faults > 0 /\ faults' = faults - 1
  /\ ~At(p, "idle")
  /\ To(p, Idle)
  /\ UNCHANGED <<now, row, booked, rail, hold, told>>

Call(p) == StartExecute(p) \/ StartReconcile(p) \/ StartNotify(p) \/ StartFail(p)
Gate(p) == GateReserve(p) \/ GateCommit(p) \/ GateRelease(p)
Execute(p) ==
  \/ Load(p) \/ Claim(p) \/ Inspect(p) \/ Resume(p) \/ PostLedger(p) \/ MarkPosted(p)
  \/ Complete(p) \/ Release(p) \/ SaveReversal(p) \/ Close(p)
SendPayment(p) ==
  \/ ClaimPayout(p) \/ MarkUnsendable(p) \/ Send(p) \/ RecordPayment(p) \/ SetOutcome(p)
  \/ MarkRejected(p) \/ Reload(p) \/ Lookup(p) \/ Retake(p)
JobRun(p) == MarkShut(p) \/ Reconcile(p) \/ Ask(p) \/ Tell(p) \/ MarkNotified(p)

Next ==
  \/ \E p \in Jobs : \/ Call(p) \/ Gate(p) \/ Execute(p) \/ SendPayment(p) \/ JobRun(p)
                     \/ StatementFails(p) \/ Crash(p)
  \/ \E i \in Payments : RailMoves(i)
  \/ HoldMoves \/ Tick

Spec == Init /\ [][Next]_vars

------------------------------------------------------------------------------
(* Properties *)

\* Every reachable state is well typed, and a payout claim is never in the
\* future.
TypeOK ==
  /\ now \in Times
  /\ row \in [Orders -> Row]
  /\ \A o \in Orders : row[o].initiated \in (0..now) \union {None}
  /\ booked \subseteq Orders
  /\ rail \in [Payments -> [state : PaymentStates, claimed : Times \union {None}]]
  /\ hold \in {"off", "none", "active", "pending", "committed", "released", "expired"}
  /\ told \in BOOLEAN
  /\ job \in [Jobs -> Job]
  /\ faults \in 0..MaxFaults

\* Completion (executeInner step 6): an order marked done has its ledger leg
\* posted and was handed to the rail.
DoneMeansSent ==
  row["payout"].state = "done" =>
    row["payout"].posted /\ "payout" \in booked /\ Landed # {}

\* The payout claim and its retaking: however many executions, crashes and lost
\* answers, the rail is handed this order's money at most once, and the payout
\* status on the row is its word: confirmed only when paid, failed only when the
\* rail failed it or nothing was sent at all.
OutcomeIsTheRails ==
  /\ Cardinality(Landed) <= 1
  /\ row["payout"].outcome = "confirmed" => \E i \in Landed : rail[i].state = "paid"
  /\ row["payout"].outcome = "failed" => \A i \in Landed : rail[i].state = "failed"

\* Gate commits the hold only of an order that was executed to the end.
CommittedMeansDone == hold = "committed" => row["payout"].state = "done"

\* reverseRejectedPayout: the books are put back only for money that was
\* posted and never reaches the recipient, and the rail is handed only posted
\* money; see Payout.
Contract == INSTANCE Payout WITH
  book <- IF "reversal" \in booked THEN "reversed"
          ELSE IF "payout" \in booked THEN "posted" ELSE "none",
  cash <- IF Landed = {} THEN "none"
          ELSE IF \E i \in Landed : rail[i].state = "paid" THEN "paid"
          ELSE IF \E i \in Landed : rail[i].state # "failed" THEN "sent"
          ELSE "failed"
KeepsContract == Contract!Spec
=============================================================================
