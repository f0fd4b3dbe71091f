-------------------------- MODULE TransferOrder_proofs --------------------------
(***************************************************************************)
(* Proofs about TransferOrder for any set of jobs and any bounds: type      *)
(* correctness, and that an order marked done was posted and sent and a     *)
(* committed hold means a done order, however executions, reconciliations,  *)
(* crashes and lost answers interleave; and that TransferOrder implements    *)
(* Payout.                                                                   *)
(***************************************************************************)
EXTENDS TransferOrder, FiniteSetTheorems, WellFoundedInduction, TLAPS

JobTypes == job \in [Jobs -> Job]
RowTypes ==
  /\ row \in [Orders -> Row]
  /\ \A o \in Orders : row[o].initiated \in (0..now) \union {None}
RailTypes == rail \in [Payments -> [state : PaymentStates, claimed : Times \union {None}]]
RestTypes ==
  /\ now \in Times
  /\ booked \subseteq Orders
  /\ hold \in {"off", "none", "active", "pending", "committed", "released", "expired"}
  /\ told \in BOOLEAN
  /\ faults \in 0..MaxFaults

LEMMA TypeParts == TypeOK <=> JobTypes /\ RowTypes /\ RailTypes /\ RestTypes
  BY DEF TypeOK, JobTypes, RowTypes, RailTypes, RestTypes

LEMMA Retyped == JobTypes' /\ RowTypes' /\ RailTypes' /\ RestTypes' => TypeOK'
  BY DEF TypeOK, JobTypes, RowTypes, RailTypes, RestTypes

-----------------------------------------------------------------------------
(* Where a call goes next is a job *)

LEMMA IdleType == Idle \in Job
  BY DEF Idle, Job, Orders

\* Setting the position of a job leaves a job.
LEMMA PcType ==
  ASSUME NEW j \in Job,
         NEW pc \in {"idle", "reserve", "load", "claim", "inspect", "resume", "post", "mark",
                     "pay", "unsendable", "send", "record", "outcome", "rejected", "reload",
                     "lookup", "retake", "complete", "release", "reverse", "close",
                     "commit", "unhold", "reconcile", "ask", "shut", "tell", "notified"}
  PROVE  [j EXCEPT !.pc = pc] \in Job
  BY DEF Job

LEMMA LeaveType == ASSUME NEW j \in Job, NEW ok \in BOOLEAN PROVE Leave(j, ok) \in Job
  <1>1. [Idle EXCEPT !.pc = "commit"] \in Job /\ [Idle EXCEPT !.pc = "unhold"] \in Job
    BY IdleType, PcType
  <1> QED
    BY <1>1, IdleType DEF Leave

LEMMA EndedType == ASSUME NEW j \in Job, NEW ok \in BOOLEAN PROVE Ended(j, ok) \in Job
  <1>1. [j EXCEPT !.order = "payout", !.pc = "close"] \in Job
    BY DEF Job, Orders
  <1>2. Leave(j, ok) \in Job /\ Leave(j, FALSE) \in Job
    BY LeaveType
  <1> QED
    BY <1>1, <1>2 DEF Ended

LEMMA FailType == ASSUME NEW j \in Job, NEW f \in BOOLEAN PROVE Fail(j, f) \in Job
  BY DEF Fail, Job

LEMMA ReleasedType == ASSUME NEW j \in Job PROVE Released(j) \in Job
  <1>1. [j EXCEPT !.pc = "reverse"] \in Job
    BY PcType
  <1> QED
    BY <1>1, EndedType DEF Released

LEMMA FoundType ==
  ASSUME TypeOK, NEW j \in Job, NEW i \in Payments
  PROVE  Found(j, i) \in Job
  <1>1. [j EXCEPT !.pc = "rejected", !.payment = i] \in Job
    BY DEF Job
  <1>2. /\ \A b \in BOOLEAN : [j EXCEPT !.pc = "record", !.payment = i, !.paid = b] \in Job
        /\ \A b \in BOOLEAN : [j EXCEPT !.pc = "outcome", !.payment = i, !.paid = b] \in Job
    BY ZenonT(30) DEF Job
  <1>3. (rail[i].state = "paid") \in BOOLEAN
    OBVIOUS
  <1> QED
    BY <1>1, <1>2, <1>3 DEF Found

\* What Load, SaveReversal and Inspect make of a job.
LEMMA LoadType ==
  ASSUME NEW j \in Job, NEW posted \in BOOLEAN, NEW failed \in BOOLEAN
  PROVE  [j EXCEPT !.pc = "claim", !.posted = posted, !.failed = failed] \in Job
  BY DEF Job

LEMMA ToReversalType ==
  ASSUME NEW j \in Job PROVE [j EXCEPT !.order = "reversal", !.pc = "load"] \in Job
  BY DEF Job, Orders

LEMMA ResumeType ==
  ASSUME NEW j \in Job, NEW posted \in BOOLEAN, NEW failed \in BOOLEAN, NEW t \in Times
  PROVE  [j EXCEPT !.pc = "resume", !.posted = posted, !.failed = failed, !.before = t] \in Job
  BY DEF Job

LEMMA OnErrorType == ASSUME NEW j \in Job PROVE OnError(j) \in Job
  <1>1. /\ [j EXCEPT !.pc = "outcome"] \in Job
        /\ [j EXCEPT !.pc = "complete"] \in Job
    BY PcType
  <1>2. /\ Ended(j, FALSE) \in Job /\ Fail(j, FALSE) \in Job /\ Fail(j, TRUE) \in Job
        /\ Released(j) \in Job /\ Leave(j, FALSE) \in Job /\ Idle \in Job
    BY EndedType, FailType, ReleasedType, LeaveType, IdleType
  <1> QED
    BY <1>1, <1>2 DEF OnError

LEMMA ToType ==
  ASSUME JobTypes, NEW p \in Jobs, NEW j \in Job, To(p, j)
  PROVE  JobTypes'
  BY DEF JobTypes, To

\* A row written by a statement keeps its type, its claim not in the future.
LEMMA WriteType ==
  ASSUME TypeOK, now' = now, NEW o \in Orders, NEW r \in Row,
         r.initiated \in (0..now) \union {None}, Write(o, r)
  PROVE  RowTypes'
  <1>1. [r EXCEPT !.modified = now] \in Row
    BY DEF Row, TypeOK
  <1>2. [r EXCEPT !.modified = now].initiated = r.initiated
    BY DEF Row
  <1> QED
    BY <1>1, <1>2 DEF Write, TypeOK, RowTypes

LEMMA NewRowType ==
  ASSUME now \in Times, NEW s \in {"absent", "created"}
  PROVE  NewRow(s) \in Row /\ NewRow(s).initiated = None
  BY DEF NewRow, Row, Outcomes

(* Type correctness, one group of steps at a time *)

LEMMA InitTypes == Init => TypeOK
  <1> SUFFICES ASSUME Init PROVE TypeOK
    OBVIOUS
  <1>1. /\ now \in Times /\ faults \in 0..MaxFaults
    BY TimesAssumption DEF Init, Times
  <1>2. JobTypes
    BY IdleType DEF Init, JobTypes
  <1>3. RowTypes
    <2>1. \A s \in {"absent", "created"} : NewRow(s) \in Row /\ NewRow(s).initiated = None
      BY <1>1, NewRowType
    <2> QED
      BY <2>1 DEF Init, RowTypes
  <1>4. RailTypes
    BY DEF Init, RailTypes, PaymentStates
  <1>5. RestTypes
    BY <1>1 DEF Init, RestTypes
  <1> QED
    BY <1>2, <1>3, <1>4, <1>5, TypeParts

\* A step that leaves alone what it does not name.
LEMMA Same ==
  ASSUME TypeOK
  PROVE  /\ UNCHANGED job => JobTypes'
         /\ UNCHANGED <<row, now>> => RowTypes'
         /\ UNCHANGED rail => RailTypes'
         /\ UNCHANGED <<now, booked, hold, told, faults>> => RestTypes'
  BY DEF TypeOK, JobTypes, RowTypes, RailTypes, RestTypes

LEMMA CallTypes ==
  ASSUME TypeOK, NEW p \in Jobs, Call(p)
  PROVE  TypeOK'
  <1>1. ASSUME NEW call \in {"execute", "reconcile", "fail", "notify"},
               NEW c \in {"load", "reserve", "reconcile", "tell", "shut"}, Start(p, call, c)
        PROVE  TypeOK'
    <2>1. [Idle EXCEPT !.call = call, !.pc = c] \in Job
      BY IdleType DEF Job
    <2>2. JobTypes'
      BY <1>1, <2>1, ToType, TypeParts DEF Start
    <2> QED
      BY <1>1, <2>2, Same, Retyped DEF Start
  <1> QED
    BY <1>1 DEF Call, StartExecute, StartReconcile, StartNotify, StartFail

LEMMA GateTypes ==
  ASSUME TypeOK, NEW p \in Jobs, Gate(p)
  PROVE  TypeOK'
  <1>1. job[p] \in Job
    BY DEF TypeOK
  <1>2. [job[p] EXCEPT !.pc = "load"] \in Job
    BY <1>1, PcType
  <1>3. JobTypes'
    BY <1>2, IdleType, ToType, TypeParts DEF Gate, GateReserve, GateCommit, GateRelease
  <1>4. RestTypes'
    BY DEF TypeOK, RestTypes, Gate, GateReserve, GateCommit, GateRelease
  <1> QED
    BY <1>3, <1>4, Same, Retyped DEF Gate, GateReserve, GateCommit, GateRelease

LEMMA ExecuteTypes ==
  ASSUME TypeOK, NEW p \in Jobs, Execute(p)
  PROVE  TypeOK'
  <1> DEFINE j == job[p]
  <1> DEFINE r == row[j.order]
  <1>1. j \in Job /\ j.order \in Orders /\ r \in Row /\ now \in Nat
        /\ r.initiated \in (0..now) \union {None} /\ row["payout"] \in Row
        /\ row["payout"].initiated \in (0..now) \union {None}
    BY DEF TypeOK, Job, Orders, Times
  <1>2. /\ Idle \in Job /\ Ended(j, TRUE) \in Job /\ Ended(j, FALSE) \in Job
        /\ Leave(j, FALSE) \in Job /\ Fail(j, FALSE) \in Job /\ Released(j) \in Job
    BY <1>1, IdleType, EndedType, LeaveType, FailType, ReleasedType
  <1>3. CASE Load(p)
    <2>1. [j EXCEPT !.pc = "claim", !.posted = r.posted, !.failed = r.outcome = "failed"] \in Job
      <3>1. r.posted \in BOOLEAN /\ (r.outcome = "failed") \in BOOLEAN
        BY <1>1 DEF Row
      <3> QED
        BY <1>1, <3>1, LoadType
    <2>2. Ended(j, r.outcome # "failed") \in Job
      BY <1>1, EndedType
    <2>3. JobTypes'
      BY <1>3, <1>2, <2>1, <2>2, ToType, TypeParts DEF Load
    <2> QED
      BY <1>3, <2>3, Same, Retyped DEF Load
  <1>4. CASE Claim(p)
    <2>1. [j EXCEPT !.pc = "post"] \in Job /\ [j EXCEPT !.pc = "inspect"] \in Job
      BY <1>1, PcType
    <2>2. [r EXCEPT !.state = "executing"] \in Row
          /\ [r EXCEPT !.state = "executing"].initiated = r.initiated
      BY <1>1 DEF Row
    <2>3. JobTypes'
      BY <1>4, <2>1, ToType, TypeParts DEF Claim
    <2>4. RowTypes'
      BY <1>4, <1>1, <2>2, WriteType, Same DEF Claim
    <2> QED
      BY <1>4, <2>3, <2>4, Same, Retyped DEF Claim
  <1>5. CASE Inspect(p)
    <2>1. r.state = "executing" /\ r.modified <= now - StaleAfter =>
            [j EXCEPT !.pc = "resume", !.posted = r.posted, !.failed = r.outcome = "failed",
                      !.before = now - StaleAfter] \in Job
      <3>1. r.modified <= now - StaleAfter => now - StaleAfter \in Times
        BY <1>1, TimesAssumption DEF Row, Times, TypeOK
      <3>2. r.posted \in BOOLEAN /\ (r.outcome = "failed") \in BOOLEAN
        BY <1>1 DEF Row
      <3> QED
        BY <1>1, <3>1, <3>2, ResumeType
    <2>2. JobTypes'
      BY <1>5, <1>2, <2>1, ToType, TypeParts DEF Inspect
    <2> QED
      BY <1>5, <2>2, Same, Retyped DEF Inspect
  <1>6. CASE Resume(p)
    <2>1. [j EXCEPT !.pc = "post", !.before = None] \in Job
      BY <1>1 DEF Job
    <2>2. JobTypes'
      BY <1>6, <1>2, <2>1, ToType, TypeParts DEF Resume
    <2>3. RowTypes'
      BY <1>6, <1>1, WriteType, Same DEF Resume
    <2> QED
      BY <1>6, <2>2, <2>3, Same, Retyped DEF Resume
  <1>7. AfterPosting(j) \in Job
    <2>1. \A c \in {"pay", "complete"} : [j EXCEPT !.posted = TRUE, !.pc = c] \in Job
      BY <1>1 DEF Job
    <2> QED
      BY <2>1 DEF AfterPosting
  <1>8. CASE PostLedger(p)
    <2>1. [j EXCEPT !.pc = "mark"] \in Job
      BY <1>1, PcType
    <2>2. JobTypes'
      BY <1>8, <1>2, <1>7, <2>1, ToType, TypeParts DEF PostLedger
    <2>3. RestTypes'
      BY <1>8, <1>1 DEF PostLedger, RestTypes, TypeOK
    <2> QED
      BY <1>8, <2>2, <2>3, Same, Retyped DEF PostLedger
  <1>9. CASE MarkPosted(p)
    <2>1. [r EXCEPT !.posted = TRUE] \in Row /\ [r EXCEPT !.posted = TRUE].initiated = r.initiated
      BY <1>1 DEF Row
    <2>2. JobTypes'
      BY <1>9, <1>7, ToType, TypeParts DEF MarkPosted
    <2>3. RowTypes'
      BY <1>9, <1>1, <2>1, WriteType DEF MarkPosted
    <2> QED
      BY <1>9, <2>2, <2>3, Same, Retyped DEF MarkPosted
  <1>10. CASE Complete(p)
    <2>1. [r EXCEPT !.state = "done"] \in Row /\ [r EXCEPT !.state = "done"].initiated = r.initiated
      BY <1>1 DEF Row
    <2>2. Ended(j, r.state = "executing") \in Job
      BY <1>1, EndedType
    <2>3. JobTypes'
      BY <1>10, <2>2, ToType, TypeParts DEF Complete
    <2>4. RowTypes'
      BY <1>10, <1>1, <2>1, WriteType, Same DEF Complete
    <2> QED
      BY <1>10, <2>3, <2>4, Same, Retyped DEF Complete
  <1>11. CASE Release(p)
    <2>1. [r EXCEPT !.state = "created"] \in Row
          /\ [r EXCEPT !.state = "created"].initiated = r.initiated
      BY <1>1 DEF Row
    <2>2. JobTypes'
      BY <1>11, <1>2, ToType, TypeParts DEF Release
    <2>3. RowTypes'
      BY ZenonT(30), <1>11, <1>1, <2>1, WriteType, Same DEF Release
    <2> QED
      BY <1>11, <2>2, <2>3, Same, Retyped DEF Release
  <1>12. CASE SaveReversal(p)
    <2>1. [j EXCEPT !.order = "reversal", !.pc = "load"] \in Job
      BY <1>1, ToReversalType
    <2>2. JobTypes'
      BY <1>12, <2>1, ToType, TypeParts DEF SaveReversal
    <2>3. NewRow("created") \in Row /\ NewRow("created").initiated = None
      BY NewRowType DEF TypeOK
    <2>4. RowTypes'
      BY <1>12, <2>3, WriteType, Same DEF SaveReversal, Orders
    <2> QED
      BY <1>12, <2>2, <2>4, Same, Retyped DEF SaveReversal
  <1>13. CASE Close(p)
    <2>1. [row["payout"] EXCEPT !.state = "shut"] \in Row
          /\ [row["payout"] EXCEPT !.state = "shut"].initiated = row["payout"].initiated
      BY <1>1 DEF Row
    <2>2. JobTypes'
      BY <1>13, <1>2, ToType, TypeParts DEF Close
    <2>3. RowTypes'
      BY <1>13, <1>1, <2>1, WriteType, Same DEF Close, Orders
    <2> QED
      BY <1>13, <2>2, <2>3, Same, Retyped DEF Close
  <1> QED
    BY <1>3, <1>4, <1>5, <1>6, <1>8, <1>9, <1>10, <1>11, <1>12, <1>13 DEF Execute

\* The next payment id is one the service has not given yet.
LEMMA NextPaymentType ==
  ASSUME Landed # Payments PROVE NextPayment \in Payments
  <1>1. Payments \ Landed \in SUBSET Nat /\ Payments \ Landed # {}
    BY SendsAssumption DEF Payments, Landed
  <1>2. \E i \in Payments \ Landed : \A k \in Payments \ Landed : i <= k
    <2> DEFINE R == OpToRel(<, Nat)
    <2>1. PICK i \in Payments \ Landed : \A k \in Payments \ Landed : <<k, i>> \notin R
      BY <1>1, WFMin, NatLessThanWellFounded
    <2>2. R = {ss \in Nat \X Nat : ss[1] < ss[2]}
      BY DEF OpToRel
    <2> HIDE DEF R
    <2>3. \A k \in Payments \ Landed : ~(k < i)
      BY <1>1, <2>1, <2>2
    <2> QED
      BY <1>1, <2>3
  <1> QED
    BY <1>2 DEF NextPayment

LEMMA WriteFailedType ==
  ASSUME TypeOK, now' = now, NEW i \in Payments \union {None}, WriteFailed(i)
  PROVE  RowTypes'
  <1> DEFINE r == row["payout"]
  <1>1. r \in Row /\ r.initiated \in (0..now) \union {None} /\ "payout" \in Orders
    BY DEF TypeOK, Orders
  <1>2. [r EXCEPT !.outcome = "failed", !.payment = i] \in Row
        /\ [r EXCEPT !.outcome = "failed", !.payment = i].initiated = r.initiated
    BY <1>1 DEF Row, Outcomes
  <1> QED
    BY <1>1, <1>2, WriteType, Same DEF WriteFailed

LEMMA SendPaymentTypes ==
  ASSUME TypeOK, NEW p \in Jobs, SendPayment(p)
  PROVE  TypeOK'
  <1> DEFINE j == job[p]
  <1> DEFINE r == row["payout"]
  <1>1. j \in Job /\ r \in Row /\ "payout" \in Orders /\ now \in Times
        /\ r.initiated \in (0..now) \union {None}
    BY DEF TypeOK, Orders
  <1>2. Idle \in Job /\ \A b \in BOOLEAN : Fail(j, b) \in Job
    BY <1>1, IdleType, FailType
  <1>3. /\ \A c \in {"send", "unsendable", "reload", "complete", "retake", "outcome", "reverse"} :
             [j EXCEPT !.pc = c] \in Job
        /\ [j EXCEPT !.pc = "send", !.before = None] \in Job
    BY ZenonT(30), <1>1 DEF Job
  <1>4. now \in 0..now
        /\ [r EXCEPT !.initiated = now] \in Row /\ [r EXCEPT !.initiated = now].initiated = now
    BY <1>1 DEF Row, Times
  <1>5. CASE ClaimPayout(p)
    <2>1. JobTypes'
      BY <1>5, <1>2, <1>3, ToType, TypeParts DEF ClaimPayout
    <2>2. RowTypes'
      BY <1>5, <1>1, <1>4, WriteType, Same DEF ClaimPayout
    <2> QED
      BY <1>5, <2>1, <2>2, Same, Retyped DEF ClaimPayout
  <1>6. CASE MarkUnsendable(p)
    <2>1. JobTypes'
      BY <1>6, <1>2, ToType, TypeParts DEF MarkUnsendable
    <2>2. RowTypes'
      BY <1>6, WriteFailedType DEF MarkUnsendable
    <2> QED
      BY <1>6, <2>1, <2>2, Same, Retyped DEF MarkUnsendable
  <1>7. CASE Send(p)
    <2>1. ASSUME Landed # Payments
          PROVE  /\ [j EXCEPT !.pc = "record", !.payment = NextPayment] \in Job
                 /\ [j EXCEPT !.pc = "record", !.payment = NextPayment, !.paid = TRUE] \in Job
                 /\ [j EXCEPT !.pc = "rejected", !.payment = NextPayment] \in Job
      BY <1>1, <2>1, NextPaymentType DEF Job
    <2>2. JobTypes'
      <3>1. \E n \in Job : To(p, n)
        BY <1>7, <1>2, <1>3, <2>1 DEF Send
      <3> QED
        BY <3>1, ToType, TypeParts
    <2>3. RailTypes'
      <3>1. \A s \in PaymentStates :
              [state |-> s, claimed |-> r.initiated]
                \in [state : PaymentStates, claimed : Times \union {None}]
        BY <1>1 DEF Row
      <3>2. UNCHANGED rail
            \/ \E s \in PaymentStates :
                 rail' = [rail EXCEPT ![NextPayment] = [state |-> s, claimed |-> r.initiated]]
        BY <1>7 DEF Send, PaymentStates
      <3> QED
        BY <3>1, <3>2 DEF TypeOK, RailTypes
    <2> QED
      BY <1>7, <2>2, <2>3, Same, Retyped DEF Send
  <1>8. CASE RecordPayment(p)
    <2>1. [r EXCEPT !.payment = j.payment] \in Row
          /\ [r EXCEPT !.payment = j.payment].initiated = r.initiated
      BY <1>1 DEF Row, Job
    <2>2. JobTypes'
      BY <1>8, <1>3, ToType, TypeParts DEF RecordPayment
    <2>3. RowTypes'
      BY <1>8, <1>1, <2>1, WriteType DEF RecordPayment
    <2> QED
      BY <1>8, <2>2, <2>3, Same, Retyped DEF RecordPayment
  <1>9. CASE SetOutcome(p)
    <2>1. \A o \in {"confirmed", "pending"} : /\ [r EXCEPT !.outcome = o] \in Row
                                              /\ [r EXCEPT !.outcome = o].initiated = r.initiated
      BY <1>1 DEF Row, Outcomes
    <2>2. JobTypes'
      BY <1>9, <1>2, <1>3, ToType, TypeParts DEF SetOutcome
    <2>3. RowTypes'
      BY <1>9, <1>1, <2>1, WriteType, Same DEF SetOutcome
    <2> QED
      BY <1>9, <2>2, <2>3, Same, Retyped DEF SetOutcome
  <1>10. CASE MarkRejected(p)
    <2>1. JobTypes'
      BY <1>10, <1>2, <1>3, ToType, TypeParts DEF MarkRejected
    <2>2. RowTypes'
      BY <1>10, <1>1, WriteFailedType DEF MarkRejected, Job
    <2> QED
      BY <1>10, <2>1, <2>2, Same, Retyped DEF MarkRejected
  <1>11. CASE Reload(p)
    <2>1. [j EXCEPT !.pc = "lookup", !.payment = r.payment, !.before = r.initiated] \in Job
      BY <1>1 DEF Job, Row
    <2>2. JobTypes'
      BY <1>11, <1>2, <2>1, ToType, TypeParts DEF Reload
    <2> QED
      BY <1>11, <2>2, Same, Retyped DEF Reload
  <1>12. CASE Lookup(p)
    <2>1. \A i \in Visible : Found(j, i) \in Job
      BY <1>1, FoundType DEF Visible, Landed
    <2>2. JobTypes'
      BY <1>12, <1>2, <1>3, <2>1, ToType, TypeParts DEF Lookup
    <2> QED
      BY <1>12, <2>2, Same, Retyped DEF Lookup
  <1>13. CASE Retake(p)
    <2>1. JobTypes'
      BY <1>13, <1>2, <1>3, ToType, TypeParts DEF Retake
    <2>2. RowTypes'
      BY <1>13, <1>1, <1>4, WriteType, Same DEF Retake
    <2> QED
      BY <1>13, <2>1, <2>2, Same, Retyped DEF Retake
  <1> QED
    BY <1>5, <1>6, <1>7, <1>8, <1>9, <1>10, <1>11, <1>12, <1>13 DEF SendPayment

LEMMA JobRunTypes ==
  ASSUME TypeOK, NEW p \in Jobs, JobRun(p)
  PROVE  TypeOK'
  <1> DEFINE j == job[p]
  <1> DEFINE r == row["payout"]
  <1>1. j \in Job /\ r \in Row /\ "payout" \in Orders /\ Idle \in Job
        /\ r.initiated \in (0..now) \union {None}
    BY IdleType DEF TypeOK, Orders
  <1>2. CASE MarkShut(p)
    <2>1. [r EXCEPT !.state = "shut"] \in Row /\ [r EXCEPT !.state = "shut"].initiated = r.initiated
      BY <1>1 DEF Row
    <2>2. JobTypes'
      BY <1>1, <1>2, ToType, TypeParts DEF MarkShut
    <2>3. RowTypes'
      BY <1>1, <1>2, <2>1, WriteType, Same DEF MarkShut
    <2> QED
      BY <1>2, <2>2, <2>3, Same, Retyped DEF MarkShut
  <1>3. CASE Reconcile(p)
    <2>1. [j EXCEPT !.pc = "ask", !.posted = r.posted, !.payment = r.payment] \in Job
      BY <1>1 DEF Job, Row
    <2>2. [Idle EXCEPT !.pc = "load"] \in Job /\ [Idle EXCEPT !.pc = "reserve"] \in Job
      BY <1>1, PcType
    <2>3. JobTypes'
      BY <1>1, <1>3, <2>1, <2>2, ToType, TypeParts DEF Reconcile
    <2> QED
      BY <1>3, <2>3, Same, Retyped DEF Reconcile
  <1>4. CASE Ask(p)
    <2>1. \A i \in Visible : Found(j, i) \in Job
      BY <1>1, FoundType DEF Visible, Landed
    <2>2. JobTypes'
      BY <1>1, <1>4, <2>1, ToType, TypeParts DEF Ask
    <2> QED
      BY <1>4, <2>2, Same, Retyped DEF Ask
  <1>5. CASE Tell(p)
    <2>1. [j EXCEPT !.pc = "notified"] \in Job
      BY <1>1, PcType
    <2>2. JobTypes'
      BY <1>1, <1>5, <2>1, ToType, TypeParts DEF Tell
    <2>3. RestTypes'
      BY <1>5 DEF Tell, TypeOK, RestTypes
    <2> QED
      BY <1>5, <2>2, <2>3, Same, Retyped DEF Tell
  <1>6. CASE MarkNotified(p)
    <2>1. [r EXCEPT !.notified = TRUE] \in Row /\ [r EXCEPT !.notified = TRUE].initiated = r.initiated
      BY <1>1 DEF Row
    <2>2. row' = [row EXCEPT !["payout"] = [r EXCEPT !.notified = TRUE]] /\ now' = now
      BY <1>6 DEF MarkNotified
    <2>3. RowTypes'
      BY <1>1, <2>1, <2>2 DEF TypeOK, RowTypes
    <2>4. JobTypes'
      BY <1>1, <1>6, ToType, TypeParts DEF MarkNotified
    <2> QED
      BY <1>6, <2>3, <2>4, Same, Retyped DEF MarkNotified
  <1> QED
    BY <1>2, <1>3, <1>4, <1>5, <1>6 DEF JobRun

LEMMA FaultTypes ==
  ASSUME TypeOK, NEW p \in Jobs, StatementFails(p) \/ Crash(p)
  PROVE  TypeOK'
  <1>1. OnError(job[p]) \in Job /\ Idle \in Job
    BY OnErrorType, IdleType DEF TypeOK
  <1>2. JobTypes'
    BY <1>1, ToType, TypeParts DEF StatementFails, Crash
  <1>3. RestTypes'
    BY TimesAssumption DEF StatementFails, Crash, TypeOK, RestTypes
  <1> QED
    BY <1>2, <1>3, Same, Retyped DEF StatementFails, Crash

\* The limits service, the payment service and the clock.
LEMMA OutsideTypes ==
  ASSUME TypeOK, HoldMoves \/ Tick \/ \E i \in Payments : RailMoves(i)
  PROVE  TypeOK'
  <1>1. CASE HoldMoves
    <2>1. RestTypes'
      BY <1>1 DEF HoldMoves, TypeOK, RestTypes
    <2> QED
      BY <1>1, <2>1, Same, Retyped DEF HoldMoves
  <1>2. CASE Tick
    <2>1. now \in Nat /\ now + 1 \in Times
      BY <1>2, TimesAssumption DEF Tick, TypeOK, Times
    <2>2. RestTypes'
      BY <1>2, <2>1 DEF Tick, TypeOK, RestTypes
    <2>3. RowTypes'
      BY <1>2, <2>1, TimesAssumption DEF Tick, TypeOK, RowTypes
    <2> QED
      BY <1>2, <2>2, <2>3, Same, Retyped DEF Tick
  <1>3. ASSUME NEW i \in Payments, RailMoves(i)
        PROVE  TypeOK'
    <2>1. \A s \in PaymentStates :
            [rail[i] EXCEPT !.state = s] \in [state : PaymentStates, claimed : Times \union {None}]
      BY DEF TypeOK
    <2>2. PICK s \in PaymentStates : rail' = [rail EXCEPT ![i] = [rail[i] EXCEPT !.state = s]]
      BY <1>3 DEF RailMoves, PaymentStates
    <2>3. RailTypes'
      BY <2>1, <2>2 DEF TypeOK, RailTypes
    <2> QED
      BY <1>3, <2>3, Same, Retyped DEF RailMoves
  <1> QED
    BY <1>1, <1>2, <1>3

LEMMA NextTypes == TypeOK /\ [Next]_vars => TypeOK'
  <1> SUFFICES ASSUME TypeOK, [Next]_vars PROVE TypeOK'
    OBVIOUS
  <1>1. CASE UNCHANGED vars
    BY <1>1, Same, Retyped DEF vars
  <1>2. ASSUME NEW p \in Jobs,
               Call(p) \/ Gate(p) \/ Execute(p) \/ SendPayment(p) \/ JobRun(p)
                 \/ StatementFails(p) \/ Crash(p)
        PROVE  TypeOK'
    BY <1>2, CallTypes, GateTypes, ExecuteTypes, SendPaymentTypes, JobRunTypes, FaultTypes
  <1> QED
    BY <1>1, <1>2, OutsideTypes DEF Next

\* The orders, the payments, the hold and the calls under way keep their types
\* through every interleaving, failed statement and crash, and no payout claim
\* (claimForExecution, ClaimPayment, RetakePaymentInitiation) is ever stamped
\* after the database clock.
THEOREM TypeCorrect == Spec => []TypeOK
  BY InitTypes, NextTypes, PTL DEF Spec

-----------------------------------------------------------------------------
(* The inductive invariant behind DoneMeansSent and CommittedMeansDone *)

SendSteps ==
  {"pay", "unsendable", "send", "record", "outcome", "rejected", "reload", "lookup", "retake"}

\* What the position of job j says of the rows, the books and what was sent.
JobSound(j, rows, books, sent) ==
  /\ rows[j.order].state # "absent"
  /\ j.pc \in {"reconcile", "ask"} => j.order = "payout"
  /\ j.pc \in SendSteps => j.order = "payout" /\ rows["payout"].posted
  /\ j.pc = "ask" => rows["payout"].posted
  /\ j.pc \in {"claim", "inspect", "resume", "post"} /\ j.posted => rows[j.order].posted
  /\ j.pc = "mark" => j.order \in books
  /\ j.pc = "complete" => rows[j.order].posted
  /\ j.pc \in {"record", "outcome"} => sent # {}
  /\ j.pc = "complete" /\ j.order = "payout" => sent # {}
  /\ j.pc = "commit" => rows["payout"].state = "done"

JobsSound == \A p \in Jobs : JobSound(job[p], row, booked, Landed)

RowsSound ==
  /\ row["payout"].state # "absent"
  /\ \A o \in Orders : row[o].posted => o \in booked /\ row[o].state # "absent"

IInv == TypeOK /\ JobsSound /\ RowsSound /\ DoneMeansSent /\ CommittedMeansDone

\* A step never takes back a posting, an order, a completion or a payment, and
\* adds one only when what it rests on is there.
Grows ==
  /\ \A o \in Orders :
       /\ row[o].posted => row'[o].posted
       /\ row'[o].posted => row[o].posted \/ (o \in booked /\ row[o].state # "absent")
       /\ row[o].state # "absent" => row'[o].state # "absent"
  /\ booked \subseteq booked' /\ Landed \subseteq Landed'
  /\ row["payout"].state = "done" => row'["payout"].state = "done"
  /\ row'["payout"].state = "done" =>
       row["payout"].state = "done" \/ (row["payout"].posted /\ Landed # {})
  /\ hold' = "committed" => hold = "committed" \/ row["payout"].state = "done"

LEMMA GrowsRows ==
  ASSUME RowsSound, DoneMeansSent, CommittedMeansDone, Grows
  PROVE  RowsSound' /\ DoneMeansSent' /\ CommittedMeansDone'
  BY DEF RowsSound, DoneMeansSent, CommittedMeansDone, Grows, Orders

LEMMA Still == ASSUME UNCHANGED <<row, booked, rail, hold>> PROVE Grows
  BY DEF Grows, Landed

\* The jobs that do not move rely on what no step takes back.
LEMMA OthersSound ==
  ASSUME TypeOK, JobsSound, Grows, NEW p \in Jobs, NEW n, To(p, n),
         JobSound(n, row', booked', Landed')
  PROVE  JobsSound'
  <1>1. ASSUME NEW q \in Jobs \ {p} PROVE JobSound(job[q], row', booked', Landed')
    <2>1. JobSound(job[q], row, booked, Landed) /\ job[q].order \in Orders /\ "payout" \in Orders
      BY DEF JobsSound, TypeOK, Job, Orders
    <2> QED
      BY <2>1 DEF JobSound, Grows
  <1>2. \A q \in Jobs : job'[q] = IF q = p THEN n ELSE job[q]
    BY DEF To, TypeOK
  <1> QED
    BY <1>1, <1>2 DEF JobsSound

LEMMA WriteGrows ==
  ASSUME TypeOK, NEW o \in Orders, NEW r \in Row, Write(o, r),
         UNCHANGED <<booked, rail, hold>>,
         row[o].posted => r.posted,
         r.posted => row[o].posted \/ (o \in booked /\ row[o].state # "absent"),
         row[o].state # "absent" => r.state # "absent",
         o = "payout" => (row[o].state = "done" => r.state = "done"),
         o = "payout" => (r.state = "done" =>
                            row[o].state = "done" \/ (row[o].posted /\ Landed # {}))
  PROVE  /\ Grows
         /\ row'[o].posted = r.posted /\ row'[o].state = r.state
         /\ \A a \in Orders \ {o} : row'[a] = row[a]
         /\ Landed' = Landed
  <1>1. /\ row'[o] = [r EXCEPT !.modified = now]
        /\ \A a \in Orders \ {o} : row'[a] = row[a]
    BY DEF Write, TypeOK
  <1>2. /\ [r EXCEPT !.modified = now].posted = r.posted
        /\ [r EXCEPT !.modified = now].state = r.state
    BY DEF Row
  <1>3. Landed' = Landed
    BY DEF Landed
  <1> QED
    BY ZenonT(30), <1>1, <1>2, <1>3 DEF Grows, Orders

-----------------------------------------------------------------------------
(* Where a call goes next, again: what the next position relies on *)

LEMMA IdleSound ==
  ASSUME NEW rows, NEW books, NEW sent, rows["payout"].state # "absent"
  PROVE  JobSound(Idle, rows, books, sent)
  BY DEF JobSound, Idle, SendSteps

LEMMA LeaveSound ==
  ASSUME NEW rows, NEW books, NEW sent, NEW j, NEW ok \in BOOLEAN,
         rows["payout"].state # "absent", ok => rows["payout"].state = "done"
  PROVE  JobSound(Leave(j, ok), rows, books, sent)
  <1>1. Leave(j, ok) \in {Idle, [Idle EXCEPT !.pc = "commit"], [Idle EXCEPT !.pc = "unhold"]}
        /\ (Leave(j, ok) = [Idle EXCEPT !.pc = "commit"] => ok)
    BY DEF Leave, Idle
  <1>2. JobSound([Idle EXCEPT !.pc = "unhold"], rows, books, sent)
    BY DEF JobSound, Idle, SendSteps
  <1>3. ok => JobSound([Idle EXCEPT !.pc = "commit"], rows, books, sent)
    BY DEF JobSound, Idle, SendSteps
  <1> QED
    BY <1>1, <1>2, <1>3, IdleSound

LEMMA EndedSound ==
  ASSUME NEW rows, NEW books, NEW sent, NEW j \in Job, NEW ok \in BOOLEAN,
         rows["payout"].state # "absent",
         ok /\ j.order = "payout" => rows["payout"].state = "done"
  PROVE  JobSound(Ended(j, ok), rows, books, sent)
  <1>1. JobSound([j EXCEPT !.order = "payout", !.pc = "close"], rows, books, sent)
    BY DEF JobSound, Job, SendSteps
  <1>2. j.order = "payout" => JobSound(Leave(j, ok), rows, books, sent)
    BY LeaveSound
  <1>3. JobSound(Leave(j, FALSE), rows, books, sent)
    BY LeaveSound
  <1> QED
    BY <1>1, <1>2, <1>3 DEF Ended

LEMMA FailSound ==
  ASSUME NEW rows, NEW books, NEW sent, NEW j \in Job, NEW f \in BOOLEAN,
         rows[j.order].state # "absent"
  PROVE  JobSound(Fail(j, f), rows, books, sent)
  BY DEF JobSound, Fail, Job, SendSteps

LEMMA ReleasedSound ==
  ASSUME NEW rows, NEW books, NEW sent, NEW j \in Job, rows["payout"].state # "absent"
  PROVE  JobSound(Released(j), rows, books, sent)
  <1>1. j.order = "payout" => JobSound([j EXCEPT !.pc = "reverse"], rows, books, sent)
    BY DEF JobSound, Job, SendSteps
  <1> QED
    BY <1>1, EndedSound DEF Released

LEMMA AfterPostingSound ==
  ASSUME NEW rows, NEW books, NEW sent, NEW j \in Job,
         rows[j.order].state # "absent", rows[j.order].posted
  PROVE  JobSound(AfterPosting(j), rows, books, sent)
  <1>1. j.order = "payout" =>
          JobSound([j EXCEPT !.posted = TRUE, !.pc = "pay"], rows, books, sent)
    BY DEF JobSound, Job, SendSteps
  <1>2. j.order # "payout" =>
          JobSound([j EXCEPT !.posted = TRUE, !.pc = "complete"], rows, books, sent)
    BY DEF JobSound, Job, SendSteps
  <1> QED
    BY <1>1, <1>2 DEF AfterPosting

LEMMA FoundSound ==
  ASSUME NEW rows, NEW books, NEW sent, NEW j \in Job, NEW i \in Payments,
         rows["payout"].state # "absent", j.order = "payout", rows["payout"].posted, sent # {}
  PROVE  JobSound(Found(j, i), rows, books, sent)
  <1>1. JobSound([j EXCEPT !.pc = "rejected", !.payment = i], rows, books, sent)
    BY DEF JobSound, Job, SendSteps
  <1>2. /\ \A b \in BOOLEAN : JobSound([j EXCEPT !.pc = "record", !.payment = i, !.paid = b],
                                       rows, books, sent)
        /\ \A b \in BOOLEAN : JobSound([j EXCEPT !.pc = "outcome", !.payment = i, !.paid = b],
                                       rows, books, sent)
    BY DEF JobSound, Job, SendSteps
  <1>3. (rail[i].state = "paid") \in BOOLEAN
    OBVIOUS
  <1> QED
    BY <1>1, <1>2, <1>3 DEF Found

-----------------------------------------------------------------------------
(* Every step keeps the invariant, one group of steps at a time *)

LEMMA CallSound ==
  ASSUME IInv, NEW p \in Jobs, Call(p)
  PROVE  Grows /\ JobsSound'
  <1>1. ASSUME NEW call \in {"execute", "reconcile", "fail", "notify"},
               NEW c \in {"load", "reserve", "reconcile", "tell", "shut"}, Start(p, call, c)
        PROVE  Grows /\ JobsSound'
    <2>1. Grows /\ Landed' = Landed
      BY <1>1, Still DEF Start, Landed
    <2>2. JobSound([Idle EXCEPT !.call = call, !.pc = c], row', booked', Landed')
      BY <1>1 DEF JobSound, Idle, SendSteps, Start, IInv, RowsSound
    <2> QED
      BY <1>1, <2>1, <2>2, OthersSound DEF Start, IInv
  <1> QED
    BY <1>1 DEF Call, StartExecute, StartReconcile, StartNotify, StartFail

LEMMA GateSound ==
  ASSUME IInv, NEW p \in Jobs, Gate(p)
  PROVE  Grows /\ JobsSound'
  <1>1. Grows /\ Landed' = Landed
    BY DEF Gate, GateReserve, GateCommit, GateRelease, Grows, Landed, IInv, JobsSound, JobSound, At
  <1>2. row' = row /\ booked' = booked
    BY DEF Gate, GateReserve, GateCommit, GateRelease
  <1>3. JobSound(Idle, row', booked', Landed')
    BY <1>2, IdleSound DEF IInv, RowsSound
  <1>4. JobSound([job[p] EXCEPT !.pc = "load"], row', booked', Landed')
    <2>1. JobSound(job[p], row, booked, Landed) /\ job[p] \in Job
      BY DEF IInv, JobsSound, TypeOK
    <2> QED
      BY <1>1, <1>2, <2>1 DEF JobSound, Job, SendSteps
  <1>5. To(p, Idle) \/ To(p, [job[p] EXCEPT !.pc = "load"])
    BY DEF Gate, GateReserve, GateCommit, GateRelease
  <1> QED
    BY <1>1, <1>3, <1>4, <1>5, OthersSound DEF IInv

LEMMA ExecuteSound ==
  ASSUME IInv, NEW p \in Jobs, Execute(p)
  PROVE  Grows /\ JobsSound'
  <1> DEFINE j == job[p]
  <1> DEFINE r == row[j.order]
  <1>1. /\ TypeOK /\ j \in Job /\ j.order \in Orders /\ r \in Row /\ "payout" \in Orders
        /\ row["payout"] \in Row /\ row["payout"].state # "absent"
        /\ JobSound(j, row, booked, Landed) /\ r.state # "absent"
        /\ \A o \in Orders : row[o].posted => o \in booked
    BY DEF IInv, TypeOK, Job, Orders, JobsSound, JobSound, RowsSound
  <1>2. SUFFICES Grows /\ \E n \in Job : To(p, n) /\ JobSound(n, row', booked', Landed')
    <2>1. ASSUME NEW n \in Job, To(p, n), JobSound(n, row', booked', Landed'), Grows
          PROVE  JobsSound'
      BY <2>1, OthersSound DEF IInv
    <2> QED
      BY <2>1
  <1>3. CASE Load(p)
    <2>1. Grows /\ UNCHANGED <<row, booked, Landed>>
      BY <1>3, Still DEF Load, Landed
    <2>2. PICK n : n = [j EXCEPT !.pc = "claim", !.posted = r.posted,
                                 !.failed = r.outcome = "failed"]
      OBVIOUS
    <2>3. n \in Job /\ JobSound(n, row, booked, Landed)
      <3>1. r.posted \in BOOLEAN /\ (r.outcome = "failed") \in BOOLEAN
        BY <1>1 DEF Row
      <3>2. n \in Job
        BY <1>1, <2>2, <3>1, LoadType
      <3>3. n.pc = "claim" /\ n.order = j.order /\ n.posted = r.posted
        BY <1>1, <2>2 DEF Job
      <3>4. JobSound(n, row, booked, Landed)
        BY <1>1, <3>3 DEF JobSound, SendSteps
      <3> QED
        BY <3>2, <3>4
    <2>4. PICK ok \in BOOLEAN : ok <=> r.outcome # "failed"
      OBVIOUS
    <2>5. Ended(j, ok) \in Job /\ Ended(j, FALSE) \in Job
      BY <1>1, EndedType
    <2>6. JobSound(Ended(j, FALSE), row, booked, Landed)
      BY <1>1, EndedSound
    <2>7. r.state = "done" => JobSound(Ended(j, ok), row, booked, Landed)
      BY <1>1, EndedSound
    <2>8. Ended(j, r.outcome # "failed") = Ended(j, ok)
      BY <2>4
    <2> QED
      BY <1>3, <2>1, <2>2, <2>3, <2>5, <2>6, <2>7, <2>8 DEF Load
  <1>4. CASE Claim(p)
    <2>1. /\ [r EXCEPT !.state = "executing"] \in Row
          /\ [r EXCEPT !.state = "executing"].posted = r.posted
          /\ [r EXCEPT !.state = "executing"].state = "executing"
      BY <1>1 DEF Row
    <2>2. Grows /\ Landed' = Landed
      BY <1>1, <1>4, <2>1, WriteGrows, Still DEF Claim, Landed
    <2>3. \A c \in {"post", "inspect"} :
            [j EXCEPT !.pc = c] \in Job
            /\ (At(p, "claim") => JobSound([j EXCEPT !.pc = c], row', booked', Landed'))
      BY <1>1, <2>2 DEF JobSound, Job, SendSteps, Grows, At
    <2> QED
      BY <1>4, <2>2, <2>3 DEF Claim
  <1>5. CASE Inspect(p)
    <2>1. Grows /\ UNCHANGED <<row, booked, Landed>>
      BY <1>5, Still DEF Inspect, Landed
    <2>2. PICK n : n = [j EXCEPT !.pc = "resume", !.posted = r.posted,
                                 !.failed = r.outcome = "failed", !.before = now - StaleAfter]
      OBVIOUS
    <2>3. JobSound(n, row, booked, Landed)
      BY <1>1, <2>2 DEF JobSound, Job, Row, SendSteps
    <2>4. r.state = "executing" /\ r.modified <= now - StaleAfter => n \in Job
      <3>1. r.modified <= now - StaleAfter => now - StaleAfter \in Times
        BY <1>1, TimesAssumption DEF Row, Times, TypeOK
      <3>2. r.posted \in BOOLEAN /\ (r.outcome = "failed") \in BOOLEAN
        BY <1>1 DEF Row
      <3> QED
        BY <1>1, <2>2, <3>1, <3>2, ResumeType
    <2>5. Ended(j, TRUE) \in Job /\ Ended(j, FALSE) \in Job
      BY <1>1, EndedType
    <2>6. JobSound(Ended(j, FALSE), row, booked, Landed)
      BY <1>1, EndedSound
    <2>7. r.state = "done" => JobSound(Ended(j, TRUE), row, booked, Landed)
      <3>1. PICK ok \in BOOLEAN : ok = TRUE
        OBVIOUS
      <3>2. r.state = "done" => JobSound(Ended(j, ok), row, booked, Landed)
        BY <1>1, EndedSound
      <3> QED
        BY <3>1, <3>2
    <2> QED
      BY <1>5, <2>1, <2>2, <2>3, <2>4, <2>5, <2>6, <2>7 DEF Inspect
  <1>6. CASE Resume(p)
    <2>1. Grows /\ Landed' = Landed /\ row'["payout"].state # "absent"
      <3>1. Grows /\ Landed' = Landed
        BY <1>1, <1>6, WriteGrows, Still DEF Resume, Landed
      <3> QED
        BY <1>1, <3>1 DEF Grows
    <2>2. [j EXCEPT !.pc = "post", !.before = None] \in Job
          /\ JobSound([j EXCEPT !.pc = "post", !.before = None], row', booked', Landed')
      <3>1. PICK n : n = [j EXCEPT !.pc = "post", !.before = None]
        OBVIOUS
      <3>2. n \in Job /\ n.pc = "post" /\ n.order = j.order /\ n.posted = j.posted
        BY <1>1, <3>1 DEF Job
      <3>3. j.posted => row'[j.order].posted
        BY <1>1, <1>6, <2>1 DEF JobSound, Resume, At, Grows
      <3>4. row'[j.order].state # "absent"
        BY <1>1, <2>1 DEF Grows
      <3>5. JobSound(n, row', booked', Landed')
        BY <3>2, <3>3, <3>4 DEF JobSound, SendSteps
      <3> QED
        BY <3>1, <3>2, <3>5
    <2>3. Ended(j, FALSE) \in Job /\ JobSound(Ended(j, FALSE), row', booked', Landed')
      BY <1>1, <2>1, EndedType, EndedSound
    <2> QED
      BY <1>6, <2>1, <2>2, <2>3 DEF Resume
  <1>7. AfterPosting(j) \in Job
    <2>1. \A c \in {"pay", "complete"} : [j EXCEPT !.posted = TRUE, !.pc = c] \in Job
      BY <1>1 DEF Job
    <2> QED
      BY <2>1 DEF AfterPosting
  <1>8. CASE PostLedger(p)
    <2>1. Grows /\ row' = row /\ Landed' = Landed
      BY <1>8 DEF PostLedger, Grows, Landed
    <2>2. [j EXCEPT !.pc = "mark"] \in Job
          /\ (j.order \in booked' =>
                JobSound([j EXCEPT !.pc = "mark"], row', booked', Landed'))
      BY <1>1, <2>1 DEF JobSound, Job, SendSteps
    <2>3. Fail(j, FALSE) \in Job /\ JobSound(Fail(j, FALSE), row', booked', Landed')
      BY <1>1, <2>1, FailType, FailSound
    <2>4. At(p, "post") /\ j.posted => JobSound(AfterPosting(j), row', booked', Landed')
      <3>1. At(p, "post") /\ j.posted => r.posted
        BY <1>1 DEF JobSound, At
      <3> QED
        BY <1>1, <2>1, <3>1, AfterPostingSound
    <2> QED
      BY <1>7, <1>8, <2>1, <2>2, <2>3, <2>4 DEF PostLedger
  <1>9. CASE MarkPosted(p)
    <2>1. /\ [r EXCEPT !.posted = TRUE] \in Row
          /\ [r EXCEPT !.posted = TRUE].posted = TRUE
          /\ [r EXCEPT !.posted = TRUE].state = r.state
      BY <1>1 DEF Row
    <2>2. j.order \in booked
      BY <1>1, <1>9 DEF JobSound, MarkPosted, At
    <2>3. Grows /\ row'[j.order].posted /\ row'[j.order].state # "absent"
      BY ZenonT(30), <1>1, <1>9, <2>1, <2>2, WriteGrows DEF MarkPosted
    <2>4. JobSound(AfterPosting(j), row', booked', Landed')
      BY <1>1, <2>3, AfterPostingSound
    <2> QED
      BY <1>7, <1>9, <2>3, <2>4 DEF MarkPosted
  <1>10. CASE Complete(p)
    <2>1. /\ [r EXCEPT !.state = "done"] \in Row
          /\ [r EXCEPT !.state = "done"].posted = r.posted
          /\ [r EXCEPT !.state = "done"].state = "done"
      BY <1>1 DEF Row
    <2>2. r.posted /\ (j.order = "payout" => Landed # {})
      BY <1>1, <1>10 DEF JobSound, Complete, At
    <2>3. Grows /\ (r.state = "executing" => row'[j.order].state = "done")
      BY <1>1, <1>10, <2>1, <2>2, WriteGrows, Still DEF Complete
    <2>4. row'["payout"].state # "absent"
      BY <1>1, <2>3 DEF Grows
    <2>5. PICK ok \in BOOLEAN : ok <=> r.state = "executing"
      OBVIOUS
    <2>6. Ended(j, ok) \in Job
      BY <1>1, EndedType
    <2>7. JobSound(Ended(j, ok), row', booked', Landed')
      BY <1>1, <2>3, <2>4, <2>5, EndedSound
    <2>8. Ended(j, r.state = "executing") = Ended(j, ok)
      BY <2>5
    <2> QED
      BY <1>10, <2>3, <2>6, <2>7, <2>8 DEF Complete
  <1>11. CASE Release(p)
    <2>1. /\ [r EXCEPT !.state = "created"] \in Row
          /\ [r EXCEPT !.state = "created"].posted = r.posted
          /\ [r EXCEPT !.state = "created"].state = "created"
      BY <1>1 DEF Row
    <2>2. Grows
      BY <1>1, <1>11, <2>1, WriteGrows, Still DEF Release
    <2>3. row'["payout"].state # "absent"
      BY <1>1, <2>2 DEF Grows
    <2>4. Released(j) \in Job /\ JobSound(Released(j), row', booked', Landed')
      BY <1>1, <2>3, ReleasedType, ReleasedSound
    <2> QED
      BY <1>11, <2>2, <2>4 DEF Release
  <1>12. CASE SaveReversal(p)
    <2>1. /\ NewRow("created") \in Row /\ NewRow("created").posted = FALSE
          /\ NewRow("created").state = "created" /\ "reversal" \in Orders
      BY NewRowType DEF TypeOK, IInv, NewRow, Orders
    <2>2. row["reversal"].state = "absent" => ~row["reversal"].posted
      BY <2>1 DEF IInv, RowsSound
    <2>3. Grows /\ row'["reversal"].state # "absent"
      BY SMTT(30), <1>1, <1>12, <2>1, <2>2, WriteGrows, Still DEF SaveReversal
    <2>4. [j EXCEPT !.order = "reversal", !.pc = "load"] \in Job
          /\ JobSound([j EXCEPT !.order = "reversal", !.pc = "load"], row', booked', Landed')
      <3>1. PICK n : n = [j EXCEPT !.order = "reversal", !.pc = "load"]
        OBVIOUS
      <3>2. n \in Job /\ n.order = "reversal" /\ n.pc = "load"
        BY <1>1, <3>1, ToReversalType DEF Job
      <3>3. JobSound(n, row', booked', Landed')
        BY <2>3, <3>2 DEF JobSound, SendSteps
      <3> QED
        BY <3>1, <3>2, <3>3
    <2> QED
      BY <1>12, <2>3, <2>4 DEF SaveReversal
  <1>13. CASE Close(p)
    <2>1. /\ [row["payout"] EXCEPT !.state = "shut"] \in Row
          /\ [row["payout"] EXCEPT !.state = "shut"].posted = row["payout"].posted
          /\ [row["payout"] EXCEPT !.state = "shut"].state = "shut"
      BY <1>1 DEF Row
    <2>2. Grows
      BY <1>1, <1>13, <2>1, WriteGrows, Still DEF Close
    <2>3. row'["payout"].state # "absent"
      BY <1>1, <2>2 DEF Grows
    <2>4. Leave(j, FALSE) \in Job /\ JobSound(Leave(j, FALSE), row', booked', Landed')
      BY <1>1, <2>3, LeaveType, LeaveSound
    <2> QED
      BY <1>13, <2>2, <2>4 DEF Close
  <1> QED
    BY <1>3, <1>4, <1>5, <1>6, <1>8, <1>9, <1>10, <1>11, <1>12, <1>13 DEF Execute

\* A statement of the payout side effect leaves state and posting alone.
LEMMA PayoutRowGrows ==
  ASSUME IInv, UNCHANGED <<booked, rail, hold>>,
         UNCHANGED row \/ \E n \in Row : /\ Write("payout", n)
                                         /\ n.posted = row["payout"].posted
                                         /\ n.state = row["payout"].state
  PROVE  Grows
  <1>1. "payout" \in Orders /\ TypeOK
    BY DEF Orders, IInv
  <1>2. ASSUME NEW n \in Row, Write("payout", n), n.posted = row["payout"].posted,
               n.state = row["payout"].state
        PROVE  Grows
    BY <1>1, <1>2, WriteGrows
  <1> QED
    BY <1>2, Still

LEMMA WriteFailedGrows ==
  ASSUME IInv, UNCHANGED <<booked, rail, hold>>, NEW i \in Payments \union {None}, WriteFailed(i)
  PROVE  Grows
  <1> DEFINE r == row["payout"]
  <1>1. r \in Row
    BY DEF IInv, TypeOK, Orders
  <1>2. /\ [r EXCEPT !.outcome = "failed", !.payment = i] \in Row
        /\ [r EXCEPT !.outcome = "failed", !.payment = i].posted = r.posted
        /\ [r EXCEPT !.outcome = "failed", !.payment = i].state = r.state
    BY <1>1 DEF Row, Outcomes
  <1> QED
    BY <1>2, PayoutRowGrows DEF WriteFailed

LEMMA SendPaymentSound ==
  ASSUME IInv, NEW p \in Jobs, SendPayment(p)
  PROVE  Grows /\ JobsSound'
  <1> DEFINE j == job[p]
  <1> DEFINE r == row["payout"]
  <1>1. /\ TypeOK /\ j \in Job /\ r \in Row /\ r.state # "absent" /\ now \in Times
        /\ JobSound(j, row, booked, Landed)
    BY DEF IInv, TypeOK, Orders, JobsSound, RowsSound
  <1>2. j.pc \in SendSteps /\ j.order = "payout" /\ r.posted
    <2>1. j.pc \in SendSteps
      BY DEF SendPayment, SendSteps, At, ClaimPayout, MarkUnsendable, Send, RecordPayment,
             SetOutcome, MarkRejected, Reload, Lookup, Retake
    <2> QED
      BY <1>1, <2>1 DEF JobSound
  <1>3. ASSUME Grows PROVE /\ row'["payout"].posted /\ row'["payout"].state # "absent"
                           /\ Landed # {} => Landed' # {}
    BY <1>1, <1>2, <1>3 DEF Grows, Orders
  <1>4. ASSUME Grows, NEW n \in Job, To(p, n), n.order = "payout",
               \/ n.pc \in {"send", "unsendable", "reload", "rejected", "lookup", "retake",
                            "reverse", "release"}
               \/ n.pc \in {"record", "outcome", "complete"} /\ Landed' # {}
        PROVE  Grows /\ JobsSound'
    <2>1. JobSound(n, row', booked', Landed')
      BY <1>3, <1>4 DEF JobSound, SendSteps
    <2> QED
      BY <1>1, <1>4, <2>1, OthersSound DEF IInv
  <1>5. ASSUME Grows, To(p, Idle) PROVE Grows /\ JobsSound'
    BY <1>1, <1>3, <1>5, IdleSound, OthersSound DEF IInv
  <1>6. \A b \in BOOLEAN : /\ Fail(j, b) \in Job /\ Fail(j, b).pc = "release"
                           /\ Fail(j, b).order = "payout"
    BY <1>1, <1>2 DEF Fail, Job
  <1>7. \A c \in {"send", "unsendable", "reload", "retake", "reverse", "complete", "outcome"} :
          /\ [j EXCEPT !.pc = c] \in Job
          /\ [j EXCEPT !.pc = c].pc = c /\ [j EXCEPT !.pc = c].order = "payout"
    BY <1>1, <1>2 DEF Job
  <1>8. /\ now \in Times
        /\ [r EXCEPT !.initiated = now] \in Row
        /\ [r EXCEPT !.initiated = now].posted = r.posted
        /\ [r EXCEPT !.initiated = now].state = r.state
    BY <1>1 DEF Row
  <1>9. CASE ClaimPayout(p)
    <2>1. Grows
      BY <1>8, <1>9, PayoutRowGrows DEF ClaimPayout
    <2> QED
      BY <1>4, <1>6, <1>7, <1>9, <2>1 DEF ClaimPayout
  <1>10. CASE MarkUnsendable(p)
    <2>1. Grows
      BY <1>10, WriteFailedGrows DEF MarkUnsendable
    <2> QED
      BY <1>4, <1>6, <1>10, <2>1 DEF MarkUnsendable
  <1>11. CASE Send(p)
    <2> DEFINE i == NextPayment
    <2> DEFINE lands(s) ==
          rail' = [rail EXCEPT ![i] = [state |-> s, claimed |-> r.initiated]]
    <2>1. ASSUME Landed # Payments, NEW s \in {"queued", "paid", "failed"}, lands(s)
          PROVE  Landed \subseteq Landed' /\ Landed' # {}
      <3>1. i \in Payments
        BY <2>1, NextPaymentType
      <3>2. rail'[i].state = s /\ \A k \in Payments \ {i} : rail'[k] = rail[k]
        BY <1>1, <2>1, <3>1 DEF TypeOK
      <3> QED
        BY <3>1, <3>2 DEF Landed
    <2>2. ASSUME Landed # Payments
          PROVE  /\ [j EXCEPT !.pc = "record", !.payment = i] \in Job
                 /\ [j EXCEPT !.pc = "record", !.payment = i].pc = "record"
                 /\ [j EXCEPT !.pc = "record", !.payment = i].order = "payout"
                 /\ [j EXCEPT !.pc = "record", !.payment = i, !.paid = TRUE] \in Job
                 /\ [j EXCEPT !.pc = "record", !.payment = i, !.paid = TRUE].pc = "record"
                 /\ [j EXCEPT !.pc = "record", !.payment = i, !.paid = TRUE].order = "payout"
                 /\ [j EXCEPT !.pc = "rejected", !.payment = i] \in Job
                 /\ [j EXCEPT !.pc = "rejected", !.payment = i].pc = "rejected"
                 /\ [j EXCEPT !.pc = "rejected", !.payment = i].order = "payout"
      BY <1>1, <1>2, <2>2, NextPaymentType DEF Job
    <2>3. \/ UNCHANGED rail
          \/ Landed # Payments /\ \E s \in {"queued", "paid", "failed"} : lands(s)
      BY <1>11 DEF Send
    <2>4. Landed \subseteq Landed'
      BY <2>1, <2>3 DEF Landed
    <2>5. Grows
      BY <1>11, <2>4 DEF Send, Grows
    <2>6. CASE To(p, Fail(j, FALSE))
      BY <1>4, <1>6, <2>5, <2>6
    <2>7. CASE Landed # Payments /\ lands("queued") /\ To(p, [j EXCEPT !.pc = "complete"])
      BY <1>4, <1>7, <2>1, <2>5, <2>7
    <2>8. CASE Landed # Payments /\ lands("queued")
                 /\ To(p, [j EXCEPT !.pc = "record", !.payment = i])
      BY <1>4, <2>1, <2>2, <2>5, <2>8
    <2>9. CASE Landed # Payments /\ lands("paid")
                 /\ To(p, [j EXCEPT !.pc = "record", !.payment = i, !.paid = TRUE])
      BY <1>4, <2>1, <2>2, <2>5, <2>9
    <2>10. CASE Landed # Payments /\ lands("failed")
                 /\ To(p, [j EXCEPT !.pc = "rejected", !.payment = i])
      BY <1>4, <2>1, <2>2, <2>5, <2>10
    <2> QED
      BY <1>11, <2>6, <2>7, <2>8, <2>9, <2>10 DEF Send
  <1>12. CASE RecordPayment(p)
    <2>1. /\ [r EXCEPT !.payment = j.payment] \in Row
          /\ [r EXCEPT !.payment = j.payment].posted = r.posted
          /\ [r EXCEPT !.payment = j.payment].state = r.state
      BY <1>1 DEF Row, Job
    <2>2. Grows
      BY <1>12, <2>1, PayoutRowGrows DEF RecordPayment
    <2>3. Landed' # {}
      BY <1>1, <1>3, <1>12, <2>2 DEF JobSound, RecordPayment, At
    <2> QED
      BY <1>4, <1>7, <1>12, <2>2, <2>3 DEF RecordPayment
  <1>13. CASE SetOutcome(p)
    <2>1. \A o \in {"confirmed", "pending"} : /\ [r EXCEPT !.outcome = o] \in Row
                                              /\ [r EXCEPT !.outcome = o].posted = r.posted
                                              /\ [r EXCEPT !.outcome = o].state = r.state
      BY <1>1 DEF Row, Outcomes
    <2>2. Grows
      BY <1>13, <2>1, PayoutRowGrows DEF SetOutcome
    <2>3. Landed' # {}
      BY <1>1, <1>3, <1>13, <2>2 DEF JobSound, SetOutcome, At
    <2> QED
      BY <1>4, <1>5, <1>7, <1>13, <2>2, <2>3 DEF SetOutcome
  <1>14. CASE MarkRejected(p)
    <2>1. Grows
      BY <1>1, <1>14, WriteFailedGrows DEF MarkRejected, Job
    <2> QED
      BY <1>4, <1>6, <1>7, <1>14, <2>1 DEF MarkRejected
  <1>15. CASE Reload(p)
    <2>1. Grows
      BY <1>15, Still DEF Reload
    <2>2. PICK n : n = [j EXCEPT !.pc = "lookup", !.payment = r.payment, !.before = r.initiated]
      OBVIOUS
    <2>3. n \in Job /\ n.pc = "lookup" /\ n.order = "payout"
      BY <1>1, <1>2, <2>2 DEF Job, Row
    <2>4. To(p, Fail(j, TRUE)) \/ To(p, n)
      BY <1>15, <2>2 DEF Reload
    <2> QED
      BY <1>4, <1>6, <2>1, <2>3, <2>4
  <1>16. CASE Lookup(p)
    <2>1. Grows /\ Landed' = Landed
      BY <1>16, Still DEF Lookup, Landed
    <2>2. ASSUME NEW i \in Visible
          PROVE  /\ Found(j, i) \in Job
                 /\ JobSound(Found(j, i), row', booked', Landed')
      <3>1. i \in Payments /\ Landed' # {}
        BY <2>1 DEF Visible, Landed
      <3> QED
        BY <1>1, <1>2, <1>3, <2>1, <3>1, FoundType, FoundSound
    <2>3. ASSUME NEW i \in Visible, To(p, Found(j, i)) PROVE Grows /\ JobsSound'
      BY <1>1, <2>1, <2>2, <2>3, OthersSound DEF IInv
    <2> QED
      BY <1>4, <1>6, <1>7, <1>16, <2>1, <2>3 DEF Lookup
  <1>17. CASE Retake(p)
    <2>1. Grows
      BY <1>8, <1>17, PayoutRowGrows DEF Retake
    <2>2. /\ [j EXCEPT !.pc = "send", !.before = None] \in Job
          /\ [j EXCEPT !.pc = "send", !.before = None].pc = "send"
          /\ [j EXCEPT !.pc = "send", !.before = None].order = "payout"
      BY <1>1, <1>2 DEF Job
    <2> QED
      BY <1>4, <1>6, <1>17, <2>1, <2>2 DEF Retake
  <1> QED
    BY <1>9, <1>10, <1>11, <1>12, <1>13, <1>14, <1>15, <1>16, <1>17 DEF SendPayment

LEMMA JobRunSound ==
  ASSUME IInv, NEW p \in Jobs, JobRun(p)
  PROVE  Grows /\ JobsSound'
  <1> DEFINE j == job[p]
  <1> DEFINE r == row["payout"]
  <1>1. /\ TypeOK /\ j \in Job /\ r \in Row /\ r.state # "absent" /\ "payout" \in Orders
        /\ JobSound(j, row, booked, Landed)
    BY DEF IInv, TypeOK, Orders, JobsSound, RowsSound
  <1>2. ASSUME Grows, To(p, Idle) PROVE JobsSound'
    <2>1. row'["payout"].state # "absent"
      BY <1>1, <1>2 DEF Grows
    <2> QED
      BY <1>2, <2>1, IdleSound, OthersSound DEF IInv
  <1>3. CASE MarkShut(p)
    <2>1. /\ [r EXCEPT !.state = "shut"] \in Row
          /\ [r EXCEPT !.state = "shut"].posted = r.posted
          /\ [r EXCEPT !.state = "shut"].state = "shut"
      BY <1>1 DEF Row
    <2>2. Grows
      BY <1>1, <1>3, <2>1, WriteGrows, Still DEF MarkShut
    <2> QED
      BY <1>2, <1>3, <2>2 DEF MarkShut
  <1>4. CASE Reconcile(p)
    <2>1. Grows /\ UNCHANGED <<row, booked, Landed>>
      BY <1>4, Still DEF Reconcile, Landed
    <2>2. \A c \in {"load", "reserve"} : JobSound([Idle EXCEPT !.pc = c], row, booked, Landed)
      BY <1>1 DEF JobSound, Idle, SendSteps
    <2>3. PICK n : n = [j EXCEPT !.pc = "ask", !.posted = r.posted, !.payment = r.payment]
      OBVIOUS
    <2>4. n.pc = "ask" /\ n.order = "payout"
      BY <1>1, <1>4, <2>3 DEF JobSound, Job, Reconcile, At
    <2>5. r.state = "done" => JobSound(n, row, booked, Landed)
      BY <1>1, <2>4 DEF JobSound, SendSteps, IInv, DoneMeansSent
    <2>6. \/ To(p, Idle) \/ \E c \in {"load", "reserve"} : To(p, [Idle EXCEPT !.pc = c])
          \/ r.state = "done" /\ To(p, n)
      BY <1>4, <2>3 DEF Reconcile
    <2> QED
      BY <1>1, <1>2, <2>1, <2>2, <2>5, <2>6, OthersSound DEF IInv
  <1>5. CASE Ask(p)
    <2>1. Grows /\ UNCHANGED <<row, booked, Landed>>
      BY <1>5, Still DEF Ask, Landed
    <2>2. ASSUME NEW i \in Visible PROVE JobSound(Found(j, i), row, booked, Landed)
      <3>1. i \in Payments /\ Landed # {}
        BY DEF Visible, Landed
      <3>2. j.order = "payout" /\ r.posted
        BY <1>1, <1>5 DEF JobSound, Ask, At
      <3> QED
        BY <1>1, <3>1, <3>2, FoundSound
    <2>3. ASSUME NEW i \in Visible, To(p, Found(j, i)) PROVE JobsSound'
      BY <1>1, <2>1, <2>2, <2>3, OthersSound DEF IInv
    <2> QED
      BY <1>2, <1>5, <2>1, <2>3 DEF Ask
  <1>6. CASE Tell(p)
    <2>1. Grows /\ UNCHANGED <<row, booked, Landed>>
      BY <1>6, Still DEF Tell, Landed
    <2>2. JobSound([j EXCEPT !.pc = "notified"], row, booked, Landed)
      BY <1>1 DEF JobSound, Job, SendSteps
    <2> QED
      BY <1>1, <1>2, <1>6, <2>1, <2>2, OthersSound DEF Tell, IInv
  <1>7. CASE MarkNotified(p)
    <2>1. /\ row' = [row EXCEPT !["payout"] = [r EXCEPT !.notified = TRUE]]
          /\ UNCHANGED <<booked, rail, hold>>
      BY <1>7 DEF MarkNotified
    <2>2. [r EXCEPT !.notified = TRUE].posted = r.posted
          /\ [r EXCEPT !.notified = TRUE].state = r.state
      BY <1>1 DEF Row
    <2>3. row'["payout"].posted = r.posted /\ row'["payout"].state = r.state
          /\ \A o \in Orders \ {"payout"} : row'[o] = row[o]
      BY <1>1, <2>1, <2>2 DEF TypeOK
    <2>4. Grows
      BY <1>1, <2>1, <2>3 DEF Grows, Landed
    <2> QED
      BY <1>2, <1>7, <2>4 DEF MarkNotified
  <1> QED
    BY <1>3, <1>4, <1>5, <1>6, <1>7 DEF JobRun

\* Wherever a job fails or dies, what it leaves behind still holds.
LEMMA FaultSound ==
  ASSUME IInv, NEW p \in Jobs, StatementFails(p) \/ Crash(p)
  PROVE  Grows /\ JobsSound'
  <1> DEFINE j == job[p]
  <1>1. /\ TypeOK /\ j \in Job /\ row["payout"].state # "absent"
        /\ JobSound(j, row, booked, Landed) /\ row[j.order].state # "absent"
    BY DEF IInv, TypeOK, JobsSound, RowsSound, JobSound
  <1>2. Grows /\ UNCHANGED <<row, booked, Landed>>
    BY Still DEF StatementFails, Crash, Landed
  <1>3. /\ JobSound(Ended(j, FALSE), row, booked, Landed)
        /\ JobSound(Leave(j, FALSE), row, booked, Landed)
    BY <1>1, EndedSound, LeaveSound
  <1>4. /\ \A b \in BOOLEAN : JobSound(Fail(j, b), row, booked, Landed)
        /\ JobSound(Released(j), row, booked, Landed)
        /\ JobSound(Idle, row, booked, Landed)
    BY <1>1, FailSound, ReleasedSound, IdleSound
  <1>5. j.pc = "record" => JobSound([j EXCEPT !.pc = "outcome"], row, booked, Landed)
    BY <1>1 DEF JobSound, Job, SendSteps
  <1>6. j.pc = "outcome" => JobSound([j EXCEPT !.pc = "complete"], row, booked, Landed)
    BY <1>1 DEF JobSound, Job, SendSteps
  <1>7. JobSound(OnError(j), row, booked, Landed)
    BY <1>3, <1>4, <1>5, <1>6 DEF OnError
  <1>8. To(p, OnError(j)) \/ To(p, Idle)
    BY DEF StatementFails, Crash
  <1> QED
    BY <1>1, <1>2, <1>4, <1>7, <1>8, OthersSound DEF IInv

LEMMA OutsideSound ==
  ASSUME IInv, HoldMoves \/ Tick \/ \E i \in Payments : RailMoves(i)
  PROVE  Grows /\ JobsSound'
  <1>1. UNCHANGED <<row, booked, job>>
    BY DEF HoldMoves, Tick, RailMoves
  <1>2. Landed' = Landed
    <2>1. ASSUME NEW i \in Payments, RailMoves(i) PROVE Landed' = Landed
      <3>1. PICK s \in {"taken", "paid", "failed"} :
              rail' = [rail EXCEPT ![i] = [rail[i] EXCEPT !.state = s]]
        BY <2>1 DEF RailMoves
      <3>2. [rail[i] EXCEPT !.state = s].state = s /\ rail[i].state # "none"
        BY <2>1 DEF RailMoves, IInv, TypeOK
      <3>3. rail'[i].state = s /\ \A k \in Payments \ {i} : rail'[k] = rail[k]
        BY <3>1, <3>2 DEF IInv, TypeOK
      <3> QED
        BY <3>2, <3>3 DEF Landed
    <2> QED
      BY <2>1 DEF HoldMoves, Tick, Landed
  <1>3. hold' = "committed" => hold = "committed"
    BY DEF HoldMoves, Tick, RailMoves
  <1> QED
    BY <1>1, <1>2, <1>3 DEF Grows, JobsSound, IInv

LEMMA InvInit == Init => IInv
  <1> SUFFICES ASSUME Init PROVE IInv
    OBVIOUS
  <1>1. TypeOK
    BY InitTypes
  <1>2. row["payout"].state = "created" /\ \A o \in Orders : row[o].posted = FALSE
    BY DEF Init, NewRow, Orders
  <1>3. JobsSound
    BY <1>2, IdleSound DEF Init, JobsSound
  <1> QED
    BY <1>1, <1>2, <1>3 DEF Init, IInv, RowsSound, DoneMeansSent, CommittedMeansDone

LEMMA InvNext == IInv /\ [Next]_vars => IInv'
  <1> SUFFICES ASSUME IInv, [Next]_vars PROVE IInv'
    OBVIOUS
  <1>1. TypeOK'
    BY NextTypes DEF IInv
  <1>2. Grows /\ JobsSound'
    <2>1. CASE UNCHANGED vars
      <3>1. Grows /\ UNCHANGED <<row, booked, job, Landed>>
        BY <2>1, Still DEF vars, Landed
      <3> QED
        BY <3>1 DEF IInv, JobsSound
    <2>2. ASSUME NEW p \in Jobs,
                 Call(p) \/ Gate(p) \/ Execute(p) \/ SendPayment(p) \/ JobRun(p)
                   \/ StatementFails(p) \/ Crash(p)
          PROVE  Grows /\ JobsSound'
      BY <2>2, CallSound, GateSound, ExecuteSound, SendPaymentSound, JobRunSound, FaultSound
    <2> QED
      BY <2>1, <2>2, OutsideSound DEF Next
  <1>3. RowsSound' /\ DoneMeansSent' /\ CommittedMeansDone'
    BY <1>2, GrowsRows DEF IInv
  <1> QED
    BY <1>1, <1>2, <1>3 DEF IInv

\* Completion (executeInner step 6) under every interleaving of executions,
\* reconciliations and faults: an order marked done has its ledger leg posted
\* and its money handed to the rail.
THEOREM DoneIsSent == Spec => []DoneMeansSent
  <1>1. IInv => DoneMeansSent
    BY DEF IInv
  <1> QED
    BY <1>1, InvInit, InvNext, PTL DEF Spec

\* pkg/limits Gate around Execute: the hold of an order is committed only once
\* the order is done, whichever call commits it.
THEOREM CommittedIsDone == Spec => []CommittedMeansDone
  <1>1. IInv => CommittedMeansDone
    BY DEF IInv
  <1> QED
    BY <1>1, InvInit, InvNext, PTL DEF Spec

-----------------------------------------------------------------------------
(***************************************************************************)
(* TransferOrder implements Payout, for any set of jobs and any bounds: a   *)
(* payout order hands its money to the rail at most once, the payout status *)
(* on its row is the rail's word, and the books are put back only for money *)
(* that never reaches the recipient. The argument is about ages: a claim is *)
(* used, and what was sent under it is shown, before the claim is Grace old, *)
(* and only an older claim under which nothing was found is taken over.     *)
(***************************************************************************)

\* The steps of a job that holds the payout claim.
Sending == {"send", "unsendable"}
PayoutRow == row["payout"]
Sent(s) == {i \in Payments : s[i].state # "none"}
PaidOut(s) == \E i \in Sent(s) : s[i].state = "paid"
\* The payout failed: the row says so, or the rail.
Failed(r, s) == r.outcome = "failed" \/ \E i \in Sent(s) : s[i].state = "failed"

\* What job j relies on at time t, with payout row r, books b and rail s.
PaySound(j, t, r, b, s) ==
  /\ j.failed => Failed(r, s)
  /\ j.posted => "payout" \in b
  /\ j.paid => PaidOut(s)
  /\ j.payment \in Sent(s) \union {None}
  /\ j.pc = "rejected" => j.payment \in Sent(s) /\ s[j.payment].state = "failed"
  /\ j.pc \in {"reload", "lookup", "retake"} => r.initiated # None
  /\ j.pc \in {"lookup", "retake"} => j.before # None
  /\ j.pc = "lookup" /\ j.before = r.initiated /\ j.before + Grace <= t =>
       (r.outcome = "failed" => Sent(s) # {})
  /\ j.pc = "retake" => /\ j.before + Grace <= t
                        /\ j.before = r.initiated => Sent(s) = {} /\ r.outcome # "failed"
  /\ j.pc \in Sending => /\ Sent(s) = {} /\ r.outcome # "failed"
                         /\ r.initiated # None /\ t < r.initiated + Grace
  /\ j.pc = "reverse" \/ j.order = "reversal" => Failed(r, s) /\ "payout" \in b

JobsPaySound == \A p \in Jobs : PaySound(job[p], now, PayoutRow, booked, rail)
OneSender == \A p, q \in Jobs : job[p].pc \in Sending /\ job[q].pc \in Sending => p = q

\* What the rows, the books and the rail say of each other.
PayRows(t, r, b, s) ==
  /\ \A i, k \in Sent(s) : i = k
  /\ \A i \in Sent(s) : s[i].claimed = r.initiated
  /\ Sent(s) # {} => r.initiated # None /\ "payout" \in b
  /\ \A i \in Sent(s) : s[i].state = "queued" => t < r.initiated + Grace
  /\ r.outcome = "failed" => r.initiated # None /\ \A i \in Sent(s) : s[i].state = "failed"
  /\ r.outcome = "confirmed" => PaidOut(s)
  /\ r.payment \in Sent(s) \union {None}
  /\ "reversal" \in b => Failed(r, s) /\ "payout" \in b
RailSound == PayRows(now, PayoutRow, booked, rail) /\ row["reversal"].outcome = ""

PInv == IInv /\ JobsPaySound /\ OneSender /\ RailSound

LEMMA PayTypes ==
  ASSUME TypeOK
  PROVE  /\ now \in Nat /\ Grace \in Nat /\ Grace > 0 /\ None \notin Nat
         /\ "payout" \in Orders /\ "reversal" \in Orders
         /\ PayoutRow \in Row /\ row["reversal"] \in Row
         /\ PayoutRow.initiated \in Nat \union {None}
         /\ \A i \in Payments : /\ rail[i].state \in PaymentStates
                                /\ rail[i].claimed \in Nat \union {None}
         /\ \A p \in Jobs : job[p] \in Job /\ job[p].before \in Nat \union {None}
  BY TimesAssumption, NoneAssumption DEF TypeOK, Orders, PayoutRow, Row, Job, Times

LEMMA SentIsLanded == Sent(rail) = Landed
  BY DEF Sent, Landed

-----------------------------------------------------------------------------
(* Where a job goes next *)

\* The positions a job is sound at only because of what it has found.
Delicate == {"rejected", "reload", "lookup", "retake", "reverse"} \union Sending

LEMMA PlainPay ==
  ASSUME NEW t, NEW r, NEW b, NEW s, NEW j, NEW n, PaySound(j, t, r, b, s),
         n.failed = j.failed, n.posted = j.posted, n.paid = j.paid, n.payment = j.payment,
         n.order \in {j.order, "payout"}, n.pc \notin Delicate
  PROVE  PaySound(n, t, r, b, s)
  BY DEF PaySound, Delicate, Sending

LEMMA IdlePay ==
  ASSUME NEW t, NEW r, NEW b, NEW s, NEW n, n.failed = FALSE, n.posted = FALSE, n.paid = FALSE,
         n.payment = None, n.order = "payout", n.pc \notin Delicate
  PROVE  PaySound(n, t, r, b, s)
  BY DEF PaySound, Delicate, Sending

LEMMA LeavePay ==
  ASSUME NEW t, NEW r, NEW b, NEW s, NEW j, NEW ok \in BOOLEAN
  PROVE  PaySound(Leave(j, ok), t, r, b, s) /\ Leave(j, ok).pc \notin Sending
  <1>1. PICK n : n = Leave(j, ok)
    OBVIOUS
  <1>2. /\ n.failed = FALSE /\ n.posted = FALSE /\ n.paid = FALSE /\ n.payment = None
        /\ n.order = "payout" /\ n.pc \in {"idle", "commit", "unhold"}
    BY <1>1 DEF Leave, Idle
  <1> QED
    BY <1>1, <1>2, IdlePay DEF Delicate, Sending

LEMMA EndedPay ==
  ASSUME NEW t, NEW r, NEW b, NEW s, NEW j \in Job, PaySound(j, t, r, b, s), NEW ok \in BOOLEAN
  PROVE  PaySound(Ended(j, ok), t, r, b, s) /\ Ended(j, ok).pc \notin Sending
  <1>1. ASSUME NEW n, n = [j EXCEPT !.order = "payout", !.pc = "close"]
        PROVE  PaySound(n, t, r, b, s) /\ n.pc \notin Sending
    <2>1. /\ n.failed = j.failed /\ n.posted = j.posted /\ n.paid = j.paid
          /\ n.payment = j.payment /\ n.order = "payout" /\ n.pc = "close"
      BY <1>1 DEF Job
    <2> QED
      BY <2>1, PlainPay DEF Delicate, Sending
  <1> QED
    BY <1>1, LeavePay DEF Ended

LEMMA FailPay ==
  ASSUME NEW t, NEW r, NEW b, NEW s, NEW j \in Job, PaySound(j, t, r, b, s), NEW f \in BOOLEAN,
         f => Failed(r, s)
  PROVE  PaySound(Fail(j, f), t, r, b, s) /\ Fail(j, f).pc \notin Sending
  <1>1. /\ Fail(j, f).failed = f /\ Fail(j, f).posted = j.posted /\ Fail(j, f).paid = j.paid
        /\ Fail(j, f).payment = j.payment /\ Fail(j, f).order = j.order
        /\ Fail(j, f).pc = "release"
    BY DEF Fail, Job
  <1> QED
    BY <1>1 DEF PaySound, Sending

LEMMA ReleasedPay ==
  ASSUME NEW t, NEW r, NEW b, NEW s, NEW j \in Job, PaySound(j, t, r, b, s)
  PROVE  PaySound(Released(j), t, r, b, s) /\ Released(j).pc \notin Sending
  <1>1. ASSUME NEW n, n = [j EXCEPT !.pc = "reverse"], j.failed, j.posted
        PROVE  PaySound(n, t, r, b, s) /\ n.pc \notin Sending
    <2>1. /\ n.failed = j.failed /\ n.posted = j.posted /\ n.paid = j.paid
          /\ n.payment = j.payment /\ n.order = j.order /\ n.pc = "reverse"
      BY <1>1 DEF Job
    <2> QED
      BY <1>1, <2>1 DEF PaySound, Sending
  <1> QED
    BY <1>1, EndedPay DEF Released

\* Moving a job on within an execution.
LEMMA PcPay ==
  ASSUME NEW t, NEW r, NEW b, NEW s, NEW j \in Job, PaySound(j, t, r, b, s),
         NEW c, c \notin Delicate
  PROVE  PaySound([j EXCEPT !.pc = c], t, r, b, s) /\ [j EXCEPT !.pc = c].pc \notin Sending
  <1>1. PICK n : n = [j EXCEPT !.pc = c]
    OBVIOUS
  <1>2. /\ n.failed = j.failed /\ n.posted = j.posted /\ n.paid = j.paid
        /\ n.payment = j.payment /\ n.order = j.order /\ n.pc = c
    BY <1>1 DEF Job
  <1> QED
    BY <1>1, <1>2, PlainPay DEF Delicate

LEMMA FoundPay ==
  ASSUME NEW j \in Job, NEW i \in Sent(rail), TypeOK,
         PaySound(j, now, PayoutRow, booked, rail)
  PROVE  PaySound(Found(j, i), now, PayoutRow, booked, rail) /\ Found(j, i).pc \notin Sending
  <1>1. ASSUME NEW n, n = [j EXCEPT !.pc = "rejected", !.payment = i], rail[i].state = "failed"
        PROVE  PaySound(n, now, PayoutRow, booked, rail) /\ n.pc \notin Sending
    <2>1. /\ n.failed = j.failed /\ n.posted = j.posted /\ n.paid = j.paid
          /\ n.payment = i /\ n.order = j.order /\ n.pc = "rejected"
      BY <1>1 DEF Job
    <2> QED
      BY <1>1, <2>1 DEF PaySound, Sending
  <1>2. ASSUME NEW n, NEW c \in {"record", "outcome"},
               n = [j EXCEPT !.pc = c, !.payment = i, !.paid = rail[i].state = "paid"]
        PROVE  PaySound(n, now, PayoutRow, booked, rail) /\ n.pc \notin Sending
    <2>1. /\ n.failed = j.failed /\ n.posted = j.posted /\ n.paid = (rail[i].state = "paid")
          /\ n.payment = i /\ n.order = j.order /\ n.pc = c
      BY <1>2 DEF Job
    <2> QED
      BY <2>1 DEF PaySound, Sending, PaidOut
  <1> QED
    BY <1>1, <1>2 DEF Found

-----------------------------------------------------------------------------
(* Steps that leave the claim, the payout status and the rail alone *)

\* What such a step may change: the states of the orders, the books while the
\* payout did not fail, and the payment the row names to one the rail knows.
Calm ==
  /\ now' = now /\ rail' = rail
  /\ PayoutRow'.initiated = PayoutRow.initiated /\ PayoutRow'.outcome = PayoutRow.outcome
  /\ PayoutRow'.payment \in Sent(rail) \union {None, PayoutRow.payment}
  /\ row'["reversal"].outcome = ""
  /\ booked \subseteq booked'
  /\ "reversal" \in booked' =>
       "reversal" \in booked \/ (Failed(PayoutRow, rail) /\ "payout" \in booked)

LEMMA CalmKeeps ==
  ASSUME Calm, NEW j, PaySound(j, now, PayoutRow, booked, rail)
  PROVE  PaySound(j, now', PayoutRow', booked', rail')
  BY DEF Calm, PaySound, Failed

LEMMA CalmRows == ASSUME Calm, RailSound PROVE RailSound'
  <1>1. Failed(PayoutRow, rail) = Failed(PayoutRow', rail)
    BY DEF Calm, Failed
  <1>2. PayRows(now', PayoutRow', booked', rail')
    BY <1>1 DEF Calm, RailSound, PayRows
  <1> QED
    BY <1>2 DEF RailSound, Calm

\* The jobs, once job p has gone on to n and the others are still sound.
LEMMA JobsMove ==
  ASSUME TypeOK, OneSender, NEW p \in Jobs, NEW n, To(p, n),
         PaySound(n, now', PayoutRow', booked', rail'),
         \A q \in Jobs \ {p} : PaySound(job[q], now', PayoutRow', booked', rail'),
         n.pc \in Sending => \A q \in Jobs \ {p} : job[q].pc \notin Sending
  PROVE  JobsPaySound' /\ OneSender'
  <1>1. \A q \in Jobs : job'[q] = IF q = p THEN n ELSE job[q]
    BY DEF To, TypeOK
  <1> QED
    BY <1>1 DEF JobsPaySound, OneSender

LEMMA CalmMove ==
  ASSUME PInv, Calm, NEW p \in Jobs, NEW n, To(p, n),
         PaySound(n, now, PayoutRow, booked, rail) /\ n.pc \notin Sending
  PROVE  JobsPaySound' /\ OneSender' /\ RailSound'
  <1>1. \A j : PaySound(j, now, PayoutRow, booked, rail) =>
               PaySound(j, now', PayoutRow', booked', rail')
    BY CalmKeeps
  <1>2. JobsPaySound' /\ OneSender'
    BY <1>1, JobsMove DEF PInv, IInv, JobsPaySound
  <1> QED
    BY <1>2, CalmRows DEF PInv

LEMMA StillIsCalm ==
  ASSUME PInv, UNCHANGED <<now, booked, rail>>,
         \/ UNCHANGED row
         \/ \E o \in Orders, n \in Row :
              /\ Write(o, n)
              /\ n.initiated = row[o].initiated /\ n.outcome = row[o].outcome
              /\ n.payment = row[o].payment
         \/ \E n \in Row : Write("reversal", n) /\ n.outcome = ""
  PROVE  Calm
  <1>1. /\ PayoutRow.payment \in Sent(rail) \union {None}
        /\ row["reversal"].outcome = ""
        /\ row \in [Orders -> Row]
    BY DEF PInv, RailSound, PayRows, IInv, TypeOK
  <1>2. CASE UNCHANGED row
    BY <1>1, <1>2 DEF Calm, PayoutRow
  <1>3. ASSUME NEW o \in Orders, NEW n \in Row, Write(o, n),
               o = "payout" => /\ n.initiated = row[o].initiated
                               /\ n.outcome = row[o].outcome /\ n.payment = row[o].payment,
               o = "reversal" => n.outcome = ""
        PROVE  Calm
    <2>1. PICK m : m = [n EXCEPT !.modified = now]
      OBVIOUS
    <2>2. m.initiated = n.initiated /\ m.outcome = n.outcome /\ m.payment = n.payment
      BY <2>1 DEF Row
    <2>3. row' = [row EXCEPT ![o] = m]
      BY <1>3, <2>1 DEF Write
    <2>4. /\ row'["payout"] = IF o = "payout" THEN m ELSE row["payout"]
          /\ row'["reversal"] = IF o = "reversal" THEN m ELSE row["reversal"]
      BY <1>1, <2>3 DEF Orders
    <2> QED
      BY <1>1, <1>3, <2>2, <2>4 DEF Calm, PayoutRow
  <1> QED
    BY <1>1, <1>2, <1>3 DEF Orders

\* The same row with another state, posting or claim on its execution.
LEMMA SameClaim ==
  ASSUME NEW r \in Row, NEW s, NEW x
  PROVE  /\ [r EXCEPT !.state = s].initiated = r.initiated
         /\ [r EXCEPT !.state = s].outcome = r.outcome
         /\ [r EXCEPT !.state = s].payment = r.payment
         /\ [r EXCEPT !.posted = x].initiated = r.initiated
         /\ [r EXCEPT !.posted = x].outcome = r.outcome
         /\ [r EXCEPT !.posted = x].payment = r.payment
         /\ s \in {"created", "executing", "done", "shut"} => [r EXCEPT !.state = s] \in Row
         /\ x \in BOOLEAN => [r EXCEPT !.posted = x] \in Row
  BY DEF Row

-----------------------------------------------------------------------------
(* The actions *)

PaySafe == JobsPaySound' /\ OneSender' /\ RailSound'

\* What every job that moves relies on.
LEMMA PayNow ==
  ASSUME PInv, NEW p \in Jobs
  PROVE  /\ TypeOK /\ IInv /\ RailSound /\ OneSender
         /\ job[p] \in Job /\ PaySound(job[p], now, PayoutRow, booked, rail)
         /\ JobSound(job[p], row, booked, Landed)
         /\ job[p].order \in Orders /\ row[job[p].order] \in Row
  <1>1. TypeOK /\ IInv /\ RailSound /\ OneSender
    BY DEF PInv, IInv
  <1>2. job[p] \in Job /\ PaySound(job[p], now, PayoutRow, booked, rail)
        /\ JobSound(job[p], row, booked, Landed)
    BY <1>1 DEF PInv, IInv, TypeOK, JobsPaySound, JobsSound
  <1>3. job[p].order \in Orders /\ row[job[p].order] \in Row
    BY <1>1, <1>2 DEF TypeOK, Job
  <1> QED
    BY <1>1, <1>2, <1>3

LEMMA CallPay == ASSUME PInv, NEW p \in Jobs, Call(p) PROVE PaySafe
  <1>1. PICK call \in {"execute", "reconcile", "fail", "notify"},
             c \in {"load", "reserve", "reconcile", "tell", "shut"} : Start(p, call, c)
    BY DEF Call, StartExecute, StartReconcile, StartNotify, StartFail
  <1>2. PICK n : n = [Idle EXCEPT !.call = call, !.pc = c]
    OBVIOUS
  <1>3. PaySound(n, now, PayoutRow, booked, rail) /\ n.pc \notin Sending
    <2>1. /\ n.failed = FALSE /\ n.posted = FALSE /\ n.paid = FALSE /\ n.payment = None
          /\ n.order = "payout" /\ n.pc = c
      BY <1>2 DEF Idle
    <2> QED
      BY <2>1, IdlePay DEF Delicate, Sending
  <1>4. To(p, n) /\ Calm
    BY <1>1, <1>2, StillIsCalm DEF Start
  <1> QED
    BY <1>3, <1>4, CalmMove DEF PaySafe

LEMMA PlainIdlePay ==
  PaySound(Idle, now, PayoutRow, booked, rail) /\ Idle.pc \notin Sending
  BY IdlePay DEF Idle, Delicate, Sending

LEMMA GatePay == ASSUME PInv, NEW p \in Jobs, Gate(p) PROVE PaySafe
  <1>1. Calm
    BY StillIsCalm DEF Gate, GateReserve, GateCommit, GateRelease
  <1>2. To(p, Idle) \/ To(p, [job[p] EXCEPT !.pc = "load"])
    BY DEF Gate, GateReserve, GateCommit, GateRelease
  <1>3. PaySound([job[p] EXCEPT !.pc = "load"], now, PayoutRow, booked, rail)
        /\ [job[p] EXCEPT !.pc = "load"].pc \notin Sending
    BY PayNow, PcPay DEF Delicate, Sending
  <1> QED
    BY <1>1, <1>2, <1>3, PlainIdlePay, CalmMove DEF PaySafe

LEMMA JobRunPay == ASSUME PInv, NEW p \in Jobs, JobRun(p) PROVE PaySafe
  <1> DEFINE j == job[p]
  <1> DEFINE r == row["payout"]
  <1>1. /\ TypeOK /\ j \in Job /\ PaySound(j, now, PayoutRow, booked, rail)
        /\ JobSound(j, row, booked, Landed) /\ r \in Row /\ "payout" \in Orders
        /\ RowsSound /\ RailSound
    BY PayNow, PayTypes DEF PayoutRow, PInv, IInv
  <1>2. CASE MarkShut(p)
    <2>1. PICK n \in Row : /\ n = [r EXCEPT !.state = "shut"]
                          /\ n.initiated = r.initiated /\ n.outcome = r.outcome
                          /\ n.payment = r.payment
      BY <1>1, SameClaim
    <2>2. Write("payout", n) \/ UNCHANGED row
      BY <1>2, <2>1 DEF MarkShut
    <2>3. Calm
      BY <1>1, <1>2, <2>1, <2>2, StillIsCalm DEF MarkShut
    <2> QED
      BY <1>2, <2>3, PlainIdlePay, CalmMove DEF MarkShut, PaySafe
  <1>3. CASE Reconcile(p)
    <2>1. Calm
      BY <1>3, StillIsCalm DEF Reconcile
    <2>2. ASSUME NEW n, n = [j EXCEPT !.pc = "ask", !.posted = r.posted, !.payment = r.payment]
          PROVE  PaySound(n, now, PayoutRow, booked, rail) /\ n.pc \notin Sending
      <3>1. /\ n.failed = j.failed /\ n.posted = r.posted /\ n.paid = j.paid
            /\ n.payment = r.payment /\ n.order = j.order /\ n.pc = "ask"
        BY <1>1, <2>2 DEF Job
      <3>2. /\ r.posted => "payout" \in booked
            /\ r.payment \in Sent(rail) \union {None}
        BY <1>1 DEF RowsSound, RailSound, PayRows, PayoutRow
      <3> QED
        BY <1>1, <3>1, <3>2 DEF PaySound, Sending
    <2>3. ASSUME NEW c \in {"load", "reserve"}, NEW n, n = [Idle EXCEPT !.pc = c]
          PROVE  PaySound(n, now, PayoutRow, booked, rail) /\ n.pc \notin Sending
      BY <2>3, IdlePay DEF Idle, Delicate, Sending
    <2> QED
      BY <1>3, <2>1, <2>2, <2>3, PlainIdlePay, CalmMove DEF Reconcile, PaySafe
  <1>4. CASE Ask(p)
    <2>1. Calm
      BY <1>4, StillIsCalm DEF Ask
    <2>2. Visible \subseteq Sent(rail)
      BY DEF Visible, Landed, Sent
    <2> QED
      BY <1>1, <1>4, <2>1, <2>2, PlainIdlePay, FoundPay, CalmMove DEF Ask, PaySafe
  <1>5. CASE Tell(p)
    <2>1. Calm
      BY <1>5, StillIsCalm DEF Tell
    <2>2. PaySound([j EXCEPT !.pc = "notified"], now, PayoutRow, booked, rail)
          /\ [j EXCEPT !.pc = "notified"].pc \notin Sending
      BY <1>1, PcPay DEF Delicate, Sending
    <2> QED
      BY <1>5, <2>1, <2>2, PlainIdlePay, CalmMove DEF Tell, PaySafe
  <1>6. CASE MarkNotified(p)
    <2>1. Calm
      <3>1. PICK m : m = [r EXCEPT !.notified = TRUE]
        OBVIOUS
      <3>2. m.initiated = r.initiated /\ m.outcome = r.outcome /\ m.payment = r.payment
        BY <1>1, <3>1 DEF Row
      <3>3. row' = [row EXCEPT !["payout"] = m]
        BY <1>6, <3>1 DEF MarkNotified
      <3>4. row'["payout"] = m /\ row'["reversal"] = row["reversal"]
        BY <1>1, <3>3 DEF TypeOK, Orders
      <3> QED
        BY <1>1, <1>6, <3>2, <3>4 DEF MarkNotified, Calm, PayoutRow, RailSound
    <2> QED
      BY <1>6, <2>1, PlainIdlePay, CalmMove DEF MarkNotified, PaySafe
  <1> QED
    BY <1>2, <1>3, <1>4, <1>5, <1>6 DEF JobRun

LEMMA FaultPay == ASSUME PInv, NEW p \in Jobs, StatementFails(p) \/ Crash(p) PROVE PaySafe
  <1> DEFINE j == job[p]
  <1>1. /\ TypeOK /\ j \in Job /\ PaySound(j, now, PayoutRow, booked, rail)
    BY PayNow
  <1>2. Calm
    BY StillIsCalm DEF StatementFails, Crash
  <1> DEFINE Good(n) == PaySound(n, now, PayoutRow, booked, rail) /\ n.pc \notin Sending
  <1>3. /\ Good(Ended(j, FALSE)) /\ Good(Leave(j, FALSE)) /\ Good(Fail(j, FALSE))
        /\ Good(Released(j)) /\ Good(Idle)
        /\ Good([j EXCEPT !.pc = "outcome"]) /\ Good([j EXCEPT !.pc = "complete"])
    <2>1. Good([j EXCEPT !.pc = "outcome"]) /\ Good([j EXCEPT !.pc = "complete"])
      BY <1>1, PcPay DEF Delicate, Sending
    <2>2. Good(Fail(j, FALSE))
      BY <1>1, FailPay
    <2>3. Good(Ended(j, FALSE)) /\ Good(Leave(j, FALSE)) /\ Good(Released(j)) /\ Good(Idle)
      BY <1>1, EndedPay, LeavePay, ReleasedPay, PlainIdlePay
    <2> QED
      BY <2>1, <2>2, <2>3
  <1>4. j.pc = "rejected" =>
          Good(Fail(j, TRUE))
    <2>1. j.pc = "rejected" => Failed(PayoutRow, rail)
      BY <1>1 DEF PaySound, Failed
    <2> QED
      BY <1>1, <2>1, FailPay
  <1>5. Good(OnError(j))
    <2>1. \/ OnError(j) \in {Ended(j, FALSE), Leave(j, FALSE), Fail(j, FALSE), Released(j), Idle,
                  [j EXCEPT !.pc = "outcome"], [j EXCEPT !.pc = "complete"]}
          \/ j.pc = "rejected" /\ OnError(j) = Fail(j, TRUE)
      BY DEF OnError
    <2> QED
      BY <1>3, <1>4, <2>1
  <1>6. To(p, OnError(j)) \/ To(p, Idle)
    BY DEF StatementFails, Crash
  <1> QED
    BY <1>2, <1>5, <1>6, PlainIdlePay, CalmMove DEF PaySafe

\* The claim and the posted mark as an execution reads them.
LEMMA ReadPay ==
  ASSUME PInv, NEW p \in Jobs, NEW c, c \notin Delicate,
         NEW n, n.failed = (row[job[p].order].outcome = "failed"),
         n.posted = row[job[p].order].posted, n.paid = job[p].paid,
         n.payment = job[p].payment, n.order = job[p].order, n.pc = c
  PROVE  PaySound(n, now, PayoutRow, booked, rail) /\ n.pc \notin Sending
  <1> DEFINE j == job[p]
  <1>1. /\ PaySound(j, now, PayoutRow, booked, rail) /\ j.order \in Orders
        /\ RowsSound /\ RailSound
    BY PayNow DEF PInv, IInv
  <1>2. n.failed => Failed(PayoutRow, rail)
    BY <1>1 DEF Orders, Failed, PayoutRow, RailSound
  <1>3. n.posted => "payout" \in booked
    BY <1>1 DEF Orders, RowsSound, PaySound
  <1> QED
    BY <1>1, <1>2, <1>3 DEF PaySound, Delicate, Sending

LEMMA ExecutePay == ASSUME PInv, NEW p \in Jobs, Execute(p) PROVE PaySafe
  <1> DEFINE j == job[p]
  <1> DEFINE r == row[j.order]
  <1> DEFINE Good(n) == PaySound(n, now, PayoutRow, booked, rail) /\ n.pc \notin Sending
  <1>1. /\ TypeOK /\ j \in Job /\ PaySound(j, now, PayoutRow, booked, rail)
        /\ JobSound(j, row, booked, Landed) /\ j.order \in Orders /\ r \in Row
        /\ RowsSound /\ RailSound
    BY PayNow DEF PInv, IInv
  <1>2. \A b \in BOOLEAN : Good(Ended(j, b)) /\ Good(Leave(j, b))
    BY <1>1, EndedPay, LeavePay
  <1>3. Good(Fail(j, FALSE)) /\ Good(Released(j))
    BY <1>1, FailPay, ReleasedPay
  <1>4. Good([j EXCEPT !.pc = "post"]) /\ Good([j EXCEPT !.pc = "inspect"])
        /\ Good([j EXCEPT !.pc = "mark"])
    BY <1>1, PcPay DEF Delicate, Sending
  <1>5. ASSUME NEW n, To(p, n), Good(n), UNCHANGED <<now, rail, booked>>,
               \/ UNCHANGED row
               \/ \E s \in {"created", "executing", "done", "shut"} :
                    Write(j.order, [r EXCEPT !.state = s])
               \/ Write(j.order, [r EXCEPT !.posted = TRUE]) \/ Write(j.order, r)
        PROVE  PaySafe
    <2>1. \A s \in {"created", "executing", "done", "shut"} :
            [r EXCEPT !.state = s] \in Row /\ [r EXCEPT !.state = s].initiated = r.initiated
            /\ [r EXCEPT !.state = s].outcome = r.outcome
            /\ [r EXCEPT !.state = s].payment = r.payment
      BY <1>1, SameClaim
    <2>2. /\ [r EXCEPT !.posted = TRUE] \in Row
          /\ [r EXCEPT !.posted = TRUE].initiated = r.initiated
          /\ [r EXCEPT !.posted = TRUE].outcome = r.outcome
          /\ [r EXCEPT !.posted = TRUE].payment = r.payment
      BY <1>1, SameClaim
    <2>3. Calm
      BY <1>1, <1>5, <2>1, <2>2, StillIsCalm
    <2> QED
      BY <1>5, <2>3, CalmMove DEF PaySafe
  <1>6. \A n : n = AfterPosting(j) /\ "payout" \in booked => Good(n)
    <2>1. ASSUME NEW n, n = AfterPosting(j), "payout" \in booked PROVE Good(n)
      <3>1. /\ n.failed = j.failed /\ n.posted = TRUE /\ n.paid = j.paid
            /\ n.payment = j.payment /\ n.order = j.order /\ n.pc \in {"pay", "complete"}
        BY <1>1, <2>1 DEF AfterPosting, Job
      <3> QED
        BY <1>1, <2>1, <3>1 DEF PaySound, Sending
    <2> QED
      BY <2>1
  <1>7. j.posted \/ (j.pc = "mark") => "payout" \in booked
    BY <1>1 DEF PaySound, JobSound, Orders
  <1>8. CASE Load(p)
    <2>1. ASSUME NEW n, n = [j EXCEPT !.pc = "claim", !.posted = r.posted,
                                      !.failed = r.outcome = "failed"]
          PROVE  Good(n)
      <3>1. /\ n.failed = (r.outcome = "failed") /\ n.posted = r.posted /\ n.paid = j.paid
            /\ n.payment = j.payment /\ n.order = j.order /\ n.pc = "claim"
        BY <1>1, <2>1 DEF Job
      <3> QED
        BY <3>1, ReadPay DEF Delicate, Sending
    <2> QED
      BY <1>2, <1>5, <1>8, <2>1 DEF Load
  <1>9. CASE Claim(p)
    BY <1>4, <1>5, <1>9 DEF Claim
  <1>10. CASE Inspect(p)
    <2>1. ASSUME NEW n, n = [j EXCEPT !.pc = "resume", !.posted = r.posted,
                                      !.failed = r.outcome = "failed",
                                      !.before = now - StaleAfter]
          PROVE  Good(n)
      <3>1. /\ n.failed = (r.outcome = "failed") /\ n.posted = r.posted /\ n.paid = j.paid
            /\ n.payment = j.payment /\ n.order = j.order /\ n.pc = "resume"
        BY <1>1, <2>1 DEF Job
      <3> QED
        BY <3>1, ReadPay DEF Delicate, Sending
    <2> QED
      BY <1>2, <1>5, <1>10, <2>1 DEF Inspect
  <1>11. CASE Resume(p)
    <2>1. ASSUME NEW n, n = [j EXCEPT !.pc = "post", !.before = None] PROVE Good(n)
      <3>1. /\ n.failed = j.failed /\ n.posted = j.posted /\ n.paid = j.paid
            /\ n.payment = j.payment /\ n.order = j.order /\ n.pc = "post"
        BY <1>1, <2>1 DEF Job
      <3> QED
        BY <1>1, <3>1, PlainPay DEF Delicate, Sending
    <2> QED
      BY <1>2, <1>5, <1>11, <2>1 DEF Resume
  <1>12. CASE PostLedger(p)
    <2>1. CASE UNCHANGED booked /\ To(p, Fail(j, FALSE))
      BY <1>3, <1>5, <1>12, <2>1 DEF PostLedger
    <2>2. CASE UNCHANGED booked /\ j.posted /\ To(p, AfterPosting(j))
      BY <1>5, <1>6, <1>7, <1>12, <2>2 DEF PostLedger
    <2>3. CASE booked' = booked \union {j.order}
      <3>1. Calm
        BY <1>1, <1>12, <2>3 DEF PostLedger, Calm, PaySound, PayoutRow, RailSound, Orders
      <3>2. ~j.posted => To(p, [j EXCEPT !.pc = "mark"]) \/ To(p, Fail(j, FALSE))
        BY <1>12, <2>3 DEF PostLedger
      <3>3. j.posted => To(p, AfterPosting(j))
        BY <1>12 DEF PostLedger
      <3> QED
        BY <1>3, <1>4, <1>6, <1>7, <3>1, <3>2, <3>3, CalmMove DEF PaySafe
    <2> QED
      BY <1>12, <2>1, <2>2, <2>3 DEF PostLedger
  <1>13. CASE MarkPosted(p)
    BY <1>5, <1>6, <1>7, <1>13 DEF MarkPosted, At
  <1>14. CASE Complete(p)
    BY <1>2, <1>5, <1>14 DEF Complete
  <1>15. CASE Release(p)
    BY <1>3, <1>5, <1>15 DEF Release
  <1>16. CASE SaveReversal(p)
    <2>1. PICK m \in Row : m = NewRow("created") /\ m.outcome = ""
      BY <1>1, NewRowType DEF TypeOK, NewRow
    <2>2. Calm
      BY <1>16, <2>1, StillIsCalm DEF SaveReversal
    <2>3. ASSUME NEW n, n = [j EXCEPT !.order = "reversal", !.pc = "load"] PROVE Good(n)
      <3>1. /\ n.failed = j.failed /\ n.posted = j.posted /\ n.paid = j.paid
            /\ n.payment = j.payment /\ n.order = "reversal" /\ n.pc = "load"
        BY <1>1, <2>3 DEF Job
      <3> QED
        BY <1>1, <1>16, <3>1 DEF SaveReversal, At, PaySound, Sending
    <2> QED
      BY <1>16, <2>2, <2>3, CalmMove DEF SaveReversal, PaySafe
  <1>17. CASE Close(p)
    <2>1. PICK m \in Row : /\ m = [row["payout"] EXCEPT !.state = "shut"]
                           /\ m.initiated = row["payout"].initiated
                           /\ m.outcome = row["payout"].outcome
                           /\ m.payment = row["payout"].payment
      <3>1. row["payout"] \in Row
        BY <1>1 DEF TypeOK, Orders
      <3> QED
        BY <3>1, SameClaim
    <2>2. Write("payout", m) \/ UNCHANGED row
      BY <1>17, <2>1 DEF Close
    <2>3. Calm
      BY <1>17, <2>1, <2>2, StillIsCalm DEF Close, Orders
    <2> QED
      BY <1>2, <1>17, <2>3, CalmMove DEF Close, PaySafe
  <1> QED
    BY <1>8, <1>9, <1>10, <1>11, <1>12, <1>13, <1>14, <1>15, <1>16, <1>17 DEF Execute

-----------------------------------------------------------------------------
(* Claims, answers and what is written of them *)

\* What Write leaves behind.
LEMMA WrittenRow ==
  ASSUME TypeOK, NEW n \in Row, Write("payout", n)
  PROVE  /\ PayoutRow'.initiated = n.initiated /\ PayoutRow'.outcome = n.outcome
         /\ PayoutRow'.payment = n.payment
         /\ row'["reversal"] = row["reversal"]
  <1>1. PICK m : m = [n EXCEPT !.modified = now]
    OBVIOUS
  <1>2. m.initiated = n.initiated /\ m.outcome = n.outcome /\ m.payment = n.payment
    BY <1>1 DEF Row
  <1>3. row' = [row EXCEPT !["payout"] = m]
    BY <1>1 DEF Write
  <1> QED
    BY <1>2, <1>3 DEF TypeOK, Orders, PayoutRow

\* A claim is stamped now: nothing was sent, nobody sends, and whoever looks at
\* an older claim finds another one when it comes to take it over.
LEMMA ClaimStamped ==
  ASSUME PInv, NEW p \in Jobs, NEW n, To(p, n), UNCHANGED <<now, booked, rail>>,
         Write("payout", [PayoutRow EXCEPT !.initiated = now]),
         Sent(rail) = {}, PayoutRow.outcome # "failed",
         \A q \in Jobs : job[q].pc \notin Sending,
         n.pc \in Sending, n.failed = job[p].failed, n.posted = job[p].posted,
         n.paid = job[p].paid, n.payment = job[p].payment, n.order = job[p].order
  PROVE  PaySafe
  <1>1. /\ TypeOK /\ OneSender /\ RailSound
        /\ \A q \in Jobs : PaySound(job[q], now, PayoutRow, booked, rail)
        /\ \A q \in Jobs : job[q].before \in Nat \union {None}
        /\ now \in Nat /\ Grace \in Nat /\ Grace > 0 /\ now # None /\ PayoutRow \in Row
    BY PayTypes DEF PInv, IInv, JobsPaySound
  <1>2. /\ PayoutRow'.initiated = now /\ PayoutRow'.outcome = PayoutRow.outcome
        /\ PayoutRow'.payment = PayoutRow.payment /\ row'["reversal"] = row["reversal"]
    <2>1. PICK m : m = [PayoutRow EXCEPT !.initiated = now]
      OBVIOUS
    <2>2. /\ m \in Row /\ m.initiated = now /\ m.outcome = PayoutRow.outcome
          /\ m.payment = PayoutRow.payment
      BY <1>1, <2>1 DEF Row, TypeOK
    <2> QED
      BY <1>1, <2>1, <2>2, WrittenRow
  <1>3. ~Failed(PayoutRow, rail) /\ ~Failed(PayoutRow', rail') /\ Sent(rail') = {}
    BY <1>2 DEF Failed
  <1>4. \A q \in Jobs : PaySound(job[q], now', PayoutRow', booked', rail')
    <2>1. ASSUME NEW q \in Jobs PROVE PaySound(job[q], now', PayoutRow', booked', rail')
      <3>1. PICK j : j = job[q]
        OBVIOUS
      <3>2. /\ PaySound(j, now, PayoutRow, booked, rail) /\ j.before \in Nat \union {None}
            /\ j.pc \notin Sending
        BY <1>1, <3>1
      <3>3. PaySound(j, now', PayoutRow', booked', rail')
        BY <1>1, <1>2, <1>3, <3>2 DEF PaySound
      <3> QED
        BY <3>1, <3>3
    <2> QED
      BY <2>1
  <1>5. PaySound(n, now', PayoutRow', booked', rail')
    <2>1. PaySound(job[p], now', PayoutRow', booked', rail')
      BY <1>4
    <2> QED
      BY <1>1, <1>2, <1>3, <2>1 DEF PaySound, Sending
  <1>6. RailSound'
    BY <1>1, <1>2, <1>3 DEF RailSound, PayRows, PaidOut
  <1> QED
    BY <1>1, <1>4, <1>5, <1>6, JobsMove DEF PaySafe

\* MarkPayoutFailed writes, or leaves a row alone that names another payment.
LEMMA FailedRow ==
  ASSUME TypeOK, NEW i \in Payments \union {None}, WriteFailed(i)
  PROVE  \/ /\ PayoutRow'.outcome = "failed" /\ PayoutRow'.initiated = PayoutRow.initiated
            /\ PayoutRow'.payment = i /\ row'["reversal"] = row["reversal"]
         \/ PayoutRow.payment # None /\ UNCHANGED row
  <1>1. PayoutRow \in Row
    BY PayTypes
  <1>2. PICK m : m = [PayoutRow EXCEPT !.outcome = "failed", !.payment = i]
    OBVIOUS
  <1>3. /\ m \in Row /\ m.outcome = "failed" /\ m.initiated = PayoutRow.initiated
        /\ m.payment = i
    BY <1>1, <1>2 DEF Row, Outcomes
  <1>4. Write("payout", m) \/ (PayoutRow.payment # None /\ UNCHANGED row)
    BY <1>2 DEF WriteFailed, PayoutRow
  <1> QED
    BY <1>3, <1>4, WrittenRow

\* A failure is written: whatever was sent failed, and a claim under which
\* nothing was sent is too young to be taken over.
LEMMA FailureWritten ==
  ASSUME PInv, NEW p \in Jobs, NEW n, To(p, n), UNCHANGED <<now, booked, rail>>,
         NEW i \in Sent(rail) \union {None}, WriteFailed(i),
         PayoutRow.initiated # None, \A k \in Sent(rail) : rail[k].state = "failed",
         Sent(rail) # {} \/ now < PayoutRow.initiated + Grace,
         \A q \in Jobs \ {p} : job[q].pc \notin Sending,
         n.pc \notin Delicate \/ (n.pc = "reverse" /\ Sent(rail) # {}),
         n.posted = job[p].posted,
         n.paid = job[p].paid, n.payment = job[p].payment, n.order = job[p].order
  PROVE  PaySafe
  <1>1. /\ TypeOK /\ OneSender /\ RailSound
        /\ \A q \in Jobs : PaySound(job[q], now, PayoutRow, booked, rail)
        /\ \A q \in Jobs : job[q].before \in Nat \union {None}
        /\ now \in Nat /\ Grace \in Nat /\ Grace > 0
        /\ PayoutRow.initiated \in Nat \union {None}
    BY PayTypes DEF PInv, IInv, JobsPaySound
  <1>2. \/ /\ PayoutRow'.outcome = "failed" /\ PayoutRow'.initiated = PayoutRow.initiated
           /\ PayoutRow'.payment = i /\ row'["reversal"] = row["reversal"]
        \/ PayoutRow.payment # None /\ UNCHANGED row
    BY <1>1, FailedRow DEF Sent
  <1>3. /\ PayoutRow'.initiated = PayoutRow.initiated
        /\ PayoutRow'.outcome \in {"failed", PayoutRow.outcome}
        /\ PayoutRow'.payment \in Sent(rail) \union {None}
        /\ row'["reversal"].outcome = ""
    BY <1>1, <1>2 DEF PayoutRow, RailSound, PayRows
  <1>4. Failed(PayoutRow', rail')
    BY <1>1, <1>2 DEF Failed, RailSound, PayRows
  <1>5. ASSUME NEW q \in Jobs \ {p} PROVE PaySound(job[q], now', PayoutRow', booked', rail')
    <2>1. PICK j : j = job[q]
      OBVIOUS
    <2>2. /\ PaySound(j, now, PayoutRow, booked, rail) /\ j.before \in Nat \union {None}
          /\ j.pc \notin Sending
      BY <1>1, <2>1
    <2>3. j.before = PayoutRow.initiated /\ j.before # None /\ j.before + Grace <= now =>
            Sent(rail) # {}
      BY <1>1
    <2>4. /\ j.pc \in {"lookup", "retake"} => j.before # None
          /\ j.pc = "retake" => /\ j.before + Grace <= now
                                /\ j.before = PayoutRow.initiated => Sent(rail) = {}
      BY <2>2 DEF PaySound
    <2>5. PaySound(j, now', PayoutRow', booked', rail')
      BY <1>3, <1>4, <2>2, <2>3, <2>4 DEF PaySound
    <2> QED
      BY <2>1, <2>5
  <1>6. PaySound(n, now', PayoutRow', booked', rail')
    <2>1. PaySound(job[p], now, PayoutRow, booked, rail)
      BY <1>1
    <2>2. Sent(rail) # {} => "payout" \in booked
      BY <1>1 DEF RailSound, PayRows
    <2> QED
      BY <1>4, <2>1, <2>2 DEF PaySound, Delicate, Sending
  <1>7. RailSound'
    BY <1>1, <1>3, <1>4 DEF RailSound, PayRows
  <1>8. n.pc \notin Sending
    BY DEF Delicate, Sending
  <1> QED
    BY <1>1, <1>5, <1>6, <1>7, <1>8, JobsMove DEF PaySafe

\* The rail is handed payment i by the only job that may send.
LEMMA PaymentLands ==
  ASSUME PInv, NEW p \in Jobs, NEW n, To(p, n), UNCHANGED <<now, booked, row>>,
         job[p].pc = "send", NEW i \in Payments,
         NEW st \in {"queued", "paid", "failed"},
         rail' = [rail EXCEPT ![i] = [state |-> st, claimed |-> PayoutRow.initiated]],
         ~n.failed, n.posted = job[p].posted, n.payment \in {i, job[p].payment},
         n.order = job[p].order, n.paid => st = "paid",
         \/ n.pc \notin Delicate
         \/ n.pc = "rejected" /\ st = "failed" /\ n.payment = i
  PROVE  PaySafe /\ Sent(rail) = {} /\ Sent(rail') = {i} /\ rail'[i].state = st
  <1>1. /\ TypeOK /\ IInv /\ OneSender /\ RailSound
        /\ \A q \in Jobs : PaySound(job[q], now, PayoutRow, booked, rail)
        /\ \A q \in Jobs : job[q].before \in Nat \union {None}
        /\ now \in Nat /\ Grace \in Nat
        /\ PayoutRow.initiated \in Nat \union {None}
    BY PayTypes DEF PInv, IInv, JobsPaySound
  <1>2. /\ Sent(rail) = {} /\ PayoutRow.outcome # "failed" /\ PayoutRow.initiated # None
        /\ now < PayoutRow.initiated + Grace
    BY <1>1 DEF PaySound, Sending
  <1>3. "payout" \in booked
    <2>1. JobSound(job[p], row, booked, Landed) /\ RowsSound
      BY <1>1 DEF IInv, JobsSound
    <2> QED
      BY <2>1 DEF JobSound, SendSteps, RowsSound, Orders
  <1>4. /\ rail'[i].state = st /\ rail'[i].claimed = PayoutRow.initiated
        /\ \A k \in Payments \ {i} : rail'[k] = rail[k]
    BY <1>1 DEF TypeOK
  <1>5. Sent(rail') = {i}
    BY <1>2, <1>4 DEF Sent
  <1>6. ~Failed(PayoutRow, rail) /\ ~PaidOut(rail) /\ PayoutRow' = PayoutRow
    BY <1>2 DEF Failed, PaidOut, PayoutRow
  <1>7. ASSUME NEW q \in Jobs \ {p} PROVE PaySound(job[q], now', PayoutRow', booked', rail')
    <2>1. PICK j : j = job[q]
      OBVIOUS
    <2>2. /\ PaySound(j, now, PayoutRow, booked, rail) /\ j.before \in Nat \union {None}
          /\ j.pc \notin Sending
      BY <1>1, <2>1 DEF OneSender, Sending
    <2>3. PaySound(j, now', PayoutRow', booked', rail')
      BY <1>1, <1>2, <1>5, <1>6, <2>2 DEF PaySound
    <2> QED
      BY <2>1, <2>3
  <1>8. PaySound(n, now', PayoutRow', booked', rail')
    <2>1. PaySound(job[p], now, PayoutRow, booked, rail)
      BY <1>1
    <2> QED
      BY <1>2, <1>4, <1>5, <1>6, <2>1 DEF PaySound, Delicate, Sending, PaidOut
  <1>9. RailSound'
    <2>1. "reversal" \notin booked /\ PayoutRow.outcome # "confirmed"
          /\ PayoutRow.payment = None /\ row["reversal"].outcome = ""
      BY <1>1, <1>2, <1>6 DEF RailSound, PayRows
    <2>2. PayRows(now', PayoutRow', booked', rail')
      BY <1>2, <1>3, <1>4, <1>5, <1>6, <2>1 DEF PayRows
    <2> QED
      BY <2>1, <2>2 DEF RailSound
  <1>10. n.pc \notin Sending
    BY DEF Delicate, Sending
  <1>11. PaySafe
    BY <1>1, <1>7, <1>8, <1>9, <1>10, JobsMove DEF PaySafe
  <1> QED
    BY <1>2, <1>4, <1>5, <1>11

\* An outcome is written that is no failure.
LEMMA ConfirmedPay ==
  ASSUME PInv, NEW p \in Jobs, NEW n, To(p, n), UNCHANGED <<now, booked, rail>>,
         PayoutRow.outcome # "failed", NEW o \in {"confirmed", "pending"},
         o = "confirmed" => PaidOut(rail),
         Write("payout", [PayoutRow EXCEPT !.outcome = o]),
         PaySound(n, now, PayoutRow, booked, rail), n.pc \notin Sending
  PROVE  PaySafe
  <1>1. /\ TypeOK /\ OneSender /\ RailSound /\ PayoutRow \in Row
        /\ \A q \in Jobs : PaySound(job[q], now, PayoutRow, booked, rail)
    BY PayTypes DEF PInv, IInv, JobsPaySound
  <1>2. /\ PayoutRow'.initiated = PayoutRow.initiated /\ PayoutRow'.outcome = o
        /\ PayoutRow'.payment = PayoutRow.payment /\ row'["reversal"] = row["reversal"]
    <2>1. PICK m : m = [PayoutRow EXCEPT !.outcome = o]
      OBVIOUS
    <2>2. /\ m \in Row /\ m.initiated = PayoutRow.initiated /\ m.outcome = o
          /\ m.payment = PayoutRow.payment
      BY <1>1, <2>1 DEF Row, Outcomes
    <2> QED
      BY <1>1, <2>1, <2>2, WrittenRow
  <1>3. Failed(PayoutRow, rail) <=> Failed(PayoutRow', rail')
    BY <1>2 DEF Failed
  <1>4. \A j : PaySound(j, now, PayoutRow, booked, rail) =>
               PaySound(j, now', PayoutRow', booked', rail')
    BY <1>2, <1>3 DEF PaySound
  <1>5. RailSound'
    BY <1>1, <1>2, <1>3 DEF RailSound, PayRows
  <1> QED
    BY <1>1, <1>4, <1>5, JobsMove DEF PaySafe

LEMMA SendPaymentPay == ASSUME PInv, NEW p \in Jobs, SendPayment(p) PROVE PaySafe
  <1> DEFINE j == job[p]
  <1> DEFINE r == row["payout"]
  <1> DEFINE Good(n) == PaySound(n, now, PayoutRow, booked, rail) /\ n.pc \notin Sending
  <1>1. /\ TypeOK /\ j \in Job /\ PaySound(j, now, PayoutRow, booked, rail)
        /\ JobSound(j, row, booked, Landed) /\ r \in Row /\ r = PayoutRow
        /\ RailSound /\ OneSender /\ "payout" \in Orders
    BY PayNow, PayTypes DEF PayoutRow
  <1>2. /\ now \in Nat /\ Grace \in Nat /\ Grace > 0 /\ None \notin Nat
        /\ r.initiated \in Nat \union {None} /\ j.before \in Nat \union {None}
        /\ \A q \in Jobs : PaySound(job[q], now, PayoutRow, booked, rail)
    BY <1>1, PayTypes DEF PInv, JobsPaySound
  <1>3. Good(Fail(j, FALSE)) /\ (Failed(PayoutRow, rail) => Good(Fail(j, TRUE)))
    BY <1>1, FailPay
  <1>4. ASSUME NEW n, To(p, n), Good(n), UNCHANGED <<now, row, booked, rail>> PROVE PaySafe
    BY <1>4, StillIsCalm, CalmMove DEF PaySafe
  <1>5. Sent(rail) # {} => \A q \in Jobs : job[q].pc \notin Sending
    BY <1>2 DEF PaySound
  <1>6. \A c \in {"send", "unsendable", "outcome", "complete", "reverse", "reload", "retake"} :
          /\ [j EXCEPT !.pc = c].pc = c
          /\ [j EXCEPT !.pc = c].failed = j.failed
          /\ [j EXCEPT !.pc = c].posted = j.posted
          /\ [j EXCEPT !.pc = c].paid = j.paid
          /\ [j EXCEPT !.pc = c].payment = j.payment
          /\ [j EXCEPT !.pc = c].order = j.order
          /\ [j EXCEPT !.pc = c].before = j.before
    BY <1>1 DEF Job
  <1>7. CASE ClaimPayout(p)
    <2>1. CASE j.failed
      <3>1. Failed(PayoutRow, rail)
        BY <1>1, <2>1 DEF PaySound
      <3> QED
        BY <1>3, <1>4, <1>7, <2>1, <3>1 DEF ClaimPayout
    <2>2. CASE ~j.failed /\ To(p, Fail(j, FALSE)) /\ UNCHANGED row
      BY <1>3, <1>4, <1>7, <2>2 DEF ClaimPayout
    <2>3. ASSUME r.initiated = None, Write("payout", [r EXCEPT !.initiated = now]),
                 NEW pc \in {"send", "unsendable"}, To(p, [j EXCEPT !.pc = pc])
          PROVE  PaySafe
      <3>1. PICK n : n = [j EXCEPT !.pc = pc]
        OBVIOUS
      <3>2. /\ n.pc \in Sending /\ n.failed = j.failed /\ n.posted = j.posted
            /\ n.paid = j.paid /\ n.payment = j.payment /\ n.order = j.order
        BY <1>6, <2>3, <3>1 DEF Sending
      <3>3. /\ Sent(rail) = {} /\ PayoutRow.outcome # "failed"
            /\ \A q \in Jobs : job[q].pc \notin Sending
        BY <1>1, <1>2, <2>3 DEF RailSound, PayRows, PaySound
      <3>4. UNCHANGED <<now, booked, rail>>
        BY <1>7 DEF ClaimPayout
      <3> QED
        BY <1>1, <2>3, <3>1, <3>2, <3>3, <3>4, ClaimStamped
    <2>4. ASSUME r.initiated # None, To(p, [j EXCEPT !.pc = "reload"]), UNCHANGED row
          PROVE  PaySafe
      <3>1. PICK n : n = [j EXCEPT !.pc = "reload"]
        OBVIOUS
      <3>2. Good(n)
        BY <1>1, <1>6, <2>4, <3>1 DEF PaySound, Sending
      <3> QED
        BY <1>4, <1>7, <2>4, <3>1, <3>2 DEF ClaimPayout
    <2> QED
      BY <1>7, <2>1, <2>2, <2>3, <2>4 DEF ClaimPayout
  <1>8. CASE MarkUnsendable(p)
    <2>1. j.pc = "unsendable" /\ j.pc \in Sending
      BY <1>8 DEF MarkUnsendable, At, Sending
    <2>2. /\ Sent(rail) = {} /\ PayoutRow.initiated # None
          /\ now < PayoutRow.initiated + Grace
          /\ \A q \in Jobs \ {p} : job[q].pc \notin Sending
      BY <1>1, <2>1 DEF PaySound, OneSender
    <2>3. PICK n : n = Fail(j, TRUE)
      OBVIOUS
    <2>4. /\ n.pc = "release" /\ n.posted = j.posted /\ n.paid = j.paid
          /\ n.payment = j.payment /\ n.order = j.order
      BY <1>1, <2>3 DEF Fail, Job
    <2>5. n.pc \notin Delicate
      BY <2>4 DEF Delicate, Sending
    <2> QED
      BY <1>8, <2>2, <2>3, <2>4, <2>5, FailureWritten DEF MarkUnsendable
  <1>9. CASE Send(p)
    <2> DEFINE i == NextPayment
    <2> DEFINE lands(s) ==
          rail' = [rail EXCEPT ![i] = [state |-> s, claimed |-> r.initiated]]
    <2>1. j.pc = "send" /\ ~j.failed /\ ~j.paid /\ UNCHANGED <<now, booked, row>>
      BY <1>1, <1>9 DEF Send, At, PaySound, Sending, Failed, PaidOut
    <2>2. ASSUME Landed # Payments, NEW st \in {"queued", "paid", "failed"}, lands(st),
                 NEW n, To(p, n), ~n.failed, n.posted = j.posted,
                 n.payment \in {i, j.payment}, n.order = j.order, n.paid => st = "paid",
                 \/ n.pc \notin Delicate
                 \/ n.pc = "rejected" /\ st = "failed" /\ n.payment = i
          PROVE  PaySafe
      <3>1. i \in Payments
        BY <2>2, NextPaymentType
      <3> QED
        BY <1>1, <2>1, <2>2, <3>1, PaymentLands
    <2>3. CASE UNCHANGED rail /\ To(p, Fail(j, FALSE))
      BY <1>3, <1>4, <2>1, <2>3
    <2>4. CASE Landed # Payments /\ lands("queued") /\ To(p, Fail(j, FALSE))
      <3>1. PICK n : n = Fail(j, FALSE)
        OBVIOUS
      <3>2. /\ ~n.failed /\ n.posted = j.posted /\ n.payment = j.payment /\ n.order = j.order
            /\ n.paid = j.paid /\ n.pc = "release"
        BY <1>1, <3>1 DEF Fail, Job
      <3> QED
        BY <2>1, <2>2, <2>4, <3>1, <3>2 DEF Delicate, Sending
    <2>5. CASE Landed # Payments /\ lands("queued") /\ To(p, [j EXCEPT !.pc = "complete"])
      <3>1. PICK n : n = [j EXCEPT !.pc = "complete"]
        OBVIOUS
      <3>2. /\ n.failed = j.failed /\ n.posted = j.posted /\ n.payment = j.payment
            /\ n.order = j.order /\ n.paid = j.paid /\ n.pc = "complete"
        BY <1>6, <3>1
      <3> QED
        BY <2>1, <2>2, <2>5, <3>1, <3>2 DEF Delicate, Sending
    <2>6. CASE Landed # Payments /\ lands("queued")
                 /\ To(p, [j EXCEPT !.pc = "record", !.payment = i])
      <3>1. PICK n : n = [j EXCEPT !.pc = "record", !.payment = i]
        OBVIOUS
      <3>2. /\ n.failed = j.failed /\ n.posted = j.posted /\ n.payment = i
            /\ n.order = j.order /\ n.paid = j.paid /\ n.pc = "record"
        BY <1>1, <3>1 DEF Job
      <3> QED
        BY <2>1, <2>2, <2>6, <3>1, <3>2 DEF Delicate, Sending
    <2>7. CASE Landed # Payments /\ lands("paid")
                 /\ To(p, [j EXCEPT !.pc = "record", !.payment = i, !.paid = TRUE])
      <3>1. PICK n : n = [j EXCEPT !.pc = "record", !.payment = i, !.paid = TRUE]
        OBVIOUS
      <3>2. /\ n.failed = j.failed /\ n.posted = j.posted /\ n.payment = i
            /\ n.order = j.order /\ n.pc = "record"
        BY <1>1, <3>1 DEF Job
      <3> QED
        BY <2>1, <2>2, <2>7, <3>1, <3>2 DEF Delicate, Sending
    <2>8. CASE Landed # Payments /\ lands("failed")
                 /\ To(p, [j EXCEPT !.pc = "rejected", !.payment = i])
      <3>1. PICK n : n = [j EXCEPT !.pc = "rejected", !.payment = i]
        OBVIOUS
      <3>2. /\ n.failed = j.failed /\ n.posted = j.posted /\ n.payment = i
            /\ n.order = j.order /\ n.paid = j.paid /\ n.pc = "rejected"
        BY <1>1, <3>1 DEF Job
      <3> QED
        BY <2>1, <2>2, <2>8, <3>1, <3>2
    <2> QED
      BY <1>9, <2>3, <2>4, <2>5, <2>6, <2>7, <2>8 DEF Send
  <1>10. CASE RecordPayment(p)
    <2>1. PICK m : m = [r EXCEPT !.payment = j.payment]
      OBVIOUS
    <2>2. /\ m \in Row /\ m.initiated = r.initiated /\ m.outcome = r.outcome
          /\ m.payment = j.payment
      BY <1>1, <2>1 DEF Row, Job
    <2>3. Write("payout", m) /\ UNCHANGED <<now, booked, rail>>
      BY <1>10, <2>1 DEF RecordPayment
    <2>4. /\ PayoutRow'.initiated = r.initiated /\ PayoutRow'.outcome = r.outcome
          /\ PayoutRow'.payment = j.payment /\ row'["reversal"] = row["reversal"]
      BY <1>1, <2>2, <2>3, WrittenRow
    <2>5. Calm
      BY <1>1, <2>3, <2>4 DEF Calm, PaySound, RailSound
    <2>6. Good([j EXCEPT !.pc = "outcome"])
      BY <1>1, PcPay DEF Delicate, Sending
    <2> QED
      BY <1>10, <2>5, <2>6, CalmMove DEF RecordPayment, PaySafe
  <1>11. CASE SetOutcome(p)
    <2>1. Good([j EXCEPT !.pc = "complete"])
      BY <1>1, PcPay DEF Delicate, Sending
    <2>2. PICK n : To(p, n) /\ n = IF j.call = "reconcile" THEN Idle ELSE [j EXCEPT !.pc = "complete"]
      BY <1>11 DEF SetOutcome
    <2>3. Good(n)
      BY <2>1, <2>2, PlainIdlePay
    <2>4. CASE r.outcome = "failed"
      BY <1>4, <1>11, <2>2, <2>3, <2>4 DEF SetOutcome
    <2>5. CASE r.outcome # "failed"
      <3>1. PICK o \in {"confirmed", "pending"} : o = IF j.paid THEN "confirmed" ELSE "pending"
        OBVIOUS
      <3>2. Write("payout", [r EXCEPT !.outcome = o]) /\ UNCHANGED <<now, booked, rail>>
        BY <1>11, <2>5, <3>1 DEF SetOutcome
      <3>3. o = "confirmed" => PaidOut(rail)
        BY <1>1, <3>1 DEF PaySound
      <3> QED
        BY <1>1, <2>2, <2>3, <2>5, <3>2, <3>3, ConfirmedPay
    <2> QED
      BY <2>4, <2>5
  <1>12. CASE MarkRejected(p)
    <2>1. /\ j.payment \in Sent(rail) /\ rail[j.payment].state = "failed"
      BY <1>1, <1>12 DEF MarkRejected, At, PaySound
    <2>2. /\ PayoutRow.initiated # None /\ \A k \in Sent(rail) : rail[k].state = "failed"
          /\ \A q \in Jobs : job[q].pc \notin Sending
      BY <1>1, <1>5, <2>1 DEF RailSound, PayRows
    <2>3. PICK n : n = IF j.call = "reconcile" THEN [j EXCEPT !.pc = "reverse"] ELSE Fail(j, TRUE)
      OBVIOUS
    <2>4. /\ n.pc \in {"reverse", "release"} /\ n.posted = j.posted /\ n.paid = j.paid
          /\ n.payment = j.payment /\ n.order = j.order
      BY <1>1, <2>3 DEF Fail, Job
    <2>5. n.pc \notin Delicate \/ (n.pc = "reverse" /\ Sent(rail) # {})
      BY <2>1, <2>4 DEF Delicate, Sending
    <2>6. To(p, n) /\ WriteFailed(j.payment) /\ UNCHANGED <<now, booked, rail>>
      BY <1>12, <2>3 DEF MarkRejected
    <2> QED
      BY <2>1, <2>2, <2>4, <2>5, <2>6, FailureWritten
  <1>13. CASE Reload(p)
    <2>1. CASE r.outcome = "failed"
      BY <1>1, <1>3, <1>4, <1>13, <2>1 DEF Reload, Failed
    <2>2. CASE r.outcome # "failed"
      <3>1. PICK n : n = [j EXCEPT !.pc = "lookup", !.payment = r.payment, !.before = r.initiated]
        OBVIOUS
      <3>2. /\ n.failed = j.failed /\ n.posted = j.posted /\ n.paid = j.paid
            /\ n.payment = r.payment /\ n.order = j.order /\ n.pc = "lookup"
            /\ n.before = r.initiated
        BY <1>1, <3>1 DEF Job
      <3>3. r.initiated # None /\ r.payment \in Sent(rail) \union {None}
        BY <1>1, <1>13 DEF Reload, At, PaySound, RailSound, PayRows
      <3>4. Good(n)
        BY <1>1, <2>2, <3>2, <3>3 DEF PaySound, Sending
      <3> QED
        BY <1>4, <1>13, <2>2, <3>1, <3>4 DEF Reload
    <2> QED
      BY <2>1, <2>2
  <1>14. CASE Lookup(p)
    <2>1. CASE To(p, Fail(j, FALSE))
      BY <1>3, <1>4, <1>14, <2>1 DEF Lookup
    <2>2. ASSUME NEW i \in Visible, To(p, Found(j, i)) PROVE PaySafe
      <3>1. i \in Sent(rail)
        BY <2>2 DEF Visible, Landed, Sent
      <3> QED
        BY <1>1, <1>4, <1>14, <2>2, <3>1, FoundPay DEF Lookup
    <2>3. CASE /\ Visible = {} /\ j.before <= now - Grace
               /\ To(p, [j EXCEPT !.pc = "retake"])
      <3>1. PICK n : n = [j EXCEPT !.pc = "retake"]
        OBVIOUS
      <3>2. j.pc = "lookup" /\ j.before # None /\ j.before \in Nat /\ j.before + Grace <= now
        BY <1>1, <1>2, <1>14, <2>3 DEF Lookup, At, PaySound
      <3>3. j.before = PayoutRow.initiated => Sent(rail) = {}
        <4>1. \A i \in Sent(rail) : rail[i].state = "queued"
          BY <2>3 DEF Visible, Landed, Sent
        <4>2. \A i \in Sent(rail) : now < PayoutRow.initiated + Grace
          BY <1>1, <4>1 DEF RailSound, PayRows
        <4> QED
          BY <1>1, <1>2, <3>2, <4>2
      <3>4. Good(n)
        BY <1>1, <1>6, <3>1, <3>2, <3>3 DEF PaySound, Sending
      <3> QED
        BY <1>4, <1>14, <2>3, <3>1, <3>4 DEF Lookup
    <2> QED
      BY <1>14, <2>1, <2>2, <2>3 DEF Lookup
  <1>15. CASE Retake(p)
    <2>1. CASE To(p, Fail(j, FALSE)) /\ UNCHANGED row
      BY <1>3, <1>4, <1>15, <2>1 DEF Retake
    <2>2. CASE /\ r.initiated = j.before /\ Write("payout", [r EXCEPT !.initiated = now])
               /\ To(p, [j EXCEPT !.pc = "send", !.before = None])
      <3>1. PICK n : n = [j EXCEPT !.pc = "send", !.before = None]
        OBVIOUS
      <3>2. /\ n.pc \in Sending /\ n.failed = j.failed /\ n.posted = j.posted
            /\ n.paid = j.paid /\ n.payment = j.payment /\ n.order = j.order
        BY <1>1, <3>1 DEF Job, Sending
      <3>3. /\ Sent(rail) = {} /\ PayoutRow.outcome # "failed"
            /\ j.before # None /\ j.before + Grace <= now
        BY <1>1, <1>15, <2>2 DEF Retake, At, PaySound
      <3>4. \A q \in Jobs : job[q].pc \notin Sending
        BY <1>1, <1>2, <2>2, <3>3 DEF PaySound
      <3>5. UNCHANGED <<now, booked, rail>>
        BY <1>15 DEF Retake
      <3> QED
        BY <1>1, <2>2, <3>1, <3>2, <3>3, <3>4, <3>5, ClaimStamped
    <2> QED
      BY <1>15, <2>1, <2>2 DEF Retake
  <1> QED
    BY <1>7, <1>8, <1>9, <1>10, <1>11, <1>12, <1>13, <1>14, <1>15 DEF SendPayment

-----------------------------------------------------------------------------
(* The payment service and the clock *)

LEMMA RailPay == ASSUME PInv, NEW i \in Payments, RailMoves(i) PROVE PaySafe
  <1>1. /\ TypeOK /\ OneSender /\ RailSound /\ PayoutRow' = PayoutRow
        /\ \A q \in Jobs : PaySound(job[q], now, PayoutRow, booked, rail)
        /\ UNCHANGED <<now, booked, row, job>>
    BY DEF PInv, IInv, JobsPaySound, RailMoves, PayoutRow
  <1>2. PICK st \in {"taken", "paid", "failed"} :
          rail' = [rail EXCEPT ![i] = [rail[i] EXCEPT !.state = st]]
    BY DEF RailMoves
  <1>3. /\ rail'[i].state = st /\ rail'[i].claimed = rail[i].claimed
        /\ \A k \in Payments \ {i} : rail'[k] = rail[k]
        /\ rail[i].state \in {"queued", "taken"}
    <2>1. PICK m : m = [rail[i] EXCEPT !.state = st]
      OBVIOUS
    <2>2. m.state = st /\ m.claimed = rail[i].claimed
      BY <1>1, <2>1 DEF TypeOK
    <2>3. rail' = [rail EXCEPT ![i] = m]
      BY <1>2, <2>1
    <2> QED
      BY <1>1, <2>2, <2>3 DEF TypeOK, RailMoves
  <1>4. i \in Sent(rail) /\ Sent(rail') = Sent(rail)
    BY <1>3 DEF Sent
  <1>5. PayoutRow.outcome # "failed" /\ PayoutRow.outcome # "confirmed"
        /\ ~Failed(PayoutRow, rail) /\ ~PaidOut(rail)
    BY <1>1, <1>3, <1>4 DEF RailSound, PayRows, Failed, PaidOut
  <1>6. \A j : PaySound(j, now, PayoutRow, booked, rail) =>
               PaySound(j, now', PayoutRow', booked', rail')
    BY <1>1, <1>3, <1>4, <1>5 DEF PaySound, Failed
  <1>7. JobsPaySound' /\ OneSender'
    BY <1>1, <1>6 DEF JobsPaySound, OneSender
  <1>8. PayRows(now', PayoutRow', booked', rail')
    BY <1>1, <1>3, <1>4, <1>5 DEF RailSound, PayRows
  <1> QED
    BY <1>1, <1>7, <1>8 DEF RailSound, PaySafe

\* WithinGrace: no claim turns Grace old while it is used, while what was sent
\* under it does not show, or between its reading and its lookup.
LEMMA TickPay == ASSUME PInv, Tick PROVE PaySafe
  <1>1. /\ TypeOK /\ OneSender /\ RailSound /\ PayoutRow' = PayoutRow
        /\ UNCHANGED <<booked, row, rail, job>> /\ now' = now + 1 /\ WithinGrace
    BY DEF PInv, IInv, Tick, PayoutRow
  <1>2. /\ now \in Nat /\ Grace \in Nat /\ PayoutRow.initiated \in Nat \union {None}
        /\ \A q \in Jobs : job[q].before \in Nat \union {None}
    BY <1>1, PayTypes
  <1>3. ASSUME NEW q \in Jobs PROVE PaySound(job[q], now', PayoutRow', booked', rail')
    <2>1. PICK j : j = job[q]
      OBVIOUS
    <2>2. PaySound(j, now, PayoutRow, booked, rail) /\ j.before \in Nat \union {None}
      BY <1>2, <2>1 DEF PInv, JobsPaySound
    <2>3. /\ j.pc \in Sending => now + 1 < PayoutRow.initiated + Grace
          /\ j.pc \in {"lookup", "retake"} /\ now < j.before + Grace =>
               now + 1 < j.before + Grace
      BY <1>1, <2>1 DEF WithinGrace, Young, Sending, PayoutRow
    <2>4. j.pc = "lookup" /\ j.before = PayoutRow.initiated /\ j.before + Grace <= now + 1 =>
            (PayoutRow.outcome = "failed" => Sent(rail) # {})
      BY <1>2, <2>2, <2>3 DEF PaySound
    <2>5. j.pc = "retake" => j.before + Grace <= now + 1
      BY <1>2, <2>2 DEF PaySound
    <2>6. PaySound(j, now', PayoutRow', booked', rail')
      BY <1>1, <2>2, <2>3, <2>4, <2>5 DEF PaySound
    <2> QED
      BY <2>1, <2>6
  <1>4. JobsPaySound' /\ OneSender'
    BY <1>1, <1>3 DEF JobsPaySound, OneSender
  <1>5. \A i \in Sent(rail) : rail[i].state = "queued" => now + 1 < PayoutRow.initiated + Grace
    BY <1>1 DEF WithinGrace, Young, RailSound, PayRows, Sent
  <1>6. PayRows(now', PayoutRow', booked', rail')
    BY <1>1, <1>5 DEF RailSound, PayRows
  <1> QED
    BY <1>1, <1>4, <1>6 DEF RailSound, PaySafe

LEMMA StutterPay == ASSUME PInv, UNCHANGED <<now, row, booked, rail, job>> PROVE PaySafe
  BY DEF PInv, JobsPaySound, OneSender, RailSound, PayoutRow, PaySafe

-----------------------------------------------------------------------------
(* The inductive invariant *)

LEMMA PInit == Init => PInv
  <1> SUFFICES ASSUME Init PROVE PInv
    OBVIOUS
  <1>1. IInv
    BY InvInit
  <1>2. Sent(rail) = {} /\ booked = {}
    BY DEF Init, Sent
  <1>3. /\ PayoutRow.outcome = "" /\ PayoutRow.payment = None
        /\ row["reversal"].outcome = ""
    BY DEF Init, NewRow, Orders, PayoutRow
  <1>4. JobsPaySound /\ OneSender
    BY PlainIdlePay DEF Init, JobsPaySound, OneSender
  <1>5. RailSound
    BY <1>2, <1>3 DEF RailSound, PayRows
  <1> QED
    BY <1>1, <1>4, <1>5 DEF PInv

LEMMA PNext == PInv /\ [Next]_vars => PInv'
  <1> SUFFICES ASSUME PInv, [Next]_vars PROVE PInv'
    OBVIOUS
  <1>1. IInv'
    BY InvNext DEF PInv
  <1>2. ASSUME NEW p \in Jobs,
               Call(p) \/ Gate(p) \/ Execute(p) \/ SendPayment(p) \/ JobRun(p)
                 \/ StatementFails(p) \/ Crash(p)
        PROVE  PaySafe
    BY <1>2, CallPay, GatePay, ExecutePay, SendPaymentPay, JobRunPay, FaultPay
  <1>3. ASSUME HoldMoves \/ UNCHANGED vars PROVE PaySafe
    BY <1>3, StutterPay DEF HoldMoves, vars
  <1>4. PaySafe
    BY <1>2, <1>3, RailPay, TickPay DEF Next
  <1> QED
    BY <1>1, <1>4 DEF PInv, PaySafe

LEMMA PAlways == Spec => []PInv
  BY PInit, PNext, PTL DEF Spec

\* The payout claim and its retaking: the rail is handed this order's money at
\* most once, and the payout status on the row is its word, for any number of
\* executions, reconciliations, crashes and lost answers.
THEOREM RailSaysTheOutcome == Spec => []OutcomeIsTheRails
  <1>1. PInv => OutcomeIsTheRails
    <2> SUFFICES ASSUME PInv PROVE OutcomeIsTheRails
      OBVIOUS
    <2>1. RailSound /\ Landed = Sent(rail)
      BY SentIsLanded DEF PInv
    <2>2. Cardinality(Landed) <= 1
      <3>1. CASE Landed = {}
        BY <3>1, FS_EmptySet
      <3>2. CASE Landed # {}
        <4>1. PICK i : Landed = {i}
          BY <2>1, <3>2 DEF RailSound, PayRows
        <4> QED
          BY <4>1, FS_Singleton
      <3> QED
        BY <3>1, <3>2
    <2> QED
      BY <2>1, <2>2 DEF RailSound, PayRows, OutcomeIsTheRails, PayoutRow, PaidOut
  <1> QED
    BY <1>1, PAlways, PTL

-----------------------------------------------------------------------------
(* TransferOrder implements Payout *)

\* What Contract makes of the books and of the rail.
Books(b) ==
  IF "reversal" \in b THEN "reversed" ELSE IF "payout" \in b THEN "posted" ELSE "none"
Cash(s) ==
  IF Sent(s) = {} THEN "none"
  ELSE IF \E i \in Sent(s) : s[i].state = "paid" THEN "paid"
  ELSE IF \E i \in Sent(s) : s[i].state # "failed" THEN "sent" ELSE "failed"

\* In terms of Books and Cash, what a step of the contract may do.
Keeps ==
  \/ Books(booked') = Books(booked) /\ Cash(rail') = Cash(rail)
  \/ Books(booked) = "none" /\ Books(booked') = "posted" /\ Cash(rail') = Cash(rail)
  \/ /\ Books(booked) = "posted" /\ Books(booked') = "posted" /\ Cash(rail) = "none"
     /\ Cash(rail') \in {"sent", "paid", "failed"}
  \/ /\ Books(booked) = "posted" /\ Books(booked') = "posted" /\ Cash(rail) = "sent"
     /\ Cash(rail') \in {"paid", "failed"}
  \/ /\ Books(booked) = "posted" /\ Cash(rail) \in {"none", "failed"}
     /\ Books(booked') = "reversed" /\ Cash(rail') = Cash(rail)

LEMMA KeepsStep == Keeps => Contract!Next \/ UNCHANGED Contract!vars
  <1>1. Sent(rail) = Landed /\ Sent(rail') = Landed'
    BY DEF Sent, Landed
  <1> QED
    BY <1>1 DEF Keeps, Books, Cash, Contract!Next, Contract!vars, Contract!Post,
       Contract!Send, Contract!Settle, Contract!Reverse

\* The books change by an execution's ledger leg alone.
LEMMA BooksStep ==
  ASSUME PInv, NEW p \in Jobs, PostLedger(p)
  PROVE  Keeps
  <1>1. /\ PaySound(job[p], now, PayoutRow, booked, rail) /\ RailSound
        /\ job[p].order \in Orders
    BY PayNow
  <1>2. rail' = rail /\ (booked' = booked \/ booked' = booked \union {job[p].order})
    BY DEF PostLedger
  <1>3. CASE job[p].order = "payout"
    BY <1>1, <1>2, <1>3 DEF Keeps, Books, RailSound, PayRows
  <1>4. CASE job[p].order = "reversal"
    <2>1. Failed(PayoutRow, rail) /\ "payout" \in booked
      BY <1>1, <1>4 DEF PaySound
    <2>2. Cash(rail) \in {"none", "failed"}
      BY <1>1, <2>1 DEF Failed, Cash, RailSound, PayRows
    <2> QED
      BY <1>2, <1>4, <2>1, <2>2 DEF Keeps, Books
  <1> QED
    BY <1>1, <1>3, <1>4 DEF Orders

\* The rail is handed posted money only, and once.
LEMMA SendStep ==
  ASSUME PInv, NEW p \in Jobs, Send(p)
  PROVE  Keeps
  <1> DEFINE i == NextPayment
  <1>1. /\ PaySound(job[p], now, PayoutRow, booked, rail) /\ RailSound /\ TypeOK
        /\ JobSound(job[p], row, booked, Landed) /\ RowsSound
    BY PayNow DEF IInv
  <1>2. job[p].pc = "send" /\ booked' = booked
    BY DEF Send, At
  <1>3. Sent(rail) = {} /\ PayoutRow.outcome # "failed"
    BY <1>1, <1>2 DEF PaySound, Sending
  <1>4. Books(booked) = "posted"
    <2>1. "payout" \in booked
      BY <1>1, <1>2 DEF JobSound, SendSteps, RowsSound, Orders
    <2>2. "reversal" \notin booked
      BY <1>1, <1>3 DEF RailSound, PayRows, Failed
    <2> QED
      BY <2>1, <2>2 DEF Books
  <1>5. ASSUME Landed # Payments, NEW st \in {"queued", "paid", "failed"},
               rail' = [rail EXCEPT ![i] = [state |-> st, claimed |-> row["payout"].initiated]]
        PROVE  Cash(rail') \in {"sent", "paid", "failed"}
    <2>1. i \in Payments
      BY <1>5, NextPaymentType
    <2>2. rail'[i].state = st
      BY <1>1, <1>5, <2>1 DEF TypeOK
    <2>3. Sent(rail') # {}
      BY <2>1, <2>2 DEF Sent
    <2> QED
      BY <2>3 DEF Cash
  <1>6. rail' = rail \/ Cash(rail') \in {"sent", "paid", "failed"}
    BY <1>5 DEF Send
  <1>7. Cash(rail) = "none"
    BY <1>3 DEF Cash
  <1> QED
    BY <1>2, <1>4, <1>6, <1>7 DEF Keeps

\* The rail's verdict comes on money that was not put back.
LEMMA SettleStep ==
  ASSUME PInv, NEW i \in Payments, RailMoves(i)
  PROVE  Keeps
  <1>1. /\ TypeOK /\ RailSound /\ booked' = booked
    BY DEF PInv, IInv, RailMoves
  <1>2. PICK st \in {"taken", "paid", "failed"} :
          /\ rail' = [rail EXCEPT ![i] = [rail[i] EXCEPT !.state = st]]
          /\ rail[i].state = (IF st = "taken" THEN "queued" ELSE "taken")
    BY DEF RailMoves
  <1>3. rail'[i].state = st /\ \A k \in Payments \ {i} : rail'[k] = rail[k]
    <2>1. PICK m : m = [rail[i] EXCEPT !.state = st]
      OBVIOUS
    <2>2. m.state = st
      BY <1>1, <2>1 DEF TypeOK
    <2>3. rail' = [rail EXCEPT ![i] = m]
      BY <1>2, <2>1
    <2> QED
      BY <1>1, <2>2, <2>3 DEF TypeOK
  <1>4. Sent(rail) = {i} /\ Sent(rail') = {i}
    <2>1. i \in Sent(rail) /\ Sent(rail') = Sent(rail)
      BY <1>2, <1>3 DEF Sent
    <2> QED
      BY <1>1, <2>1 DEF RailSound, PayRows
  <1>5. Books(booked) = "posted"
    BY <1>1, <1>2, <1>4 DEF RailSound, PayRows, Failed, Books
  <1>6. Cash(rail) = "sent" /\ Cash(rail') = (IF st = "taken" THEN "sent" ELSE st)
    BY <1>2, <1>3, <1>4 DEF Cash
  <1> QED
    BY <1>1, <1>5, <1>6 DEF Keeps

LEMMA ContractStep == PInv /\ [Next]_vars => [Contract!Next]_Contract!vars
  <1> SUFFICES ASSUME PInv, [Next]_vars PROVE [Contract!Next]_Contract!vars
    OBVIOUS
  <1>1. ASSUME UNCHANGED <<booked, rail>> PROVE Keeps
    BY <1>1 DEF Keeps
  <1>2. ASSUME NEW p \in Jobs, Execute(p) PROVE Keeps
    <2>1. PostLedger(p) \/ UNCHANGED <<booked, rail>>
      BY <1>2 DEF Execute, Load, Claim, Inspect, Resume, MarkPosted, Complete, Release,
         SaveReversal, Close
    <2> QED
      BY <1>1, <2>1, BooksStep
  <1>3. ASSUME NEW p \in Jobs, SendPayment(p) PROVE Keeps
    <2>1. Send(p) \/ UNCHANGED <<booked, rail>>
      BY <1>3 DEF SendPayment, ClaimPayout, MarkUnsendable, RecordPayment, SetOutcome,
         MarkRejected, Reload, Lookup, Retake
    <2> QED
      BY <1>1, <2>1, SendStep
  <1>4. ASSUME NEW p \in Jobs,
               Call(p) \/ Gate(p) \/ JobRun(p) \/ StatementFails(p) \/ Crash(p)
        PROVE  Keeps
    <2>1. UNCHANGED <<booked, rail>>
      BY <1>4 DEF Call, StartExecute, StartReconcile, StartNotify, StartFail, Start, Gate,
         GateReserve, GateCommit, GateRelease, JobRun, MarkShut, Reconcile, Ask, Tell,
         MarkNotified, StatementFails, Crash
    <2> QED
      BY <1>1, <2>1
  <1>5. ASSUME HoldMoves \/ Tick \/ UNCHANGED vars PROVE Keeps
    BY <1>1, <1>5 DEF HoldMoves, Tick, vars
  <1>6. Keeps
    BY <1>2, <1>3, <1>4, <1>5, SettleStep DEF Next
  <1> QED
    BY <1>6, KeepsStep

LEMMA ContractInit == Init => Contract!Init
  BY DEF Init, Contract!Init, Landed

\* reverseRejectedPayout and everything around it: an order posts, hands its
\* money over once, and is put back in the books only when its money never
\* reaches the recipient; every step is one the contract allows.
THEOREM TransferOrderKeepsContract == Spec => KeepsContract
  BY ContractInit, ContractStep, PAlways, PTL DEF Spec, KeepsContract, Contract!Spec
===============================================================================
