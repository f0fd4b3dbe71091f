--------------------------- MODULE LoanOrigination ---------------------------
(***************************************************************************)
(* One loan application of apps/loans, from the request to the money: saved, *)
(* decided, funded and opened as an account, disbursed, cancelled, and put   *)
(* back when the rail fails the payout late, against the contract operations *)
(* gives for a transfer order (module Payout).                               *)
(*                                                                         *)
(* A call is one request under way, cut where it leaves a transaction or     *)
(* calls funding or operations; it may die between two steps. A key stands   *)
(* for the idempotency key of a disbursement, hence for its one row. A        *)
(* decision reads the request and claims it from the same status, so both are *)
(* one step.                                                                *)
(***************************************************************************)
EXTENDS PayoutOrder, Integers, FiniteSets

CONSTANTS
  Keys,        \* disbursements, by idempotency key
  Calls,       \* requests under way at a time
  MaxSaves,    \* bound: saves of the application
  MaxFaults    \* bound: deaths and errors

ASSUME BoundAssumption == MaxSaves \in Nat /\ MaxFaults \in Nat

VARIABLES
  req,      \* loan_requests.status
  claimant, \* loan_requests.loan_account_id: whose account, or Free
  acct,     \* loan_accounts.status, or "none"
  opened,   \* the account has its schedule and its balance
  fund,     \* the capital behind the request: none, funded, released
  disb,     \* disbursements.status by key
  order,    \* the disbursements' payout orders at operations
  told,     \* disbursements operations has told the failure of
  repaid,   \* the loan has a repayment
  overlap,  \* what has run twice at a time: attempts on one "key", a "cancel"
  call, saves, faults

vars == <<req, claimant, acct, opened, fund, disb, order, told, repaid, overlap,
          call, saves, faults>>
request == <<req, claimant>>
account == <<acct, opened, fund>>
money == <<disb, order, told>>

Free == "free"
NoKey == "none"
Idle == [pc |-> "idle", key |-> NoKey]

Init ==
  /\ req = "SUBMITTED" /\ claimant = Free
  /\ acct = "none" /\ opened = FALSE /\ fund = "none"
  /\ disb = [k \in Keys |-> "NONE"] /\ order = [k \in Keys |-> "none"]
  /\ told = {} /\ repaid = FALSE /\ overlap = {}
  /\ call = [c \in Calls |-> Idle]
  /\ saves = MaxSaves /\ faults = MaxFaults

At(c, pc) == call[c].pc = pc
To(c, pc) == call' = [call EXCEPT ![c].pc = pc]
Return(c) == call' = [call EXCEPT ![c] = Idle]
Begin(c, pc, k) == At(c, "idle") /\ call' = [call EXCEPT ![c] = [pc |-> pc, key |-> k]]
Overlaps(what, twice) == overlap' = IF twice THEN overlap \union {what} ELSE overlap
Fault == faults > 0 /\ faults' = faults - 1

------------------------------------------------------------------------------
(* The request *)

\* Save reads an application that is not decided yet.
Save(c) ==
  /\ req = "SUBMITTED" /\ saves > 0 /\ saves' = saves - 1
  /\ Begin(c, "save", NoKey)
  /\ UNCHANGED <<request, account, money, repaid, overlap, faults>>

\* upsert.ByID: the whole row as it was read, whatever was decided meanwhile.
SaveRow(c) ==
  /\ At(c, "save")
  /\ req' = "SUBMITTED" /\ claimant' = Free
  /\ Return(c)
  /\ UNCHANGED <<account, money, repaid, overlap, saves, faults>>

Approve ==
  /\ req = "SUBMITTED" /\ req' = "APPROVED"
  /\ UNCHANGED <<claimant, account, money, repaid, overlap, call, saves, faults>>

\* Reject, Cancel and the expiry of the offer: from a status not terminal.
Refuse ==
  /\ req \in {"SUBMITTED", "APPROVED"} /\ req' = "REFUSED"
  /\ UNCHANGED <<claimant, account, money, repaid, overlap, call, saves, faults>>

------------------------------------------------------------------------------
(* The account *)

\* Create: an account that is there answers; else the request must be approved.
Create(c) ==
  /\ acct = "none" /\ req = "APPROVED"
  /\ Begin(c, "claim", NoKey)
  /\ UNCHANGED <<request, account, money, repaid, overlap, saves, faults>>

ClaimForLoanCreation(c) ==
  /\ At(c, "claim")
  /\ IF req = "APPROVED" THEN req' = "LOAN_CREATED" /\ claimant' = c /\ To(c, "fund")
                         ELSE Return(c) /\ UNCHANGED request
  /\ UNCHANGED <<account, money, repaid, overlap, saves, faults>>

\* A failed creation gives the request back, if it is still its own.
ReleaseLoanCreationClaim(c) ==
  IF req = "LOAN_CREATED" /\ claimant = c
    THEN req' = "APPROVED" /\ claimant' = Free
    ELSE UNCHANGED request

\* ensureLoanRequestFunding: funding builds the allocation of a request once.
FundLoan(c) ==
  /\ At(c, "fund")
  /\ fund' = "funded"
  /\ To(c, "row")
  /\ UNCHANGED <<request, acct, opened, money, repaid, overlap, saves, faults>>

\* Mutant: an answer short of the principal is only logged.
FundFailsOnwards(c) ==
  /\ At(c, "fund") /\ Fault
  /\ fund' \in {fund, "funded"}
  /\ To(c, "row")
  /\ UNCHANGED <<request, acct, opened, money, repaid, overlap, saves>>

\* Funding falls short, or its answer is lost.
FundFails(c) ==
  /\ At(c, "fund") /\ Fault
  /\ fund' \in {fund, "funded"}
  /\ ReleaseLoanCreationClaim(c) /\ Return(c)
  /\ UNCHANGED <<acct, opened, money, repaid, overlap, saves>>

\* The row of the account; the index on the request refuses a second one.
CreateRow(c) ==
  /\ At(c, "row")
  /\ IF acct = "none" THEN acct' = "PENDING" /\ To(c, "open") /\ UNCHANGED request
     ELSE ReleaseLoanCreationClaim(c) /\ Return(c) /\ UNCHANGED acct
  /\ UNCHANGED <<opened, fund, money, repaid, overlap, saves, faults>>

\* Its schedule and its balance.
Open(c) ==
  /\ At(c, "open")
  /\ opened' = TRUE /\ Return(c)
  /\ UNCHANGED <<request, acct, fund, money, repaid, overlap, saves, faults>>

OpenFails(c) ==
  /\ At(c, "open") /\ Fault
  /\ ReleaseLoanCreationClaim(c) /\ Return(c)
  /\ UNCHANGED <<account, money, repaid, overlap, saves>>

------------------------------------------------------------------------------
(* The disbursement *)

\* disbursementBusiness.Create: a settled row answers the key; else the loan
\* must await its disbursement (loadDisbursableLoan).
Disburse(c, k) ==
  /\ disb[k] \in {"NONE", "PROCESSING"} /\ acct = "PENDING"
  /\ Begin(c, "insert", k)
  /\ Overlaps("key", \E d \in Calls : call[d].key = k)
  /\ UNCHANGED <<request, account, money, repaid, saves, faults>>

Live(k) == disb[k] \in {"PROCESSING", "COMPLETED"}

\* Mutant: the index on the live disbursement of a loan is missing.
InsertAnother(c) ==
  LET k == call[c].key IN
  /\ At(c, "insert")
  /\ disb' = IF disb[k] = "NONE" THEN [disb EXCEPT ![k] = "PROCESSING"] ELSE disb
  /\ CASE disb[k] = "NONE" -> To(c, "recheck")
       [] disb[k] = "PROCESSING" -> To(c, "pay")
       [] OTHER -> Return(c)
  /\ UNCHANGED <<request, account, order, told, repaid, overlap, saves, faults>>

\* ClaimIdempotencyKey: a row of the key is resumed or answers; of several keys
\* one is the live disbursement of the loan.
ClaimIdempotencyKey(c) ==
  LET k == call[c].key IN
  /\ At(c, "insert")
  /\ \/ /\ disb[k] = "NONE" /\ ~\E l \in Keys : Live(l)
        /\ disb' = [disb EXCEPT ![k] = "PROCESSING"] /\ To(c, "recheck")
     \/ /\ disb[k] = "PROCESSING" /\ To(c, "pay") /\ UNCHANGED disb
     \/ /\ disb[k] \in {"COMPLETED", "FAILED"} \/ \E l \in Keys \ {k} : Live(l)
        /\ disb[k] # "PROCESSING"
        /\ Return(c) /\ UNCHANGED disb
  /\ UNCHANGED <<request, account, order, told, repaid, overlap, saves, faults>>

\* A row just made is given up when the loan has been closed meanwhile.
Recheck(c) ==
  /\ At(c, "recheck")
  /\ IF acct = "PENDING" THEN To(c, "pay") /\ UNCHANGED disb
     ELSE disb' = [disb EXCEPT ![call[c].key] = "FAILED"] /\ Return(c)
  /\ UNCHANGED <<request, account, order, told, repaid, overlap, saves, faults>>

\* Mutant: whatever is not a success fails the disbursement.
TransferOrderRefused(c) ==
  LET k == call[c].key IN
  /\ At(c, "pay")
  /\ \E a \in PayoutAnswers(order[k]) :
       /\ order' = [order EXCEPT ![k] = a[1]]
       /\ faults' = IF a[2] = "error" THEN faults - 1 ELSE faults
       /\ faults' >= 0
       /\ To(c, IF a[2] = "done" THEN "complete" ELSE "fail")
  /\ UNCHANGED <<request, account, disb, told, repaid, overlap, saves>>

\* executeDisbursementTransfer, and what its answer makes of the row
\* (transferPermanentlyRejected): an error leaves it to a retry of the key.
TransferOrderExecute(c) ==
  LET k == call[c].key IN
  /\ At(c, "pay")
  /\ \E a \in PayoutAnswers(order[k]) :
       /\ order' = [order EXCEPT ![k] = a[1]]
       /\ faults' = IF a[2] = "error" THEN faults - 1 ELSE faults
       /\ faults' >= 0
       /\ CASE a[2] = "done" -> To(c, "complete")
            [] a[2] = "rejected" -> To(c, "fail")
            [] OTHER -> Return(c)
  /\ UNCHANGED <<request, account, disb, told, repaid, overlap, saves>>

\* handleTransferFailure of a permanent rejection.
MarkFailed(c) ==
  /\ At(c, "fail")
  /\ disb' = [disb EXCEPT ![call[c].key] = "FAILED"] /\ Return(c)
  /\ UNCHANGED <<request, account, order, told, repaid, overlap, saves, faults>>

\* completeDisbursement: the row, then the loan, if it still is where a
\* transition to ACTIVE is allowed from.
MarkCompleted(c) ==
  /\ At(c, "complete")
  /\ disb' = [disb EXCEPT ![call[c].key] = "COMPLETED"] /\ To(c, "activate")
  /\ UNCHANGED <<request, account, order, told, repaid, overlap, saves, faults>>

Activate(c) ==
  /\ At(c, "activate")
  /\ acct' = IF acct = "PENDING" THEN "ACTIVE" ELSE acct
  /\ Return(c)
  /\ UNCHANGED <<request, opened, fund, money, repaid, overlap, saves, faults>>

------------------------------------------------------------------------------
(* The rail, and a payout that fails late *)

RailDecides(k) ==
  /\ order[k] = "sent"
  /\ \E o \in {"paid", "failed"} : order' = [order EXCEPT ![k] = o]
  /\ UNCHANGED <<request, account, disb, told, repaid, overlap, call, saves, faults>>

\* disbursementFailed marks a completed row; operations asks until it answers,
\* and no more whether or not there was a row to mark.
PayoutFailed(c, k) ==
  /\ order[k] = "failed" /\ k \notin told
  /\ IF disb[k] = "COMPLETED"
       THEN disb' = [disb EXCEPT ![k] = "FAILED"] /\ Begin(c, "repaid?", k) /\ UNCHANGED told
       ELSE told' = told \union {k} /\ UNCHANGED <<disb, call>>
  /\ UNCHANGED <<request, account, order, repaid, overlap, saves, faults>>

\* A loan with a repayment is left to an operator.
CheckRepayments(c) ==
  /\ At(c, "repaid?")
  /\ IF repaid THEN told' = told \union {call[c].key} /\ Return(c)
               ELSE To(c, "return") /\ UNCHANGED told
  /\ UNCHANGED <<request, account, disb, order, repaid, overlap, saves, faults>>

\* ClaimStatus from ACTIVE back to PENDING_DISBURSEMENT.
ReturnLoan(c) ==
  /\ At(c, "return")
  /\ acct' = IF acct = "ACTIVE" THEN "PENDING" ELSE acct
  /\ told' = told \union {call[c].key} /\ Return(c)
  /\ UNCHANGED <<request, opened, fund, disb, order, repaid, overlap, saves, faults>>

Repay ==
  /\ acct = "ACTIVE" /\ ~repaid /\ repaid' = TRUE
  /\ UNCHANGED <<request, account, money, overlap, call, saves, faults>>

------------------------------------------------------------------------------
(* The cancel of a loan that was not disbursed *)

Cancelling == {"look", "look again", "close", "raced?", "reopen", "release"}

disbursementUnderway == \E k \in Keys : Live(k)

\* Cancel reads the loan, then its disbursements: one awaiting its money is
\* closed, of one closed before the release is tried again.
CancelLoan(c) ==
  /\ acct \in {"PENDING", "CLOSED"} /\ fund # "released"
  /\ Begin(c, IF acct = "PENDING" THEN "look" ELSE "look again", NoKey)
  /\ Overlaps("cancel", \E d \in Calls : call[d].pc \in Cancelling)
  /\ UNCHANGED <<request, account, money, repaid, saves, faults>>

Look(c) ==
  /\ call[c].pc \in {"look", "look again"}
  /\ IF disbursementUnderway THEN Return(c)
     ELSE To(c, IF At(c, "look") THEN "close" ELSE "release")
  /\ UNCHANGED <<request, account, money, repaid, overlap, saves, faults>>

\* Mutant: a disbursement that raced the close is not looked for.
CloseOnly(c) ==
  /\ At(c, "close")
  /\ IF acct = "PENDING" THEN acct' = "CLOSED" /\ To(c, "release")
                         ELSE Return(c) /\ UNCHANGED acct
  /\ UNCHANGED <<request, opened, fund, money, repaid, overlap, saves, faults>>

\* TransitionStatus to CLOSED; the second look follows.
Close(c) ==
  /\ At(c, "close")
  /\ IF acct = "PENDING" THEN acct' = "CLOSED" /\ To(c, "raced?")
                         ELSE Return(c) /\ UNCHANGED acct
  /\ UNCHANGED <<request, opened, fund, money, repaid, overlap, saves, faults>>

\* A disbursement raced the close: the loan is reopened for it.
LookAgain(c) ==
  /\ At(c, "raced?")
  /\ To(c, IF disbursementUnderway THEN "reopen" ELSE "release")
  /\ UNCHANGED <<request, account, money, repaid, overlap, saves, faults>>

Reopen(c) ==
  /\ At(c, "reopen")
  /\ acct' = IF acct = "CLOSED" THEN "PENDING" ELSE acct
  /\ Return(c)
  /\ UNCHANGED <<request, opened, fund, money, repaid, overlap, saves, faults>>

FundingRelease(c) ==
  /\ At(c, "release")
  /\ fund' = "released" /\ Return(c)
  /\ UNCHANGED <<request, acct, opened, money, repaid, overlap, saves, faults>>

------------------------------------------------------------------------------
\* A call dies, or its database call fails: nothing later of it happens.
Die(c) ==
  /\ ~At(c, "idle") /\ Fault
  /\ Return(c)
  /\ UNCHANGED <<request, account, money, repaid, overlap, saves>>

Step(c) ==
  \/ SaveRow(c)
  \/ ClaimForLoanCreation(c) \/ FundLoan(c) \/ FundFails(c) \/ CreateRow(c)
  \/ Open(c) \/ OpenFails(c)
  \/ ClaimIdempotencyKey(c) \/ Recheck(c) \/ TransferOrderExecute(c)
  \/ MarkFailed(c) \/ MarkCompleted(c) \/ Activate(c)
  \/ CheckRepayments(c) \/ ReturnLoan(c)
  \/ Look(c) \/ Close(c) \/ LookAgain(c) \/ Reopen(c) \/ FundingRelease(c)
  \/ Die(c)

Next ==
  \/ Approve \/ Refuse \/ Repay
  \/ \E k \in Keys : RailDecides(k)
  \/ \E c \in Calls :
       \/ Step(c) \/ Save(c) \/ Create(c) \/ CancelLoan(c)
       \/ \E k \in Keys : Disburse(c, k) \/ PayoutFailed(c, k)

Spec == Init /\ [][Next]_vars

------------------------------------------------------------------------------
(* Properties *)

Pcs == {"idle", "save", "claim", "fund", "row", "open", "insert", "recheck", "pay",
        "fail", "complete", "activate", "repaid?", "return"} \union Cancelling

\* Shape of the request, the account, its disbursements and the calls.
TypeOK ==
  /\ req \in {"SUBMITTED", "APPROVED", "LOAN_CREATED", "REFUSED"}
  /\ claimant \in Calls \union {Free}
  /\ acct \in {"none", "PENDING", "ACTIVE", "CLOSED"}
  /\ fund \in {"none", "funded", "released"}
  /\ opened \in BOOLEAN /\ repaid \in BOOLEAN /\ overlap \subseteq {"key", "cancel"}
  /\ disb \in [Keys -> {"NONE", "PROCESSING", "COMPLETED", "FAILED"}]
  /\ order \in [Keys -> {"none", "sent", "paid", "failed"}] /\ told \subseteq Keys
  /\ call \in [Calls -> [pc : Pcs, key : Keys \union {NoKey}]]
  /\ saves \in 0..MaxSaves /\ faults \in 0..MaxFaults

Out(k) == order[k] \in {"sent", "paid"}

\* disbursement.go:203-206, "different keys, one winner. The loser never
\* reaches the payment rail": however disbursements of several keys race, die,
\* are retried or fail late, one payment of the loan is out, as long as no two
\* attempts on one key run at a time.
PaidOnce ==
  /\ TypeOK
  /\ "key" \notin overlap => \A k, l \in Keys : Out(k) /\ Out(l) => k = l

\* loan_account.go:1160-1166: no cancel gives the capital back behind money
\* that is out, whatever disbursement raced it, with cancels one at a time and
\* attempts on a key one at a time.
ReleasedIsUnpaid == fund = "released" /\ overlap = {} => ~\E k \in Keys : Out(k)

\* disbursement.go:383-390, payout_failed.go:88-91: the row says what became of
\* the money. A disbursement fails only when nothing of it is out, and the loan
\* is active only once its money was handed to the rail.
RowsTellTheMoney ==
  /\ "key" \notin overlap => \A k \in Keys : disb[k] = "FAILED" => ~Out(k)
  /\ \A k \in Keys : disb[k] = "COMPLETED" => order[k] # "none"
  /\ acct = "ACTIVE" => \E k \in Keys : order[k] # "none"

\* loan_account.go:274-278: an account that may be paid out, or has been, has
\* capital behind it, whatever was saved, decided or retried around it, with
\* cancels one at a time.
AccountIsFunded ==
  acct \in {"PENDING", "ACTIVE"} /\ "cancel" \notin overlap => fund = "funded"
=============================================================================
