------------------------ MODULE LoanOrigination_proofs ------------------------
(***************************************************************************)
(* Proofs about LoanOrigination for any set of keys and calls and any        *)
(* bounds: type correctness, one payment per loan, capital given back only   *)
(* for a loan that is not paid, rows that tell what became of the money, and *)
(* accounts that have capital behind them.                                   *)
(***************************************************************************)
EXTENDS LoanOrigination, TLAPS

Attempting == {"insert", "recheck", "pay", "fail", "complete", "activate"}
Attempt(c) == call[c].pc \in Attempting

\* The calls that work on a disbursement have its key.
Keyed ==
  \A c \in Calls :
    Attempt(c) \/ call[c].pc \in {"repaid?", "return"} => call[c].key \in Keys

\* An account is only made once funding has built its allocation, which is
\* given back, never lost.
Funded ==
  /\ \A c \in Calls : At(c, "row") => fund # "none"
  /\ acct # "none" => fund # "none"
  /\ fund = "released" => acct # "none"
  /\ \A c \in Calls : call[c].pc \in Cancelling => acct # "none"

\* A cancel that runs by itself releases a loan it finds, or has made, closed.
OneCancel ==
  \A c, d \in Calls : call[c].pc \in Cancelling /\ call[d].pc \in Cancelling => c = d
ReleasedIsClosed == fund = "released" => acct = "CLOSED"
FoundClosed ==
  \A c \in Calls :
    call[c].pc \in {"look again", "raced?", "reopen", "release"} => acct = "CLOSED"
NotReleasedYet == \A c \in Calls : call[c].pc \in Cancelling => fund # "released"
Orderly == OneCancel /\ ReleasedIsClosed /\ FoundClosed /\ NotReleasedYet
SoleCancel == "cancel" \notin overlap => Orderly

\* The row of a disbursement is there before its order, and complete after it.
RowFirst ==
  /\ \A k \in Keys : disb[k] = "NONE" => order[k] = "none"
  /\ \A k \in Keys : disb[k] = "COMPLETED" => order[k] # "none"
  /\ \A c \in Calls :
       call[c].pc \in {"recheck", "pay", "fail", "complete"} => disb[call[c].key] # "NONE"
  /\ \A c \in Calls : call[c].pc \in {"complete", "activate"} => order[call[c].key] # "none"
  /\ acct = "ACTIVE" => \E k \in Keys : order[k] # "none"

\* With attempts on a key one at a time: an attempt is alone with its key and
\* keeps the row it drives, one row is live, and money is out for it only.
OneAttempt ==
  \A c, d \in Calls : Attempt(c) /\ Attempt(d) /\ call[c].key = call[d].key => c = d
OneLive == \A k, l \in Keys : Live(k) /\ Live(l) => k = l
OutIsLive == \A k \in Keys : Out(k) => Live(k)
Drives ==
  \A c \in Calls : call[c].pc \in {"recheck", "pay", "fail", "complete"} =>
                     disb[call[c].key] = "PROCESSING"
Unsent ==
  \A c \in Calls : /\ At(c, "recheck") => order[call[c].key] = "none"
                   /\ At(c, "fail") => ~Out(call[c].key)
Alone == OneAttempt /\ OneLive /\ OutIsLive /\ Drives /\ Unsent
SoleAttempt == "key" \notin overlap => Alone

\* Once a cancel goes on to release, a row that is live is one whose attempt
\* has yet to look at the loan, which it will find closed.
NothingUnderway ==
  overlap = {} /\ (fund = "released" \/ \E c \in Calls : At(c, "release")) =>
    \A k \in Keys : Live(k) =>
      /\ order[k] = "none"
      /\ \A c \in Calls : Attempt(c) /\ call[c].key = k => At(c, "recheck")

-----------------------------------------------------------------------------
(* What a step does to the calls *)

\* Call c goes to pc with key k, and the other calls stay where they are.
Becomes(c, pc, k) ==
  /\ call' \in [Calls -> [pc : Pcs, key : Keys \union {NoKey}]]
  /\ call'[c].pc = pc /\ call'[c].key = k
  /\ \A d \in Calls : d # c => call'[d] = call[d]

\* A call that goes on stays with its key; one that returns is idle.
LEMMA ToMoves ==
  ASSUME TypeOK, NEW c \in Calls, NEW pc \in Pcs, To(c, pc)
  PROVE  Becomes(c, pc, call[c].key)
  <1>1. call[c] \in [pc : Pcs, key : Keys \union {NoKey}]
    BY DEF TypeOK
  <1>2. [call[c] EXCEPT !.pc = pc] \in [pc : Pcs, key : Keys \union {NoKey}]
    BY <1>1
  <1>3. call' = [call EXCEPT ![c] = [call[c] EXCEPT !.pc = pc]]
    BY DEF To
  <1> QED
    BY <1>1, <1>2, <1>3 DEF TypeOK, Becomes

LEMMA ReturnMoves ==
  ASSUME TypeOK, NEW c \in Calls, Return(c)
  PROVE  Becomes(c, "idle", NoKey)
  <1>1. Idle \in [pc : Pcs, key : Keys \union {NoKey}]
    BY DEF Idle, Pcs
  <1> QED
    BY <1>1 DEF TypeOK, Becomes, Return, Idle

LEMMA BeginMoves ==
  ASSUME TypeOK, NEW c \in Calls, NEW pc \in Pcs, NEW k \in Keys \union {NoKey},
         Begin(c, pc, k)
  PROVE  At(c, "idle") /\ Becomes(c, pc, k)
  <1>1. [pc |-> pc, key |-> k] \in [pc : Pcs, key : Keys \union {NoKey}]
    OBVIOUS
  <1> QED
    BY <1>1 DEF TypeOK, Becomes, Begin

\* The three together, for a step that is one of several.
LEMMA Moves ==
  ASSUME TypeOK, NEW c \in Calls
  PROVE  /\ \A pc \in Pcs : To(c, pc) => Becomes(c, pc, call[c].key)
         /\ Return(c) => Becomes(c, "idle", NoKey)
         /\ \A pc \in Pcs, k \in Keys \union {NoKey} :
              Begin(c, pc, k) => At(c, "idle") /\ Becomes(c, pc, k)
  BY ToMoves, ReturnMoves, BeginMoves

-----------------------------------------------------------------------------
(* Where each step takes its call *)

LEMMA SaveMoves ==
  ASSUME TypeOK, NEW c \in Calls, Save(c)
  PROVE  At(c, "idle") /\ Becomes(c, "save", NoKey)
  BY BeginMoves DEF Save, Pcs, Cancelling

LEMMA SaveRowMoves ==
  ASSUME TypeOK, NEW c \in Calls, SaveRow(c)
  PROVE  At(c, "save") /\ Becomes(c, "idle", NoKey)
  BY ReturnMoves DEF SaveRow, Pcs, Cancelling

LEMMA CreateMoves ==
  ASSUME TypeOK, NEW c \in Calls, Create(c)
  PROVE  At(c, "idle") /\ Becomes(c, "claim", NoKey)
  BY BeginMoves DEF Create, Pcs, Cancelling

LEMMA ClaimForLoanCreationMoves ==
  ASSUME TypeOK, NEW c \in Calls, ClaimForLoanCreation(c)
  PROVE  /\ At(c, "claim")
         /\ \/ Becomes(c, "fund", call[c].key)
            \/ Becomes(c, "idle", NoKey)
  BY ReturnMoves, ToMoves DEF ClaimForLoanCreation, Pcs, Cancelling

LEMMA FundLoanMoves ==
  ASSUME TypeOK, NEW c \in Calls, FundLoan(c)
  PROVE  At(c, "fund") /\ Becomes(c, "row", call[c].key)
  BY ToMoves DEF FundLoan, Pcs, Cancelling

LEMMA FundFailsMoves ==
  ASSUME TypeOK, NEW c \in Calls, FundFails(c)
  PROVE  At(c, "fund") /\ Becomes(c, "idle", NoKey)
  BY ReturnMoves DEF FundFails, Pcs, Cancelling

LEMMA CreateRowMoves ==
  ASSUME TypeOK, NEW c \in Calls, CreateRow(c)
  PROVE  At(c, "row") /\ (Becomes(c, "open", call[c].key) \/ Becomes(c, "idle", NoKey))
  BY ReturnMoves, ToMoves DEF CreateRow, Pcs, Cancelling

LEMMA OpenMoves ==
  ASSUME TypeOK, NEW c \in Calls, Open(c)
  PROVE  At(c, "open") /\ Becomes(c, "idle", NoKey)
  BY ReturnMoves DEF Open, Pcs, Cancelling

LEMMA OpenFailsMoves ==
  ASSUME TypeOK, NEW c \in Calls, OpenFails(c)
  PROVE  At(c, "open") /\ Becomes(c, "idle", NoKey)
  BY ReturnMoves DEF OpenFails, Pcs, Cancelling

LEMMA ClaimIdempotencyKeyMoves ==
  ASSUME TypeOK, NEW c \in Calls, ClaimIdempotencyKey(c)
  PROVE  /\ At(c, "insert")
         /\ \/ Becomes(c, "recheck", call[c].key)
            \/ Becomes(c, "pay", call[c].key)
            \/ Becomes(c, "idle", NoKey)
  BY ReturnMoves, ToMoves DEF ClaimIdempotencyKey, Pcs, Cancelling

LEMMA RecheckMoves ==
  ASSUME TypeOK, NEW c \in Calls, Recheck(c)
  PROVE  /\ At(c, "recheck")
         /\ \/ Becomes(c, "pay", call[c].key)
            \/ Becomes(c, "idle", NoKey)
  BY ReturnMoves, ToMoves DEF Recheck, Pcs, Cancelling

LEMMA MarkFailedMoves ==
  ASSUME TypeOK, NEW c \in Calls, MarkFailed(c)
  PROVE  At(c, "fail") /\ Becomes(c, "idle", NoKey)
  BY ReturnMoves DEF MarkFailed, Pcs, Cancelling

LEMMA MarkCompletedMoves ==
  ASSUME TypeOK, NEW c \in Calls, MarkCompleted(c)
  PROVE  At(c, "complete") /\ Becomes(c, "activate", call[c].key)
  BY ToMoves DEF MarkCompleted, Pcs, Cancelling

LEMMA ActivateMoves ==
  ASSUME TypeOK, NEW c \in Calls, Activate(c)
  PROVE  At(c, "activate") /\ Becomes(c, "idle", NoKey)
  BY ReturnMoves DEF Activate, Pcs, Cancelling

LEMMA CheckRepaymentsMoves ==
  ASSUME TypeOK, NEW c \in Calls, CheckRepayments(c)
  PROVE  /\ At(c, "repaid?")
         /\ \/ Becomes(c, "return", call[c].key)
            \/ Becomes(c, "idle", NoKey)
  BY ReturnMoves, ToMoves DEF CheckRepayments, Pcs, Cancelling

LEMMA ReturnLoanMoves ==
  ASSUME TypeOK, NEW c \in Calls, ReturnLoan(c)
  PROVE  At(c, "return") /\ Becomes(c, "idle", NoKey)
  BY ReturnMoves DEF ReturnLoan, Pcs, Cancelling

LEMMA CloseMoves ==
  ASSUME TypeOK, NEW c \in Calls, Close(c)
  PROVE  /\ At(c, "close")
         /\ \/ Becomes(c, "raced?", call[c].key)
            \/ Becomes(c, "idle", NoKey)
  BY ReturnMoves, ToMoves DEF Close, Pcs, Cancelling

LEMMA LookAgainMoves ==
  ASSUME TypeOK, NEW c \in Calls, LookAgain(c)
  PROVE  /\ At(c, "raced?")
         /\ \/ Becomes(c, "reopen", call[c].key)
            \/ Becomes(c, "release", call[c].key)
  BY ToMoves DEF LookAgain, Pcs, Cancelling

LEMMA ReopenMoves ==
  ASSUME TypeOK, NEW c \in Calls, Reopen(c)
  PROVE  At(c, "reopen") /\ Becomes(c, "idle", NoKey)
  BY ReturnMoves DEF Reopen, Pcs, Cancelling

LEMMA FundingReleaseMoves ==
  ASSUME TypeOK, NEW c \in Calls, FundingRelease(c)
  PROVE  At(c, "release") /\ Becomes(c, "idle", NoKey)
  BY ReturnMoves DEF FundingRelease, Pcs, Cancelling

LEMMA DisburseMoves ==
  ASSUME TypeOK, NEW c \in Calls, NEW k \in Keys, Disburse(c, k)
  PROVE  At(c, "idle") /\ Becomes(c, "insert", k)
  BY BeginMoves DEF Disburse, Pcs, Cancelling

LEMMA LookMoves ==
  ASSUME TypeOK, NEW c \in Calls, Look(c)
  PROVE  /\ At(c, "look") \/ At(c, "look again")
         /\ \/ Becomes(c, "idle", NoKey)
            \/ ~disbursementUnderway /\ At(c, "look") /\ Becomes(c, "close", call[c].key)
            \/ ~disbursementUnderway /\ At(c, "look again") /\ Becomes(c, "release", call[c].key)
  BY ReturnMoves, ToMoves DEF Look, Pcs, Cancelling, At

LEMMA CancelLoanMoves ==
  ASSUME TypeOK, NEW c \in Calls, CancelLoan(c)
  PROVE  /\ At(c, "idle")
         /\ \/ acct = "PENDING" /\ Becomes(c, "look", NoKey)
            \/ acct = "CLOSED" /\ Becomes(c, "look again", NoKey)
  BY BeginMoves DEF CancelLoan, Pcs, Cancelling

LEMMA PayoutFailedMoves ==
  ASSUME TypeOK, NEW c \in Calls, NEW k \in Keys, PayoutFailed(c, k)
  PROVE  \/ At(c, "idle") /\ disb[k] = "COMPLETED" /\ Becomes(c, "repaid?", k)
         \/ disb[k] # "COMPLETED" /\ UNCHANGED call
  BY BeginMoves DEF PayoutFailed, Pcs

LEMMA DieMoves ==
  ASSUME TypeOK, NEW c \in Calls, Die(c)
  PROVE  Becomes(c, "idle", NoKey)
  BY ReturnMoves DEF Die

\* What the answer makes of the order, and of the attempt.
Answered(c, o) ==
  /\ o \in {"none", "sent", "paid", "failed"}
  /\ order' = [order EXCEPT ![call[c].key] = o]
  /\ order[call[c].key] # "none" => o = order[call[c].key]
  /\ \/ Becomes(c, "complete", call[c].key) /\ o \in {"sent", "paid"}
     \/ Becomes(c, "fail", call[c].key) /\ o \in {"none", "failed"}
     \/ Becomes(c, "idle", NoKey)

LEMMA TransferOrderExecuteMoves ==
  ASSUME TypeOK, Keyed, NEW c \in Calls, TransferOrderExecute(c)
  PROVE  At(c, "pay") /\ faults' \in 0..MaxFaults /\ \E o : Answered(c, o)
  <1> DEFINE k == call[c].key
  <1>1. At(c, "pay")
    BY DEF TransferOrderExecute
  <1>2. k \in Keys /\ order[k] \in {"none", "sent", "paid", "failed"}
    BY <1>1 DEF TypeOK, Keyed, Attempt, Attempting, At
  <1>3. PICK a \in PayoutAnswers(order[k]) :
          /\ order' = [order EXCEPT ![k] = a[1]]
          /\ faults' = IF a[2] = "error" THEN faults - 1 ELSE faults
          /\ faults' >= 0
          /\ CASE a[2] = "done" -> To(c, "complete")
               [] a[2] = "rejected" -> To(c, "fail")
               [] OTHER -> Return(c)
    BY DEF TransferOrderExecute
  <1>4. faults' \in 0..MaxFaults
    BY <1>3, BoundAssumption DEF TypeOK
  <1>5. /\ a[1] \in {"none", "sent", "paid", "failed"}
        /\ order[k] # "none" => a[1] = order[k]
        /\ a[2] = "done" => a[1] \in {"sent", "paid"}
        /\ a[2] = "rejected" => a[1] \in {"none", "failed"}
    BY <1>2, <1>3 DEF PayoutAnswers
  <1>6. /\ a[2] = "done" => Becomes(c, "complete", k)
        /\ a[2] = "rejected" => Becomes(c, "fail", k)
        /\ a[2] \notin {"done", "rejected"} => Becomes(c, "idle", NoKey)
    BY <1>3, ToMoves, ReturnMoves DEF Pcs
  <1>7. Answered(c, a[1])
    BY <1>3, <1>5, <1>6 DEF Answered
  <1> QED
    BY <1>1, <1>4, <1>7

-----------------------------------------------------------------------------
(* A call that is at no disbursement, and goes to none, or leaves one *)

Quiet(c) ==
  /\ UNCHANGED <<disb, order>> /\ overlap \subseteq overlap'
  /\ acct' = "ACTIVE" => acct = "ACTIVE" \/ \E k \in Keys : order[k] # "none"
  /\ fund' = "released" => fund = "released" \/ At(c, "release")
  /\ call'[c].pc \notin Attempting
  /\ \A d \in Calls : d # c => call'[d] = call[d]

\* A quiet step touches no row and no order,
LEMMA QuietRows == ASSUME RowFirst, NEW c \in Calls, Quiet(c) PROVE RowFirst'
  BY DEF Quiet, RowFirst, Attempting

\* nor what an attempt relies on,
LEMMA QuietAttempts == ASSUME SoleAttempt, NEW c \in Calls, Quiet(c) PROVE SoleAttempt'
  <1> SUFFICES ASSUME "key" \notin overlap' PROVE Alone'
    BY DEF SoleAttempt
  <1>1. Alone
    BY DEF SoleAttempt, Quiet
  <1>2. OneAttempt'
    BY <1>1 DEF Alone, OneAttempt, Attempt, Quiet
  <1>3. OneLive' /\ OutIsLive'
    BY <1>1 DEF Alone, OneLive, OutIsLive, Live, Out, Quiet
  <1>4. Drives'
    BY <1>1 DEF Alone, Drives, Quiet, Attempting
  <1>5. Unsent'
    BY <1>1 DEF Alone, Unsent, Out, Quiet, Attempting, At
  <1> QED
    BY <1>2, <1>3, <1>4, <1>5 DEF Alone

\* nor, unless it goes on to release, what a release relies on.
LEMMA QuietReleases ==
  ASSUME NothingUnderway, NEW c \in Calls, Quiet(c), ~At(c, "release")'
  PROVE  NothingUnderway'
  <1>1. overlap' = {} => overlap = {}
    BY DEF Quiet
  <1>2. (fund = "released" \/ \E d \in Calls : At(d, "release"))' =>
          fund = "released" \/ \E d \in Calls : At(d, "release")
    BY DEF Quiet, At
  <1>3. \A d \in Calls : Attempt(d)' => d # c /\ call'[d] = call[d]
    BY DEF Quiet, Attempt
  <1> QED
    BY <1>1, <1>2, <1>3 DEF NothingUnderway, Quiet, Live, Attempt, At

\* The other steps of a call are quiet.
LEMMA QuietSteps ==
  ASSUME TypeOK, Keyed, RowFirst, NEW c \in Calls,
         \/ Save(c) \/ SaveRow(c) \/ Create(c) \/ ClaimForLoanCreation(c) \/ FundLoan(c)
         \/ FundFails(c) \/ CreateRow(c) \/ Open(c) \/ OpenFails(c) \/ Activate(c)
         \/ CheckRepayments(c) \/ ReturnLoan(c) \/ CancelLoan(c) \/ Look(c) \/ Close(c)
         \/ LookAgain(c) \/ Reopen(c) \/ FundingRelease(c) \/ Die(c)
  PROVE  Quiet(c)
  <1> USE DEF request, account, money, Attempting, Becomes
  <1>1. CASE Save(c)
    BY <1>1, SaveMoves DEF Quiet, Save
  <1>2. CASE SaveRow(c)
    BY <1>2, SaveRowMoves DEF Quiet, SaveRow
  <1>3. CASE Create(c)
    BY <1>3, CreateMoves DEF Quiet, Create
  <1>4. CASE ClaimForLoanCreation(c)
    BY <1>4, ClaimForLoanCreationMoves DEF Quiet, ClaimForLoanCreation
  <1>5. CASE FundLoan(c)
    BY <1>5, FundLoanMoves DEF Quiet, FundLoan
  <1>6. CASE FundFails(c)
    BY <1>6, FundFailsMoves DEF Quiet, FundFails
  <1>7. CASE CreateRow(c)
    BY <1>7, CreateRowMoves DEF Quiet, CreateRow
  <1>8. CASE Open(c)
    BY <1>8, OpenMoves DEF Quiet, Open
  <1>9. CASE OpenFails(c)
    BY <1>9, OpenFailsMoves DEF Quiet, OpenFails
  <1>10. CASE Activate(c)
    BY <1>10, ActivateMoves DEF Quiet, Activate, Keyed, RowFirst, Attempt, At
  <1>11. CASE CheckRepayments(c)
    BY <1>11, CheckRepaymentsMoves DEF Quiet, CheckRepayments
  <1>12. CASE ReturnLoan(c)
    BY <1>12, ReturnLoanMoves DEF Quiet, ReturnLoan
  <1>13. CASE CancelLoan(c)
    BY <1>13, CancelLoanMoves DEF Quiet, CancelLoan, Overlaps
  <1>14. CASE Look(c)
    BY <1>14, LookMoves DEF Quiet, Look
  <1>15. CASE Close(c)
    BY <1>15, CloseMoves DEF Quiet, Close
  <1>16. CASE LookAgain(c)
    BY <1>16, LookAgainMoves DEF Quiet, LookAgain
  <1>17. CASE Reopen(c)
    BY <1>17, ReopenMoves DEF Quiet, Reopen
  <1>18. CASE FundingRelease(c)
    BY <1>18, FundingReleaseMoves DEF Quiet, FundingRelease
  <1>19. CASE Die(c)
    BY <1>19, DieMoves DEF Quiet, Die
  <1> QED
    BY <1>1, <1>2, <1>3, <1>4, <1>5, <1>6, <1>7, <1>8, <1>9, <1>10, <1>11, <1>12,
       <1>13, <1>14, <1>15, <1>16, <1>17, <1>18, <1>19

-----------------------------------------------------------------------------
(* A call at its disbursement *)

\* Call c is at its row k, and only that row, its order and c itself move; c
\* stays with k, or stops.
Drive(c, k) ==
  /\ k \in Keys /\ Attempt(c) /\ call[c].key = k
  /\ \A l \in Keys : l # k => disb'[l] = disb[l] /\ order'[l] = order[l]
  /\ \A d \in Calls : d # c => call'[d] = call[d]
  /\ Attempt(c)' => call'[c].key = k
  /\ UNCHANGED <<overlap, acct, fund>>

\* The steps of a disbursement attempt move their own row and nothing else.
LEMMA DriveSteps ==
  ASSUME TypeOK, Keyed, NEW c \in Calls,
         \/ ClaimIdempotencyKey(c) \/ Recheck(c) \/ TransferOrderExecute(c)
         \/ MarkFailed(c) \/ MarkCompleted(c)
  PROVE  Drive(c, call[c].key)
  <1> USE DEF Drive, Attempt, Attempting, Keyed, At, account, Becomes
  <1>1. CASE ClaimIdempotencyKey(c)
    BY <1>1, ClaimIdempotencyKeyMoves DEF ClaimIdempotencyKey, TypeOK
  <1>2. CASE Recheck(c)
    BY <1>2, RecheckMoves DEF Recheck, TypeOK
  <1>3. CASE TransferOrderExecute(c)
    BY <1>3, TransferOrderExecuteMoves DEF TransferOrderExecute, Answered, TypeOK
  <1>4. CASE MarkFailed(c)
    BY <1>4, MarkFailedMoves DEF MarkFailed, TypeOK
  <1>5. CASE MarkCompleted(c)
    BY <1>5, MarkCompletedMoves DEF MarkCompleted, TypeOK
  <1> QED
    BY <1>1, <1>2, <1>3, <1>4, <1>5

\* What the step makes of row k and its order, by where it leaves the call.
Effect(c, k, was) ==
  /\ disb'[k] \in {"NONE", "PROCESSING", "COMPLETED", "FAILED"}
  /\ order'[k] \in {"none", "sent", "paid", "failed"}
  /\ disb'[k] = "NONE" => disb[k] = "NONE" /\ order'[k] = order[k]
  /\ order'[k] # order[k] => was = "pay" /\ disb'[k] = disb[k] /\ order[k] = "none"
  /\ disb'[k] = "COMPLETED" => disb[k] = "COMPLETED" \/ was = "complete"
  /\ disb'[k] = "FAILED" => disb[k] = "FAILED" \/ was \in {"recheck", "fail"}
  /\ disb'[k] = "PROCESSING" => \/ disb[k] = "PROCESSING"
                                \/ disb[k] = "NONE" /\ \A l \in Keys : ~Live(l)
  /\ call'[c].pc \in {"recheck", "pay", "fail", "complete"} =>
       /\ disb'[k] = disb[k] \/ disb'[k] = "PROCESSING"
       /\ was = "insert" => disb'[k] = "PROCESSING"
       /\ was \in {"insert", "recheck", "pay"}
  /\ call'[c].pc = "recheck" => disb[k] = "NONE" /\ order'[k] = order[k]
  /\ call'[c].pc = "fail" => was = "pay" /\ order'[k] \in {"none", "failed"}
  /\ call'[c].pc = "complete" => order'[k] # "none"
  /\ call'[c].pc = "pay" => disb[k] = "PROCESSING" \/ was = "recheck"
  /\ call'[c].pc = "activate" => was = "complete"
  /\ call'[c].pc # "insert"

\* What they make of that row is as Effect says.
LEMMA DriveEffects ==
  ASSUME TypeOK, Keyed, RowFirst, NEW c \in Calls,
         \/ ClaimIdempotencyKey(c) \/ Recheck(c) \/ TransferOrderExecute(c)
         \/ MarkFailed(c) \/ MarkCompleted(c)
  PROVE  Effect(c, call[c].key, call[c].pc)
  <1> DEFINE k == call[c].key
  <1>0. k \in Keys /\ disb[k] \in {"NONE", "PROCESSING", "COMPLETED", "FAILED"}
                   /\ order[k] \in {"none", "sent", "paid", "failed"}
    BY DriveSteps DEF Drive, TypeOK
  <1>1. CASE ClaimIdempotencyKey(c)
    <2>1. call[c].pc = "insert" /\ order' = order
      BY <1>1 DEF ClaimIdempotencyKey, At
    <2>2. CASE disb[k] = "NONE" /\ disb' = [disb EXCEPT ![k] = "PROCESSING"]
               /\ To(c, "recheck") /\ ~\E l \in Keys : Live(l)
      <3>1. disb'[k] = "PROCESSING"
        BY <1>0, <2>2 DEF TypeOK
      <3>2. call'[c].pc = "recheck"
        BY <2>2, ToMoves DEF Becomes, Pcs
      <3> QED
        BY <1>0, <2>1, <2>2, <3>1, <3>2 DEF Effect
    <2>3. CASE disb' = disb /\ (Return(c) \/ (disb[k] = "PROCESSING" /\ To(c, "pay")))
      <3>1. call'[c].pc = "idle" \/ (disb[k] = "PROCESSING" /\ call'[c].pc = "pay")
        BY <2>3, ToMoves, ReturnMoves DEF Becomes, Pcs
      <3> QED
        BY <1>0, <2>1, <2>3, <3>1 DEF Effect
    <2> QED
      BY <1>1, <2>2, <2>3 DEF ClaimIdempotencyKey
  <1>2. CASE Recheck(c)
    <2>1. call[c].pc = "recheck" /\ order' = order
      BY <1>2 DEF Recheck, At
    <2>2. CASE disb' = disb /\ To(c, "pay")
      <3>1. call'[c].pc = "pay"
        BY <2>2, ToMoves DEF Becomes, Pcs
      <3> QED
        BY <1>0, <2>1, <2>2, <3>1 DEF Effect
    <2>3. CASE disb' = [disb EXCEPT ![k] = "FAILED"] /\ Return(c)
      <3>1. disb'[k] = "FAILED" /\ call'[c].pc = "idle"
        BY <1>0, <2>3, ReturnMoves DEF TypeOK, Becomes
      <3> QED
        BY <1>0, <2>1, <2>3, <3>1 DEF Effect
    <2> QED
      BY <1>2, <2>2, <2>3 DEF Recheck
  <1>3. CASE TransferOrderExecute(c)
    <2>1. call[c].pc = "pay" /\ disb' = disb
      BY <1>3 DEF TransferOrderExecute, At
    <2>2. PICK o : Answered(c, o)
      BY <1>3, TransferOrderExecuteMoves
    <2>3. order'[k] = o /\ o \in {"none", "sent", "paid", "failed"}
          /\ (order[k] # "none" => o = order[k])
      BY <1>0, <2>2 DEF Answered, TypeOK
    <2>4. \/ call'[c].pc = "complete" /\ o \in {"sent", "paid"}
          \/ call'[c].pc = "fail" /\ o \in {"none", "failed"}
          \/ call'[c].pc = "idle"
      BY <2>2 DEF Answered, Becomes
    <2>5. disb[k] # "NONE"
      BY <2>1 DEF RowFirst
    <2> QED
      BY <1>0, <2>1, <2>3, <2>4, <2>5 DEF Effect
  <1>4. CASE MarkFailed(c)
    <2>1. call[c].pc = "fail" /\ order' = order /\ call'[c].pc = "idle"
      BY <1>4, MarkFailedMoves DEF MarkFailed, Becomes, At
    <2>2. disb'[k] = "FAILED"
      BY <1>0, <1>4 DEF MarkFailed, TypeOK
    <2> QED
      BY <1>0, <2>1, <2>2 DEF Effect
  <1>5. CASE MarkCompleted(c)
    <2>1. call[c].pc = "complete" /\ order' = order /\ call'[c].pc = "activate"
      BY <1>5, MarkCompletedMoves DEF MarkCompleted, Becomes, At
    <2>2. disb'[k] = "COMPLETED"
      BY <1>0, <1>5 DEF MarkCompleted, TypeOK
    <2> QED
      BY <1>0, <2>1, <2>2 DEF Effect
  <1> QED
    BY <1>1, <1>2, <1>3, <1>4, <1>5

\* Such a step keeps rows before orders.
LEMMA DriveRows ==
  ASSUME TypeOK, Keyed, RowFirst, NEW c \in Calls,
         Drive(c, call[c].key), Effect(c, call[c].key, call[c].pc)
  PROVE  RowFirst'
  <1> DEFINE k == call[c].key
  <1> USE DEF Drive, Effect
  <1>1. \A l \in Keys : disb'[l] = "NONE" => order'[l] = "none"
    BY DEF RowFirst
  <1>2. \A l \in Keys : disb'[l] = "COMPLETED" => order'[l] # "none"
    BY DEF RowFirst
  <1>3. \A l \in Keys : /\ disb[l] # "NONE" => disb'[l] # "NONE"
                        /\ order[l] # "none" => order'[l] # "none"
    OBVIOUS
  <1>4. call'[c].pc \in {"recheck", "pay", "fail", "complete"} => disb'[k] # "NONE"
    BY DEF RowFirst
  <1>5. call'[c].pc \in {"complete", "activate"} => order'[k] # "none"
    BY DEF RowFirst
  <1>6. \A d \in Calls : Attempt(d) => call[d].key \in Keys
    BY DEF Keyed
  <1>7. \A d \in Calls :
          call'[d].pc \in {"recheck", "pay", "fail", "complete"} => disb'[call'[d].key] # "NONE"
    BY <1>3, <1>4, <1>6 DEF RowFirst, Attempt, Attempting
  <1>8. \A d \in Calls :
          call'[d].pc \in {"complete", "activate"} => order'[call'[d].key] # "none"
    BY <1>3, <1>5, <1>6 DEF RowFirst, Attempt, Attempting
  <1>9. acct' = "ACTIVE" => \E l \in Keys : order'[l] # "none"
    BY <1>3 DEF RowFirst
  <1> QED
    BY <1>1, <1>2, <1>7, <1>8, <1>9 DEF RowFirst

\* Such a step keeps attempts alone with their rows.
LEMMA DriveAttempts ==
  ASSUME TypeOK, Keyed, RowFirst, SoleAttempt, NEW c \in Calls,
         Drive(c, call[c].key), Effect(c, call[c].key, call[c].pc)
  PROVE  SoleAttempt'
  <1> PICK k \in Keys : k = call[c].key
    BY DEF Drive
  <1> SUFFICES ASSUME "key" \notin overlap' PROVE Alone'
    BY DEF SoleAttempt
  <1>1. OneAttempt /\ OneLive /\ OutIsLive /\ Drives /\ Unsent
    BY DEF SoleAttempt, Alone, Drive
  <1>2. \A d \in Calls : d # c /\ Attempt(d) => call[d].key # k /\ call[d].key \in Keys
    BY <1>1 DEF OneAttempt, Drive, Keyed
  <1>3. OneAttempt'
    <2> SUFFICES ASSUME NEW d \in Calls, NEW e \in Calls, Attempt(d)', Attempt(e)',
                        call'[d].key = call'[e].key
                 PROVE  d = e
      BY DEF OneAttempt
    <2>1. \A f \in Calls : f # c /\ Attempt(f)' => Attempt(f) /\ call'[f].key = call[f].key
      BY DEF Drive, Attempt
    <2>2. \A f \in Calls : f # c /\ Attempt(f)' => call'[f].key # k
      BY <1>2, <2>1
    <2>3. Attempt(c)' => call'[c].key = k
      BY DEF Drive
    <2>4. CASE d # c /\ e # c
      BY <1>1, <2>1, <2>4 DEF OneAttempt
    <2> QED
      BY <2>2, <2>3, <2>4
  <1>0. /\ k \in Keys /\ Attempt(c)
        /\ \A l \in Keys : l # k => disb'[l] = disb[l] /\ order'[l] = order[l]
    BY DEF Drive
  <1>a. /\ call[c].pc \in {"recheck", "pay", "fail", "complete"} => disb[k] = "PROCESSING"
        /\ call[c].pc \in {"recheck", "fail"} => ~Out(k)
        /\ disb[k] = "NONE" => order[k] = "none"
        /\ disb[k] = "FAILED" => ~Out(k)
    BY <1>0, <1>1 DEF Drives, Unsent, Out, At, RowFirst, OutIsLive, Live
  <1>4. disb'[k] \in {"PROCESSING", "COMPLETED"} =>
          disb[k] \in {"PROCESSING", "COMPLETED"} \/ \A l \in Keys : ~Live(l)
    BY <1>a DEF Effect
  <1>5. OneLive'
    <2> SUFFICES ASSUME NEW j \in Keys, NEW l \in Keys, Live(j)', Live(l)' PROVE j = l
      BY DEF OneLive
    <2>1. \A i \in Keys : i # k /\ Live(i)' => Live(i)
      BY <1>0 DEF Live
    <2>2. Live(k)' => Live(k) \/ \A i \in Keys : ~Live(i)
      BY <1>4 DEF Live
    <2> QED
      BY <1>0, <1>1, <2>1, <2>2 DEF OneLive
  <1>6. order'[k] \in {"sent", "paid"} => disb'[k] \in {"PROCESSING", "COMPLETED"}
    <2>1. CASE order'[k] # order[k]
      BY <1>a, <2>1 DEF Effect
    <2>2. CASE order'[k] = order[k]
      BY <1>a, <2>2 DEF Effect, Out
    <2> QED
      BY <2>1, <2>2
  <1>7. OutIsLive'
    <2> SUFFICES ASSUME NEW l \in Keys, Out(l)' PROVE Live(l)'
      BY DEF OutIsLive
    <2>1. CASE l = k
      BY <1>6, <2>1 DEF Out, Live
    <2>2. CASE l # k
      BY <1>0, <1>1, <2>2 DEF OutIsLive, Out, Live
    <2> QED
      BY <2>1, <2>2
  <1>8. call'[c].pc \in {"recheck", "pay", "fail", "complete"} => disb'[k] = "PROCESSING"
    BY <1>1 DEF Drives, Effect
  <1>9. Drives'
    BY <1>1, <1>2, <1>8 DEF Drives, Drive, Attempt, Attempting
  <1>10. /\ call'[c].pc = "recheck" => order'[k] = "none"
         /\ call'[c].pc = "fail" => order'[k] \notin {"sent", "paid"}
    BY <1>a DEF Effect
  <1>11. Unsent'
    BY <1>1, <1>2, <1>10 DEF Unsent, Out, Drive, Attempt, Attempting, At
  <1> QED
    BY <1>3, <1>5, <1>7, <1>9, <1>11 DEF Alone

\* Behind a cancel that releases, such a step sends no order.
LEMMA DriveReleases ==
  ASSUME TypeOK, Keyed, Funded, SoleCancel, RowFirst, SoleAttempt, NothingUnderway,
         NEW c \in Calls, Drive(c, call[c].key), Effect(c, call[c].key, call[c].pc),
         ~At(c, "release")',
         At(c, "recheck") =>
           acct = "PENDING" \/ disb'[call[c].key] \notin {"PROCESSING", "COMPLETED"}
  PROVE  NothingUnderway'
  <1> PICK k \in Keys : k = call[c].key
    BY DEF Drive
  <1> DEFINE Releasing == fund = "released" \/ \E d \in Calls : At(d, "release")
  <1> SUFFICES ASSUME overlap' = {}, Releasing', NEW l \in Keys, Live(l)'
               PROVE  order'[l] = "none"
                      /\ \A d \in Calls : (Attempt(d) /\ call[d].key = l => At(d, "recheck"))'
    BY DEF NothingUnderway
  <1>1. overlap = {} /\ Releasing
    BY DEF Drive, At
  <1>2. acct = "CLOSED"
    BY <1>1 DEF SoleCancel, Orderly, ReleasedIsClosed, FoundClosed, At
  <1>3. Alone
    BY <1>1 DEF SoleAttempt
  <1>4. \A d \in Calls : d # c /\ Attempt(d) => call[d].key # k
    BY <1>3 DEF Alone, OneAttempt, Drive
  <1>5. \A j \in Keys : Live(j) =>
          order[j] = "none" /\ \A d \in Calls : Attempt(d) /\ call[d].key = j => At(d, "recheck")
    BY <1>1 DEF NothingUnderway
  <1>6. CASE l # k
    BY <1>4, <1>5, <1>6 DEF Drive, Live, Attempt, At
  <1>7. CASE l = k
    <2>1. disb[k] \in {"PROCESSING", "COMPLETED"} => call[c].pc = "recheck"
      BY <1>5 DEF Drive, Live, At
    <2>2. disb'[k] \in {"PROCESSING", "COMPLETED"}
      BY <1>7 DEF Live
    <2>3. call[c].pc = "recheck" => disb'[k] \notin {"PROCESSING", "COMPLETED"}
      BY <1>2 DEF At, Live
    <2>4. call[c].pc \in {"recheck", "pay", "fail", "complete"} => disb[k] = "PROCESSING"
      BY <1>3 DEF Alone, Drives
    <2>5. disb[k] = "NONE" /\ order[k] = "none"
      BY <2>1, <2>2, <2>3, <2>4 DEF Effect, RowFirst, Drive
    <2>6. call[c].pc \notin {"recheck", "pay", "fail", "complete"}
      BY <2>4, <2>5
    <2>7. order'[k] = "none"
      BY <2>5, <2>6 DEF Effect
    <2>8. call'[c].pc \in Attempting => call'[c].pc = "recheck"
      BY <2>2, <2>5, <2>6, <2>7 DEF Effect, Attempting
    <2> QED
      BY <1>4, <1>7, <2>7, <2>8 DEF Drive, Attempt, At
  <1> QED
    BY <1>6, <1>7

\* Every step keeps the shape.
LEMMA TypedNext ==
  TypeOK /\ Keyed /\ [Next]_vars => TypeOK'
  <1> SUFFICES ASSUME TypeOK, Keyed, [Next]_vars PROVE TypeOK'
    OBVIOUS
  <1> USE DEF TypeOK, Keyed, Attempt, Attempting, vars, request, account, money, At, Becomes
  <1>1. CASE Approve
    BY <1>1 DEF Approve
  <1>2. CASE Refuse
    BY <1>2 DEF Refuse
  <1>3. CASE Repay
    BY <1>3 DEF Repay
  <1>4. ASSUME NEW k \in Keys, RailDecides(k) PROVE TypeOK'
    BY <1>4 DEF RailDecides
  <1>5. ASSUME NEW c \in Calls, Save(c) PROVE TypeOK'
    BY <1>5, SaveMoves, BoundAssumption DEF Save
  <1>6. ASSUME NEW c \in Calls, Create(c) PROVE TypeOK'
    BY <1>6, CreateMoves DEF Create
  <1>7. ASSUME NEW c \in Calls, CancelLoan(c) PROVE TypeOK'
    BY <1>7, CancelLoanMoves DEF CancelLoan, Overlaps
  <1>8. ASSUME NEW c \in Calls, SaveRow(c) PROVE TypeOK'
    BY <1>8, SaveRowMoves DEF SaveRow
  <1>9. ASSUME NEW c \in Calls, ClaimForLoanCreation(c) PROVE TypeOK'
    BY <1>9, ClaimForLoanCreationMoves DEF ClaimForLoanCreation
  <1>10. ASSUME NEW c \in Calls, FundLoan(c) PROVE TypeOK'
    BY <1>10, FundLoanMoves DEF FundLoan
  <1>11. ASSUME NEW c \in Calls, FundFails(c) PROVE TypeOK'
    BY <1>11, FundFailsMoves, BoundAssumption DEF FundFails,
       ReleaseLoanCreationClaim, Fault
  <1>12. ASSUME NEW c \in Calls, CreateRow(c) PROVE TypeOK'
    BY <1>12, CreateRowMoves DEF CreateRow, ReleaseLoanCreationClaim
  <1>13. ASSUME NEW c \in Calls, Open(c) PROVE TypeOK'
    BY <1>13, OpenMoves DEF Open
  <1>14. ASSUME NEW c \in Calls, OpenFails(c) PROVE TypeOK'
    BY <1>14, OpenFailsMoves, BoundAssumption DEF OpenFails,
       ReleaseLoanCreationClaim, Fault
  <1>15. ASSUME NEW c \in Calls, ClaimIdempotencyKey(c) PROVE TypeOK'
    BY <1>15, ClaimIdempotencyKeyMoves DEF ClaimIdempotencyKey
  <1>16. ASSUME NEW c \in Calls, Recheck(c) PROVE TypeOK'
    BY <1>16, RecheckMoves DEF Recheck
  <1>17. ASSUME NEW c \in Calls, TransferOrderExecute(c) PROVE TypeOK'
    <2>1. PICK o : Answered(c, o)
      BY <1>17, TransferOrderExecuteMoves
    <2>2. order' \in [Keys -> {"none", "sent", "paid", "failed"}]
      BY <2>1 DEF Answered
    <2>3. call' \in [Calls -> [pc : Pcs, key : Keys \union {NoKey}]]
      BY <2>1 DEF Answered
    <2> QED
      BY ZenonT(45), <1>17, <2>2, <2>3, TransferOrderExecuteMoves DEF TransferOrderExecute
  <1>18. ASSUME NEW c \in Calls, MarkFailed(c) PROVE TypeOK'
    BY <1>18, MarkFailedMoves DEF MarkFailed
  <1>19. ASSUME NEW c \in Calls, MarkCompleted(c) PROVE TypeOK'
    BY <1>19, MarkCompletedMoves DEF MarkCompleted
  <1>20. ASSUME NEW c \in Calls, Activate(c) PROVE TypeOK'
    BY <1>20, ActivateMoves DEF Activate
  <1>21. ASSUME NEW c \in Calls, CheckRepayments(c) PROVE TypeOK'
    BY <1>21, CheckRepaymentsMoves DEF CheckRepayments
  <1>22. ASSUME NEW c \in Calls, ReturnLoan(c) PROVE TypeOK'
    BY <1>22, ReturnLoanMoves DEF ReturnLoan
  <1>23. ASSUME NEW c \in Calls, Look(c) PROVE TypeOK'
    BY <1>23, LookMoves DEF Look
  <1>24. ASSUME NEW c \in Calls, Close(c) PROVE TypeOK'
    BY <1>24, CloseMoves DEF Close
  <1>25. ASSUME NEW c \in Calls, LookAgain(c) PROVE TypeOK'
    BY <1>25, LookAgainMoves DEF LookAgain
  <1>26. ASSUME NEW c \in Calls, Reopen(c) PROVE TypeOK'
    BY <1>26, ReopenMoves DEF Reopen
  <1>27. ASSUME NEW c \in Calls, FundingRelease(c) PROVE TypeOK'
    BY <1>27, FundingReleaseMoves DEF FundingRelease
  <1>28. ASSUME NEW c \in Calls, Die(c) PROVE TypeOK'
    BY <1>28, DieMoves, BoundAssumption DEF Die, Fault
  <1>29. ASSUME NEW c \in Calls, NEW k \in Keys, Disburse(c, k) PROVE TypeOK'
    BY <1>29, DisburseMoves DEF Disburse, Overlaps
  <1>30. ASSUME NEW c \in Calls, NEW k \in Keys, PayoutFailed(c, k) PROVE TypeOK'
    BY <1>30, PayoutFailedMoves DEF PayoutFailed
  <1>31. CASE UNCHANGED vars
    BY <1>31
  <1> QED
    BY <1>1, <1>2, <1>3, <1>4, <1>5, <1>6, <1>7, <1>8, <1>9, <1>10, <1>11, <1>12,
       <1>13, <1>14, <1>15, <1>16, <1>17, <1>18, <1>19, <1>20, <1>21, <1>22, <1>23,
       <1>24, <1>25, <1>26, <1>27, <1>28, <1>29, <1>30, <1>31 DEF Next, Step

\* Every step keeps a key with the calls at a disbursement.
LEMMA KeyedNext ==
  TypeOK /\ Keyed /\ [Next]_vars => Keyed'
  <1> SUFFICES ASSUME TypeOK, Keyed, [Next]_vars PROVE Keyed'
    OBVIOUS
  <1> USE DEF Keyed, Attempt, Attempting, vars, request, account, money, At, Becomes
  <1>1. CASE Approve
    BY <1>1 DEF Approve
  <1>2. CASE Refuse
    BY <1>2 DEF Refuse
  <1>3. CASE Repay
    BY <1>3 DEF Repay
  <1>4. ASSUME NEW k \in Keys, RailDecides(k) PROVE Keyed'
    BY <1>4 DEF RailDecides
  <1>5. ASSUME NEW c \in Calls, Save(c) PROVE Keyed'
    BY <1>5, SaveMoves DEF Save
  <1>6. ASSUME NEW c \in Calls, Create(c) PROVE Keyed'
    BY <1>6, CreateMoves DEF Create
  <1>7. ASSUME NEW c \in Calls, CancelLoan(c) PROVE Keyed'
    BY <1>7, CancelLoanMoves DEF CancelLoan, Overlaps
  <1>8. ASSUME NEW c \in Calls, SaveRow(c) PROVE Keyed'
    BY <1>8, SaveRowMoves DEF SaveRow
  <1>9. ASSUME NEW c \in Calls, ClaimForLoanCreation(c) PROVE Keyed'
    BY <1>9, ClaimForLoanCreationMoves DEF ClaimForLoanCreation
  <1>10. ASSUME NEW c \in Calls, FundLoan(c) PROVE Keyed'
    BY <1>10, FundLoanMoves DEF FundLoan
  <1>11. ASSUME NEW c \in Calls, FundFails(c) PROVE Keyed'
    BY <1>11, FundFailsMoves DEF FundFails, ReleaseLoanCreationClaim, Fault
  <1>12. ASSUME NEW c \in Calls, CreateRow(c) PROVE Keyed'
    BY <1>12, CreateRowMoves DEF CreateRow, ReleaseLoanCreationClaim
  <1>13. ASSUME NEW c \in Calls, Open(c) PROVE Keyed'
    BY <1>13, OpenMoves DEF Open
  <1>14. ASSUME NEW c \in Calls, OpenFails(c) PROVE Keyed'
    BY <1>14, OpenFailsMoves DEF OpenFails, ReleaseLoanCreationClaim, Fault
  <1>15. ASSUME NEW c \in Calls, ClaimIdempotencyKey(c) PROVE Keyed'
    BY <1>15, ClaimIdempotencyKeyMoves DEF ClaimIdempotencyKey
  <1>16. ASSUME NEW c \in Calls, Recheck(c) PROVE Keyed'
    BY <1>16, RecheckMoves DEF Recheck
  <1>17. ASSUME NEW c \in Calls, TransferOrderExecute(c) PROVE Keyed'
    BY <1>17, TransferOrderExecuteMoves DEF TransferOrderExecute, Answered
  <1>18. ASSUME NEW c \in Calls, MarkFailed(c) PROVE Keyed'
    BY <1>18, MarkFailedMoves DEF MarkFailed
  <1>19. ASSUME NEW c \in Calls, MarkCompleted(c) PROVE Keyed'
    BY <1>19, MarkCompletedMoves DEF MarkCompleted
  <1>20. ASSUME NEW c \in Calls, Activate(c) PROVE Keyed'
    BY <1>20, ActivateMoves DEF Activate
  <1>21. ASSUME NEW c \in Calls, CheckRepayments(c) PROVE Keyed'
    BY <1>21, CheckRepaymentsMoves DEF CheckRepayments
  <1>22. ASSUME NEW c \in Calls, ReturnLoan(c) PROVE Keyed'
    BY <1>22, ReturnLoanMoves DEF ReturnLoan
  <1>23. ASSUME NEW c \in Calls, Look(c) PROVE Keyed'
    BY <1>23, LookMoves DEF Look
  <1>24. ASSUME NEW c \in Calls, Close(c) PROVE Keyed'
    BY <1>24, CloseMoves DEF Close
  <1>25. ASSUME NEW c \in Calls, LookAgain(c) PROVE Keyed'
    BY <1>25, LookAgainMoves DEF LookAgain
  <1>26. ASSUME NEW c \in Calls, Reopen(c) PROVE Keyed'
    BY <1>26, ReopenMoves DEF Reopen
  <1>27. ASSUME NEW c \in Calls, FundingRelease(c) PROVE Keyed'
    BY <1>27, FundingReleaseMoves DEF FundingRelease
  <1>28. ASSUME NEW c \in Calls, Die(c) PROVE Keyed'
    BY <1>28, DieMoves DEF Die, Fault
  <1>29. ASSUME NEW c \in Calls, NEW k \in Keys, Disburse(c, k) PROVE Keyed'
    BY <1>29, DisburseMoves DEF Disburse, Overlaps
  <1>30. ASSUME NEW c \in Calls, NEW k \in Keys, PayoutFailed(c, k) PROVE Keyed'
    BY <1>30, PayoutFailedMoves DEF PayoutFailed
  <1>31. CASE UNCHANGED vars
    BY <1>31
  <1> QED
    BY <1>1, <1>2, <1>3, <1>4, <1>5, <1>6, <1>7, <1>8, <1>9, <1>10, <1>11, <1>12,
       <1>13, <1>14, <1>15, <1>16, <1>17, <1>18, <1>19, <1>20, <1>21, <1>22, <1>23,
       <1>24, <1>25, <1>26, <1>27, <1>28, <1>29, <1>30, <1>31 DEF Next, Step

\* No account comes before its capital, and capital is only released behind one.
LEMMA FundedNext ==
  TypeOK /\ Keyed /\ Funded /\ [Next]_vars => Funded'
  <1> SUFFICES ASSUME TypeOK, Keyed, Funded, [Next]_vars PROVE Funded'
    OBVIOUS
  <1> USE DEF Funded, Cancelling, vars, request, account, money, At, Becomes
  <1>1. CASE Approve
    BY <1>1 DEF Approve
  <1>2. CASE Refuse
    BY <1>2 DEF Refuse
  <1>3. CASE Repay
    BY <1>3 DEF Repay
  <1>4. ASSUME NEW k \in Keys, RailDecides(k) PROVE Funded'
    BY <1>4 DEF RailDecides
  <1>5. ASSUME NEW c \in Calls, Save(c) PROVE Funded'
    BY <1>5, SaveMoves DEF Save
  <1>6. ASSUME NEW c \in Calls, Create(c) PROVE Funded'
    BY <1>6, CreateMoves DEF Create
  <1>7. ASSUME NEW c \in Calls, CancelLoan(c) PROVE Funded'
    BY <1>7, CancelLoanMoves DEF CancelLoan, Overlaps
  <1>8. ASSUME NEW c \in Calls, SaveRow(c) PROVE Funded'
    BY <1>8, SaveRowMoves DEF SaveRow
  <1>9. ASSUME NEW c \in Calls, ClaimForLoanCreation(c) PROVE Funded'
    BY <1>9, ClaimForLoanCreationMoves DEF ClaimForLoanCreation
  <1>10. ASSUME NEW c \in Calls, FundLoan(c) PROVE Funded'
    BY <1>10, FundLoanMoves DEF FundLoan
  <1>11. ASSUME NEW c \in Calls, FundFails(c) PROVE Funded'
    BY <1>11, FundFailsMoves DEF FundFails, ReleaseLoanCreationClaim, Fault
  <1>12. ASSUME NEW c \in Calls, CreateRow(c) PROVE Funded'
    BY <1>12, CreateRowMoves DEF CreateRow, ReleaseLoanCreationClaim
  <1>13. ASSUME NEW c \in Calls, Open(c) PROVE Funded'
    BY <1>13, OpenMoves DEF Open
  <1>14. ASSUME NEW c \in Calls, OpenFails(c) PROVE Funded'
    BY <1>14, OpenFailsMoves DEF OpenFails, ReleaseLoanCreationClaim, Fault
  <1>15. ASSUME NEW c \in Calls, ClaimIdempotencyKey(c) PROVE Funded'
    BY <1>15, ClaimIdempotencyKeyMoves DEF ClaimIdempotencyKey
  <1>16. ASSUME NEW c \in Calls, Recheck(c) PROVE Funded'
    BY <1>16, RecheckMoves DEF Recheck
  <1>17. ASSUME NEW c \in Calls, TransferOrderExecute(c) PROVE Funded'
    BY <1>17, TransferOrderExecuteMoves DEF TransferOrderExecute, Answered
  <1>18. ASSUME NEW c \in Calls, MarkFailed(c) PROVE Funded'
    BY <1>18, MarkFailedMoves DEF MarkFailed
  <1>19. ASSUME NEW c \in Calls, MarkCompleted(c) PROVE Funded'
    BY <1>19, MarkCompletedMoves DEF MarkCompleted
  <1>20. ASSUME NEW c \in Calls, Activate(c) PROVE Funded'
    BY <1>20, ActivateMoves DEF Activate
  <1>21. ASSUME NEW c \in Calls, CheckRepayments(c) PROVE Funded'
    BY <1>21, CheckRepaymentsMoves DEF CheckRepayments
  <1>22. ASSUME NEW c \in Calls, ReturnLoan(c) PROVE Funded'
    BY <1>22, ReturnLoanMoves DEF ReturnLoan
  <1>23. ASSUME NEW c \in Calls, Look(c) PROVE Funded'
    BY <1>23, LookMoves DEF Look
  <1>24. ASSUME NEW c \in Calls, Close(c) PROVE Funded'
    BY <1>24, CloseMoves DEF Close
  <1>25. ASSUME NEW c \in Calls, LookAgain(c) PROVE Funded'
    BY <1>25, LookAgainMoves DEF LookAgain
  <1>26. ASSUME NEW c \in Calls, Reopen(c) PROVE Funded'
    BY <1>26, ReopenMoves DEF Reopen
  <1>27. ASSUME NEW c \in Calls, FundingRelease(c) PROVE Funded'
    BY <1>27, FundingReleaseMoves DEF FundingRelease
  <1>28. ASSUME NEW c \in Calls, Die(c) PROVE Funded'
    BY <1>28, DieMoves DEF Die, Fault
  <1>29. ASSUME NEW c \in Calls, NEW k \in Keys, Disburse(c, k) PROVE Funded'
    BY <1>29, DisburseMoves DEF Disburse, Overlaps
  <1>30. ASSUME NEW c \in Calls, NEW k \in Keys, PayoutFailed(c, k) PROVE Funded'
    BY <1>30, PayoutFailedMoves DEF PayoutFailed
  <1>31. CASE UNCHANGED vars
    BY <1>31
  <1> QED
    BY <1>1, <1>2, <1>3, <1>4, <1>5, <1>6, <1>7, <1>8, <1>9, <1>10, <1>11, <1>12,
       <1>13, <1>14, <1>15, <1>16, <1>17, <1>18, <1>19, <1>20, <1>21, <1>22, <1>23,
       <1>24, <1>25, <1>26, <1>27, <1>28, <1>29, <1>30, <1>31 DEF Next, Step

\* Cancels one at a time keep to a loan they find, or make, closed.
LEMMA SoleCancelNext ==
  TypeOK /\ Keyed /\ Funded /\ SoleCancel /\ [Next]_vars => SoleCancel'
  <1> SUFFICES ASSUME TypeOK, Keyed, Funded, SoleCancel, [Next]_vars PROVE SoleCancel'
    OBVIOUS
  <1> USE DEF SoleCancel, vars, request, account, money, Becomes
  <1>1. CASE Approve
    BY <1>1 DEF Approve, SoleCancel, Orderly, OneCancel, ReleasedIsClosed,
       FoundClosed, NotReleasedYet, Cancelling
  <1>2. CASE Refuse
    BY <1>2 DEF Refuse, SoleCancel, Orderly, OneCancel, ReleasedIsClosed,
       FoundClosed, NotReleasedYet, Cancelling
  <1>3. CASE Repay
    BY <1>3 DEF Repay, SoleCancel, Orderly, OneCancel, ReleasedIsClosed,
       FoundClosed, NotReleasedYet, Cancelling
  <1>4. ASSUME NEW k \in Keys, RailDecides(k) PROVE SoleCancel'
    BY <1>4 DEF RailDecides, SoleCancel, Orderly, OneCancel, ReleasedIsClosed,
       FoundClosed, NotReleasedYet, Cancelling
  <1>5. ASSUME NEW c \in Calls, Save(c) PROVE SoleCancel'
    BY <1>5, SaveMoves DEF Save, At, Cancelling, Orderly, OneCancel,
       ReleasedIsClosed, FoundClosed, NotReleasedYet
  <1>6. ASSUME NEW c \in Calls, Create(c) PROVE SoleCancel'
    BY <1>6, CreateMoves DEF Create, At, Cancelling, Orderly, OneCancel,
       ReleasedIsClosed, FoundClosed, NotReleasedYet
  <1>7. ASSUME NEW c \in Calls, CancelLoan(c) PROVE SoleCancel'
    <2>1. "cancel" \notin overlap' =>
            "cancel" \notin overlap /\ \A d \in Calls : call[d].pc \notin Cancelling
      BY <1>7 DEF CancelLoan, Overlaps
    <2>2. UNCHANGED <<acct, fund>> /\ fund # "released"
      BY <1>7 DEF CancelLoan
    <2>3. \/ acct = "PENDING" /\ Becomes(c, "look", NoKey)
          \/ acct = "CLOSED" /\ Becomes(c, "look again", NoKey)
      BY <1>7, CancelLoanMoves
    <2> SUFFICES ASSUME "cancel" \notin overlap' PROVE Orderly'
      OBVIOUS
    <2>4. OneCancel'
      BY <2>1, <2>3 DEF OneCancel
    <2>5. ReleasedIsClosed' /\ NotReleasedYet'
      BY <2>2 DEF ReleasedIsClosed, NotReleasedYet
    <2>6. FoundClosed'
      BY <2>1, <2>2, <2>3 DEF FoundClosed, Cancelling
    <2> QED
      BY <2>4, <2>5, <2>6 DEF Orderly
  <1>8. ASSUME NEW c \in Calls, SaveRow(c) PROVE SoleCancel'
    BY <1>8, SaveRowMoves DEF SaveRow, At, Cancelling, Orderly, OneCancel,
       ReleasedIsClosed, FoundClosed, NotReleasedYet
  <1>9. ASSUME NEW c \in Calls, ClaimForLoanCreation(c) PROVE SoleCancel'
    BY <1>9, ClaimForLoanCreationMoves DEF ClaimForLoanCreation, At, Cancelling,
       Orderly, OneCancel, ReleasedIsClosed, FoundClosed, NotReleasedYet
  <1>10. ASSUME NEW c \in Calls, FundLoan(c) PROVE SoleCancel'
    BY <1>10, FundLoanMoves DEF FundLoan, At, Cancelling, Orderly, OneCancel,
       ReleasedIsClosed, FoundClosed, NotReleasedYet
  <1>11. ASSUME NEW c \in Calls, FundFails(c) PROVE SoleCancel'
    BY <1>11, FundFailsMoves DEF FundFails, At, Cancelling, Orderly, OneCancel,
       ReleasedIsClosed, FoundClosed, NotReleasedYet, ReleaseLoanCreationClaim, Fault
  <1>12. ASSUME NEW c \in Calls, CreateRow(c) PROVE SoleCancel'
    BY <1>12, CreateRowMoves DEF CreateRow, At, Cancelling, Orderly, OneCancel,
       ReleasedIsClosed, FoundClosed, NotReleasedYet, ReleaseLoanCreationClaim
  <1>13. ASSUME NEW c \in Calls, Open(c) PROVE SoleCancel'
    BY <1>13, OpenMoves DEF Open, At, Cancelling, Orderly, OneCancel,
       ReleasedIsClosed, FoundClosed, NotReleasedYet
  <1>14. ASSUME NEW c \in Calls, OpenFails(c) PROVE SoleCancel'
    BY <1>14, OpenFailsMoves DEF OpenFails, At, Cancelling, Orderly, OneCancel,
       ReleasedIsClosed, FoundClosed, NotReleasedYet, ReleaseLoanCreationClaim, Fault
  <1>15. ASSUME NEW c \in Calls, ClaimIdempotencyKey(c) PROVE SoleCancel'
    BY ZenonT(45), <1>15, ClaimIdempotencyKeyMoves DEF ClaimIdempotencyKey, At, Cancelling,
       Orderly, OneCancel, ReleasedIsClosed, FoundClosed, NotReleasedYet
  <1>16. ASSUME NEW c \in Calls, Recheck(c) PROVE SoleCancel'
    BY <1>16, RecheckMoves DEF Recheck, At, Cancelling, Orderly, OneCancel,
       ReleasedIsClosed, FoundClosed, NotReleasedYet
  <1>17. ASSUME NEW c \in Calls, TransferOrderExecute(c) PROVE SoleCancel'
    BY ZenonT(45), <1>17, TransferOrderExecuteMoves DEF TransferOrderExecute, At, Cancelling,
       Orderly, OneCancel, ReleasedIsClosed, FoundClosed, NotReleasedYet, Answered
  <1>18. ASSUME NEW c \in Calls, MarkFailed(c) PROVE SoleCancel'
    BY <1>18, MarkFailedMoves DEF MarkFailed, At, Cancelling, Orderly, OneCancel,
       ReleasedIsClosed, FoundClosed, NotReleasedYet
  <1>19. ASSUME NEW c \in Calls, MarkCompleted(c) PROVE SoleCancel'
    BY <1>19, MarkCompletedMoves DEF MarkCompleted, At, Cancelling, Orderly,
       OneCancel, ReleasedIsClosed, FoundClosed, NotReleasedYet
  <1>20. ASSUME NEW c \in Calls, Activate(c) PROVE SoleCancel'
    BY <1>20, ActivateMoves DEF Activate, At, Cancelling, Orderly, OneCancel,
       ReleasedIsClosed, FoundClosed, NotReleasedYet
  <1>21. ASSUME NEW c \in Calls, CheckRepayments(c) PROVE SoleCancel'
    BY <1>21, CheckRepaymentsMoves DEF CheckRepayments, At, Cancelling, Orderly,
       OneCancel, ReleasedIsClosed, FoundClosed, NotReleasedYet
  <1>22. ASSUME NEW c \in Calls, ReturnLoan(c) PROVE SoleCancel'
    BY <1>22, ReturnLoanMoves DEF ReturnLoan, At, Cancelling, Orderly, OneCancel,
       ReleasedIsClosed, FoundClosed, NotReleasedYet
  <1>23. ASSUME NEW c \in Calls, Look(c) PROVE SoleCancel'
    <2> SUFFICES ASSUME "cancel" \notin overlap' PROVE Orderly'
      OBVIOUS
    <2>1. Orderly /\ call[c].pc \in Cancelling
      BY <1>23, LookMoves DEF Look, At, Cancelling
    <2>2. UNCHANGED overlap /\ UNCHANGED fund
      BY <1>23 DEF Look
    <2>3. OneCancel'
      BY <2>1, LookMoves, <1>23 DEF Orderly, OneCancel
    <2>4. ReleasedIsClosed' /\ NotReleasedYet'
      BY <2>1, <2>2, LookMoves, <1>23 DEF Orderly, NotReleasedYet, ReleasedIsClosed
    <2>5. \A d \in Calls : d # c => call'[d].pc \notin Cancelling
      BY <2>1, LookMoves, <1>23 DEF Orderly, OneCancel
    <2>6. call'[c].pc \in {"look again", "raced?", "reopen", "release"} => acct' = "CLOSED"
      BY <2>1, LookMoves, <1>23 DEF Look, Orderly, FoundClosed, At
    <2>7. FoundClosed'
      BY <2>5, <2>6 DEF FoundClosed, Cancelling
    <2> QED
      BY <2>3, <2>4, <2>7 DEF Orderly
  <1>24. ASSUME NEW c \in Calls, Close(c) PROVE SoleCancel'
    <2> SUFFICES ASSUME "cancel" \notin overlap' PROVE Orderly'
      OBVIOUS
    <2>1. Orderly /\ call[c].pc \in Cancelling
      BY <1>24, CloseMoves DEF Close, At, Cancelling
    <2>2. UNCHANGED overlap /\ UNCHANGED fund
      BY <1>24 DEF Close
    <2>3. OneCancel'
      BY <2>1, CloseMoves, <1>24 DEF Orderly, OneCancel
    <2>4. ReleasedIsClosed' /\ NotReleasedYet'
      BY <2>1, <2>2, CloseMoves, <1>24 DEF Orderly, NotReleasedYet, ReleasedIsClosed
    <2>5. \A d \in Calls : d # c => call'[d].pc \notin Cancelling
      BY <2>1, CloseMoves, <1>24 DEF Orderly, OneCancel
    <2>6. call'[c].pc \in {"look again", "raced?", "reopen", "release"} => acct' = "CLOSED"
      <3>1. CASE acct = "PENDING"
        BY <1>24, <3>1 DEF Close
      <3>2. CASE acct # "PENDING"
        <4>1. Return(c)
          BY <1>24, <3>2 DEF Close
        <4> QED
          BY <4>1, ReturnMoves DEF Becomes
      <3> QED
        BY <3>1, <3>2
    <2>7. FoundClosed'
      BY <2>5, <2>6 DEF FoundClosed, Cancelling
    <2> QED
      BY <2>3, <2>4, <2>7 DEF Orderly
  <1>25. ASSUME NEW c \in Calls, LookAgain(c) PROVE SoleCancel'
    <2> SUFFICES ASSUME "cancel" \notin overlap' PROVE Orderly'
      OBVIOUS
    <2>1. Orderly /\ call[c].pc \in Cancelling
      BY <1>25, LookAgainMoves DEF LookAgain, At, Cancelling
    <2>2. UNCHANGED overlap /\ UNCHANGED fund
      BY <1>25 DEF LookAgain
    <2>3. OneCancel'
      BY <2>1, LookAgainMoves, <1>25 DEF Orderly, OneCancel
    <2>4. ReleasedIsClosed' /\ NotReleasedYet'
      BY <2>1, <2>2, LookAgainMoves, <1>25 DEF Orderly, NotReleasedYet, ReleasedIsClosed
    <2>5. \A d \in Calls : d # c => call'[d].pc \notin Cancelling
      BY <2>1, LookAgainMoves, <1>25 DEF Orderly, OneCancel
    <2>6. call'[c].pc \in {"look again", "raced?", "reopen", "release"} => acct' = "CLOSED"
      BY <2>1, LookAgainMoves, <1>25 DEF LookAgain, Orderly, FoundClosed, At
    <2>7. FoundClosed'
      BY <2>5, <2>6 DEF FoundClosed, Cancelling
    <2> QED
      BY <2>3, <2>4, <2>7 DEF Orderly
  <1>26. ASSUME NEW c \in Calls, Reopen(c) PROVE SoleCancel'
    <2> SUFFICES ASSUME "cancel" \notin overlap' PROVE Orderly'
      OBVIOUS
    <2>1. Orderly /\ call[c].pc \in Cancelling
      BY <1>26, ReopenMoves DEF Reopen, At, Cancelling
    <2>2. UNCHANGED overlap /\ UNCHANGED fund
      BY <1>26 DEF Reopen
    <2>3. OneCancel'
      BY <2>1, ReopenMoves, <1>26 DEF Orderly, OneCancel
    <2>4. ReleasedIsClosed' /\ NotReleasedYet'
      BY <2>1, <2>2, ReopenMoves, <1>26 DEF Orderly, NotReleasedYet, ReleasedIsClosed
    <2>5. \A d \in Calls : d # c => call'[d].pc \notin Cancelling
      BY <2>1, ReopenMoves, <1>26 DEF Orderly, OneCancel
    <2>6. call'[c].pc \in {"look again", "raced?", "reopen", "release"} => acct' = "CLOSED"
      BY <2>1, ReopenMoves, <1>26 DEF Reopen, Orderly, FoundClosed, At
    <2>7. FoundClosed'
      BY <2>5, <2>6 DEF FoundClosed, Cancelling
    <2> QED
      BY <2>3, <2>4, <2>7 DEF Orderly
  <1>27. ASSUME NEW c \in Calls, FundingRelease(c) PROVE SoleCancel'
    BY <1>27, FundingReleaseMoves DEF FundingRelease, At, Cancelling, Orderly,
       OneCancel, ReleasedIsClosed, FoundClosed, NotReleasedYet
  <1>28. ASSUME NEW c \in Calls, Die(c) PROVE SoleCancel'
    BY <1>28, DieMoves DEF Die, At, Cancelling, Orderly, OneCancel,
       ReleasedIsClosed, FoundClosed, NotReleasedYet, Fault
  <1>29. ASSUME NEW c \in Calls, NEW k \in Keys, Disburse(c, k) PROVE SoleCancel'
    BY <1>29, DisburseMoves DEF Disburse, At, Cancelling, Orderly, OneCancel,
       ReleasedIsClosed, FoundClosed, NotReleasedYet, Overlaps
  <1>30. ASSUME NEW c \in Calls, NEW k \in Keys, PayoutFailed(c, k) PROVE SoleCancel'
    BY <1>30, PayoutFailedMoves DEF PayoutFailed, At, Cancelling, Orderly,
       OneCancel, ReleasedIsClosed, FoundClosed, NotReleasedYet
  <1>31. CASE UNCHANGED vars
    BY <1>31 DEF SoleCancel, Orderly, OneCancel, ReleasedIsClosed, FoundClosed,
       NotReleasedYet, Cancelling
  <1> QED
    BY <1>1, <1>2, <1>3, <1>4, <1>5, <1>6, <1>7, <1>8, <1>9, <1>10, <1>11, <1>12,
       <1>13, <1>14, <1>15, <1>16, <1>17, <1>18, <1>19, <1>20, <1>21, <1>22, <1>23,
       <1>24, <1>25, <1>26, <1>27, <1>28, <1>29, <1>30, <1>31 DEF Next, Step

\* No order comes before its row, and no loan is active without an order.
LEMMA RowFirstNext ==
  TypeOK /\ Keyed /\ RowFirst /\ [Next]_vars => RowFirst'
  <1> SUFFICES ASSUME TypeOK, Keyed, RowFirst, [Next]_vars PROVE RowFirst'
    OBVIOUS
  <1> USE DEF RowFirst, vars, request, account, money, At, Becomes
  <1>1. CASE Approve
    BY <1>1 DEF Approve
  <1>2. CASE Refuse
    BY <1>2 DEF Refuse
  <1>3. CASE Repay
    BY <1>3 DEF Repay
  <1>4. ASSUME NEW k \in Keys, RailDecides(k) PROVE RowFirst'
    BY <1>4 DEF RailDecides
  <1>5. ASSUME NEW c \in Calls, Save(c) PROVE RowFirst'
    BY <1>5, QuietSteps, QuietRows
  <1>6. ASSUME NEW c \in Calls, Create(c) PROVE RowFirst'
    BY <1>6, QuietSteps, QuietRows
  <1>7. ASSUME NEW c \in Calls, CancelLoan(c) PROVE RowFirst'
    BY <1>7, QuietSteps, QuietRows
  <1>8. ASSUME NEW c \in Calls, SaveRow(c) PROVE RowFirst'
    BY <1>8, QuietSteps, QuietRows
  <1>9. ASSUME NEW c \in Calls, ClaimForLoanCreation(c) PROVE RowFirst'
    BY <1>9, QuietSteps, QuietRows
  <1>10. ASSUME NEW c \in Calls, FundLoan(c) PROVE RowFirst'
    BY <1>10, QuietSteps, QuietRows
  <1>11. ASSUME NEW c \in Calls, FundFails(c) PROVE RowFirst'
    BY <1>11, QuietSteps, QuietRows
  <1>12. ASSUME NEW c \in Calls, CreateRow(c) PROVE RowFirst'
    BY <1>12, QuietSteps, QuietRows
  <1>13. ASSUME NEW c \in Calls, Open(c) PROVE RowFirst'
    BY <1>13, QuietSteps, QuietRows
  <1>14. ASSUME NEW c \in Calls, OpenFails(c) PROVE RowFirst'
    BY <1>14, QuietSteps, QuietRows
  <1>15. ASSUME NEW c \in Calls, ClaimIdempotencyKey(c) PROVE RowFirst'
    BY <1>15, DriveSteps, DriveEffects, DriveRows
  <1>16. ASSUME NEW c \in Calls, Recheck(c) PROVE RowFirst'
    BY <1>16, DriveSteps, DriveEffects, DriveRows
  <1>17. ASSUME NEW c \in Calls, TransferOrderExecute(c) PROVE RowFirst'
    BY <1>17, DriveSteps, DriveEffects, DriveRows
  <1>18. ASSUME NEW c \in Calls, MarkFailed(c) PROVE RowFirst'
    BY <1>18, DriveSteps, DriveEffects, DriveRows
  <1>19. ASSUME NEW c \in Calls, MarkCompleted(c) PROVE RowFirst'
    BY <1>19, DriveSteps, DriveEffects, DriveRows
  <1>20. ASSUME NEW c \in Calls, Activate(c) PROVE RowFirst'
    BY <1>20, QuietSteps, QuietRows
  <1>21. ASSUME NEW c \in Calls, CheckRepayments(c) PROVE RowFirst'
    BY <1>21, QuietSteps, QuietRows
  <1>22. ASSUME NEW c \in Calls, ReturnLoan(c) PROVE RowFirst'
    BY <1>22, QuietSteps, QuietRows
  <1>23. ASSUME NEW c \in Calls, Look(c) PROVE RowFirst'
    BY <1>23, QuietSteps, QuietRows
  <1>24. ASSUME NEW c \in Calls, Close(c) PROVE RowFirst'
    BY <1>24, QuietSteps, QuietRows
  <1>25. ASSUME NEW c \in Calls, LookAgain(c) PROVE RowFirst'
    BY <1>25, QuietSteps, QuietRows
  <1>26. ASSUME NEW c \in Calls, Reopen(c) PROVE RowFirst'
    BY <1>26, QuietSteps, QuietRows
  <1>27. ASSUME NEW c \in Calls, FundingRelease(c) PROVE RowFirst'
    BY <1>27, QuietSteps, QuietRows
  <1>28. ASSUME NEW c \in Calls, Die(c) PROVE RowFirst'
    BY <1>28, QuietSteps, QuietRows
  <1>29. ASSUME NEW c \in Calls, NEW k \in Keys, Disburse(c, k) PROVE RowFirst'
    BY <1>29, DisburseMoves DEF Disburse, TypeOK, Keyed, Attempt, Attempting, Overlaps
  <1>30. ASSUME NEW c \in Calls, NEW k \in Keys, PayoutFailed(c, k) PROVE RowFirst'
    BY <1>30, PayoutFailedMoves DEF PayoutFailed, TypeOK, Keyed, Attempt, Attempting
  <1>31. CASE UNCHANGED vars
    BY <1>31
  <1> QED
    BY <1>1, <1>2, <1>3, <1>4, <1>5, <1>6, <1>7, <1>8, <1>9, <1>10, <1>11, <1>12,
       <1>13, <1>14, <1>15, <1>16, <1>17, <1>18, <1>19, <1>20, <1>21, <1>22, <1>23,
       <1>24, <1>25, <1>26, <1>27, <1>28, <1>29, <1>30, <1>31 DEF Next, Step

\* Attempts on a key one at a time keep one row live, and money out for it only.
LEMMA SoleAttemptNext ==
  TypeOK /\ Keyed /\ RowFirst /\ SoleAttempt /\ [Next]_vars => SoleAttempt'
  <1> SUFFICES ASSUME TypeOK, Keyed, RowFirst, SoleAttempt, [Next]_vars PROVE SoleAttempt'
    OBVIOUS
  <1> USE DEF vars, request, account, money, At, Becomes
  <1>1. CASE Approve
    BY <1>1 DEF Approve, SoleAttempt, Alone, OneAttempt, OneLive, OutIsLive, Drives,
       Unsent, Live, Out, Attempt, Attempting, TypeOK
  <1>2. CASE Refuse
    BY <1>2 DEF Refuse, SoleAttempt, Alone, OneAttempt, OneLive, OutIsLive, Drives,
       Unsent, Live, Out, Attempt, Attempting, TypeOK
  <1>3. CASE Repay
    BY <1>3 DEF Repay, SoleAttempt, Alone, OneAttempt, OneLive, OutIsLive, Drives,
       Unsent, Live, Out, Attempt, Attempting, TypeOK
  <1>4. ASSUME NEW k \in Keys, RailDecides(k) PROVE SoleAttempt'
    BY <1>4 DEF RailDecides, SoleAttempt, Alone, OneAttempt, OneLive, OutIsLive,
       Drives, Unsent, Live, Out, Attempt, Attempting, TypeOK
  <1>5. ASSUME NEW c \in Calls, Save(c) PROVE SoleAttempt'
    BY <1>5, QuietSteps, QuietAttempts
  <1>6. ASSUME NEW c \in Calls, Create(c) PROVE SoleAttempt'
    BY <1>6, QuietSteps, QuietAttempts
  <1>7. ASSUME NEW c \in Calls, CancelLoan(c) PROVE SoleAttempt'
    BY <1>7, QuietSteps, QuietAttempts
  <1>8. ASSUME NEW c \in Calls, SaveRow(c) PROVE SoleAttempt'
    BY <1>8, QuietSteps, QuietAttempts
  <1>9. ASSUME NEW c \in Calls, ClaimForLoanCreation(c) PROVE SoleAttempt'
    BY <1>9, QuietSteps, QuietAttempts
  <1>10. ASSUME NEW c \in Calls, FundLoan(c) PROVE SoleAttempt'
    BY <1>10, QuietSteps, QuietAttempts
  <1>11. ASSUME NEW c \in Calls, FundFails(c) PROVE SoleAttempt'
    BY <1>11, QuietSteps, QuietAttempts
  <1>12. ASSUME NEW c \in Calls, CreateRow(c) PROVE SoleAttempt'
    BY <1>12, QuietSteps, QuietAttempts
  <1>13. ASSUME NEW c \in Calls, Open(c) PROVE SoleAttempt'
    BY <1>13, QuietSteps, QuietAttempts
  <1>14. ASSUME NEW c \in Calls, OpenFails(c) PROVE SoleAttempt'
    BY <1>14, QuietSteps, QuietAttempts
  <1>15. ASSUME NEW c \in Calls, ClaimIdempotencyKey(c) PROVE SoleAttempt'
    BY <1>15, DriveSteps, DriveEffects, DriveAttempts
  <1>16. ASSUME NEW c \in Calls, Recheck(c) PROVE SoleAttempt'
    BY <1>16, DriveSteps, DriveEffects, DriveAttempts
  <1>17. ASSUME NEW c \in Calls, TransferOrderExecute(c) PROVE SoleAttempt'
    BY <1>17, DriveSteps, DriveEffects, DriveAttempts
  <1>18. ASSUME NEW c \in Calls, MarkFailed(c) PROVE SoleAttempt'
    BY <1>18, DriveSteps, DriveEffects, DriveAttempts
  <1>19. ASSUME NEW c \in Calls, MarkCompleted(c) PROVE SoleAttempt'
    BY <1>19, DriveSteps, DriveEffects, DriveAttempts
  <1>20. ASSUME NEW c \in Calls, Activate(c) PROVE SoleAttempt'
    BY <1>20, QuietSteps, QuietAttempts
  <1>21. ASSUME NEW c \in Calls, CheckRepayments(c) PROVE SoleAttempt'
    BY <1>21, QuietSteps, QuietAttempts
  <1>22. ASSUME NEW c \in Calls, ReturnLoan(c) PROVE SoleAttempt'
    BY <1>22, QuietSteps, QuietAttempts
  <1>23. ASSUME NEW c \in Calls, Look(c) PROVE SoleAttempt'
    BY <1>23, QuietSteps, QuietAttempts
  <1>24. ASSUME NEW c \in Calls, Close(c) PROVE SoleAttempt'
    BY <1>24, QuietSteps, QuietAttempts
  <1>25. ASSUME NEW c \in Calls, LookAgain(c) PROVE SoleAttempt'
    BY <1>25, QuietSteps, QuietAttempts
  <1>26. ASSUME NEW c \in Calls, Reopen(c) PROVE SoleAttempt'
    BY <1>26, QuietSteps, QuietAttempts
  <1>27. ASSUME NEW c \in Calls, FundingRelease(c) PROVE SoleAttempt'
    BY <1>27, QuietSteps, QuietAttempts
  <1>28. ASSUME NEW c \in Calls, Die(c) PROVE SoleAttempt'
    BY <1>28, QuietSteps, QuietAttempts
  <1>29. ASSUME NEW c \in Calls, NEW k \in Keys, Disburse(c, k) PROVE SoleAttempt'
    <2>1. UNCHANGED <<disb, order>>
      BY <1>29 DEF Disburse
    <2>2. "key" \notin overlap' => "key" \notin overlap /\ \A d \in Calls : call[d].key # k
      BY <1>29 DEF Disburse, Overlaps
    <2>3. At(c, "idle") /\ Becomes(c, "insert", k)
      BY <1>29, DisburseMoves
    <2> SUFFICES ASSUME "key" \notin overlap' PROVE Alone'
      BY DEF SoleAttempt
    <2>4. Alone
      BY <2>2 DEF SoleAttempt
    <2>5. OneAttempt'
      BY <2>2, <2>3, <2>4 DEF Alone, OneAttempt, Attempt, Becomes
    <2>6. OneLive' /\ OutIsLive'
      BY <2>1, <2>4 DEF Alone, OneLive, OutIsLive, Live, Out
    <2>7. Drives'
      BY <2>1, <2>3, <2>4 DEF Alone, Drives, Becomes
    <2>8. Unsent'
      BY <2>1, <2>3, <2>4 DEF Alone, Unsent, Out, Becomes
    <2> QED
      BY <2>5, <2>6, <2>7, <2>8 DEF Alone
  <1>30. ASSUME NEW c \in Calls, NEW k \in Keys, PayoutFailed(c, k) PROVE SoleAttempt'
    <2>1. order[k] = "failed" /\ UNCHANGED <<order, overlap>>
      BY <1>30 DEF PayoutFailed
    <2>2. \/ call[c].pc = "idle" /\ disb[k] = "COMPLETED" /\ Becomes(c, "repaid?", k)
          \/ UNCHANGED call
      BY <1>30, PayoutFailedMoves
    <2>3. disb' = disb \/ (disb[k] = "COMPLETED" /\ disb' = [disb EXCEPT ![k] = "FAILED"])
      BY <1>30 DEF PayoutFailed
    <2>4. \A l \in Keys : disb'[l] = disb[l] \/ (l = k /\ disb[l] = "COMPLETED" /\ disb'[l] = "FAILED")
      BY <2>3 DEF TypeOK
    <2> SUFFICES ASSUME "key" \notin overlap' PROVE Alone'
      BY DEF SoleAttempt
    <2>5. Alone
      BY <2>1 DEF SoleAttempt
    <2>6. \A d \in Calls : call'[d].pc \in Attempting => call'[d] = call[d]
      BY <2>2 DEF Becomes, Attempting
    <2>7. OneAttempt'
      BY <2>5, <2>6 DEF Alone, OneAttempt, Attempt
    <2>8. OneLive'
      BY <2>4, <2>5 DEF Alone, OneLive, Live
    <2>9. OutIsLive'
      BY <2>1, <2>4, <2>5 DEF Alone, OutIsLive, Live, Out
    <2>10. Drives'
      <3> SUFFICES ASSUME NEW d \in Calls, call'[d].pc \in {"recheck", "pay", "fail", "complete"}
                   PROVE  disb'[call'[d].key] = "PROCESSING"
        BY DEF Drives
      <3>1. call'[d] = call[d] /\ Attempt(d)
        BY <2>6 DEF Attempt, Attempting
      <3>2. call[d].key \in Keys /\ disb[call[d].key] = "PROCESSING"
        BY <2>5, <3>1 DEF Alone, Drives, Keyed
      <3> QED
        BY <2>4, <3>1, <3>2
    <2>11. Unsent'
      BY <2>1, <2>5, <2>6 DEF Alone, Unsent, Out, Attempting
    <2> QED
      BY <2>7, <2>8, <2>9, <2>10, <2>11 DEF Alone
  <1>31. CASE UNCHANGED vars
    BY <1>31 DEF SoleAttempt, Alone, OneAttempt, OneLive, OutIsLive, Drives, Unsent,
       Live, Out, Attempt, Attempting, TypeOK
  <1> QED
    BY <1>1, <1>2, <1>3, <1>4, <1>5, <1>6, <1>7, <1>8, <1>9, <1>10, <1>11, <1>12,
       <1>13, <1>14, <1>15, <1>16, <1>17, <1>18, <1>19, <1>20, <1>21, <1>22, <1>23,
       <1>24, <1>25, <1>26, <1>27, <1>28, <1>29, <1>30, <1>31 DEF Next, Step

\* Once a cancel goes on to release, no step sends an order of the loan.
LEMMA NothingUnderwayNext ==
  TypeOK /\ Keyed /\ Funded /\ SoleCancel /\ RowFirst /\ SoleAttempt /\
  NothingUnderway /\ [Next]_vars => NothingUnderway'
  <1> SUFFICES ASSUME TypeOK, Keyed, Funded, SoleCancel, RowFirst, SoleAttempt,
                      NothingUnderway, [Next]_vars
               PROVE  NothingUnderway'
    OBVIOUS
  <1> USE DEF vars, request, account, money, At
  <1>1. CASE Approve
    BY <1>1 DEF Approve, NothingUnderway, Live, Attempt, TypeOK
  <1>2. CASE Refuse
    BY <1>2 DEF Refuse, NothingUnderway, Live, Attempt, TypeOK
  <1>3. CASE Repay
    BY <1>3 DEF Repay, NothingUnderway, Live, Attempt, TypeOK
  <1>4. ASSUME NEW k \in Keys, RailDecides(k) PROVE NothingUnderway'
    BY <1>4 DEF RailDecides, NothingUnderway, Live, Attempt, TypeOK
  <1>5. ASSUME NEW c \in Calls, Save(c) PROVE NothingUnderway'
    BY <1>5, QuietSteps, QuietReleases, SaveMoves DEF Becomes
  <1>6. ASSUME NEW c \in Calls, Create(c) PROVE NothingUnderway'
    BY <1>6, QuietSteps, QuietReleases, CreateMoves DEF Becomes
  <1>7. ASSUME NEW c \in Calls, CancelLoan(c) PROVE NothingUnderway'
    BY <1>7, QuietSteps, QuietReleases, CancelLoanMoves DEF Becomes
  <1>8. ASSUME NEW c \in Calls, SaveRow(c) PROVE NothingUnderway'
    BY <1>8, QuietSteps, QuietReleases, SaveRowMoves DEF Becomes
  <1>9. ASSUME NEW c \in Calls, ClaimForLoanCreation(c) PROVE NothingUnderway'
    BY <1>9, QuietSteps, QuietReleases, ClaimForLoanCreationMoves DEF Becomes
  <1>10. ASSUME NEW c \in Calls, FundLoan(c) PROVE NothingUnderway'
    BY <1>10, QuietSteps, QuietReleases, FundLoanMoves DEF Becomes
  <1>11. ASSUME NEW c \in Calls, FundFails(c) PROVE NothingUnderway'
    BY <1>11, QuietSteps, QuietReleases, FundFailsMoves DEF Becomes
  <1>12. ASSUME NEW c \in Calls, CreateRow(c) PROVE NothingUnderway'
    BY <1>12, QuietSteps, QuietReleases, CreateRowMoves DEF Becomes
  <1>13. ASSUME NEW c \in Calls, Open(c) PROVE NothingUnderway'
    BY <1>13, QuietSteps, QuietReleases, OpenMoves DEF Becomes
  <1>14. ASSUME NEW c \in Calls, OpenFails(c) PROVE NothingUnderway'
    BY <1>14, QuietSteps, QuietReleases, OpenFailsMoves DEF Becomes
  <1>15. ASSUME NEW c \in Calls, ClaimIdempotencyKey(c) PROVE NothingUnderway'
    <2>1. ~At(c, "release")'
      BY <1>15, ClaimIdempotencyKeyMoves DEF Becomes
    <2>2. At(c, "recheck") =>
           acct = "PENDING" \/ disb'[call[c].key] \notin {"PROCESSING", "COMPLETED"}
      BY <1>15, ClaimIdempotencyKeyMoves
    <2> QED
      BY <1>15, <2>1, <2>2, DriveSteps, DriveEffects, DriveReleases
  <1>16. ASSUME NEW c \in Calls, Recheck(c) PROVE NothingUnderway'
    <2>1. ~At(c, "release")'
      BY <1>16, RecheckMoves DEF Becomes
    <2>2. At(c, "recheck") =>
           acct = "PENDING" \/ disb'[call[c].key] \notin {"PROCESSING", "COMPLETED"}
      <3>1. call[c].key \in Keys
        BY <1>16, DriveSteps DEF Drive
      <3>2. acct # "PENDING" => disb' = [disb EXCEPT ![call[c].key] = "FAILED"]
        BY <1>16 DEF Recheck
      <3> QED
        BY <3>1, <3>2 DEF TypeOK
    <2> QED
      BY <1>16, <2>1, <2>2, DriveSteps, DriveEffects, DriveReleases
  <1>17. ASSUME NEW c \in Calls, TransferOrderExecute(c) PROVE NothingUnderway'
    <2>1. ~At(c, "release")'
      BY <1>17, TransferOrderExecuteMoves DEF Answered, Becomes
    <2>2. At(c, "recheck") =>
           acct = "PENDING" \/ disb'[call[c].key] \notin {"PROCESSING", "COMPLETED"}
      BY <1>17 DEF TransferOrderExecute
    <2> QED
      BY <1>17, <2>1, <2>2, DriveSteps, DriveEffects, DriveReleases
  <1>18. ASSUME NEW c \in Calls, MarkFailed(c) PROVE NothingUnderway'
    <2>1. ~At(c, "release")'
      BY <1>18, MarkFailedMoves DEF Becomes
    <2>2. At(c, "recheck") =>
           acct = "PENDING" \/ disb'[call[c].key] \notin {"PROCESSING", "COMPLETED"}
      BY <1>18, MarkFailedMoves
    <2> QED
      BY <1>18, <2>1, <2>2, DriveSteps, DriveEffects, DriveReleases
  <1>19. ASSUME NEW c \in Calls, MarkCompleted(c) PROVE NothingUnderway'
    <2>1. ~At(c, "release")'
      BY <1>19, MarkCompletedMoves DEF Becomes
    <2>2. At(c, "recheck") =>
           acct = "PENDING" \/ disb'[call[c].key] \notin {"PROCESSING", "COMPLETED"}
      BY <1>19, MarkCompletedMoves
    <2> QED
      BY <1>19, <2>1, <2>2, DriveSteps, DriveEffects, DriveReleases
  <1>20. ASSUME NEW c \in Calls, Activate(c) PROVE NothingUnderway'
    BY <1>20, QuietSteps, QuietReleases, ActivateMoves DEF Becomes
  <1>21. ASSUME NEW c \in Calls, CheckRepayments(c) PROVE NothingUnderway'
    BY <1>21, QuietSteps, QuietReleases, CheckRepaymentsMoves DEF Becomes
  <1>22. ASSUME NEW c \in Calls, ReturnLoan(c) PROVE NothingUnderway'
    BY <1>22, QuietSteps, QuietReleases, ReturnLoanMoves DEF Becomes
  <1>23. ASSUME NEW c \in Calls, Look(c) PROVE NothingUnderway'
    <2>1. UNCHANGED <<disb, order, fund, overlap>>
      BY <1>23 DEF Look
    <2>2. /\ \A d \in Calls : d # c => call'[d] = call[d]
          /\ call'[c].pc \notin Attempting
          /\ call'[c].pc = "release" => \A l \in Keys : ~Live(l)
      BY <1>23, LookMoves DEF Becomes, Attempting, disbursementUnderway
    <2>3. CASE call'[c].pc = "release"
      BY <2>1, <2>2, <2>3 DEF NothingUnderway, Live
    <2>4. CASE call'[c].pc # "release"
      BY <1>23, <2>4, QuietSteps, QuietReleases
    <2> QED
      BY <2>3, <2>4
  <1>24. ASSUME NEW c \in Calls, Close(c) PROVE NothingUnderway'
    BY <1>24, QuietSteps, QuietReleases, CloseMoves DEF Becomes
  <1>25. ASSUME NEW c \in Calls, LookAgain(c) PROVE NothingUnderway'
    <2>1. UNCHANGED <<disb, order, fund, overlap>>
      BY <1>25 DEF LookAgain
    <2>2. CASE disbursementUnderway
      <3>1. To(c, "reopen")
        BY <1>25, <2>2 DEF LookAgain
      <3>2. call'[c].pc = "reopen"
        BY <3>1, ToMoves DEF Becomes, Pcs, Cancelling
      <3> QED
        BY <1>25, <3>2, QuietSteps, QuietReleases
    <2>3. CASE ~disbursementUnderway
      BY <2>1, <2>3 DEF NothingUnderway, Live, disbursementUnderway
    <2> QED
      BY <2>2, <2>3
  <1>26. ASSUME NEW c \in Calls, Reopen(c) PROVE NothingUnderway'
    BY <1>26, QuietSteps, QuietReleases, ReopenMoves DEF Becomes
  <1>27. ASSUME NEW c \in Calls, FundingRelease(c) PROVE NothingUnderway'
    BY <1>27, QuietSteps, QuietReleases, FundingReleaseMoves DEF Becomes
  <1>28. ASSUME NEW c \in Calls, Die(c) PROVE NothingUnderway'
    BY <1>28, QuietSteps, QuietReleases, DieMoves DEF Becomes
  <1>29. ASSUME NEW c \in Calls, NEW k \in Keys, Disburse(c, k) PROVE NothingUnderway'
    <2>1. acct = "PENDING" /\ UNCHANGED fund /\ overlap \subseteq overlap'
      BY <1>29 DEF Disburse, Overlaps
    <2>2. Becomes(c, "insert", k)
      BY <1>29, DisburseMoves
    <2> SUFFICES ASSUME overlap' = {}, fund' = "released" \/ \E d \in Calls : At(d, "release")'
                 PROVE  FALSE
      BY DEF NothingUnderway
    <2>3. fund = "released" \/ \E d \in Calls : call[d].pc = "release"
      BY <2>1, <2>2 DEF Becomes
    <2>4. "cancel" \notin overlap
      BY <2>1
    <2> QED
      BY <2>1, <2>3, <2>4 DEF SoleCancel, Orderly, ReleasedIsClosed, FoundClosed
  <1>30. ASSUME NEW c \in Calls, NEW k \in Keys, PayoutFailed(c, k) PROVE NothingUnderway'
    <2>1. UNCHANGED <<order, overlap, fund>>
      BY <1>30 DEF PayoutFailed
    <2>2. disb' = disb \/ disb' = [disb EXCEPT ![k] = "FAILED"]
      BY <1>30 DEF PayoutFailed
    <2>3. \A l \in Keys : disb'[l] \in {"PROCESSING", "COMPLETED"} => disb'[l] = disb[l]
      BY <2>2 DEF TypeOK
    <2>4. \A d \in Calls : call'[d] = call[d] \/ call'[d].pc = "repaid?"
      BY <1>30, PayoutFailedMoves DEF Becomes
    <2>5. \A d \in Calls : (Attempt(d) \/ At(d, "release"))' => call'[d] = call[d]
      BY <2>4 DEF Attempt, Attempting
    <2> QED
      BY <2>1, <2>3, <2>5 DEF NothingUnderway, Live, Attempt
  <1>31. CASE UNCHANGED vars
    BY <1>31 DEF NothingUnderway, Live, Attempt, TypeOK
  <1> QED
    BY <1>1, <1>2, <1>3, <1>4, <1>5, <1>6, <1>7, <1>8, <1>9, <1>10, <1>11, <1>12,
       <1>13, <1>14, <1>15, <1>16, <1>17, <1>18, <1>19, <1>20, <1>21, <1>22, <1>23,
       <1>24, <1>25, <1>26, <1>27, <1>28, <1>29, <1>30, <1>31 DEF Next, Step

-----------------------------------------------------------------------------
(* The inductive invariant, and what follows from it *)

IInv == /\ TypeOK /\ Keyed /\ Funded /\ SoleCancel /\ RowFirst /\ SoleAttempt
        /\ NothingUnderway

LEMMA InitInvariant == Init => IInv
  <1> SUFFICES ASSUME Init PROVE IInv
    OBVIOUS
  <1> USE DEF Init, Idle
  <1>1. TypeOK
    <2>1. saves \in 0..MaxSaves /\ faults \in 0..MaxFaults
      BY BoundAssumption
    <2>2. call \in [Calls -> [pc : Pcs, key : Keys \union {NoKey}]]
      BY DEF Pcs
    <2> QED
      BY <2>1, <2>2 DEF TypeOK
  <1>2. Keyed /\ Funded
    BY DEF Keyed, Funded, Attempt, Attempting, Cancelling, At
  <1>3. SoleCancel
    BY DEF SoleCancel, Orderly, OneCancel, ReleasedIsClosed, FoundClosed,
       NotReleasedYet,
           Cancelling
  <1>4. RowFirst
    BY DEF RowFirst
  <1>5. SoleAttempt
    BY DEF SoleAttempt, Alone, OneAttempt, OneLive, OutIsLive, Drives, Unsent, Live,
       Out,
           Attempt, Attempting, At
  <1>6. NothingUnderway
    BY DEF NothingUnderway, Live
  <1> QED
    BY <1>1, <1>2, <1>3, <1>4, <1>5, <1>6 DEF IInv

LEMMA NextInvariant == IInv /\ [Next]_vars => IInv'
  BY TypedNext, KeyedNext, FundedNext, SoleCancelNext, RowFirstNext, SoleAttemptNext,
     NothingUnderwayNext DEF IInv

LEMMA Invariant == Spec => []IInv
  BY InitInvariant, NextInvariant, PTL DEF Spec

\* The request, the account, the rows and the calls keep their shape.
THEOREM OriginationTypeCorrect == Spec => []TypeOK
  <1>1. IInv => TypeOK
    BY DEF IInv
  <1> QED
    BY <1>1, Invariant, PTL

\* disbursement.go:203-206: whatever the keys, calls and faults, one payment of
\* the loan is out, as long as attempts on a key run one at a time.
THEOREM OriginationPaysOnce == Spec => []PaidOnce
  <1>1. IInv => PaidOnce
    BY DEF IInv, SoleAttempt, Alone, OneLive, OutIsLive, PaidOnce
  <1> QED
    BY <1>1, Invariant, PTL

\* loan_account.go:1160-1166: capital is given back only behind a loan of which
\* no money is out.
THEOREM OriginationReleasesUnpaid == Spec => []ReleasedIsUnpaid
  <1>1. IInv => ReleasedIsUnpaid
    BY DEF IInv, NothingUnderway, SoleAttempt, Alone, OutIsLive, Out, ReleasedIsUnpaid
  <1> QED
    BY <1>1, Invariant, PTL

\* disbursement.go:383-390: a failed row has no money out, a completed row has
\* an order, and a loan is active only once an order was sent for it.
THEOREM OriginationRowsTellTheMoney == Spec => []RowsTellTheMoney
  <1>1. IInv => RowsTellTheMoney
    BY DEF IInv, SoleAttempt, Alone, OutIsLive, Live, RowFirst, RowsTellTheMoney
  <1> QED
    BY <1>1, Invariant, PTL

\* loan_account.go:274-278: an account that may be paid out has capital behind it.
THEOREM OriginationIsFunded == Spec => []AccountIsFunded
  <1>1. IInv => AccountIsFunded
    BY DEF IInv, TypeOK, Funded, SoleCancel, Orderly, ReleasedIsClosed, AccountIsFunded
  <1> QED
    BY <1>1, Invariant, PTL
=============================================================================
