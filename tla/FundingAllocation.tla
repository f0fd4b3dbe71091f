-------------------------- MODULE FundingAllocation --------------------------
(***************************************************************************)
(* apps/funding: the capital of investors reserved for loan requests by     *)
(* SourceForRequest, and given back by ReleaseForRequest, under a claim row  *)
(* that one call at a time holds with a lease.                              *)
(*                                                                         *)
(* A call runs once and is cut where it leaves a transaction. A lease lapses *)
(* at any moment: a call may be as slow as it likes, so any claim that is    *)
(* not complete can be taken over while its holder still runs.              *)
(*                                                                         *)
(* A funding and its tranche are one record: "pending" is an active funding  *)
(* whose tranche waits for its capital, "active" one whose tranche is        *)
(* active, "none" one never written or voided. A call writes at most one     *)
(* funding per source and attempt.                                          *)
(***************************************************************************)
EXTENDS Integers, FiniteSets, Sums

CONSTANTS
  Requests, Calls,
  Sources, Investors,  \* the others are group savings and platform reserve
  Balance,             \* [Sources -> minor units], before anything is reserved
  MaxExposure,         \* [Investors -> minor units], 0 when unlimited
  Loan,                \* [Requests -> minor units]
  MaxAttempts,         \* maxReserveAttempts
  MaxFaults            \* bound: deaths, errors and lost answers

ASSUME SourceAssumption ==
  /\ IsFiniteSet(Calls) /\ IsFiniteSet(Sources) /\ Investors \subseteq Sources
  /\ \A s \in Sources : Balance[s] \in Nat
  /\ \A i \in Investors : MaxExposure[i] \in Nat
ASSUME BoundAssumption ==
  /\ \A r \in Requests : Loan[r] \in Nat \ {0}
  /\ MaxAttempts \in Nat \ {0} /\ MaxFaults \in Nat

VARIABLES
  claim,     \* loan_funding_claims by request: status, and whose lease it is
  funding,   \* loan_fundings with their tranche, by call, attempt and source
  reserved,  \* investor_accounts.reserved_balance
  call,      \* the calls under way
  given,     \* calls a release has begun to give the fundings of back
  unseen,    \* calls that wrote a funding while a release of their request was under way
  overtaken, \* those that had completed the claim when such a release dropped it
  robbed,    \* calls whose funding a call that lost its lease voided as a leftover
  broken,    \* calls a fault kept from giving back what they reserved
  faults

past == <<given, unseen, overtaken, robbed, broken>>
vars == <<claim, funding, reserved, call, past, faults>>

Fundings == Calls \X (1..MaxAttempts) \X Sources
NoClaim == [st |-> "none", by |-> 0]
Nothing == [amt |-> 0, st |-> "none"]
\* plan: what the attempt still has to write; todo: fundings still to void.
Fresh == [pc |-> "new", req |-> 0, attempt |-> 1, plan |-> [s \in Sources |-> 0],
          full |-> FALSE, todo |-> {}]

Init ==
  /\ claim = [r \in Requests |-> NoClaim]
  /\ funding = [f \in Fundings |-> Nothing]
  /\ reserved = [i \in Investors |-> 0]
  /\ call = [c \in Calls |-> Fresh]
  /\ given = {} /\ unseen = {} /\ overtaken = {} /\ robbed = {} /\ broken = {}
  /\ faults = MaxFaults

At(c, pc) == call[c].pc = pc
To(c, pc) == call' = [call EXCEPT ![c].pc = pc]
\* A call that is over is forgotten but for the request it was made for.
Over(c) == [Fresh EXCEPT !.pc = "over", !.req = call[c].req]
Return(c) == call' = [call EXCEPT ![c] = Over(c)]
Fault == faults > 0 /\ faults' = faults - 1
Holds(c, sts) == LET k == claim[call[c].req] IN k.by = c /\ k.st \in sts
SetClaim(c, st) == claim' = [claim EXCEPT ![call[c].req].st = st]

\* The fundings of a request that a void would still act on.
ActiveFor(r) == {f \in Fundings : funding[f].st # "none" /\ call[f[1]].req = r}
Releasing(r) == \E c \in Calls : call[c].req = r /\ call[c].pc \in {"void_cancel", "drop"}
OwnRun(c) == {f \in Fundings : f[1] = c /\ f[2] = call[c].attempt
                               /\ funding[f].st # "none"}
Begin(c, pc, todo) == call' = [call EXCEPT ![c].pc = pc, ![c].todo = todo]

------------------------------------------------------------------------------
(* What an investor can still lend *)

\* reserveWithinLimits, for one more unit of amount a.
WithinLimits(i, a) ==
  /\ Balance[i] - reserved[i] >= a
  /\ MaxExposure[i] = 0 \/ reserved[i] + a <= MaxExposure[i]

\* What appendInvestorSources and the source balances report.
Offered(s) ==
  IF s \in Investors
    THEN Max({a \in 0..Balance[s] : a = 0 \/ WithinLimits(s, a)})
    ELSE Balance[s]

\* Mutant: a tranche that waits for its capital gives it back too.
GiveBackPending(f) ==
  reserved' = IF f[3] \in Investors /\ reserved[f[3]] >= funding[f].amt
                THEN [reserved EXCEPT ![f[3]] = @ - funding[f].amt] ELSE reserved

\* A funding that is voided gives back what its tranche holds, when the
\* account still holds as much.
GiveBack(f) ==
  reserved' = IF f[3] \in Investors /\ funding[f].st = "active"
                 /\ reserved[f[3]] >= funding[f].amt
                THEN [reserved EXCEPT ![f[3]] = @ - funding[f].amt] ELSE reserved

------------------------------------------------------------------------------
(* SourceForRequest *)

\* Claim: the row is inserted, or taken over once its lease lapsed. A complete
\* claim, and one whose lease runs, answer the call and end it.
Claim(c, r) ==
  /\ At(c, "new") /\ claim[r].st # "complete"
  /\ claim' = [claim EXCEPT ![r] = [st |-> "allocating", by |-> c]]
  /\ call' = [call EXCEPT ![c].req = r, ![c].pc = "leftovers"]
  /\ UNCHANGED <<funding, reserved, past, faults>>

\* voidLeftovers: what is recorded for the request when it is read.
ReadLeftovers(c) ==
  /\ At(c, "leftovers")
  /\ Begin(c, "void_old", ActiveFor(call[c].req))
  /\ UNCHANGED <<claim, funding, reserved, past, faults>>

\* AllocateLoanFunding over what gatherFundingSources reads: the loan is
\* covered as far as the sources reach, in whatever shares.
Plan(c) ==
  LET want == Loan[call[c].req]
      reach == Total([s \in Sources |-> Offered(s)], Sources)
      goal == IF reach < want THEN reach ELSE want
  IN /\ At(c, "plan")
     /\ \E p \in [Sources -> 0..want] :
          /\ \A s \in Sources : p[s] <= Offered(s)
          /\ Total(p, Sources) = goal
          /\ call' = [call EXCEPT ![c].pc = "write", ![c].plan = p,
                                  ![c].full = goal = want]
     /\ UNCHANGED <<claim, funding, reserved, past, faults>>

\* One round of persistAllocations: the funding and its tranche are created;
\* an investor's tranche waits for its capital.
WriteFunding(c) ==
  /\ At(c, "write")
  /\ \E s \in Sources :
       /\ call[c].plan[s] > 0
       /\ funding' = [funding EXCEPT ![<<c, call[c].attempt, s>>] =
            [amt |-> call[c].plan[s],
             st |-> IF s \in Investors THEN "pending" ELSE "active"]]
       /\ call' = [call EXCEPT ![c].plan[s] = 0,
                     ![c].pc = IF s \in Investors THEN "reserve" ELSE "write"]
  /\ unseen' = IF Releasing(call[c].req) THEN unseen \union {c} ELSE unseen
  /\ UNCHANGED <<claim, reserved, given, overtaken, robbed, broken, faults>>

\* ReserveAndActivate: the tranche turns active and its capital is reserved in
\* one transaction under the funding's row lock. Capital another loan took
\* meanwhile is a conflict worth a new attempt; a funding somebody voided is
\* an error that is not.
ReserveAndActivate(c) ==
  /\ At(c, "reserve")
  /\ LET waiting == {s \in Investors : funding[<<c, call[c].attempt, s>>].st = "pending"}
     IN IF waiting = {} THEN /\ Begin(c, "undo_error", OwnRun(c))
                             /\ UNCHANGED <<funding, reserved>>
        ELSE \E s \in waiting : LET f == <<c, call[c].attempt, s>> IN
          IF WithinLimits(s, funding[f].amt)
            THEN /\ funding' = [funding EXCEPT ![f].st = "active"]
                 /\ reserved' = [reserved EXCEPT ![s] = @ + funding[f].amt]
                 /\ To(c, "write")
            ELSE /\ Begin(c, "undo_conflict", OwnRun(c))
                 /\ UNCHANGED <<funding, reserved>>
  /\ UNCHANGED <<claim, past, faults>>

\* A create or a reservation the database refuses.
PersistFails(c) ==
  /\ At(c, "write") \/ At(c, "reserve")
  /\ Fault /\ Begin(c, "undo_error", OwnRun(c))
  /\ UNCHANGED <<claim, funding, reserved, past>>

\* Everything planned is written: a full allocation is completed, a short one
\* is given back.
Written(c) ==
  /\ At(c, "write") /\ \A s \in Sources : call[c].plan[s] = 0
  /\ To(c, IF call[c].full THEN "complete" ELSE "abandon")
  /\ UNCHANGED <<claim, funding, reserved, past, faults>>

\* Mutant: a call that lost its lease keeps what it reserved.
CompleteLostKept(c) ==
  /\ At(c, "complete") /\ Return(c)
  /\ IF Holds(c, {"allocating"}) THEN SetClaim(c, "complete") ELSE UNCHANGED claim
  /\ UNCHANGED <<funding, reserved, past, faults>>

\* Mutant: the completion does not look at the lease.
CompleteUnleased(c) ==
  /\ At(c, "complete")
  /\ IF claim[call[c].req].st = "allocating"
       THEN SetClaim(c, "complete") /\ Return(c)
       ELSE Begin(c, "void_lost", OwnRun(c)) /\ UNCHANGED claim
  /\ UNCHANGED <<funding, reserved, past, faults>>

\* completeClaim: the claim completes under this lease, or is found in other
\* hands and what this call wrote is voided.
Complete(c) ==
  /\ At(c, "complete")
  /\ IF Holds(c, {"allocating"})
       THEN SetClaim(c, "complete") /\ Return(c)
       ELSE Begin(c, "void_lost", OwnRun(c)) /\ UNCHANGED claim
  /\ UNCHANGED <<funding, reserved, past, faults>>

\* completeAttempts failed: whether a completion landed is not known.
CompleteUnconfirmed(c) ==
  /\ At(c, "complete") /\ Fault
  /\ \/ Holds(c, {"allocating"}) /\ SetClaim(c, "complete")
     \/ UNCHANGED claim
  /\ To(c, "abandon")
  /\ UNCHANGED <<funding, reserved, past>>

\* abandonRun up to its void: the claim turns abandoning under this lease, so
\* that a completion that landed late stands and none lands any more.
Abandon(c) ==
  /\ At(c, "abandon")
  /\ CASE Holds(c, {"allocating"}) ->
            SetClaim(c, "abandoning") /\ Begin(c, "void_run", OwnRun(c))
       [] Holds(c, {"complete"}) -> Return(c) /\ UNCHANGED claim
       [] OTHER -> Begin(c, "void_lost", OwnRun(c)) /\ UNCHANGED claim
  /\ UNCHANGED <<funding, reserved, past, faults>>

\* ReleaseHeld, then the answer.
ReleaseHeld(c) ==
  /\ At(c, "release")
  /\ IF Holds(c, {"allocating", "abandoning"})
       THEN claim' = [claim EXCEPT ![call[c].req] = NoClaim] ELSE UNCHANGED claim
  /\ Return(c)
  /\ UNCHANGED <<funding, reserved, past, faults>>

------------------------------------------------------------------------------
(* ReleaseForRequest *)

\* What is recorded for the request when it is read. The loans service asks
\* for it when a loan is cancelled, and again for a cancel that is repeated:
\* nothing keeps two releases apart, nor a release and an allocation.
StartRelease(c, r) ==
  /\ At(c, "new")
  /\ given' = given \union {f[1] : f \in ActiveFor(r)}
  /\ call' = [call EXCEPT ![c].req = r, ![c].pc = "void_cancel",
                          ![c].todo = ActiveFor(r)]
  /\ UNCHANGED <<claim, funding, reserved, unseen, overtaken, robbed, broken, faults>>

\* Release: the claim is dropped whoever holds it, and though it completed
\* after this release read the fundings.
DropClaim(c) ==
  LET k == claim[call[c].req] IN
  /\ At(c, "drop")
  /\ claim' = [claim EXCEPT ![call[c].req] = NoClaim]
  /\ overtaken' = overtaken \union
       (IF k.st = "complete" /\ k.by \in unseen THEN {k.by} ELSE {})
  /\ Return(c)
  /\ UNCHANGED <<funding, reserved, given, unseen, robbed, broken, faults>>

------------------------------------------------------------------------------
(* voidActiveFundings, wherever it is called *)

Voiding == {"void_old", "undo_conflict", "undo_error", "void_run", "void_lost",
            "void_cancel"}

\* VoidAndRelease: one funding, in one transaction; one somebody else voided
\* is passed over.
VoidAndRelease(c) ==
  /\ \E pc \in Voiding : At(c, pc)
  /\ \E f \in call[c].todo :
       /\ funding' = [funding EXCEPT ![f] = Nothing]
       /\ GiveBack(f)
       /\ robbed' = IF At(c, "void_old") /\ ~Holds(c, {"allocating"})
                      /\ funding[f].st # "none"
                     THEN robbed \union {f[1]} ELSE robbed
       /\ call' = [call EXCEPT ![c].todo = @ \ {f}]
  /\ UNCHANGED <<claim, given, unseen, overtaken, broken, faults>>

\* What follows once all are voided.
Voided(c) ==
  /\ call[c].todo = {}
  /\ \/ At(c, "void_old") /\ To(c, "plan")
     \/ /\ At(c, "undo_conflict")
        /\ IF call[c].attempt < MaxAttempts
             THEN call' = [call EXCEPT ![c].pc = "plan", ![c].attempt = @ + 1,
                                       ![c].plan = [s \in Sources |-> 0]]
             ELSE To(c, "release")
     \/ At(c, "undo_error") /\ To(c, "release")
     \/ At(c, "void_run") /\ To(c, "release")
     \/ At(c, "void_lost") /\ Return(c)
     \/ At(c, "void_cancel") /\ To(c, "drop")
  /\ UNCHANGED <<claim, funding, reserved, past, faults>>

\* A void that fails: a run that is not given back is not retried, and its
\* claim is dropped unless it is abandoning or in other hands.
VoidFails(c) ==
  /\ call[c].todo # {} /\ Fault
  /\ \/ \E pc \in {"void_old", "undo_conflict", "undo_error"} :
          At(c, pc) /\ call' = [call EXCEPT ![c].pc = "release", ![c].todo = {}]
     \/ \E pc \in {"void_run", "void_lost", "void_cancel"} : At(c, pc) /\ Return(c)
  /\ broken' = broken \union {f[1] : f \in call[c].todo}
  /\ UNCHANGED <<claim, funding, reserved, given, unseen, overtaken, robbed>>

\* The process dies, or a read or write of the database fails and the call
\* returns with nothing given back.
Die(c) ==
  /\ call[c].pc \notin {"new", "over"} /\ Fault
  /\ broken' = broken \union {c} \union {f[1] : f \in call[c].todo}
  /\ Return(c)
  /\ UNCHANGED <<claim, funding, reserved, given, unseen, overtaken, robbed>>

------------------------------------------------------------------------------
Step(c) ==
  \/ \E r \in Requests : Claim(c, r) \/ StartRelease(c, r)
  \/ ReadLeftovers(c) \/ Plan(c) \/ WriteFunding(c) \/ ReserveAndActivate(c)
  \/ PersistFails(c) \/ Written(c) \/ Complete(c) \/ CompleteUnconfirmed(c)
  \/ Abandon(c) \/ ReleaseHeld(c) \/ DropClaim(c)
  \/ VoidAndRelease(c) \/ Voided(c) \/ VoidFails(c) \/ Die(c)

Next == \E c \in Calls : Step(c)
Spec == Init /\ [][Next]_vars

------------------------------------------------------------------------------
(* Properties *)

Pcs == {"new", "over", "leftovers", "plan", "write", "reserve", "complete",
        "abandon", "release", "drop"} \union Voiding

\* Rows and calls are well typed, and no investor is lent beyond the balance.
TypeOK ==
  /\ claim \in [Requests -> [st : {"none", "allocating", "abandoning", "complete"},
                             by : Calls \union {0}]]
  /\ \A f \in Fundings : funding[f].st \in {"none", "pending", "active"}
  /\ \A i \in Investors : reserved[i] \in 0..Balance[i]
  /\ \A c \in Calls : call[c].pc \in Pcs /\ call[c].todo \subseteq Fundings
  /\ overtaken \union broken \subseteq Calls /\ faults \in 0..MaxFaults

Lent(fs) == Total([f \in Fundings |-> funding[f].amt], fs)

\* funding_allocation.go:436-438, loan_funding_repo.go:80-97: whatever is
\* reserved, voided, taken over or retried, an account holds exactly the
\* capital of its active tranches, so each reservation is given back once.
ReservedIsActive ==
  /\ TypeOK
  /\ \A i \in Investors :
       reserved[i] = Lent({f \in Fundings : f[3] = i /\ funding[f].st = "active"})

\* funding_allocation.go:182-184: what a complete claim answers for stands:
\* the run that completed it covers the loan, every tranche with its capital,
\* until a release that read any of it gives that back. No short or unfinished
\* run completes it, and none but a call still at its leftovers voids any of it.
CompletedIsFunded ==
  \A r \in Requests :
    claim[r].st = "complete" /\ claim[r].by \notin given \union robbed =>
      LET run == {f \in Fundings : f[1] = claim[r].by}
      IN /\ Lent(run) = Loan[r]
         /\ \A f \in run : funding[f].st # "pending"

\* funding_allocation.go:187-194, :280-286: capital is tied up only behind a
\* complete claim, or by a call still under way, which voids what it wrote if it
\* lost its lease or a release dropped its claim. Capital that nobody answers for
\* is left by a fault, or by a release that an allocation overtook: it drops the
\* complete claim of a run some of which was written after it had read what there
\* is to void (:1049-1059).
NothingIsLeftBehind ==
  \A f \in Fundings :
    funding[f].st # "none" =>
      \/ f[1] \in broken \union overtaken
      \/ call[f[1]].pc # "over"
      \/ LET k == claim[call[f[1]].req] IN k.st = "complete" /\ k.by = f[1]
=============================================================================
