--------------------------- MODULE LimitsApproval ---------------------------
(***************************************************************************)
(* Maker-checker approval of one reservation (apps/limits): the requests   *)
(* Reserve writes with a hold that needs approval, the Decide RPC, the     *)
(* Release RPC that cascades over the requests, and the approval reaper.   *)
(*                                                                         *)
(* Each of them is a READ COMMITTED transaction that updates the request   *)
(* rows and the reservation row, waits for the row locks others hold, and  *)
(* shows its writes only when it commits.  Decide and the reaper lock a    *)
(* request before the reservation, Release the reservation before its      *)
(* requests, so PostgreSQL's deadlock detector is part of the system.      *)
(* Decide reads the peers of its request on another connection.  Requests  *)
(* and the hold share one deadline, so the clock is just "late".           *)
(***************************************************************************)
EXTENDS Integers, FiniteSets

CONSTANTS
  Requests,       \* approval requests of the reservation, one per tier breached
  Users,          \* callers holding the required role
  Maker,          \* the user who asked for the reservation
  Required,       \* approvers each request needs
  Deciders,       \* Decide RPCs, each issued once
  Releasers,      \* Release RPCs, each issued once
  Reapers,        \* replicas running the approval reaper
  MaxFaults,      \* bound on transactions lost to a crash or a failed statement
  Resv, NoProc, NoRequest

ASSUME RequestsAssumption ==
  /\ IsFiniteSet(Requests) /\ Requests # {}
  /\ Resv \notin Requests /\ NoRequest \notin Requests
ASSUME RequiredAssumption == Required \in [Requests -> Nat \ {0}]
ASSUME UsersAssumption == IsFiniteSet(Users) /\ Maker \in Users
ASSUME ProcsAssumption ==
  /\ Deciders \intersect Releasers = {}
  /\ (Deciders \union Releasers) \intersect Reapers = {}
  /\ NoProc \notin Deciders \union Releasers \union Reapers
ASSUME FaultsAssumption == MaxFaults \in Nat

VARIABLES
  hold,      \* status of the reservation
  req,       \* status of each request
  votes,     \* decisions recorded for each request
  late,      \* the shared deadline has passed
  at, job,   \* where each transaction is and what it works on
  row,       \* the transaction holding each row lock
  faults

approvalVars == <<hold, req, votes, late, at, job, row, faults>>
data == <<hold, req, votes, late>>

Procs   == Deciders \union Releasers \union Reapers
HoldOpen == {"active", "pending_approval"}
Refused == {"rejected", "expired", "auto_rejected_on_recheck"}
-----------------------------------------------------------------------------
NoJob == [q |-> NoRequest, by |-> Maker, decision |-> "none",
          outcome |-> "none", todo |-> {}]
Vote(p) == [by |-> job[p].by, decision |-> job[p].decision]

VotesOf(q, d) == {v \in Users : [by |-> v, decision |-> d] \in votes[q]}
Approvers(q)  == VotesOf(q, "approve")
Rejecters(q)  == VotesOf(q, "reject")

ApprovalInit ==
  /\ hold = "none"
  /\ req = [q \in Requests |-> "pending"]
  /\ votes = [q \in Requests |-> {}]
  /\ late = FALSE
  /\ at = [p \in Procs |-> "idle"]
  /\ job = [p \in Procs |-> NoJob]
  /\ row = [x \in Requests \union {Resv} |-> NoProc]
  /\ faults = 0

\* The transaction ends and its row locks go.  A reaper starts over.
End(p) ==
  /\ at' = [at EXCEPT ![p] = IF p \in Reapers THEN "idle" ELSE "done"]
  /\ job' = [job EXCEPT ![p] = NoJob]
  /\ row' = [x \in Requests \union {Resv} |-> IF row[x] = p THEN NoProc ELSE row[x]]

Rollback(p) == End(p) /\ UNCHANGED <<data, faults>>

ReleasedFrom(s) == IF s \in HoldOpen THEN "released" ELSE s

-----------------------------------------------------------------------------
\* Reserve, steps 11-13: the hold and its requests land together.
Reserve ==
  /\ hold = "none"
  /\ hold' = "pending_approval"
  /\ UNCHANGED <<req, votes, late, at, job, row, faults>>

\* Decide: the checks made before the transaction.
DecideCheck(p) ==
  /\ at[p] = "idle"
  /\ hold # "none"
  /\ ~late
  /\ \E q \in Requests, v \in Users \ {Maker}, d \in {"approve", "reject"} :
       /\ req[q] = "pending"
       /\ job' = [job EXCEPT ![p] = [NoJob EXCEPT !.q = q, !.by = v, !.decision = d]]
  /\ at' = [at EXCEPT ![p] = "checked"]
  /\ UNCHANGED <<data, row, faults>>

\* lockPending and the unique index on (request, approver).
Votable(p) ==
  /\ req[job[p].q] = "pending"
  /\ job[p].by \notin Approvers(job[p].q) \union Rejecters(job[p].q)

Quorum(p) ==
  Cardinality(Approvers(job[p].q) \union {job[p].by}) >= Required[job[p].q]

DecideRefused(p) ==
  /\ at[p] = "checked"
  /\ row[job[p].q] = NoProc
  /\ ~Votable(p)
  /\ Rollback(p)

\* An approval short of the quorum commits as soon as it is recorded.
DecideVote(p) ==
  /\ at[p] = "checked"
  /\ row[job[p].q] = NoProc
  /\ Votable(p) /\ job[p].decision = "approve" /\ ~Quorum(p)
  /\ votes' = [votes EXCEPT ![job[p].q] = @ \union {Vote(p)}]
  /\ End(p)
  /\ UNCHANGED <<hold, req, late, faults>>

\* Mutant: the status read before the transaction is trusted.
LockUnchecked(p) ==
  /\ at[p] = "checked"
  /\ row[job[p].q] = NoProc
  /\ job[p].decision = "approve" => Quorum(p)
  /\ row' = [row EXCEPT ![job[p].q] = p]
  /\ at' = [at EXCEPT ![p] = IF job[p].decision = "approve" THEN "quorum" ELSE "ruled"]
  /\ job' = [job EXCEPT ![p].outcome =
               IF job[p].decision = "approve" THEN "none" ELSE "rejected"]
  /\ UNCHANGED <<data, faults>>

\* Mutant: the request is read without FOR UPDATE.
ReadUnlocked(p) ==
  /\ at[p] = "checked"
  /\ row[job[p].q] = NoProc
  /\ Votable(p)
  /\ job[p].decision = "approve" => Quorum(p)
  /\ at' = [at EXCEPT ![p] = IF job[p].decision = "approve" THEN "quorum" ELSE "ruled"]
  /\ job' = [job EXCEPT ![p].outcome =
               IF job[p].decision = "approve" THEN "none" ELSE "rejected"]
  /\ UNCHANGED <<data, row, faults>>

\* A rejection, or the approval that completes the quorum, goes on with the
\* request row locked.
DecideLock(p) ==
  /\ at[p] = "checked"
  /\ row[job[p].q] = NoProc
  /\ Votable(p)
  /\ job[p].decision = "approve" => Quorum(p)
  /\ row' = [row EXCEPT ![job[p].q] = p]
  /\ at' = [at EXCEPT ![p] = IF job[p].decision = "approve" THEN "quorum" ELSE "ruled"]
  /\ job' = [job EXCEPT ![p].outcome =
               IF job[p].decision = "approve" THEN "none" ELSE "rejected"]
  /\ UNCHANGED <<data, faults>>

\* Mutant: any one quorum activates the hold.
FirstQuorumWins(p) == TRUE

\* What the peers looked like on the other connection.
PeersApproved(p) == \A q \in Requests \ {job[p].q} : req[q] = "approved"

\* The peers are read and their policies evaluated again; the policies may
\* have been edited since, so any verdict is possible.
ReadPeers(p) ==
  /\ at[p] = "quorum"
  /\ \E verdict \in {"holds", "breaches"} :
       job' = [job EXCEPT ![p].outcome =
                 CASE verdict = "breaches" -> "auto_rejected_on_recheck"
                   [] PeersApproved(p)     -> "activate"
                   [] OTHER                -> "approved"]
  /\ at' = [at EXCEPT ![p] = "ruled"]
  /\ UNCHANGED <<data, row, faults>>

Settle(p, status) ==
  /\ req' = [req EXCEPT ![job[p].q] = status]
  /\ votes' = [votes EXCEPT ![job[p].q] = @ \union {Vote(p)}]
  /\ End(p)
  /\ UNCHANGED <<late, faults>>

\* Approved, with peers still open when they were read.
DecideApproved(p) ==
  /\ at[p] = "ruled" /\ job[p].outcome = "approved"
  /\ Settle(p, "approved")
  /\ UNCHANGED hold

\* Approved as the last one: SetActive fails, and the vote with it, when the
\* hold is no longer waiting.
DecideActivate(p) ==
  /\ at[p] = "ruled" /\ job[p].outcome = "activate"
  /\ row[Resv] = NoProc
  /\ IF hold = "pending_approval"
     THEN hold' = "active" /\ Settle(p, "approved")
     ELSE Rollback(p)

\* Mutant: a rejection leaves the hold to its deadline.
RejectOnly(p) ==
  /\ at[p] = "ruled" /\ job[p].outcome \in Refused
  /\ row[Resv] = NoProc
  /\ UNCHANGED hold
  /\ Settle(p, job[p].outcome)

\* Rejected by the approver or by the recheck: the hold is released, and an
\* already terminal one is tolerated.
DecideReject(p) ==
  /\ at[p] = "ruled" /\ job[p].outcome \in Refused
  /\ row[Resv] = NoProc
  /\ hold' = ReleasedFrom(hold)
  /\ Settle(p, job[p].outcome)

-----------------------------------------------------------------------------
\* Release: the reservation row is updated first and stays locked.
ReleaseBegin(p) ==
  /\ at[p] = "idle"
  /\ hold \in HoldOpen
  /\ row[Resv] = NoProc
  /\ row' = [row EXCEPT ![Resv] = p]
  /\ at' = [at EXCEPT ![p] = "released"]
  /\ UNCHANGED <<data, job, faults>>

\* The requests to cancel are listed on another connection.
ReleaseList(p) ==
  /\ at[p] = "released"
  /\ job' = [job EXCEPT ![p].todo = {q \in Requests : req[q] = "pending"}]
  /\ at' = [at EXCEPT ![p] = "cancel"]
  /\ UNCHANGED <<data, row, faults>>

\* One request that was settled meanwhile fails the whole Release.
ReleaseCancel(p) ==
  /\ at[p] = "cancel"
  /\ \E q \in job[p].todo :
       /\ row[q] = NoProc
       /\ IF req[q] = "pending"
          THEN /\ row' = [row EXCEPT ![q] = p]
               /\ job' = [job EXCEPT ![p].todo = @ \ {q}]
               /\ UNCHANGED <<data, at, faults>>
          ELSE Rollback(p)

ReleaseCommit(p) ==
  /\ at[p] = "cancel" /\ job[p].todo = {}
  /\ hold' = "released"
  /\ req' = [q \in Requests |-> IF row[q] = p THEN "rejected" ELSE req[q]]
  /\ End(p)
  /\ UNCHANGED <<votes, late, faults>>

-----------------------------------------------------------------------------
\* The approval reaper lists the late requests, then settles each in a
\* transaction of its own.
ReapList(p) ==
  /\ at[p] = "idle"
  /\ hold # "none" /\ late
  /\ \E q \in Requests : req[q] = "pending"
  /\ job' = [job EXCEPT ![p].todo = {q \in Requests : req[q] = "pending"}]
  /\ at' = [at EXCEPT ![p] = "reaping"]
  /\ UNCHANGED <<data, row, faults>>

\* After a row, whatever became of it, the batch goes on.
NextInBatch(p) ==
  /\ at' = [at EXCEPT ![p] = IF job[p].todo = {} THEN "idle" ELSE "reaping"]
  /\ job' = [job EXCEPT ![p] = [NoJob EXCEPT !.todo = job[p].todo]]
  /\ row' = [x \in Requests \union {Resv} |-> IF row[x] = p THEN NoProc ELSE row[x]]

\* The guarded UPDATE of one listed request takes its row, or finds it settled.
ReapLock(p) ==
  /\ at[p] = "reaping"
  /\ \E q \in job[p].todo :
       /\ row[q] = NoProc
       /\ job' = [job EXCEPT ![p].q = q, ![p].todo = @ \ {q}]
       /\ IF req[q] = "pending"
          THEN row' = [row EXCEPT ![q] = p] /\ at' = [at EXCEPT ![p] = "expiring"]
          ELSE UNCHANGED row /\ at' = [at EXCEPT ![p] =
                 IF job[p].todo = {q} THEN "idle" ELSE "reaping"]
  /\ UNCHANGED <<data, faults>>

\* Mutant: a pass leaves alone the requests somebody has voted on.
ReapUnvoted(p) ==
  /\ at[p] = "expiring"
  /\ row[Resv] = NoProc
  /\ IF votes[job[p].q] = {}
     THEN /\ req' = [req EXCEPT ![job[p].q] = "expired"]
          /\ hold' = ReleasedFrom(hold)
     ELSE UNCHANGED <<req, hold>>
  /\ NextInBatch(p)
  /\ UNCHANGED <<votes, late, faults>>

\* expireOne: the request expires and the hold is released with it.
ReapExpire(p) ==
  /\ at[p] = "expiring"
  /\ row[Resv] = NoProc
  /\ req' = [req EXCEPT ![job[p].q] = "expired"]
  /\ hold' = ReleasedFrom(hold)
  /\ NextInBatch(p)
  /\ UNCHANGED <<votes, late, faults>>

-----------------------------------------------------------------------------
\* The row lock a transaction is waiting for.
WaitsFor(p, x) ==
  \/ at[p] = "ruled" /\ job[p].outcome # "approved" /\ x = Resv
  \/ at[p] = "expiring" /\ x = Resv
  \/ at[p] = "cancel" /\ x \in job[p].todo

Abort(p) ==
  /\ IF p \in Reapers /\ at[p] = "expiring" THEN NextInBatch(p) ELSE End(p)
  /\ UNCHANGED data

\* PostgreSQL aborts one of two transactions that wait for each other.
DeadlockAbort(p) ==
  /\ \E o \in Procs, x, y \in Requests \union {Resv} :
       /\ WaitsFor(p, x) /\ row[x] = o
       /\ WaitsFor(o, y) /\ row[y] = p
  /\ Abort(p)
  /\ UNCHANGED faults

\* A statement fails, a process dies, or a caller gives up.
Fault(p) ==
  /\ at[p] \notin {"idle", "done"}
  /\ faults < MaxFaults
  /\ faults' = faults + 1
  /\ Abort(p)

\* Mutant: Commit does not ask for the approvals.
CommitUnapproved ==
  /\ hold \in HoldOpen
  /\ row[Resv] = NoProc
  /\ hold' = "committed"
  /\ UNCHANGED <<req, votes, late, at, job, row, faults>>

\* Afterwards: an active hold is committed by its caller or, once late,
\* expired by the reservation reaper.
CommitOrExpire ==
  /\ hold = "active"
  /\ row[Resv] = NoProc
  /\ hold' \in {"committed"} \union (IF late THEN {"expired"} ELSE {})
  /\ UNCHANGED <<req, votes, late, at, job, row, faults>>

Deadline ==
  /\ ~late
  /\ late' = TRUE
  /\ UNCHANGED <<hold, req, votes, at, job, row, faults>>

DecideStep(p) ==
  \/ DecideRefused(p) \/ DecideVote(p) \/ DecideLock(p) \/ ReadPeers(p)
  \/ DecideApproved(p) \/ DecideActivate(p) \/ DecideReject(p)
ReleaseStep(p) == ReleaseList(p) \/ ReleaseCancel(p) \/ ReleaseCommit(p)
ReapStep(p) == ReapList(p) \/ ReapLock(p) \/ ReapExpire(p)

ApprovalNext ==
  \/ Reserve \/ CommitOrExpire \/ Deadline
  \/ \E p \in Deciders : DecideCheck(p) \/ DecideStep(p)
  \/ \E p \in Releasers : ReleaseBegin(p) \/ ReleaseStep(p)
  \/ \E p \in Reapers : ReapStep(p)
  \/ \E p \in Procs : DeadlockAbort(p) \/ Fault(p)

ApprovalSpec == ApprovalInit /\ [][ApprovalNext]_approvalVars

\* A running transaction goes on and the reaper is scheduled periodically.
\* PostgreSQL breaks deadlocks and queues the waiters of a row, so that one is
\* not overtaken for ever: strong fairness.  Nobody has to call Decide or
\* Release.
ApprovalFairness ==
  /\ \A p \in Deciders : SF_approvalVars(DecideStep(p))
  /\ \A p \in Releasers : SF_approvalVars(ReleaseStep(p))
  /\ \A p \in Reapers : SF_approvalVars(ReapStep(p))
  /\ \A p \in Procs : WF_approvalVars(DeadlockAbort(p))

ApprovalFairSpec == ApprovalSpec /\ ApprovalFairness

-----------------------------------------------------------------------------
(* Properties *)

Job ==
  [q : Requests \union {NoRequest}, by : Users,
   decision : {"none", "approve", "reject"},
   outcome : Refused \union {"none", "approved", "activate"},
   todo : SUBSET Requests]

Types ==
  /\ hold \in HoldOpen \union {"none", "committed", "released", "expired"}
  /\ req \in [Requests -> Refused \union {"pending", "approved"}]
  /\ votes \in [Requests ->
       SUBSET [by : Users, decision : {"none", "approve", "reject"}]]
  /\ late \in BOOLEAN
  /\ at \in [Procs -> {"idle", "checked", "quorum", "ruled", "released",
                       "cancel", "reaping", "expiring", "done"}]
  /\ job \in [Procs -> Job]
  /\ row \in [Requests \union {Resv} -> Procs \union {NoProc}]
  /\ faults \in 0..MaxFaults

\* A transaction at work on a request holds its row.
ApprovalTypeOK ==
  /\ Types
  /\ \A p \in Procs : at[p] \in {"quorum", "ruled", "expiring"} =>
       job[p].q \in Requests /\ row[job[p].q] = p

\* A hold that needed approval becomes usable only when every request has its
\* quorum of distinct approvers, none of them the maker and none of whom also
\* rejected it, however the decisions, a Release and the reaper interleave.
UsableOnlyWhenApproved ==
  hold \in {"active", "committed", "expired"} =>
    \A q \in Requests :
      /\ req[q] = "approved"
      /\ Cardinality(Approvers(q)) >= Required[q]
      /\ Maker \notin Approvers(q)
      /\ Rejecters(q) = {}

\* A refused request and the hold it gates never disagree: the reservation
\* cannot still hold space, let alone be used.
RefusalReleases ==
  (\E q \in Requests : req[q] \in Refused) => hold = "released"

\* A settled request stays as it was settled: of a decision, a Release and the
\* reaper that race for it exactly one wins, and no later vote is added.
DecisionsStand ==
  [][\A q \in Requests :
       req[q] # "pending" => req'[q] = req[q] /\ votes'[q] = votes[q]]_approvalVars

\* A late request does not stay pending for ever.
LateRequestSettles ==
  \A q \in Requests :
    hold # "none" /\ late /\ req[q] = "pending" ~> req[q] # "pending"

\* The reservation follows the lifecycle: it is never shadow, since an
\* enforced policy asked for approval.
Life == INSTANCE ReservationLifecycle WITH
       Ids     <- {Resv},
       status  <- [r \in {Resv} |-> hold],
       counted <- IF hold = "committed" THEN {Resv} ELSE {}
HoldFollowsLifecycle == Life!Spec
=============================================================================
