-------------------------- MODULE LimitsReservation --------------------------
(***************************************************************************)
(* The runtime path of the limits service (apps/limits): Reserve, Commit,  *)
(* Release and Reverse over limits_reservations and limits_ledger, the     *)
(* policy evaluator, the per-subject advisory locks, the TTL reaper and    *)
(* archival.                                                               *)
(*                                                                         *)
(* Reserve is one READ COMMITTED transaction made of separate statements,  *)
(* so it is a process with a step per statement whose position matters:    *)
(* the idempotency lookup, each lock, the ledger sum and the pending sum   *)
(* of each rolling policy, and the insert.  The other operations read a    *)
(* row and then change it under a guard on its status inside one           *)
(* transaction; nothing they read earlier survives the guard, so each is   *)
(* one step.  A subject stands for (subject type, id, action, currency)    *)
(* and is numbered by its advisory-lock key.                               *)
(***************************************************************************)
EXTENDS Integers, FiniteSets

CONSTANTS
  Ids,            \* ids of reservation rows
  Keys,           \* idempotency keys of one tenant
  Calls,          \* Reserve RPCs, each issued once
  Subjects,       \* advisory-lock keys of the subjects
  Policies,       \* live policies
  Intents,        \* intents with the policies that resolve for them
  MaxAmount,      \* largest amount of an intent, in minor units
  ActiveTTL,      \* lifetime of an active hold
  ApprovalTTL,    \* lifetime of a hold waiting for approval
  ResvRetain,     \* retention of terminal reservations
  LedgerRetain,   \* configured retention of ledger entries
  WindowSlack,    \* ledgerWindowSlack
  MaxTime,        \* bound on the clock
  NoId, NoCall, NoPolicy

Kinds == {"per_txn_min", "per_txn_max",
          "rolling_window_amount", "rolling_window_count"}

Policy ==
  [kind : Kinds, mode : {"enforce", "shadow"}, subject : Subjects, value : Nat,
   window : Nat, tiers : SUBSET Nat, anyCurrency : BOOLEAN, filtered : BOOLEAN]

Intent ==
  [amount : 0..MaxAmount, subjects : SUBSET Subjects, policies : SUBSET Policies]

ASSUME SubjectsAssumption == Subjects \subseteq Nat
ASSUME TimesAssumption ==
  /\ ActiveTTL \in Nat /\ ApprovalTTL \in Nat /\ ResvRetain \in Nat
  /\ LedgerRetain \in Nat /\ WindowSlack \in Nat /\ MaxTime \in Nat
ASSUME AmountAssumption == MaxAmount \in Nat \ {0}
ASSUME PoliciesAssumption == Policies \subseteq Policy /\ IsFiniteSet(Policies)
ASSUME IntentsAssumption ==
  /\ Intents \subseteq Intent
  /\ \A i \in Intents : \A p \in i.policies : p.subject \in i.subjects
ASSUME IdsAssumption == IsFiniteSet(Ids) /\ NoId \notin Ids
ASSUME CallsAssumption == IsFiniteSet(Calls) /\ NoCall \notin Calls

VARIABLES
  now,       \* the clock
  resv,      \* limits_reservations
  ledger,    \* limits_ledger: the entries of each reservation
  pc,        \* where each Reserve RPC is
  tx,        \* what its transaction has read and decided so far
  reply,     \* what it answered
  lock,      \* holder of each advisory lock
  reaping,   \* rows the TTL reaper has listed and not yet updated
  breakers   \* history: interleavings seen that can push usage over a cap

vars == <<now, resv, ledger, pc, tx, reply, lock, reaping, breakers>>
rpc  == <<pc, tx, reply>>
-----------------------------------------------------------------------------
NoRow   == [status |-> "none"]
Holding == {"active", "pending_approval"}
Terminal == {"committed", "released", "reversed", "expired"}

Row ==
  [status : Holding \union Terminal \union {"archived"}, key : Keys,
   intent : Intents, policies : SUBSET Policies, ttl : Nat, reservedAt : Nat,
   modifiedAt : Nat, shadow : BOOLEAN, reverses : Ids \union {NoId}]

\* The rows the database still has.
Stored == {r \in Ids : resv[r].status \notin {"none", "archived"}}
Unborn == {r \in Ids : resv[r].status = "none"}
Keyed(k) == {r \in Stored : resv[r].key = k}
NewId == CHOOSE r \in Unborn : TRUE

\* Rolling kinds read the ledger and the pending holds; the others do not.
Rolling(p) == p.kind \in {"rolling_window_amount", "rolling_window_count"}

\* What one reservation weighs against a policy: its amount, or one.
Weight(p, i) == IF p.kind = "rolling_window_count" THEN 1 ELSE i.amount
Units(p, S) ==
  {x \in S \X (1..MaxAmount) : x[2] <= Weight(p, resv[x[1]].intent)}
Measure(p, S) == Cardinality(Units(p, S))

\* Rows and entries carry the intent's currency, a currency-agnostic policy
\* the empty one: the sums compare them for equality.
Counts(p, r) == ~p.anyCurrency /\ p.subject \in resv[r].intent.subjects

\* WindowSum and WindowCount.
LedgerSet(p) ==
  {r \in Ids : /\ ledger[r].state = "live"
               /\ Counts(p, r)
               /\ ledger[r].at >= now - p.window}

\* PendingSum (holds whose TTL is in the future) and PendingCount (holds
\* reserved within the window, whatever their TTL).
PendingSet(p) ==
  {r \in Ids : /\ resv[r].status \in Holding
               /\ Counts(p, r)
               /\ IF p.kind = "rolling_window_count"
                  THEN resv[r].reservedAt >= now - p.window
                  ELSE resv[r].ttl > now}

-----------------------------------------------------------------------------
\* approverTiersCover: a tier with up_to 0 covers every amount.
TiersCover(p, i) == \E u \in p.tiers : u = 0 \/ i.amount <= u

Exceeds(p, i, usage) ==
  CASE p.kind = "per_txn_min" -> i.amount < p.value
    [] p.kind = "per_txn_max" -> i.amount > p.value
    [] OTHER -> usage + Weight(p, i) > p.value

NeedsApproval(p, i, usage) ==
  p.kind # "per_txn_min" /\ Exceeds(p, i, usage) /\ TiersCover(p, i)

Breaches(p, i, usage) ==
  Exceeds(p, i, usage) /\ ~NeedsApproval(p, i, usage)

Enforced(S) == {p \in S : p.mode = "enforce"}

\* Mutant: only the count caps are locked.
CountLockSubjects(P) ==
  {p.subject : p \in {q \in P : q.kind = "rolling_window_count"}}

\* Subjects whose advisory lock a Reserve takes: rolling policies only.
LockSubjects(P) == {p.subject : p \in {q \in P : Rolling(q)}}

-----------------------------------------------------------------------------
\* The part of a Reserve transaction that lives in the handler.
Tx ==
  [key : Keys, intent : Intents, policies : SUBSET Policies,
   unresolved : BOOLEAN, need : SUBSET Subjects, todo : SUBSET Policies,
   cur : Policies \union {NoPolicy}, base : Nat, breached : SUBSET Policies,
   approving : SUBSET Policies]
NoTx    == [key |-> "none"]
NoReply == [out |-> "none"]

Reply ==
  [out : {"granted", "replay", "collision", "duplicate", "denied", "error"},
   key : Keys, intent : Intents, id : Ids \union {NoId}]

InFlight == {c \in Calls : pc[c] \in {"locking", "eval", "pending"}}

Init ==
  /\ now = 0
  /\ resv = [r \in Ids |-> NoRow]
  /\ ledger = [r \in Ids |-> [state |-> "none", at |-> 0]]
  /\ pc = [c \in Calls |-> "idle"]
  /\ tx = [c \in Calls |-> NoTx]
  /\ reply = [c \in Calls |-> NoReply]
  /\ lock = [s \in Subjects |-> NoCall]
  /\ reaping = {}
  /\ breakers = {}

\* The RPC ends: its transaction commits or rolls back and the advisory locks
\* go with it.
Answer(c, out, k, i, r) ==
  /\ pc' = [pc EXCEPT ![c] = "done"]
  /\ tx' = [tx EXCEPT ![c] = NoTx]
  /\ reply' = [reply EXCEPT
                 ![c] = [out |-> out, key |-> k, intent |-> i, id |-> r]]
  /\ lock' = [s \in Subjects |-> IF lock[s] = c THEN NoCall ELSE lock[s]]

AnswerTx(c, out, r) == Answer(c, out, tx[c].key, tx[c].intent, r)

\* Bound: a call starts, and a Reverse runs, only while every call in flight
\* still has an id to insert with.
IdsLeft == Cardinality(InFlight) < Cardinality(Unborn)

\* Steps 2 and 6: what the transaction starts from.  Per-transaction limits
\* need no read, so their verdicts are there at once.
FreshTx(k, i, app, unresolved) ==
  LET flat == {p \in app : ~Rolling(p)}
  IN [key |-> k, intent |-> i, policies |-> app, unresolved |-> unresolved,
      need |-> LockSubjects(app), todo |-> app \ flat, cur |-> NoPolicy,
      base |-> 0, breached |-> {p \in flat : Breaches(p, i, 0)},
      approving |-> {p \in flat : NeedsApproval(p, i, 0)}]

\* The idempotency short-circuit compares the intent of the stored row.
ReserveReplay(c, k, i) ==
  \E r \in Keyed(k) :
    Answer(c, IF resv[r].intent = i THEN "replay" ELSE "collision", k, i, r)

\* The candidates whose attribute predicate matches apply.  A filtered policy
\* may not match, and when its attributes cannot be resolved an enforced one
\* counts as breached.
ReserveBegin(c, k, i) ==
  /\ Keyed(k) = {}
  /\ \E app \in SUBSET i.policies, unresolved \in BOOLEAN :
       /\ \A p \in i.policies \ app : p.filtered
       /\ unresolved => Enforced(i.policies \ app) # {}
       /\ tx' = [tx EXCEPT ![c] = FreshTx(k, i, app, unresolved)]
       /\ pc' = [pc EXCEPT ![c] =
                  IF LockSubjects(app) = {} THEN "eval" ELSE "locking"]
  /\ UNCHANGED <<reply, lock>>

\* Reserve steps 1-6.
ReserveLookup(c) ==
  /\ pc[c] = "idle"
  /\ IdsLeft
  /\ \E k \in Keys, i \in Intents : ReserveReplay(c, k, i) \/ ReserveBegin(c, k, i)
  /\ UNCHANGED <<now, resv, ledger, reaping, breakers>>

\* Mutant: the locks are taken in the order the intent lists its subjects.
UnsortedNextLock(c) ==
  CHOOSE s \in tx[c].need :
    \A u \in tx[c].need : IF tx[c].intent.amount = 1 THEN s <= u ELSE s >= u

\* LockKeys sorts, so every transaction takes its locks in the same order.
NextLock(c) == CHOOSE s \in tx[c].need : \A u \in tx[c].need : s <= u

\* Step 7: pg_advisory_xact_lock blocks while another transaction holds it.
ReserveLock(c) ==
  /\ pc[c] = "locking"
  /\ lock[NextLock(c)] = NoCall
  /\ lock' = [lock EXCEPT ![NextLock(c)] = c]
  /\ tx' = [tx EXCEPT ![c].need = @ \ {NextLock(c)}]
  /\ pc' = [pc EXCEPT ![c] =
             IF tx[c].need = {NextLock(c)} THEN "eval" ELSE "locking"]
  /\ UNCHANGED <<now, resv, ledger, reply, reaping, breakers>>

\* Step 8, first statement: the committed usage of a rolling policy.
ReadLedger(c) ==
  /\ pc[c] = "eval"
  /\ \E p \in tx[c].todo :
       tx' = [tx EXCEPT ![c].cur = p, ![c].base = Measure(p, LedgerSet(p))]
  /\ pc' = [pc EXCEPT ![c] = "pending"]
  /\ UNCHANGED <<now, resv, ledger, reply, lock, reaping, breakers>>

\* Mutant: the evaluation forgets what is already committed.
PendingOnly(c) == Measure(tx[c].cur, PendingSet(tx[c].cur))

\* What a Reserve takes the usage of a policy to be once both sums are read.
UsageRead(c) == tx[c].base + Measure(tx[c].cur, PendingSet(tx[c].cur))

\* Step 9: the verdict on the policy whose sums were read.
Judged(c) ==
  LET p == tx[c].cur
      i == tx[c].intent
  IN [tx[c] EXCEPT
       !.todo = @ \ {p}, !.cur = NoPolicy, !.base = 0,
       !.breached  = IF Breaches(p, i, UsageRead(c)) THEN @ \union {p} ELSE @,
       !.approving = IF NeedsApproval(p, i, UsageRead(c)) THEN @ \union {p} ELSE @]

\* Step 8, second statement: the pending usage, on a snapshot of its own.
ReadPending(c) ==
  /\ pc[c] = "pending"
  /\ tx' = [tx EXCEPT ![c] = Judged(c)]
  /\ pc' = [pc EXCEPT ![c] = "eval"]
  /\ UNCHANGED <<now, resv, ledger, reply, lock, reaping, breakers>>

Evaluated(c)  == pc[c] = "eval" /\ tx[c].todo = {}
HardBreach(c) == tx[c].unresolved \/ Enforced(tx[c].breached) # {}

\* Step 10.
ReserveDeny(c) ==
  /\ Evaluated(c)
  /\ HardBreach(c)
  /\ AnswerTx(c, "denied", NoId)
  /\ UNCHANGED <<now, resv, ledger, reaping, breakers>>

\* Step 11, unique violation on (tenant, idempotency key): the reservation
\* that landed first is returned whatever its intent.
ReserveDuplicate(c) ==
  /\ Evaluated(c)
  /\ ~HardBreach(c)
  /\ \E r \in Keyed(tx[c].key) : AnswerTx(c, "duplicate", r)
  /\ UNCHANGED <<now, resv, ledger, reaping, breakers>>

\* Mutant: the deadline is set in the past.
PastDeadline(c) ==
  [status |-> "active", key |-> tx[c].key, intent |-> tx[c].intent,
   policies |-> tx[c].policies, ttl |-> now - ActiveTTL, reservedAt |-> now,
   modifiedAt |-> now, shadow |-> FALSE, reverses |-> NoId]

\* Mutant: one breached shadow policy switches enforcement off.
AnyShadow(c) ==
  [status |-> IF Enforced(tx[c].approving) # {}
              THEN "pending_approval" ELSE "active",
   key |-> tx[c].key, intent |-> tx[c].intent, policies |-> tx[c].policies,
   ttl |-> now + ActiveTTL, reservedAt |-> now, modifiedAt |-> now,
   shadow |-> tx[c].breached \union tx[c].approving # {}, reverses |-> NoId]

NewRow(c) ==
  LET waits == Enforced(tx[c].approving) # {}
      shadowBreach == tx[c].breached \union tx[c].approving
  IN [status     |-> IF waits THEN "pending_approval" ELSE "active",
      key        |-> tx[c].key,
      intent     |-> tx[c].intent,
      policies   |-> tx[c].policies,
      ttl        |-> now + (IF waits THEN ApprovalTTL ELSE ActiveTTL),
      reservedAt |-> now,
      modifiedAt |-> now,
      shadow     |-> Enforced(tx[c].policies) = {} /\ shadowBreach # {},
      reverses   |-> NoId]

\* Mutant: no unique index on the idempotency key.
InsertAnyway(c) ==
  /\ Evaluated(c)
  /\ ~HardBreach(c)
  /\ Unborn # {}
  /\ resv' = [resv EXCEPT ![NewId] = NewRow(c)]
  /\ AnswerTx(c, "granted", NewId)
  /\ UNCHANGED <<now, ledger, reaping, breakers>>

\* Steps 11-13: the row lands and the locks are released by the COMMIT.
ReserveInsert(c) ==
  /\ Evaluated(c)
  /\ ~HardBreach(c)
  /\ Keyed(tx[c].key) = {}
  /\ Unborn # {}
  /\ resv' = [resv EXCEPT ![NewId] = NewRow(c)]
  /\ AnswerTx(c, "granted", NewId)
  /\ UNCHANGED <<now, ledger, reaping, breakers>>

\* A statement fails, the caller gives up or the process dies: rollback.
ReserveAbort(c) ==
  /\ c \in InFlight
  /\ AnswerTx(c, "error", NoId)
  /\ UNCHANGED <<now, resv, ledger, reaping, breakers>>

-----------------------------------------------------------------------------
Moved(r, status) == [resv[r] EXCEPT !.status = status, !.modifiedAt = now]
SetStatus(r, status) == resv' = [resv EXCEPT ![r] = Moved(r, status)]

\* The two ways a commit escapes the usage an evaluation computes.  "race": it
\* moves the hold to the ledger after some Reserve summed the ledger and
\* before it sums the holds.  "lapse": some rolling policy no longer counted
\* the hold (its TTL or its count window had passed), so space given to others
\* is taken again.
Breakers(r) ==
  {b \in {"race"} : \E c \in Calls :
      pc[c] = "pending" /\ tx[c].cur.subject \in resv[r].intent.subjects}
  \union
  {b \in {"lapse"} : \E p \in resv[r].policies :
      Rolling(p) /\ ~p.anyCurrency /\ r \notin PendingSet(p)}

\* Commit checks the status only, neither the TTL nor the locks; a shadow
\* reservation leaves no ledger entries.
Commit(r) ==
  /\ resv[r].status = "active"
  /\ SetStatus(r, "committed")
  /\ IF resv[r].shadow
     THEN UNCHANGED <<ledger, breakers>>
     ELSE /\ ledger' = [ledger EXCEPT ![r] = [state |-> "live", at |-> now]]
          /\ breakers' = breakers \union Breakers(r)
  /\ UNCHANGED <<now, rpc, lock, reaping>>

\* The last approval (decideApprove): the TTL stays the approval TTL.
Activate(r) ==
  /\ resv[r].status = "pending_approval"
  /\ SetStatus(r, "active")
  /\ UNCHANGED <<now, ledger, rpc, lock, reaping, breakers>>

\* The Release RPC, a rejected approval, or the approval reaper.
Release(r) ==
  /\ resv[r].status \in Holding
  /\ SetStatus(r, "released")
  /\ UNCHANGED <<now, ledger, rpc, lock, reaping, breakers>>

\* The reservation that records the reversal of r.
Trace(r, k) ==
  [resv[r] EXCEPT !.status = "reversed", !.key = k, !.ttl = now,
                  !.reservedAt = now, !.modifiedAt = now, !.reverses = r]

\* Reverse takes the lock of every subject of the original, marks its entries
\* reversed and leaves the trace.
Reverse(r, k) ==
  /\ resv[r].status = "committed"
  /\ \A s \in resv[r].intent.subjects : lock[s] = NoCall
  /\ Keyed(k) = {}
  /\ IdsLeft
  /\ resv' = [resv EXCEPT ![r] = Moved(r, "reversed"), ![NewId] = Trace(r, k)]
  /\ ledger' = [ledger EXCEPT
                  ![r].state = IF @ = "live" THEN "reversed" ELSE @]
  /\ UNCHANGED <<now, rpc, lock, reaping, breakers>>

-----------------------------------------------------------------------------
Lapsed == {r \in Ids : resv[r].status = "active" /\ resv[r].ttl < now}

\* The TTL reaper lists, then updates in a second statement the rows that are
\* still active.
ReaperList ==
  /\ reaping = {}
  /\ Lapsed # {}
  /\ reaping' = Lapsed
  /\ UNCHANGED <<now, resv, ledger, rpc, lock, breakers>>

\* Mutant: a listed row is expired whatever became of it.
ExpirableAsListed(r) == r \in reaping

Expirable(r) == r \in reaping /\ resv[r].status = "active"

\* Mutant: one row that moved on aborts the whole batch.
ExpireAllOrNothing ==
  /\ reaping # {}
  /\ \A r \in reaping : Expirable(r)
  /\ resv' = [r \in Ids |->
       IF r \in reaping THEN Moved(r, "expired") ELSE resv[r]]
  /\ reaping' = {}
  /\ UNCHANGED <<now, ledger, rpc, lock, breakers>>

ReaperExpire ==
  /\ reaping # {}
  /\ resv' = [r \in Ids |->
       IF Expirable(r) THEN Moved(r, "expired") ELSE resv[r]]
  /\ reaping' = {}
  /\ UNCHANGED <<now, ledger, rpc, lock, breakers>>

\* Archival deletes old terminal rows, which frees their idempotency keys; the
\* model keeps the row as a ghost with status "archived".
ArchiveReservation(r) ==
  /\ resv[r].status \in Terminal
  /\ resv[r].modifiedAt < now - ResvRetain
  /\ resv' = [resv EXCEPT ![r].status = "archived"]
  /\ UNCHANGED <<now, ledger, rpc, lock, reaping, breakers>>

\* The ledger cutoff is pushed behind the widest live rolling window.
LedgerExpired(r) ==
  /\ ledger[r].at < now - LedgerRetain
  /\ \A p \in Policies : Rolling(p) => ledger[r].at < now - (p.window + WindowSlack)

ArchiveLedger(r) ==
  /\ ledger[r].state \in {"live", "reversed"}
  /\ LedgerExpired(r)
  /\ ledger' = [ledger EXCEPT ![r].state = "archived"]
  /\ UNCHANGED <<now, resv, rpc, lock, reaping, breakers>>

Tick ==
  /\ now < MaxTime
  /\ now' = now + 1
  /\ UNCHANGED <<resv, ledger, rpc, lock, reaping, breakers>>

-----------------------------------------------------------------------------
ReserveStep(c) ==
  \/ ReserveLock(c) \/ ReadLedger(c) \/ ReadPending(c)
  \/ ReserveDeny(c) \/ ReserveDuplicate(c) \/ ReserveInsert(c)

Next ==
  \/ \E c \in Calls : ReserveLookup(c) \/ ReserveStep(c) \/ ReserveAbort(c)
  \/ \E r \in Ids :
       \/ Commit(r) \/ Activate(r) \/ Release(r)
       \/ ArchiveReservation(r) \/ ArchiveLedger(r)
       \/ \E k \in Keys : Reverse(r, k)
  \/ ReaperList \/ ReaperExpire \/ Tick

Spec == Init /\ [][Next]_vars

\* A started RPC keeps running and the reaper is scheduled periodically.
Fairness ==
  /\ \A c \in Calls : WF_vars(ReserveStep(c))
  /\ WF_vars(ReaperList)
  /\ WF_vars(ReaperExpire)

FairSpec == Spec /\ Fairness

-----------------------------------------------------------------------------
(* Properties *)

TypeOK ==
  /\ now \in Nat
  /\ resv \in [Ids -> Row \union {NoRow}]
  /\ ledger \in [Ids -> [state : {"none", "live", "reversed", "archived"}, at : Nat]]
  /\ pc \in [Calls -> {"idle", "locking", "eval", "pending", "done"}]
  /\ tx \in [Calls -> Tx \union {NoTx}]
  /\ reply \in [Calls -> Reply \union {NoReply}]
  /\ lock \in [Subjects -> Calls \union {NoCall}]
  /\ reaping \subseteq Ids
  /\ breakers \subseteq {"race", "lapse"}
  /\ \A c \in InFlight : tx[c] \in Tx

\* The enforced rolling caps nobody may be approved past.
HardCaps ==
  {p \in Policies : /\ Rolling(p)
                    /\ p.mode = "enforce"
                    /\ p.tiers = {}
                    /\ ~p.anyCurrency}

\* Reservations that were granted under p and still hold space in it, and
\* those whose entries the window still sums.
Holds(p) == {r \in PendingSet(p) : p \in resv[r].policies}
Spent(p) == {r \in LedgerSet(p) : p \in resv[r].policies}

\* However many Reserves run at once, the holds granted under a hard cap never
\* add up to more than the cap: the advisory lock of the cap's subject spans
\* both sums and the insert.
HoldsWithinCap == \A p \in HardCaps : Measure(p, Holds(p)) <= p.value

\* Holds and committed usage together pass a hard cap only after one of the two
\* interleavings that Commit, which takes no lock and checks no TTL, allows: it
\* fell between the two sums of an evaluation, or the hold had lapsed.
OverCapOnlyByCommit ==
  breakers = {} =>
    \A p \in HardCaps : Measure(p, Holds(p) \union Spent(p)) <= p.value

\* What a Reserve grants was judged by every enforced policy that applied, and
\* a breached shadow policy never turns that judgement off: the row is real,
\* and it either meets each per-transaction limit or waits for its approvers.
GrantRespectsRules ==
  [][\A r \in Unborn :
       LET row == resv'[r]
       IN row.status \in Holding =>
            /\ \A p \in row.intent.policies \ row.policies : p.filtered
            /\ \A p \in Enforced(row.policies) :
                 /\ ~row.shadow
                 /\ \/ Rolling(p)
                    \/ ~Exceeds(p, row.intent, 0)
                    \/ row.status = "pending_approval" /\ TiersCover(p, row.intent)
    ]_vars

\* Two answers for one idempotency key name the same reservation, unless
\* archival removed one of them and freed the key.
OneReservationPerKey ==
  \A c, d \in Calls :
    /\ {reply[c].out, reply[d].out} \subseteq {"granted", "replay", "duplicate"}
    /\ reply[c].key = reply[d].key
    /\ reply[c].id # reply[d].id
    => "archived" \in {resv[reply[c].id].status, resv[reply[d].id].status}

\* Every Reserve that starts is answered: the locks cannot be waited for in a
\* circle.
ReserveAnswered == \A c \in Calls : c \in InFlight ~> pc[c] = "done"

\* A hold past its TTL does not stay active for ever.
LapsedHoldEnds == \A r \in Ids : r \in Lapsed ~> resv[r].status # "active"

\* The reservation rows and their ledger entries follow the lifecycle.
L == INSTANCE ReservationLifecycle WITH
       status  <- [r \in Ids |-> resv[r].status],
       counted <- {r \in Ids : ledger[r].state = "live"}
FollowsLifecycle == L!Spec
=============================================================================
