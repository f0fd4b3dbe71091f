----------------------- MODULE LimitsReservation_proofs -----------------------
(***************************************************************************)
(* Proofs about LimitsReservation for every set of policies, intents,      *)
(* calls, keys and ids: type correctness, what the advisory locks guarantee *)
(* of the enforced rolling caps, what a Reserve answers for a key, and what *)
(* it has judged by the time it grants. Then about LimitsApproval, for any   *)
(* set of requests, users, calls and reaper replicas: a hold becomes usable  *)
(* only with every quorum, and a refused request always releases it. Last   *)
(* about Savings, for any movements, calls in flight, amounts, days and      *)
(* failures of the rail: the balance row agrees with the movements, nothing  *)
(* settles that operations did not book, and a day's interest is what its    *)
(* closing balance earned.                                                   *)
(***************************************************************************)
EXTENDS LimitsReservation, LimitsApproval, Savings, Sums_proofs, WellFoundedInduction

-----------------------------------------------------------------------------
(* What a call in flight is, and what survives the end of one. *)

LEMMA BusyType ==
  ASSUME TypeOK, NEW c \in InFlight
  PROVE  c \in Calls /\ tx[c] \in Tx
  BY DEF InFlight, TypeOK

\* The units of a set of rows are finitely many, so their measure is a number.
LEMMA UnitsFinite ==
  ASSUME NEW p, NEW S \in SUBSET Ids
  PROVE  IsFiniteSet(Units(p, S)) /\ Measure(p, S) \in Nat
  <1>1. IsFiniteSet(S)
    BY FS_Subset, IdsAssumption
  <1>2. IsFiniteSet(1..MaxAmount)
    BY FS_Interval, AmountAssumption
  <1>3. IsFiniteSet(S \X (1..MaxAmount))
    BY <1>1, <1>2, FS_Product
  <1>4. Units(p, S) \subseteq S \X (1..MaxAmount)
    BY DEF Units
  <1> QED
    BY <1>3, <1>4, FS_Subset, FS_CardinalityType DEF Measure

LEMMA NewIdType ==
  ASSUME Unborn # {}
  PROVE  NewId \in Ids /\ resv[NewId].status = "none"
  BY DEF NewId, Unborn

\* The bound on ids leaves one for a Reverse.
LEMMA IdLeft ==
  ASSUME IdsLeft
  PROVE  Unborn # {}
  <1>1. IsFiniteSet(InFlight)
    BY FS_Subset, CallsAssumption DEF InFlight
  <1>2. Cardinality(InFlight) \in Nat
    BY <1>1, FS_CardinalityType
  <1>3. Cardinality({}) = 0
    BY FS_EmptySet
  <1> QED
    BY <1>2, <1>3 DEF IdsLeft

-----------------------------------------------------------------------------
(* Type correctness *)

LEMMA TypeInit == Init => TypeOK
  BY DEF Init, TypeOK, InFlight

LEMMA AnswerType ==
  ASSUME TypeOK, NEW c \in Calls, NEW k \in Keys, NEW i \in Intents,
         NEW r \in Ids \union {NoId},
         NEW out \in {"granted", "replay", "collision", "duplicate", "denied", "error"},
         Answer(c, out, k, i, r)
  PROVE  /\ pc' \in [Calls -> {"idle", "locking", "eval", "pending", "done"}]
         /\ tx' \in [Calls -> Tx \union {NoTx}]
         /\ reply' \in [Calls -> Reply \union {NoReply}]
         /\ lock' \in [Subjects -> Calls \union {NoCall}]
         /\ \A d \in InFlight' : tx'[d] \in Tx
  <1>1. [out |-> out, key |-> k, intent |-> i, id |-> r] \in Reply
    BY DEF Reply
  <1>2. /\ pc' \in [Calls -> {"idle", "locking", "eval", "pending", "done"}]
        /\ tx' \in [Calls -> Tx \union {NoTx}]
        /\ lock' \in [Subjects -> Calls \union {NoCall}]
    BY DEF Answer, TypeOK
  <1>3. reply' \in [Calls -> Reply \union {NoReply}]
    BY <1>1 DEF Answer, TypeOK
  <1>4. \A d \in InFlight' : tx'[d] \in Tx
    BY DEF Answer, TypeOK, InFlight
  <1> QED
    BY <1>2, <1>3, <1>4

LEMMA AnswerTxType ==
  ASSUME TypeOK, NEW c \in InFlight, NEW r \in Ids \union {NoId},
         NEW out \in {"granted", "replay", "collision", "duplicate", "denied", "error"},
         AnswerTx(c, out, r)
  PROVE  /\ pc' \in [Calls -> {"idle", "locking", "eval", "pending", "done"}]
         /\ tx' \in [Calls -> Tx \union {NoTx}]
         /\ reply' \in [Calls -> Reply \union {NoReply}]
         /\ lock' \in [Subjects -> Calls \union {NoCall}]
         /\ \A d \in InFlight' : tx'[d] \in Tx
  <1>1. c \in Calls /\ tx[c].key \in Keys /\ tx[c].intent \in Intents
    BY BusyType DEF Tx
  <1> QED
    BY <1>1, AnswerType DEF AnswerTx

LEMMA MovedType ==
  ASSUME TypeOK, NEW r \in Ids, resv[r].status # "none",
         NEW st \in Holding \union Terminal
  PROVE  Moved(r, st) \in Row
  <1>1. resv[r] \in Row /\ now \in Nat
    BY DEF TypeOK, NoRow
  <1> QED
    BY <1>1 DEF Moved, Row

LEMMA StatusType ==
  ASSUME TypeOK, NEW r \in Ids, resv[r].status # "none",
         NEW st \in Holding \union Terminal, SetStatus(r, st)
  PROVE  resv' \in [Ids -> Row \union {NoRow}]
  BY MovedType DEF TypeOK, SetStatus

LEMMA FreshTxType ==
  ASSUME NEW k \in Keys, NEW i \in Intents, NEW app \in SUBSET i.policies,
         NEW unresolved \in BOOLEAN
  PROVE  FreshTx(k, i, app, unresolved) \in Tx
  <1>1. app \subseteq Policies
    BY IntentsAssumption DEF Intent
  <1>2. LockSubjects(app) \subseteq Subjects
    BY <1>1, PoliciesAssumption DEF LockSubjects, Policy
  <1> QED
    BY <1>1, <1>2 DEF Tx, FreshTx

LEMMA JudgedType ==
  ASSUME TypeOK, NEW c \in Calls, pc[c] = "pending", tx[c].cur \in Policies
  PROVE  Judged(c) \in Tx
  <1>1. tx[c] \in Tx
    BY DEF TypeOK, InFlight
  <1> QED
    BY <1>1 DEF Tx, Judged

LEMMA NewRowType ==
  ASSUME TypeOK, NEW c \in InFlight
  PROVE  NewRow(c) \in Row
  <1>1. tx[c] \in Tx /\ now \in Nat
    BY BusyType DEF TypeOK
  <1> QED
    BY <1>1, TimesAssumption DEF Tx, NewRow, Row, Holding

LEMMA TraceType ==
  ASSUME TypeOK, NEW r \in Ids, resv[r].status = "committed", NEW k \in Keys
  PROVE  Trace(r, k) \in Row
  <1>1. resv[r] \in Row /\ now \in Nat
    BY DEF TypeOK, NoRow
  <1> QED
    BY <1>1 DEF Row, Trace, Terminal

-----------------------------------------------------------------------------
(* What a transaction has in hand at each point. *)

\* While it locks it still needs a lock and has judged no rolling policy; past
\* that it holds every lock it needs, and the policy being read is one to do.
TxInv ==
  \A c \in InFlight :
    /\ tx[c].policies \subseteq tx[c].intent.policies
    /\ tx[c].need \subseteq LockSubjects(tx[c].policies)
    /\ tx[c].todo \subseteq {p \in tx[c].policies : Rolling(p)}
    /\ \A s \in LockSubjects(tx[c].policies) \ tx[c].need : lock[s] = c
    /\ pc[c] = "locking" =>
         /\ tx[c].need # {}
         /\ tx[c].todo = {p \in tx[c].policies : Rolling(p)}
    /\ pc[c] # "locking" => tx[c].need = {}
    /\ pc[c] = "pending" => tx[c].cur \in tx[c].todo

\* The sort has a first element.
LEMMA LeastOf ==
  ASSUME NEW S \in SUBSET Nat, S # {}
  PROVE  \E s \in S : \A u \in S : s <= u
  <1> DEFINE R == OpToRel(<, Nat)
  <1>1. PICK s \in S : \A u \in S : <<u, s>> \notin R
    BY WFMin, NatLessThanWellFounded
  <1>2. R = {ss \in Nat \X Nat : ss[1] < ss[2]}
    BY DEF OpToRel
  <1> HIDE DEF R
  <1>3. \A u \in S : ~(u < s)
    BY <1>1, <1>2
  <1> QED
    BY <1>3

LEMMA NextLockType ==
  ASSUME TypeOK, TxInv, NEW c \in Calls, pc[c] = "locking"
  PROVE  NextLock(c) \in tx[c].need
  <1>1. tx[c].need \in SUBSET Nat /\ tx[c].need # {}
    BY BusyType, SubjectsAssumption DEF TxInv, Tx, InFlight
  <1> QED
    BY <1>1, LeastOf DEF NextLock

LEMMA TypeStep == TypeOK /\ TxInv /\ [Next]_vars => TypeOK'
  <1> SUFFICES ASSUME TypeOK, TxInv, [Next]_vars PROVE TypeOK'
    OBVIOUS
  <1> USE DEF rpc
  <1>1. ASSUME NEW c \in Calls, ReserveLookup(c) PROVE TypeOK'
    <2>1. PICK k \in Keys, i \in Intents :
            ReserveReplay(c, k, i) \/ ReserveBegin(c, k, i)
      BY <1>1 DEF ReserveLookup
    <2>2. CASE ReserveReplay(c, k, i)
      <3>1. PICK r \in Ids :
              Answer(c, IF resv[r].intent = i THEN "replay" ELSE "collision",
                     k, i, r)
        BY <2>2 DEF ReserveReplay, Keyed, Stored
      <3> QED
        BY <1>1, <3>1, AnswerType DEF ReserveLookup, TypeOK
    <2>3. CASE ReserveBegin(c, k, i)
      <3>1. PICK app \in SUBSET i.policies, unresolved \in BOOLEAN :
              /\ tx' = [tx EXCEPT ![c] = FreshTx(k, i, app, unresolved)]
              /\ pc' = [pc EXCEPT ![c] =
                         IF LockSubjects(app) = {} THEN "eval" ELSE "locking"]
        BY <2>3 DEF ReserveBegin
      <3>2. FreshTx(k, i, app, unresolved) \in Tx
        BY FreshTxType
      <3> QED
        BY <1>1, <2>3, <3>1, <3>2 DEF ReserveLookup, ReserveBegin, TypeOK, InFlight
    <2> QED
      BY <2>1, <2>2, <2>3
  <1>2. ASSUME NEW c \in Calls, ReserveLock(c) PROVE TypeOK'
    <2>1. tx[c] \in Tx /\ tx' = [tx EXCEPT ![c] = [tx[c] EXCEPT !.need = @ \ {NextLock(c)}]]
      BY <1>2 DEF ReserveLock, TypeOK, InFlight
    <2>2. [tx[c] EXCEPT !.need = @ \ {NextLock(c)}] \in Tx
      BY <2>1 DEF Tx
    <2>3. tx' \in [Calls -> Tx \union {NoTx}] /\ \A d \in InFlight' : tx'[d] \in Tx
      BY ZenonT(45), <1>2, <2>1, <2>2 DEF ReserveLock, TypeOK, InFlight
    <2>4. pc' \in [Calls -> {"idle", "locking", "eval", "pending", "done"}]
      BY <1>2 DEF ReserveLock, TypeOK
    <2>5. lock' \in [Subjects -> Calls \union {NoCall}]
      BY <1>2 DEF ReserveLock, TypeOK
    <2> QED
      BY <1>2, <2>3, <2>4, <2>5 DEF ReserveLock, TypeOK
  <1>3. ASSUME NEW c \in Calls, ReadLedger(c) PROVE TypeOK'
    <2>1. PICK p \in tx[c].todo :
            tx' = [tx EXCEPT ![c] = [tx[c] EXCEPT !.cur = p, !.base = Measure(p, LedgerSet(p))]]
      BY <1>3 DEF ReadLedger
    <2>2. tx[c] \in Tx
      BY <1>3 DEF ReadLedger, TypeOK, InFlight
    <2>3. Measure(p, LedgerSet(p)) \in Nat
      BY UnitsFinite DEF LedgerSet
    <2>4. [tx[c] EXCEPT !.cur = p, !.base = Measure(p, LedgerSet(p))] \in Tx
      BY <2>2, <2>3 DEF Tx
    <2> QED
      BY <1>3, <2>1, <2>4 DEF ReadLedger, TypeOK, InFlight
  <1>4. ASSUME NEW c \in Calls, ReadPending(c) PROVE TypeOK'
    <2>1. c \in InFlight /\ tx[c] \in Tx
      BY <1>4 DEF ReadPending, TypeOK, InFlight
    <2>2. tx[c].cur \in Policies
      BY <1>4, <2>1 DEF ReadPending, TxInv, Tx
    <2>3. Judged(c) \in Tx
      BY <1>4, <2>2, JudgedType DEF ReadPending
    <2> QED
      BY <1>4, <2>3 DEF ReadPending, TypeOK, InFlight
  <1>5. ASSUME NEW c \in Calls, ReserveDeny(c) \/ ReserveDuplicate(c) \/ ReserveAbort(c)
        PROVE TypeOK'
    <2>1. c \in InFlight
      BY <1>5 DEF ReserveDeny, ReserveDuplicate, ReserveAbort, Evaluated, InFlight
    <2>2. PICK r \in Ids \union {NoId}, out \in {"duplicate", "denied", "error"} :
            AnswerTx(c, out, r)
      BY <1>5 DEF ReserveDeny, ReserveDuplicate, ReserveAbort, Keyed, Stored
    <2>3. UNCHANGED <<now, resv, ledger, reaping, breakers>>
      BY <1>5 DEF ReserveDeny, ReserveDuplicate, ReserveAbort
    <2> QED
      BY <2>1, <2>2, <2>3, AnswerTxType DEF TypeOK
  <1>6. ASSUME NEW c \in Calls, ReserveInsert(c) PROVE TypeOK'
    <2>1. c \in InFlight
      BY <1>6 DEF ReserveInsert, Evaluated, InFlight
    <2>2. NewId \in Ids /\ NewRow(c) \in Row
      BY <1>6, <2>1, NewIdType, NewRowType DEF ReserveInsert
    <2> QED
      BY <1>6, <2>1, <2>2, AnswerTxType DEF ReserveInsert, TypeOK
  <1>7. ASSUME NEW r \in Ids, Commit(r) PROVE TypeOK'
    <2>1. resv' \in [Ids -> Row \union {NoRow}]
      BY <1>7, StatusType DEF Commit, Terminal
    <2>2. Breakers(r) \subseteq {"race", "lapse"}
      BY DEF Breakers
    <2>3. ledger' \in [Ids -> [state : {"none", "live", "reversed", "archived"}, at : Nat]]
      BY <1>7 DEF Commit, TypeOK
    <2>4. breakers' \subseteq {"race", "lapse"}
      BY <1>7, <2>2 DEF Commit, TypeOK
    <2> QED
      BY <1>7, <2>1, <2>3, <2>4 DEF Commit, TypeOK, InFlight
  <1>8. ASSUME NEW r \in Ids, Activate(r) \/ Release(r) PROVE TypeOK'
    <2>1. resv' \in [Ids -> Row \union {NoRow}]
      BY <1>8, StatusType DEF Activate, Release, Holding, Terminal
    <2> QED
      BY <1>8, <2>1 DEF Activate, Release, TypeOK, InFlight
  <1>9. ASSUME NEW r \in Ids, NEW k \in Keys, Reverse(r, k) PROVE TypeOK'
    <2>1. NewId \in Ids
      BY <1>9, IdLeft, NewIdType DEF Reverse
    <2>2. Moved(r, "reversed") \in Row /\ Trace(r, k) \in Row
      BY <1>9, MovedType, TraceType DEF Reverse, Terminal
    <2>3. resv' \in [Ids -> Row \union {NoRow}]
      BY <1>9, <2>1, <2>2 DEF Reverse, TypeOK
    <2>4. ledger' \in [Ids -> [state : {"none", "live", "reversed", "archived"}, at : Nat]]
      BY <1>9 DEF Reverse, TypeOK
    <2> QED
      BY <1>9, <2>3, <2>4 DEF Reverse, TypeOK, InFlight
  <1>10. ASSUME ReaperList \/ ReaperExpire PROVE TypeOK'
    <2>1. \A r \in Ids : Expirable(r) => Moved(r, "expired") \in Row
      BY MovedType DEF Expirable, Terminal
    <2>2. resv' \in [Ids -> Row \union {NoRow}]
      BY <1>10, <2>1 DEF ReaperList, ReaperExpire, TypeOK
    <2>3. reaping' \subseteq Ids
      BY <1>10 DEF ReaperList, ReaperExpire, Lapsed
    <2> QED
      BY <1>10, <2>2, <2>3 DEF ReaperList, ReaperExpire, TypeOK, InFlight
  <1>11. ASSUME NEW r \in Ids, ArchiveReservation(r) PROVE TypeOK'
    <2>1. resv[r] \in Row
      BY <1>11 DEF ArchiveReservation, TypeOK, NoRow, Terminal
    <2>2. [resv[r] EXCEPT !.status = "archived"] \in Row
      BY <2>1 DEF Row
    <2> QED
      BY <1>11, <2>2 DEF ArchiveReservation, TypeOK, InFlight
  <1>12. ASSUME NEW r \in Ids, ArchiveLedger(r) PROVE TypeOK'
    BY <1>12 DEF ArchiveLedger, TypeOK, InFlight
  <1>13. CASE Tick
    BY <1>13 DEF Tick, TypeOK, InFlight
  <1>14. CASE UNCHANGED vars
    BY <1>14 DEF vars, TypeOK, InFlight
  <1> QED
    BY <1>1, <1>2, <1>3, <1>4, <1>5, <1>6, <1>7, <1>8, <1>9, <1>10, <1>11,
       <1>12, <1>13, <1>14 DEF Next, ReserveStep

LEMMA TxInit == Init => TxInv
  BY DEF Init, TxInv, InFlight

LEMMA AnswerTxInv ==
  ASSUME TypeOK, TxInv, NEW c \in Calls, NEW out, NEW k, NEW i, NEW r,
         Answer(c, out, k, i, r)
  PROVE  TxInv'
  <1>1. \A d \in InFlight' : d \in InFlight /\ d # c /\ tx'[d] = tx[d] /\ pc'[d] = pc[d]
    BY DEF Answer, InFlight, TypeOK
  <1>2. \A d \in InFlight' : \A s \in Subjects : lock[s] = d => lock'[s] = d
    BY <1>1 DEF Answer, TypeOK
  <1>3. \A d \in InFlight : LockSubjects(tx[d].policies) \subseteq Subjects
    BY PoliciesAssumption, BusyType DEF LockSubjects, Policy, Tx
  <1> QED
    BY <1>1, <1>2, <1>3 DEF TxInv

LEMMA TxStep == TypeOK /\ TxInv /\ [Next]_vars => TxInv'
  <1> SUFFICES ASSUME TypeOK, TxInv, [Next]_vars PROVE TxInv'
    OBVIOUS
  <1>1. ASSUME NEW c \in Calls, ReserveLookup(c) PROVE TxInv'
    <2>1. PICK k \in Keys, i \in Intents :
            ReserveReplay(c, k, i) \/ ReserveBegin(c, k, i)
      BY <1>1 DEF ReserveLookup
    <2>2. CASE ReserveReplay(c, k, i)
      BY <2>2, AnswerTxInv DEF ReserveReplay
    <2>3. CASE ReserveBegin(c, k, i)
      <3>1. PICK app \in SUBSET i.policies, unresolved \in BOOLEAN :
              /\ tx' = [tx EXCEPT ![c] = FreshTx(k, i, app, unresolved)]
              /\ pc' = [pc EXCEPT ![c] =
                         IF LockSubjects(app) = {} THEN "eval" ELSE "locking"]
        BY <2>3 DEF ReserveBegin
      <3>2. /\ tx'[c].policies = app /\ tx'[c].intent = i
            /\ tx'[c].need = LockSubjects(app)
            /\ tx'[c].todo = {p \in app : Rolling(p)}
            /\ pc'[c] = IF LockSubjects(app) = {} THEN "eval" ELSE "locking"
        BY <3>1 DEF TypeOK, FreshTx
      <3>3. \A d \in InFlight' \ {c} :
              d \in InFlight /\ tx'[d] = tx[d] /\ pc'[d] = pc[d]
        BY <3>1 DEF TypeOK, InFlight
      <3>4. lock' = lock
        BY <2>3 DEF ReserveBegin
      <3> QED
        BY <3>2, <3>3, <3>4 DEF TxInv
    <2> QED
      BY <2>1, <2>2, <2>3
  <1>2. ASSUME NEW c \in Calls, ReserveLock(c) PROVE TxInv'
    <2>1. c \in InFlight /\ tx[c] \in Tx /\ NextLock(c) \in tx[c].need
      BY <1>2, NextLockType DEF ReserveLock, InFlight, TypeOK
    <2>2. NextLock(c) \in Subjects
      BY <2>1 DEF Tx
    <2>3. /\ tx'[c].policies = tx[c].policies /\ tx'[c].intent = tx[c].intent
          /\ tx'[c].todo = tx[c].todo
          /\ tx'[c].need = tx[c].need \ {NextLock(c)}
          /\ pc'[c] = IF tx[c].need = {NextLock(c)} THEN "eval" ELSE "locking"
      BY <1>2, <2>1 DEF ReserveLock, TypeOK, Tx
    <2>4. \A d \in InFlight' \ {c} :
            d \in InFlight /\ tx'[d] = tx[d] /\ pc'[d] = pc[d]
      BY <1>2 DEF ReserveLock, TypeOK, InFlight
    <2>5. \A d \in Calls : \A s \in Subjects : lock[s] = d => lock'[s] = d
      BY <1>2, CallsAssumption DEF ReserveLock, TypeOK
    <2>6. lock'[NextLock(c)] = c
      BY <1>2, <2>2 DEF ReserveLock, TypeOK
    <2>7. \A d \in InFlight : LockSubjects(tx[d].policies) \subseteq Subjects
      BY PoliciesAssumption, BusyType DEF LockSubjects, Policy, Tx
    <2>8. ASSUME NEW d \in InFlight' \ {c}, NEW s \in LockSubjects(tx'[d].policies) \ tx'[d].need
          PROVE  lock'[s] = d
      BY <2>4, <2>5, <2>7, <2>8 DEF TxInv, InFlight
    <2>9. ASSUME NEW s \in LockSubjects(tx'[c].policies) \ tx'[c].need
          PROVE  lock'[s] = c
      BY <1>2, <2>1, <2>3, <2>5, <2>6, <2>7 DEF TxInv
    <2> QED
      BY <1>2, <2>1, <2>3, <2>4, <2>8, <2>9 DEF TxInv, ReserveLock
  <1>3. ASSUME NEW c \in Calls, ReadLedger(c) PROVE TxInv'
    <2>1. PICK p \in tx[c].todo :
            tx' = [tx EXCEPT ![c] = [tx[c] EXCEPT !.cur = p, !.base = Measure(p, LedgerSet(p))]]
      BY <1>3 DEF ReadLedger
    <2>2. c \in InFlight /\ tx[c] \in Tx
      BY <1>3 DEF ReadLedger, TypeOK, InFlight
    <2>3. /\ tx'[c].policies = tx[c].policies /\ tx'[c].intent = tx[c].intent
          /\ tx'[c].todo = tx[c].todo /\ tx'[c].need = tx[c].need
          /\ tx'[c].cur = p /\ pc'[c] = "pending"
      BY <1>3, <2>1, <2>2 DEF ReadLedger, TypeOK, Tx
    <2>4. /\ lock' = lock
          /\ \A d \in InFlight' \ {c} :
               d \in InFlight /\ tx'[d] = tx[d] /\ pc'[d] = pc[d]
      BY <1>3, <2>1 DEF ReadLedger, TypeOK, InFlight
    <2>5. pc[c] = "eval" /\ pc[c] # "locking"
      BY <1>3 DEF ReadLedger
    <2>6. tx'[c].cur \in tx'[c].todo /\ pc'[c] # "locking"
      BY <2>1, <2>3
    <2> QED
      BY <2>2, <2>3, <2>4, <2>5, <2>6 DEF TxInv
  <1>4. ASSUME NEW c \in Calls, ReadPending(c) PROVE TxInv'
    <2>1. c \in InFlight /\ tx[c] \in Tx
      BY <1>4 DEF ReadPending, TypeOK, InFlight
    <2>2. /\ tx'[c].policies = tx[c].policies /\ tx'[c].intent = tx[c].intent
          /\ tx'[c].todo \subseteq tx[c].todo /\ tx'[c].need = tx[c].need
          /\ pc'[c] = "eval"
      BY <1>4, <2>1 DEF ReadPending, Judged, TypeOK, Tx
    <2>3. /\ lock' = lock
          /\ \A d \in InFlight' \ {c} :
               d \in InFlight /\ tx'[d] = tx[d] /\ pc'[d] = pc[d]
      BY <1>4 DEF ReadPending, TypeOK, InFlight
    <2> QED
      BY <1>4, <2>1, <2>2, <2>3 DEF TxInv, ReadPending
  <1>5. ASSUME NEW c \in Calls, \/ ReserveDeny(c) \/ ReserveDuplicate(c)
                                \/ ReserveInsert(c) \/ ReserveAbort(c)
        PROVE TxInv'
    BY <1>5, AnswerTxInv
    DEF ReserveDeny, ReserveDuplicate, ReserveInsert, ReserveAbort, AnswerTx
  <1>6. CASE UNCHANGED <<pc, tx, lock>>
    BY <1>6 DEF TxInv, InFlight
  <1> QED
    BY <1>1, <1>2, <1>3, <1>4, <1>5, <1>6
    DEF Next, ReserveStep, vars, rpc, Commit, Activate, Release, Reverse,
        ReaperList, ReaperExpire, ArchiveReservation, ArchiveLedger, Tick

-----------------------------------------------------------------------------
(* Measures of sets of rows. *)

LEMMA MeasureUnion ==
  ASSUME NEW p, NEW S \in SUBSET Ids, NEW T \in SUBSET Ids
  PROVE  Measure(p, S \union T) <= Measure(p, S) + Measure(p, T)
  <1>1. Units(p, S \union T) = Units(p, S) \union Units(p, T)
    BY DEF Units
  <1>2. /\ IsFiniteSet(Units(p, S)) /\ IsFiniteSet(Units(p, T))
        /\ Cardinality(Units(p, S)) \in Nat /\ Cardinality(Units(p, T)) \in Nat
    BY UnitsFinite DEF Measure
  <1>3. Cardinality(Units(p, S) \cap Units(p, T)) \in Nat
    BY <1>2, FS_Intersection, FS_CardinalityType
  <1>4. Cardinality(Units(p, S) \union Units(p, T))
        = Cardinality(Units(p, S)) + Cardinality(Units(p, T))
          - Cardinality(Units(p, S) \cap Units(p, T))
    BY <1>2, FS_Union
  <1> DEFINE a == Cardinality(Units(p, S))
             b == Cardinality(Units(p, T))
             m == Cardinality(Units(p, S) \cap Units(p, T))
             u == Cardinality(Units(p, S) \union Units(p, T))
  <1>5. a \in Nat /\ b \in Nat /\ m \in Nat /\ u = a + b - m
    BY <1>2, <1>3, <1>4
  <1>6. Measure(p, S \union T) = u /\ Measure(p, S) = a /\ Measure(p, T) = b
    BY <1>1 DEF Measure
  <1> HIDE DEF a, b, m, u
  <1> QED
    BY <1>5, <1>6

LEMMA MeasureMono ==
  ASSUME NEW p, NEW S \in SUBSET Ids, NEW T \in SUBSET S
  PROVE  Measure(p, T) <= Measure(p, S)
  <1>1. Units(p, T) \in SUBSET Units(p, S)
    BY DEF Units
  <1> QED
    BY <1>1, UnitsFinite, FS_Subset DEF Measure

\* One more reservation adds at most its own weight.
LEMMA UnitsOfOne ==
  ASSUME NEW n, NEW w \in Nat
  PROVE  IsFiniteSet({n} \X (1..w)) /\ Cardinality({n} \X (1..w)) = w
  <1>1. IsFiniteSet({n}) /\ Cardinality({n}) = 1
    BY FS_Singleton
  <1>2. IsFiniteSet(1..w) /\ Cardinality(1..w) = w
    BY FS_Interval
  <1>3. /\ IsFiniteSet({n} \X (1..w))
        /\ Cardinality({n} \X (1..w)) = Cardinality({n}) * Cardinality(1..w)
    BY <1>1, <1>2, FS_Product
  <1> QED
    BY <1>1, <1>2, <1>3

LEMMA CountWithFewer ==
  ASSUME NEW U, IsFiniteSet(U), NEW V \in SUBSET U
  PROVE  /\ Cardinality(U) \in Nat /\ Cardinality(V) \in Nat
         /\ Cardinality(V) <= Cardinality(U)
  BY FS_Subset, FS_CardinalityType

LEMMA CountWithOneMore ==
  ASSUME NEW U, IsFiniteSet(U), NEW n, NEW w \in Nat,
         NEW V \in SUBSET (U \union ({n} \X (1..w)))
  PROVE  Cardinality(V) \in Nat /\ Cardinality(V) <= Cardinality(U) + w
  <1> DEFINE W == {n} \X (1..w)
  <1>1. IsFiniteSet(W) /\ Cardinality(W) = w
    BY UnitsOfOne
  <1> HIDE DEF W
  <1>2. IsFiniteSet(U \union W)
        /\ Cardinality(U \union W) = Cardinality(U) + Cardinality(W) - Cardinality(U \cap W)
    BY <1>1, FS_Union
  <1>3. Cardinality(U) \in Nat /\ Cardinality(U \cap W) \in Nat
    BY <1>1, FS_CardinalityType, FS_Intersection
  <1>4. IsFiniteSet(V) /\ Cardinality(V) <= Cardinality(U \union W)
    BY <1>2, FS_Subset DEF W
  <1>5. Cardinality(V) \in Nat
    BY <1>4, FS_CardinalityType
  <1> QED
    BY <1>1, <1>2, <1>3, <1>4, <1>5

LEMMA WeightType ==
  ASSUME NEW p \in Policies, NEW i \in Intents
  PROVE  Weight(p, i) \in Nat
  BY IntentsAssumption, AmountAssumption DEF Weight, Intent

\* A rolling cap without approvers is breached exactly when it is exceeded.
LEMMA HardVerdict ==
  ASSUME NEW p \in HardCaps, NEW i, NEW usage
  PROVE  Breaches(p, i, usage) <=> usage + Weight(p, i) > p.value
  BY DEF HardCaps, Rolling, Breaches, NeedsApproval, TiersCover, Exceeds

-----------------------------------------------------------------------------
(* Steps that grant nothing: the rows they leave held were held before. *)

\* A row keeps what it was granted under, and entries belong to rows.
RowInv ==
  \A r \in Ids :
    /\ resv[r].status # "none" => resv[r].policies \subseteq resv[r].intent.policies
    /\ resv[r].status = "none" => ledger[r].state = "none"

RowsKept ==
  /\ now <= now'
  /\ \A r \in Ids : resv[r].status # "none" =>
       /\ resv'[r].status # "none"
       /\ resv'[r].intent = resv[r].intent
       /\ resv'[r].policies = resv[r].policies
       /\ resv'[r].ttl = resv[r].ttl
       /\ resv'[r].reservedAt = resv[r].reservedAt

NothingGranted ==
  RowsKept /\ \A r \in Ids : resv'[r].status \in Holding => resv[r].status \in Holding

NothingSpent ==
  RowsKept /\ \A r \in Ids : ledger'[r].state = "live" => ledger'[r] = ledger[r]

LEMMA HoldsShrink ==
  ASSUME TypeOK, TypeOK', NothingGranted, NEW p \in HardCaps
  PROVE  /\ Holds(p)' \subseteq Holds(p)
         /\ Units(p, Holds(p))' \subseteq Units(p, Holds(p))
  <1>1. ASSUME NEW r \in Holds(p)'
        PROVE  r \in Holds(p) /\ resv'[r].intent = resv[r].intent
    <2>1. r \in Ids /\ resv'[r].status \in Holding /\ resv[r].status \in Holding
      BY <1>1 DEF Holds, PendingSet, NothingGranted
    <2>2. resv[r] \in Row /\ resv[r].status # "none"
      BY <2>1 DEF TypeOK, Holding, NoRow
    <2>3. p.window \in Nat /\ now \in Nat /\ now' \in Nat /\ now <= now'
          /\ resv[r].reservedAt \in Nat /\ resv[r].ttl \in Nat
      BY <2>2, PoliciesAssumption DEF TypeOK, HardCaps, Policy, NothingGranted, RowsKept, Row
    <2>4. /\ resv'[r].intent = resv[r].intent /\ resv'[r].policies = resv[r].policies
          /\ resv'[r].ttl = resv[r].ttl /\ resv'[r].reservedAt = resv[r].reservedAt
      BY <2>1, <2>2 DEF NothingGranted, RowsKept
    <2> QED
      BY <1>1, <2>1, <2>3, <2>4 DEF Holds, PendingSet, Counts
  <1> QED
    BY <1>1 DEF Units, Weight

LEMMA SpentShrinks ==
  ASSUME TypeOK, TypeOK', RowInv, NothingSpent, NEW p \in HardCaps
  PROVE  /\ Spent(p)' \subseteq Spent(p)
         /\ Units(p, Spent(p))' \subseteq Units(p, Spent(p))
  <1>1. ASSUME NEW r \in Spent(p)'
        PROVE  r \in Spent(p) /\ resv'[r].intent = resv[r].intent
    <2>1. r \in Ids /\ ledger'[r].state = "live" /\ ledger'[r] = ledger[r]
      BY <1>1 DEF Spent, LedgerSet, NothingSpent
    <2>2. resv[r].status # "none"
      BY <2>1 DEF RowInv
    <2>3. p.window \in Nat /\ now \in Nat /\ now' \in Nat /\ now <= now'
          /\ ledger[r].at \in Nat
      BY <2>1, PoliciesAssumption DEF TypeOK, HardCaps, Policy, NothingSpent, RowsKept
    <2>4. resv'[r].intent = resv[r].intent /\ resv'[r].policies = resv[r].policies
      BY <2>1, <2>2 DEF NothingSpent, RowsKept
    <2> QED
      BY <1>1, <2>1, <2>3, <2>4 DEF Spent, LedgerSet, Counts
  <1> QED
    BY <1>1 DEF Units, Weight

LEMMA MovedKeeps ==
  ASSUME NEW r, resv[r] \in Row, NEW st
  PROVE  /\ Moved(r, st).status = st
         /\ Moved(r, st).intent = resv[r].intent
         /\ Moved(r, st).policies = resv[r].policies
         /\ Moved(r, st).ttl = resv[r].ttl
         /\ Moved(r, st).reservedAt = resv[r].reservedAt
  BY DEF Moved, Row

\* Which steps grant, and which spend.
LEMMA StepKeeps ==
  ASSUME TypeOK, RowInv, [Next]_vars
  PROVE  /\ RowsKept
         /\ (\A c \in Calls : ~ReserveInsert(c)) => NothingGranted
         /\ (\A r \in Ids : ~Commit(r)) => NothingSpent
  <1>1. ASSUME NEW c \in Calls, ReserveInsert(c)
        PROVE  RowsKept /\ NothingSpent
    <2>1. NewId \in Ids /\ resv[NewId].status = "none"
      BY <1>1, NewIdType DEF ReserveInsert
    <2> QED
      BY <1>1, <2>1 DEF ReserveInsert, RowsKept, NothingSpent, TypeOK
  <1>2. ASSUME NEW r \in Ids, NEW st \in Holding \union Terminal,
               resv[r].status # "none", SetStatus(r, st), now' = now
        PROVE  /\ RowsKept /\ resv'[r].status = st
               /\ \A q \in Ids \ {r} : resv'[q] = resv[q]
    <2>1. resv'[r] = Moved(r, st) /\ resv[r] \in Row
      BY <1>2 DEF SetStatus, TypeOK, NoRow
    <2>2. \A q \in Ids \ {r} : resv'[q] = resv[q]
      BY <1>2 DEF SetStatus, TypeOK
    <2> QED
      BY <1>2, <2>1, <2>2, MovedKeeps DEF RowsKept, Holding, Terminal, TypeOK
  <1>3. ASSUME NEW r \in Ids, Commit(r)
        PROVE  RowsKept /\ NothingGranted
    <2>1. RowsKept /\ (\A q \in Ids \ {r} : resv'[q] = resv[q]) /\ resv'[r].status = "committed"
      BY <1>2, <1>3 DEF Commit, Terminal
    <2> QED
      BY <2>1, <1>3 DEF NothingGranted, Commit, Holding
  <1>4. ASSUME NEW r \in Ids, Activate(r) \/ Release(r)
        PROVE  RowsKept /\ NothingGranted /\ NothingSpent
    <2>1. RowsKept /\ (\A q \in Ids \ {r} : resv'[q] = resv[q]) /\ resv[r].status \in Holding
      BY <1>2, <1>4 DEF Activate, Release, Terminal, Holding
    <2> QED
      BY <2>1, <1>4 DEF NothingGranted, NothingSpent, Activate, Release
  <1>5. ASSUME NEW r \in Ids, NEW k \in Keys, Reverse(r, k)
        PROVE  RowsKept /\ NothingGranted /\ NothingSpent
    <2>1. NewId \in Ids /\ resv[NewId].status = "none" /\ NewId # r
      BY <1>5, IdLeft, NewIdType DEF Reverse
    <2>2. resv[r] \in Row
      BY <1>5 DEF Reverse, TypeOK, NoRow
    <2>3. /\ resv'[r] = Moved(r, "reversed") /\ resv'[NewId] = Trace(r, k)
          /\ \A q \in Ids \ {r, NewId} : resv'[q] = resv[q]
      BY <1>5, <2>1 DEF Reverse, TypeOK
    <2>4. /\ resv'[r].status = "reversed" /\ resv'[NewId].status = "reversed"
          /\ resv'[r].intent = resv[r].intent /\ resv'[r].policies = resv[r].policies
          /\ resv'[r].ttl = resv[r].ttl /\ resv'[r].reservedAt = resv[r].reservedAt
      BY <2>2, <2>3 DEF Moved, Trace, Row
    <2>5. now <= now'
      BY <1>5 DEF Reverse, TypeOK
    <2>6. RowsKept
      BY <2>1, <2>3, <2>4, <2>5 DEF RowsKept
    <2>7. NothingGranted
      BY <2>3, <2>4, <2>6 DEF NothingGranted, Holding
    <2>8. \A q \in Ids : ledger'[q].state = "live" => ledger'[q] = ledger[q]
      BY <1>5 DEF Reverse, TypeOK
    <2> QED
      BY <2>6, <2>7, <2>8 DEF NothingSpent
  <1>6. CASE ReaperExpire
    <2>1. \A r \in Ids : \/ resv'[r] = resv[r]
                         \/ resv[r] \in Row /\ resv'[r] = Moved(r, "expired")
      BY <1>6 DEF ReaperExpire, Expirable, TypeOK, NoRow
    <2>2. \A r \in Ids : \/ resv'[r] = resv[r]
                         \/ /\ resv'[r].status = "expired"
                            /\ resv'[r].intent = resv[r].intent
                            /\ resv'[r].policies = resv[r].policies
                            /\ resv'[r].ttl = resv[r].ttl
                            /\ resv'[r].reservedAt = resv[r].reservedAt
      BY <2>1, MovedKeeps
    <2> QED
      BY <1>6, <2>2 DEF ReaperExpire, RowsKept, NothingGranted, NothingSpent, TypeOK, Holding
  <1>7. ASSUME NEW r \in Ids, ArchiveReservation(r)
        PROVE  RowsKept /\ NothingGranted /\ NothingSpent
    <2>1. /\ resv'[r] = [resv[r] EXCEPT !.status = "archived"]
          /\ \A q \in Ids \ {r} : resv'[q] = resv[q]
          /\ resv[r] \in Row
      BY <1>7 DEF ArchiveReservation, TypeOK, NoRow, Terminal
    <2>2. /\ resv'[r].status = "archived" /\ resv'[r].intent = resv[r].intent
          /\ resv'[r].policies = resv[r].policies
          /\ resv'[r].ttl = resv[r].ttl /\ resv'[r].reservedAt = resv[r].reservedAt
      BY <2>1 DEF Row
    <2> QED
      BY <1>7, <2>1, <2>2
      DEF ArchiveReservation, RowsKept, NothingGranted, NothingSpent, TypeOK, Holding
  <1>8. ASSUME NEW r \in Ids, ArchiveLedger(r)
        PROVE  RowsKept /\ NothingGranted /\ NothingSpent
    BY <1>8 DEF ArchiveLedger, RowsKept, NothingGranted, NothingSpent, TypeOK
  <1>9. CASE UNCHANGED <<resv, ledger>> /\ now <= now'
    BY <1>9 DEF RowsKept, NothingGranted, NothingSpent
  <1>10. \/ \E c \in Calls : ReserveInsert(c)
         \/ \E r \in Ids : Commit(r) \/ Activate(r) \/ Release(r)
                           \/ ArchiveReservation(r) \/ ArchiveLedger(r)
                           \/ \E k \in Keys : Reverse(r, k)
         \/ ReaperExpire
         \/ UNCHANGED <<resv, ledger>> /\ now <= now'
    BY DEF Next, ReserveStep, ReserveLookup, ReserveLock, ReadLedger, ReadPending,
           ReserveDeny, ReserveDuplicate, ReserveAbort, ReaperList, Tick, vars, TypeOK
  <1> QED
    BY <1>1, <1>3, <1>4, <1>5, <1>6, <1>7, <1>8, <1>9, <1>10

LEMMA RowInit == Init => RowInv
  BY DEF Init, RowInv, NoRow

LEMMA RowStep == TypeOK /\ TxInv /\ RowInv /\ [Next]_vars => RowInv'
  <1> SUFFICES ASSUME TypeOK, TxInv, RowInv, [Next]_vars PROVE RowInv'
    OBVIOUS
  <1>1. RowsKept
    BY StepKeeps
  <1>2. ASSUME NEW r \in Ids, resv[r].status # "none"
        PROVE  resv'[r].policies \subseteq resv'[r].intent.policies
    BY <1>1, <1>2 DEF RowsKept, RowInv
  <1>3. ASSUME NEW r \in Ids, resv[r].status = "none", resv'[r].status # "none"
        PROVE  resv'[r].policies \subseteq resv'[r].intent.policies
    <2>1. ASSUME NEW c \in Calls, ReserveInsert(c)
          PROVE  resv'[r].policies \subseteq resv'[r].intent.policies
      <3>1. resv'[r] = NewRow(c) /\ c \in InFlight
        BY <1>3, <2>1 DEF ReserveInsert, TypeOK, Evaluated, InFlight
      <3> QED
        BY <3>1 DEF NewRow, TxInv
    <2>2. ASSUME NEW q \in Ids, NEW k \in Keys, Reverse(q, k)
          PROVE  resv'[r].policies \subseteq resv'[r].intent.policies
      <3>1. resv'[r] = Trace(q, k) /\ q \in Ids /\ resv[q] \in Row /\ resv[q].status # "none"
        BY <1>3, <2>2 DEF Reverse, TypeOK, NoRow
      <3>2. Trace(q, k).policies = resv[q].policies /\ Trace(q, k).intent = resv[q].intent
        BY <3>1 DEF Trace, Row
      <3> QED
        BY <3>1, <3>2 DEF RowInv
    <2>3. ASSUME NEW q \in Ids, \/ Commit(q) \/ Activate(q) \/ Release(q)
                                \/ ArchiveReservation(q)
          PROVE  FALSE
      BY <1>3, <2>3 DEF Commit, Activate, Release, ArchiveReservation, SetStatus,
                        TypeOK, Holding, Terminal
    <2>4. CASE ReaperExpire
      BY <1>3, <2>4 DEF ReaperExpire, Expirable
    <2>5. CASE UNCHANGED resv
      BY <1>3, <2>5
    <2> QED
      BY <2>1, <2>2, <2>3, <2>4, <2>5
      DEF Next, ReserveStep, ReserveLookup, ReserveLock, ReadLedger, ReadPending,
          ReserveDeny, ReserveDuplicate, ReserveAbort, ReaperList, ArchiveLedger,
          Tick, vars
  <1>4. ASSUME NEW r \in Ids, resv'[r].status = "none"
        PROVE  ledger'[r].state = "none"
    <2>1. resv[r].status = "none" /\ ledger[r].state = "none"
      BY <1>1, <1>4 DEF RowsKept, RowInv
    <2>2. ASSUME NEW q \in Ids, Commit(q) \/ ArchiveLedger(q) PROVE ledger'[r] = ledger[r]
      BY <2>1, <2>2 DEF Commit, ArchiveLedger, TypeOK
    <2>3. ASSUME NEW q \in Ids, NEW k \in Keys, Reverse(q, k) PROVE ledger'[r] = ledger[r]
      BY <2>1, <2>3 DEF Reverse, TypeOK
    <2>4. CASE UNCHANGED ledger
      BY <2>1, <2>4
    <2> QED
      BY <2>1, <2>2, <2>3, <2>4
      DEF Next, ReserveStep, ReserveLookup, ReserveLock, ReadLedger, ReadPending,
          ReserveDeny, ReserveDuplicate, ReserveInsert, ReserveAbort, Activate,
          Release, ReaperList, ReaperExpire, ArchiveReservation, Tick, vars
  <1> QED
    BY <1>2, <1>3, <1>4 DEF RowInv

-----------------------------------------------------------------------------
(* The inductive invariant.                                                *)
(*                                                                         *)
(* A transaction that has judged a hard cap and found room keeps that room *)
(* until it inserts: it holds the lock of the cap's subject, so nobody     *)
(* else can be granted under the cap, and nothing else adds a hold.        *)
(* Committed usage is covered in the same way by the sum it read, unless a *)
(* Commit breaks in.                                                       *)

Usage(p) == Holds(p) \union Spent(p)

Cleared(c) ==
  {p \in HardCaps : /\ p \in tx[c].policies
                    /\ p \notin tx[c].todo
                    /\ p \notin tx[c].breached}

HoldsRoom ==
  \A c \in InFlight : \A p \in Cleared(c) :
    Measure(p, Holds(p)) + Weight(p, tx[c].intent) <= p.value

UsageRoom ==
  \A c \in InFlight : \A p \in Cleared(c) :
    Measure(p, Usage(p)) + Weight(p, tx[c].intent) <= p.value

BaseCovers ==
  \A c \in InFlight : \A p \in HardCaps :
    pc[c] = "pending" /\ tx[c].cur = p => Measure(p, Spent(p)) <= tx[c].base

HoldsInv == HoldsWithinCap /\ HoldsRoom
UsageInv ==
  breakers = {} =>
    /\ \A p \in HardCaps : Measure(p, Usage(p)) <= p.value
    /\ UsageRoom
    /\ BaseCovers

Frame == TypeOK /\ TxInv /\ RowInv

LEMMA FrameStep == Frame /\ [Next]_vars => Frame'
  BY TypeStep, TxStep, RowStep DEF Frame

\* Sets of rows a measure is taken of.
LEMMA MeasureTypes ==
  ASSUME NEW p
  PROVE  /\ Measure(p, Holds(p)) \in Nat /\ Measure(p, PendingSet(p)) \in Nat
         /\ Measure(p, Spent(p)) \in Nat /\ Measure(p, Usage(p)) \in Nat
         /\ IsFiniteSet(Units(p, Holds(p))) /\ IsFiniteSet(Units(p, Spent(p)))
         /\ IsFiniteSet(Units(p, Usage(p)))
  <1>1. /\ Holds(p) \in SUBSET Ids /\ PendingSet(p) \in SUBSET Ids
        /\ Spent(p) \in SUBSET Ids /\ Usage(p) \in SUBSET Ids
    BY DEF Holds, PendingSet, Spent, LedgerSet, Usage
  <1> QED
    BY <1>1, UnitsFinite

\* What a step adds to the caps a transaction has cleared: only the one whose
\* two sums it has just read.
LEMMA ClearedGrows ==
  ASSUME Frame, [Next]_vars, NEW d \in InFlight', NEW p \in Cleared(d)'
  PROVE  /\ d \in InFlight /\ tx'[d].intent = tx[d].intent
         /\ \/ p \in Cleared(d)
            \/ /\ ReadPending(d) /\ p = tx[d].cur
               /\ UsageRead(d) + Weight(p, tx[d].intent) <= p.value
  <1> USE DEF Frame
  <1>0. p \in HardCaps /\ Rolling(p) /\ d \in Calls /\ p \in tx'[d].policies
        /\ p \notin tx'[d].todo /\ p \notin tx'[d].breached
    BY DEF Cleared, HardCaps, InFlight
  <1>1. CASE tx'[d] = tx[d] /\ pc'[d] = pc[d]
    BY <1>0, <1>1 DEF Cleared, InFlight
  <1>2. CASE ReserveLookup(d)
    <2>1. PICK k \in Keys, i \in Intents :
            ReserveReplay(d, k, i) \/ ReserveBegin(d, k, i)
      BY <1>2 DEF ReserveLookup
    <2>2. ~ReserveReplay(d, k, i)
      BY <1>0 DEF ReserveReplay, Answer, InFlight, TypeOK
    <2>3. PICK app \in SUBSET i.policies, unresolved \in BOOLEAN :
            tx' = [tx EXCEPT ![d] = FreshTx(k, i, app, unresolved)]
      BY <2>1, <2>2 DEF ReserveBegin
    <2>4. tx'[d].policies = app /\ tx'[d].todo = {q \in app : Rolling(q)}
      BY <1>0, <2>3 DEF FreshTx, TypeOK
    <2> QED
      BY <1>0, <2>4
  <1>3. CASE ReserveLock(d) \/ ReadLedger(d)
    <2>1. d \in InFlight /\ tx[d] \in Tx
      BY <1>3 DEF ReserveLock, ReadLedger, InFlight, TypeOK
    <2>2. /\ tx'[d].policies = tx[d].policies /\ tx'[d].todo = tx[d].todo
          /\ tx'[d].breached = tx[d].breached /\ tx'[d].intent = tx[d].intent
      <3>1. CASE ReserveLock(d)
        BY <1>0, <2>1, <3>1 DEF ReserveLock, TypeOK, Tx
      <3>2. CASE ReadLedger(d)
        <4>1. PICK q \in tx[d].todo :
                tx' = [tx EXCEPT ![d] = [tx[d] EXCEPT !.cur = q,
                                           !.base = Measure(q, LedgerSet(q))]]
          BY <3>2 DEF ReadLedger
        <4> QED
          BY <1>0, <2>1, <4>1 DEF TypeOK, Tx
      <3> QED
        BY <1>3, <3>1, <3>2
    <2> QED
      BY <1>0, <2>1, <2>2 DEF Cleared
  <1>4. CASE ReadPending(d)
    <2>1. d \in InFlight /\ tx[d] \in Tx /\ tx'[d] = Judged(d)
      BY <1>0, <1>4 DEF ReadPending, InFlight, TypeOK
    <2>2. /\ tx'[d].policies = tx[d].policies /\ tx'[d].intent = tx[d].intent
          /\ tx'[d].todo = tx[d].todo \ {tx[d].cur}
          /\ tx'[d].breached = IF Breaches(tx[d].cur, tx[d].intent, UsageRead(d))
                               THEN tx[d].breached \union {tx[d].cur}
                               ELSE tx[d].breached
      BY <2>1 DEF Judged, Tx
    <2>3. CASE p = tx[d].cur
      <3>1. ~Breaches(p, tx[d].intent, UsageRead(d))
        BY <1>0, <2>2, <2>3
      <3>2. /\ UsageRead(d) \in Nat /\ p \in Policies /\ p.value \in Nat
            /\ Weight(p, tx[d].intent) \in Nat
        BY <1>0, <2>1, <2>3, MeasureTypes, WeightType, PoliciesAssumption
        DEF UsageRead, Tx, HardCaps, Policy
      <3>3. ~(UsageRead(d) + Weight(p, tx[d].intent) > p.value)
        BY <1>0, <3>1, HardVerdict
      <3> QED
        BY <1>4, <2>1, <2>2, <2>3, <3>2, <3>3
    <2>4. CASE p # tx[d].cur
      BY <1>0, <2>1, <2>2, <2>4 DEF Cleared
    <2> QED
      BY <2>3, <2>4
  <1>5. CASE \/ ReserveDeny(d) \/ ReserveDuplicate(d)
             \/ ReserveInsert(d) \/ ReserveAbort(d)
    BY <1>0, <1>5 DEF ReserveDeny, ReserveDuplicate, ReserveInsert, ReserveAbort,
                      AnswerTx, Answer, InFlight, TypeOK
  <1>6. ASSUME NEW c \in Calls, c # d, ReserveLookup(c) \/ ReserveStep(c) \/ ReserveAbort(c)
        PROVE  tx'[d] = tx[d] /\ pc'[d] = pc[d]
    BY ZenonT(45), <1>0, <1>6
    DEF ReserveStep, ReserveLookup, ReserveReplay, ReserveBegin, ReserveLock,
        ReadLedger, ReadPending, ReserveDeny, ReserveDuplicate, ReserveInsert,
        ReserveAbort, AnswerTx, Answer, TypeOK
  <1>7. CASE UNCHANGED <<pc, tx>>
    BY <1>1, <1>7
  <1> QED
    BY <1>0, <1>1, <1>2, <1>3, <1>4, <1>5, <1>6, <1>7
    DEF Next, ReserveStep, vars, rpc, Commit, Activate, Release, Reverse,
        ReaperList, ReaperExpire, ArchiveReservation, ArchiveLedger, Tick

\* A grant adds one row to the holds of the caps it was judged under.
LEMMA InsertAdds ==
  ASSUME Frame, Frame', NEW c \in Calls, ReserveInsert(c), NEW p \in HardCaps
  PROVE  /\ c \in InFlight
         /\ Spent(p)' \subseteq Spent(p)
         /\ p \in tx[c].policies =>
              /\ p \in Cleared(c)
              /\ Holds(p)' \subseteq Holds(p) \union {NewId}
              /\ Units(p, Holds(p))' \subseteq
                   Units(p, Holds(p)) \union ({NewId} \X (1..Weight(p, tx[c].intent)))
              /\ Units(p, Usage(p))' \subseteq
                   Units(p, Usage(p)) \union ({NewId} \X (1..Weight(p, tx[c].intent)))
         /\ p \notin tx[c].policies =>
              /\ Units(p, Holds(p))' \subseteq Units(p, Holds(p))
              /\ Units(p, Usage(p))' \subseteq Units(p, Usage(p))
  <1> USE DEF Frame
  <1>1. c \in InFlight /\ tx[c] \in Tx /\ tx[c].intent \in Intents
    BY DEF ReserveInsert, Evaluated, InFlight, TypeOK, Tx
  <1>2. NewId \in Ids /\ resv[NewId].status = "none" /\ ledger[NewId].state = "none"
    BY NewIdType DEF ReserveInsert, RowInv
  <1>3. /\ resv'[NewId] = NewRow(c) /\ now' = now /\ ledger' = ledger
        /\ \A r \in Ids \ {NewId} : resv'[r] = resv[r]
    BY <1>2 DEF ReserveInsert, TypeOK
  <1>4. NewRow(c).intent = tx[c].intent /\ NewRow(c).policies = tx[c].policies
    BY DEF NewRow
  <1>5. ASSUME NEW r \in Holds(p)'
        PROVE  \/ r = NewId /\ p \in tx[c].policies /\ resv'[r].intent = tx[c].intent
               \/ r # NewId /\ r \in Holds(p) /\ resv'[r].intent = resv[r].intent
    BY <1>3, <1>4, <1>5 DEF Holds, PendingSet, Counts
  <1>6. ASSUME NEW r \in Spent(p)'
        PROVE  r # NewId /\ r \in Spent(p) /\ resv'[r].intent = resv[r].intent
    BY <1>2, <1>3, <1>6 DEF Spent, LedgerSet, Counts
  <1>7. ASSUME NEW r \in Usage(p)'
        PROVE  \/ r = NewId /\ p \in tx[c].policies /\ resv'[r].intent = tx[c].intent
               \/ r # NewId /\ r \in Usage(p) /\ resv'[r].intent = resv[r].intent
    BY <1>5, <1>6, <1>7 DEF Usage
  <1>8. Weight(p, tx[c].intent) \in Nat
    BY <1>1, WeightType DEF HardCaps
  <1>9. p \in tx[c].policies => p \in Cleared(c)
    BY <1>1 DEF ReserveInsert, Evaluated, HardBreach, Enforced, Cleared, HardCaps, Tx
  <1>10. ASSUME NEW x \in Units(p, Holds(p))'
         PROVE  \/ x \in Units(p, Holds(p))
                \/ /\ p \in tx[c].policies
                   /\ x \in {NewId} \X (1..Weight(p, tx[c].intent))
    BY <1>5, <1>8, <1>10 DEF Units, Weight
  <1>11. ASSUME NEW x \in Units(p, Usage(p))'
         PROVE  \/ x \in Units(p, Usage(p))
                \/ /\ p \in tx[c].policies
                   /\ x \in {NewId} \X (1..Weight(p, tx[c].intent))
    BY <1>7, <1>8, <1>11 DEF Units, Weight
  <1> QED
    BY <1>1, <1>5, <1>6, <1>9, <1>10, <1>11

\* Two transactions past their locks are not both under one rolling cap.
LEMMA OneAtATime ==
  ASSUME Frame, NEW c \in InFlight, NEW d \in InFlight, NEW p \in HardCaps,
         pc[c] # "locking", p \in tx[c].policies, p \in Cleared(d)
  PROVE  c = d
  <1>1. Rolling(p) /\ p \in tx[d].policies /\ p \notin tx[d].todo
    BY DEF Cleared, HardCaps
  <1>2. p.subject \in LockSubjects(tx[c].policies) /\ tx[c].need = {}
    BY <1>1 DEF LockSubjects, Frame, TxInv
  <1>3. p.subject \in LockSubjects(tx[d].policies) /\ tx[d].need = {}
    BY <1>1 DEF LockSubjects, Frame, TxInv
  <1> QED
    BY <1>2, <1>3 DEF Frame, TxInv

LEMMA HoldsStep == Frame /\ HoldsInv /\ [Next]_vars => HoldsInv'
  <1> SUFFICES ASSUME Frame, HoldsInv, [Next]_vars PROVE HoldsInv'
    OBVIOUS
  <1>0. Frame'
    BY FrameStep
  <1>1. \A p \in HardCaps : p \in Policies /\ p.value \in Nat
    BY PoliciesAssumption DEF HardCaps, Policy
  <1>2. ASSUME NEW d \in InFlight', NEW p \in Cleared(d)'
        PROVE  p \in HardCaps /\ Weight(p, tx[d].intent) \in Nat
    <2>1. d \in InFlight /\ p \in HardCaps
      BY <1>2, ClearedGrows DEF Cleared, HardCaps
    <2> QED
      BY <1>1, <2>1, WeightType, BusyType DEF Frame, Tx
  <1>3. ASSUME NEW c \in Calls, ReserveInsert(c)
        PROVE  HoldsInv'
    <2>1. c \in InFlight /\ tx[c].intent \in Intents /\ pc[c] # "locking"
      BY <1>3, BusyType DEF ReserveInsert, Evaluated, InFlight, Frame, Tx
    <2>2. ASSUME NEW p \in HardCaps, p \in tx[c].policies
          PROVE  Measure(p, Holds(p))' <= p.value
      <3>1. p \in Cleared(c) /\ Measure(p, Holds(p)) + Weight(p, tx[c].intent) <= p.value
        BY <1>0, <1>3, <2>1, <2>2, InsertAdds DEF HoldsInv, HoldsRoom
      <3>2. Weight(p, tx[c].intent) \in Nat /\ IsFiniteSet(Units(p, Holds(p)))
        BY <1>1, <2>1, WeightType, MeasureTypes
      <3>3. /\ Cardinality(Units(p, Holds(p))') \in Nat
            /\ Cardinality(Units(p, Holds(p))')
                 <= Cardinality(Units(p, Holds(p))) + Weight(p, tx[c].intent)
        BY <1>0, <1>3, <2>2, <3>2, InsertAdds, CountWithOneMore
      <3> QED
        BY <1>1, <3>1, <3>2, <3>3, MeasureTypes DEF Measure
    <2>3. ASSUME NEW p \in HardCaps, p \notin tx[c].policies
          PROVE  /\ Measure(p, Holds(p))' \in Nat
                 /\ Measure(p, Holds(p))' <= Measure(p, Holds(p))
      <3>1. Units(p, Holds(p))' \in SUBSET Units(p, Holds(p))
        BY <1>0, <1>3, <2>3, InsertAdds
      <3> QED
        BY <3>1, MeasureTypes, CountWithFewer DEF Measure
    <2>4. ASSUME NEW p \in HardCaps
          PROVE  Measure(p, Holds(p))' <= p.value
      BY <1>1, <2>2, <2>3, <2>4, MeasureTypes DEF HoldsInv, HoldsWithinCap
    <2>5. ASSUME NEW d \in InFlight', NEW p \in Cleared(d)'
          PROVE  Measure(p, Holds(p))' + Weight(p, tx'[d].intent) <= p.value
      <3>1. d # c
        BY <1>3, <2>5 DEF ReserveInsert, AnswerTx, Answer, InFlight, Frame, TypeOK
      <3>2. d \in InFlight /\ tx'[d].intent = tx[d].intent /\ p \in Cleared(d)
        <4>1. pc[c] = "eval" /\ pc'[c] = "done"
          BY <1>3 DEF ReserveInsert, Evaluated, AnswerTx, Answer, Frame, TypeOK
        <4>2. ~ReadPending(d)
          BY <3>1, <4>1 DEF ReadPending, Frame, TypeOK
        <4> QED
          BY <2>5, <4>2, ClearedGrows
      <3>3. p \notin tx[c].policies
        BY <1>2, <2>1, <2>5, <3>1, <3>2, OneAtATime
      <3>4. Measure(p, Holds(p)) + Weight(p, tx[d].intent) <= p.value
        BY <3>2 DEF HoldsInv, HoldsRoom
      <3> QED
        BY <1>1, <1>2, <2>3, <2>5, <3>2, <3>3, <3>4, MeasureTypes
    <2> QED
      BY <2>4, <2>5 DEF HoldsInv, HoldsWithinCap, HoldsRoom
  <1>4. CASE \A c \in Calls : ~ReserveInsert(c)
    <2>1. NothingGranted
      BY <1>4, StepKeeps DEF Frame
    <2>2. ASSUME NEW p \in HardCaps
          PROVE  /\ Measure(p, Holds(p))' \in Nat
                 /\ Measure(p, Holds(p))' <= Measure(p, Holds(p))
      <3>1. Units(p, Holds(p))' \in SUBSET Units(p, Holds(p))
        BY <1>0, <2>1, <2>2, HoldsShrink DEF Frame
      <3> QED
        BY <3>1, MeasureTypes, CountWithFewer DEF Measure
    <2>3. ASSUME NEW p \in HardCaps
          PROVE  Measure(p, Holds(p))' <= p.value
      BY <1>1, <2>2, <2>3, MeasureTypes DEF HoldsInv, HoldsWithinCap
    <2>4. ASSUME NEW d \in InFlight', NEW p \in Cleared(d)'
          PROVE  Measure(p, Holds(p))' + Weight(p, tx'[d].intent) <= p.value
      <3>1. d \in InFlight /\ tx'[d].intent = tx[d].intent
        BY <2>4, ClearedGrows
      <3>2. CASE p \in Cleared(d)
        <4>1. Measure(p, Holds(p)) + Weight(p, tx[d].intent) <= p.value
          BY <3>1, <3>2 DEF HoldsInv, HoldsRoom
        <4> QED
          BY <1>1, <1>2, <2>2, <2>4, <3>1, <4>1, MeasureTypes
      <3>3. CASE /\ ReadPending(d) /\ p = tx[d].cur
                 /\ UsageRead(d) + Weight(p, tx[d].intent) <= p.value
        <4>1. Measure(p, Holds(p)) <= Measure(p, PendingSet(p))
          BY MeasureMono DEF Holds, PendingSet
        <4>2. UsageRead(d) = tx[d].base + Measure(p, PendingSet(p)) /\ tx[d].base \in Nat
          BY <3>1, <3>3, BusyType DEF UsageRead, Frame, Tx
        <4> QED
          BY <1>1, <1>2, <2>2, <2>4, <3>1, <3>3, <4>1, <4>2, MeasureTypes
      <3> QED
        BY <2>4, <3>2, <3>3, ClearedGrows
    <2> QED
      BY <2>3, <2>4 DEF HoldsInv, HoldsWithinCap, HoldsRoom
  <1> QED
    BY <1>3, <1>4

LEMMA HoldsInit == Init => HoldsInv
  <1> SUFFICES ASSUME Init PROVE HoldsInv
    OBVIOUS
  <1>1. InFlight = {}
    BY DEF Init, InFlight
  <1>2. ASSUME NEW p \in HardCaps PROVE Measure(p, Holds(p)) <= p.value
    <2>1. Holds(p) = {}
      BY DEF Init, Holds, PendingSet, NoRow, Holding
    <2>2. Units(p, Holds(p)) = {}
      BY <2>1 DEF Units
    <2>3. p.value \in Nat
      BY PoliciesAssumption DEF HardCaps, Policy
    <2> QED
      BY <2>2, <2>3, FS_EmptySet DEF Measure
  <1> QED
    BY <1>1, <1>2 DEF HoldsInv, HoldsWithinCap, HoldsRoom

-----------------------------------------------------------------------------
(* Committed usage *)

LEMMA BreakersGrow ==
  ASSUME [Next]_vars
  PROVE  breakers \subseteq breakers'
  <1>1. ASSUME NEW r \in Ids, Commit(r) PROVE breakers \subseteq breakers'
    BY <1>1 DEF Commit
  <1> QED
    BY <1>1 DEF Next, ReserveStep, ReserveLookup, ReserveLock, ReadLedger,
      ReadPending, ReserveDeny, ReserveDuplicate, ReserveInsert, ReserveAbort,
      Activate, Release, Reverse, ReaperList, ReaperExpire, ArchiveReservation,
      ArchiveLedger, Tick, vars

\* A Commit that is no breaker moves usage and adds none: the hold was counted,
\* and no transaction is between the two sums of a cap it is under.
LEMMA CommitMoves ==
  ASSUME Frame, Frame', [Next]_vars, NEW r \in Ids, Commit(r), breakers' = {},
         NEW p \in HardCaps
  PROVE  /\ Units(p, Usage(p))' \subseteq Units(p, Usage(p))
         /\ \A c \in Calls : pc[c] = "pending" /\ tx[c].cur = p =>
              Units(p, Spent(p))' \subseteq Units(p, Spent(p))
  <1> USE DEF Frame
  <1>1. /\ resv[r] \in Row /\ resv[r].status = "active" /\ now' = now
        /\ resv'[r] = Moved(r, "committed")
        /\ \A q \in Ids \ {r} : resv'[q] = resv[q] /\ ledger'[q] = ledger[q]
    BY DEF Commit, SetStatus, TypeOK, NoRow
  <1>2. resv'[r].intent = resv[r].intent /\ resv'[r].policies = resv[r].policies
    BY <1>1, MovedKeeps
  <1>3. Holds(p)' \subseteq Holds(p)
    <2>1. NothingGranted
      <3>1. \A c \in Calls : ~ReserveInsert(c)
        BY <1>1 DEF Commit, rpc, ReserveInsert, AnswerTx, Answer, Evaluated, TypeOK
      <3> QED
        BY <3>1, StepKeeps
    <2> QED
      BY <2>1, HoldsShrink
  <1>4. ~resv[r].shadow => Breakers(r) = {}
    BY DEF Commit
  <1>5. resv[r].shadow => ledger' = ledger
    BY DEF Commit
  <1>6. ASSUME NEW q \in Spent(p)', q \notin Spent(p)
        PROVE  /\ q \in Holds(p)
               /\ \A c \in Calls : ~(pc[c] = "pending" /\ tx[c].cur = p)
    <2>1. /\ q = r /\ p \in resv[r].policies /\ p.subject \in resv[r].intent.subjects
          /\ ledger' # ledger
      BY <1>1, <1>2, <1>6 DEF Spent, LedgerSet, Counts
    <2>2. Breakers(r) = {}
      BY <1>4, <1>5, <2>1
    <2>3. r \in PendingSet(p)
      BY <2>1, <2>2 DEF Breakers, HardCaps
    <2> QED
      BY <2>1, <2>2, <2>3 DEF Breakers, Holds
  <1>7. ASSUME NEW q \in Ids PROVE resv'[q].intent = resv[q].intent
    BY <1>1, <1>2
  <1>8. Usage(p)' \subseteq Usage(p)
    BY <1>3, <1>6 DEF Usage
  <1>9. Usage(p)' \subseteq Ids /\ Spent(p)' \subseteq Ids
    BY DEF Usage, Holds, PendingSet, Spent, LedgerSet
  <1> QED
    BY <1>6, <1>7, <1>8, <1>9 DEF Units, Weight

LEMMA UsageShrinks ==
  ASSUME Frame, Frame', NothingGranted, NothingSpent, NEW p \in HardCaps
  PROVE  Units(p, Usage(p))' \subseteq Units(p, Usage(p))
  <1>1. /\ Units(p, Holds(p))' \subseteq Units(p, Holds(p))
        /\ Units(p, Spent(p))' \subseteq Units(p, Spent(p))
    BY HoldsShrink, SpentShrinks DEF Frame
  <1>2. Units(p, Usage(p)) = Units(p, Holds(p)) \union Units(p, Spent(p))
    BY DEF Units, Usage
  <1>3. Units(p, Usage(p))' = Units(p, Holds(p))' \union Units(p, Spent(p))'
    BY DEF Units, Usage
  <1> QED
    BY <1>1, <1>2, <1>3

\* A transaction between its two sums was there before, or has just read the
\* first one.
LEMMA PendingGrows ==
  ASSUME Frame, [Next]_vars, NEW d \in InFlight', pc'[d] = "pending"
  PROVE  /\ d \in InFlight
         /\ \/ pc[d] = "pending" /\ tx'[d] = tx[d]
            \/ /\ ReadLedger(d)
               /\ tx'[d].base = Measure(tx'[d].cur, LedgerSet(tx'[d].cur))
  <1> USE DEF Frame
  <1>0. d \in Calls
    BY DEF InFlight
  <1>1. CASE ReadLedger(d)
    <2>1. PICK q \in tx[d].todo :
            tx' = [tx EXCEPT ![d] = [tx[d] EXCEPT !.cur = q,
                                       !.base = Measure(q, LedgerSet(q))]]
      BY <1>1 DEF ReadLedger
    <2>2. d \in InFlight /\ tx[d] \in Tx
      BY <1>0, <1>1 DEF ReadLedger, InFlight, TypeOK
    <2>3. tx'[d].cur = q /\ tx'[d].base = Measure(q, LedgerSet(q))
      BY <1>0, <2>1, <2>2 DEF TypeOK, Tx
    <2> QED
      BY <1>1, <2>2, <2>3
  <1>2. CASE \/ ReserveLookup(d) \/ ReserveLock(d) \/ ReadPending(d) \/ ReserveDeny(d)
             \/ ReserveDuplicate(d) \/ ReserveInsert(d) \/ ReserveAbort(d)
    BY <1>0, <1>2
    DEF ReserveLookup, ReserveReplay, ReserveBegin, ReserveLock, ReadPending,
        ReserveDeny, ReserveDuplicate, ReserveInsert, ReserveAbort, AnswerTx,
        Answer, TypeOK
  <1>3. ASSUME NEW c \in Calls, c # d, ReserveLookup(c) \/ ReserveStep(c) \/ ReserveAbort(c)
        PROVE  tx'[d] = tx[d] /\ pc'[d] = pc[d]
    BY <1>0, <1>3
    DEF ReserveStep, ReserveLookup, ReserveReplay, ReserveBegin, ReserveLock,
        ReadLedger, ReadPending, ReserveDeny, ReserveDuplicate, ReserveInsert,
        ReserveAbort, AnswerTx, Answer, TypeOK
  <1>4. CASE tx'[d] = tx[d] /\ pc'[d] = pc[d]
    BY <1>0, <1>4 DEF InFlight
  <1> QED
    BY <1>0, <1>1, <1>2, <1>3, <1>4
    DEF Next, ReserveStep, vars, rpc, Commit, Activate, Release, Reverse,
        ReaperList, ReaperExpire, ArchiveReservation, ArchiveLedger, Tick

LEMMA BaseStep ==
  ASSUME Frame, [Next]_vars, BaseCovers, breakers' = {}
  PROVE  BaseCovers'
  <1> SUFFICES ASSUME NEW d \in InFlight', NEW p \in HardCaps,
                      pc'[d] = "pending", tx'[d].cur = p
               PROVE  Measure(p, Spent(p))' <= tx'[d].base
    BY DEF BaseCovers
  <1>0. Frame' /\ d \in InFlight /\ d \in Calls
    BY FrameStep, PendingGrows DEF InFlight
  <1>1. CASE pc[d] = "pending" /\ tx'[d] = tx[d]
    <2>1. Units(p, Spent(p))' \in SUBSET Units(p, Spent(p))
      <3>1. CASE \E r \in Ids : Commit(r)
        BY <1>0, <1>1, <3>1, CommitMoves
      <3>2. CASE \A r \in Ids : ~Commit(r)
        BY <1>0, <3>2, StepKeeps, SpentShrinks DEF Frame
      <3> QED
        BY <3>1, <3>2
    <2>2. Measure(p, Spent(p)) <= tx[d].base /\ tx[d].base \in Nat
      BY <1>0, <1>1, BusyType DEF BaseCovers, Frame, Tx
    <2>3. Measure(p, Spent(p))' \in Nat /\ Measure(p, Spent(p))' <= Measure(p, Spent(p))
      BY <2>1, MeasureTypes, CountWithFewer DEF Measure
    <2> QED
      BY <1>1, <2>2, <2>3, MeasureTypes
  <1>2. CASE ReadLedger(d) /\ tx'[d].base = Measure(p, LedgerSet(p))
    <2>1. Measure(p, Spent(p))' = Measure(p, Spent(p))
      BY <1>2 DEF ReadLedger, Measure, Units, Weight, Spent, LedgerSet, Counts
    <2>2. Measure(p, Spent(p)) <= Measure(p, LedgerSet(p))
      BY MeasureMono DEF Spent, LedgerSet
    <2> QED
      BY <1>2, <2>1, <2>2
  <1> QED
    BY <1>1, <1>2, PendingGrows

LEMMA UsageStep == Frame /\ UsageInv /\ [Next]_vars => UsageInv'
  <1> SUFFICES ASSUME Frame, UsageInv, [Next]_vars, breakers' = {}
               PROVE  /\ \A p \in HardCaps : Measure(p, Usage(p))' <= p.value
                      /\ UsageRoom'
                      /\ BaseCovers'
    BY DEF UsageInv
  <1>0. Frame' /\ breakers = {}
    BY FrameStep, BreakersGrow
  <1>u. /\ \A p \in HardCaps : Measure(p, Usage(p)) <= p.value
        /\ UsageRoom /\ BaseCovers
    BY <1>0 DEF UsageInv
  <1>1. \A p \in HardCaps : p \in Policies /\ p.value \in Nat
    BY PoliciesAssumption DEF HardCaps, Policy
  <1>2. ASSUME NEW d \in InFlight', NEW p \in Cleared(d)'
        PROVE  p \in HardCaps /\ Weight(p, tx[d].intent) \in Nat
    <2>1. d \in InFlight /\ p \in HardCaps
      BY <1>2, ClearedGrows DEF Cleared, HardCaps
    <2> QED
      BY <1>1, <2>1, WeightType, BusyType DEF Frame, Tx
  <1>3. ASSUME NEW c \in Calls, ReserveInsert(c)
        PROVE  UsageRoom' /\ \A p \in HardCaps : Measure(p, Usage(p))' <= p.value
    <2>1. c \in InFlight /\ tx[c].intent \in Intents /\ pc[c] # "locking"
      BY <1>3, BusyType DEF ReserveInsert, Evaluated, InFlight, Frame, Tx
    <2>2. ASSUME NEW p \in HardCaps, p \in tx[c].policies
          PROVE  Measure(p, Usage(p))' <= p.value
      <3>1. p \in Cleared(c) /\ Measure(p, Usage(p)) + Weight(p, tx[c].intent) <= p.value
        BY <1>0, <1>u, <1>3, <2>1, <2>2, InsertAdds DEF UsageRoom
      <3>2. Weight(p, tx[c].intent) \in Nat /\ IsFiniteSet(Units(p, Usage(p)))
        BY <1>1, <2>1, WeightType, MeasureTypes
      <3>3. /\ Cardinality(Units(p, Usage(p))') \in Nat
            /\ Cardinality(Units(p, Usage(p))')
                 <= Cardinality(Units(p, Usage(p))) + Weight(p, tx[c].intent)
        BY <1>0, <1>3, <2>2, <3>2, InsertAdds, CountWithOneMore
      <3> QED
        BY <1>1, <3>1, <3>2, <3>3, MeasureTypes DEF Measure
    <2>3. ASSUME NEW p \in HardCaps, p \notin tx[c].policies
          PROVE  /\ Measure(p, Usage(p))' \in Nat
                 /\ Measure(p, Usage(p))' <= Measure(p, Usage(p))
      <3>1. Units(p, Usage(p))' \in SUBSET Units(p, Usage(p))
        BY <1>0, <1>3, <2>3, InsertAdds
      <3> QED
        BY <3>1, MeasureTypes, CountWithFewer DEF Measure
    <2>4. ASSUME NEW p \in HardCaps
          PROVE  Measure(p, Usage(p))' <= p.value
      BY <1>1, <1>u, <2>2, <2>3, <2>4, MeasureTypes
    <2>5. ASSUME NEW d \in InFlight', NEW p \in Cleared(d)'
          PROVE  Measure(p, Usage(p))' + Weight(p, tx'[d].intent) <= p.value
      <3>1. d # c
        BY <1>3, <2>5 DEF ReserveInsert, AnswerTx, Answer, InFlight, Frame, TypeOK
      <3>2. d \in InFlight /\ tx'[d].intent = tx[d].intent /\ p \in Cleared(d)
        <4>1. pc[c] = "eval" /\ pc'[c] = "done"
          BY <1>3 DEF ReserveInsert, Evaluated, AnswerTx, Answer, Frame, TypeOK
        <4>2. ~ReadPending(d)
          BY <3>1, <4>1 DEF ReadPending, Frame, TypeOK
        <4> QED
          BY <2>5, <4>2, ClearedGrows
      <3>3. p \notin tx[c].policies
        BY <1>2, <2>1, <2>5, <3>1, <3>2, OneAtATime
      <3>4. Measure(p, Usage(p)) + Weight(p, tx[d].intent) <= p.value
        BY <1>u, <3>2 DEF UsageRoom
      <3> QED
        BY <1>1, <1>2, <2>3, <2>5, <3>2, <3>3, <3>4, MeasureTypes
    <2> QED
      BY <2>4, <2>5 DEF UsageRoom
  <1>4. ASSUME \A c \in Calls : ~ReserveInsert(c)
        PROVE  UsageRoom' /\ \A p \in HardCaps : Measure(p, Usage(p))' <= p.value
    <2>1. ASSUME NEW p \in HardCaps
          PROVE  /\ Measure(p, Usage(p))' \in Nat
                 /\ Measure(p, Usage(p))' <= Measure(p, Usage(p))
      <3>1. Units(p, Usage(p))' \in SUBSET Units(p, Usage(p))
        <4>1. CASE \E r \in Ids : Commit(r)
          BY <1>0, <2>1, <4>1, CommitMoves
        <4>2. CASE \A r \in Ids : ~Commit(r)
          BY <1>0, <1>4, <2>1, <4>2, StepKeeps, UsageShrinks DEF Frame
        <4> QED
          BY <4>1, <4>2
      <3> QED
        BY <3>1, MeasureTypes, CountWithFewer DEF Measure
    <2>2. ASSUME NEW p \in HardCaps
          PROVE  Measure(p, Usage(p))' <= p.value
      BY <1>1, <1>u, <2>1, <2>2, MeasureTypes
    <2>3. ASSUME NEW d \in InFlight', NEW p \in Cleared(d)'
          PROVE  Measure(p, Usage(p))' + Weight(p, tx'[d].intent) <= p.value
      <3>1. d \in InFlight /\ tx'[d].intent = tx[d].intent
        BY <2>3, ClearedGrows
      <3>2. CASE p \in Cleared(d)
        <4>1. Measure(p, Usage(p)) + Weight(p, tx[d].intent) <= p.value
          BY <1>u, <3>1, <3>2 DEF UsageRoom
        <4> QED
          BY <1>1, <1>2, <2>1, <2>3, <3>1, <4>1, MeasureTypes
      <3>3. CASE /\ ReadPending(d) /\ p = tx[d].cur
                 /\ UsageRead(d) + Weight(p, tx[d].intent) <= p.value
        <4>1. Measure(p, Usage(p)) <= Measure(p, PendingSet(p)) + Measure(p, Spent(p))
          <5>1. Measure(p, Usage(p)) <= Measure(p, Holds(p)) + Measure(p, Spent(p))
            BY MeasureUnion DEF Usage, Holds, PendingSet, Spent, LedgerSet
          <5>2. Measure(p, Holds(p)) <= Measure(p, PendingSet(p))
            BY MeasureMono DEF Holds, PendingSet
          <5> QED
            BY <5>1, <5>2, MeasureTypes
        <4>2. UsageRead(d) = tx[d].base + Measure(p, PendingSet(p)) /\ tx[d].base \in Nat
          BY <3>1, <3>3, BusyType DEF UsageRead, Frame, Tx
        <4>3. Measure(p, Spent(p)) <= tx[d].base
          BY <1>2, <1>u, <2>3, <3>1, <3>3 DEF BaseCovers, ReadPending
        <4> QED
          BY <1>1, <1>2, <2>1, <2>3, <3>1, <3>3, <4>1, <4>2, <4>3, MeasureTypes
      <3> QED
        BY <2>3, <3>2, <3>3, ClearedGrows
    <2> QED
      BY <2>2, <2>3 DEF UsageRoom
  <1> QED
    BY <1>u, <1>3, <1>4, BaseStep

LEMMA UsageInit == Init => UsageInv
  <1> SUFFICES ASSUME Init PROVE UsageInv
    OBVIOUS
  <1>1. InFlight = {}
    BY DEF Init, InFlight
  <1>2. ASSUME NEW p \in HardCaps PROVE Measure(p, Usage(p)) <= p.value
    <2>1. Usage(p) = {}
      BY DEF Init, Usage, Holds, Spent, PendingSet, LedgerSet, NoRow, Holding
    <2>2. Units(p, Usage(p)) = {}
      BY <2>1 DEF Units
    <2>3. p.value \in Nat
      BY PoliciesAssumption DEF HardCaps, Policy
    <2> QED
      BY <2>2, <2>3, FS_EmptySet DEF Measure
  <1> QED
    BY <1>1, <1>2 DEF UsageInv, UsageRoom, BaseCovers

-----------------------------------------------------------------------------
(* The lifecycle of a row *)

Status == [r \in Ids |-> resv[r].status]
Counted == {r \in Ids : ledger[r].state = "live"}

\* A row replaced changes its own status only.
LEMMA StatusOf ==
  ASSUME TypeOK, NEW r \in Ids, NEW w, resv' = [resv EXCEPT ![r] = w]
  PROVE  Status' = [Status EXCEPT ![r] = w.status]
  BY DEF Status, TypeOK

LEMMA LifecycleInit == Init => L!Init
  BY DEF Init, L!Init, NoRow

LEMMA LifecycleStep == Frame /\ [Next]_vars => [L!Next]_(L!vars)
  <1> SUFFICES ASSUME Frame, [Next]_vars PROVE [L!Next]_(L!vars)
    OBVIOUS
  <1> USE DEF Frame
  <1>0. L!vars = <<Status, Counted>> /\ L!vars' = <<Status', Counted'>>
    BY DEF L!vars, Status, Counted
  <1>1. ASSUME NEW c \in Calls, ReserveInsert(c) PROVE L!Next
    <2>1. PICK n \in Ids : n = NewId /\ resv[n].status = "none"
      BY <1>1, NewIdType DEF ReserveInsert
    <2>2. NewRow(c).status \in {"active", "pending_approval"}
      BY DEF NewRow
    <2>3. resv' = [resv EXCEPT ![n] = NewRow(c)] /\ Counted' = Counted
      BY <1>1, <2>1 DEF ReserveInsert, Counted
    <2>4. Status' = [Status EXCEPT ![n] = NewRow(c).status]
      BY <2>1, <2>3, StatusOf
    <2>5. L!Open(n)
      BY <2>1, <2>2, <2>3, <2>4 DEF L!Open, L!Holding, Status, Counted
    <2> QED
      BY <2>5 DEF L!Next
  <1>2. ASSUME NEW r \in Ids, NEW st \in Holding \union Terminal,
               resv[r].status # "none", SetStatus(r, st)
        PROVE  Status' = [Status EXCEPT ![r] = st]
    <2>1. resv[r] \in Row
      BY <1>2 DEF TypeOK, NoRow
    <2> QED
      <3>1. Moved(r, st).status = st
        BY <2>1, MovedKeeps
      <3>2. Status' = [Status EXCEPT ![r] = Moved(r, st).status]
        BY <1>2, StatusOf DEF SetStatus
      <3> QED
        BY <3>1, <3>2
  <1>3. ASSUME NEW r \in Ids, Commit(r) PROVE L!Next
    <2>1. Status' = [Status EXCEPT ![r] = "committed"]
      BY <1>2, <1>3 DEF Commit, Terminal
    <2>2. Counted' = Counted \/ Counted' = Counted \union {r}
      BY <1>3 DEF Commit, Counted, TypeOK
    <2>3. L!Commit(r)
      BY <1>3, <2>1, <2>2 DEF Commit, L!Commit, Status, Counted
    <2> QED
      BY <2>3 DEF L!Next
  <1>4. ASSUME NEW r \in Ids, Activate(r) PROVE L!Next
    <2>1. Status' = [Status EXCEPT ![r] = "active"] /\ Counted' = Counted
      BY <1>2, <1>4 DEF Activate, Holding, Counted
    <2>2. L!Activate(r)
      BY <1>4, <2>1 DEF Activate, L!Activate, Status, Counted
    <2> QED
      BY <2>2 DEF L!Next
  <1>5. ASSUME NEW r \in Ids, Release(r) PROVE L!Next
    <2>1. Status' = [Status EXCEPT ![r] = "released"] /\ Counted' = Counted
      BY <1>2, <1>5 DEF Release, Holding, Terminal, Counted
    <2>2. L!Release(r)
      BY <1>5, <2>1 DEF Release, L!Release, L!Holding, Holding, Status, Counted
    <2> QED
      BY <2>2 DEF L!Next
  <1>6. ASSUME NEW r \in Ids, NEW k \in Keys, Reverse(r, k) PROVE L!Next
    <2>1. PICK n \in Ids : n = NewId /\ resv[n].status = "none" /\ n # r
      BY <1>6, IdLeft, NewIdType DEF Reverse
    <2>2. resv[r] \in Row
      BY <1>6 DEF Reverse, TypeOK, NoRow
    <2>3. Moved(r, "reversed").status = "reversed" /\ Trace(r, k).status = "reversed"
      BY <2>2, MovedKeeps DEF Trace, Row
    <2>4. Status' = [Status EXCEPT ![r] = "reversed", ![n] = "reversed"]
      BY <1>6, <2>1, <2>3 DEF Reverse, Status, TypeOK
    <2>5. Counted' = Counted \ {r}
      BY <1>6 DEF Reverse, Counted, TypeOK
    <2>6. L!Reverse(r, n)
      BY <1>6, <2>1, <2>4, <2>5 DEF Reverse, L!Reverse, Status, Counted
    <2> QED
      BY <2>6 DEF L!Next
  <1>7. CASE ReaperExpire
    <2>0. PICK S \in SUBSET Ids : S = {r \in Ids : Expirable(r)}
      OBVIOUS
    <2>1. \A r \in S : resv[r] \in Row /\ resv[r].status = "active"
      BY <2>0 DEF Expirable, TypeOK, NoRow
    <2>2. Status' = [r \in Ids |-> IF r \in S THEN "expired" ELSE Status[r]]
      BY <1>7, <2>0, <2>1, MovedKeeps DEF ReaperExpire, Status
    <2>3. Counted' = Counted
      BY <1>7 DEF ReaperExpire, Counted
    <2>4. L!Expire(S)
      BY <2>1, <2>2, <2>3 DEF L!Expire, Status, Counted
    <2> QED
      BY <2>4 DEF L!Next
  <1>8. ASSUME NEW r \in Ids, ArchiveReservation(r) PROVE L!Next
    <2>1. resv[r] \in Row
      BY <1>8 DEF ArchiveReservation, TypeOK, NoRow, Terminal
    <2>2. Status' = [Status EXCEPT ![r] = "archived"]
      BY <1>8, <2>1 DEF ArchiveReservation, Status, TypeOK, Row
    <2>3. Counted' = Counted
      BY <1>8 DEF ArchiveReservation, Counted
    <2>4. L!Archive(r)
      BY <1>8, <2>2, <2>3
      DEF ArchiveReservation, L!Archive, L!Terminal, Terminal, Status, Counted
    <2> QED
      BY <2>4 DEF L!Next
  <1>9. ASSUME NEW r \in Ids, ArchiveLedger(r) PROVE L!Next
    <2>1. Counted' = Counted \ {r} /\ Status' = Status
      BY <1>9 DEF ArchiveLedger, Counted, Status, TypeOK
    <2>2. L!ArchiveEntries(r)
      BY <2>1 DEF L!ArchiveEntries, Status, Counted
    <2> QED
      BY <2>2 DEF L!Next
  <1>10. CASE UNCHANGED <<resv, ledger>>
    BY <1>10 DEF L!vars
  <1> QED
    BY <1>1, <1>3, <1>4, <1>5, <1>6, <1>7, <1>8, <1>9, <1>10
    DEF Next, ReserveStep, ReserveLookup, ReserveLock, ReadLedger, ReadPending,
        ReserveDeny, ReserveDuplicate, ReserveAbort, ReaperList, Tick, vars

-----------------------------------------------------------------------------
(* Theorems *)

LEMMA FrameInit == Init => Frame
  BY TypeInit, TxInit, RowInit DEF Frame

LEMMA FrameAlways == Spec => []Frame
  BY FrameInit, FrameStep, PTL DEF Spec

\* Every reachable state is typed, for every choice of the constants.
THEOREM TypeCorrect == Spec => []TypeOK
  <1>1. Frame => TypeOK
    BY DEF Frame
  <1> QED
    BY <1>1, FrameAlways, PTL

\* However many Reserves run concurrently, the holds granted under an enforced
\* rolling cap without approvers stay within it: Reserve's advisory locks
\* (reservation.go step 7) cover both sums of its evaluation and its insert.
THEOREM HoldsNeverExceedCap == Spec => []HoldsWithinCap
  <1>1. Init => HoldsInv
    BY HoldsInit
  <1>2. HoldsInv => HoldsWithinCap
    BY DEF HoldsInv
  <1> QED
    BY <1>1, <1>2, HoldsStep, FrameAlways, PTL DEF Spec

\* Committed usage and holds together stay within such a cap too, as long as no
\* Commit falls between the two sums of an evaluation and none commits a hold
\* that had lapsed: those two are the only ways past a hard cap.
THEOREM OnlyCommitPassesCap == Spec => []OverCapOnlyByCommit
  <1>1. UsageInv => OverCapOnlyByCommit
    BY DEF UsageInv, OverCapOnlyByCommit, Usage
  <1> QED
    BY <1>1, UsageInit, UsageStep, FrameAlways, PTL DEF Spec

\* Reserve, Commit, Release, Reverse, the reaper and archival, interleaved in any
\* way, move a reservation and its ledger entries only along its lifecycle.
THEOREM ReservationsFollowLifecycle == Spec => FollowsLifecycle
  BY LifecycleInit, LifecycleStep, FrameAlways, PTL DEF Spec, FollowsLifecycle, L!Spec

-----------------------------------------------------------------------------
(* Rows and their keys *)

\* The answers that hand the caller a reservation.
Given == {"granted", "replay", "duplicate"}

\* A row that exists keeps its key and is never unborn again; an archived one
\* stays archived.
Kept ==
  \A r \in Ids : resv[r].status # "none" =>
    /\ resv'[r].status # "none" /\ resv'[r].key = resv[r].key
    /\ resv[r].status = "archived" => resv'[r].status = "archived"

\* The unique index, and where the ids that were answered lead.
UniqueKeys == \A r, s \in Stored : resv[r].key = resv[s].key => r = s
RepliesNameRows ==
  \A c \in Calls : reply[c].out \in Given =>
    /\ reply[c].id \in Ids /\ resv[reply[c].id].status # "none"
    /\ resv[reply[c].id].key = reply[c].key
KeyInv == UniqueKeys /\ RepliesNameRows

\* The operations that change rows without adding any.
LEMMA QuietKeys ==
  ASSUME TypeOK, UniqueKeys, Kept, Stored' \subseteq Stored
  PROVE  UniqueKeys'
  <1>1. \A r \in Stored : resv'[r].key = resv[r].key
    BY DEF Kept, Stored
  <1> QED
    BY <1>1 DEF UniqueKeys

\* One new row, for a key without one.
LEMMA NewKey ==
  ASSUME TypeOK, UniqueKeys, Kept, NEW k, NEW n \in Ids, Keyed(k) = {},
         Stored' \subseteq Stored \union {n}, resv'[n].key = k
  PROVE  UniqueKeys'
  <1>1. \A r \in Stored : resv'[r].key = resv[r].key /\ resv[r].key # k
    BY DEF Kept, Stored, Keyed
  <1> QED
    BY <1>1 DEF UniqueKeys

LEMMA QuietReplies ==
  ASSUME RepliesNameRows, Kept, reply' = reply
  PROVE  RepliesNameRows'
  BY DEF RepliesNameRows, Kept

\* An answer that names a row of its key keeps RepliesNameRows.
LEMMA AnswerReplies ==
  ASSUME TypeOK, RepliesNameRows, Kept, NEW c \in Calls, NEW out, NEW k, NEW i, NEW n,
         Answer(c, out, k, i, n),
         out \in Given => (n \in Ids /\ resv'[n].status # "none" /\ resv'[n].key = k)
  PROVE  RepliesNameRows'
  <1>1. /\ reply'[c] = [out |-> out, key |-> k, intent |-> i, id |-> n]
        /\ \A d \in Calls \ {c} : reply'[d] = reply[d]
    BY DEF Answer, TypeOK
  <1> QED
    BY <1>1 DEF RepliesNameRows, Kept

LEMMA StillKept == ASSUME resv' = resv PROVE Kept /\ Stored' = Stored
  BY DEF Kept, Stored

LEMMA KeyInit == Init => KeyInv
  BY DEF Init, KeyInv, UniqueKeys, RepliesNameRows, Stored, NoRow, NoReply, Given

\* The operations that change rows in place.
LEMMA ChangeKeys ==
  ASSUME TypeOK,
         \/ \E r \in Ids : \/ Commit(r) \/ Activate(r) \/ Release(r)
                           \/ ArchiveReservation(r) \/ ArchiveLedger(r)
         \/ ReaperList \/ ReaperExpire \/ Tick
  PROVE  Kept /\ Stored' \subseteq Stored /\ reply' = reply
  <1> USE DEF rpc
  <1>1. ASSUME NEW r \in Ids, NEW st \in Holding \union Terminal,
               SetStatus(r, st), resv[r].status # "none", resv[r].status # "archived"
        PROVE  Kept /\ Stored' \subseteq Stored
    <2>1. resv[r] \in Row
      BY <1>1 DEF TypeOK, NoRow
    <2>2. /\ resv'[r].status = st /\ resv'[r].key = resv[r].key
          /\ \A s \in Ids \ {r} : resv'[s] = resv[s]
      BY <1>1, <2>1 DEF SetStatus, Moved, TypeOK, Row
    <2>3. st # "none" /\ st # "archived"
      BY DEF Holding, Terminal
    <2> QED
      BY <1>1, <2>2, <2>3 DEF Kept, Stored
  <1>2. ASSUME NEW r \in Ids, Commit(r) \/ Activate(r) \/ Release(r)
        PROVE  Kept /\ Stored' \subseteq Stored /\ reply' = reply
    <2>1. PICK st \in Holding \union Terminal : SetStatus(r, st)
      BY <1>2 DEF Commit, Activate, Release, Holding, Terminal
    <2>2. resv[r].status # "none" /\ resv[r].status # "archived" /\ reply' = reply
      BY <1>2 DEF Commit, Activate, Release, Holding
    <2> QED
      BY <1>1, <2>1, <2>2
  <1>3. ASSUME NEW r \in Ids, ArchiveReservation(r)
        PROVE  Kept /\ Stored' \subseteq Stored /\ reply' = reply
    <2>1. resv[r] \in Row /\ resv[r].status # "none"
      BY <1>3 DEF ArchiveReservation, TypeOK, NoRow, Terminal
    <2>2. /\ resv'[r].status = "archived" /\ resv'[r].key = resv[r].key
          /\ \A s \in Ids \ {r} : resv'[s] = resv[s]
      BY <1>3, <2>1 DEF ArchiveReservation, TypeOK, Row
    <2> QED
      BY <1>3, <2>1, <2>2 DEF Kept, Stored, ArchiveReservation
  <1>4. ASSUME ReaperExpire
        PROVE  Kept /\ Stored' \subseteq Stored /\ reply' = reply
    <2>1. \A r \in Ids : resv'[r] = resv[r] \/
             (resv[r].status = "active" /\ resv'[r].status = "expired"
                /\ resv'[r].key = resv[r].key)
      <3>1. ASSUME NEW r \in Ids, Expirable(r)
            PROVE  resv[r].status = "active" /\ resv'[r].status = "expired"
                     /\ resv'[r].key = resv[r].key
        <4>1. resv[r].status = "active" /\ resv[r] \in Row
          BY <3>1 DEF Expirable, TypeOK, NoRow
        <4>2. resv'[r] = Moved(r, "expired")
          BY <1>4, <3>1 DEF ReaperExpire
        <4> QED
          BY <4>1, <4>2 DEF Moved, Row
      <3> QED
        BY <1>4, <3>1 DEF ReaperExpire
    <2> QED
      BY <1>4, <2>1 DEF Kept, Stored, ReaperExpire
  <1>5. ASSUME UNCHANGED <<resv, reply>>
        PROVE  Kept /\ Stored' \subseteq Stored /\ reply' = reply
    BY <1>5, StillKept
  <1> QED
    BY <1>2, <1>3, <1>4, <1>5 DEF ArchiveLedger, ReaperList, Tick

LEMMA KeyStep == TypeOK /\ KeyInv /\ [Next]_vars => KeyInv'
  <1> SUFFICES ASSUME TypeOK, KeyInv, [Next]_vars PROVE KeyInv'
    OBVIOUS
  <1> USE DEF KeyInv
  <1>1. ASSUME NEW c \in Calls, ReserveLookup(c) PROVE KeyInv'
    <2>1. resv' = resv
      BY <1>1 DEF ReserveLookup
    <2>2. PICK k \in Keys, i \in Intents : ReserveReplay(c, k, i) \/ ReserveBegin(c, k, i)
      BY <1>1 DEF ReserveLookup
    <2>3. CASE ReserveBegin(c, k, i)
      BY <2>1, <2>3, StillKept, QuietKeys, QuietReplies DEF ReserveBegin
    <2>4. CASE ReserveReplay(c, k, i)
      <3>1. PICK r \in Keyed(k) :
              Answer(c, IF resv[r].intent = i THEN "replay" ELSE "collision", k, i, r)
        BY <2>4 DEF ReserveReplay
      <3>2. r \in Ids /\ resv'[r].status # "none" /\ resv'[r].key = k
        BY <2>1, <3>1 DEF Keyed, Stored
      <3> QED
        BY <2>1, <3>1, <3>2, StillKept, QuietKeys, AnswerReplies
    <2> QED
      BY <2>2, <2>3, <2>4
  <1>2. ASSUME NEW c \in Calls, ReserveDuplicate(c) PROVE KeyInv'
    <2>1. resv' = resv
      BY <1>2 DEF ReserveDuplicate
    <2>2. PICK r \in Keyed(tx[c].key) :
            Answer(c, "duplicate", tx[c].key, tx[c].intent, r)
      BY <1>2 DEF ReserveDuplicate, AnswerTx
    <2>3. r \in Ids /\ resv'[r].status # "none" /\ resv'[r].key = tx[c].key
      BY <2>1, <2>2 DEF Keyed, Stored
    <2> QED
      BY <2>1, <2>2, <2>3, StillKept, QuietKeys, AnswerReplies
  <1>3. ASSUME NEW c \in Calls, ReserveDeny(c) \/ ReserveAbort(c) PROVE KeyInv'
    <2>1. resv' = resv
      BY <1>3 DEF ReserveDeny, ReserveAbort
    <2>2. PICK out \in {"denied", "error"} :
            Answer(c, out, tx[c].key, tx[c].intent, NoId)
      BY <1>3 DEF ReserveDeny, ReserveAbort, AnswerTx
    <2>3. out \notin Given
      BY DEF Given
    <2> QED
      BY <2>1, <2>2, <2>3, StillKept, QuietKeys, AnswerReplies
  <1>4. ASSUME NEW c \in Calls, ReserveInsert(c) PROVE KeyInv'
    <2>1. c \in InFlight /\ NewId \in Ids /\ resv[NewId].status = "none"
      BY <1>4, NewIdType DEF ReserveInsert, Evaluated, InFlight
    <2>2. /\ resv'[NewId].status # "none" /\ resv'[NewId].key = tx[c].key
          /\ \A r \in Ids \ {NewId} : resv'[r] = resv[r]
      BY <1>4, <2>1 DEF ReserveInsert, NewRow, TypeOK
    <2>3. Kept /\ Stored' \subseteq Stored \union {NewId}
      BY <2>1, <2>2 DEF Kept, Stored
    <2>4. Answer(c, "granted", tx[c].key, tx[c].intent, NewId) /\ Keyed(tx[c].key) = {}
      BY <1>4 DEF ReserveInsert, AnswerTx
    <2>5. UniqueKeys'
      BY <2>1, <2>2, <2>3, <2>4, NewKey
    <2> QED
      BY <2>1, <2>2, <2>3, <2>4, <2>5, AnswerReplies
  <1>5. ASSUME NEW r \in Ids, NEW k \in Keys, Reverse(r, k) PROVE KeyInv'
    <2>1. NewId \in Ids /\ resv[NewId].status = "none" /\ NewId # r
      BY <1>5, IdLeft, NewIdType DEF Reverse
    <2>2. resv[r] \in Row /\ resv[r].status = "committed"
      BY <1>5 DEF Reverse, TypeOK, NoRow
    <2>3. /\ resv'[NewId] = Trace(r, k) /\ resv'[r] = Moved(r, "reversed")
          /\ \A s \in Ids \ {NewId, r} : resv'[s] = resv[s]
      BY <1>5, <2>1 DEF Reverse, TypeOK
    <2>4. /\ resv'[NewId].key = k /\ resv'[NewId].status = "reversed"
          /\ resv'[r].key = resv[r].key /\ resv'[r].status = "reversed"
      BY <2>2, <2>3 DEF Trace, Moved, Row
    <2>5. Kept /\ Stored' \subseteq Stored \union {NewId}
      BY <2>1, <2>2, <2>3, <2>4 DEF Kept, Stored
    <2>6. Keyed(k) = {} /\ reply' = reply
      BY <1>5 DEF Reverse, rpc
    <2> QED
      BY <2>1, <2>4, <2>5, <2>6, NewKey, QuietReplies
  <1>6. ASSUME NEW c \in Calls, ReserveLock(c) \/ ReadLedger(c) \/ ReadPending(c)
        PROVE  KeyInv'
    BY <1>6, StillKept, QuietKeys, QuietReplies DEF ReserveLock, ReadLedger, ReadPending
  <1>7. CASE UNCHANGED vars
    BY <1>7, StillKept, QuietKeys, QuietReplies DEF vars
  <1>8. ASSUME \/ \E r \in Ids : \/ Commit(r) \/ Activate(r) \/ Release(r)
                                 \/ ArchiveReservation(r) \/ ArchiveLedger(r)
               \/ ReaperList \/ ReaperExpire \/ Tick
        PROVE  KeyInv'
    BY <1>8, ChangeKeys, QuietKeys, QuietReplies
  <1> QED
    BY <1>1, <1>2, <1>3, <1>4, <1>5, <1>6, <1>7, <1>8 DEF Next, ReserveStep

\* Whatever interleaves and whatever is retried, the answers a caller gets for
\* one idempotency key name one reservation, until archival frees the key: the
\* lookup of Reserve step 1 and the unique index of step 11 together.
THEOREM KeysNameOneReservation == Spec => []OneReservationPerKey
  <1>1. KeyInv => OneReservationPerKey
    <2> SUFFICES ASSUME KeyInv, NEW c \in Calls, NEW d \in Calls,
                        reply[c].out \in Given, reply[d].out \in Given,
                        reply[c].key = reply[d].key, reply[c].id # reply[d].id,
                        resv[reply[c].id].status # "archived",
                        resv[reply[d].id].status # "archived"
                 PROVE  FALSE
      BY DEF OneReservationPerKey, Given
    <2>1. reply[c].id \in Stored /\ reply[d].id \in Stored
      BY DEF KeyInv, RepliesNameRows, Stored
    <2>2. resv[reply[c].id].key = resv[reply[d].id].key
      BY DEF KeyInv, RepliesNameRows
    <2> QED
      BY <2>1, <2>2 DEF KeyInv, UniqueKeys
  <1>2. Frame => TypeOK
    BY DEF Frame
  <1> QED
    BY <1>1, <1>2, KeyInit, KeyStep, FrameAlways, PTL DEF Spec

-----------------------------------------------------------------------------
(* What a Reserve has judged *)

\* The policies a call in flight judged were all that resolve for its intent but
\* filtered ones, and the verdicts on its per-transaction limits are in.
VerdictOf(x) ==
  /\ \A p \in x.intent.policies \ x.policies : p.filtered
  /\ \A p \in x.policies : ~Rolling(p) =>
       /\ Breaches(p, x.intent, 0) => p \in x.breached
       /\ NeedsApproval(p, x.intent, 0) => p \in x.approving
VerdictInv == \A c \in InFlight : VerdictOf(tx[c])

\* A call that goes on with the same intent, the same policies and no fewer
\* verdicts keeps what it judged.
LEMMA VerdictGrows ==
  ASSUME NEW x, NEW y, VerdictOf(x), y.intent = x.intent, y.policies = x.policies,
         x.breached \subseteq y.breached, x.approving \subseteq y.approving
  PROVE  VerdictOf(y)
  BY DEF VerdictOf

LEMMA VerdictInit == Init => VerdictInv
  BY DEF Init, VerdictInv, InFlight

LEMMA VerdictAnswer ==
  ASSUME TypeOK, VerdictInv, NEW c \in Calls, NEW out, NEW k, NEW i, NEW r,
         Answer(c, out, k, i, r)
  PROVE  VerdictInv'
  <1>1. \A d \in InFlight' : d \in InFlight /\ tx'[d] = tx[d]
    BY DEF Answer, InFlight, TypeOK
  <1> QED
    BY <1>1 DEF VerdictInv

LEMMA VerdictStep == TypeOK /\ VerdictInv /\ [Next]_vars => VerdictInv'
  <1> SUFFICES ASSUME TypeOK, VerdictInv, [Next]_vars PROVE VerdictInv'
    OBVIOUS
  <1>1. ASSUME NEW c \in Calls, ReserveLookup(c) PROVE VerdictInv'
    <2>1. PICK k \in Keys, i \in Intents : ReserveReplay(c, k, i) \/ ReserveBegin(c, k, i)
      BY <1>1 DEF ReserveLookup
    <2>2. CASE ReserveReplay(c, k, i)
      BY <2>2, VerdictAnswer DEF ReserveReplay
    <2>3. CASE ReserveBegin(c, k, i)
      <3>1. PICK app \in SUBSET i.policies, unresolved \in BOOLEAN :
              /\ \A p \in i.policies \ app : p.filtered
              /\ tx' = [tx EXCEPT ![c] = FreshTx(k, i, app, unresolved)]
              /\ pc' = [pc EXCEPT ![c] =
                         IF LockSubjects(app) = {} THEN "eval" ELSE "locking"]
        BY <2>3 DEF ReserveBegin
      <3>2. tx'[c] = FreshTx(k, i, app, unresolved)
        BY <3>1 DEF TypeOK
      <3>3. /\ tx'[c].intent = i /\ tx'[c].policies = app
            /\ tx'[c].breached = {p \in {q \in app : ~Rolling(q)} : Breaches(p, i, 0)}
            /\ tx'[c].approving = {p \in {q \in app : ~Rolling(q)} : NeedsApproval(p, i, 0)}
        BY <3>2 DEF FreshTx
      <3>4. VerdictOf(tx'[c])
        BY <3>1, <3>3 DEF VerdictOf
      <3>5. \A d \in InFlight' \ {c} : d \in InFlight /\ tx'[d] = tx[d]
        BY <3>1 DEF TypeOK, InFlight
      <3> QED
        BY <3>4, <3>5 DEF VerdictInv
    <2> QED
      BY <2>1, <2>2, <2>3
  <1>2. ASSUME NEW c \in Calls, ReserveLock(c) \/ ReadLedger(c) \/ ReadPending(c)
        PROVE  VerdictInv'
    <2>1. c \in InFlight /\ tx[c] \in Tx
      BY <1>2 DEF ReserveLock, ReadLedger, ReadPending, InFlight, TypeOK
    <2>2. PICK y : tx' = [tx EXCEPT ![c] = y]
      BY <1>2 DEF ReserveLock, ReadLedger, ReadPending
    <2>3. /\ tx'[c].intent = tx[c].intent /\ tx'[c].policies = tx[c].policies
          /\ tx[c].breached \subseteq tx'[c].breached
          /\ tx[c].approving \subseteq tx'[c].approving
      <3>1. CASE ReserveLock(c)
        BY <2>1, <3>1 DEF ReserveLock, TypeOK, Tx
      <3>2. CASE ReadLedger(c)
        BY <2>1, <3>2 DEF ReadLedger, TypeOK, Tx
      <3>3. CASE ReadPending(c)
        <4>1. tx'[c] = Judged(c)
          BY <2>1, <3>3 DEF ReadPending, TypeOK
        <4> QED
          BY <2>1, <4>1 DEF Judged, Tx
      <3> QED
        BY <1>2, <3>1, <3>2, <3>3
    <2>4. \A d \in InFlight' \ {c} : d \in InFlight /\ tx'[d] = tx[d]
      BY <1>2, <2>2 DEF ReserveLock, ReadLedger, ReadPending, TypeOK, InFlight
    <2>5. VerdictOf(tx'[c])
      BY <2>1, <2>3, VerdictGrows DEF VerdictInv
    <2> QED
      BY <2>4, <2>5 DEF VerdictInv
  <1>3. ASSUME NEW c \in Calls, \/ ReserveDeny(c) \/ ReserveDuplicate(c)
                                \/ ReserveInsert(c) \/ ReserveAbort(c)
        PROVE VerdictInv'
    BY <1>3, VerdictAnswer
    DEF ReserveDeny, ReserveDuplicate, ReserveInsert, ReserveAbort, AnswerTx
  <1>4. CASE UNCHANGED <<pc, tx>>
    BY <1>4 DEF VerdictInv, InFlight
  <1> QED
    BY <1>1, <1>2, <1>3, <1>4
    DEF Next, ReserveStep, vars, rpc, Commit, Activate, Release, Reverse,
        ReaperList, ReaperExpire, ArchiveReservation, ArchiveLedger, Tick

\* A row is judged: what GrantRespectsRules asks of a new hold.
RuleBound(w) ==
  w.status \in Holding =>
    /\ \A p \in w.intent.policies \ w.policies : p.filtered
    /\ \A p \in Enforced(w.policies) :
         /\ ~w.shadow
         /\ \/ Rolling(p)
            \/ ~Exceeds(p, w.intent, 0)
            \/ w.status = "pending_approval" /\ TiersCover(p, w.intent)

\* The row a granting Reserve inserts is judged.
LEMMA GrantJudged ==
  ASSUME TypeOK, VerdictInv, NEW c \in InFlight, ~HardBreach(c)
  PROVE  RuleBound(NewRow(c))
  <1> DEFINE x == tx[c]
  <1>1. VerdictOf(x) /\ Enforced(x.breached) = {}
    BY DEF VerdictInv, HardBreach
  <1>2. /\ NewRow(c).intent = x.intent /\ NewRow(c).policies = x.policies
        /\ NewRow(c).status = IF Enforced(x.approving) # {} THEN "pending_approval" ELSE "active"
        /\ NewRow(c).shadow =
             (Enforced(x.policies) = {} /\ x.breached \union x.approving # {})
    BY DEF NewRow
  <1> HIDE DEF x
  <1>3. ASSUME NEW p \in Enforced(x.policies), ~Rolling(p), Exceeds(p, x.intent, 0)
        PROVE  NewRow(c).status = "pending_approval" /\ TiersCover(p, x.intent)
    <2>1. p \in x.policies /\ p.mode = "enforce"
      BY DEF Enforced
    <2>2. ~Breaches(p, x.intent, 0)
      BY <1>1, <1>3, <2>1 DEF VerdictOf, Enforced
    <2>3. NeedsApproval(p, x.intent, 0)
      BY <1>3, <2>2 DEF Breaches
    <2>4. p \in Enforced(x.approving)
      BY <1>1, <1>3, <2>1, <2>3 DEF VerdictOf, Enforced
    <2> QED
      BY <1>2, <2>3, <2>4 DEF NeedsApproval
  <1>4. \A p \in Enforced(x.policies) : ~NewRow(c).shadow
    BY <1>2
  <1> QED
    BY <1>1, <1>2, <1>3, <1>4 DEF RuleBound, VerdictOf

LEMMA RulesStep ==
  TypeOK /\ VerdictInv /\ [Next]_vars => \A r \in Unborn : RuleBound(resv'[r])
  <1> SUFFICES ASSUME TypeOK, VerdictInv, [Next]_vars, NEW r \in Unborn
               PROVE  RuleBound(resv'[r])
    OBVIOUS
  <1>1. r \in Ids /\ resv[r].status = "none"
    BY DEF Unborn
  <1>2. "none" \notin Holding /\ "reversed" \notin Holding
    BY DEF Holding
  <1>3. CASE resv'[r] = resv[r]
    BY <1>1, <1>2, <1>3 DEF RuleBound
  <1>4. ASSUME NEW c \in Calls, ReserveInsert(c) PROVE RuleBound(resv'[r])
    <2>1. resv'[r] = resv[r] \/ resv'[r] = NewRow(c)
      BY <1>1, <1>4 DEF ReserveInsert, TypeOK
    <2>2. c \in InFlight /\ ~HardBreach(c)
      BY <1>4 DEF ReserveInsert, Evaluated, InFlight
    <2> QED
      BY <1>3, <2>1, <2>2, GrantJudged
  <1>5. ASSUME NEW s \in Ids, NEW k \in Keys, Reverse(s, k) PROVE RuleBound(resv'[r])
    <2>1. resv[s] \in Row /\ resv[s].status = "committed" /\ s # r
      BY <1>1, <1>5 DEF Reverse, TypeOK, NoRow
    <2>2. resv'[r] = resv[r] \/ resv'[r] = Trace(s, k)
      BY <1>1, <1>5, <2>1 DEF Reverse, TypeOK
    <2>3. Trace(s, k).status = "reversed"
      BY <2>1 DEF Trace, Row
    <2> QED
      BY <1>2, <1>3, <2>2, <2>3 DEF RuleBound
  <1>6. ASSUME NEW s \in Ids, Commit(s) \/ Activate(s) \/ Release(s) \/ ArchiveReservation(s)
        PROVE  resv'[r] = resv[r]
    <2>1. s # r
      BY <1>1, <1>6 DEF Commit, Activate, Release, ArchiveReservation, Holding, Terminal
    <2> QED
      BY <1>1, <1>6, <2>1
      DEF Commit, Activate, Release, ArchiveReservation, SetStatus, TypeOK
  <1>7. ASSUME ReaperExpire PROVE resv'[r] = resv[r]
    BY <1>1, <1>7 DEF ReaperExpire, Expirable, TypeOK
  <1>8. CASE resv' = resv
    BY <1>3, <1>8
  <1> QED
    BY <1>3, <1>4, <1>5, <1>6, <1>7, <1>8
    DEF Next, ReserveStep, vars, ReserveLookup, ReserveLock, ReadLedger, ReadPending,
        ReserveDeny, ReserveDuplicate, ReserveAbort, ArchiveLedger, ReaperList, Tick

\* Nothing is granted past the rules, however Reserves interleave: every enforced
\* policy of the intent applied (or is filtered), and each per-transaction limit
\* is met or waits for approvers of a tier that covers the amount
\* (reservation.go steps 2 to 11).
THEOREM GrantsAreJudged == Spec => GrantRespectsRules
  <1>1. TypeOK /\ VerdictInv /\ [Next]_vars =>
          [\A r \in Unborn :
             LET w == resv'[r]
             IN w.status \in Holding =>
                  /\ \A p \in w.intent.policies \ w.policies : p.filtered
                  /\ \A p \in Enforced(w.policies) :
                       /\ ~w.shadow
                       /\ \/ Rolling(p)
                          \/ ~Exceeds(p, w.intent, 0)
                          \/ w.status = "pending_approval" /\ TiersCover(p, w.intent)
          ]_vars
    BY RulesStep DEF RuleBound
  <1>2. Frame => TypeOK
    BY DEF Frame
  <1> QED
    BY <1>1, <1>2, VerdictInit, VerdictStep, FrameAlways, PTL DEF Spec, GrantRespectsRules

-----------------------------------------------------------------------------
(* LimitsApproval, for any set of requests, users, calls and reaper replicas *)


Tables == Requests \union {Resv}

-----------------------------------------------------------------------------
(* The inductive invariant *)

\* A transaction past its row lock still finds the request pending, because
\* every writer of a request holds its row lock.
RowsPending ==
  /\ \A q \in Requests : row[q] # NoProc => req[q] = "pending"
  /\ \A p \in Procs : at[p] \in {"quorum", "ruled", "expiring"} =>
       job[p].q \in Requests /\ row[job[p].q] = p

\* What a Decide in progress has checked and not lost since.
Sound(p) ==
  /\ at[p] \in {"checked", "quorum", "ruled"} =>
       /\ job[p].q \in Requests
       /\ job[p].by # Maker
       /\ job[p].decision \in {"approve", "reject"}
  /\ at[p] = "quorum" => job[p].decision = "approve" /\ Quorum(p)
  /\ at[p] = "ruled" =>
       \/ job[p].outcome = "rejected"
       \/ job[p].outcome = "auto_rejected_on_recheck"
       \/ /\ job[p].outcome = "approved"
          /\ job[p].decision = "approve" /\ Quorum(p)
       \/ /\ job[p].outcome = "activate"
          /\ job[p].decision = "approve" /\ Quorum(p) /\ PeersApproved(p)

JobsSound == \A p \in Procs : Sound(p)

\* A Release keeps the reservation row locked while it cancels the requests.
ReleaseHolds ==
  \A p \in Procs : at[p] \in {"released", "cancel"} =>
    row[Resv] = p /\ hold \in HoldOpen

VotesSound ==
  \A q \in Requests :
    /\ Maker \notin Approvers(q)
    /\ req[q] \in {"pending", "approved"} => Rejecters(q) = {}
    /\ req[q] = "approved" => Cardinality(Approvers(q)) >= Required[q]

\* Before Reserve there is nothing to decide, release or expire.
NothingYet ==
  hold = "none" =>
    /\ \A p \in Procs : at[p] = "idle"
    /\ \A q \in Requests : req[q] = "pending"

AllApproved ==
  hold \in {"active", "committed", "expired"} =>
    \A q \in Requests : req[q] = "approved"

Locks == RowsPending /\ JobsSound /\ ReleaseHolds
Facts == VotesSound /\ NothingYet /\ AllApproved /\ RefusalReleases

IInv == Types /\ Locks /\ Facts

LEMMA InvImplies == IInv => UsableOnlyWhenApproved
  BY DEF IInv, Facts, VotesSound, AllApproved, UsableOnlyWhenApproved

LEMMA InvInit == ApprovalInit => IInv
  <1> SUFFICES ASSUME ApprovalInit PROVE IInv
    OBVIOUS
  <1> USE DEF ApprovalInit
  <1>1. Types
    <2>1. NoJob \in Job
      BY UsersAssumption DEF Job, NoJob
    <2>2. faults \in 0..MaxFaults
      BY FaultsAssumption
    <2> QED
      BY <2>1, <2>2 DEF Types
  <1>2. Locks
    BY DEF Locks, RowsPending, JobsSound, Sound, ReleaseHolds
  <1>3. Facts
    BY DEF Facts, VotesSound, Approvers, Rejecters, VotesOf, NothingYet, AllApproved,
           RefusalReleases, Refused
  <1> QED
    BY <1>1, <1>2, <1>3 DEF IInv

-----------------------------------------------------------------------------
(* Transactions that end or go on without having changed the data *)

LEMMA EndType ==
  ASSUME Types, NEW p \in Procs, End(p)
  PROVE  /\ at' \in [Procs -> {"idle", "checked", "quorum", "ruled", "released",
                               "cancel", "reaping", "expiring", "done"}]
         /\ job' \in [Procs -> Job]
         /\ row' \in [Tables -> Procs \union {NoProc}]
  BY UsersAssumption DEF Types, End, Tables, Job, NoJob

LEMMA BatchType ==
  ASSUME Types, NEW p \in Procs, NextInBatch(p)
  PROVE  /\ at' \in [Procs -> {"idle", "checked", "quorum", "ruled", "released",
                               "cancel", "reaping", "expiring", "done"}]
         /\ job' \in [Procs -> Job]
         /\ row' \in [Tables -> Procs \union {NoProc}]
  BY UsersAssumption DEF Types, NextInBatch, Tables, Job, NoJob

\* Ending a transaction disturbs no other one.
LEMMA EndLocks ==
  ASSUME IInv, NEW p \in Procs, End(p) \/ NextInBatch(p), UNCHANGED data
  PROVE  Locks'
  <1> USE DEF IInv, Locks
  <1>1. \A o \in Procs \ {p} :
          at'[o] = at[o] /\ job'[o] = job[o]
    BY DEF End, NextInBatch, Types
  <1>2. at'[p] \in {"idle", "done", "reaping"}
    BY DEF End, NextInBatch, Types
  <1>3. \A x \in Tables : row'[x] = IF row[x] = p THEN NoProc ELSE row[x]
    BY DEF End, NextInBatch, Tables
  <1>4. p # NoProc
    BY ProcsAssumption DEF Procs
  <1>5. RowsPending'
    BY <1>1, <1>2, <1>3, <1>4 DEF RowsPending, data, Tables
  <1>6. JobsSound'
    BY SMTT(45), <1>1, <1>2 DEF JobsSound, Sound, Quorum, PeersApproved, Approvers, VotesOf, data
  <1>7. ReleaseHolds'
    BY <1>1, <1>2, <1>3 DEF ReleaseHolds, data, Tables
  <1> QED
    BY <1>5, <1>6, <1>7

\* With the same data and nothing started before Reserve, the facts stay.
LEMMA SameData ==
  ASSUME IInv, UNCHANGED data,
         hold # "none" \/ \A p \in Procs : at'[p] = "idle"
  PROVE  Facts'
  BY DEF IInv, Facts, VotesSound, Approvers, Rejecters, VotesOf, NothingYet,
         AllApproved, RefusalReleases, data

LEMMA EndKeeps ==
  ASSUME IInv, NEW p \in Procs, End(p) \/ NextInBatch(p), UNCHANGED data,
         at[p] # "idle", faults' \in 0..MaxFaults
  PROVE  IInv'
  <1>1. Types'
    BY EndType, BatchType DEF IInv, Types, data, Tables
  <1>2. Locks'
    BY EndLocks
  <1>3. hold # "none"
    BY DEF IInv, Facts, NothingYet
  <1> QED
    BY <1>1, <1>2, <1>3, SameData DEF IInv

-----------------------------------------------------------------------------
(* Decide *)

\* The votes after a decision lands.
LEMMA Tally ==
  ASSUME Types, NEW p \in Procs, NEW a \in Requests, a = job[p].q,
         votes' = [votes EXCEPT ![job[p].q] = @ \union {Vote(p)}]
  PROVE  /\ \A q \in Requests \ {a} :
              Approvers(q)' = Approvers(q) /\ Rejecters(q)' = Rejecters(q)
         /\ job[p].decision = "approve" =>
              /\ Approvers(a)' = Approvers(a) \union {job[p].by}
              /\ Rejecters(a)' = Rejecters(a)
         /\ job[p].decision = "reject" =>
              Approvers(a)' = Approvers(a)
  <1>1. votes'[a] = votes[a] \union {Vote(p)}
    BY DEF Types
  <1>2. \A q \in Requests \ {a} : votes'[q] = votes[q]
    BY DEF Types
  <1>3. job[p].by \in Users
    BY DEF Types, Job
  <1>4. \A v \in Users, d \in {"approve", "reject"} :
          [by |-> v, decision |-> d] = Vote(p)
            <=> v = job[p].by /\ d = job[p].decision
    BY DEF Vote
  <1>5. \A v \in Users, d \in {"approve", "reject"} :
          v \in VotesOf(a, d)' <=>
            v \in VotesOf(a, d) \/ (v = job[p].by /\ d = job[p].decision)
    BY <1>1, <1>4 DEF VotesOf
  <1>6. \A q \in Requests \ {a}, d \in {"approve", "reject"} :
          VotesOf(q, d)' = VotesOf(q, d)
    BY <1>2 DEF VotesOf
  <1>7. \A d \in {"approve", "reject"} :
          VotesOf(a, d) \subseteq Users /\ VotesOf(a, d)' \subseteq Users
    BY DEF VotesOf
  <1>8. ASSUME job[p].decision = "approve"
        PROVE  /\ Approvers(a)' = Approvers(a) \union {job[p].by}
               /\ Rejecters(a)' = Rejecters(a)
    BY <1>3, <1>5, <1>7, <1>8 DEF Approvers, Rejecters
  <1>9. ASSUME job[p].decision = "reject"
        PROVE  Approvers(a)' = Approvers(a)
    BY <1>3, <1>5, <1>7, <1>9 DEF Approvers
  <1> QED
    BY <1>6, <1>8, <1>9 DEF Approvers, Rejecters

LEMMA CheckStep ==
  ASSUME IInv, NEW p \in Deciders, DecideCheck(p)
  PROVE  IInv'
  <1>1. p \in Procs
    BY DEF Procs
  <1>2. Types'
    <2>1. PICK q \in Requests, v \in Users, d \in {"approve", "reject"} :
            job' = [job EXCEPT ![p] = [NoJob EXCEPT !.q = q, !.by = v, !.decision = d]]
      BY DEF DecideCheck
    <2>2. [NoJob EXCEPT !.q = q, !.by = v, !.decision = d] \in Job
      BY DEF Job, NoJob
    <2>3. job' \in [Procs -> Job]
      BY <2>1, <2>2 DEF IInv, Types
    <2> QED
      BY <1>1, <2>3 DEF IInv, Types, DecideCheck, data
  <1>3. \A o \in Procs \ {p} : at'[o] = at[o] /\ job'[o] = job[o]
    BY DEF IInv, Types, DecideCheck
  <1>4. /\ at'[p] = "checked" /\ job'[p].q \in Requests /\ job'[p].by # Maker
        /\ job'[p].decision \in {"approve", "reject"}
    BY <1>1 DEF IInv, Types, DecideCheck, NoJob
  <1>5. RowsPending'
    BY <1>3, <1>4 DEF IInv, Locks, RowsPending, DecideCheck, data
  <1>6. JobsSound'
    BY <1>3, <1>4 DEF IInv, Locks, JobsSound, Sound, Quorum, PeersApproved,
       Approvers, VotesOf, DecideCheck, data
  <1>7. ReleaseHolds'
    BY <1>3, <1>4 DEF IInv, Locks, ReleaseHolds, DecideCheck, data
  <1>8. Facts'
    BY SameData DEF DecideCheck
  <1> QED
    BY <1>2, <1>5, <1>6, <1>7, <1>8 DEF IInv, Locks

LEMMA VoteStep ==
  ASSUME IInv, NEW p \in Deciders, DecideVote(p)
  PROVE  IInv'
  <1>1. p \in Procs /\ p # NoProc
    BY ProcsAssumption DEF Procs
  <1>0. PICK a \in Requests : a = job[p].q
    BY <1>1 DEF IInv, Locks, JobsSound, Sound, DecideVote
  <1>2. /\ job[p].by # Maker /\ req[a] = "pending"
        /\ row[a] = NoProc /\ job[p].decision = "approve"
    BY <1>0, <1>1 DEF IInv, Locks, JobsSound, Sound, DecideVote, Votable
  <1>3. /\ \A q \in Requests \ {a} :
              Approvers(q)' = Approvers(q) /\ Rejecters(q)' = Rejecters(q)
        /\ Approvers(a)' = Approvers(a) \union {job[p].by}
        /\ Rejecters(a)' = Rejecters(a)
    BY <1>0, <1>1, <1>2, Tally DEF IInv, DecideVote
  <1>4. Types'
    <2>1. Vote(p) \in [by : Users, decision : {"none", "approve", "reject"}]
      BY <1>1 DEF IInv, Types, Job, Vote
    <2>2. votes' \in [Requests ->
            SUBSET [by : Users, decision : {"none", "approve", "reject"}]]
      BY <2>1, <1>0 DEF IInv, Types, DecideVote
    <2> QED
      BY <1>1, <2>2, EndType DEF IInv, Types, DecideVote, Tables
  <1>5. \A o \in Procs \ {p} : at'[o] = at[o] /\ job'[o] = job[o]
    BY DEF IInv, Types, DecideVote, End
  <1>6. at'[p] \in {"idle", "done"}
    BY <1>1 DEF IInv, Types, DecideVote, End
  <1>7. \A x \in Tables : row'[x] = IF row[x] = p THEN NoProc ELSE row[x]
    BY DEF DecideVote, End, Tables
  <1>8. RowsPending'
    BY <1>1, <1>5, <1>6, <1>7 DEF IInv, Locks, RowsPending, DecideVote, Tables
  <1>9. \A o \in Procs \ {p} :
          at[o] \in {"quorum", "ruled"} => job[o].q \in Requests /\ job[o].q # a
    BY <1>2, ProcsAssumption DEF IInv, Locks, RowsPending, Procs
  <1>10. JobsSound'
    <2> SUFFICES ASSUME NEW o \in Procs PROVE Sound(o)'
      BY DEF JobsSound
    <2>1. CASE o = p
      BY <2>1, <1>6 DEF Sound
    <2>2. CASE o # p
      <3>1. Sound(o) /\ at'[o] = at[o] /\ job'[o] = job[o]
        BY <2>2, <1>5 DEF IInv, Locks, JobsSound
      <3>2. at[o] \in {"quorum", "ruled"} =>
              (Quorum(o)' <=> Quorum(o)) /\ (PeersApproved(o)' <=> PeersApproved(o))
        BY <2>2, <3>1, <1>3, <1>9 DEF Quorum, PeersApproved, DecideVote
      <3> QED
        BY <3>1, <3>2 DEF Sound
    <2> QED
      BY <2>1, <2>2
  <1>11. ReleaseHolds'
    BY <1>5, <1>6, <1>7 DEF IInv, Locks, ReleaseHolds, DecideVote, Tables
  <1>12. VotesSound'
    <2> SUFFICES ASSUME NEW q \in Requests
                 PROVE  /\ Maker \notin Approvers(q)'
                        /\ req'[q] \in {"pending", "approved"} => Rejecters(q)' = {}
                        /\ req'[q] = "approved" => Cardinality(Approvers(q)') >= Required[q]
      BY DEF VotesSound
    <2>1. CASE q # a
      BY <2>1, <1>3 DEF IInv, Facts, VotesSound, DecideVote
    <2>2. CASE q = a
      BY <2>2, <1>2, <1>3 DEF IInv, Facts, VotesSound, DecideVote
    <2> QED
      BY <2>1, <2>2
  <1>13. NothingYet' /\ AllApproved' /\ RefusalReleases'
    <2>1. hold # "none"
      BY <1>1 DEF IInv, Facts, NothingYet, DecideVote
    <2> QED
      BY <2>1 DEF IInv, Facts, NothingYet, AllApproved, RefusalReleases, DecideVote
  <1> QED
    BY <1>4, <1>8, <1>10, <1>11, <1>12, <1>13 DEF IInv, Locks, Facts

\* The request row is free, so its transaction owns it from here on.
LEMMA LockStep ==
  ASSUME IInv, NEW p \in Deciders, DecideLock(p)
  PROVE  IInv'
  <1>1. p \in Procs /\ p # NoProc /\ Resv \notin Requests
    BY ProcsAssumption, RequestsAssumption DEF Procs
  <1>0. PICK a \in Requests : a = job[p].q
    BY <1>1 DEF IInv, Locks, JobsSound, Sound, DecideLock
  <1>2. /\ job[p].by # Maker /\ req[a] = "pending"
        /\ row[a] = NoProc /\ job[p].decision \in {"approve", "reject"}
    BY <1>0, <1>1 DEF IInv, Locks, JobsSound, Sound, DecideLock, Votable
  <1>3. /\ \A o \in Procs \ {p} : at'[o] = at[o] /\ job'[o] = job[o]
        /\ \A x \in Tables \ {a} : row'[x] = row[x]
        /\ row'[a] = p
    BY <1>0, <1>1, <1>2 DEF IInv, Types, DecideLock, Tables
  <1>4. /\ at'[p] = IF job[p].decision = "approve" THEN "quorum" ELSE "ruled"
        /\ job'[p] = [job[p] EXCEPT !.outcome =
             IF job[p].decision = "approve" THEN "none" ELSE "rejected"]
    BY <1>1 DEF IInv, Types, DecideLock
  <1>5. Types'
    <2>1. job[p] \in Job
      BY <1>1 DEF IInv, Types
    <2>2. job'[p] \in Job
      BY <1>4, <2>1 DEF Job, Refused
    <2>3. job' \in [Procs -> Job]
      BY <1>1, <2>2 DEF IInv, Types, DecideLock
    <2> QED
      BY <1>1, <2>3 DEF IInv, Types, DecideLock, data
  <1>6. RowsPending'
    <2>1. job'[p].q = a
      BY <1>0, <1>1, <1>4 DEF IInv, Types, Job
    <2>2. \A o \in Procs \ {p} : at[o] \in {"quorum", "ruled", "expiring"} =>
            job[o].q \in Requests \ {a} /\ row[job[o].q] = o
      BY <1>2, ProcsAssumption DEF IInv, Locks, RowsPending, Procs
    <2> QED
      BY <1>1, <1>2, <1>3, <2>1, <2>2 DEF IInv, Locks, RowsPending, DecideLock, data, Tables
  <1>7. JobsSound'
    <2> SUFFICES ASSUME NEW o \in Procs PROVE Sound(o)'
      BY DEF JobsSound
    <2>1. CASE o # p
      BY <2>1, <1>3 DEF IInv, Locks, JobsSound, Sound, Quorum, PeersApproved,
         Approvers, VotesOf, VotesOf, DecideLock, data
    <2>2. CASE o = p
      <3>1. /\ job'[p].q = a /\ job'[p].by = job[p].by
            /\ job'[p].decision = job[p].decision
            /\ job'[p].outcome =
                 IF job[p].decision = "approve" THEN "none" ELSE "rejected"
        BY <1>0, <1>1, <1>4 DEF IInv, Types, Job
      <3>2. job[p].decision = "approve" => Quorum(p)'
        BY <3>1 DEF Quorum, Approvers, VotesOf, DecideLock, data
      <3> QED
        BY <2>2, <1>2, <1>4, <3>1, <3>2 DEF Sound
    <2> QED
      BY <2>1, <2>2
  <1>8. ReleaseHolds'
    BY <1>1, <1>2, <1>3, <1>4 DEF IInv, Locks, ReleaseHolds, DecideLock, data, Tables
  <1>9. hold # "none"
    BY <1>1 DEF IInv, Facts, NothingYet, DecideLock
  <1> QED
    BY <1>5, <1>6, <1>7, <1>8, <1>9, SameData DEF IInv, Locks, DecideLock

LEMMA ReadStep ==
  ASSUME IInv, NEW p \in Deciders, ReadPeers(p)
  PROVE  IInv'
  <1>1. p \in Procs
    BY DEF Procs
  <1>2. /\ \A o \in Procs \ {p} : at'[o] = at[o] /\ job'[o] = job[o]
        /\ at'[p] = "ruled"
    BY <1>1 DEF IInv, Types, ReadPeers
  <1>3. /\ job'[p].q = job[p].q /\ job'[p].by = job[p].by
        /\ job'[p].decision = job[p].decision
        /\ \/ job'[p].outcome = "auto_rejected_on_recheck"
           \/ job'[p].outcome = "activate" /\ PeersApproved(p)
           \/ job'[p].outcome = "approved"
    BY <1>1 DEF IInv, Types, Job, ReadPeers
  <1>4. Types'
    <2>1. job'[p] \in Job
      <3>1. job'[p] = [job[p] EXCEPT !.outcome = job'[p].outcome]
        BY <1>1 DEF IInv, Types, Job, ReadPeers
      <3> QED
        BY <1>1, <1>3, <3>1 DEF IInv, Types, Job, Refused
    <2> QED
      BY <1>1, <2>1 DEF IInv, Types, ReadPeers, data
  <1>5. RowsPending' /\ ReleaseHolds'
    BY <1>2, <1>3 DEF IInv, Locks, RowsPending, ReleaseHolds, ReadPeers, data
  <1>6. JobsSound'
    <2> SUFFICES ASSUME NEW o \in Procs PROVE Sound(o)'
      BY DEF JobsSound
    <2>1. CASE o # p
      BY <2>1, <1>2 DEF IInv, Locks, JobsSound, Sound, Quorum, PeersApproved,
         Approvers, VotesOf, VotesOf, ReadPeers, data
    <2>2. CASE o = p
      <3>1. Sound(p) /\ at[p] = "quorum"
        BY <1>1 DEF IInv, Locks, JobsSound, ReadPeers
      <3>2. Quorum(p)' /\ (PeersApproved(p)' <=> PeersApproved(p))
        BY <1>3, <3>1 DEF Sound, Quorum, PeersApproved, Approvers, VotesOf, ReadPeers, data
      <3> QED
        BY <2>2, <1>2, <1>3, <3>1, <3>2 DEF Sound
    <2> QED
      BY <2>1, <2>2
  <1>7. hold # "none"
    BY <1>1 DEF IInv, Facts, NothingYet, ReadPeers
  <1> QED
    BY <1>4, <1>5, <1>6, <1>7, SameData DEF IInv, Locks, ReadPeers

\* What any request settled by the holder of its row lock leaves behind for
\* the other transactions.
LEMMA OthersKept ==
  ASSUME IInv, NEW p \in Procs, NEW a \in Requests, row[a] = p,
         End(p) \/ NextInBatch(p),
         \A q \in Requests \ {a} :
           req'[q] = req[q] /\ Approvers(q)' = Approvers(q),
         NEW o \in Procs \ {p}
  PROVE  Sound(o)'
  <1>1. at'[o] = at[o] /\ job'[o] = job[o]
    BY DEF End, NextInBatch, IInv, Types
  <1>2. Sound(o)
    BY DEF IInv, Locks, JobsSound
  <1>3. at[o] \in {"quorum", "ruled"} => job[o].q \in Requests \ {a}
    BY DEF IInv, Locks, RowsPending
  <1>4. at[o] \in {"quorum", "ruled"} => (Quorum(o)' <=> Quorum(o))
    BY <1>1, <1>3 DEF Quorum
  <1>5. req[a] = "pending"
    BY ProcsAssumption DEF IInv, Locks, RowsPending, Procs
  <1>6. at[o] \in {"quorum", "ruled"} => (PeersApproved(o) => PeersApproved(o)')
    BY <1>1, <1>3, <1>5 DEF PeersApproved
  <1> QED
    BY <1>1, <1>2, <1>4, <1>6 DEF Sound

\* Settling one's own request and letting go of its row.
LEMMA SettledLocks ==
  ASSUME IInv, NEW p \in Procs, NEW a \in Requests, row[a] = p,
         at[p] \in {"ruled", "expiring"},
         End(p) \/ NextInBatch(p),
         \A q \in Requests \ {a} :
           req'[q] = req[q] /\ Approvers(q)' = Approvers(q),
         hold' = hold \/ row[Resv] = NoProc
  PROVE  Locks'
  <1>1. p # NoProc
    BY ProcsAssumption DEF Procs
  <1>2. \A o \in Procs \ {p} : at'[o] = at[o] /\ job'[o] = job[o]
    BY DEF End, NextInBatch, IInv, Types
  <1>3. at'[p] \in {"idle", "done", "reaping"}
    BY DEF End, NextInBatch, IInv, Types
  <1>4. \A x \in Tables : row'[x] = IF row[x] = p THEN NoProc ELSE row[x]
    BY DEF End, NextInBatch, Tables
  <1>5. RowsPending'
    BY <1>1, <1>2, <1>3, <1>4 DEF IInv, Locks, RowsPending, Tables
  <1>6. JobsSound'
    <2>1. Sound(p)'
      BY <1>3 DEF Sound
    <2> QED
      BY <2>1, OthersKept DEF JobsSound
  <1>7. ReleaseHolds'
    <2>1. \A o \in Procs : at[o] \in {"released", "cancel"} => o # NoProc
      BY ProcsAssumption DEF Procs
    <2> QED
      BY <2>1, <1>2, <1>3, <1>4 DEF IInv, Locks, ReleaseHolds, Tables
  <1> QED
    BY <1>5, <1>6, <1>7 DEF Locks

LEMMA SettleType ==
  ASSUME IInv, NEW p \in Procs, NEW s \in Refused \union {"approved"},
         NEW a \in Requests, a = job[p].q, Settle(p, s),
         hold' \in HoldOpen \union {"none", "committed", "released", "expired"}
  PROVE  Types'
  <1>1. Vote(p) \in [by : Users, decision : {"none", "approve", "reject"}]
    BY DEF IInv, Types, Job, Vote
  <1>2. votes' \in [Requests ->
          SUBSET [by : Users, decision : {"none", "approve", "reject"}]]
    BY <1>1 DEF IInv, Types, Settle
  <1>3. req' \in [Requests -> Refused \union {"pending", "approved"}]
    BY DEF IInv, Types, Settle
  <1> QED
    BY <1>2, <1>3, EndType DEF IInv, Types, Settle, Tables

\* A transaction about to rule owns the row of a pending request.
LEMMA Ruling ==
  ASSUME IInv, NEW p \in Procs, at[p] = "ruled"
  PROVE  \E a \in Requests :
           /\ a = job[p].q /\ row[a] = p /\ req[a] = "pending"
           /\ job[p].by # Maker /\ hold # "none"
           /\ hold \notin {"active", "committed", "expired"}
  BY ProcsAssumption
     DEF IInv, Locks, RowsPending, JobsSound, Sound, Facts, NothingYet,
         AllApproved, Procs

\* A request gets its last approval.
LEMMA ApproveStep ==
  ASSUME IInv, NEW p \in Procs, at[p] = "ruled",
         job[p].outcome \in {"approved", "activate"},
         Settle(p, "approved"),
         \/ UNCHANGED hold
         \/ /\ job[p].outcome = "activate"
            /\ row[Resv] = NoProc /\ hold = "pending_approval" /\ hold' = "active"
  PROVE  IInv'
  <1>1. PICK a \in Requests :
          /\ a = job[p].q /\ row[a] = p /\ req[a] = "pending"
          /\ job[p].by # Maker /\ hold # "none"
          /\ hold \notin {"active", "committed", "expired"}
    BY Ruling
  <1>2. /\ job[p].decision = "approve" /\ Quorum(p)
        /\ job[p].outcome = "activate" => PeersApproved(p)
    BY DEF IInv, Locks, JobsSound, Sound
  <1>3. /\ \A q \in Requests \ {a} :
             Approvers(q)' = Approvers(q) /\ Rejecters(q)' = Rejecters(q)
        /\ Approvers(a)' = Approvers(a) \union {job[p].by}
        /\ Rejecters(a)' = Rejecters(a)
    BY <1>1, <1>2, Tally DEF IInv, Settle
  <1>4. req'[a] = "approved" /\ \A q \in Requests \ {a} : req'[q] = req[q]
    BY <1>1 DEF IInv, Types, Settle
  <1>5. Types'
    BY <1>1, SettleType DEF IInv, Types, HoldOpen
  <1>6. Locks'
    BY <1>1, <1>3, <1>4, SettledLocks DEF Settle
  <1>7. VotesSound'
    <2> SUFFICES ASSUME NEW q \in Requests
                 PROVE  /\ Maker \notin Approvers(q)'
                        /\ req'[q] \in {"pending", "approved"} => Rejecters(q)' = {}
                        /\ req'[q] = "approved" => Cardinality(Approvers(q)') >= Required[q]
      BY DEF VotesSound
    <2>1. CASE q # a
      BY <2>1, <1>3, <1>4 DEF IInv, Facts, VotesSound
    <2>2. CASE q = a
      <3>1. Cardinality(Approvers(a)') >= Required[a]
        BY <1>1, <1>2, <1>3 DEF Quorum
      <3> QED
        BY <2>2, <3>1, <1>1, <1>3 DEF IInv, Facts, VotesSound
    <2> QED
      BY <2>1, <2>2
  <1>8. NothingYet'
    BY <1>1 DEF NothingYet
  <1>9. AllApproved'
    BY <1>1, <1>2, <1>4 DEF AllApproved, PeersApproved
  <1>10. RefusalReleases'
    <2>1. \A q \in Requests : req'[q] \in Refused => req[q] \in Refused
      BY <1>4 DEF Refused
    <2>2. (\E q \in Requests : req[q] \in Refused) => UNCHANGED hold
      BY <1>1 DEF IInv, Facts, RefusalReleases
    <2> QED
      BY <2>1, <2>2 DEF IInv, Facts, RefusalReleases
  <1> QED
    BY <1>5, <1>6, <1>7, <1>8, <1>9, <1>10 DEF IInv, Facts

\* A request is refused and takes the hold with it.
LEMMA RejectStep ==
  ASSUME IInv, NEW p \in Deciders, DecideReject(p)
  PROVE  IInv'
  <1>0. p \in Procs
    BY DEF Procs
  <1>1. PICK a \in Requests :
          /\ a = job[p].q /\ row[a] = p /\ req[a] = "pending"
          /\ job[p].by # Maker /\ hold # "none"
          /\ hold \notin {"active", "committed", "expired"}
    BY <1>0, Ruling DEF DecideReject
  <1>2. job[p].decision \in {"approve", "reject"}
    BY <1>0 DEF IInv, Locks, JobsSound, Sound, DecideReject
  <1>3. /\ \A q \in Requests \ {a} :
             Approvers(q)' = Approvers(q) /\ Rejecters(q)' = Rejecters(q)
        /\ Approvers(a)' \in {Approvers(a), Approvers(a) \union {job[p].by}}
    BY <1>0, <1>1, <1>2, Tally DEF IInv, DecideReject, Settle
  <1>4. /\ req'[a] \in Refused /\ \A q \in Requests \ {a} : req'[q] = req[q]
        /\ hold' = "released"
    BY <1>1 DEF IInv, Types, DecideReject, Settle, ReleasedFrom, HoldOpen
  <1>5. Types'
    BY <1>0, <1>1, <1>4, SettleType DEF DecideReject
  <1>6. Locks'
    BY <1>0, <1>1, <1>3, <1>4, SettledLocks DEF DecideReject, Settle
  <1>7. VotesSound'
    BY <1>1, <1>3, <1>4 DEF IInv, Facts, VotesSound, Refused
  <1>8. NothingYet' /\ AllApproved' /\ RefusalReleases'
    BY <1>4 DEF NothingYet, AllApproved, RefusalReleases
  <1> QED
    BY <1>5, <1>6, <1>7, <1>8 DEF IInv, Facts

LEMMA DecideKeeps ==
  ASSUME IInv, NEW p \in Deciders, DecideStep(p)
  PROVE  IInv'
  <1>0. p \in Procs /\ faults \in 0..MaxFaults
    BY DEF Procs, IInv, Types
  <1>1. CASE DecideRefused(p)
    BY <1>0, <1>1, EndKeeps DEF DecideRefused, Rollback
  <1>2. CASE DecideActivate(p)
    <2>1. CASE hold = "pending_approval"
      BY <1>0, <1>2, <2>1, ApproveStep DEF DecideActivate
    <2>2. CASE hold # "pending_approval"
      BY <1>0, <1>2, <2>2, EndKeeps DEF DecideActivate, Rollback
    <2> QED
      BY <2>1, <2>2
  <1>3. CASE DecideApproved(p)
    BY <1>0, <1>3, ApproveStep DEF DecideApproved
  <1> QED
    BY <1>1, <1>2, <1>3, VoteStep, LockStep, ReadStep, RejectStep DEF DecideStep

-----------------------------------------------------------------------------
(* Release *)

LEMMA BeginStep ==
  ASSUME IInv, NEW p \in Releasers, ReleaseBegin(p)
  PROVE  IInv'
  <1>1. p \in Procs /\ p # NoProc /\ Resv \notin Requests
    BY ProcsAssumption, RequestsAssumption DEF Procs
  <1>2. /\ \A o \in Procs \ {p} : at'[o] = at[o]
        /\ \A x \in Requests : row'[x] = row[x]
        /\ row'[Resv] = p /\ at'[p] = "released" /\ job' = job
    BY <1>1 DEF IInv, Types, ReleaseBegin, Tables
  <1>3. Types'
    BY <1>1 DEF IInv, Types, ReleaseBegin, data
  <1>4. RowsPending'
    BY <1>1, <1>2 DEF IInv, Locks, RowsPending, ReleaseBegin, data
  <1>5. JobsSound'
    <2> SUFFICES ASSUME NEW o \in Procs PROVE Sound(o)'
      BY DEF JobsSound
    <2>1. Sound(o) /\ (o = p => at[o] = "idle")
      BY DEF IInv, Locks, JobsSound, ReleaseBegin
    <2>2. (Quorum(o)' <=> Quorum(o)) /\ (PeersApproved(o)' <=> PeersApproved(o))
      BY <1>2 DEF Quorum, PeersApproved, Approvers, VotesOf, ReleaseBegin, data
    <2> QED
      BY <2>1, <2>2, <1>2 DEF Sound
  <1>6. ReleaseHolds'
    BY <1>1, <1>2, ProcsAssumption
       DEF IInv, Locks, ReleaseHolds, ReleaseBegin, data, Procs
  <1>7. Facts'
    BY SameData DEF ReleaseBegin, HoldOpen
  <1> QED
    BY <1>3, <1>4, <1>5, <1>6, <1>7 DEF IInv, Locks

\* A Release or a reaper that only updates its own list of work.
LEMMA ListStep ==
  ASSUME IInv, NEW p \in Procs, UNCHANGED <<data, row, faults>>, hold # "none",
         at[p] \notin {"quorum", "ruled", "expiring"},
         NEW to \in {"idle", "cancel", "reaping"}, NEW j \in Job,
         at' = [at EXCEPT ![p] = to], job' = [job EXCEPT ![p] = j],
         to = "cancel" => at[p] \in {"released", "cancel"}
  PROVE  IInv'
  <1>1. /\ \A o \in Procs \ {p} : at'[o] = at[o] /\ job'[o] = job[o]
        /\ at'[p] = to
    BY DEF IInv, Types
  <1>2. Types'
    BY DEF IInv, Types, data
  <1>3. RowsPending'
    BY <1>1 DEF IInv, Locks, RowsPending, data
  <1>4. JobsSound'
    <2> SUFFICES ASSUME NEW o \in Procs PROVE Sound(o)'
      BY DEF JobsSound
    <2>1. CASE o = p
      BY <2>1, <1>1 DEF Sound
    <2>2. CASE o # p
      <3>1. Sound(o)
        BY DEF IInv, Locks, JobsSound
      <3>2. (Quorum(o)' <=> Quorum(o)) /\ (PeersApproved(o)' <=> PeersApproved(o))
        BY <2>2, <1>1 DEF Quorum, PeersApproved, Approvers, VotesOf, data
      <3> QED
        BY <2>2, <3>1, <3>2, <1>1 DEF Sound
    <2> QED
      BY <2>1, <2>2
  <1>5. ReleaseHolds'
    BY <1>1 DEF IInv, Locks, ReleaseHolds, data
  <1>6. Facts'
    BY SameData
  <1> QED
    BY <1>2, <1>3, <1>4, <1>5, <1>6 DEF IInv, Locks

\* A transaction takes the free row of a pending request.
LEMMA TakeStep ==
  ASSUME IInv, NEW p \in Procs, UNCHANGED <<data, faults>>, hold # "none",
         at[p] \notin {"quorum", "ruled", "expiring"},
         NEW a \in Requests, row[a] = NoProc, req[a] = "pending",
         NEW to \in {"cancel", "expiring"}, NEW j \in Job,
         row' = [row EXCEPT ![a] = p],
         at' = [at EXCEPT ![p] = to], job' = [job EXCEPT ![p] = j],
         to = "cancel" => at[p] = "cancel",
         to = "expiring" => j.q = a
  PROVE  IInv'
  <1>1. p # NoProc /\ Resv \notin Requests
    BY ProcsAssumption, RequestsAssumption DEF Procs
  <1>2. /\ \A o \in Procs \ {p} : at'[o] = at[o] /\ job'[o] = job[o]
        /\ at'[p] = to /\ job'[p] = j
        /\ \A x \in Tables \ {a} : row'[x] = row[x]
        /\ row'[a] = p
    BY DEF IInv, Types, Tables
  <1>3. Types'
    BY DEF IInv, Types, data
  <1>4. RowsPending'
    <2>1. \A o \in Procs \ {p} : at[o] \in {"quorum", "ruled", "expiring"} =>
            job[o].q \in Requests \ {a} /\ row[job[o].q] = o
      BY ProcsAssumption DEF IInv, Locks, RowsPending, Procs
    <2> QED
      BY <2>1, <1>2 DEF IInv, Locks, RowsPending, data, Tables
  <1>5. JobsSound'
    <2> SUFFICES ASSUME NEW o \in Procs PROVE Sound(o)'
      BY DEF JobsSound
    <2>1. CASE o = p
      BY <2>1, <1>2 DEF Sound
    <2>2. CASE o # p
      <3>1. Sound(o)
        BY DEF IInv, Locks, JobsSound
      <3>2. (Quorum(o)' <=> Quorum(o)) /\ (PeersApproved(o)' <=> PeersApproved(o))
        BY <2>2, <1>2 DEF Quorum, PeersApproved, Approvers, VotesOf, data
      <3> QED
        BY <2>2, <3>1, <3>2, <1>2 DEF Sound
    <2> QED
      BY <2>1, <2>2
  <1>6. ReleaseHolds'
    BY <1>1, <1>2 DEF IInv, Locks, ReleaseHolds, data, Tables
  <1>7. Facts'
    BY SameData
  <1> QED
    BY <1>3, <1>4, <1>5, <1>6, <1>7 DEF IInv, Locks

LEMMA ReleaseCommitStep ==
  ASSUME IInv, NEW p \in Releasers, ReleaseCommit(p)
  PROVE  IInv'
  <1>1. p \in Procs /\ p # NoProc /\ Resv \notin Requests
    BY ProcsAssumption, RequestsAssumption DEF Procs
  <1>2. /\ \A o \in Procs \ {p} : at'[o] = at[o] /\ job'[o] = job[o]
        /\ at'[p] \in {"idle", "done"}
        /\ \A x \in Tables : row'[x] = IF row[x] = p THEN NoProc ELSE row[x]
    BY <1>1 DEF IInv, Types, ReleaseCommit, End, Tables
  <1>3. \A q \in Requests :
          /\ row[q] = p => req[q] = "pending" /\ req'[q] = "rejected"
          /\ row[q] # p => req'[q] = req[q]
          /\ Approvers(q)' = Approvers(q) /\ Rejecters(q)' = Rejecters(q)
    BY <1>1 DEF IInv, Locks, RowsPending, ReleaseCommit, Approvers, Rejecters, VotesOf
  <1>4. Types'
    BY <1>1, EndType DEF IInv, Types, ReleaseCommit, Tables, Refused
  <1>5. RowsPending'
    BY <1>1, <1>2, <1>3 DEF IInv, Locks, RowsPending, Tables
  <1>6. JobsSound'
    <2> SUFFICES ASSUME NEW o \in Procs PROVE Sound(o)'
      BY DEF JobsSound
    <2>1. CASE o = p
      BY <2>1, <1>2 DEF Sound
    <2>2. CASE o # p
      <3>1. Sound(o)
        BY DEF IInv, Locks, JobsSound
      <3>2. at[o] \in {"quorum", "ruled"} => (Quorum(o)' <=> Quorum(o))
        BY <2>2, <1>2, <1>3, <3>1 DEF Sound, Quorum
      <3>3. PeersApproved(o) => PeersApproved(o)'
        BY <2>2, <1>2, <1>3 DEF PeersApproved
      <3> QED
        BY <2>2, <3>1, <3>2, <3>3, <1>2 DEF Sound
    <2> QED
      BY <2>1, <2>2
  <1>7. ReleaseHolds'
    <2>1. row[Resv] = p
      BY <1>1 DEF IInv, Locks, ReleaseHolds, ReleaseCommit
    <2>2. \A o \in Procs \ {p} : at[o] \notin {"released", "cancel"}
      BY <2>1 DEF IInv, Locks, ReleaseHolds
    <2> QED
      BY <2>2, <1>2 DEF ReleaseHolds
  <1>8. hold' = "released"
    BY DEF ReleaseCommit
  <1>9. VotesSound'
    BY <1>3 DEF IInv, Facts, VotesSound
  <1>10. NothingYet' /\ AllApproved' /\ RefusalReleases'
    BY <1>8 DEF NothingYet, AllApproved, RefusalReleases
  <1> QED
    BY <1>4, <1>5, <1>6, <1>7, <1>9, <1>10 DEF IInv, Locks, Facts

LEMMA ReleaseKeeps ==
  ASSUME IInv, NEW p \in Releasers, ReleaseStep(p)
  PROVE  IInv'
  <1>1. /\ p \in Procs /\ job[p] \in Job /\ faults \in 0..MaxFaults
        /\ at[p] \in {"released", "cancel"} /\ hold # "none"
    BY DEF Procs, IInv, Types, Locks, ReleaseHolds, HoldOpen, ReleaseStep,
           ReleaseList, ReleaseCancel, ReleaseCommit
  <1>2. \A S \in SUBSET Requests : [job[p] EXCEPT !.todo = S] \in Job
    BY <1>1 DEF Job
  <1>3. CASE ReleaseList(p)
    <2> DEFINE S == {q \in Requests : req[q] = "pending"}
    <2>1. PICK j \in Job : j = [job[p] EXCEPT !.todo = S]
      BY <1>2
    <2>2. job' = [job EXCEPT ![p] = j]
      BY <2>1, <1>3, <1>1 DEF ReleaseList, IInv, Types
    <2> QED
      BY <1>1, <1>3, <2>2, ListStep DEF ReleaseList
  <1>4. CASE ReleaseCancel(p)
    <2>1. PICK q \in job[p].todo :
            /\ row[q] = NoProc
            /\ IF req[q] = "pending"
               THEN /\ row' = [row EXCEPT ![q] = p]
                    /\ job' = [job EXCEPT ![p].todo = @ \ {q}]
                    /\ UNCHANGED <<data, at, faults>>
               ELSE Rollback(p)
      BY <1>4 DEF ReleaseCancel
    <2>2. q \in Requests /\ job[p].todo \subseteq Requests
      BY <1>1 DEF Job
    <2>3. CASE req[q] = "pending"
      <3>1. PICK j \in Job : j = [job[p] EXCEPT !.todo = job[p].todo \ {q}]
        BY <1>2, <2>2
      <3>2. job' = [job EXCEPT ![p] = j] /\ at' = [at EXCEPT ![p] = "cancel"]
        BY <1>1, <1>4, <2>1, <2>3, <3>1 DEF ReleaseCancel, IInv, Types
      <3> QED
        BY <1>1, <1>4, <2>1, <2>2, <2>3, <3>2, TakeStep DEF ReleaseCancel
    <2>4. CASE req[q] # "pending"
      BY <1>1, <2>1, <2>4, EndKeeps DEF Rollback
    <2> QED
      BY <2>3, <2>4
  <1> QED
    BY <1>3, <1>4, ReleaseCommitStep DEF ReleaseStep

-----------------------------------------------------------------------------
(* The approval reaper *)

LEMMA ExpireStep ==
  ASSUME IInv, NEW p \in Reapers, ReapExpire(p)
  PROVE  IInv'
  <1>0. p \in Procs /\ p # NoProc
    BY ProcsAssumption DEF Procs
  <1>1. PICK a \in Requests : a = job[p].q /\ row[a] = p /\ req[a] = "pending"
    BY <1>0 DEF IInv, Locks, RowsPending, ReapExpire
  <1>2. hold \in {"active", "pending_approval", "released"}
    BY <1>0, <1>1 DEF IInv, Types, HoldOpen, Facts, NothingYet, AllApproved, ReapExpire
  <1>3. /\ req'[a] = "expired" /\ \A q \in Requests \ {a} : req'[q] = req[q]
        /\ hold' = "released"
    BY <1>1, <1>2 DEF IInv, Types, ReapExpire, ReleasedFrom, HoldOpen
  <1>4. \A q \in Requests :
          Approvers(q)' = Approvers(q) /\ Rejecters(q)' = Rejecters(q)
    BY DEF ReapExpire, Approvers, Rejecters, VotesOf
  <1>5. Types'
    BY <1>0, <1>1, <1>3, BatchType DEF IInv, Types, ReapExpire, Tables, Refused
  <1>6. Locks'
    BY <1>0, <1>1, <1>3, <1>4, SettledLocks DEF ReapExpire
  <1>7. VotesSound'
    BY <1>3, <1>4 DEF IInv, Facts, VotesSound
  <1>8. NothingYet' /\ AllApproved' /\ RefusalReleases'
    BY <1>3 DEF NothingYet, AllApproved, RefusalReleases
  <1> QED
    BY <1>5, <1>6, <1>7, <1>8 DEF IInv, Facts

LEMMA ReapKeeps ==
  ASSUME IInv, NEW p \in Reapers, ReapStep(p)
  PROVE  IInv'
  <1>1. p \in Procs /\ job[p] \in Job /\ faults \in 0..MaxFaults
    BY DEF Procs, IInv, Types
  <1>2. CASE ReapList(p)
    <2>1. [job[p] EXCEPT !.todo = {q \in Requests : req[q] = "pending"}] \in Job
      BY <1>1 DEF Job
    <2>2. PICK j \in Job :
            j = [job[p] EXCEPT !.todo = {q \in Requests : req[q] = "pending"}]
      BY <2>1
    <2>3. job' = [job EXCEPT ![p] = j]
      BY <2>2, <1>2, <1>1 DEF ReapList, IInv, Types
    <2> QED
      BY <1>1, <1>2, <2>3, ListStep DEF ReapList
  <1>3. CASE ReapLock(p)
    <2>1. PICK q \in job[p].todo :
            /\ row[q] = NoProc
            /\ job' = [job EXCEPT ![p].q = q, ![p].todo = @ \ {q}]
            /\ IF req[q] = "pending"
               THEN row' = [row EXCEPT ![q] = p] /\ at' = [at EXCEPT ![p] = "expiring"]
               ELSE UNCHANGED row /\ at' = [at EXCEPT ![p] =
                      IF job[p].todo = {q} THEN "idle" ELSE "reaping"]
      BY <1>3 DEF ReapLock
    <2>2. q \in Requests /\ job[p].todo \subseteq Requests
      BY <1>1 DEF Job
    <2>3. [job[p] EXCEPT !.q = q, !.todo = job[p].todo \ {q}] \in Job
      BY <1>1, <2>2 DEF Job
    <2>4. PICK j \in Job : j = [job[p] EXCEPT !.q = q, !.todo = job[p].todo \ {q}]
      BY <2>3
    <2>5. job' = [job EXCEPT ![p] = j] /\ j.q = q
      BY <1>1, <2>1, <2>4 DEF IInv, Types, Job
    <2>6. hold # "none"
      BY <1>1, <1>3 DEF IInv, Facts, NothingYet, ReapLock
    <2>7. CASE req[q] = "pending"
      <3>1. /\ row[q] = NoProc /\ row' = [row EXCEPT ![q] = p]
            /\ at' = [at EXCEPT ![p] = "expiring"]
        BY <2>1, <2>7
      <3>2. at[p] = "reaping" /\ UNCHANGED <<data, faults>>
        BY <1>3 DEF ReapLock
      <3>3. at[p] \notin {"quorum", "ruled", "expiring"}
        BY <3>2
      <3>4. PICK to \in {"cancel", "expiring"} : to = "expiring"
        OBVIOUS
      <3> QED
        BY <1>1, <2>2, <2>5, <2>6, <2>7, <3>1, <3>2, <3>3, <3>4, TakeStep
    <2>8. CASE req[q] # "pending"
      <3>1. PICK to \in {"idle", "reaping"} : at' = [at EXCEPT ![p] = to]
        BY <2>1, <2>8
      <3> QED
        BY <1>1, <1>3, <2>1, <2>5, <2>6, <2>8, <3>1, ListStep DEF ReapLock
    <2> QED
      BY <2>7, <2>8
  <1> QED
    BY <1>2, <1>3, ExpireStep DEF ReapStep

-----------------------------------------------------------------------------
(* The rest of the system *)

LEMMA AbortKeeps ==
  ASSUME IInv, NEW p \in Procs, DeadlockAbort(p) \/ Fault(p)
  PROVE  IInv'
  <1>1. (End(p) \/ NextInBatch(p)) /\ UNCHANGED data
    BY DEF DeadlockAbort, Fault, Abort
  <1>2. at[p] # "idle"
    BY DEF DeadlockAbort, Fault, WaitsFor
  <1>3. faults' \in 0..MaxFaults
    BY FaultsAssumption DEF IInv, Types, DeadlockAbort, Fault
  <1> QED
    BY <1>1, <1>2, <1>3, EndKeeps

\* Reserve, Commit, the reservation reaper and the clock touch no request.
LEMMA RestKeeps ==
  ASSUME IInv, Reserve \/ CommitOrExpire \/ Deadline
  PROVE  IInv'
  <1>1. UNCHANGED <<req, votes, at, job, row, faults>>
    BY DEF Reserve, CommitOrExpire, Deadline
  <1>2. \/ hold = "none" /\ hold' = "pending_approval"
        \/ hold = "active" /\ row[Resv] = NoProc /\ hold' \in {"committed", "expired"}
        \/ UNCHANGED hold
    BY DEF Reserve, CommitOrExpire, Deadline
  <1>3. Types'
    BY <1>1, <1>2 DEF IInv, Types, Reserve, CommitOrExpire, Deadline, HoldOpen
  <1>4. RowsPending'
    BY <1>1 DEF IInv, Locks, RowsPending
  <1>5. JobsSound'
    BY <1>1 DEF IInv, Locks, JobsSound, Sound, Quorum, PeersApproved, Approvers, VotesOf
  <1>6. ReleaseHolds'
    BY <1>1, <1>2, ProcsAssumption DEF IInv, Locks, ReleaseHolds, HoldOpen, Procs
  <1>7. VotesSound'
    BY <1>1 DEF IInv, Facts, VotesSound, Approvers, Rejecters, VotesOf
  <1>8. NothingYet'
    BY <1>1, <1>2 DEF IInv, Facts, NothingYet
  <1>9. AllApproved' /\ RefusalReleases'
    BY <1>1, <1>2 DEF IInv, Facts, AllApproved, RefusalReleases, Refused
  <1> QED
    BY <1>3, <1>4, <1>5, <1>6, <1>7, <1>8, <1>9 DEF IInv, Locks, Facts

LEMMA InvStutter == IInv /\ UNCHANGED approvalVars => IInv'
  <1> SUFFICES ASSUME IInv, UNCHANGED approvalVars PROVE IInv'
    OBVIOUS
  <1>1. Types' /\ RowsPending' /\ ReleaseHolds'
    BY DEF IInv, Types, Locks, RowsPending, ReleaseHolds, approvalVars
  <1>2. JobsSound'
    BY DEF IInv, Locks, JobsSound, Sound, Quorum, PeersApproved, Approvers, VotesOf, approvalVars
  <1>3. Facts'
    BY DEF IInv, Facts, VotesSound, Approvers, Rejecters, VotesOf, NothingYet,
           AllApproved, RefusalReleases, approvalVars
  <1> QED
    BY <1>1, <1>2, <1>3 DEF IInv, Locks

LEMMA InvStep == IInv /\ [ApprovalNext]_approvalVars => IInv'
  BY CheckStep, DecideKeeps, BeginStep, ReleaseKeeps, ReapKeeps, AbortKeeps,
     RestKeeps, InvStutter DEF ApprovalNext

LEMMA InvAlways == ApprovalSpec => []IInv
  BY InvInit, InvStep, PTL DEF ApprovalSpec

-----------------------------------------------------------------------------
(* Settled requests, and the lifecycle of the reservation *)

Stands == \A q \in Requests :
            req[q] # "pending" => req'[q] = req[q] /\ votes'[q] = votes[q]

LEMMA SettleStands ==
  ASSUME IInv, NEW p \in Procs, NEW s, at[p] = "ruled", Settle(p, s)
  PROVE  Stands
  <1>1. PICK a \in Requests : a = job[p].q /\ req[a] = "pending"
    BY Ruling
  <1> QED
    BY <1>1 DEF Stands, Settle, IInv, Types

LEMMA StandsStep == IInv /\ [ApprovalNext]_approvalVars => Stands
  <1> SUFFICES ASSUME IInv, [ApprovalNext]_approvalVars PROVE Stands
    OBVIOUS
  <1>0. ASSUME UNCHANGED <<req, votes>> PROVE Stands
    BY <1>0 DEF Stands
  <1>1. CASE Reserve \/ CommitOrExpire \/ Deadline \/ UNCHANGED approvalVars
    BY <1>0, <1>1 DEF Reserve, CommitOrExpire, Deadline, approvalVars
  <1>2. ASSUME NEW p \in Deciders, DecideCheck(p) \/ DecideStep(p) PROVE Stands
    <2>0. p \in Procs
      BY DEF Procs
    <2>1. CASE DecideCheck(p) \/ DecideRefused(p) \/ DecideLock(p) \/ ReadPeers(p)
      BY <1>0, <2>1 DEF DecideCheck, DecideRefused, DecideLock, ReadPeers, Rollback, data
    <2>2. CASE DecideVote(p)
      BY <2>0, <2>2 DEF DecideVote, Votable, Stands, IInv, Types, Locks, JobsSound, Sound
    <2>3. CASE DecideApproved(p) \/ DecideReject(p)
      BY <2>0, <2>3, SettleStands DEF DecideApproved, DecideReject
    <2>4. CASE DecideActivate(p)
      BY <1>0, <2>0, <2>4, SettleStands DEF DecideActivate, Rollback, data
    <2> QED
      BY <1>2, <2>1, <2>2, <2>3, <2>4 DEF DecideStep
  <1>3. ASSUME NEW p \in Releasers, ReleaseBegin(p) \/ ReleaseStep(p) PROVE Stands
    <2>0. p \in Procs /\ p # NoProc
      BY ProcsAssumption DEF Procs
    <2>1. CASE ReleaseBegin(p) \/ ReleaseList(p) \/ ReleaseCancel(p)
      BY <1>0, <2>1 DEF ReleaseBegin, ReleaseList, ReleaseCancel, Rollback, data
    <2>2. CASE ReleaseCommit(p)
      BY <2>0, <2>2 DEF ReleaseCommit, Stands, IInv, Locks, RowsPending
    <2> QED
      BY <1>3, <2>1, <2>2 DEF ReleaseStep
  <1>4. ASSUME NEW p \in Reapers, ReapStep(p) PROVE Stands
    <2>0. p \in Procs /\ p # NoProc
      BY ProcsAssumption DEF Procs
    <2>1. CASE ReapList(p) \/ ReapLock(p)
      BY <1>0, <2>1 DEF ReapList, ReapLock, data
    <2>2. CASE ReapExpire(p)
      BY <2>0, <2>2 DEF ReapExpire, Stands, IInv, Types, Locks, RowsPending
    <2> QED
      BY <1>4, <2>1, <2>2 DEF ReapStep
  <1>5. ASSUME NEW p \in Procs, DeadlockAbort(p) \/ Fault(p) PROVE Stands
    BY <1>0, <1>5 DEF DeadlockAbort, Fault, Abort, data
  <1> QED
    BY <1>1, <1>2, <1>3, <1>4, <1>5 DEF ApprovalNext

Step(from, to) == hold \in from /\ hold' = to

\* Every way the reservation moves.
LEMMA Moves ==
  ASSUME IInv, [ApprovalNext]_approvalVars
  PROVE  \/ UNCHANGED hold
         \/ Step({"none"}, "pending_approval")
         \/ Step({"pending_approval"}, "active")
         \/ Step(HoldOpen, "released")
         \/ Step({"active"}, "committed")
         \/ Step({"active"}, "expired")
  <1> USE DEF Step
  <1>1. CASE Reserve \/ CommitOrExpire \/ Deadline \/ UNCHANGED approvalVars
    BY <1>1 DEF Reserve, CommitOrExpire, Deadline, approvalVars
  <1>2. ASSUME NEW p \in Deciders, DecideCheck(p) \/ DecideStep(p)
        PROVE  \/ UNCHANGED hold \/ Step({"pending_approval"}, "active")
               \/ Step(HoldOpen, "released")
    BY <1>2 DEF DecideCheck, DecideStep, DecideRefused, DecideLock, ReadPeers,
       DecideVote, DecideApproved, DecideReject, DecideActivate, ReleasedFrom,
       Rollback, data
  <1>3. ASSUME NEW p \in Releasers, ReleaseBegin(p) \/ ReleaseStep(p)
        PROVE  UNCHANGED hold \/ Step(HoldOpen, "released")
    <2>1. CASE ReleaseBegin(p) \/ ReleaseList(p) \/ ReleaseCancel(p)
      BY <2>1 DEF ReleaseBegin, ReleaseList, ReleaseCancel, Rollback, data
    <2>2. CASE ReleaseCommit(p)
      BY <2>2 DEF ReleaseCommit, IInv, Locks, ReleaseHolds, Procs
    <2> QED
      BY <1>3, <2>1, <2>2 DEF ReleaseStep
  <1>4. ASSUME NEW p \in Reapers, ReapStep(p)
        PROVE  UNCHANGED hold \/ Step(HoldOpen, "released")
    BY <1>4 DEF ReapStep, ReapList, ReapLock, ReapExpire, ReleasedFrom, data
  <1>5. ASSUME NEW p \in Procs, DeadlockAbort(p) \/ Fault(p) PROVE UNCHANGED hold
    BY <1>5 DEF DeadlockAbort, Fault, Abort, data
  <1> QED
    BY <1>1, <1>2, <1>3, <1>4, <1>5 DEF ApprovalNext

LEMMA HoldLifecycleInit == ApprovalInit => Life!Init
  BY DEF ApprovalInit, Life!Init

LEMMA HoldLifecycleStep == IInv /\ [ApprovalNext]_approvalVars => [Life!Next]_(Life!vars)
  <1> SUFFICES ASSUME IInv, [ApprovalNext]_approvalVars PROVE [Life!Next]_(Life!vars)
    OBVIOUS
  <1> USE DEF Step, HoldOpen, Life!Holding
  <1>1. CASE UNCHANGED hold
    BY <1>1 DEF Life!vars
  <1>2. CASE Step({"none"}, "pending_approval")
    BY <1>2 DEF Life!Next, Life!Open
  <1>3. CASE Step({"pending_approval"}, "active")
    BY <1>3 DEF Life!Next, Life!Activate
  <1>4. CASE Step(HoldOpen, "released")
    BY <1>4 DEF Life!Next, Life!Release
  <1>5. CASE Step({"active"}, "committed")
    BY <1>5 DEF Life!Next, Life!Commit
  <1>6. CASE Step({"active"}, "expired")
    <2>1. Life!Expire({Resv})
      BY <1>6 DEF Life!Expire
    <2> QED
      BY <2>1 DEF Life!Next
  <1> QED
    BY <1>1, <1>2, <1>3, <1>4, <1>5, <1>6, Moves

-----------------------------------------------------------------------------
(* Theorems *)

\* Every reachable state is well typed, and a transaction at work on a request
\* holds the lock of its row.
THEOREM ApprovalTypeCorrect == ApprovalSpec => []ApprovalTypeOK
  <1>1. IInv => ApprovalTypeOK
    BY DEF IInv, ApprovalTypeOK, Locks, RowsPending
  <1> QED
    BY <1>1, InvAlways, PTL

\* Maker-checker control: whatever the number of requests, approvers and
\* concurrent calls, a hold that needed approval is never usable before every
\* request has its quorum of distinct approvers other than the maker.
THEOREM UsableHoldsAreApproved == ApprovalSpec => []UsableOnlyWhenApproved
  BY InvImplies, InvAlways, PTL

\* A refused request and the hold it gates never disagree.
THEOREM RefusalsRelease == ApprovalSpec => []RefusalReleases
  <1>1. IInv => RefusalReleases
    BY DEF IInv, Facts
  <1> QED
    BY <1>1, InvAlways, PTL

\* Of the calls and reapers that race for a request exactly one settles it.
THEOREM SettledRequestsStand == ApprovalSpec => DecisionsStand
  <1>1. IInv /\ [ApprovalNext]_approvalVars =>
          [\A q \in Requests :
             req[q] # "pending" => req'[q] = req[q] /\ votes'[q] = votes[q]]_approvalVars
    BY StandsStep DEF Stands
  <1> QED
    BY <1>1, InvAlways, PTL DEF ApprovalSpec, DecisionsStand

\* Approval moves a reservation only as ReservationLifecycle allows.
THEOREM ApprovalFollowsLifecycle == ApprovalSpec => HoldFollowsLifecycle
  BY HoldLifecycleInit, HoldLifecycleStep, InvAlways, PTL DEF ApprovalSpec, HoldFollowsLifecycle, Life!Spec

-----------------------------------------------------------------------------
(* Savings. The proof is in two layers: BooksInv, the money on the rows and in
   operations, is inductive alone; EarnsInv, the interest of the days, rests on it. *)

\* Where an attempt may stand, and what its record holds there.
SavingsPcs == {"idle", "depClaim", "depPost", "depSettle", "hold", "pay", "settle",
               "cancel", "release", "basis", "accClaim", "accPost", "accSettle", "mark"}
DepositPcs == {"depClaim", "depPost", "depSettle"}
WithdrawalPcs == {"hold", "pay", "settle", "cancel", "release"}
Accruing == {"basis", "accClaim", "accPost", "accSettle"}
AttemptShape == [pc : SavingsPcs, key : Deposits \union Withdrawals \union Stamps,
                 day : Nat, end : Stamps, sum : Nat]
CreditedDays == {d \in Days : Credited(d)}

-----------------------------------------------------------------------------
(* Sums of movements and of interest *)

\* The movements are finitely many, and what some of them add up to is an amount.
LEMMA AmountsSum ==
  ASSUME NEW S, S \in SUBSET Deposits \/ S \in SUBSET Withdrawals
  PROVE  IsFiniteSet(S) /\ Whole(Amount, S) /\ Total(Amount, S) \in Nat
  <1>1. IsFiniteSet(S)
    BY MovementAssumption, FS_Subset
  <1>2. Amounts(Amount, S) /\ Whole(Amount, S)
    BY MovementAssumption DEF Amounts, Whole
  <1>3. S \in SUBSET S
    OBVIOUS
  <1> QED
    BY <1>1, <1>2, <1>3, TotalPart

\* So are the days, and the interest on some of them.
LEMMA EarnedSum ==
  ASSUME SavingsTypeOK, NEW S \in SUBSET Days
  PROVE  IsFiniteSet(S) /\ Whole(Earned, S) /\ Total(Earned, S) \in Nat
  <1>1. IsFiniteSet(S)
    <2>1. IsFiniteSet(1..MaxDay)
      BY SavingsBounds, FS_Interval
    <2> QED
      BY <2>1, FS_Subset DEF Days
  <1>2. Amounts(Earned, S) /\ Whole(Earned, S)
    BY DEF Amounts, Whole, Earned, SavingsTypeOK
  <1>3. S \in SUBSET S
    OBVIOUS
  <1> QED
    BY <1>1, <1>2, <1>3, TotalPart

\* A movement that joins those of a set adds its amount.
LEMMA AmountJoins ==
  ASSUME NEW S, S \in SUBSET Deposits \/ S \in SUBSET Withdrawals, NEW k, k \notin S,
         k \in Deposits \union Withdrawals
  PROVE  Total(Amount, S \union {k}) = Total(Amount, S) + Amount[k]
  <1>1. IsFiniteSet(S) /\ Whole(Amount, S)
    BY AmountsSum
  <1>2. Amount[k] \in Int
    BY MovementAssumption
  <1> QED
    BY <1>1, <1>2, TotalInsert

\* One that leaves takes it away.
LEMMA AmountLeaves ==
  ASSUME NEW S, S \in SUBSET Deposits \/ S \in SUBSET Withdrawals, NEW k \in S
  PROVE  Total(Amount, S \ {k}) = Total(Amount, S) - Amount[k]
  <1>1. IsFiniteSet(S) /\ Whole(Amount, S) /\ Total(Amount, S \ {k}) \in Nat
    BY AmountsSum
  <1>2. Amount[k] \in Int
    BY MovementAssumption
  <1>3. Total(Amount, S) = Amount[k] + Total(Amount, S \ {k})
    BY <1>1, TotalRemove
  <1> QED
    BY <1>1, <1>2, <1>3

\* The row of k turns from status o to status st, and no other row changes.
RowTurns(k, o, st) ==
  /\ k \in Withdrawals /\ wdr[k].st = o /\ wdr'[k].st = st /\ o # st
  /\ \A j \in Withdrawals \ {k} : wdr'[j] = wdr[j]

\* Its amount moves from the sum of the rows of its old status to that of the new.
LEMMA RowsTurn ==
  ASSUME NEW k, NEW o, NEW st, RowTurns(k, o, st)
  PROVE  /\ Total(Amount, Rows(st))' = Total(Amount, Rows(st)) + Amount[k]
         /\ Total(Amount, Rows(o))' = Total(Amount, Rows(o)) - Amount[k]
         /\ \A s : s # st /\ s # o => Rows(s)' = Rows(s)
  <1>1. Rows(st)' = Rows(st) \union {k} /\ k \notin Rows(st) /\ Rows(st) \in SUBSET Withdrawals
    BY DEF RowTurns, Rows
  <1>2. Rows(o)' = Rows(o) \ {k} /\ k \in Rows(o) /\ Rows(o) \in SUBSET Withdrawals
    BY DEF RowTurns, Rows
  <1>3. \A s : s # st /\ s # o => Rows(s)' = Rows(s)
    BY DEF RowTurns, Rows
  <1>4. Total(Amount, Rows(st))' = Total(Amount, Rows(st)) + Amount[k]
    <2>1. Total(Amount, Rows(st) \union {k}) = Total(Amount, Rows(st)) + Amount[k]
      BY <1>1, AmountJoins DEF RowTurns
    <2> QED
      BY <1>1, <2>1
  <1>5. Total(Amount, Rows(o))' = Total(Amount, Rows(o)) - Amount[k]
    <2>1. Total(Amount, Rows(o) \ {k}) = Total(Amount, Rows(o)) - Amount[k]
      BY <1>2, AmountLeaves
    <2> QED
      BY <1>2, <2>1
  <1> QED
    BY <1>3, <1>4, <1>5

-----------------------------------------------------------------------------
(* Attempts *)

\* What an attempt relies on at each of its steps: a key of its kind, a day that
\* has ended, and what operations has booked before it settles.
AttemptSound(x) ==
  /\ x.pc \in DepositPcs => x.key \in Deposits
  /\ x.pc \in WithdrawalPcs => x.key \in Withdrawals
  /\ x.pc \in Accruing => x.day \in 1..x.end /\ x.end <= today
  /\ x.pc = "mark" => x.day \in 1..(x.end + 1) /\ x.end <= today
  /\ x.pc = "depSettle" => x.key \in posted
  /\ x.pc = "settle" => order[x.key] # "none"
  /\ x.pc = "accSettle" => x.day \in posted

FundsAddUp ==
  /\ res = Total(Amount, Rows("PENDING"))
  /\ bal = Opening + Total(Amount, Completed) - Total(Amount, Rows("COMPLETED"))
             + Total(Earned, CreditedDays)
  /\ res <= bal

AttemptsSound ==
  /\ call \in [Attempts -> AttemptShape]
  /\ \A c \in Attempts : AttemptSound(call[c])

BooksInv == SavingsTypeOK /\ FundsAddUp /\ SettledIsBooked /\ AttemptsSound

\* An attempt that takes a step becomes x, and the others stay.
Becomes(c, x) == x \in AttemptShape /\ call' = [call EXCEPT ![c] = x]
Goes == call' = call \/ \E c \in Attempts : \E x : Becomes(c, x) /\ AttemptSound(x)'

\* Time goes on, and what is booked stays booked.
Later ==
  /\ today' >= today /\ posted \subseteq posted'
  /\ \A k \in Withdrawals : /\ order[k] # "none" => order'[k] # "none"
                            /\ order[k] = "failed" => order'[k] = "failed"

\* An attempt that goes on with the same key and day.
LEMMA GoesTo ==
  ASSUME AttemptsSound, NEW c \in Attempts, NEW p \in SavingsPcs, To(c, p)
  PROVE  \E x : /\ Becomes(c, x) /\ x.pc = p /\ x.key = call[c].key
                /\ x.day = call[c].day /\ x.end = call[c].end /\ x.sum = call[c].sum
  <1>1. call[c] \in AttemptShape
    BY DEF AttemptsSound
  <1>2. PICK x : x = [call[c] EXCEPT !.pc = p]
    OBVIOUS
  <1>3. /\ x \in AttemptShape /\ x.pc = p /\ x.key = call[c].key
        /\ x.day = call[c].day /\ x.end = call[c].end /\ x.sum = call[c].sum
    BY <1>1, <1>2 DEF AttemptShape
  <1>4. call' = [call EXCEPT ![c] = x]
    BY <1>2 DEF To
  <1> QED
    BY <1>3, <1>4 DEF Becomes

\* One that returns.
LEMMA Returns ==
  ASSUME SavingsTypeOK, NEW c \in Attempts, Return(c)
  PROVE  \E x : Becomes(c, x) /\ x.pc = "idle"
  <1>1. Idle \in AttemptShape /\ Idle.pc = "idle"
    BY SavingsBounds DEF Idle, AttemptShape, SavingsPcs, Stamps
  <1> QED
    BY <1>1 DEF Return, Becomes

\* One that begins with a key.
LEMMA Begins ==
  ASSUME NEW c \in Attempts, NEW p \in SavingsPcs,
         NEW k \in Deposits \union Withdrawals, Begin(c, p, k)
  PROVE  \E x : Becomes(c, x) /\ x.pc = p /\ x.key = k
  <1>1. PICK x : x = [Idle EXCEPT !.pc = p, !.key = k]
    OBVIOUS
  <1>2. x = [pc |-> p, key |-> k, day |-> 0, end |-> 0, sum |-> 0]
    BY <1>1 DEF Idle
  <1>3. 0 \in Stamps
    BY SavingsBounds DEF Stamps
  <1>4. x \in AttemptShape /\ x.pc = p /\ x.key = k
    BY <1>2, <1>3 DEF AttemptShape
  <1> QED
    BY <1>1, <1>4 DEF Begin, Becomes

\* One that goes on with the next day, or to the end.
LEMMA NextDayGoes ==
  ASSUME AttemptsSound, NEW c \in Attempts, NextDay(c)
  PROVE  \E x : /\ Becomes(c, x) /\ x.pc = (IF call[c].day < call[c].end THEN "basis" ELSE "mark")
                /\ x.day = call[c].day + 1 /\ x.end = call[c].end
  <1>1. call[c] \in AttemptShape
    BY DEF AttemptsSound
  <1>2. PICK p : p = IF call[c].day < call[c].end THEN "basis" ELSE "mark"
    OBVIOUS
  <1>3. PICK x : x = [call[c] EXCEPT !.pc = p, !.day = @ + 1]
    OBVIOUS
  <1>4. x \in AttemptShape /\ x.pc = p /\ x.day = call[c].day + 1 /\ x.end = call[c].end
    <2>1. p \in SavingsPcs
      BY <1>2 DEF SavingsPcs
    <2>2. PICK y \in AttemptShape : y = call[c]
      BY <1>1
    <2>3. x = [pc |-> p, key |-> y.key, day |-> y.day + 1, end |-> y.end, sum |-> y.sum]
      BY <1>3, <2>2 DEF AttemptShape
    <2>4. y.day + 1 \in Nat
      BY <2>2 DEF AttemptShape
    <2> QED
      BY <2>1, <2>2, <2>3, <2>4 DEF AttemptShape
  <1>5. call' = [call EXCEPT ![c] = x]
    BY <1>2, <1>3 DEF NextDay
  <1> QED
    BY <1>2, <1>4, <1>5 DEF Becomes

\* What an attempt relies on stays so.
LEMMA StillSound ==
  ASSUME SavingsTypeOK, SavingsTypeOK', Later, NEW x \in AttemptShape, AttemptSound(x)
  PROVE  AttemptSound(x)'
  <1>1. today \in Nat /\ today' \in Nat /\ today <= today' /\ x.end \in Nat /\ x.day \in Nat
    BY SavingsBounds DEF SavingsTypeOK, Stamps, Later, AttemptShape
  <1> QED
    BY <1>1 DEF Later, AttemptSound, WithdrawalPcs

\* An attempt that is idle relies on nothing.
LEMMA IdleSound ==
  ASSUME NEW x, x.pc = "idle"
  PROVE  AttemptSound(x)'
  BY DEF AttemptSound, DepositPcs, WithdrawalPcs, Accruing

\* The attempt that steps is sound, and the others stay so.
LEMMA AttemptsKept ==
  ASSUME SavingsTypeOK, SavingsTypeOK', AttemptsSound, Later, Goes
  PROVE  AttemptsSound'
  <1>1. ASSUME NEW d \in Attempts, call'[d] = call[d] PROVE AttemptSound(call[d])'
    <2>1. PICK y : y = call[d]
      OBVIOUS
    <2>2. y \in AttemptShape /\ AttemptSound(y)
      BY <2>1 DEF AttemptsSound, AttemptSound
    <2>3. AttemptSound(y)' /\ call'[d] = y
      BY <1>1, <2>1, <2>2, StillSound
    <2> QED
      BY <2>3 DEF AttemptSound
  <1>2. CASE call' = call
    BY <1>1, <1>2 DEF AttemptsSound
  <1>3. CASE \E c \in Attempts : \E x : Becomes(c, x) /\ AttemptSound(x)'
    <2>1. PICK c \in Attempts : \E x : Becomes(c, x) /\ AttemptSound(x)'
      BY <1>3
    <2>2. PICK x : Becomes(c, x) /\ AttemptSound(x)'
      BY <2>1
    <2>3. call' \in [Attempts -> AttemptShape] /\ call'[c] = x
          /\ \A d \in Attempts \ {c} : call'[d] = call[d]
      BY <2>2 DEF Becomes, AttemptsSound
    <2>4. AttemptSound(call[c])'
      BY <2>2, <2>3 DEF AttemptSound
    <2>5. \A d \in Attempts : AttemptSound(call[d])'
      BY <1>1, <2>3, <2>4
    <2> QED
      BY <2>3, <2>5 DEF AttemptsSound
  <1> QED
    BY <1>2, <1>3 DEF Goes

-----------------------------------------------------------------------------
(* The balance row and what is booked *)

\* The balance stays what the rows say while it and the withdrawals rest, and the same
\* deposits are complete and the same days credited.
LEMMA FundsRest ==
  ASSUME SavingsTypeOK, FundsAddUp, UNCHANGED <<bal, res, wdr>>, Completed' = Completed,
         CreditedDays' = CreditedDays,
         \A d \in CreditedDays : interest'[d].sum = interest[d].sum
  PROVE  FundsAddUp'
  <1>1. PICK e : e = Earned'
    OBVIOUS
  <1>2. CreditedDays \in SUBSET Days
    BY DEF CreditedDays
  <1>3. SameOn(Earned, e, CreditedDays)
    BY <1>1, <1>2 DEF SameOn, Earned
  <1>4. Total(e, CreditedDays) = Total(Earned, CreditedDays)
    BY <1>2, <1>3, EarnedSum, TotalSame
  <1>5. Total(Earned, CreditedDays)' = Total(Earned, CreditedDays)
    BY <1>1, <1>4
  <1>6. Rows("PENDING")' = Rows("PENDING") /\ Rows("COMPLETED")' = Rows("COMPLETED")
    BY DEF Rows
  <1> QED
    BY <1>5, <1>6 DEF FundsAddUp

\* What is settled stays booked while nothing else is settled.
LEMMA BookedRest ==
  ASSUME SettledIsBooked, Later, wdr' = wdr, Completed' = Completed, CreditedDays' = CreditedDays
  PROVE  SettledIsBooked'
  <1>1. {d \in Days : Credited(d)} = CreditedDays /\ {d \in Days : Credited(d)}' = CreditedDays'
    BY DEF CreditedDays
  <1> QED
    BY <1>1 DEF SettledIsBooked, Later

\* Steps that leave the rows and the balance alone.
LEMMA Aside ==
  ASSUME BooksInv, UNCHANGED <<rows, books>>, SavingsTypeOK', Later, Goes
  PROVE  BooksInv'
  <1>1. dep' = dep /\ wdr' = wdr /\ interest' = interest /\ bal' = bal /\ res' = res
    BY DEF rows, books
  <1>2. Completed' = Completed /\ CreditedDays' = CreditedDays
    BY <1>1 DEF Completed, CreditedDays, Credited
  <1>3. FundsAddUp'
    BY <1>1, <1>2, FundsRest DEF BooksInv
  <1>4. SettledIsBooked'
    BY <1>1, <1>2, BookedRest DEF BooksInv
  <1>5. AttemptsSound'
    BY AttemptsKept DEF BooksInv
  <1> QED
    BY <1>3, <1>4, <1>5 DEF BooksInv

-----------------------------------------------------------------------------
(* Steps that move no money *)

\* Nothing is later than now when nothing of it changes.
LEMMA SameTime ==
  ASSUME SavingsTypeOK, UNCHANGED <<order, posted, today>>
  PROVE  Later
  BY SavingsBounds DEF Later, SavingsTypeOK, Stamps

\* The rail, the account and the clock.
LEMMA OutsideBooks ==
  ASSUME BooksInv,
         \/ \E k \in Withdrawals : RailDecides(k)
         \/ Freeze \/ Close \/ (\E s \in saves : ApplySave(s)) \/ EndOfDay
  PROVE  BooksInv'
  <1>1. SavingsTypeOK
    BY DEF BooksInv
  <1>2. CASE \E k \in Withdrawals : RailDecides(k)
    <2>1. PICK k \in Withdrawals : RailDecides(k)
      BY <1>2
    <2>2. UNCHANGED <<rows, books>> /\ Goes
      BY <2>1 DEF RailDecides, Goes
    <2>3. PICK o \in {"paid", "failed"} : order[k] = "sent" /\ order' = [order EXCEPT ![k] = o]
      BY <2>1 DEF RailDecides
    <2>4. SavingsTypeOK'
      BY <1>1, <2>1, <2>3 DEF SavingsTypeOK, RailDecides, account, rows, books
    <2>5. Later
      BY <1>1, <2>1, <2>3, SavingsBounds DEF Later, RailDecides, SavingsTypeOK, Stamps
    <2> QED
      BY <2>2, <2>4, <2>5, Aside
  <1>3. CASE Freeze \/ Close
    <2>1. UNCHANGED <<rows, books>> /\ Goes
      BY <1>3 DEF Freeze, Close, Goes
    <2>2. SavingsTypeOK'
      BY <1>1, <1>3 DEF SavingsTypeOK, Freeze, Close, Emit, rows, books, payouts
    <2>3. Later
      BY <1>1, <1>3, SameTime DEF Freeze, Close, payouts
    <2> QED
      BY <2>1, <2>2, <2>3, Aside
  <1>4. CASE \E s \in saves : ApplySave(s)
    <2>1. PICK s \in saves : ApplySave(s)
      BY <1>4
    <2>2. UNCHANGED <<rows, books>> /\ Goes
      BY <2>1 DEF ApplySave, Goes
    <2>3. SavingsTypeOK'
      BY <1>1, <2>1 DEF SavingsTypeOK, ApplySave, rows, books, payouts
    <2>4. Later
      BY <1>1, <2>1, SameTime DEF ApplySave, payouts
    <2> QED
      BY <2>2, <2>3, <2>4, Aside
  <1>5. CASE EndOfDay
    <2>1. UNCHANGED <<rows, books>> /\ Goes
      BY <1>5 DEF EndOfDay, Goes
    <2>2. SavingsTypeOK'
      BY <1>1, <1>5, SavingsBounds DEF SavingsTypeOK, EndOfDay, rows, books, payouts, account, Stamps
    <2>3. Later
      BY <1>1, <1>5, SavingsBounds DEF Later, EndOfDay, payouts, SavingsTypeOK, Stamps
    <2> QED
      BY <2>1, <2>2, <2>3, Aside
  <1> QED
    BY <1>2, <1>3, <1>4, <1>5

\* Attempts that begin, die or fail.
LEMMA StartsBooks ==
  ASSUME BooksInv, NEW c \in Attempts,
         \/ \E k \in Deposits : Record(c, k)
         \/ \E k \in Withdrawals : Request(c, k) \/ Approve(c, k) \/ Cancel(c, k)
         \/ AccrueInterest(c) \/ Die(c) \/ AccrualFails(c)
  PROVE  BooksInv'
  <1>1. SavingsTypeOK /\ AttemptsSound /\ AttemptSound(call[c]) /\ call[c] \in AttemptShape
    BY DEF BooksInv, AttemptsSound
  <1>2. UNCHANGED <<rows, books, account, payouts, today>> /\ failures' \in 0..MaxFailures
    BY <1>1, SavingsBounds DEF Record, Request, Approve, Cancel, AccrueInterest, Die, AccrualFails,
       SavingsTypeOK
  <1>3. SavingsTypeOK'
    BY <1>1, <1>2 DEF SavingsTypeOK, rows, books, account, payouts
  <1>4. Later
    BY <1>1, <1>2, SameTime DEF payouts
  <1>5. Goes
    <2>1. CASE \E k \in Deposits : Record(c, k)
      <3>1. PICK k \in Deposits : Begin(c, "depClaim", k)
        BY <2>1 DEF Record
      <3>2. "depClaim" \in SavingsPcs /\ k \in Deposits \union Withdrawals
        BY DEF SavingsPcs
      <3>3. PICK x : Becomes(c, x) /\ x.pc = "depClaim" /\ x.key = k
        BY <3>1, <3>2, Begins
      <3>4. AttemptSound(x)'
        BY <3>3 DEF AttemptSound, DepositPcs, WithdrawalPcs, Accruing
      <3> QED
        BY <3>3, <3>4 DEF Goes
    <2>2. CASE \E k \in Withdrawals : Request(c, k) \/ Approve(c, k) \/ Cancel(c, k)
      <3>1. PICK k \in Withdrawals : \E p \in {"hold", "pay", "cancel"} : Begin(c, p, k)
        BY <2>2 DEF Request, Approve, Cancel
      <3>2. PICK p \in {"hold", "pay", "cancel"} : Begin(c, p, k)
        BY <3>1
      <3>3. p \in SavingsPcs /\ k \in Deposits \union Withdrawals
        BY DEF SavingsPcs
      <3>4. PICK x : Becomes(c, x) /\ x.pc = p /\ x.key = k
        BY <3>2, <3>3, Begins
      <3>5. AttemptSound(x)'
        BY <3>2, <3>4 DEF AttemptSound, DepositPcs, WithdrawalPcs, Accruing
      <3> QED
        BY <3>4, <3>5 DEF Goes
    <2>3. CASE AccrueInterest(c)
      <3>1. PICK x : x = [Idle EXCEPT !.pc = "basis", !.key = through, !.day = through + 1, !.end = today]
        OBVIOUS
      <3>2. x = [pc |-> "basis", key |-> through, day |-> through + 1, end |-> today, sum |-> 0]
        BY <3>1 DEF Idle
      <3>3. through \in Stamps /\ today \in Stamps /\ through \in Nat /\ today \in Nat /\ through < today
        BY <1>1, <2>3, SavingsBounds DEF SavingsTypeOK, AccrueInterest, Stamps
      <3>4. x \in AttemptShape
        BY <3>2, <3>3 DEF AttemptShape, SavingsPcs
      <3>5. Becomes(c, x)
        BY <2>3, <3>1, <3>4 DEF AccrueInterest, Becomes
      <3>6. today' = today
        BY <1>2
      <3>7. AttemptSound(x)'
        BY <3>2, <3>3, <3>6 DEF AttemptSound, DepositPcs, WithdrawalPcs, Accruing
      <3> QED
        BY <3>5, <3>7 DEF Goes
    <2>4. CASE Die(c)
      <3>1. PICK x : Becomes(c, x) /\ x.pc = "idle"
        BY <1>1, <2>4, Returns DEF Die
      <3> QED
        BY <3>1, IdleSound DEF Goes
    <2>5. CASE AccrualFails(c)
      <3>1. PICK x : /\ Becomes(c, x) /\ x.pc = "mark" /\ x.key = call[c].key
                     /\ x.day = call[c].day /\ x.end = call[c].end
        <4>1. "mark" \in SavingsPcs /\ To(c, "mark")
          BY <2>5 DEF SavingsPcs, AccrualFails
        <4> QED
          BY <1>1, <4>1, GoesTo
      <3>2. call[c].day \in 1..call[c].end /\ call[c].end <= today /\ call[c].end \in Nat
        BY <1>1, <2>5, SavingsBounds DEF AccrualFails, AttemptSound, Accruing, AttemptShape, Stamps
      <3>3. today' = today
        BY <1>2
      <3>4. AttemptSound(x)'
        BY <3>1, <3>2, <3>3 DEF AttemptSound, DepositPcs, WithdrawalPcs, Accruing
      <3> QED
        BY <3>1, <3>4 DEF Goes
    <2> QED
      BY <2>1, <2>2, <2>3, <2>4, <2>5
  <1> QED
    BY <1>2, <1>3, <1>4, <1>5, Aside

-----------------------------------------------------------------------------
(* Interest of a day *)

\* The interest is a whole number, and none of it is negative on money that is there.
LEMMA AccrualIsWhole ==
  ASSUME NEW b \in Int
  PROVE  computeAccrual(b) \in Int /\ (b > 0 => computeAccrual(b) >= 0)
  <1>1. Rate \in Nat /\ Scale \in Nat \ {0}
    BY RateAssumption
  <1>2. PICK n \in Int : n = b * Rate
    BY <1>1
  <1>3. b > 0 => n >= 0
    BY <1>1, <1>2
  <1>4. n \div Scale \in Int /\ n % Scale \in 0..(Scale - 1)
    BY <1>1
  <1>5. n >= 0 => n \div Scale >= 0
    BY <1>1
  <1>6. computeAccrual(b) = (n \div Scale) + (IF 2 * (n % Scale) >= Scale THEN 1 ELSE 0)
    BY <1>2 DEF computeAccrual
  <1> QED
    BY <1>3, <1>4, <1>5, <1>6

\* The balance of a day is a whole number.
LEMMA BalanceIsWhole ==
  ASSUME SavingsTypeOK, NEW d
  PROVE  BalanceAt(d) \in Int
  <1>1. Total(Amount, DepositsAfter(d)) \in Nat /\ Total(Amount, WithdrawalsAfter(d)) \in Nat
    BY AmountsSum DEF DepositsAfter, WithdrawalsAfter
  <1>2. Total(Earned, {e \in Days : e > d /\ Credited(e)}) \in Nat
    BY EarnedSum
  <1>3. bal \in Int
    BY DEF SavingsTypeOK
  <1> QED
    BY <1>1, <1>2, <1>3 DEF BalanceAt

\* What operations answers of a payout: an order that is done was given, and one that
\* failed stays so.
LEMMA PayoutAnswered ==
  ASSUME NEW o \in {"none", "sent", "paid", "failed"}, NEW a \in PayoutAnswers(o)
  PROVE  /\ a[1] \in {"none", "sent", "paid", "failed"}
         /\ a[2] \in {"done", "rejected", "error"}
         /\ o # "none" => a[1] = o
         /\ a[2] = "done" => a[1] # "none"
  <1>1. CASE o = "none"
    BY <1>1 DEF PayoutAnswers
  <1>2. CASE o \in {"sent", "paid"}
    BY <1>2 DEF PayoutAnswers
  <1>3. CASE o = "failed"
    BY <1>3 DEF PayoutAnswers
  <1> QED
    BY <1>1, <1>2, <1>3

\* The call of operations for a withdrawal.
LEMMA PostWithdrawalBooks ==
  ASSUME BooksInv, NEW c \in Attempts, PostWithdrawal(c)
  PROVE  BooksInv'
  <1>1. SavingsTypeOK /\ AttemptsSound /\ AttemptSound(call[c]) /\ call[c] \in AttemptShape
    BY DEF BooksInv, AttemptsSound
  <1>2. PICK k : k = call[c].key
    OBVIOUS
  <1>3. k \in Withdrawals /\ order[k] \in {"none", "sent", "paid", "failed"}
    BY <1>1, <1>2 DEF PostWithdrawal, At, AttemptSound, WithdrawalPcs, SavingsTypeOK
  <1>4. PICK a \in PayoutAnswers(order[k]) :
          /\ order' = [order EXCEPT ![k] = a[1]]
          /\ \/ a[2] = "done" /\ To(c, "settle") /\ UNCHANGED failures
             \/ a[2] = "rejected" /\ To(c, "release") /\ UNCHANGED failures
             \/ a[2] = "error" /\ Return(c) /\ failures > 0 /\ failures' = failures - 1
    BY <1>2 DEF PostWithdrawal
  <1>5. /\ a[1] \in {"none", "sent", "paid", "failed"}
        /\ order[k] # "none" => a[1] = order[k]
        /\ a[2] = "done" => a[1] # "none"
    BY <1>3, <1>4, PayoutAnswered
  <1>6. UNCHANGED <<account, rows, books, posted, told, today>>
    BY DEF PostWithdrawal
  <1>7. order' \in [Withdrawals -> {"none", "sent", "paid", "failed"}] /\ failures' \in 0..MaxFailures
    BY <1>1, <1>3, <1>4, <1>5, SavingsBounds DEF SavingsTypeOK
  <1>8. SavingsTypeOK'
    BY <1>1, <1>6, <1>7 DEF SavingsTypeOK, account, rows, books
  <1>9. Later
    BY <1>1, <1>3, <1>4, <1>5, <1>6, SavingsBounds DEF Later, SavingsTypeOK, Stamps
  <1>10. Goes
    <2>1. CASE a[2] = "done" /\ To(c, "settle")
      <3>1. "settle" \in SavingsPcs
        BY DEF SavingsPcs
      <3>2. PICK x : Becomes(c, x) /\ x.pc = "settle" /\ x.key = k
        BY <1>1, <1>2, <2>1, <3>1, GoesTo
      <3>3. order'[k] # "none"
        BY <1>1, <1>3, <1>4, <1>5, <2>1 DEF SavingsTypeOK
      <3>4. AttemptSound(x)'
        BY <1>3, <3>2, <3>3 DEF AttemptSound, DepositPcs, WithdrawalPcs, Accruing
      <3> QED
        BY <3>2, <3>4 DEF Goes
    <2>2. CASE a[2] = "rejected" /\ To(c, "release")
      <3>1. "release" \in SavingsPcs
        BY DEF SavingsPcs
      <3>2. PICK x : Becomes(c, x) /\ x.pc = "release" /\ x.key = k
        BY <1>1, <1>2, <2>2, <3>1, GoesTo
      <3>3. AttemptSound(x)'
        BY <1>3, <3>2 DEF AttemptSound, DepositPcs, WithdrawalPcs, Accruing
      <3> QED
        BY <3>2, <3>3 DEF Goes
    <2>3. CASE Return(c)
      <3>1. PICK x : Becomes(c, x) /\ x.pc = "idle"
        BY <1>1, <2>3, Returns
      <3> QED
        BY <3>1, IdleSound DEF Goes
    <2> QED
      BY <1>4, <2>1, <2>2, <2>3
  <1> QED
    BY <1>6, <1>8, <1>9, <1>10, Aside

\* The legs operations books.
LEMMA PostsBooks ==
  ASSUME BooksInv, NEW c \in Attempts, DepositPost(c) \/ AccrualPost(c)
  PROVE  BooksInv'
  <1>1. SavingsTypeOK /\ AttemptsSound /\ AttemptSound(call[c]) /\ call[c] \in AttemptShape
    BY DEF BooksInv, AttemptsSound
  <1>2. UNCHANGED <<account, rows, books, order, told, today, failures>>
    BY DEF DepositPost, AccrualPost
  <1>3. CASE DepositPost(c)
    <2>1. call[c].key \in Deposits /\ posted' = posted \union {call[c].key} /\ To(c, "depSettle")
      BY <1>1, <1>3 DEF DepositPost, At, AttemptSound, DepositPcs
    <2>2. SavingsTypeOK'
      BY <1>1, <1>2, <2>1 DEF SavingsTypeOK, account, rows, books
    <2>3. Later
      BY <1>1, <1>2, <2>1, SavingsBounds DEF Later, SavingsTypeOK, Stamps
    <2>4. Goes
      <3>1. "depSettle" \in SavingsPcs
        BY DEF SavingsPcs
      <3>2. PICK x : Becomes(c, x) /\ x.pc = "depSettle" /\ x.key = call[c].key
        BY <1>1, <2>1, <3>1, GoesTo
      <3>3. AttemptSound(x)'
        BY <2>1, <3>2 DEF AttemptSound, DepositPcs, WithdrawalPcs, Accruing
      <3> QED
        BY <3>2, <3>3 DEF Goes
    <2> QED
      BY <1>2, <2>2, <2>3, <2>4, Aside
  <1>4. CASE AccrualPost(c)
    <2>1. PICK d : d = call[c].day
      OBVIOUS
    <2>2. /\ d \in 1..call[c].end /\ call[c].end <= today /\ call[c].end \in Nat
          /\ posted' = posted \union {d} /\ To(c, "accSettle")
      BY <1>1, <1>4, <2>1, SavingsBounds DEF AccrualPost, At, AttemptSound, Accruing, AttemptShape, Stamps
    <2>3. d \in Days /\ today \in Nat
      BY <1>1, <2>2, SavingsBounds DEF Days, SavingsTypeOK, Stamps
    <2>4. SavingsTypeOK'
      BY <1>1, <1>2, <2>2, <2>3 DEF SavingsTypeOK, account, rows, books
    <2>5. Later
      BY <1>1, <1>2, <2>2, SavingsBounds DEF Later, SavingsTypeOK, Stamps
    <2>6. Goes
      <3>1. "accSettle" \in SavingsPcs
        BY DEF SavingsPcs
      <3>2. PICK x : Becomes(c, x) /\ x.pc = "accSettle" /\ x.day = d /\ x.end = call[c].end
        BY <1>1, <2>1, <2>2, <3>1, GoesTo
      <3>3. today' = today
        BY <1>2
      <3>4. AttemptSound(x)'
        BY <2>2, <3>2, <3>3 DEF AttemptSound, DepositPcs, WithdrawalPcs, Accruing
      <3> QED
        BY <3>2, <3>4 DEF Goes
    <2> QED
      BY <1>2, <2>4, <2>5, <2>6, Aside
  <1> QED
    BY <1>3, <1>4

\* An attempt that goes on with the next day is on one that has ended, or done.
LEMMA NextDaySound ==
  ASSUME SavingsTypeOK, AttemptsSound, NEW c \in Attempts, NextDay(c),
         call[c].pc \in Accruing, today' = today
  PROVE  Goes
  <1>1. AttemptSound(call[c]) /\ call[c] \in AttemptShape
    BY DEF AttemptsSound
  <1>2. PICK n : n = call[c].end
    OBVIOUS
  <1>3. call[c].day \in 1..n /\ n <= today /\ n \in Nat
    BY <1>1, <1>2, SavingsBounds DEF AttemptSound, AttemptShape, Stamps
  <1>4. PICK x : /\ Becomes(c, x) /\ x.pc = (IF call[c].day < n THEN "basis" ELSE "mark")
                 /\ x.day = call[c].day + 1 /\ x.end = n
    BY <1>2, NextDayGoes
  <1>5. AttemptSound(x)'
    BY <1>3, <1>4 DEF AttemptSound, DepositPcs, WithdrawalPcs, Accruing
  <1> QED
    BY <1>4, <1>5 DEF Goes

\* The basis of a day, and the end of a run.
LEMMA RunBooks ==
  ASSUME BooksInv, NEW c \in Attempts, AccrualBasis(c) \/ MarkInterestChecked(c)
  PROVE  BooksInv'
  <1>1. SavingsTypeOK /\ AttemptsSound /\ AttemptSound(call[c]) /\ call[c] \in AttemptShape
    BY DEF BooksInv, AttemptsSound
  <1>2. UNCHANGED <<acct, saves, rows, books, payouts, today, failures>>
    BY DEF AccrualBasis, MarkInterestChecked, account
  <1>3. Later
    BY <1>1, <1>2, SameTime DEF payouts
  <1>4. CASE AccrualBasis(c)
    <2>1. through' = through /\ call[c].pc = "basis" /\ today' = today
      BY <1>4 DEF AccrualBasis, At, account
    <2>2. SavingsTypeOK'
      BY <1>1, <1>2, <2>1 DEF SavingsTypeOK, rows, books, payouts
    <2>3. CASE NextDay(c)
      <3>1. Goes
        BY <1>1, <2>1, <2>3, NextDaySound DEF Accruing
      <3> QED
        BY <1>2, <1>3, <2>2, <3>1, Aside
    <2>4. CASE To(c, "mark")
      <3>1. "mark" \in SavingsPcs
        BY DEF SavingsPcs
      <3>2. PICK x : /\ Becomes(c, x) /\ x.pc = "mark" /\ x.day = call[c].day
                     /\ x.end = call[c].end
        BY <1>1, <2>4, <3>1, GoesTo
      <3>3. call[c].day \in 1..call[c].end /\ call[c].end <= today /\ call[c].end \in Nat
        BY <1>1, <2>1, SavingsBounds DEF AttemptSound, Accruing, AttemptShape, Stamps
      <3>4. AttemptSound(x)'
        BY <2>1, <3>2, <3>3 DEF AttemptSound, DepositPcs, WithdrawalPcs, Accruing
      <3>5. Goes
        BY <3>2, <3>4 DEF Goes
      <3> QED
        BY <1>2, <1>3, <2>2, <3>5, Aside
    <2>5. CASE ~NextDay(c) /\ ~To(c, "mark")
      <3>1. PICK n : n = computeAccrual(BalanceAt(call[c].day))
        OBVIOUS
      <3>2. /\ ~(n <= 0) /\ call' = [call EXCEPT ![c].pc = "accClaim", ![c].sum = n]
        BY <1>4, <2>5, <3>1 DEF AccrualBasis
      <3>3. n \in Nat
        BY <1>1, <3>1, <3>2, BalanceIsWhole, AccrualIsWhole
      <3>4. PICK x : x = [call[c] EXCEPT !.pc = "accClaim", !.sum = n]
        OBVIOUS
      <3>5. /\ x \in AttemptShape /\ x.pc = "accClaim" /\ x.day = call[c].day
            /\ x.end = call[c].end
        BY <1>1, <3>3, <3>4 DEF AttemptShape, SavingsPcs
      <3>6. Becomes(c, x)
        BY <3>2, <3>4, <3>5 DEF Becomes
      <3>7. call[c].day \in 1..call[c].end /\ call[c].end <= today /\ call[c].end \in Nat
        BY <1>1, <2>1, SavingsBounds DEF AttemptSound, Accruing, AttemptShape, Stamps
      <3>8. AttemptSound(x)'
        BY <2>1, <3>5, <3>7 DEF AttemptSound, DepositPcs, WithdrawalPcs, Accruing
      <3>9. Goes
        BY <3>6, <3>8 DEF Goes
      <3> QED
        BY <1>2, <1>3, <2>2, <3>9, Aside
    <2> QED
      BY <2>3, <2>4, <2>5
  <1>5. CASE MarkInterestChecked(c)
    <2>1. call[c].day \in 1..(call[c].end + 1) /\ call[c].end <= today /\ call[c].end \in Nat
          /\ today \in Nat /\ today <= MaxDay
      BY <1>1, <1>5, SavingsBounds DEF MarkInterestChecked, At, AttemptSound, AttemptShape,
         SavingsTypeOK, Stamps
    <2>2. call[c].day - 1 \in Stamps
      BY <2>1, SavingsBounds DEF Stamps
    <2>3. through' \in Stamps
      BY <1>1, <1>5, <2>2 DEF MarkInterestChecked, SavingsTypeOK
    <2>4. SavingsTypeOK'
      BY <1>1, <1>2, <2>3 DEF SavingsTypeOK, rows, books, payouts
    <2>5. PICK x : Becomes(c, x) /\ x.pc = "idle"
      BY <1>1, <1>5, Returns DEF MarkInterestChecked
    <2>6. Goes
      BY <2>5, IdleSound DEF Goes
    <2> QED
      BY <1>2, <1>3, <2>4, <2>6, Aside
  <1> QED
    BY <1>4, <1>5

-----------------------------------------------------------------------------
(* Steps that move money *)

\* The balance follows the row of a withdrawal that turns.
LEMMA TurnFunds ==
  ASSUME SavingsTypeOK, FundsAddUp, NEW k, NEW o, NEW st, RowTurns(k, o, st),
         UNCHANGED <<dep, interest>>,
         res' = res + (IF st = "PENDING" THEN Amount[k] ELSE 0)
                    - (IF o = "PENDING" THEN Amount[k] ELSE 0),
         bal' = bal - (IF st = "COMPLETED" THEN Amount[k] ELSE 0)
                    + (IF o = "COMPLETED" THEN Amount[k] ELSE 0),
         res' <= bal'
  PROVE  FundsAddUp'
  <1>1. /\ Total(Amount, Rows(st))' = Total(Amount, Rows(st)) + Amount[k]
        /\ Total(Amount, Rows(o))' = Total(Amount, Rows(o)) - Amount[k]
        /\ \A s : s # st /\ s # o => Rows(s)' = Rows(s)
    BY RowsTurn
  <1>2. o # st /\ Amount[k] \in Nat
    BY MovementAssumption DEF RowTurns
  <1>3. /\ Rows("PENDING") \in SUBSET Withdrawals /\ Rows("COMPLETED") \in SUBSET Withdrawals
        /\ Completed \in SUBSET Deposits /\ CreditedDays \in SUBSET Days
    BY DEF Rows, Completed, CreditedDays
  <1>4. /\ Total(Amount, Rows("PENDING")) \in Nat /\ Total(Amount, Rows("COMPLETED")) \in Nat
        /\ Total(Amount, Completed) \in Nat /\ Total(Earned, CreditedDays) \in Nat
    BY <1>3, AmountsSum, EarnedSum
  <1>5. Total(Amount, Completed)' = Total(Amount, Completed)
        /\ Total(Earned, CreditedDays)' = Total(Earned, CreditedDays)
    BY DEF Completed, CreditedDays, Credited, Earned
  <1>6. Total(Amount, Rows("PENDING"))' = Total(Amount, Rows("PENDING"))
          + (IF st = "PENDING" THEN Amount[k] ELSE 0) - (IF o = "PENDING" THEN Amount[k] ELSE 0)
    BY <1>1, <1>2, <1>4
  <1>7. Total(Amount, Rows("COMPLETED"))' = Total(Amount, Rows("COMPLETED"))
          + (IF st = "COMPLETED" THEN Amount[k] ELSE 0)
          - (IF o = "COMPLETED" THEN Amount[k] ELSE 0)
    BY <1>1, <1>2, <1>4
  <1>8. bal \in Int /\ res \in Int /\ Opening \in Nat
    BY MovementAssumption DEF SavingsTypeOK
  <1> QED
    BY <1>2, <1>4, <1>5, <1>6, <1>7, <1>8 DEF FundsAddUp

\* A row that turns stays booked when it completes on a payout and is reversed on a
\* failed one.
LEMMA TurnBooked ==
  ASSUME SettledIsBooked, Later, NEW k, NEW o, NEW st, RowTurns(k, o, st),
         UNCHANGED <<dep, interest>>,
         st = "COMPLETED" => order'[k] # "none", st = "REVERSED" => order'[k] = "failed"
  PROVE  SettledIsBooked'
  <1>1. Completed' = Completed /\ \A d \in Days : Credited(d)' = Credited(d)
    BY DEF Completed, Credited
  <1>2. (Completed \union {d \in Days : Credited(d)})' \subseteq posted'
    BY <1>1 DEF SettledIsBooked, Later
  <1>3. ASSUME NEW j \in Withdrawals
        PROVE  /\ wdr'[j].st = "COMPLETED" => order'[j] # "none"
               /\ wdr'[j].st = "REVERSED" => order'[j] = "failed"
    BY DEF SettledIsBooked, Later, RowTurns
  <1> QED
    BY <1>2, <1>3 DEF SettledIsBooked

\* Nothing of a movement changes.
LEMMA Together ==
  ASSUME BooksInv, SavingsTypeOK', FundsAddUp', SettledIsBooked', Later, Goes
  PROVE  BooksInv'
  BY AttemptsKept DEF BooksInv

\* An attempt that returns.
LEMMA ReturnGoes ==
  ASSUME SavingsTypeOK, NEW c \in Attempts, Return(c)
  PROVE  Goes
  <1>1. PICK x : Becomes(c, x) /\ x.pc = "idle"
    BY Returns
  <1> QED
    BY <1>1, IdleSound DEF Goes

\* The holds of withdrawals, and their end.
LEMMA WithdrawalBooks ==
  ASSUME BooksInv, NEW c \in Attempts,
         ClaimWithHold(c) \/ SettleWithdrawal(c) \/ ReleaseHold(c, "cancel") \/ ReleaseHold(c, "release")
  PROVE  BooksInv'
  <1>1. SavingsTypeOK /\ FundsAddUp /\ SettledIsBooked /\ AttemptsSound
        /\ AttemptSound(call[c]) /\ call[c] \in AttemptShape
    BY DEF BooksInv, AttemptsSound
  <1>2. PICK k : k = call[c].key
    OBVIOUS
  <1>3. k \in Withdrawals /\ (call[c].pc = "settle" => order[k] # "none")
    BY <1>1, <1>2 DEF ClaimWithHold, SettleWithdrawal, ReleaseHold, At, AttemptSound, WithdrawalPcs
  <1>4. UNCHANGED <<account, dep, interest, payouts, today, failures>> /\ Return(c)
    BY DEF ClaimWithHold, SettleWithdrawal, ReleaseHold
  <1>5. Later /\ Goes
    BY <1>1, <1>4, SameTime, ReturnGoes DEF payouts
  <1>6. /\ bal \in Int /\ res \in Int /\ Amount[k] \in Nat \ {0} /\ today \in Stamps
        /\ wdr \in [Withdrawals ->
             [st : {"NONE", "PENDING", "COMPLETED", "REJECTED", "REVERSED"},
              at : Stamps, done : Stamps]]
    BY <1>1, <1>3, MovementAssumption DEF SavingsTypeOK
  <1>7. CASE UNCHANGED <<wdr, bal, res>>
    <2>1. UNCHANGED <<rows, books>>
      BY <1>4, <1>7 DEF rows, books
    <2>2. SavingsTypeOK'
      BY <1>1, <1>4, <1>7 DEF SavingsTypeOK, account, payouts
    <2> QED
      BY <1>5, <2>1, <2>2, Aside
  <1>8. CASE ClaimWithHold(c) /\ ~UNCHANGED <<wdr, bal, res>>
    <2>1. /\ wdr[k].st = "NONE" /\ bal - res >= Amount[k]
          /\ wdr' = [wdr EXCEPT ![k].st = "PENDING"] /\ res' = res + Amount[k] /\ bal' = bal
      BY <1>2, <1>8 DEF ClaimWithHold
    <2>2. RowTurns(k, "NONE", "PENDING")
      BY <1>3, <1>6, <2>1 DEF RowTurns
    <2>3. SavingsTypeOK'
      BY <1>1, <1>3, <1>4, <1>6, <2>1 DEF SavingsTypeOK, account, payouts
    <2>4. FundsAddUp'
      BY <1>1, <1>4, <1>6, <2>1, <2>2, TurnFunds
    <2>5. SettledIsBooked'
      BY <1>1, <1>4, <1>5, <2>2, TurnBooked
    <2> QED
      BY <1>5, <2>3, <2>4, <2>5, Together
  <1>9. CASE SettleWithdrawal(c) /\ ~UNCHANGED <<wdr, bal, res>>
    <2>1. /\ wdr[k].st = "PENDING" /\ res >= Amount[k] /\ bal >= Amount[k]
          /\ wdr' = [wdr EXCEPT ![k] = [st |-> "COMPLETED", at |-> today, done |-> today]]
          /\ res' = res - Amount[k] /\ bal' = bal - Amount[k] /\ order[k] # "none"
      BY <1>2, <1>3, <1>9 DEF SettleWithdrawal, At, books
    <2>2. RowTurns(k, "PENDING", "COMPLETED")
      BY <1>3, <1>6, <2>1 DEF RowTurns
    <2>3. SavingsTypeOK'
      BY <1>1, <1>3, <1>4, <1>6, <2>1 DEF SavingsTypeOK, account, payouts
    <2>4. FundsAddUp'
      BY <1>1, <1>4, <1>6, <2>1, <2>2, TurnFunds DEF FundsAddUp
    <2>5. order' = order
      BY <1>4 DEF payouts
    <2>6. SettledIsBooked'
      BY <1>1, <1>4, <1>5, <2>1, <2>2, <2>5, TurnBooked
    <2> QED
      BY <1>5, <2>3, <2>4, <2>6, Together
  <1>10. CASE (\E p \in {"cancel", "release"} : ReleaseHold(c, p)) /\ ~UNCHANGED <<wdr, bal, res>>
    <2>1. /\ wdr[k].st = "PENDING" /\ res >= Amount[k]
          /\ wdr' = [wdr EXCEPT ![k].st = "REJECTED", ![k].at = today]
          /\ res' = res - Amount[k] /\ bal' = bal
      BY <1>2, <1>10 DEF ReleaseHold
    <2>2. \E r : /\ wdr' = [wdr EXCEPT ![k] = r] /\ r.st = "REJECTED"
                  /\ r \in [st : {"REJECTED"}, at : Stamps, done : Stamps]
      <3>1. PICK r : r = [wdr[k] EXCEPT !.st = "REJECTED", !.at = today]
        OBVIOUS
      <3>2. wdr' = [wdr EXCEPT ![k] = r]
        BY <2>1, <3>1
      <3>3. r = [st |-> "REJECTED", at |-> today, done |-> wdr[k].done]
        BY <1>3, <1>6, <3>1
      <3>4. wdr[k].done \in Stamps
        BY <1>3, <1>6
      <3>5. r \in [st : {"REJECTED"}, at : Stamps, done : Stamps] /\ r.st = "REJECTED"
        BY <1>6, <3>3, <3>4
      <3> QED
        BY <3>2, <3>5
    <2>3. RowTurns(k, "PENDING", "REJECTED")
      BY <1>3, <1>6, <2>1, <2>2 DEF RowTurns
    <2>4. SavingsTypeOK'
      <3>1. PICK r \in [st : {"REJECTED"}, at : Stamps, done : Stamps] : wdr' = [wdr EXCEPT ![k] = r]
        BY <2>2
      <3>2. r \in [st : {"NONE", "PENDING", "COMPLETED", "REJECTED", "REVERSED"},
                  at : Stamps, done : Stamps]
        OBVIOUS
      <3>3. wdr' \in [Withdrawals ->
              [st : {"NONE", "PENDING", "COMPLETED", "REJECTED", "REVERSED"},
               at : Stamps, done : Stamps]]
        BY <1>3, <1>6, <3>1, <3>2
      <3>4. res' \in Int /\ bal' \in Int
        BY <1>6, <2>1
      <3> QED
        BY <1>1, <1>4, <3>3, <3>4 DEF SavingsTypeOK, account, payouts
    <2>5. FundsAddUp'
      BY <1>1, <1>4, <1>6, <2>1, <2>3, TurnFunds DEF FundsAddUp
    <2>6. SettledIsBooked'
      BY <1>1, <1>4, <1>5, <2>3, TurnBooked
    <2> QED
      BY <1>5, <2>4, <2>5, <2>6, Together
  <1> QED
    BY <1>7, <1>8, <1>9, <1>10

\* A late failure gives a completed withdrawal back.
LEMMA PayoutFailedBooks ==
  ASSUME BooksInv, NEW k \in Withdrawals, PayoutFailed(k)
  PROVE  BooksInv'
  <1>1. SavingsTypeOK /\ FundsAddUp /\ SettledIsBooked /\ AttemptsSound
    BY DEF BooksInv
  <1>2. /\ UNCHANGED <<account, dep, interest, res, order, posted, today, call, failures>>
        /\ order[k] = "failed" /\ told' = told \union {k}
    BY DEF PayoutFailed
  <1>3. Later /\ Goes
    BY <1>1, <1>2, SameTime DEF Goes
  <1>4. /\ bal \in Int /\ res \in Int /\ Amount[k] \in Nat \ {0} /\ today \in Stamps
        /\ wdr \in [Withdrawals ->
             [st : {"NONE", "PENDING", "COMPLETED", "REJECTED", "REVERSED"},
              at : Stamps, done : Stamps]]
    BY <1>1, MovementAssumption DEF SavingsTypeOK
  <1>5. CASE UNCHANGED <<wdr, bal>>
    <2>1. UNCHANGED <<rows, books>>
      BY <1>2, <1>5 DEF rows, books
    <2>2. SavingsTypeOK'
      BY <1>1, <1>2, <1>5 DEF SavingsTypeOK, account
    <2> QED
      BY <1>3, <2>1, <2>2, Aside DEF rows
  <1>6. CASE ~UNCHANGED <<wdr, bal>>
    <2>1. /\ wdr[k].st = "COMPLETED" /\ bal' = bal + Amount[k]
          /\ wdr' = [wdr EXCEPT ![k].st = "REVERSED", ![k].at = today]
      BY <1>6 DEF PayoutFailed
    <2>2. PICK r : r = [wdr[k] EXCEPT !.st = "REVERSED", !.at = today]
      OBVIOUS
    <2>3. wdr' = [wdr EXCEPT ![k] = r]
      BY <2>1, <2>2
    <2>4. r = [st |-> "REVERSED", at |-> today, done |-> wdr[k].done]
      BY <1>4, <2>2
    <2>5. wdr[k].done \in Stamps
      BY <1>4
    <2>6. r.st = "REVERSED"
          /\ r \in [st : {"NONE", "PENDING", "COMPLETED", "REJECTED", "REVERSED"},
                    at : Stamps, done : Stamps]
      BY <1>4, <2>4, <2>5
    <2>7. wdr' \in [Withdrawals ->
              [st : {"NONE", "PENDING", "COMPLETED", "REJECTED", "REVERSED"},
               at : Stamps, done : Stamps]]
      BY <1>4, <2>3, <2>6
    <2>8. RowTurns(k, "COMPLETED", "REVERSED")
      BY <1>4, <2>1, <2>3, <2>6 DEF RowTurns
    <2>9. SavingsTypeOK'
      BY <1>1, <1>2, <1>4, <2>1, <2>7 DEF SavingsTypeOK, account
    <2>10. FundsAddUp'
      BY <1>1, <1>2, <1>4, <2>1, <2>8, TurnFunds DEF FundsAddUp
    <2>11. SettledIsBooked'
      BY <1>1, <1>2, <1>3, <2>8, TurnBooked
    <2> QED
      BY <1>3, <2>9, <2>10, <2>11, Together
  <1> QED
    BY <1>5, <1>6

\* The row of a deposit.
LEMMA DepositClaimBooks ==
  ASSUME BooksInv, NEW c \in Attempts, DepositClaim(c)
  PROVE  BooksInv'
  <1>1. SavingsTypeOK /\ FundsAddUp /\ SettledIsBooked /\ AttemptsSound
        /\ AttemptSound(call[c]) /\ call[c] \in AttemptShape
    BY DEF BooksInv, AttemptsSound
  <1>2. PICK k : k = call[c].key
    OBVIOUS
  <1>3. k \in Deposits
    BY <1>1, <1>2 DEF DepositClaim, At, AttemptSound, DepositPcs
  <1>4. UNCHANGED <<account, wdr, interest, books, payouts, today, failures>>
        /\ (Return(c) \/ To(c, "depPost"))
    BY DEF DepositClaim
  <1>5. PICK st : st = IF dep[k].st = "NONE" THEN "PENDING" ELSE dep[k].st
    OBVIOUS
  <1>6. dep \in [Deposits -> [st : {"NONE", "PENDING", "COMPLETED"}, at : Stamps]]
    BY <1>1 DEF SavingsTypeOK
  <1>7. dep' = [dep EXCEPT ![k].st = st] /\ st \in {"NONE", "PENDING", "COMPLETED"}
    BY <1>2, <1>3, <1>5, <1>6 DEF DepositClaim
  <1>8. Later
    BY <1>1, <1>4, SameTime DEF payouts
  <1>9. Goes
    <2>1. CASE Return(c)
      BY <1>1, <2>1, ReturnGoes
    <2>2. CASE To(c, "depPost")
      <3>1. "depPost" \in SavingsPcs
        BY DEF SavingsPcs
      <3>2. PICK x : Becomes(c, x) /\ x.pc = "depPost" /\ x.key = k
        BY <1>1, <1>2, <2>2, <3>1, GoesTo
      <3>3. AttemptSound(x)'
        BY <1>3, <3>2 DEF AttemptSound, DepositPcs, WithdrawalPcs, Accruing
      <3> QED
        BY <3>2, <3>3 DEF Goes
    <2> QED
      BY <1>4, <2>1, <2>2
  <1>10. dep' \in [Deposits -> [st : {"NONE", "PENDING", "COMPLETED"}, at : Stamps]]
    BY <1>3, <1>6, <1>7
  <1>11. SavingsTypeOK'
    BY <1>1, <1>4, <1>10 DEF SavingsTypeOK, account, books, payouts
  <1>12. Completed' = Completed /\ CreditedDays' = CreditedDays
    BY <1>3, <1>4, <1>5, <1>6, <1>7 DEF Completed, CreditedDays, Credited
  <1>13. FundsAddUp'
    BY <1>1, <1>4, <1>12, FundsRest DEF books
  <1>14. SettledIsBooked'
    BY <1>1, <1>4, <1>8, <1>12, BookedRest
  <1> QED
    BY <1>8, <1>9, <1>11, <1>13, <1>14, Together

\* The settlement of a deposit.
LEMMA DepositSettleBooks ==
  ASSUME BooksInv, NEW c \in Attempts, DepositSettle(c)
  PROVE  BooksInv'
  <1>1. SavingsTypeOK /\ FundsAddUp /\ SettledIsBooked /\ AttemptsSound
        /\ AttemptSound(call[c]) /\ call[c] \in AttemptShape
    BY DEF BooksInv, AttemptsSound
  <1>2. PICK k : k = call[c].key
    OBVIOUS
  <1>3. k \in Deposits /\ k \in posted
    BY <1>1, <1>2 DEF DepositSettle, At, AttemptSound, DepositPcs
  <1>4. UNCHANGED <<account, wdr, interest, res, payouts, today, failures>> /\ Return(c)
    BY DEF DepositSettle
  <1>5. Later /\ Goes
    BY <1>1, <1>4, SameTime, ReturnGoes DEF payouts
  <1>6. /\ dep \in [Deposits -> [st : {"NONE", "PENDING", "COMPLETED"}, at : Stamps]]
        /\ bal \in Int /\ res \in Int /\ Opening \in Nat /\ Amount[k] \in Nat \ {0} /\ today \in Stamps
    BY <1>1, <1>3, MovementAssumption DEF SavingsTypeOK
  <1>7. CASE UNCHANGED <<dep, bal>>
    <2>1. UNCHANGED <<rows, books>>
      BY <1>4, <1>7 DEF rows, books
    <2>2. SavingsTypeOK'
      BY <1>1, <1>4, <1>7 DEF SavingsTypeOK, account, payouts
    <2> QED
      BY <1>5, <2>1, <2>2, Aside
  <1>8. CASE ~UNCHANGED <<dep, bal>>
    <2>1. /\ dep[k].st = "PENDING" /\ bal' = bal + Amount[k]
          /\ dep' = [dep EXCEPT ![k] = [st |-> "COMPLETED", at |-> today]]
      BY <1>2, <1>8 DEF DepositSettle
    <2>2. SavingsTypeOK'
      BY <1>1, <1>3, <1>4, <1>6, <2>1 DEF SavingsTypeOK, account, payouts
    <2>3. Completed' = Completed \union {k} /\ k \notin Completed /\ Completed \in SUBSET Deposits
      BY <1>3, <1>6, <2>1 DEF Completed
    <2>4. Total(Amount, Completed \union {k}) = Total(Amount, Completed) + Amount[k]
      BY <1>3, <2>3, AmountJoins
    <2>5. Total(Amount, Completed)' = Total(Amount, Completed) + Amount[k]
      BY <2>3, <2>4
    <2>6. Rows("PENDING")' = Rows("PENDING") /\ Rows("COMPLETED")' = Rows("COMPLETED")
          /\ CreditedDays' = CreditedDays /\ Earned' = Earned
      BY <1>4 DEF Rows, CreditedDays, Credited, Earned
    <2>7. Total(Amount, Completed) \in Nat /\ Total(Amount, Rows("COMPLETED")) \in Nat
          /\ Total(Earned, CreditedDays) \in Nat
      BY <1>1, AmountsSum, EarnedSum DEF Completed, Rows, CreditedDays
    <2>8. FundsAddUp'
      BY <1>1, <1>4, <1>6, <2>1, <2>5, <2>6, <2>7 DEF FundsAddUp
    <2>9. SettledIsBooked'
      <3>1. (Completed \union {d \in Days : Credited(d)})' \subseteq posted'
        BY <1>1, <1>3, <1>4, <1>5, <2>3 DEF SettledIsBooked, Later, Credited
      <3>2. wdr' = wdr /\ order' = order
        BY <1>4 DEF payouts
      <3> QED
        BY <1>1, <3>1, <3>2 DEF SettledIsBooked
    <2> QED
      BY <1>5, <2>2, <2>8, <2>9, Together
  <1> QED
    BY <1>7, <1>8

\* The row of a day's interest.
LEMMA AccrualClaimBooks ==
  ASSUME BooksInv, NEW c \in Attempts, AccrualClaim(c)
  PROVE  BooksInv'
  <1>1. SavingsTypeOK /\ FundsAddUp /\ SettledIsBooked /\ AttemptsSound
        /\ AttemptSound(call[c]) /\ call[c] \in AttemptShape
    BY DEF BooksInv, AttemptsSound
  <1>2. PICK d : d = call[c].day
    OBVIOUS
  <1>3. call[c].pc = "accClaim" /\ today' = today
    BY DEF AccrualClaim, At
  <1>4. d \in 1..call[c].end /\ call[c].end <= today /\ call[c].end \in Nat /\ today \in Nat
        /\ today <= MaxDay
    BY <1>1, <1>2, <1>3, SavingsBounds DEF AttemptSound, Accruing, AttemptShape, SavingsTypeOK, Stamps
  <1>5. d \in Days
    BY <1>4, SavingsBounds DEF Days
  <1>6. UNCHANGED <<account, dep, wdr, books, payouts, today, failures>>
        /\ (NextDay(c) \/ To(c, "accPost"))
    BY DEF AccrualClaim
  <1>7. interest \in [Days -> [st : {"NONE", "CLAIMED", "SETTLED"}, sum : Nat]]
    BY <1>1 DEF SavingsTypeOK
  <1>8. PICK r : r = IF interest[d].st = "NONE" THEN [st |-> "CLAIMED", sum |-> call[c].sum]
                     ELSE interest[d]
    OBVIOUS
  <1>9. interest' = [interest EXCEPT ![d] = r]
    BY <1>2, <1>8 DEF AccrualClaim
  <1>10. /\ r \in [st : {"NONE", "CLAIMED", "SETTLED"}, sum : Nat]
         /\ interest[d].st # "NONE" => r = interest[d]
         /\ r.st = "SETTLED" => interest[d].st = "SETTLED"
    BY <1>1, <1>5, <1>7, <1>8 DEF AttemptShape
  <1>11. Later
    BY <1>1, <1>6, SameTime DEF payouts
  <1>12. Goes
    <2>1. CASE NextDay(c)
      BY <1>1, <1>3, <2>1, NextDaySound DEF Accruing
    <2>2. CASE To(c, "accPost")
      <3>1. "accPost" \in SavingsPcs
        BY DEF SavingsPcs
      <3>2. PICK x : Becomes(c, x) /\ x.pc = "accPost" /\ x.day = d /\ x.end = call[c].end
        BY <1>1, <1>2, <2>2, <3>1, GoesTo
      <3>3. AttemptSound(x)'
        BY <1>3, <1>4, <3>2 DEF AttemptSound, DepositPcs, WithdrawalPcs, Accruing
      <3> QED
        BY <3>2, <3>3 DEF Goes
    <2> QED
      BY <1>6, <2>1, <2>2
  <1>13. interest' \in [Days -> [st : {"NONE", "CLAIMED", "SETTLED"}, sum : Nat]]
    BY <1>5, <1>7, <1>9, <1>10
  <1>14. SavingsTypeOK'
    BY <1>1, <1>6, <1>13 DEF SavingsTypeOK, account, books, payouts
  <1>15. \A e \in Days : Credited(e)' = Credited(e)
    BY <1>5, <1>7, <1>9, <1>10 DEF Credited
  <1>16. CreditedDays' = CreditedDays
    BY <1>15 DEF CreditedDays
  <1>17. \A e \in CreditedDays : interest'[e].sum = interest[e].sum
    BY <1>5, <1>7, <1>9, <1>10 DEF CreditedDays, Credited
  <1>18. Completed' = Completed /\ UNCHANGED <<bal, res, wdr>>
    BY <1>6 DEF Completed, books
  <1>19. FundsAddUp'
    BY <1>1, <1>16, <1>17, <1>18, FundsRest
  <1>20. SettledIsBooked'
    BY <1>1, <1>11, <1>16, <1>18, BookedRest
  <1> QED
    BY <1>11, <1>12, <1>14, <1>19, <1>20, Together

\* The settlement of a day's interest.
LEMMA AccrualSettleBooks ==
  ASSUME BooksInv, NEW c \in Attempts, AccrualSettle(c)
  PROVE  BooksInv'
  <1>1. SavingsTypeOK /\ FundsAddUp /\ SettledIsBooked /\ AttemptsSound
        /\ AttemptSound(call[c]) /\ call[c] \in AttemptShape
    BY DEF BooksInv, AttemptsSound
  <1>2. PICK d : d = call[c].day
    OBVIOUS
  <1>3. call[c].pc = "accSettle" /\ today' = today
    BY DEF AccrualSettle, At
  <1>4. d \in 1..call[c].end /\ call[c].end <= today /\ call[c].end \in Nat /\ today \in Nat
        /\ today <= MaxDay /\ d \in posted
    BY <1>1, <1>2, <1>3, SavingsBounds DEF AttemptSound, Accruing, AttemptShape, SavingsTypeOK, Stamps
  <1>5. d \in Days
    BY <1>4, SavingsBounds DEF Days
  <1>6. UNCHANGED <<account, dep, wdr, res, payouts, today, failures>> /\ NextDay(c)
    BY DEF AccrualSettle
  <1>7. /\ interest \in [Days -> [st : {"NONE", "CLAIMED", "SETTLED"}, sum : Nat]]
        /\ bal \in Int /\ res \in Int /\ Opening \in Nat
    BY <1>1, MovementAssumption DEF SavingsTypeOK
  <1>8. Later
    BY <1>1, <1>6, SameTime DEF payouts
  <1>9. Goes
    BY <1>1, <1>3, <1>6, NextDaySound DEF Accruing
  <1>10. CASE UNCHANGED <<interest, bal>>
    <2>1. UNCHANGED <<rows, books>>
      BY <1>6, <1>10 DEF rows, books
    <2>2. SavingsTypeOK'
      BY <1>1, <1>6, <1>10 DEF SavingsTypeOK, account, payouts
    <2> QED
      BY <1>8, <1>9, <2>1, <2>2, Aside
  <1>11. CASE ~UNCHANGED <<interest, bal>>
    <2>1. /\ interest[d].st = "CLAIMED" /\ bal' = bal + interest[d].sum
          /\ interest' = [interest EXCEPT ![d].st = "SETTLED"]
      BY <1>2, <1>11 DEF AccrualSettle
    <2>2. interest' \in [Days -> [st : {"NONE", "CLAIMED", "SETTLED"}, sum : Nat]]
          /\ interest[d].sum \in Nat
      BY <1>5, <1>7, <2>1
    <2>3. SavingsTypeOK'
      BY <1>1, <1>6, <1>7, <2>1, <2>2 DEF SavingsTypeOK, account, payouts
    <2>4. /\ \A e \in Days : interest'[e].sum = interest[e].sum
          /\ \A e \in Days : interest'[e].st = "SETTLED" <=> e = d \/ interest[e].st = "SETTLED"
      BY <1>5, <1>7, <2>1
    <2>5. CreditedDays' = CreditedDays \union {d} /\ d \notin CreditedDays
          /\ CreditedDays \in SUBSET Days
      BY <1>5, <2>1, <2>4 DEF CreditedDays, Credited
    <2>6. PICK e : e = Earned'
      OBVIOUS
    <2>7. SameOn(Earned, e, CreditedDays \union {d}) /\ Earned[d] = interest[d].sum
      BY <1>5, <2>4, <2>5, <2>6 DEF SameOn, Earned
    <2>8. PICK S : S = CreditedDays \union {d}
      OBVIOUS
    <2>9. S \in SUBSET Days
      BY <1>5, <2>5, <2>8
    <2>10. IsFiniteSet(S) /\ IsFiniteSet(CreditedDays) /\ Whole(Earned, CreditedDays)
           /\ Total(Earned, CreditedDays) \in Nat
      BY <1>1, <2>5, <2>9, EarnedSum
    <2>11. Total(e, S) = Total(Earned, S)
      BY <2>7, <2>8, <2>10, TotalSame
    <2>12. Earned[d] \in Int
      BY <2>2, <2>7
    <2>13. Total(Earned, S) = Total(Earned, CreditedDays) + Earned[d]
      BY <2>5, <2>8, <2>10, <2>12, TotalInsert
    <2>14. Total(Earned, CreditedDays)' = Total(Earned, CreditedDays) + interest[d].sum
      BY <2>5, <2>6, <2>7, <2>8, <2>11, <2>13
    <2>15. Rows("PENDING")' = Rows("PENDING") /\ Rows("COMPLETED")' = Rows("COMPLETED")
           /\ Completed' = Completed
      BY <1>6 DEF Rows, Completed
    <2>16. Total(Amount, Completed) \in Nat /\ Total(Amount, Rows("COMPLETED")) \in Nat
      BY AmountsSum DEF Completed, Rows
    <2>17. FundsAddUp'
      BY <1>1, <1>6, <1>7, <2>1, <2>2, <2>10, <2>14, <2>15, <2>16 DEF FundsAddUp
    <2>18. SettledIsBooked'
      <3>1. (Completed \union CreditedDays)' \subseteq posted'
        BY <1>1, <1>4, <1>6, <1>8, <2>5, <2>15 DEF SettledIsBooked, Later, CreditedDays
      <3>2. wdr' = wdr /\ order' = order
        BY <1>6 DEF payouts
      <3> QED
        BY <1>1, <3>1, <3>2 DEF SettledIsBooked, CreditedDays
    <2> QED
      BY <1>8, <1>9, <2>3, <2>17, <2>18, Together
  <1> QED
    BY <1>10, <1>11

-----------------------------------------------------------------------------
(* The balance agrees with the rows *)

\* The books start empty and agree.
LEMMA InitBooks ==
  ASSUME SavingsInit
  PROVE  BooksInv
  <1>1. SavingsTypeOK
    BY MovementAssumption, SavingsBounds DEF SavingsInit, SavingsTypeOK, Stamps
  <1>2. Rows("PENDING") = {} /\ Rows("COMPLETED") = {} /\ Completed = {} /\ CreditedDays = {}
        /\ \A k \in Withdrawals : wdr[k].st = "NONE"
    BY DEF SavingsInit, Rows, Completed, CreditedDays, Credited
  <1>3. FundsAddUp
    <2>1. \A f : Total(f, {}) = 0
      BY TotalEmpty
    <2>2. Total(Amount, {}) = 0 /\ Total(Earned, {}) = 0
      BY <2>1
    <2>3. /\ Total(Amount, Rows("PENDING")) = 0 /\ Total(Amount, Rows("COMPLETED")) = 0
          /\ Total(Amount, Completed) = 0 /\ Total(Earned, CreditedDays) = 0
      BY <1>2, <2>2
    <2>4. bal = Opening /\ res = 0 /\ Opening \in Nat
      BY MovementAssumption DEF SavingsInit
    <2> QED
      BY <2>3, <2>4 DEF FundsAddUp
  <1>4. SettledIsBooked
    BY <1>2 DEF SettledIsBooked, CreditedDays
  <1>5. Idle \in AttemptShape /\ Idle.pc = "idle"
    BY SavingsBounds DEF Idle, AttemptShape, SavingsPcs, Stamps
  <1>6. AttemptsSound
    BY <1>5 DEF AttemptsSound, SavingsInit, AttemptSound, DepositPcs, WithdrawalPcs, Accruing
  <1> QED
    BY <1>1, <1>3, <1>4, <1>6 DEF BooksInv

\* Every step of the service keeps the books.
LEMMA NextBooks ==
  ASSUME BooksInv, SavingsNext
  PROVE  BooksInv'
  <1>1. CASE \/ \E k \in Withdrawals : RailDecides(k)
             \/ Freeze \/ Close \/ (\E s \in saves : ApplySave(s)) \/ EndOfDay
    BY <1>1, OutsideBooks
  <1>2. CASE \E k \in Withdrawals : PayoutFailed(k)
    BY <1>2, PayoutFailedBooks
  <1>3. ASSUME NEW c \in Attempts,
               \/ \E k \in Deposits : Record(c, k)
               \/ \E k \in Withdrawals : Request(c, k) \/ Approve(c, k) \/ Cancel(c, k)
               \/ AccrueInterest(c) \/ Die(c) \/ AccrualFails(c)
        PROVE  BooksInv'
    BY <1>3, StartsBooks
  <1>4. ASSUME NEW c \in Attempts, CallStep(c)
        PROVE  BooksInv'
    BY <1>4, PostWithdrawalBooks, PostsBooks, RunBooks, WithdrawalBooks, DepositClaimBooks,
       DepositSettleBooks, AccrualClaimBooks, AccrualSettleBooks DEF CallStep
  <1> QED
    BY <1>1, <1>2, <1>3, <1>4 DEF SavingsNext

\* The books say nothing of what no savings variable holds.
LEMMA StutterBooks ==
  ASSUME BooksInv, UNCHANGED savingsVars
  PROVE  BooksInv'
  <1>1. UNCHANGED <<rows, books, account, payouts, today, call, failures>>
    BY DEF savingsVars
  <1>2. SavingsTypeOK /\ SavingsTypeOK'
    BY <1>1 DEF BooksInv, SavingsTypeOK, rows, books, account, payouts
  <1>3. Later /\ Goes
    BY <1>1, <1>2, SameTime DEF payouts, Goes
  <1> QED
    BY <1>1, <1>2, <1>3, Aside

\* Every reachable state has consistent books: the balance row, the rows of
\* deposits and withdrawals, the orders of operations and the calls still in flight agree
\* (deposit_repo.go, withdrawal_repo.go, interest_accrual_repo.go).
THEOREM SavingsBooksKept == SavingsSpec => []BooksInv
  <1>1. SavingsInit => BooksInv
    BY InitBooks
  <1>2. BooksInv /\ [SavingsNext]_savingsVars => BooksInv'
    BY NextBooks, StutterBooks
  <1> QED
    BY <1>1, <1>2, PTL DEF SavingsSpec

\* The balance row always agrees with the movements, however calls interleave, fail or
\* die: what it reserves is the PENDING withdrawals', what it holds is the deposits and
\* interest settled less the withdrawals settled, and the holds never pass the balance
\* (ClaimWithHold, ReleaseHold and Settle of withdrawal_repo.go, Settle of deposit_repo.go).
THEOREM TheBalanceFollows == SavingsSpec => []FundsMatchRows
  <1>1. BooksInv => FundsMatchRows
    BY DEF BooksInv, FundsAddUp, FundsMatchRows, CreditedDays
  <1> QED
    BY <1>1, SavingsBooksKept, PTL

\* A deposit or a day's interest is settled only when operations has posted its order, a
\* withdrawal only when its payout was taken, and one is reversed only when its payout
\* failed (deposit.go, interest_accrual.go and withdrawal.go: post, then settle).
THEOREM NothingUnbookedSettles == SavingsSpec => []SettledIsBooked
  <1>1. BooksInv => SettledIsBooked
    BY DEF BooksInv
  <1> QED
    BY <1>1, SavingsBooksKept, PTL

-----------------------------------------------------------------------------
(* The balance of a day that has ended *)

DepositsBefore(d) == {k \in Completed : dep[k].at < d}
PaidOut == Rows("COMPLETED") \union Rows("REVERSED")
PaidBefore(d) == {k \in PaidOut : wdr[k].done < d}
ReversedBefore(d) == {k \in Rows("REVERSED") : wdr[k].at < d}
CreditedBefore(d) == {e \in Days : e < d /\ Credited(e)}
CreditedAfter(d) == {e \in Days : e > d /\ Credited(e)}

\* A completed withdrawal was last modified when it completed, a reversed one later.
RowsDated ==
  \A k \in Withdrawals :
    /\ wdr[k].st = "COMPLETED" => wdr[k].at = wdr[k].done /\ wdr[k].done <= today
    /\ wdr[k].st = "REVERSED" => wdr[k].done <= wdr[k].at

\* Nothing is left to be earned on a day, and on any day up to the n-th.
Passed(e) == Credited(e) \/ Closing(e) <= 0 \/ computeAccrual(Closing(e)) <= 0
PassedTo(n) == \A e \in Days : e <= n => Passed(e)
\* n is what day d earns.
Due(d, n) == Closing(d) > 0 /\ n > 0 /\ n = computeAccrual(Closing(d))

\* The balance of a day, told from when each movement completed, is a whole number.
LEMMA ClosingIsWhole ==
  ASSUME SavingsTypeOK, NEW d
  PROVE  /\ Closing(d) \in Int
         /\ Total(Amount, DepositsBefore(d)) \in Nat /\ Total(Amount, PaidBefore(d)) \in Nat
         /\ Total(Amount, ReversedBefore(d)) \in Nat /\ Total(Earned, CreditedBefore(d)) \in Nat
         /\ Closing(d) = Opening + Total(Amount, DepositsBefore(d)) - Total(Amount, PaidBefore(d))
              + Total(Amount, ReversedBefore(d)) + Total(Earned, CreditedBefore(d))
  <1>1. /\ DepositsBefore(d) \in SUBSET Deposits /\ PaidBefore(d) \in SUBSET Withdrawals
        /\ ReversedBefore(d) \in SUBSET Withdrawals /\ CreditedBefore(d) \in SUBSET Days
    BY DEF DepositsBefore, Completed, PaidBefore, PaidOut, ReversedBefore, Rows, CreditedBefore
  <1>2. /\ Total(Amount, DepositsBefore(d)) \in Nat /\ Total(Amount, PaidBefore(d)) \in Nat
        /\ Total(Amount, ReversedBefore(d)) \in Nat /\ Total(Earned, CreditedBefore(d)) \in Nat
    BY <1>1, AmountsSum, EarnedSum
  <1>3. Closing(d) = Opening + Total(Amount, DepositsBefore(d)) - Total(Amount, PaidBefore(d))
              + Total(Amount, ReversedBefore(d)) + Total(Earned, CreditedBefore(d))
    BY DEF Closing, DepositsBefore, PaidBefore, PaidOut, ReversedBefore, CreditedBefore
  <1> QED
    BY <1>2, <1>3, MovementAssumption

\* It stays what it was while the movements before the day do.
LEMMA ClosingStays ==
  ASSUME SavingsTypeOK, NEW d,
         DepositsBefore(d)' = DepositsBefore(d), PaidBefore(d)' = PaidBefore(d),
         ReversedBefore(d)' = ReversedBefore(d), CreditedBefore(d)' = CreditedBefore(d),
         \A e \in CreditedBefore(d) : interest'[e].sum = interest[e].sum
  PROVE  Closing(d)' = Closing(d)
  <1>1. PICK f : f = Earned'
    OBVIOUS
  <1>2. CreditedBefore(d) \in SUBSET Days
    BY DEF CreditedBefore
  <1>3. SameOn(Earned, f, CreditedBefore(d))
    BY <1>1, <1>2 DEF SameOn, Earned
  <1>4. Total(f, CreditedBefore(d)) = Total(Earned, CreditedBefore(d))
    BY <1>2, <1>3, EarnedSum, TotalSame
  <1>5. Total(Earned, CreditedBefore(d))' = Total(Earned, CreditedBefore(d))
    BY <1>1, <1>4
  <1>6. Closing(d) = Opening + Total(Amount, DepositsBefore(d)) - Total(Amount, PaidBefore(d))
              + Total(Amount, ReversedBefore(d)) + Total(Earned, CreditedBefore(d))
    BY DEF Closing, DepositsBefore, PaidBefore, PaidOut, ReversedBefore, CreditedBefore
  <1>7. Closing(d)' = Opening + Total(Amount, DepositsBefore(d)') - Total(Amount, PaidBefore(d)')
              + Total(Amount, ReversedBefore(d)') + Total(Earned, CreditedBefore(d))'
    BY DEF Closing, DepositsBefore, PaidBefore, PaidOut, ReversedBefore, CreditedBefore
  <1> QED
    BY <1>5, <1>6, <1>7

\* A sum over part of the movements and over the rest of them.
LEMMA AmountsSplit ==
  ASSUME NEW R, NEW S, NEW U, U = R \union S, R \intersect S = {},
         U \in SUBSET Deposits \/ U \in SUBSET Withdrawals
  PROVE  Total(Amount, U) = Total(Amount, R) + Total(Amount, S)
  <1>1. /\ R \in SUBSET Deposits \/ R \in SUBSET Withdrawals
        /\ S \in SUBSET Deposits \/ S \in SUBSET Withdrawals
    OBVIOUS
  <1>2. IsFiniteSet(R) /\ Whole(Amount, R) /\ IsFiniteSet(S) /\ Whole(Amount, S)
    BY <1>1, AmountsSum
  <1>3. Total(Amount, R \union S) = Total(Amount, R) + Total(Amount, S)
    BY <1>2, TotalUnion
  <1> QED
    BY <1>3

\* The balance less what moved since is the balance of the day, for a day that is not
\* credited and after which nothing was reversed.
LEMMA BalanceIsClosing ==
  ASSUME BooksInv, RowsDated, NEW d \in Days, ~Credited(d), Reliable(d)
  PROVE  BalanceAt(d) = Closing(d)
  <1>1. SavingsTypeOK /\ FundsAddUp /\ d \in Nat
    BY SavingsBounds DEF BooksInv, Days
  <1>2. /\ \A k \in Deposits : dep[k].at \in Nat
        /\ \A k \in Withdrawals : wdr[k].at \in Nat /\ wdr[k].done \in Nat
    BY <1>1, SavingsBounds DEF SavingsTypeOK, Stamps
  <1>3. Total(Amount, Completed) = Total(Amount, DepositsBefore(d)) + Total(Amount, DepositsAfter(d))
    <2>1. /\ Completed = DepositsBefore(d) \union DepositsAfter(d)
          /\ DepositsBefore(d) \intersect DepositsAfter(d) = {} /\ Completed \in SUBSET Deposits
      BY <1>1, <1>2 DEF Completed, DepositsBefore, DepositsAfter
    <2> QED
      BY <2>1, AmountsSplit
  <1>4. \A k \in Rows("REVERSED") : wdr[k].at < d /\ wdr[k].done < d
    BY <1>1, <1>2 DEF Reliable, RowsDated, Rows
  <1>5. \A k \in Rows("COMPLETED") : wdr[k].done < d <=> k \notin WithdrawalsAfter(d)
    BY <1>1, <1>2 DEF RowsDated, Rows, WithdrawalsAfter
  <1>6. PICK C : C = {k \in Rows("COMPLETED") : wdr[k].done < d}
    OBVIOUS
  <1>7. Total(Amount, Rows("COMPLETED")) = Total(Amount, C) + Total(Amount, WithdrawalsAfter(d))
    <2>1. /\ Rows("COMPLETED") = C \union WithdrawalsAfter(d)
          /\ C \intersect WithdrawalsAfter(d) = {} /\ Rows("COMPLETED") \in SUBSET Withdrawals
      BY <1>5, <1>6 DEF Rows, WithdrawalsAfter
    <2> QED
      BY <2>1, AmountsSplit
  <1>8. Total(Amount, PaidBefore(d)) = Total(Amount, C) + Total(Amount, ReversedBefore(d))
    <2>1. /\ PaidBefore(d) = C \union ReversedBefore(d) /\ C \intersect ReversedBefore(d) = {}
          /\ PaidBefore(d) \in SUBSET Withdrawals
      BY <1>4, <1>6 DEF PaidBefore, PaidOut, ReversedBefore, Rows
    <2> QED
      BY <2>1, AmountsSplit
  <1>9. Total(Earned, CreditedDays) = Total(Earned, CreditedBefore(d)) + Total(Earned, CreditedAfter(d))
    <2>1. /\ CreditedDays = CreditedBefore(d) \union CreditedAfter(d)
          /\ CreditedBefore(d) \intersect CreditedAfter(d) = {}
          /\ CreditedBefore(d) \in SUBSET Days /\ CreditedAfter(d) \in SUBSET Days
      BY <1>1, SavingsBounds DEF CreditedDays, CreditedBefore, CreditedAfter, Days
    <2>2. /\ IsFiniteSet(CreditedBefore(d)) /\ Whole(Earned, CreditedBefore(d))
          /\ IsFiniteSet(CreditedAfter(d)) /\ Whole(Earned, CreditedAfter(d))
      BY <1>1, <2>1, EarnedSum
    <2> QED
      BY <2>1, <2>2, TotalUnion
  <1>10. BalanceAt(d) = bal - Total(Amount, DepositsAfter(d)) + Total(Amount, WithdrawalsAfter(d))
           - Total(Earned, CreditedAfter(d))
    BY DEF BalanceAt, CreditedAfter
  <1>11. /\ Total(Amount, DepositsAfter(d)) \in Nat /\ Total(Amount, WithdrawalsAfter(d)) \in Nat
         /\ Total(Amount, C) \in Nat /\ Total(Earned, CreditedAfter(d)) \in Nat
    <2>1. /\ DepositsAfter(d) \in SUBSET Deposits /\ WithdrawalsAfter(d) \in SUBSET Withdrawals
          /\ C \in SUBSET Withdrawals /\ CreditedAfter(d) \in SUBSET Days
      BY <1>6 DEF DepositsAfter, WithdrawalsAfter, Rows, CreditedAfter
    <2> QED
      BY <1>1, <2>1, AmountsSum, EarnedSum
  <1>12. /\ Total(Amount, DepositsBefore(d)) \in Nat /\ Total(Amount, PaidBefore(d)) \in Nat
         /\ Total(Amount, ReversedBefore(d)) \in Nat /\ Total(Earned, CreditedBefore(d)) \in Nat
         /\ Closing(d) = Opening + Total(Amount, DepositsBefore(d)) - Total(Amount, PaidBefore(d))
              + Total(Amount, ReversedBefore(d)) + Total(Earned, CreditedBefore(d))
    BY <1>1, ClosingIsWhole
  <1>13. bal = Opening + Total(Amount, Completed) - Total(Amount, Rows("COMPLETED"))
           + Total(Earned, CreditedDays) /\ Opening \in Nat
    BY <1>1, MovementAssumption DEF FundsAddUp
  <1> QED
    BY <1>3, <1>7, <1>8, <1>9, <1>10, <1>11, <1>12, <1>13

-----------------------------------------------------------------------------
(* What a day earned stays what it earned *)

\* What a step does to the rows: a deposit completes now, a withdrawal completes or is
\* reversed now, interest is claimed as it is due and settled as it was claimed.
DepositsStep ==
  \A k \in Deposits :
    \/ dep'[k] = dep[k]
    \/ /\ dep[k].st # "COMPLETED"
       /\ dep'[k].st = "COMPLETED" => dep'[k].at = today
WithdrawalsStep ==
  \A k \in Withdrawals :
    \/ wdr'[k] = wdr[k]
    \/ /\ wdr[k].st \notin {"COMPLETED", "REVERSED"} /\ wdr'[k].st # "REVERSED"
       /\ wdr'[k].st = "COMPLETED" => wdr'[k].at = today /\ wdr'[k].done = today
    \/ /\ wdr[k].st = "COMPLETED" /\ wdr'[k].st = "REVERSED"
       /\ wdr'[k].done = wdr[k].done /\ wdr'[k].at = today
InterestStep ==
  \A e \in Days :
    \/ interest'[e] = interest[e]
    \/ /\ interest[e].st = "NONE" /\ interest'[e].st = "CLAIMED"
       /\ e <= today /\ PassedTo(e - 1) /\ Due(e, interest'[e].sum)
    \/ /\ interest[e].st = "CLAIMED" /\ interest'[e].st = "SETTLED"
       /\ interest'[e].sum = interest[e].sum
RowsStep == DepositsStep /\ WithdrawalsStep /\ InterestStep

\* A row of interest is of a day that ended, after days that earn no more, and is what
\* the day earned.
DaysSound ==
  \A d \in Days : interest[d].st # "NONE" =>
    d <= today /\ PassedTo(d - 1) /\ Due(d, interest[d].sum)

\* Time in whole days.
LEMMA DatesAreWhole ==
  ASSUME SavingsTypeOK
  PROVE  /\ today \in Nat /\ through \in Nat /\ \A d \in Days : d \in Nat /\ d > 0
         /\ \A k \in Deposits : dep[k].at \in Nat
         /\ \A k \in Withdrawals : wdr[k].at \in Nat /\ wdr[k].done \in Nat
         /\ \A d \in Days : interest[d].sum \in Nat
         /\ \A s \in saves : s[2] \in Nat /\ s[1] # "ACTIVE"
  <1>1. \A n \in Stamps : n \in Nat
    BY SavingsBounds DEF Stamps
  <1>2. \A d \in Days : d \in Nat /\ d > 0
    BY SavingsBounds DEF Days
  <1>3. today \in Nat /\ through \in Nat
    BY <1>1 DEF SavingsTypeOK
  <1>4. \A k \in Deposits : dep[k].at \in Nat
    BY <1>1 DEF SavingsTypeOK
  <1>5. \A k \in Withdrawals : wdr[k].at \in Nat /\ wdr[k].done \in Nat
    BY <1>1 DEF SavingsTypeOK
  <1>6. \A d \in Days : interest[d].sum \in Nat
    BY DEF SavingsTypeOK
  <1>7. \A s \in saves : s[2] \in Nat /\ s[1] # "ACTIVE"
    BY <1>1 DEF SavingsTypeOK
  <1> QED
    BY <1>2, <1>3, <1>4, <1>5, <1>6, <1>7

\* The balance of a day that ended, after days that earn no more, stays.
LEMMA ClosedDay ==
  ASSUME SavingsTypeOK, SavingsTypeOK', DaysSound, RowsStep,
         NEW d \in Days, d <= today, PassedTo(d - 1)
  PROVE  Closing(d)' = Closing(d)
  <1>1. /\ today \in Nat /\ d \in Nat /\ \A e \in Days : e \in Nat
        /\ \A k \in Deposits : dep[k].at \in Nat
        /\ \A k \in Withdrawals : wdr[k].at \in Nat /\ wdr[k].done \in Nat
    BY DatesAreWhole
  <1>2. DepositsBefore(d)' = DepositsBefore(d)
    BY <1>1 DEF RowsStep, DepositsStep, DepositsBefore, Completed
  <1>3. PaidBefore(d)' = PaidBefore(d)
    BY <1>1 DEF RowsStep, WithdrawalsStep, PaidBefore, PaidOut, Rows
  <1>4. ReversedBefore(d)' = ReversedBefore(d)
    BY <1>1 DEF RowsStep, WithdrawalsStep, ReversedBefore, Rows
  <1>5. ASSUME NEW e \in Days, e < d
        PROVE  /\ Credited(e)' <=> Credited(e)
               /\ Credited(e) => interest'[e].sum = interest[e].sum
    <2>1. CASE interest'[e] = interest[e]
      BY <2>1 DEF Credited
    <2>2. CASE interest[e].st = "NONE" /\ interest'[e].st = "CLAIMED"
      BY <2>2 DEF Credited
    <2>3. CASE interest[e].st = "CLAIMED"
      <3>1. Due(e, interest[e].sum) /\ ~Credited(e)
        BY <2>3 DEF DaysSound, Credited
      <3>2. e <= d - 1
        <4>1. e \in Nat /\ d \in Nat
          BY DatesAreWhole
        <4> QED
          BY <1>5, <4>1
      <3>3. Passed(e)
        BY <3>2 DEF PassedTo
      <3>4. Closing(e) \in Int
        BY ClosingIsWhole
      <3>5. computeAccrual(Closing(e)) \in Int
        BY <3>4, AccrualIsWhole
      <3> QED
        BY <3>1, <3>3, <3>4, <3>5 DEF Passed, Due
    <2> QED
      BY <2>1, <2>2, <2>3 DEF RowsStep, InterestStep
  <1>6. CreditedBefore(d)' = CreditedBefore(d)
        /\ \A e \in CreditedBefore(d) : interest'[e].sum = interest[e].sum
    BY <1>5 DEF CreditedBefore
  <1> QED
    BY <1>2, <1>3, <1>4, <1>6, ClosingStays

\* Days that earn no more never do.
LEMMA PassedStays ==
  ASSUME SavingsTypeOK, SavingsTypeOK', DaysSound, RowsStep,
         NEW n \in Int, n <= today, PassedTo(n)
  PROVE  PassedTo(n)'
  <1>1. today \in Nat /\ \A e \in Days : e \in Nat
    BY DatesAreWhole
  <1> SUFFICES ASSUME NEW e \in Days, e <= n PROVE Passed(e)'
    BY DEF PassedTo
  <1>2. PassedTo(e - 1) /\ e <= today /\ Passed(e)
    BY <1>1 DEF PassedTo
  <1>3. PICK b : b = Closing(e)
    OBVIOUS
  <1>4. Closing(e)' = b
    BY <1>2, <1>3, ClosedDay
  <1>5. Credited(e) => Credited(e)'
    BY DEF Credited, RowsStep, InterestStep
  <1>6. Credited(e) \/ b <= 0 \/ computeAccrual(b) <= 0
    BY <1>2, <1>3 DEF Passed
  <1> QED
    BY <1>4, <1>5, <1>6 DEF Passed, computeAccrual

\* What is due for a day stays due.
LEMMA DueStays ==
  ASSUME SavingsTypeOK, SavingsTypeOK', DaysSound, RowsStep,
         NEW d \in Days, d <= today, PassedTo(d - 1), NEW n, Due(d, n)
  PROVE  Due(d, n)'
  <1>1. PICK b : b = Closing(d)
    OBVIOUS
  <1>2. Closing(d)' = b
    BY <1>1, ClosedDay
  <1>3. b > 0 /\ n > 0 /\ n = computeAccrual(b)
    BY <1>1 DEF Due
  <1> QED
    BY <1>2, <1>3 DEF Due, computeAccrual

\* The rows stay dated and the interest what was due.
LEMMA RowsStay ==
  ASSUME SavingsTypeOK, SavingsTypeOK', DaysSound, RowsStep, RowsDated, today' >= today
  PROVE  RowsDated' /\ DaysSound'
  <1>1. /\ today \in Nat /\ today' \in Nat /\ \A e \in Days : e \in Nat /\ e - 1 \in Int
        /\ \A k \in Withdrawals : wdr[k].at \in Nat /\ wdr[k].done \in Nat
    BY DatesAreWhole, SavingsBounds DEF SavingsTypeOK, Stamps
  <1>2. RowsDated'
    BY <1>1 DEF RowsStep, WithdrawalsStep, RowsDated
  <1>3. ASSUME NEW d \in Days, interest'[d].st # "NONE"
        PROVE  (d <= today)' /\ PassedTo(d - 1)' /\ Due(d, interest[d].sum)'
    <2>1. PICK n : n = interest'[d].sum
      OBVIOUS
    <2>2. d <= today /\ PassedTo(d - 1) /\ Due(d, n)
      BY <1>3, <2>1 DEF DaysSound, RowsStep, InterestStep
    <2>3. PassedTo(d - 1)'
      <3>1. PICK m : m = d - 1
        OBVIOUS
      <3>2. m \in Int /\ m <= today /\ PassedTo(m)
        BY <1>1, <2>2, <3>1
      <3>3. PassedTo(m)'
        BY <3>2, PassedStays
      <3> QED
        BY <3>1, <3>3
    <2>4. Due(d, n)'
      BY <2>2, DueStays
    <2>5. Due(d, interest[d].sum)'
      BY <2>1, <2>4 DEF Due
    <2> QED
      BY <1>1, <2>2, <2>3, <2>5
  <1>4. DaysSound'
    BY <1>3 DEF DaysSound
  <1> QED
    BY <1>2, <1>4

\* What an accrual relies on: the days before its own earn no more, and the interest it
\* claims is what its day earned, or is claimed. A run that reads the account as not
\* active passes days that may have earned.
AttemptEarns(x) ==
  /\ acct = "ACTIVE" /\ x.pc \in {"basis", "mark"} => PassedTo(x.day - 1)
  /\ x.pc \in {"accClaim", "accPost", "accSettle"} => PassedTo(x.day - 1)
  /\ x.pc = "accClaim" => Due(x.day, x.sum)
  /\ x.pc \in {"accPost", "accSettle"} => interest[x.day].st # "NONE"

\* The cursor of an active account, and of the events that will overwrite it.
CursorSound ==
  /\ through <= today /\ \A s \in saves : s[2] <= today
  /\ acct = "ACTIVE" => PassedTo(through)

EarnsInv ==
  /\ RowsDated /\ DaysSound /\ CursorSound
  /\ \A c \in Attempts : AttemptEarns(call[c])

\* Time goes on, and an account that is not active stays so.
Onward == today' >= today /\ (acct' = "ACTIVE" => acct = "ACTIVE")
\* An attempt that goes on relies on what is so.
Earns == call' = call \/ \E c \in Attempts : \E x : Becomes(c, x) /\ AttemptEarns(x)'

\* What an accrual relies on stays so.
LEMMA EarnsStays ==
  ASSUME SavingsTypeOK, SavingsTypeOK', DaysSound, RowsStep, Onward,
         NEW x \in AttemptShape, AttemptSound(x), AttemptEarns(x)
  PROVE  AttemptEarns(x)'
  <1>1. today \in Nat /\ x.day \in Nat /\ x.end \in Nat /\ x.day - 1 \in Int
    BY DatesAreWhole, SavingsBounds DEF AttemptShape, Stamps
  <1>2. CASE x.pc \in {"basis", "mark", "accClaim", "accPost", "accSettle"}
    <2>1. x.day - 1 <= today /\ x.day >= 1
      BY <1>1, <1>2 DEF AttemptSound, Accruing
    <2>2. PICK m : m = x.day - 1
      OBVIOUS
    <2>3. PassedTo(m) => PassedTo(m)'
      BY <1>1, <2>1, <2>2, PassedStays
    <2>4. PassedTo(x.day - 1) => PassedTo(x.day - 1)'
      BY <2>2, <2>3
    <2>5. CASE x.pc \in {"basis", "mark"}
      BY <2>4, <2>5 DEF AttemptEarns, Onward
    <2>6. CASE x.pc \in {"accClaim", "accPost", "accSettle"}
      <3>1. x.day <= today /\ x.day \in Days /\ PassedTo(x.day - 1)
        BY <1>1, <2>1, <2>6, SavingsBounds DEF AttemptSound, Accruing, AttemptEarns, Days,
           AttemptShape, Stamps
      <3>2. interest[x.day].st # "NONE" => interest'[x.day].st # "NONE"
        BY <3>1 DEF RowsStep, InterestStep
      <3>3. ASSUME x.pc = "accClaim" PROVE Due(x.day, x.sum)'
        <4>1. PICK d \in Days : d = x.day
          BY <3>1
        <4>2. PICK n : n = x.sum
          OBVIOUS
        <4>3. Due(d, n)'
          BY <3>1, <3>3, <4>1, <4>2, DueStays DEF AttemptEarns
        <4> QED
          BY <4>1, <4>2, <4>3
      <3> QED
        BY <2>4, <2>6, <3>1, <3>2, <3>3 DEF AttemptEarns
    <2> QED
      BY <1>2, <2>5, <2>6
  <1>3. CASE x.pc \notin {"basis", "mark", "accClaim", "accPost", "accSettle"}
    BY <1>3 DEF AttemptEarns
  <1> QED
    BY <1>2, <1>3

\* An attempt that is not accruing relies on nothing here.
LEMMA NoEarning ==
  ASSUME NEW x, x.pc \notin {"basis", "mark", "accClaim", "accPost", "accSettle"}
  PROVE  AttemptEarns(x)'
  BY DEF AttemptEarns

\* All of it together.
LEMMA EarnsTogether ==
  ASSUME BooksInv, BooksInv', EarnsInv, RowsStep, Onward, Earns, CursorSound'
  PROVE  EarnsInv'
  <1>1. SavingsTypeOK /\ SavingsTypeOK' /\ DaysSound /\ RowsDated /\ AttemptsSound
    BY DEF BooksInv, EarnsInv
  <1>2. RowsDated' /\ DaysSound'
    BY <1>1, RowsStay DEF Onward
  <1>3. ASSUME NEW d \in Attempts, call'[d] = call[d] PROVE AttemptEarns(call[d])'
    <2>1. PICK y : y = call[d]
      OBVIOUS
    <2>2. y \in AttemptShape /\ AttemptSound(y) /\ AttemptEarns(y)
      BY <2>1 DEF BooksInv, AttemptsSound, AttemptSound, EarnsInv, AttemptEarns
    <2>3. AttemptEarns(y)' /\ call'[d] = y
      BY <1>1, <1>3, <2>1, <2>2, EarnsStays
    <2> QED
      BY <2>3 DEF AttemptEarns
  <1>4. CASE call' = call
    BY <1>2, <1>3, <1>4 DEF EarnsInv
  <1>5. CASE \E c \in Attempts : \E x : Becomes(c, x) /\ AttemptEarns(x)'
    <2>1. PICK c \in Attempts : \E x : Becomes(c, x) /\ AttemptEarns(x)'
      BY <1>5
    <2>2. PICK x : Becomes(c, x) /\ AttemptEarns(x)'
      BY <2>1
    <2>3. call'[c] = x /\ \A d \in Attempts \ {c} : call'[d] = call[d]
      BY <1>1, <2>2 DEF Becomes, AttemptsSound
    <2>4. AttemptEarns(call[c])'
      BY <2>2, <2>3 DEF AttemptEarns
    <2>5. \A d \in Attempts : AttemptEarns(call[d])'
      BY <1>3, <2>3, <2>4
    <2> QED
      BY <1>2, <2>5 DEF EarnsInv
  <1> QED
    BY <1>4, <1>5 DEF Earns

\* The cursor stays sound while the account rests.
LEMMA CursorStays ==
  ASSUME BooksInv, BooksInv', EarnsInv, RowsStep, UNCHANGED account, today' >= today
  PROVE  CursorSound' /\ Onward
  <1>1. SavingsTypeOK /\ SavingsTypeOK' /\ DaysSound /\ CursorSound
    BY DEF BooksInv, EarnsInv
  <1>2. acct' = acct /\ saves' = saves /\ through' = through
    BY DEF account
  <1>3. today \in Nat /\ today' \in Nat /\ through \in Nat /\ \A s \in saves : s[2] \in Nat
    BY <1>1, DatesAreWhole, SavingsBounds DEF SavingsTypeOK, Stamps
  <1>4. acct = "ACTIVE" => PassedTo(through)'
    <2>1. PICK m : m = through
      OBVIOUS
    <2>2. acct = "ACTIVE" => PassedTo(m) /\ m \in Int /\ m <= today
      BY <1>1, <1>3, <2>1 DEF CursorSound
    <2>3. acct = "ACTIVE" => PassedTo(m)'
      BY <1>1, <2>2, PassedStays
    <2> QED
      BY <1>2, <2>1, <2>3 DEF PassedTo
  <1> QED
    BY <1>1, <1>2, <1>3, <1>4 DEF CursorSound, Onward

-----------------------------------------------------------------------------
(* Every step keeps the interest what is due *)

\* Rows that rest take no step.
LEMMA RestingRows ==
  ASSUME UNCHANGED rows
  PROVE  RowsStep
  BY DEF rows, RowsStep, DepositsStep, WithdrawalsStep, InterestStep

\* Steps that leave the account alone.
LEMMA EarnsAside ==
  ASSUME BooksInv, BooksInv', EarnsInv, RowsStep, Earns, UNCHANGED account, today' >= today
  PROVE  EarnsInv'
  BY CursorStays, EarnsTogether

\* A step that leaves the days and the movements alone keeps the interest.
LEMMA SameDay ==
  ASSUME SavingsTypeOK, today' = today
  PROVE  today' >= today
  BY DatesAreWhole

\* The rail, the account and the clock.
LEMMA OutsideEarns ==
  ASSUME BooksInv, BooksInv', EarnsInv,
         \/ \E k \in Withdrawals : RailDecides(k)
         \/ Freeze \/ Close \/ (\E s \in saves : ApplySave(s)) \/ EndOfDay
  PROVE  EarnsInv'
  <1>1. SavingsTypeOK /\ CursorSound
    BY DEF BooksInv, EarnsInv
  <1>2. RowsStep /\ Earns
    <2>1. UNCHANGED rows /\ call' = call
      BY DEF RailDecides, Freeze, Close, ApplySave, EndOfDay
    <2> QED
      BY <2>1, RestingRows DEF Earns
  <1>3. CASE (\E k \in Withdrawals : RailDecides(k)) \/ EndOfDay
    <2>1. UNCHANGED account /\ (today' = today \/ today' = today + 1)
      BY <1>3 DEF RailDecides, EndOfDay, account
    <2>2. today' >= today
      BY <1>1, <2>1, DatesAreWhole
    <2> QED
      BY <1>2, <2>1, <2>2, EarnsAside
  <1>4. CASE Freeze \/ Close
    <2>1. /\ acct' = acct /\ through' = through /\ today' = today
          /\ \A s \in saves' : s \in saves \/ s[2] = through
      BY <1>4 DEF Freeze, Close, Emit
    <2>2. Onward
      BY <1>1, <2>1, SameDay DEF Onward
    <2>3. acct = "ACTIVE" => PassedTo(through)'
      <3>1. PICK m : m = through
        OBVIOUS
      <3>2. acct = "ACTIVE" => PassedTo(m) /\ m \in Int /\ m <= today
        BY <1>1, <3>1, DatesAreWhole DEF CursorSound
      <3>3. acct = "ACTIVE" => PassedTo(m)'
        BY <1>2, <3>2, PassedStays DEF BooksInv, EarnsInv
      <3> QED
        BY <2>1, <3>1, <3>3 DEF PassedTo
    <2>4. CursorSound'
      BY <1>1, <2>1, <2>3 DEF CursorSound
    <2> QED
      BY <1>2, <2>2, <2>4, EarnsTogether
  <1>5. CASE \E s \in saves : ApplySave(s)
    <2>1. PICK s \in saves : ApplySave(s)
      BY <1>5
    <2>2. /\ acct' # "ACTIVE" /\ through' = s[2] /\ today' = today /\ saves' \subseteq saves
      BY <1>1, <2>1, DatesAreWhole DEF ApplySave
    <2>3. Onward
      BY <1>1, <2>2, SameDay DEF Onward
    <2>4. CursorSound'
      BY <1>1, <2>2 DEF CursorSound
    <2> QED
      BY <1>2, <2>3, <2>4, EarnsTogether
  <1> QED
    BY <1>3, <1>4, <1>5

\* The movements: requests of deposits and withdrawals, and an attempt that dies.
LEMMA MovementsEarn ==
  ASSUME BooksInv, BooksInv', EarnsInv, NEW c \in Attempts,
         \/ \E k \in Deposits : Record(c, k)
         \/ \E k \in Withdrawals : Request(c, k) \/ Approve(c, k) \/ Cancel(c, k)
         \/ Die(c) \/ DepositClaim(c) \/ DepositPost(c) \/ DepositSettle(c)
         \/ ClaimWithHold(c) \/ PostWithdrawal(c) \/ SettleWithdrawal(c)
         \/ ReleaseHold(c, "cancel") \/ ReleaseHold(c, "release")
  PROVE  EarnsInv'
  <1>1. SavingsTypeOK /\ AttemptsSound /\ call[c] \in AttemptShape /\ AttemptSound(call[c])
    BY DEF BooksInv, AttemptsSound
  <1>2. UNCHANGED <<account, interest, today>>
    BY DEF Record, Request, Approve, Cancel, Die, DepositClaim, DepositPost, DepositSettle,
       ClaimWithHold, PostWithdrawal, SettleWithdrawal, ReleaseHold, rows
  <1>3. today' >= today
    BY <1>1, <1>2, SameDay
  <1>4. Earns
    <2>1. \E x : /\ Becomes(c, x)
                 /\ x.pc \notin {"basis", "mark", "accClaim", "accPost", "accSettle"}
      <3>1. CASE Return(c)
        BY <1>1, <3>1, Returns
      <3>2. CASE \E p \in {"depPost", "depSettle", "settle", "release"} : To(c, p)
        <4>1. PICK p \in {"depPost", "depSettle", "settle", "release"} : To(c, p)
          BY <3>2
        <4>2. p \in SavingsPcs
          BY DEF SavingsPcs
        <4>3. PICK x : Becomes(c, x) /\ x.pc = p
          BY <1>1, <4>1, <4>2, GoesTo
        <4> QED
          BY <4>3
      <3>3. CASE \E k \in Deposits \union Withdrawals :
                   \E p \in {"depClaim", "hold", "pay", "cancel"} : Begin(c, p, k)
        <4>1. PICK k \in Deposits \union Withdrawals :
                     \E p \in {"depClaim", "hold", "pay", "cancel"} : Begin(c, p, k)
          BY <3>3
        <4>2. PICK p \in {"depClaim", "hold", "pay", "cancel"} : Begin(c, p, k)
          BY <4>1
        <4>3. p \in SavingsPcs
          BY DEF SavingsPcs
        <4>4. PICK x : Becomes(c, x) /\ x.pc = p
          BY <4>2, <4>3, Begins
        <4> QED
          BY <4>4
      <3> QED
        BY <3>1, <3>2, <3>3 DEF Record, Request, Approve, Cancel, Die, DepositClaim, DepositPost,
           DepositSettle, ClaimWithHold, PostWithdrawal, SettleWithdrawal, ReleaseHold
    <2>2. PICK x : Becomes(c, x) /\ x.pc \notin {"basis", "mark", "accClaim", "accPost", "accSettle"}
      BY <2>1
    <2> QED
      BY <2>2, NoEarning DEF Earns
  <1>5. InterestStep
    BY <1>2 DEF InterestStep
  <1>6. DepositsStep
    <2>1. CASE UNCHANGED dep
      BY <2>1 DEF DepositsStep
    <2>2. CASE DepositClaim(c)
      <3>1. PICK k : k = call[c].key
        OBVIOUS
      <3>2. k \in Deposits /\ dep \in [Deposits -> [st : {"NONE", "PENDING", "COMPLETED"}, at : Stamps]]
        BY <1>1, <2>2, <3>1 DEF DepositClaim, At, AttemptSound, DepositPcs, SavingsTypeOK
      <3>3. dep' = [dep EXCEPT ![k].st = IF dep[k].st = "NONE" THEN "PENDING" ELSE dep[k].st]
        BY <2>2, <3>1, <3>2 DEF DepositClaim
      <3> QED
        BY <3>2, <3>3 DEF DepositsStep
    <2>3. CASE DepositSettle(c)
      <3>1. PICK k : k = call[c].key
        OBVIOUS
      <3>2. k \in Deposits /\ dep \in [Deposits -> [st : {"NONE", "PENDING", "COMPLETED"}, at : Stamps]]
        BY <1>1, <2>3, <3>1 DEF DepositSettle, At, AttemptSound, DepositPcs, SavingsTypeOK
      <3>3. \/ UNCHANGED dep
            \/ /\ dep[k].st = "PENDING"
               /\ dep' = [dep EXCEPT ![k] = [st |-> "COMPLETED", at |-> today]]
        BY <2>3, <3>1 DEF DepositSettle
      <3> QED
        BY <3>2, <3>3 DEF DepositsStep
    <2> QED
      BY <2>1, <2>2, <2>3 DEF Record, Request, Approve, Cancel, Die, DepositPost, ClaimWithHold,
         PostWithdrawal, SettleWithdrawal, ReleaseHold, rows
  <1>7. WithdrawalsStep
    <2>1. CASE UNCHANGED wdr
      BY <2>1 DEF WithdrawalsStep
    <2>2. CASE \/ ClaimWithHold(c) \/ SettleWithdrawal(c)
               \/ ReleaseHold(c, "cancel") \/ ReleaseHold(c, "release")
      <3>1. PICK k : k = call[c].key
        OBVIOUS
      <3>2. k \in Withdrawals
            /\ wdr \in [Withdrawals ->
                 [st : {"NONE", "PENDING", "COMPLETED", "REJECTED", "REVERSED"},
                  at : Stamps, done : Stamps]]
        BY <1>1, <2>2, <3>1 DEF ClaimWithHold, SettleWithdrawal, ReleaseHold, At, AttemptSound,
           WithdrawalPcs, SavingsTypeOK
      <3>3. \/ UNCHANGED wdr
            \/ wdr[k].st = "NONE" /\ wdr' = [wdr EXCEPT ![k].st = "PENDING"]
            \/ /\ wdr[k].st = "PENDING"
               /\ \/ wdr' = [wdr EXCEPT ![k] = [st |-> "COMPLETED", at |-> today, done |-> today]]
                  \/ wdr' = [wdr EXCEPT ![k].st = "REJECTED", ![k].at = today]
        BY <2>2, <3>1 DEF ClaimWithHold, SettleWithdrawal, ReleaseHold
      <3>4. CASE wdr[k].st = "NONE" /\ wdr' = [wdr EXCEPT ![k].st = "PENDING"]
        BY <3>2, <3>4 DEF WithdrawalsStep
      <3>5. CASE /\ wdr[k].st = "PENDING"
                 /\ wdr' = [wdr EXCEPT ![k] = [st |-> "COMPLETED", at |-> today, done |-> today]]
        BY <3>2, <3>5 DEF WithdrawalsStep
      <3>6. CASE /\ wdr[k].st = "PENDING"
                 /\ wdr' = [wdr EXCEPT ![k].st = "REJECTED", ![k].at = today]
        <4>1. PICK r : r = [wdr[k] EXCEPT !.st = "REJECTED", !.at = today]
          OBVIOUS
        <4>2. wdr' = [wdr EXCEPT ![k] = r] /\ wdr[k].st = "PENDING"
          BY <3>6, <4>1
        <4>3. r.st = "REJECTED"
          BY <3>2, <4>1
        <4> QED
          BY <3>2, <4>2, <4>3 DEF WithdrawalsStep
      <3> QED
        BY <2>1, <3>3, <3>4, <3>5, <3>6
    <2> QED
      BY <2>1, <2>2 DEF Record, Request, Approve, Cancel, Die, DepositClaim, DepositPost,
         DepositSettle, PostWithdrawal, rows
  <1> QED
    BY <1>2, <1>3, <1>4, <1>5, <1>6, <1>7, EarnsAside DEF RowsStep

\* A late failure.
LEMMA PayoutFailedEarns ==
  ASSUME BooksInv, BooksInv', EarnsInv, NEW k \in Withdrawals, PayoutFailed(k)
  PROVE  EarnsInv'
  <1>1. SavingsTypeOK
    BY DEF BooksInv
  <1>2. UNCHANGED <<account, dep, interest, today>> /\ call' = call
    BY DEF PayoutFailed
  <1>3. today' >= today /\ Earns
    BY <1>1, <1>2, SameDay DEF Earns
  <1>4. wdr \in [Withdrawals ->
                 [st : {"NONE", "PENDING", "COMPLETED", "REJECTED", "REVERSED"},
                  at : Stamps, done : Stamps]]
    BY <1>1 DEF SavingsTypeOK
  <1>5. WithdrawalsStep
    <2>1. CASE UNCHANGED wdr
      BY <2>1 DEF WithdrawalsStep
    <2>2. CASE ~UNCHANGED wdr
      <3>1. wdr[k].st = "COMPLETED" /\ wdr' = [wdr EXCEPT ![k].st = "REVERSED", ![k].at = today]
        BY <2>2 DEF PayoutFailed
      <3>2. PICK r : r = [wdr[k] EXCEPT !.st = "REVERSED", !.at = today]
        OBVIOUS
      <3>3. wdr' = [wdr EXCEPT ![k] = r]
        BY <3>1, <3>2
      <3>4. r.st = "REVERSED" /\ r.at = today /\ r.done = wdr[k].done
        BY <1>4, <3>2
      <3> QED
        BY <1>4, <3>1, <3>3, <3>4 DEF WithdrawalsStep
    <2> QED
      BY <2>1, <2>2
  <1>6. RowsStep
    BY <1>2, <1>5 DEF RowsStep, DepositsStep, InterestStep
  <1> QED
    BY <1>2, <1>3, <1>6, EarnsAside

\* The day of a run that accrues.
LEMMA AccruedDay ==
  ASSUME BooksInv, EarnsInv, NEW c \in Attempts, call[c].pc \in Accruing
  PROVE  /\ call[c] \in AttemptShape /\ AttemptSound(call[c]) /\ AttemptEarns(call[c])
         /\ call[c].day \in Days /\ call[c].day <= today /\ call[c].day \in Nat
         /\ call[c].day - 1 \in Nat /\ call[c].end \in Nat /\ today \in Nat
  <1>1. SavingsTypeOK /\ call[c] \in AttemptShape /\ AttemptSound(call[c]) /\ AttemptEarns(call[c])
    BY DEF BooksInv, AttemptsSound, EarnsInv
  <1>2. /\ call[c].day \in 1..call[c].end /\ call[c].end <= today /\ call[c].end \in Nat
        /\ today \in Nat /\ today <= MaxDay
    BY <1>1, SavingsBounds DEF AttemptSound, AttemptShape, SavingsTypeOK, Stamps
  <1> QED
    BY <1>1, <1>2, SavingsBounds DEF Days

\* One day more earns no more.
LEMMA OneMoreDay ==
  ASSUME NEW d \in Days, PassedTo(d - 1), Passed(d)
  PROVE  PassedTo(d)
  <1>1. \A e \in Days : e \in Nat
    BY SavingsBounds DEF Days
  <1>2. ASSUME NEW e \in Days, e <= d PROVE Passed(e)
    <2>1. CASE e = d
      BY <2>1
    <2>2. CASE e # d
      <3>1. e <= d - 1
        BY <1>1, <1>2, <2>2
      <3> QED
        BY <3>1 DEF PassedTo
    <2> QED
      BY <2>1, <2>2
  <1> QED
    BY <1>2 DEF PassedTo

\* A run that has passed its day goes on, and relies on it.
LEMMA NextDayEarns ==
  ASSUME BooksInv, BooksInv', EarnsInv, RowsStep, Onward, NEW c \in Attempts, NextDay(c),
         call[c].pc \in Accruing, acct' = "ACTIVE" => PassedTo(call[c].day)
  PROVE  Earns
  <1>1. SavingsTypeOK /\ SavingsTypeOK' /\ DaysSound /\ AttemptsSound
    BY DEF BooksInv, EarnsInv
  <1>2. PICK d : d = call[c].day
    OBVIOUS
  <1>3. d \in Nat /\ d \in Int /\ d <= today
    BY <1>2, AccruedDay
  <1>4. PICK x : /\ Becomes(c, x) /\ x.pc \in {"basis", "mark"} /\ x.day = d + 1
    BY <1>1, <1>2, NextDayGoes
  <1>5. acct' = "ACTIVE" => PassedTo(d)'
    BY <1>1, <1>2, <1>3, PassedStays
  <1>6. x.day - 1 = d
    BY <1>3, <1>4
  <1>7. AttemptEarns(x)'
    BY <1>4, <1>5, <1>6 DEF AttemptEarns
  <1> QED
    BY <1>4, <1>7 DEF Earns

\* The start of a run.
LEMMA AccrueInterestEarns ==
  ASSUME BooksInv, BooksInv', EarnsInv, NEW c \in Attempts, AccrueInterest(c)
  PROVE  EarnsInv'
  <1>1. SavingsTypeOK /\ SavingsTypeOK' /\ DaysSound /\ CursorSound
    BY DEF BooksInv, EarnsInv
  <1>2. UNCHANGED <<account, rows, today>>
    BY DEF AccrueInterest, account
  <1>3. RowsStep /\ today' >= today
    BY <1>1, <1>2, RestingRows, SameDay
  <1>4. PICK m : m = through
    OBVIOUS
  <1>5. m \in Nat /\ m \in Int /\ m <= today /\ (acct = "ACTIVE" => PassedTo(m))
    BY <1>1, <1>4, DatesAreWhole DEF CursorSound
  <1>6. acct = "ACTIVE" => PassedTo(m)'
    BY <1>1, <1>3, <1>5, PassedStays
  <1>7. PICK x : x = [Idle EXCEPT !.pc = "basis", !.key = through, !.day = through + 1, !.end = today]
    OBVIOUS
  <1>8. x = [pc |-> "basis", key |-> m, day |-> m + 1, end |-> today, sum |-> 0]
    BY <1>4, <1>7 DEF Idle
  <1>9. x \in AttemptShape
    <2>1. m \in Stamps /\ today \in Stamps
      BY <1>1, <1>4 DEF SavingsTypeOK
    <2> QED
      BY <1>5, <1>8, <2>1 DEF AttemptShape, SavingsPcs
  <1>10. Becomes(c, x)
    BY <1>7, <1>9 DEF AccrueInterest, Becomes
  <1>11. x.pc = "basis" /\ x.day - 1 = m
    BY <1>5, <1>8
  <1>12. AttemptEarns(x)'
    BY <1>2, <1>6, <1>11 DEF AttemptEarns, account
  <1>13. Earns
    BY <1>10, <1>12 DEF Earns
  <1> QED
    BY <1>2, <1>3, <1>13, EarnsAside

\* The basis of a day.
LEMMA AccrualBasisEarns ==
  ASSUME BooksInv, BooksInv', EarnsInv, NEW c \in Attempts, AccrualBasis(c)
  PROVE  EarnsInv'
  <1>1. SavingsTypeOK /\ SavingsTypeOK' /\ DaysSound /\ RowsDated /\ AttemptsSound
    BY DEF BooksInv, EarnsInv
  <1>2. UNCHANGED <<account, rows, today>> /\ acct' = acct /\ call[c].pc = "basis"
    BY DEF AccrualBasis, account, At
  <1>3. RowsStep /\ today' >= today /\ Onward
    BY <1>1, <1>2, RestingRows, SameDay DEF Onward
  <1>4. PICK d : d = call[c].day
    OBVIOUS
  <1>5. /\ call[c] \in AttemptShape /\ AttemptSound(call[c]) /\ AttemptEarns(call[c])
        /\ d \in Days /\ d <= today /\ d \in Nat /\ d - 1 \in Nat
    BY <1>2, <1>4, AccruedDay DEF Accruing
  <1>6. acct = "ACTIVE" => PassedTo(d - 1)
    BY <1>2, <1>4, <1>5 DEF AttemptEarns
  <1>7. PICK b : b = BalanceAt(d)
    OBVIOUS
  <1>8. b \in Int /\ computeAccrual(b) \in Int
    BY <1>1, <1>7, BalanceIsWhole, AccrualIsWhole
  <1>9. ~Credited(d) /\ Reliable(d) => b = Closing(d)
    BY <1>1, <1>5, <1>7, BalanceIsClosing
  <1>10. /\ (Credited(d) \/ acct # "ACTIVE") => NextDay(c)
         /\ ~(Credited(d) \/ acct # "ACTIVE") /\ ~Reliable(d) => To(c, "mark")
         /\ ~(Credited(d) \/ acct # "ACTIVE") /\ Reliable(d) /\ (b <= 0 \/ computeAccrual(b) <= 0)
              => NextDay(c)
         /\ ~(Credited(d) \/ acct # "ACTIVE") /\ Reliable(d) /\ ~(b <= 0 \/ computeAccrual(b) <= 0)
              => call' = [call EXCEPT ![c].pc = "accClaim", ![c].sum = computeAccrual(b)]
    BY <1>4, <1>7 DEF AccrualBasis
  <1>11. Earns
    <2>1. CASE Credited(d) \/ acct # "ACTIVE"
      <3>1. acct' = "ACTIVE" => PassedTo(d)
        BY <1>2, <1>5, <1>6, <2>1, OneMoreDay DEF Passed
      <3> QED
        BY <1>2, <1>3, <1>4, <1>10, <2>1, <3>1, NextDayEarns DEF Accruing
    <2>2. CASE ~(Credited(d) \/ acct # "ACTIVE") /\ ~Reliable(d)
      <3>1. "mark" \in SavingsPcs /\ To(c, "mark")
        BY <1>10, <2>2 DEF SavingsPcs
      <3>2. PICK x : Becomes(c, x) /\ x.pc = "mark" /\ x.day = d
        BY <1>1, <1>4, <3>1, GoesTo
      <3>3. PICK m : m = d - 1
        OBVIOUS
      <3>4. m \in Int /\ m <= today /\ PassedTo(m)
        BY <1>1, <1>5, <1>6, <2>2, <3>3, DatesAreWhole
      <3>5. PassedTo(m)' /\ x.day - 1 = m
        BY <1>1, <1>3, <3>2, <3>3, <3>4, PassedStays
      <3>6. AttemptEarns(x)'
        BY <3>2, <3>5 DEF AttemptEarns
      <3> QED
        BY <3>2, <3>6 DEF Earns
    <2>3. CASE ~(Credited(d) \/ acct # "ACTIVE") /\ Reliable(d) /\ (b <= 0 \/ computeAccrual(b) <= 0)
      <3>1. Passed(d)
        BY <1>9, <2>3 DEF Passed
      <3>2. PassedTo(d)
        BY <1>5, <1>6, <2>3, <3>1, OneMoreDay
      <3> QED
        BY <1>2, <1>3, <1>4, <1>10, <2>3, <3>2, NextDayEarns DEF Accruing
    <2>4. CASE ~(Credited(d) \/ acct # "ACTIVE") /\ Reliable(d) /\ ~(b <= 0 \/ computeAccrual(b) <= 0)
      <3>1. PICK n : n = computeAccrual(b)
        OBVIOUS
      <3>2. call' = [call EXCEPT ![c].pc = "accClaim", ![c].sum = n]
        BY <1>10, <2>4, <3>1
      <3>3. n \in Nat /\ n > 0 /\ b > 0
        BY <1>8, <2>4, <3>1
      <3>4. PICK x : x = [call[c] EXCEPT !.pc = "accClaim", !.sum = n]
        OBVIOUS
      <3>5. x \in AttemptShape /\ x.pc = "accClaim" /\ x.day = d /\ x.sum = n
        BY <1>4, <1>5, <3>3, <3>4 DEF AttemptShape, SavingsPcs
      <3>6. Becomes(c, x)
        BY <3>2, <3>4, <3>5 DEF Becomes
      <3>7. Due(d, n) /\ PassedTo(d - 1)
        BY <1>6, <1>9, <2>4, <3>1, <3>3 DEF Due
      <3>8. Due(d, n)'
        BY <1>1, <1>3, <1>5, <3>7, DueStays
      <3>9. PassedTo(d - 1)'
        <4>1. PICK m : m = d - 1
          OBVIOUS
        <4>2. m \in Int /\ m <= today /\ PassedTo(m)
          BY <1>1, <1>5, <3>7, <4>1, DatesAreWhole
        <4>3. PassedTo(m)'
          BY <1>1, <1>3, <4>2, PassedStays
        <4> QED
          BY <4>1, <4>3
      <3>10. AttemptEarns(x)'
        BY <3>5, <3>8, <3>9 DEF AttemptEarns
      <3> QED
        BY <3>6, <3>10 DEF Earns
    <2> QED
      BY <2>1, <2>2, <2>3, <2>4
  <1> QED
    BY <1>2, <1>3, <1>11, EarnsAside

\* The claim of a day, its ledger leg and its settlement.
LEMMA AccrualEarns ==
  ASSUME BooksInv, BooksInv', EarnsInv, NEW c \in Attempts,
         AccrualClaim(c) \/ AccrualPost(c) \/ AccrualSettle(c)
  PROVE  EarnsInv'
  <1>1. SavingsTypeOK /\ SavingsTypeOK' /\ DaysSound /\ AttemptsSound
    BY DEF BooksInv, EarnsInv
  <1>2. UNCHANGED <<account, today>> /\ acct' = acct /\ today' >= today /\ Onward
    BY <1>1, SameDay DEF AccrualClaim, AccrualPost, AccrualSettle, account, Onward
  <1>3. PICK d : d = call[c].day
    OBVIOUS
  <1>4. call[c].pc \in {"accClaim", "accPost", "accSettle"}
    BY DEF AccrualClaim, AccrualPost, AccrualSettle, At
  <1>5. /\ call[c] \in AttemptShape /\ AttemptEarns(call[c])
        /\ d \in Days /\ d <= today /\ d \in Nat /\ d - 1 \in Nat
    BY <1>3, <1>4, AccruedDay DEF Accruing
  <1>6. PassedTo(d - 1) /\ (call[c].pc = "accClaim" => Due(d, call[c].sum))
        /\ (call[c].pc \in {"accPost", "accSettle"} => interest[d].st # "NONE")
    BY <1>3, <1>4, <1>5 DEF AttemptEarns
  <1>7. interest \in [Days -> [st : {"NONE", "CLAIMED", "SETTLED"}, sum : Nat]]
    BY <1>1 DEF SavingsTypeOK
  <1>8. UNCHANGED <<dep, wdr>>
    BY DEF AccrualClaim, AccrualPost, AccrualSettle, rows
  <1>9. DepositsStep /\ WithdrawalsStep
    BY <1>8 DEF DepositsStep, WithdrawalsStep
  <1>10. InterestStep /\ interest'[d].st # "NONE"
         /\ (AccrualSettle(c) => interest'[d].st = "SETTLED")
    <2>1. CASE AccrualClaim(c)
      <3>1. PICK n : n = call[c].sum
        OBVIOUS
      <3>2. PICK r : r = IF interest[d].st = "NONE" THEN [st |-> "CLAIMED", sum |-> n]
                         ELSE interest[d]
        OBVIOUS
      <3>3. interest' = [interest EXCEPT ![d] = r] /\ call[c].pc = "accClaim"
        BY <1>3, <2>1, <3>1, <3>2 DEF AccrualClaim, At
      <3>4. Due(d, n)
        BY <1>6, <3>1, <3>3
      <3>5. interest'[d] = r /\ \A e \in Days \ {d} : interest'[e] = interest[e]
        BY <1>5, <1>7, <3>3
      <3>6. interest[d].st = "NONE" => r.st = "CLAIMED" /\ r.sum = n
        BY <3>2
      <3>7. interest[d].st # "NONE" => r = interest[d]
        BY <3>2
      <3>8. InterestStep
        BY <1>5, <1>6, <3>4, <3>5, <3>6, <3>7 DEF InterestStep
      <3>9. ~AccrualSettle(c)
        BY <3>3 DEF AccrualSettle, At
      <3> QED
        BY <3>5, <3>6, <3>7, <3>8, <3>9
    <2>2. CASE AccrualPost(c)
      <3>1. interest' = interest /\ call[c].pc = "accPost"
        BY <2>2 DEF AccrualPost, rows, At
      <3> QED
        BY <1>6, <3>1 DEF InterestStep, AccrualSettle, At
    <2>3. CASE AccrualSettle(c)
      <3>1. \/ interest[d].st = "CLAIMED" /\ interest' = [interest EXCEPT ![d].st = "SETTLED"]
            \/ interest[d].st # "CLAIMED" /\ interest' = interest
        BY <1>3, <2>3 DEF AccrualSettle
      <3>2. interest[d].st # "NONE"
        BY <1>6, <2>3 DEF AccrualSettle, At
      <3> QED
        BY <1>5, <1>7, <3>1, <3>2 DEF InterestStep
    <2> QED
      BY <2>1, <2>2, <2>3
  <1>11. RowsStep
    BY <1>9, <1>10 DEF RowsStep
  <1>12. PassedTo(d - 1)'
    <2>1. PICK m : m = d - 1
      OBVIOUS
    <2>2. m \in Int /\ m <= today /\ PassedTo(m)
      BY <1>1, <1>5, <1>6, <2>1, DatesAreWhole
    <2>3. PassedTo(m)'
      BY <1>1, <1>11, <2>2, PassedStays
    <2> QED
      BY <2>1, <2>3
  <1>13. Earns
    <2>1. CASE \E p \in {"accPost", "accSettle"} : To(c, p)
      <3>1. PICK p \in {"accPost", "accSettle"} : To(c, p)
        BY <2>1
      <3>2. p \in SavingsPcs
        BY DEF SavingsPcs
      <3>3. PICK x : Becomes(c, x) /\ x.pc = p /\ x.day = d
        BY <1>1, <1>3, <3>1, <3>2, GoesTo
      <3>4. AttemptEarns(x)'
        BY <1>10, <1>12, <3>1, <3>3 DEF AttemptEarns
      <3> QED
        BY <3>3, <3>4 DEF Earns
    <2>2. CASE NextDay(c) /\ Credited(d)
      <3>1. PassedTo(d)
        BY <1>5, <1>6, <2>2, OneMoreDay DEF Passed
      <3> QED
        BY <1>2, <1>3, <1>4, <1>11, <2>2, <3>1, NextDayEarns DEF Accruing
    <2>3. CASE NextDay(c) /\ Credited(d)'
      <3>1. PICK x : Becomes(c, x) /\ x.pc \in {"basis", "mark"} /\ x.day = d + 1
        BY <1>1, <1>3, <2>3, NextDayGoes
      <3>2. Passed(d)'
        BY <2>3 DEF Passed
      <3>3. PassedTo(d)'
        <4>1. \A e \in Days : e \in Nat
          BY SavingsBounds DEF Days
        <4>2. ASSUME NEW e \in Days, e <= d PROVE Passed(e)'
          <5>1. CASE e = d
            BY <3>2, <5>1
          <5>2. CASE e # d
            <6>1. e <= d - 1
              BY <1>5, <4>1, <4>2, <5>2
            <6> QED
              BY <1>12, <6>1 DEF PassedTo
          <5> QED
            BY <5>1, <5>2
        <4> QED
          BY <4>2 DEF PassedTo
      <3>4. x.day - 1 = d
        BY <1>5, <3>1
      <3>5. AttemptEarns(x)'
        BY <3>1, <3>3, <3>4 DEF AttemptEarns
      <3> QED
        BY <3>1, <3>5 DEF Earns
    <2>4. CASE AccrualClaim(c)
      BY <1>3, <2>1, <2>2, <2>4 DEF AccrualClaim
    <2>5. CASE AccrualPost(c)
      BY <2>1, <2>5 DEF AccrualPost
    <2>6. CASE AccrualSettle(c)
      <3>1. Credited(d)' /\ NextDay(c)
        BY <1>10, <2>6 DEF Credited, AccrualSettle
      <3> QED
        BY <2>3, <3>1
    <2> QED
      BY <2>4, <2>5, <2>6
  <1> QED
    BY <1>2, <1>11, <1>13, EarnsAside

\* The end of a run, and a run that fails.
LEMMA RunEndsEarns ==
  ASSUME BooksInv, BooksInv', EarnsInv, NEW c \in Attempts,
         MarkInterestChecked(c) \/ AccrualFails(c)
  PROVE  EarnsInv'
  <1>1. SavingsTypeOK /\ SavingsTypeOK' /\ DaysSound /\ CursorSound /\ AttemptsSound
        /\ call[c] \in AttemptShape /\ AttemptSound(call[c]) /\ AttemptEarns(call[c])
    BY DEF BooksInv, EarnsInv, AttemptsSound
  <1>2. UNCHANGED <<acct, saves, rows, today>> /\ acct' = acct
    BY DEF MarkInterestChecked, AccrualFails, account
  <1>3. RowsStep /\ today' >= today /\ Onward
    BY <1>1, <1>2, RestingRows, SameDay DEF Onward
  <1>4. PICK m : m = call[c].day - 1
    OBVIOUS
  <1>5. m \in Int /\ m <= today /\ (acct = "ACTIVE" => PassedTo(m))
    <2>1. /\ call[c].pc \in {"mark", "basis", "accClaim", "accPost", "accSettle"}
          /\ call[c].day \in Nat /\ call[c].end \in Nat /\ today \in Nat
      BY <1>1, SavingsBounds, DatesAreWhole DEF MarkInterestChecked, AccrualFails, At, AttemptShape, Stamps
    <2>2. call[c].day - 1 <= call[c].end /\ call[c].end <= today
      BY <1>1, <2>1 DEF AttemptSound, Accruing
    <2> QED
      BY <1>1, <1>4, <2>1, <2>2 DEF AttemptEarns
  <1>6. acct = "ACTIVE" => PassedTo(m)'
    BY <1>1, <1>3, <1>5, PassedStays
  <1>7. CASE MarkInterestChecked(c)
    <2>1. PICK n : n = through
      OBVIOUS
    <2>2. n \in Int /\ n <= today /\ (acct = "ACTIVE" => PassedTo(n))
      BY <1>1, <2>1, DatesAreWhole DEF CursorSound
    <2>3. acct = "ACTIVE" => PassedTo(n)'
      BY <1>1, <1>3, <2>2, PassedStays
    <2>4. through' = m \/ through' = n
      BY <1>4, <1>7, <2>1 DEF MarkInterestChecked
    <2>5. CursorSound'
      <3>1. acct' = "ACTIVE" => PassedTo(through)'
        BY <1>2, <1>6, <2>3, <2>4 DEF PassedTo
      <3> QED
        BY <1>1, <1>2, <1>5, <2>2, <2>4, <3>1 DEF CursorSound
    <2>6. PICK x : Becomes(c, x) /\ x.pc = "idle"
      BY <1>1, <1>7, Returns DEF MarkInterestChecked
    <2>7. Earns
      BY <2>6, NoEarning DEF Earns
    <2> QED
      BY <1>3, <2>5, <2>7, EarnsTogether
  <1>8. CASE AccrualFails(c)
    <2>1. "mark" \in SavingsPcs /\ To(c, "mark")
      BY <1>8 DEF SavingsPcs, AccrualFails
    <2>2. PICK x : Becomes(c, x) /\ x.pc = "mark" /\ x.day = call[c].day
      BY <1>1, <2>1, GoesTo
    <2>3. x.day - 1 = m
      BY <1>4, <2>2
    <2>4. AttemptEarns(x)'
      BY <1>2, <1>6, <2>2, <2>3 DEF AttemptEarns
    <2>5. UNCHANGED account /\ Earns
      BY <1>8, <2>2, <2>4 DEF AccrualFails, Earns
    <2> QED
      BY <1>3, <2>5, EarnsAside
  <1> QED
    BY <1>7, <1>8

\* Every step keeps what is known of the interest of the days.
LEMMA NextEarns ==
  ASSUME BooksInv, BooksInv', EarnsInv, SavingsNext
  PROVE  EarnsInv'
  <1>1. CASE \/ \E k \in Withdrawals : RailDecides(k)
             \/ Freeze \/ Close \/ (\E s \in saves : ApplySave(s)) \/ EndOfDay
    BY <1>1, OutsideEarns
  <1>2. CASE \E k \in Withdrawals : PayoutFailed(k)
    BY <1>2, PayoutFailedEarns
  <1>3. ASSUME NEW c \in Attempts,
               \/ \E k \in Deposits : Record(c, k)
               \/ \E k \in Withdrawals : Request(c, k) \/ Approve(c, k) \/ Cancel(c, k)
               \/ AccrueInterest(c) \/ Die(c) \/ AccrualFails(c)
        PROVE  EarnsInv'
    BY <1>3, MovementsEarn, AccrueInterestEarns, RunEndsEarns
  <1>4. ASSUME NEW c \in Attempts, CallStep(c)
        PROVE  EarnsInv'
    BY <1>4, MovementsEarn, AccrualBasisEarns, AccrualEarns, RunEndsEarns DEF CallStep
  <1> QED
    BY <1>1, <1>2, <1>3, <1>4 DEF SavingsNext

\* So does a stutter.
LEMMA StutterEarns ==
  ASSUME BooksInv, BooksInv', EarnsInv, UNCHANGED savingsVars
  PROVE  EarnsInv'
  <1>1. SavingsTypeOK /\ UNCHANGED <<rows, account, today, call>>
    BY DEF BooksInv, savingsVars
  <1>2. RowsStep /\ today' >= today /\ Earns
    BY <1>1, RestingRows, SameDay DEF Earns
  <1> QED
    BY <1>1, <1>2, EarnsAside

\* No interest is there at the start.
LEMMA InitEarns ==
  ASSUME SavingsInit
  PROVE  EarnsInv
  <1>1. RowsDated
    BY DEF SavingsInit, RowsDated
  <1>2. DaysSound
    BY DEF SavingsInit, DaysSound
  <1>3. CursorSound
    BY SavingsBounds DEF SavingsInit, CursorSound, PassedTo, Days
  <1>4. \A c \in Attempts : call[c].pc = "idle"
    BY DEF SavingsInit, Idle
  <1>5. \A c \in Attempts : AttemptEarns(call[c])
    BY <1>4 DEF AttemptEarns
  <1> QED
    BY <1>1, <1>2, <1>3, <1>5 DEF EarnsInv

\* With the books, what is known of the days holds in every reachable state: a day that
\* ended keeps its closing balance, so an accrual that reads it late reads the same (Accrue).
THEOREM InterestKept == SavingsSpec => [](BooksInv /\ EarnsInv)
  <1>1. SavingsInit => EarnsInv
    BY InitEarns
  <1>2. BooksInv /\ BooksInv' /\ EarnsInv /\ [SavingsNext]_savingsVars => EarnsInv'
    BY NextEarns, StutterEarns
  <1> QED
    BY <1>1, <1>2, SavingsBooksKept, PTL DEF SavingsSpec

\* The interest of a day is what the account held at the end of it earns, however late
\* and however often the job tries, and the cursor of an active account passes no day that
\* earned some (Accrue, closingBalance and computeAccrual of interest_accrual.go).
THEOREM InterestIsPaid == SavingsSpec => []InterestIsDue
  <1>1. BooksInv /\ EarnsInv => InterestIsDue
    <2> SUFFICES ASSUME BooksInv, EarnsInv PROVE InterestIsDue
      OBVIOUS
    <2>1. SavingsTypeOK /\ DaysSound /\ CursorSound
      BY DEF BooksInv, EarnsInv
    <2>2. \A d \in Days : interest[d].st # "NONE" => interest[d].sum = computeAccrual(Closing(d))
      BY <2>1 DEF DaysSound, Due
    <2>3. ASSUME acct = "ACTIVE", NEW d \in 1..through
          PROVE  Credited(d) \/ Closing(d) <= 0 \/ computeAccrual(Closing(d)) = 0
      <3>1. d \in Days /\ d <= through
        BY <2>1, SavingsBounds DEF SavingsTypeOK, Days, Stamps
      <3>2. Passed(d)
        BY <2>1, <2>3, <3>1 DEF CursorSound, PassedTo
      <3>3. PICK b \in Int : b = Closing(d)
        BY <2>1, ClosingIsWhole
      <3>4. computeAccrual(b) \in Int /\ (b > 0 => computeAccrual(b) >= 0)
        BY AccrualIsWhole
      <3>5. Credited(d) \/ b <= 0 \/ computeAccrual(b) <= 0
        BY <3>2, <3>3 DEF Passed
      <3>6. Credited(d) \/ b <= 0 \/ computeAccrual(b) = 0
        BY <3>4, <3>5
      <3> QED
        BY <3>3, <3>6
    <2> QED
      BY <2>2, <2>3 DEF InterestIsDue
  <1> QED
    BY <1>1, InterestKept, PTL
=============================================================================
