------------------------ MODULE ReservationLifecycle ------------------------
(***************************************************************************)
(* What the limits service promises about one reservation row, whoever     *)
(* moves it: the Reserve/Commit/Release/Reverse RPCs, the approval         *)
(* decisions, the two reapers or archival.  Every status change of         *)
(* limits_reservations goes through one of the guarded UPDATEs of          *)
(* reservation_repo.go; this module is their combined state machine        *)
(* together with the ledger entries a reservation owns.  LimitsReservation *)
(* and LimitsApproval are shown to implement it.                           *)
(***************************************************************************)
CONSTANT Ids            \* reservation ids, each used by at most one row

VARIABLES status,       \* [Ids -> Statuses]
          counted       \* ids whose ledger entries a rolling window may sum

vars == <<status, counted>>

Holding  == {"active", "pending_approval"}
Terminal == {"committed", "released", "reversed", "expired"}
Statuses == Holding \union Terminal \union {"none", "archived"}

Init ==
  /\ status = [r \in Ids |-> "none"]
  /\ counted = {}

-----------------------------------------------------------------------------
\* A Reserve stores a row holding cap space, never a terminal one.
Open(r) ==
  /\ status[r] = "none"
  /\ \E s \in Holding : status' = [status EXCEPT ![r] = s]
  /\ UNCHANGED counted

\* All approvals landed.
Activate(r) ==
  /\ status[r] = "pending_approval"
  /\ status' = [status EXCEPT ![r] = "active"]
  /\ UNCHANGED counted

\* The operation happened: it is counted, except for a shadow reservation.
Commit(r) ==
  /\ status[r] = "active"
  /\ status' = [status EXCEPT ![r] = "committed"]
  /\ counted' \in {counted, counted \union {r}}

\* The hold is given back without the operation having been counted.
Release(r) ==
  /\ status[r] \in Holding
  /\ status' = [status EXCEPT ![r] = "released"]
  /\ UNCHANGED counted

\* The TTL reaper expires any batch of active holds in one UPDATE.
Expire(S) ==
  /\ \A r \in S : status[r] = "active"
  /\ status' = [r \in Ids |-> IF r \in S THEN "expired" ELSE status[r]]
  /\ UNCHANGED counted

\* A committed operation is undone once, leaving a row t that records it.
Reverse(r, t) ==
  /\ status[r] = "committed"
  /\ status[t] = "none"
  /\ status' = [status EXCEPT ![r] = "reversed", ![t] = "reversed"]
  /\ counted' = counted \ {r}

\* Retention removes terminal rows and, separately, old ledger entries.
Archive(r) ==
  /\ status[r] \in Terminal
  /\ status' = [status EXCEPT ![r] = "archived"]
  /\ UNCHANGED counted

ArchiveEntries(r) ==
  /\ counted' = counted \ {r}
  /\ UNCHANGED status

Next ==
  \/ \E r \in Ids :
       \/ Open(r) \/ Activate(r) \/ Commit(r) \/ Release(r)
       \/ Archive(r) \/ ArchiveEntries(r)
       \/ \E t \in Ids : Reverse(r, t)
  \/ \E S \in SUBSET Ids : Expire(S)

Spec == Init /\ [][Next]_vars
=============================================================================
