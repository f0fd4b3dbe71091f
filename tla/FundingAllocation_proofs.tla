------------------------ MODULE FundingAllocation_proofs ------------------------
(***************************************************************************)
(* Proofs about FundingAllocation for any requests, calls, sources, amounts, *)
(* attempts and faults: no investor is lent beyond the balance, an account   *)
(* holds the capital of its active tranches, a complete claim is funded, and *)
(* no capital is left tied up behind a call that is over, but by a fault or  *)
(* by a release that an allocation overtook.                                 *)
(***************************************************************************)
EXTENDS FundingAllocation, Sums_proofs

-----------------------------------------------------------------------------
(* Types *)

Claims == [st : {"none", "allocating", "abandoning", "complete"}, by : Calls \union {0}]
Tranche == [amt : Nat, st : {"none", "pending", "active"}]
Call == [pc : Pcs, req : Requests \union {0}, attempt : 1..MaxAttempts,
         plan : [Sources -> Nat], full : BOOLEAN, todo : SUBSET Fundings]

TypeInv ==
  /\ claim \in [Requests -> Claims]
  /\ funding \in [Fundings -> Tranche]
  /\ reserved \in [Investors -> Nat] /\ \A i \in Investors : reserved[i] <= Balance[i]
  /\ call \in [Calls -> Call]
  /\ \A c \in Calls : call[c].pc # "new" => call[c].req \in Requests
  /\ unseen \union broken \subseteq Calls /\ overtaken \subseteq unseen
  /\ faults \in 0..MaxFaults

\* What every step of call c does to the calls: it changes c's only.
LEMMA FreshCall == Fresh \in Call
  BY BoundAssumption DEF Fresh, Call, Pcs

LEMMA OverCall ==
  ASSUME TypeInv, NEW c \in Calls
  PROVE  /\ Over(c) \in Call /\ Over(c).pc = "over" /\ Over(c).req = call[c].req
         /\ Over(c).todo = {}
  <1>1. /\ call[c].req \in Requests \union {0}
        /\ Fresh \in Call /\ Fresh.todo = {}
    BY FreshCall DEF TypeInv, Call, Fresh
  <1>2. "over" \in Pcs
    BY DEF Pcs
  <1> QED
    BY <1>1, <1>2 DEF Over, Call

LEMMA InitType == Init => TypeInv
  <1> SUFFICES ASSUME Init PROVE TypeInv
    OBVIOUS
  <1>1. NoClaim \in Claims /\ Nothing \in Tranche
    BY DEF NoClaim, Claims, Nothing, Tranche
  <1>2. \A c \in Calls : call[c].pc = "new"
    BY DEF Init, Fresh
  <1> QED
    BY <1>1, <1>2, FreshCall, SourceAssumption, BoundAssumption DEF Init, TypeInv

\* Call c becomes x.
Becomes(c, x) == call' = [call EXCEPT ![c] = x] /\ x \in Call
                   /\ (x.pc # "new" => x.req \in Requests)

LEMMA BecomesType ==
  ASSUME TypeInv, NEW c \in Calls, NEW x, Becomes(c, x)
  PROVE  /\ call' \in [Calls -> Call]
         /\ \A d \in Calls : call'[d].pc # "new" => call'[d].req \in Requests
  BY DEF TypeInv, Becomes

\* The call record each kind of move leaves.
LEMMA Moves ==
  ASSUME TypeInv, NEW c \in Calls, call[c].pc # "new", NEW pc \in Pcs \ {"new"}
  PROVE  /\ To(c, pc) =>
              \E x : /\ Becomes(c, x) /\ x.pc = pc /\ x.req = call[c].req
                     /\ x.attempt = call[c].attempt /\ x.todo = call[c].todo
                     /\ x.plan = call[c].plan /\ x.full = call[c].full
         /\ \A todo \in SUBSET Fundings : Begin(c, pc, todo) =>
              \E x : /\ Becomes(c, x) /\ x.pc = pc /\ x.req = call[c].req
                     /\ x.attempt = call[c].attempt /\ x.todo = todo
         /\ Return(c) =>
              \E x : /\ Becomes(c, x) /\ x.pc = "over" /\ x.req = call[c].req
                     /\ x.todo = {}
  <1>1. call[c] \in Call /\ call[c].req \in Requests
    BY DEF TypeInv
  <1>2. ASSUME To(c, pc)
        PROVE  \E x : /\ Becomes(c, x) /\ x.pc = pc /\ x.req = call[c].req
                      /\ x.attempt = call[c].attempt /\ x.todo = call[c].todo
                      /\ x.plan = call[c].plan /\ x.full = call[c].full
    <2> DEFINE x == [call[c] EXCEPT !.pc = pc]
    <2>1. /\ x \in Call /\ x.pc = pc /\ x.req = call[c].req
          /\ x.attempt = call[c].attempt /\ x.todo = call[c].todo
          /\ x.plan = call[c].plan /\ x.full = call[c].full
      BY <1>1 DEF Call
    <2>2. call' = [call EXCEPT ![c] = x]
      BY <1>2 DEF To
    <2> QED
      BY <1>1, <2>1, <2>2 DEF Becomes
  <1>3. ASSUME NEW todo \in SUBSET Fundings, Begin(c, pc, todo)
        PROVE  \E x : /\ Becomes(c, x) /\ x.pc = pc /\ x.req = call[c].req
                      /\ x.attempt = call[c].attempt /\ x.todo = todo
    <2> DEFINE x == [call[c] EXCEPT !.pc = pc, !.todo = todo]
    <2>1. /\ x \in Call /\ x.pc = pc /\ x.req = call[c].req
          /\ x.attempt = call[c].attempt /\ x.todo = todo
      BY <1>1 DEF Call
    <2>2. call' = [call EXCEPT ![c] = x]
      BY <1>3 DEF Begin
    <2> QED
      BY <1>1, <2>1, <2>2 DEF Becomes
  <1>4. ASSUME Return(c)
        PROVE  \E x : Becomes(c, x) /\ x.pc = "over" /\ x.req = call[c].req /\ x.todo = {}
    BY <1>1, <1>4, OverCall DEF Return, Becomes
  <1> QED
    BY <1>2, <1>3, <1>4

-----------------------------------------------------------------------------
(* What is left behind *)

\* The fundings of a call that still tie up capital.
Mine(c) == {f \in Fundings : f[1] = c /\ funding[f].st # "none"}

\* Where a call has nothing, is writing the run of its attempt, or holds in its
\* todo all it still has to give back.
Clean == {"new", "leftovers", "void_old", "plan", "release", "void_cancel", "drop"}
Writing == {"write", "reserve", "complete", "abandon"}
Undoing == {"undo_conflict", "undo_error", "void_run", "void_lost"}
Releases == {"void_cancel", "drop"}

CompleteBy(r, c) == claim[r].st = "complete" /\ claim[r].by = c

\* What a call answers for, by where it is.
Answers(c) ==
  \/ c \in broken \union overtaken
  \/ /\ call[c].pc \in Clean => Mine(c) = {}
     /\ call[c].pc \in Writing => \A f \in Mine(c) : f[2] = call[c].attempt
     /\ call[c].pc \in Undoing => Mine(c) \subseteq call[c].todo
     /\ call[c].pc = "over" => Mine(c) = {} \/ CompleteBy(call[c].req, c)

\* A complete claim is that of a call for the request that writes no more.
Completed ==
  \A r \in Requests : claim[r].st = "complete" =>
    /\ claim[r].by \in Calls /\ call[claim[r].by].req = r
    /\ call[claim[r].by].pc \in {"abandon", "over"}

\* A release has in hand all that is still tied up for its request, but for what a
\* fault left or was written since it read them.
ReleasedBy(d) ==
  /\ call[d].pc = "drop" => call[d].todo = {}
  /\ \A e \in Calls : call[e].req = call[d].req =>
       e \in broken \union unseen \/ Mine(e) \subseteq call[d].todo
Released == \A d \in Calls : call[d].pc \in Releases => ReleasedBy(d)

Inv == (\A c \in Calls : Answers(c)) /\ Completed /\ Released

\* What call c answers for once it has become x with its fundings as they are.
AnswersAs(c, x) ==
  \/ c \in broken' \union overtaken'
  \/ /\ x.pc \in Clean => Mine(c) = {}
     /\ x.pc \in Writing => \A f \in Mine(c) : f[2] = x.attempt
     /\ x.pc \in Undoing => Mine(c) \subseteq x.todo
     /\ x.pc = "over" => Mine(c) = {} \/ (claim'[x.req].st = "complete" /\ claim'[x.req].by = c)

\* A step that touches no funding and drops no complete claim keeps Inv when
\* the call that takes it still answers for what it has.
LEMMA Settle ==
  ASSUME TypeInv, Inv, NEW c \in Calls, NEW x, Becomes(c, x),
         UNCHANGED <<funding, unseen, overtaken>>, broken \subseteq broken',
         x.req = call[c].req \/ Mine(c) = {} \/ c \in broken \union unseen,
         \A r \in Requests : claim[r].st = "complete" => claim'[r] = claim[r],
         \A r \in Requests : claim'[r].st = "complete" /\ claim'[r] # claim[r] =>
            claim'[r].by = c /\ x.req = r /\ x.pc \in {"abandon", "over"},
         call[c].pc \in {"abandon", "over"} =>
            \/ x.pc \in {"abandon", "over"} /\ x.req = call[c].req
            \/ ~CompleteBy(call[c].req, c),
         x.pc \in Releases => /\ call[c].pc \in Releases /\ x.req = call[c].req
                              /\ x.todo = call[c].todo /\ (x.pc = "drop" => x.todo = {}),
         AnswersAs(c, x)
  PROVE  Inv'
  <1>1. /\ call'[c] = x /\ \A d \in Calls \ {c} : call'[d] = call[d]
        /\ \A d : Mine(d)' = Mine(d)
    BY DEF Becomes, TypeInv, Mine
  <1>2. ASSUME NEW d \in Calls PROVE Answers(d)'
    <2>1. CASE d = c
      BY <1>1, <2>1 DEF Answers, AnswersAs, CompleteBy
    <2>2. CASE d # c
      <3>1. call'[d] = call[d] /\ Answers(d) /\ Mine(d)' = Mine(d)
        BY <1>1, <2>2 DEF Inv
      <3>2. CASE call[d].pc = "over" /\ CompleteBy(call[d].req, d)
        <4>1. claim'[call[d].req] = claim[call[d].req]
          BY <3>2 DEF CompleteBy, TypeInv
        <4> QED
          BY <3>1, <3>2, <4>1 DEF Answers, CompleteBy, Clean, Writing, Undoing
      <3>3. CASE ~(call[d].pc = "over" /\ CompleteBy(call[d].req, d))
        BY <3>1, <3>3 DEF Answers
      <3> QED
        BY <3>2, <3>3
    <2> QED
      BY <2>1, <2>2
  <1>3. Completed'
    <2> SUFFICES ASSUME NEW r \in Requests, claim'[r].st = "complete"
                 PROVE  /\ claim'[r].by \in Calls /\ call'[claim'[r].by].req = r
                        /\ call'[claim'[r].by].pc \in {"abandon", "over"}
      BY DEF Completed
    <2>1. CASE claim'[r] # claim[r]
      BY <1>1, <2>1
    <2>2. CASE claim'[r] = claim[r]
      <3>1. /\ claim[r].by \in Calls /\ call[claim[r].by].req = r
            /\ call[claim[r].by].pc \in {"abandon", "over"} /\ claim[r].st = "complete"
        BY <2>2 DEF Inv, Completed
      <3>2. CASE claim[r].by = c
        BY <1>1, <2>2, <3>1, <3>2 DEF CompleteBy
      <3>3. CASE claim[r].by # c
        BY <1>1, <2>2, <3>1, <3>3
      <3> QED
        BY <3>2, <3>3
    <2> QED
      BY <2>1, <2>2
  <1>4. \A d \in Calls : call'[d].pc \in Releases =>
          /\ call[d].pc \in Releases /\ call'[d].req = call[d].req
          /\ call'[d].todo = call[d].todo /\ (call'[d].pc = "drop" => call'[d].todo = {})
    BY <1>1 DEF Inv, Released, ReleasedBy
  <1>5. Released'
    <2> SUFFICES ASSUME NEW d \in Calls, call'[d].pc \in Releases
                 PROVE  ReleasedBy(d)'
      BY DEF Released
    <2>1. /\ ReleasedBy(d) /\ call'[d].req = call[d].req /\ call'[d].todo = call[d].todo
          /\ call'[d].pc = "drop" => call'[d].todo = {}
      BY <1>4 DEF Inv, Released
    <2>2. ASSUME NEW e \in Calls, call'[e].req = call[d].req
          PROVE  e \in broken \union unseen \/ Mine(e) \subseteq call[d].todo
      <3>1. CASE call[e].req = call[d].req
        BY <2>1, <3>1 DEF ReleasedBy
      <3>2. CASE call[e].req # call[d].req
        BY <1>1, <2>2, <3>2
      <3> QED
        BY <3>1, <3>2
    <2> QED
      BY <1>1, <2>1, <2>2 DEF ReleasedBy
  <1> QED
    BY <1>2, <1>3, <1>5 DEF Inv

LEMMA QuietType ==
  ASSUME TypeInv, NEW c \in Calls, NEW x, Becomes(c, x), funding' = funding,
         reserved' = reserved, claim' \in [Requests -> Claims], broken' \subseteq Calls,
         unseen' = unseen, overtaken' \subseteq unseen, faults' = faults \/ Fault
  PROVE  TypeInv'
  <1>1. faults' \in 0..MaxFaults
    BY BoundAssumption DEF TypeInv, Fault
  <1> QED
    BY <1>1, BecomesType DEF TypeInv

\* The kinds of places, told apart.
LEMMA Places ==
  /\ Pcs = Clean \union Writing \union Undoing \union {"over"}
  /\ Clean \cap (Writing \union Undoing \union {"over"}) = {}
  /\ Writing \cap (Undoing \union {"over"}) = {} /\ "over" \notin Undoing
  /\ Releases \subseteq Clean /\ Voiding \subseteq Pcs
  BY DEF Pcs, Clean, Writing, Undoing, Releases, Voiding

\* The fundings in a todo list are those of calls.
LEMMA Owners ==
  ASSUME TypeInv, NEW c \in Calls
  PROVE  {f[1] : f \in call[c].todo} \subseteq Calls
  BY DEF TypeInv, Call, Fundings

LEMMA OwnRunIsMine ==
  ASSUME TypeInv, Inv, NEW c \in Calls, call[c].pc \in Writing
  PROVE  OwnRun(c) \in SUBSET Fundings /\ (c \in broken \union overtaken \/ Mine(c) \subseteq OwnRun(c))
  <1>1. c \in broken \union overtaken \/ \A f \in Mine(c) : f[2] = call[c].attempt
    BY DEF Inv, Answers
  <1> QED
    BY <1>1 DEF OwnRun, Mine

-----------------------------------------------------------------------------
(* Steps on the claim and the call *)

LEMMA ClaimKeeps ==
  ASSUME TypeInv, Inv, NEW c \in Calls, NEW r \in Requests, Claim(c, r)
  PROVE  TypeInv' /\ Inv'
  <1> DEFINE x == [call[c] EXCEPT !.req = r, !.pc = "leftovers"]
  <1> DEFINE k == [st |-> "allocating", by |-> c]
  <1>1. call[c] \in Call /\ call[c].pc = "new" /\ "leftovers" \in Pcs
    BY DEF Claim, At, TypeInv, Pcs
  <1>2. x \in Call /\ x.pc = "leftovers" /\ x.req = r
    BY <1>1 DEF Call
  <1>3. Becomes(c, x)
    BY <1>2 DEF Becomes, Claim
  <1>4. k \in Claims /\ claim' = [claim EXCEPT ![r] = k] /\ k.st # "complete"
    BY DEF Claims, Claim
  <1>5. Mine(c) = {} \/ c \in broken \union overtaken
    BY <1>1 DEF Inv, Answers, Clean
  <1> HIDE DEF x, k
  <1>6. AnswersAs(c, x)
    BY <1>2, <1>5 DEF AnswersAs, Writing, Undoing, Claim, past
  <1>7. /\ \A q \in Requests : claim[q].st = "complete" => claim'[q] = claim[q]
        /\ \A q \in Requests : claim'[q].st = "complete" => claim'[q] = claim[q]
        /\ claim' \in [Requests -> Claims]
    BY <1>4 DEF Claim, TypeInv
  <1>8. TypeInv'
    BY <1>3, <1>7, QuietType DEF Claim, TypeInv, past
  <1> QED
    BY <1>1, <1>2, <1>3, <1>5, <1>6, <1>7, <1>8, Settle DEF Claim, Releases, past, TypeInv

\* A step that leaves the claims alone too.
LEMMA CallOnly ==
  ASSUME TypeInv, Inv, NEW c \in Calls, NEW x, Becomes(c, x),
         UNCHANGED <<claim, funding, reserved, unseen, overtaken>>, broken \subseteq broken',
         x.req = call[c].req,
         broken' \subseteq Calls, faults' = faults \/ Fault,
         call[c].pc \in {"abandon", "over"} =>
            \/ x.pc \in {"abandon", "over"} /\ x.req = call[c].req
            \/ ~CompleteBy(call[c].req, c),
         x.pc \in Releases => /\ call[c].pc \in Releases /\ x.req = call[c].req
                              /\ x.todo = call[c].todo /\ (x.pc = "drop" => x.todo = {}),
         AnswersAs(c, x)
  PROVE  TypeInv' /\ Inv'
  <1>1. claim' \in [Requests -> Claims]
    BY DEF TypeInv
  <1>2. TypeInv'
    BY <1>1, QuietType DEF TypeInv
  <1> QED
    BY <1>2, Settle

LEMMA ReadPlanKeeps ==
  ASSUME TypeInv, Inv, NEW c \in Calls, ReadLeftovers(c) \/ Plan(c)
  PROVE  TypeInv' /\ Inv'
  <1>1. call[c] \in Call /\ call[c].pc \in {"leftovers", "plan"} /\ call[c].req \in Requests
    BY DEF ReadLeftovers, Plan, At, TypeInv
  <1>2. PICK x : Becomes(c, x) /\ x.pc \in {"void_old", "write"} /\ x.req = call[c].req
    <2>1. CASE ReadLeftovers(c)
      <3>1. ActiveFor(call[c].req) \in SUBSET Fundings /\ "void_old" \in Pcs \ {"new"}
        BY DEF ActiveFor, Pcs, Voiding
      <3> QED
        BY <1>1, <2>1, <3>1, Moves DEF ReadLeftovers
    <2>2. CASE Plan(c)
      <3> DEFINE want == Loan[call[c].req]
      <3>1. PICK p \in [Sources -> 0..want], b \in BOOLEAN :
              call' = [call EXCEPT ![c].pc = "write", ![c].plan = p, ![c].full = b]
        BY <2>2 DEF Plan
      <3>2. p \in [Sources -> Nat]
        BY <1>1, BoundAssumption
      <3> DEFINE y == [call[c] EXCEPT !.pc = "write", !.plan = p, !.full = b]
      <3>3. y \in Call /\ y.pc = "write" /\ y.req = call[c].req
        BY <1>1, <3>2 DEF Call, Pcs
      <3>4. call' = [call EXCEPT ![c] = y]
        BY <3>1
      <3> QED
        BY <1>1, <3>3, <3>4 DEF Becomes
    <2> QED
      BY <2>1, <2>2
  <1>3. Mine(c) = {} \/ c \in broken \union overtaken
    BY <1>1 DEF Inv, Answers, Clean
  <1>4. AnswersAs(c, x)
    BY <1>2, <1>3 DEF AnswersAs, Undoing, ReadLeftovers, Plan, past
  <1> QED
    BY <1>1, <1>2, <1>4, CallOnly DEF ReadLeftovers, Plan, Releases, TypeInv, past

\* Giving back the run, or going on to complete or abandon it.
LEMMA WritingKeeps ==
  ASSUME TypeInv, Inv, NEW c \in Calls, PersistFails(c) \/ Written(c)
  PROVE  TypeInv' /\ Inv'
  <1>1. call[c] \in Call /\ call[c].pc \in {"write", "reserve"} /\ call[c].req \in Requests
    BY DEF PersistFails, Written, At, TypeInv
  <1>2. OwnRun(c) \in SUBSET Fundings /\ (c \in broken \union overtaken \/ Mine(c) \subseteq OwnRun(c))
    BY <1>1, OwnRunIsMine DEF Writing
  <1>3. c \in broken \union overtaken \/ \A f \in Mine(c) : f[2] = call[c].attempt
    BY <1>1 DEF Inv, Answers, Writing
  <1>4. {"undo_error", "complete", "abandon"} \subseteq Pcs \ {"new"}
    BY DEF Pcs, Voiding
  <1>5. CASE PersistFails(c)
    <2>1. PICK x : /\ Becomes(c, x) /\ x.pc = "undo_error" /\ x.req = call[c].req
                   /\ x.todo = OwnRun(c)
      BY <1>1, <1>2, <1>4, <1>5, Moves DEF PersistFails
    <2>2. AnswersAs(c, x)
      BY <1>2, <1>5, <2>1 DEF AnswersAs, Clean, Writing, PersistFails, past
    <2> QED
      BY <1>1, <1>5, <2>1, <2>2, CallOnly DEF PersistFails, Releases, TypeInv, past
  <1>6. CASE Written(c)
    <2>1. PICK x : /\ Becomes(c, x) /\ x.pc \in {"complete", "abandon"} /\ x.req = call[c].req
                   /\ x.attempt = call[c].attempt
      BY <1>1, <1>4, <1>6, Moves DEF Written
    <2>2. AnswersAs(c, x)
      BY <1>3, <1>6, <2>1 DEF AnswersAs, Clean, Undoing, Written, past
    <2> QED
      BY <1>1, <1>6, <2>1, <2>2, CallOnly DEF Written, Releases, TypeInv, past
  <1> QED
    BY <1>5, <1>6

\* The claim of a request takes a new status.
LEMMA SetClaimType ==
  ASSUME TypeInv, NEW c \in Calls, call[c].req \in Requests, Holds(c, {"allocating"}),
         NEW st \in {"abandoning", "complete"}, SetClaim(c, st)
  PROVE  /\ claim' \in [Requests -> Claims]
         /\ \A q \in Requests : claim[q].st = "complete" => claim'[q] = claim[q]
         /\ \A q \in Requests : claim'[q].st = "complete" /\ claim'[q] # claim[q] =>
              st = "complete" /\ claim'[q].by = c /\ q = call[c].req
         /\ st = "complete" => /\ claim'[call[c].req].st = "complete"
                               /\ claim'[call[c].req].by = c
  <1> DEFINE k == [claim[call[c].req] EXCEPT !.st = st]
  <1>1. k \in Claims /\ k.by = c /\ k.st = st
    BY DEF TypeInv, Claims, Holds
  <1>2. claim' = [claim EXCEPT ![call[c].req] = k]
    BY DEF SetClaim
  <1> HIDE DEF k
  <1>3. claim[call[c].req].st # "complete"
    BY DEF Holds
  <1> QED
    BY <1>1, <1>2, <1>3 DEF TypeInv

\* A call completes its claim and is over, or goes on to abandon its run.
LEMMA SetCompleteKeeps ==
  ASSUME TypeInv, Inv, NEW c \in Calls, call[c].pc = "complete",
         Holds(c, {"allocating"}), SetClaim(c, "complete"),
         Return(c) \/ To(c, "abandon"), faults' = faults \/ Fault,
         UNCHANGED <<funding, reserved, past>>
  PROVE  TypeInv' /\ Inv'
  <1>1. call[c] \in Call /\ call[c].req \in Requests
    BY DEF TypeInv
  <1>2. {"abandon", "over"} \subseteq Pcs \ {"new"}
    BY DEF Pcs
  <1>3. PICK x : /\ Becomes(c, x) /\ x.pc \in {"over", "abandon"} /\ x.req = call[c].req
                 /\ (x.pc = "abandon" => x.attempt = call[c].attempt)
    BY <1>1, <1>2, Moves
  <1>4. c \in broken \union overtaken \/ \A f \in Mine(c) : f[2] = call[c].attempt
    BY DEF Inv, Answers, Writing
  <1>5. /\ claim' \in [Requests -> Claims]
        /\ \A q \in Requests : claim[q].st = "complete" => claim'[q] = claim[q]
        /\ \A q \in Requests : claim'[q].st = "complete" /\ claim'[q] # claim[q] =>
             claim'[q].by = c /\ q = call[c].req
        /\ claim'[call[c].req].st = "complete" /\ claim'[call[c].req].by = c
    BY <1>1, SetClaimType
  <1>6. AnswersAs(c, x)
    BY <1>3, <1>4, <1>5 DEF AnswersAs, Clean, Writing, Undoing, past
  <1>7. TypeInv'
    BY <1>3, <1>5, QuietType DEF TypeInv, past
  <1> QED
    BY <1>3, <1>5, <1>6, <1>7, Settle DEF Releases, past

\* A call that does not hold its claim voids its run.
LEMMA LostKeeps ==
  ASSUME TypeInv, Inv, NEW c \in Calls, call[c].pc \in {"complete", "abandon"},
         ~CompleteBy(call[c].req, c), Begin(c, "void_lost", OwnRun(c)),
         UNCHANGED <<claim, funding, reserved, past, faults>>
  PROVE  TypeInv' /\ Inv'
  <1>1. OwnRun(c) \in SUBSET Fundings /\ (c \in broken \union overtaken \/ Mine(c) \subseteq OwnRun(c))
    BY OwnRunIsMine DEF Writing
  <1>2. "void_lost" \in Pcs \ {"new"}
    BY DEF Pcs, Voiding
  <1>3. PICK x : /\ Becomes(c, x) /\ x.pc = "void_lost" /\ x.req = call[c].req
                 /\ x.todo = OwnRun(c)
    BY <1>1, <1>2, Moves
  <1>4. AnswersAs(c, x)
    BY <1>1, <1>3 DEF AnswersAs, Clean, Writing, past
  <1> QED
    BY <1>3, <1>4, CallOnly DEF Releases, TypeInv, past

LEMMA CompleteKeeps ==
  ASSUME TypeInv, Inv, NEW c \in Calls, Complete(c) \/ CompleteUnconfirmed(c)
  PROVE  TypeInv' /\ Inv'
  <1>1. call[c].pc = "complete" /\ call[c].req \in Requests
    BY DEF Complete, CompleteUnconfirmed, At, TypeInv
  <1>2. ~CompleteBy(call[c].req, c)
    <2>1. CompleteBy(call[c].req, c) => call[c].pc \in {"abandon", "over"}
      BY <1>1 DEF Inv, Completed, CompleteBy
    <2> QED
      BY <1>1, <2>1
  <1>3. CASE Complete(c)
    <2>1. CASE Holds(c, {"allocating"})
      BY <1>1, <1>3, <2>1, SetCompleteKeeps DEF Complete
    <2>2. CASE ~Holds(c, {"allocating"})
      BY <1>1, <1>2, <1>3, <2>2, LostKeeps DEF Complete
    <2> QED
      BY <2>1, <2>2
  <1>4. CASE CompleteUnconfirmed(c)
    <2>1. CASE Holds(c, {"allocating"}) /\ SetClaim(c, "complete")
      BY <1>1, <1>4, <2>1, SetCompleteKeeps DEF CompleteUnconfirmed
    <2>2. CASE UNCHANGED claim
      <3>1. "abandon" \in Pcs \ {"new"}
        BY DEF Pcs
      <3>2. PICK x : /\ Becomes(c, x) /\ x.pc = "abandon" /\ x.req = call[c].req
                     /\ x.attempt = call[c].attempt
        BY <1>1, <1>4, <3>1, Moves DEF CompleteUnconfirmed
      <3>3. c \in broken \union overtaken \/ \A f \in Mine(c) : f[2] = call[c].attempt
        BY <1>1 DEF Inv, Answers, Writing
      <3>4. AnswersAs(c, x)
        BY <1>4, <3>2, <3>3 DEF AnswersAs, Clean, Undoing, CompleteUnconfirmed, past
      <3> QED
        BY <1>1, <1>4, <2>2, <3>2, <3>4, CallOnly
        DEF CompleteUnconfirmed, Releases, TypeInv, past
    <2> QED
      BY <1>4, <2>1, <2>2 DEF CompleteUnconfirmed
  <1> QED
    BY <1>3, <1>4

LEMMA AbandonKeeps ==
  ASSUME TypeInv, Inv, NEW c \in Calls, Abandon(c)
  PROVE  TypeInv' /\ Inv'
  <1>1. /\ call[c].pc = "abandon" /\ call[c].req \in Requests
        /\ UNCHANGED <<funding, reserved, past, faults>>
    BY DEF Abandon, At, TypeInv
  <1>2. OwnRun(c) \in SUBSET Fundings /\ (c \in broken \union overtaken \/ Mine(c) \subseteq OwnRun(c))
    BY <1>1, OwnRunIsMine DEF Writing
  <1>3. ~(Holds(c, {"allocating"}) /\ Holds(c, {"complete"}))
    BY DEF Holds
  <1>4. CASE Holds(c, {"allocating"})
    <2>1. SetClaim(c, "abandoning") /\ Begin(c, "void_run", OwnRun(c))
      BY <1>3, <1>4 DEF Abandon
    <2>2. "void_run" \in Pcs \ {"new"}
      BY DEF Pcs, Voiding
    <2>3. PICK x : /\ Becomes(c, x) /\ x.pc = "void_run" /\ x.req = call[c].req
                   /\ x.todo = OwnRun(c)
      BY <1>1, <1>2, <2>1, <2>2, Moves
    <2>4. AnswersAs(c, x)
      BY <1>1, <1>2, <2>3 DEF AnswersAs, Clean, Writing, past
    <2>5. /\ claim' \in [Requests -> Claims]
          /\ \A q \in Requests : claim[q].st = "complete" => claim'[q] = claim[q]
          /\ \A q \in Requests : claim'[q].st = "complete" => claim'[q] = claim[q]
      BY <1>1, <1>4, <2>1, SetClaimType
    <2>6. ~CompleteBy(call[c].req, c)
      BY <1>4 DEF Holds, CompleteBy
    <2>7. TypeInv'
      BY <1>1, <2>3, <2>5, QuietType DEF TypeInv, past
    <2> QED
      BY <1>1, <2>3, <2>4, <2>5, <2>6, <2>7, Settle DEF Releases, past
  <1>5. CASE Holds(c, {"complete"})
    <2>1. Return(c) /\ UNCHANGED claim
      BY <1>3, <1>5 DEF Abandon
    <2>2. PICK x : Becomes(c, x) /\ x.pc = "over" /\ x.req = call[c].req
      <3>1. "over" \in Pcs \ {"new"}
        BY DEF Pcs
      <3> QED
        BY <1>1, <2>1, <3>1, Moves
    <2>3. AnswersAs(c, x)
      BY <1>5, <2>1, <2>2 DEF AnswersAs, Clean, Writing, Undoing, Holds
    <2> QED
      BY <1>1, <2>1, <2>2, <2>3, CallOnly DEF Releases, TypeInv, past
  <1>6. CASE ~Holds(c, {"allocating"}) /\ ~Holds(c, {"complete"})
    <2>1. Begin(c, "void_lost", OwnRun(c)) /\ UNCHANGED claim
      BY <1>6 DEF Abandon
    <2>2. ~CompleteBy(call[c].req, c)
      BY <1>6 DEF Holds, CompleteBy
    <2> QED
      BY <1>1, <2>1, <2>2, LostKeeps
  <1> QED
    BY <1>4, <1>5, <1>6

LEMMA ReleaseHeldKeeps ==
  ASSUME TypeInv, Inv, NEW c \in Calls, ReleaseHeld(c)
  PROVE  TypeInv' /\ Inv'
  <1>1. /\ call[c].pc = "release" /\ call[c].req \in Requests
        /\ UNCHANGED <<funding, reserved, past, faults>>
    BY DEF ReleaseHeld, At, TypeInv
  <1>2. PICK x : Becomes(c, x) /\ x.pc = "over" /\ x.req = call[c].req
    <2>1. "over" \in Pcs \ {"new"}
      BY DEF Pcs
    <2> QED
      BY <1>1, <2>1, Moves DEF ReleaseHeld
  <1>3. NoClaim \in Claims /\ NoClaim.st = "none"
    BY DEF NoClaim, Claims
  <1>4. /\ claim' \in [Requests -> Claims]
        /\ \A q \in Requests : claim[q].st = "complete" => claim'[q] = claim[q]
        /\ \A q \in Requests : claim'[q].st = "complete" => claim'[q] = claim[q]
    BY <1>1, <1>3 DEF ReleaseHeld, Holds, TypeInv
  <1>5. Mine(c) = {} \/ c \in broken \union overtaken
    BY <1>1 DEF Inv, Answers, Clean
  <1>6. AnswersAs(c, x)
    BY <1>1, <1>2, <1>5 DEF AnswersAs, Clean, Writing, Undoing, past
  <1>7. TypeInv'
    BY <1>1, <1>2, <1>4, QuietType DEF TypeInv, past
  <1> QED
    BY <1>1, <1>2, <1>4, <1>6, <1>7, Settle DEF Releases, past

LEMMA VoidedKeeps ==
  ASSUME TypeInv, Inv, NEW c \in Calls, Voided(c)
  PROVE  TypeInv' /\ Inv'
  <1>1. /\ call[c] \in Call /\ call[c].pc \in Voiding /\ call[c].todo = {}
        /\ UNCHANGED <<claim, funding, reserved, past, faults>>
    BY DEF Voided, At, Voiding, TypeInv
  <1>2. call[c].pc # "new" /\ call[c].req \in Requests
    BY <1>1 DEF Voiding, TypeInv
  <1>3. {"plan", "release", "over", "drop"} \subseteq Pcs \ {"new"}
    BY DEF Pcs
  <1>4. Mine(c) = {} \/ c \in broken \union overtaken
    BY <1>1 DEF Inv, Answers, Clean, Undoing, Voiding
  <1>5. PICK x : /\ Becomes(c, x) /\ x.pc \in {"plan", "release", "over", "drop"}
                 /\ x.req = call[c].req
                 /\ x.pc = "drop" => call[c].pc = "void_cancel" /\ x.todo = call[c].todo
    <2>1. CASE At(c, "undo_conflict") /\ call[c].attempt < MaxAttempts
      <3> DEFINE y == [call[c] EXCEPT !.pc = "plan", !.attempt = @ + 1,
                                      !.plan = [s \in Sources |-> 0]]
      <3>1. call' = [call EXCEPT ![c] = y]
        BY <2>1 DEF Voided, At
      <3>2. y \in Call /\ y.pc = "plan" /\ y.req = call[c].req
        <4>1. call[c].attempt + 1 \in 1..MaxAttempts
          BY <1>1, <2>1, BoundAssumption DEF Call
        <4>2. [s \in Sources |-> 0] \in [Sources -> Nat]
          OBVIOUS
        <4> QED
          BY <1>1, <1>3, <4>1, <4>2 DEF Call
      <3> QED
        BY <1>2, <3>1, <3>2 DEF Becomes
    <2>2. CASE ~(At(c, "undo_conflict") /\ call[c].attempt < MaxAttempts)
      <3>1. \/ \E pc \in {"plan", "release"} : To(c, pc)
            \/ Return(c)
            \/ To(c, "drop") /\ call[c].pc = "void_cancel"
        BY <2>2 DEF Voided, At
      <3> QED
        BY <1>2, <1>3, <3>1, Moves
    <2> QED
      BY <2>1, <2>2
  <1>6. AnswersAs(c, x)
    BY <1>1, <1>4, <1>5 DEF AnswersAs, Writing, Undoing, past
  <1> QED
    BY <1>1, <1>5, <1>6, CallOnly DEF Releases, Voiding, TypeInv, past

LEMMA FailureKeeps ==
  ASSUME TypeInv, Inv, NEW c \in Calls, VoidFails(c) \/ Die(c)
  PROVE  TypeInv' /\ Inv'
  <1>1. /\ call[c] \in Call /\ call[c].pc \notin {"new", "over"} /\ call[c].req \in Requests
        /\ UNCHANGED <<claim, funding, reserved, unseen, overtaken>> /\ Fault
        /\ broken' = broken \union {f[1] : f \in call[c].todo} \union (IF Die(c) THEN {c} ELSE {})
    BY DEF VoidFails, Die, At, TypeInv
  <1>2. {"release", "over"} \subseteq Pcs \ {"new"}
    BY DEF Pcs
  <1>3. PICK x : /\ Becomes(c, x) /\ x.pc \in {"release", "over"}
                 /\ x.req = call[c].req
                 /\ (Die(c) => x.pc = "over")
                 /\ (~Die(c) => /\ call[c].pc \in Voiding
                               /\ (x.pc = "over" => call[c].pc \notin {"void_old"}))
    <2>1. CASE Die(c)
      BY <1>1, <1>2, <2>1, Moves DEF Die
    <2>2. CASE ~Die(c) /\ VoidFails(c)
      <3>1. CASE \E pc \in {"void_old", "undo_conflict", "undo_error"} :
                   At(c, pc) /\ call' = [call EXCEPT ![c].pc = "release", ![c].todo = {}]
        <4>1. Begin(c, "release", {}) /\ call[c].pc \in Voiding
          BY <3>1 DEF Begin, At, Voiding
        <4>2. {} \in SUBSET Fundings
          OBVIOUS
        <4> QED
          BY <1>1, <1>2, <2>2, <4>1, <4>2, Moves
      <3>2. CASE \E pc \in {"void_run", "void_lost", "void_cancel"} : At(c, pc) /\ Return(c)
        <4>1. Return(c) /\ call[c].pc \in Voiding \ {"void_old"}
          BY <3>2 DEF At, Voiding
        <4> QED
          BY <1>1, <1>2, <2>2, <4>1, Moves
      <3> QED
        BY <2>2, <3>1, <3>2 DEF VoidFails
    <2> QED
      BY <2>1, <2>2
  <1>4. AnswersAs(c, x)
    <2>1. CASE Die(c)
      BY <1>1, <2>1 DEF AnswersAs
    <2>2. CASE ~Die(c)
      <3>1. c \in broken \union overtaken \/ Mine(c) = {} \/ (call[c].todo # {} /\ Mine(c) \subseteq call[c].todo)
        BY <1>3, <2>2 DEF Inv, Answers, Voiding, Clean, Undoing
      <3>2. \A f \in Mine(c) : f[1] = c
        BY DEF Mine
      <3>3. Mine(c) = {} \/ c \in broken' \union overtaken'
        BY <1>1, <3>1, <3>2
      <3> QED
        BY <1>3, <3>3 DEF AnswersAs, Writing, Undoing
    <2> QED
      BY <2>1, <2>2
  <1>5. broken' \subseteq Calls
    BY <1>1, Owners DEF TypeInv
  <1>6. call[c].pc = "abandon" => x.pc = "over"
    BY <1>3 DEF Voiding
  <1> QED
    BY <1>1, <1>3, <1>4, <1>5, <1>6, CallOnly DEF Releases, TypeInv

-----------------------------------------------------------------------------
(* A release begins and ends *)

LEMMA StartReleaseKeeps ==
  ASSUME TypeInv, Inv, NEW c \in Calls, NEW r \in Requests, StartRelease(c, r)
  PROVE  TypeInv' /\ Inv'
  <1> DEFINE x == [call[c] EXCEPT !.req = r, !.pc = "void_cancel", !.todo = ActiveFor(r)]
  <1>1. /\ call[c] \in Call /\ call[c].pc = "new"
        /\ UNCHANGED <<claim, funding, reserved, unseen, overtaken, robbed, broken, faults>>
    BY DEF StartRelease, At, TypeInv
  <1>2. x \in Call /\ x.pc = "void_cancel" /\ x.req = r /\ x.todo = ActiveFor(r)
    <2>1. ActiveFor(r) \in SUBSET Fundings /\ "void_cancel" \in Pcs
      BY DEF ActiveFor, Pcs, Voiding
    <2> QED
      BY <1>1, <2>1 DEF Call
  <1>3. Becomes(c, x)
    BY <1>2 DEF Becomes, StartRelease
  <1> HIDE DEF x
  <1>4. /\ call'[c] = x /\ \A d \in Calls \ {c} : call'[d] = call[d]
    BY <1>3 DEF Becomes, TypeInv
  <1>5. TypeInv'
    BY <1>1, <1>3, QuietType DEF TypeInv
  <1>6. ASSUME NEW d \in Calls PROVE Answers(d)'
    <2>1. Answers(d) /\ Answers(c)
      BY DEF Inv
    <2>2. CASE d = c
      BY <1>1, <1>2, <1>4, <2>1, <2>2 DEF Answers, Clean, Writing, Undoing, Mine
    <2>3. CASE d # c
      BY <1>1, <1>4, <2>1, <2>3 DEF Answers, Mine, CompleteBy
    <2> QED
      BY <2>2, <2>3
  <1>7. Completed'
    BY <1>1, <1>4 DEF Inv, Completed
  <1>8. ASSUME NEW d \in Calls, call'[d].pc \in Releases PROVE ReleasedBy(d)'
    <2>1. Mine(c) = {} \/ c \in broken \union unseen
      BY <1>1 DEF Inv, Answers, Clean, TypeInv
    <2>2. call'[d].pc = "drop" => call'[d].todo = {}
      <3>1. d # c => ReleasedBy(d)
        BY <1>4, <1>8 DEF Inv, Released
      <3> QED
        BY <1>2, <1>4, <3>1 DEF ReleasedBy
    <2>3. ASSUME NEW e \in Calls, call'[e].req = call'[d].req
          PROVE  e \in broken \union unseen \/ Mine(e) \subseteq call'[d].todo
      <3>1. CASE e = c
        BY <2>1, <3>1
      <3>2. CASE e # c /\ d = c
        <4>1. Mine(e) \subseteq ActiveFor(r)
          BY <1>2, <1>4, <2>3, <3>2 DEF Mine, ActiveFor
        <4> QED
          BY <1>2, <1>4, <3>2, <4>1
      <3>3. CASE e # c /\ d # c
        <4>1. ReleasedBy(d) /\ call'[d] = call[d] /\ call'[e] = call[e]
          BY <1>4, <1>8, <3>3 DEF Inv, Released
        <4> QED
          BY <2>3, <4>1 DEF ReleasedBy
      <3> QED
        BY <3>1, <3>2, <3>3
    <2> QED
      BY <1>1, <2>2, <2>3 DEF ReleasedBy, Mine
  <1> QED
    BY <1>5, <1>6, <1>7, <1>8 DEF Inv, Released

LEMMA DropClaimKeeps ==
  ASSUME TypeInv, Inv, NEW c \in Calls, DropClaim(c)
  PROVE  TypeInv' /\ Inv'
  <1> DEFINE r == call[c].req
  <1>1. /\ call[c].pc = "drop" /\ r \in Requests /\ claim' = [claim EXCEPT ![r] = NoClaim]
        /\ overtaken' = overtaken \union
             (IF claim[r].st = "complete" /\ claim[r].by \in unseen THEN {claim[r].by} ELSE {})
        /\ UNCHANGED <<funding, reserved, unseen, broken, faults>>
    BY DEF DropClaim, At, TypeInv
  <1>2. PICK x : Becomes(c, x) /\ x.pc = "over" /\ x.req = r
    <2>1. "over" \in Pcs \ {"new"}
      BY DEF Pcs
    <2> QED
      BY <1>1, <2>1, Moves DEF DropClaim
  <1> HIDE DEF r
  <1>3. /\ call'[c] = x /\ \A d \in Calls \ {c} : call'[d] = call[d]
    BY <1>2 DEF Becomes, TypeInv
  <1>4. /\ claim' \in [Requests -> Claims] /\ claim'[r].st = "none"
        /\ \A q \in Requests \ {r} : claim'[q] = claim[q]
    BY <1>1 DEF TypeInv, NoClaim, Claims
  <1>5. TypeInv'
    BY <1>1, <1>2, <1>4, QuietType DEF TypeInv
  <1>6. \A e \in Calls : call[e].req = r => e \in broken \union unseen \/ Mine(e) = {}
    BY <1>1 DEF Inv, Released, ReleasedBy, Releases, r
  <1>7. ASSUME NEW d \in Calls PROVE Answers(d)'
    <2>1. Answers(d) /\ Answers(c)
      BY DEF Inv
    <2>2. CASE d = c
      <3>1. c \in broken \union overtaken \/ Mine(c) = {}
        BY <1>1, <2>1 DEF Answers, Clean
      <3> QED
        BY <1>1, <1>2, <1>3, <2>2, <3>1 DEF Answers, Clean, Writing, Undoing, Mine
    <2>3. CASE d # c /\ call[d].pc = "over" /\ CompleteBy(call[d].req, d)
      <3>1. CASE call[d].req = r
        <4>1. d \in broken \union overtaken' \/ Mine(d) = {}
          BY <1>1, <1>6, <2>3, <3>1 DEF CompleteBy
        <4> QED
          BY <1>1, <1>3, <2>3, <4>1 DEF Answers, Clean, Writing, Undoing, Mine
      <3>2. CASE call[d].req # r
        <4>1. claim'[call[d].req] = claim[call[d].req] /\ call'[d] = call[d]
          BY <1>3, <1>4, <2>3, <3>2 DEF TypeInv
        <4> QED
          BY <1>1, <2>1, <2>3, <4>1 DEF Answers, CompleteBy, Mine
      <3> QED
        BY <3>1, <3>2
    <2>4. CASE d # c /\ ~(call[d].pc = "over" /\ CompleteBy(call[d].req, d))
      BY <1>1, <1>3, <2>1, <2>4 DEF Answers, Mine
    <2> QED
      BY <2>2, <2>3, <2>4
  <1>8. Completed'
    <2> SUFFICES ASSUME NEW q \in Requests, claim'[q].st = "complete"
                 PROVE  /\ claim'[q].by \in Calls /\ call'[claim'[q].by].req = q
                        /\ call'[claim'[q].by].pc \in {"abandon", "over"}
      BY DEF Completed
    <2>1. /\ claim'[q] = claim[q] /\ claim[q].by \in Calls
          /\ call[claim[q].by].req = q /\ call[claim[q].by].pc \in {"abandon", "over"}
      BY <1>4 DEF Inv, Completed
    <2> QED
      BY <1>1, <1>3, <2>1
  <1>9. ASSUME NEW d \in Calls, call'[d].pc \in Releases PROVE ReleasedBy(d)'
    <2>1. d # c /\ call'[d] = call[d] /\ ReleasedBy(d)
      BY <1>2, <1>3, <1>9 DEF Inv, Released, Releases
    <2>2. \A e \in Calls : call'[e].req = call[e].req
      BY <1>2, <1>3 DEF r
    <2> QED
      BY <1>1, <2>1, <2>2 DEF ReleasedBy, Mine
  <1> QED
    BY <1>5, <1>7, <1>8, <1>9 DEF Inv, Released

-----------------------------------------------------------------------------
(* Steps on the fundings *)

\* A call that writes or voids: the others have no more than they had, and a
\* release keeps in hand what is left.
LEMMA Shift ==
  ASSUME TypeInv, Inv, NEW c \in Calls, NEW x, Becomes(c, x), x.req = call[c].req,
         UNCHANGED <<claim, broken, overtaken>>, unseen \subseteq unseen',
         call[c].pc \notin {"abandon", "over"},
         \A d \in Calls \ {c} : Mine(d)' \subseteq Mine(d),
         Mine(c)' \subseteq Mine(c) \/ c \in unseen' \/ ~Releasing(call[c].req),
         x.pc \in Releases => /\ x.pc = call[c].pc
                              /\ (x.pc = "drop" => x.todo = {})
                              /\ \A d \in Calls : Mine(d) \subseteq call[c].todo
                                                     => Mine(d)' \subseteq x.todo,
         Answers(c)'
  PROVE  Inv'
  <1>1. /\ call'[c] = x /\ \A d \in Calls \ {c} : call'[d] = call[d]
    BY DEF Becomes, TypeInv
  <1>2. ASSUME NEW d \in Calls \ {c} PROVE Answers(d)'
    <2>1. Answers(d) /\ call'[d] = call[d] /\ Mine(d)' \subseteq Mine(d)
      BY <1>1 DEF Inv
    <2> QED
      BY <2>1 DEF Answers, CompleteBy
  <1>3. Completed'
    BY <1>1 DEF Inv, Completed
  <1>4. ASSUME NEW d \in Calls, call'[d].pc \in Releases PROVE ReleasedBy(d)'
    <2>1. /\ call[d].pc \in Releases /\ call'[d].req = call[d].req /\ call'[d].pc = call[d].pc
      BY <1>1, <1>4
    <2>2. ReleasedBy(d)
      BY <2>1 DEF Inv, Released
    <2>3. call'[d].pc = "drop" => call'[d].todo = {}
      BY <1>1, <1>4, <2>1, <2>2 DEF ReleasedBy
    <2>4. ASSUME NEW e \in Calls, call'[e].req = call'[d].req
          PROVE  e \in broken \union unseen' \/ Mine(e)' \subseteq call'[d].todo
      <3>1. call[e].req = call[d].req
        BY <1>1, <2>1, <2>4
      <3>2. e \in broken \union unseen \/ Mine(e) \subseteq call[d].todo
        BY <2>2, <3>1 DEF ReleasedBy
      <3>3. CASE d = c
        BY <1>1, <1>4, <3>2, <3>3
      <3>4. CASE d # c /\ e # c
        BY <1>1, <3>2, <3>4
      <3>5. CASE d # c /\ e = c
        <4>1. Releasing(call[c].req)
          BY <2>1, <3>1, <3>5 DEF Releasing, Releases
        <4> QED
          BY <1>1, <3>2, <3>5, <4>1
      <3> QED
        BY <3>3, <3>4, <3>5
    <2> QED
      BY <2>3, <2>4 DEF ReleasedBy, Mine
  <1> QED
    BY <1>2, <1>3, <1>4 DEF Inv, Released

LEMMA WriteKeeps ==
  ASSUME TypeInv, Inv, NEW c \in Calls, WriteFunding(c)
  PROVE  TypeInv' /\ Inv'
  <1>1. /\ call[c] \in Call /\ call[c].pc = "write" /\ call[c].req \in Requests
        /\ UNCHANGED <<claim, reserved, given, overtaken, robbed, broken, faults>>
        /\ unseen' = IF Releasing(call[c].req) THEN unseen \union {c} ELSE unseen
    BY DEF WriteFunding, At, TypeInv
  <1>2. PICK s \in Sources, st \in {"pending", "active"}, pc \in {"reserve", "write"} :
          /\ funding' = [funding EXCEPT ![<<c, call[c].attempt, s>>] =
                           [amt |-> call[c].plan[s], st |-> st]]
          /\ call' = [call EXCEPT ![c].plan[s] = 0, ![c].pc = pc]
    BY DEF WriteFunding
  <1> DEFINE f == <<c, call[c].attempt, s>>
  <1> DEFINE q == [call[c].plan EXCEPT ![s] = 0]
  <1> DEFINE x == [call[c] EXCEPT !.plan = q, !.pc = pc]
  <1> DEFINE t == [amt |-> call[c].plan[s], st |-> st]
  <1>3. q \in [Sources -> Nat] /\ pc \in Pcs
    BY <1>1 DEF Call, Pcs
  <1>4. x \in Call /\ x.pc = pc /\ x.req = call[c].req /\ x.attempt = call[c].attempt
    <2> HIDE DEF q
    <2> QED
      BY <1>1, <1>3 DEF Call
  <1>5. call' = [call EXCEPT ![c] = x]
    BY <1>2
  <1>6. t \in Tranche /\ f \in Fundings
    BY <1>1 DEF Call, Tranche, Fundings
  <1> HIDE DEF f, x, t
  <1>7. Becomes(c, x)
    BY <1>1, <1>4, <1>5 DEF Becomes
  <1>8. funding' = [funding EXCEPT ![f] = t]
    BY <1>2 DEF f, t
  <1>9. TypeInv'
    <2>1. funding' \in [Fundings -> Tranche]
      BY <1>6, <1>8 DEF TypeInv
    <2> QED
      BY <1>1, <1>7, <2>1, BecomesType DEF TypeInv
  <1>10. f[1] = c /\ f[2] = call[c].attempt
    BY DEF f
  <1>11. \A d \in Calls \ {c} : Mine(d)' \subseteq Mine(d)
    BY <1>8, <1>10 DEF Mine, TypeInv
  <1>12. Mine(c)' \subseteq Mine(c) \union {f}
    BY <1>8, <1>10 DEF Mine, TypeInv
  <1>13. c \in broken \union overtaken \/ \A g \in Mine(c) : g[2] = call[c].attempt
    BY <1>1 DEF Inv, Answers, Writing
  <1>14. call'[c] = x
    BY <1>5 DEF TypeInv
  <1>15. Answers(c)'
    BY <1>1, <1>4, <1>10, <1>12, <1>13, <1>14 DEF Answers, Clean, Writing, Undoing
  <1> QED
    BY <1>1, <1>4, <1>7, <1>9, <1>11, <1>15, Shift DEF Releases

LEMMA ReserveKeeps ==
  ASSUME TypeInv, Inv, NEW c \in Calls, ReserveAndActivate(c)
  PROVE  TypeInv' /\ Inv'
  <1>1. /\ call[c] \in Call /\ call[c].pc = "reserve" /\ call[c].req \in Requests
        /\ UNCHANGED <<claim, given, unseen, overtaken, robbed, broken, faults>>
    BY DEF ReserveAndActivate, At, TypeInv, past
  <1>2. {"write", "undo_error", "undo_conflict"} \subseteq Pcs \ {"new"}
    BY DEF Pcs, Voiding
  <1>3. c \in broken \union overtaken \/ \A g \in Mine(c) : g[2] = call[c].attempt
    BY <1>1 DEF Inv, Answers, Writing
  <1>4. ASSUME NEW pc \in {"undo_error", "undo_conflict"}, Begin(c, pc, OwnRun(c)),
               UNCHANGED <<funding, reserved>>
        PROVE  TypeInv' /\ Inv'
    <2>1. OwnRun(c) \in SUBSET Fundings /\ (c \in broken \union overtaken \/ Mine(c) \subseteq OwnRun(c))
      BY <1>1, OwnRunIsMine DEF Writing
    <2>2. PICK x : Becomes(c, x) /\ x.pc = pc /\ x.req = call[c].req /\ x.todo = OwnRun(c)
      BY <1>1, <1>2, <1>4, <2>1, Moves
    <2>3. AnswersAs(c, x)
      BY <1>1, <2>1, <2>2 DEF AnswersAs, Clean, Writing
    <2> QED
      BY <1>1, <1>4, <2>2, <2>3, CallOnly DEF Releases, TypeInv
  <1>5. ASSUME NEW s \in Investors, WithinLimits(s, funding[<<c, call[c].attempt, s>>].amt),
               funding[<<c, call[c].attempt, s>>].st = "pending", To(c, "write"),
               funding' = [funding EXCEPT ![<<c, call[c].attempt, s>>].st = "active"],
               reserved' = [reserved EXCEPT
                              ![s] = @ + funding[<<c, call[c].attempt, s>>].amt]
        PROVE  TypeInv' /\ Inv'
    <2> DEFINE f == <<c, call[c].attempt, s>>
    <2> DEFINE t == [funding[f] EXCEPT !.st = "active"]
    <2>1. f \in Fundings /\ f[1] = c
      BY <1>1, SourceAssumption DEF Call, Fundings
    <2>2. funding' = [funding EXCEPT ![f] = t] /\ funding[f].st = "pending"
      BY <1>5
    <2>3. WithinLimits(s, funding[f].amt) /\ reserved' = [reserved EXCEPT ![s] = @ + funding[f].amt]
      BY <1>5
    <2> HIDE DEF f
    <2>4. t \in Tranche /\ t.st = "active" /\ funding[f].amt \in Nat
      BY <2>1 DEF TypeInv, Tranche
    <2> HIDE DEF t
    <2>5. PICK x : /\ Becomes(c, x) /\ x.pc = "write" /\ x.req = call[c].req
                   /\ x.attempt = call[c].attempt
      BY <1>1, <1>2, <1>5, Moves
    <2>6. reserved' \in [Investors -> Nat] /\ \A i \in Investors : reserved'[i] <= Balance[i]
      <3>1. /\ reserved[s] \in Nat /\ Balance[s] \in Nat
            /\ reserved[s] + funding[f].amt <= Balance[s]
        BY <2>3, <2>4, SourceAssumption DEF TypeInv, WithinLimits
      <3> QED
        BY <2>3, <2>4, <3>1 DEF TypeInv
    <2>7. TypeInv'
      <3>1. funding' \in [Fundings -> Tranche]
        BY <2>1, <2>2, <2>4 DEF TypeInv
      <3> QED
        BY <1>1, <2>5, <2>6, <3>1, BecomesType DEF TypeInv
    <2>8. \A d \in Calls : Mine(d)' = Mine(d)
      <3>1. funding[f].st # "none" /\ funding'[f].st # "none"
        BY <2>1, <2>2, <2>4 DEF TypeInv
      <3>2. \A g \in Fundings \ {f} : funding'[g] = funding[g]
        BY <2>2 DEF TypeInv
      <3> QED
        BY <3>1, <3>2 DEF Mine
    <2>9. call'[c] = x
      BY <2>5 DEF Becomes, TypeInv
    <2>10. Answers(c)'
      BY <1>1, <1>3, <2>5, <2>8, <2>9 DEF Answers, Clean, Writing, Undoing
    <2> QED
      BY <1>1, <2>5, <2>7, <2>8, <2>10, Shift DEF Releases
  <1> DEFINE waiting == {s \in Investors : funding[<<c, call[c].attempt, s>>].st = "pending"}
  <1>6. CASE waiting = {}
    <2>1. Begin(c, "undo_error", OwnRun(c)) /\ UNCHANGED <<funding, reserved>>
      BY <1>6 DEF ReserveAndActivate
    <2> QED
      BY <1>4, <2>1
  <1>7. CASE waiting # {}
    <2>1. PICK s \in waiting :
            LET f == <<c, call[c].attempt, s>> IN
            IF WithinLimits(s, funding[f].amt)
              THEN /\ funding' = [funding EXCEPT ![f].st = "active"]
                   /\ reserved' = [reserved EXCEPT ![s] = @ + funding[f].amt]
                   /\ To(c, "write")
              ELSE /\ Begin(c, "undo_conflict", OwnRun(c))
                   /\ UNCHANGED <<funding, reserved>>
      BY <1>7 DEF ReserveAndActivate
    <2>2. CASE WithinLimits(s, funding[<<c, call[c].attempt, s>>].amt)
      BY <1>5, <2>1, <2>2
    <2>3. CASE ~WithinLimits(s, funding[<<c, call[c].attempt, s>>].amt)
      <3>1. Begin(c, "undo_conflict", OwnRun(c)) /\ UNCHANGED <<funding, reserved>>
        BY <2>1, <2>3
      <3> QED
        BY <1>4, <3>1
    <2> QED
      BY <2>2, <2>3
  <1> QED
    BY <1>6, <1>7

LEMMA VoidKeeps ==
  ASSUME TypeInv, Inv, NEW c \in Calls, VoidAndRelease(c)
  PROVE  TypeInv' /\ Inv'
  <1>1. /\ call[c] \in Call /\ call[c].pc \in Voiding
        /\ UNCHANGED <<claim, given, unseen, overtaken, broken, faults>>
    BY DEF VoidAndRelease, At, TypeInv
  <1>2. call[c].pc \notin {"new", "abandon", "over", "drop"} /\ call[c].req \in Requests
    BY <1>1 DEF Voiding, TypeInv
  <1>3. PICK f \in call[c].todo :
          /\ funding' = [funding EXCEPT ![f] = Nothing] /\ GiveBack(f)
          /\ call' = [call EXCEPT ![c].todo = @ \ {f}]
    BY DEF VoidAndRelease
  <1> DEFINE x == [call[c] EXCEPT !.todo = @ \ {f}]
  <1>4. /\ x \in Call /\ x.pc = call[c].pc /\ x.req = call[c].req /\ f \in Fundings
        /\ x.attempt = call[c].attempt /\ x.todo = call[c].todo \ {f}
    BY <1>1 DEF Call
  <1>5. call' = [call EXCEPT ![c] = x]
    BY <1>3
  <1> HIDE DEF x
  <1>6. Becomes(c, x) /\ call'[c] = x
    BY <1>2, <1>4, <1>5 DEF Becomes, TypeInv
  <1>7. Nothing \in Tranche /\ Nothing.st = "none"
    BY DEF Nothing, Tranche
  <1>8. reserved' \in [Investors -> Nat] /\ \A i \in Investors : reserved'[i] <= Balance[i]
    <2>1. CASE reserved' = reserved
      BY <2>1 DEF TypeInv
    <2>2. CASE reserved' # reserved
      <3>1. /\ f[3] \in Investors /\ reserved[f[3]] >= funding[f].amt
            /\ reserved' = [reserved EXCEPT ![f[3]] = @ - funding[f].amt]
        BY <1>3, <2>2 DEF GiveBack
      <3>2. funding[f].amt \in Nat /\ reserved[f[3]] \in Nat /\ Balance[f[3]] \in Nat
        BY <1>4, <3>1, SourceAssumption DEF TypeInv, Tranche
      <3>3. /\ reserved[f[3]] - funding[f].amt \in Nat
            /\ reserved[f[3]] - funding[f].amt <= reserved[f[3]]
        BY <3>1, <3>2
      <3>4. reserved[f[3]] - funding[f].amt <= Balance[f[3]]
        BY <3>1, <3>2, <3>3 DEF TypeInv
      <3> QED
        BY <3>1, <3>3, <3>4 DEF TypeInv
    <2> QED
      BY <2>1, <2>2
  <1>9. TypeInv'
    <2>1. funding' \in [Fundings -> Tranche]
      BY <1>3, <1>4, <1>7 DEF TypeInv
    <2> QED
      BY <1>1, <1>6, <1>8, <2>1, BecomesType DEF TypeInv
  <1>10. \A d \in Calls : Mine(d)' \subseteq Mine(d) \ {f}
    BY <1>3, <1>4, <1>7 DEF Mine, TypeInv
  <1>11. Answers(c)'
    <2>1. Answers(c) /\ call[c].pc \notin Writing
      BY <1>1 DEF Inv, Voiding, Writing
    <2> QED
      BY <1>1, <1>2, <1>4, <1>6, <1>10, <2>1 DEF Answers
  <1> QED
    BY <1>1, <1>2, <1>4, <1>6, <1>9, <1>10, <1>11, Shift

-----------------------------------------------------------------------------
(* The theorems *)

LEMMA InitInv == Init => Inv
  <1> SUFFICES ASSUME Init PROVE Inv
    OBVIOUS
  <1>1. \A c \in Calls : call[c].pc = "new" /\ Mine(c) = {}
    BY DEF Init, Fresh, Mine, Nothing
  <1>2. \A r \in Requests : claim[r].st = "none"
    BY DEF Init, NoClaim
  <1> QED
    BY <1>1, <1>2 DEF Inv, Answers, Completed, Released, Writing, Undoing, Releases

LEMMA NextKeeps == TypeInv /\ Inv /\ [Next]_vars => TypeInv' /\ Inv'
  <1> SUFFICES ASSUME TypeInv, Inv, [Next]_vars PROVE TypeInv' /\ Inv'
    OBVIOUS
  <1>1. ASSUME NEW c \in Calls, Step(c) PROVE TypeInv' /\ Inv'
    <2>1. ASSUME NEW r \in Requests, Claim(c, r) \/ StartRelease(c, r)
          PROVE  TypeInv' /\ Inv'
      BY <2>1, ClaimKeeps, StartReleaseKeeps
    <2>2. CASE ReadLeftovers(c) \/ Plan(c)
      BY <2>2, ReadPlanKeeps
    <2>3. CASE PersistFails(c) \/ Written(c)
      BY <2>3, WritingKeeps
    <2>4. CASE Complete(c) \/ CompleteUnconfirmed(c)
      BY <2>4, CompleteKeeps
    <2>5. CASE Abandon(c) \/ ReleaseHeld(c)
      BY <2>5, AbandonKeeps, ReleaseHeldKeeps
    <2>6. CASE DropClaim(c) \/ Voided(c)
      BY <2>6, DropClaimKeeps, VoidedKeeps
    <2>7. CASE VoidFails(c) \/ Die(c)
      BY <2>7, FailureKeeps
    <2>8. CASE WriteFunding(c) \/ ReserveAndActivate(c) \/ VoidAndRelease(c)
      BY <2>8, WriteKeeps, ReserveKeeps, VoidKeeps
    <2> QED
      BY <1>1, <2>1, <2>2, <2>3, <2>4, <2>5, <2>6, <2>7, <2>8 DEF Step
  <1>2. CASE UNCHANGED vars
    <2>1. TypeInv'
      BY <1>2 DEF vars, past, TypeInv
    <2>2. \A c \in Calls : Answers(c)' /\ (call[c].pc \in Releases => ReleasedBy(c)')
      <3>1. ASSUME NEW c \in Calls PROVE Answers(c)'
        BY <1>2 DEF vars, past, Inv, Answers, Mine, CompleteBy
      <3>2. ASSUME NEW c \in Calls, call[c].pc \in Releases PROVE ReleasedBy(c)'
        <4>1. ReleasedBy(c)
          BY <3>2 DEF Inv, Released
        <4> QED
          BY <1>2, <4>1 DEF vars, past, ReleasedBy, Mine
      <3> QED
        BY <3>1, <3>2
    <2>3. Completed'
      BY <1>2 DEF vars, Inv, Completed
    <2> QED
      BY <1>2, <2>1, <2>2, <2>3 DEF Inv, Released, vars
  <1> QED
    BY <1>1, <1>2 DEF Next

\* The shape the proofs use is the one the runs check.
LEMMA TypeHolds == TypeInv => TypeOK
  <1> SUFFICES ASSUME TypeInv PROVE TypeOK
    OBVIOUS
  <1>1. \A i \in Investors : reserved[i] \in 0..Balance[i]
    BY SourceAssumption DEF TypeInv
  <1>2. \A f \in Fundings : funding[f].st \in {"none", "pending", "active"}
    BY DEF TypeInv, Tranche
  <1>3. \A c \in Calls : call[c].pc \in Pcs /\ call[c].todo \subseteq Fundings
    BY DEF TypeInv, Call
  <1> QED
    BY <1>1, <1>2, <1>3 DEF TypeOK, TypeInv, Claims

\* Whatever calls reserve, void, take over or release at once, rows and calls
\* keep their shape and no investor is lent beyond the balance
\* (loan_funding_repo.go: ReserveAndActivate, VoidAndRelease).
THEOREM InvestorsNotOverlent == Spec => []TypeOK
  BY TypeHolds, InitType, InitInv, NextKeeps, PTL DEF Spec

\* For any number of requests, of allocations and releases that overlap in any way, of
\* attempts and faults, capital that is tied up belongs to a call under way or to the run
\* that completed its claim, unless a fault kept it from being given back or a release
\* dropped the complete claim of a run it had not read in full
\* (funding_allocation.go:187-194, :280-286, :1043-1065).
THEOREM CapitalIsAnsweredFor == Spec => []NothingIsLeftBehind
  <1>1. TypeInv /\ Inv => NothingIsLeftBehind
    <2> SUFFICES ASSUME TypeInv, Inv, NEW f \in Fundings, funding[f].st # "none",
                        f[1] \notin broken \union overtaken, call[f[1]].pc = "over"
                 PROVE  CompleteBy(call[f[1]].req, f[1])
      BY DEF NothingIsLeftBehind, CompleteBy
    <2>1. f[1] \in Calls /\ f \in Mine(f[1])
      BY DEF Fundings, Mine
    <2> QED
      BY <2>1 DEF Inv, Answers
  <1> QED
    BY <1>1, InitType, InitInv, NextKeeps, PTL DEF Spec

-----------------------------------------------------------------------------
(* What the fundings add up to *)

Run(c) == {f \in Fundings : f[1] = c}
Active(i) == {f \in Fundings : f[3] = i /\ funding[f].st = "active"}
Amt == [f \in Fundings |-> funding[f].amt]
\* Only funding f may have changed.
Only(f) == \A g \in Fundings \ {f} : funding'[g] = funding[g]

\* There are finitely many fundings: a call writes one per source and attempt.
LEMMA FundingsFinite == IsFiniteSet(Fundings)
  <1> DEFINE Q == (Calls \X (1..MaxAttempts)) \X Sources
             F == [q \in Q |-> <<q[1][1], q[1][2], q[2]>>]
  <1>1. IsFiniteSet(1..MaxAttempts)
    BY FS_Interval, BoundAssumption
  <1>2. IsFiniteSet(Calls \X (1..MaxAttempts))
    BY <1>1, FS_Product, SourceAssumption
  <1>3. IsFiniteSet(Q)
    BY <1>2, FS_Product, SourceAssumption
  <1>4. F \in [Q -> Fundings]
    BY DEF Fundings
  <1>5. ASSUME NEW f \in Fundings PROVE \E q \in Q : F[q] = f
    <2>1. PICK c \in Calls, n \in 1..MaxAttempts, s \in Sources : f = <<c, n, s>>
      BY <1>5 DEF Fundings
    <2>2. <<<<c, n>>, s>> \in Q /\ F[<<<<c, n>>, s>>] = f
      BY <2>1
    <2> QED
      BY <2>2
  <1>6. F \in Surjection(Q, Fundings)
    BY <1>4, <1>5 DEF Surjection
  <1> QED
    BY <1>3, <1>6, FS_Surjection

\* Any set of fundings is finite, and its amounts are amounts.
LEMMA LentIsATotal ==
  ASSUME TypeInv, NEW S \in SUBSET Fundings
  PROVE  IsFiniteSet(S) /\ Amounts(Amt, S) /\ Whole(Amt, S) /\ Lent(S) = Total(Amt, S)
  <1>1. IsFiniteSet(S)
    BY FundingsFinite, FS_Subset
  <1>2. \A f \in S : Amt[f] \in Nat
    BY DEF TypeInv, Tranche, Amt
  <1> QED
    BY <1>1, <1>2 DEF Amounts, Whole, Lent, Amt

\* What a set of fundings comes to changes only by those in it.
LEMMA LentElsewhere ==
  ASSUME TypeInv, TypeInv', NEW S \in SUBSET Fundings, NEW f \in Fundings, f \notin S, Only(f)
  PROVE  Lent(S)' = Lent(S)
  <1>1. SameOn(Amt', Amt, S)
    BY DEF SameOn, Only, Amt
  <1>2. Total(Amt', S) = Total(Amt, S)
    BY <1>1, LentIsATotal, TotalSame
  <1> QED
    BY <1>2 DEF Lent, Amt

\* One of them may change: the sum follows.
LEMMA LentChanges ==
  ASSUME TypeInv, TypeInv', NEW S \in SUBSET Fundings, NEW f \in S, Only(f)
  PROVE  Lent(S)' = Lent(S) - funding[f].amt + funding'[f].amt
  <1>1. SameOn(Amt, Amt', S \ {f})
    BY DEF SameOn, Only, Amt
  <1>2. Amt[f] = funding[f].amt /\ Amt'[f] = funding'[f].amt /\ funding'[f].amt \in Int
    BY DEF Amt, TypeInv, Tranche
  <1>3. Total(Amt', S) = Total(Amt, S) - Amt[f] + Amt'[f]
    BY <1>1, <1>2, LentIsATotal, TotalUpdate
  <1> QED
    BY <1>2, <1>3 DEF Lent, Amt

\* One funding more, or less.
LEMMA LentWithout ==
  ASSUME TypeInv, NEW S \in SUBSET Fundings, NEW f \in S
  PROVE  Lent(S) = funding[f].amt + Lent(S \ {f}) /\ Lent(S \ {f}) \in Nat
  <1>1. Amt[f] = funding[f].amt
    BY DEF Amt
  <1>2. IsFiniteSet(S) /\ Whole(Amt, S) /\ Lent(S) = Total(Amt, S)
    BY LentIsATotal
  <1>3. Total(Amt, S) = Amt[f] + Total(Amt, S \ {f})
    BY <1>2, TotalRemove
  <1>4. S \ {f} \in SUBSET Fundings
    OBVIOUS
  <1>5. /\ IsFiniteSet(S \ {f}) /\ Amounts(Amt, S \ {f})
        /\ Lent(S \ {f}) = Total(Amt, S \ {f})
    BY <1>4, LentIsATotal
  <1>6. Total(Amt, S \ {f}) \in Nat
    BY <1>5, TotalPart
  <1> QED
    BY <1>1, <1>2, <1>3, <1>5, <1>6

-----------------------------------------------------------------------------
(* What a complete claim rests on *)

Entry == {"new", "leftovers", "void_old", "plan"}
Planning == {"write", "reserve"}
Settled(c) == \A f \in Mine(c) : funding[f].st # "pending"

\* A call that is yet to plan has nothing; one that writes has, of this attempt alone,
\* what its plan no longer lists; before it plans anew, all it has is still to void.
Tidy(c, x) ==
  /\ x.pc \in Entry => Mine(c) = {}
  /\ x.pc \in Planning => \A f \in Mine(c) : f[2] = x.attempt /\ x.plan[f[3]] = 0
  /\ x.pc = "undo_conflict" => Mine(c) \subseteq x.todo

\* At most one tranche waits for its capital, and none once another is written.
Activated(c, x) ==
  /\ x.pc \in {"write", "complete", "abandon"} => Settled(c)
  /\ x.pc = "reserve" =>
       \A f, g \in Mine(c) : funding[f].st = "pending" /\ funding[g].st = "pending" => f = g

\* Leftovers and cancelled fundings are those of other calls for the request.
Listed(c, x) ==
  \A f \in x.todo :
    /\ x.pc \in {"void_old", "void_cancel"} =>
         f[1] # c /\ call[f[1]].pc # "new" /\ call[f[1]].req = x.req
    /\ x.pc \in Undoing => f[1] = c

\* What the holder of claim k has written, with what it has yet to write, is the loan.
Covers(c, x, k) ==
  x.pc # "new" /\ k.by = c /\ k.st \in {"allocating", "complete"} /\ c \notin given \union robbed =>
    /\ x.pc \in Planning /\ x.full => Total(x.plan, Sources) + Lent(Run(c)) = Loan[x.req]
    /\ x.pc = "complete" => Lent(Run(c)) = Loan[x.req]
    /\ k.st = "complete" => Lent(Run(c)) = Loan[x.req] /\ Settled(c)

Blank == \A f \in Fundings : funding[f].st = "none" => funding[f] = Nothing
Counted == \A i \in Investors : reserved[i] = Lent(Active(i))
Funded(c, x, k) == Tidy(c, x) /\ Activated(c, x) /\ Listed(c, x) /\ Covers(c, x, k)
Begun(c) == call[c].pc \in Releases => \A f \in call[c].todo : f[1] \in given

FundsInv ==
  /\ Blank /\ Counted
  /\ \A c \in Calls : Funded(c, call[c], claim[call[c].req]) /\ Begun(c)

\* No claim but that of call c is written, if not dropped.
Leased(c) ==
  \A r \in Requests : claim'[r] = claim[r] \/ claim'[r].by = c \/ claim'[r].st = "none"

\* A step that touches no funding keeps FundsInv when the call that takes it does.
LEMMA Hold ==
  ASSUME TypeInv, Inv, FundsInv, NEW c \in Calls, NEW x, Becomes(c, x),
         funding' = funding, reserved' = reserved, robbed' = robbed, given \subseteq given',
         x.pc # "new", call[c].pc # "new" => x.req = call[c].req,
         Leased(c), NEW k, k = claim'[x.req], Funded(c, x, k),
         x.pc \in Releases => \A f \in x.todo : f[1] \in given'
  PROVE  FundsInv'
  <1>1. /\ call'[c] = x /\ \A d \in Calls \ {c} : call'[d] = call[d]
        /\ \A d : Mine(d)' = Mine(d) /\ Settled(d)' = Settled(d)
        /\ \A d : Lent(Run(d))' = Lent(Run(d))
    BY DEF Becomes, TypeInv, Mine, Settled, Lent, Run
  <1>2. Blank' /\ Counted'
    BY DEF FundsInv, Blank, Counted, Lent, Active
  <1>3. ASSUME NEW d \in Calls, NEW y, y.todo \subseteq Fundings, Listed(d, y)
        PROVE  Listed(d, y)'
    <2>1. ASSUME NEW f \in y.todo, call[f[1]].pc # "new"
          PROVE  call'[f[1]].pc # "new" /\ call'[f[1]].req = call[f[1]].req
      <3>1. f[1] \in Calls
        BY <1>3 DEF Fundings
      <3> QED
        BY <1>1, <2>1, <3>1
    <2> QED
      BY <1>3, <2>1 DEF Listed
  <1>4. /\ x.todo \subseteq Fundings
        /\ \A d \in Calls : call[d].todo \subseteq Fundings
    BY DEF Becomes, TypeInv, Call
  <1>5. ASSUME NEW d \in Calls PROVE Funded(d, call[d], claim[call[d].req])' /\ Begun(d)'
    <2>1. CASE d = c
      <3>1. Listed(c, x)'
        BY <1>3, <1>4 DEF Funded
      <3> QED
        BY <1>1, <2>1, <3>1 DEF Funded, Tidy, Activated, Covers, Begun
    <2>2. CASE d # c
      <3> PICK y, q, h : y = call[d] /\ q = claim[y.req] /\ h = claim'[y.req]
        OBVIOUS
      <3>1. call'[d] = y /\ Funded(d, y, q) /\ Begun(d)
        BY <1>1, <2>2 DEF FundsInv
      <3>2. Listed(d, y)'
        BY <1>3, <1>4, <3>1 DEF Funded
      <3>3. Tidy(d, y)' /\ Activated(d, y)'
        BY <1>1, <3>1 DEF Funded, Tidy, Activated
      <3>4. y.pc = "new" \/ h = q \/ h.by = c \/ h.st = "none"
        BY DEF TypeInv, Leased
      <3>5. Covers(d, y, h)'
        BY <1>1, <2>2, <3>1, <3>4 DEF Funded, Covers
      <3>6. Begun(d)'
        BY <1>1, <2>2, <3>1 DEF Begun
      <3> QED
        BY <1>1, <3>1, <3>2, <3>3, <3>5, <3>6 DEF Funded
    <2> QED
      BY <2>1, <2>2
  <1> QED
    BY <1>2, <1>5 DEF FundsInv

-----------------------------------------------------------------------------
(* Steps that touch no funding *)

\* A call that neither abandons its run nor is over has completed no claim.
LEMMA NotDone ==
  ASSUME TypeInv, Inv, NEW c \in Calls, call[c].pc \notin {"abandon", "over"},
         NEW r \in Requests, claim[r].by = c
  PROVE  claim[r].st # "complete"
  BY DEF Inv, Completed

\* A call that holds as much as before, elsewhere.
LEMMA CoversStays ==
  ASSUME TypeInv, Inv, FundsInv, NEW c \in Calls, call[c].pc # "new",
         NEW x, x.req = call[c].req, x.pc \notin Planning \union {"complete"}
  PROVE  Covers(c, x, claim[x.req])
  BY DEF FundsInv, Funded, Covers

\* A call claims a request with nothing written.
LEMMA ClaimFunds ==
  ASSUME TypeInv, Inv, FundsInv, NEW c \in Calls, NEW r \in Requests, Claim(c, r)
  PROVE  FundsInv'
  <1> DEFINE x == [call[c] EXCEPT !.req = r, !.pc = "leftovers"]
  <1> DEFINE k == [st |-> "allocating", by |-> c]
  <1>1. call[c] \in Call /\ call[c].pc = "new" /\ "leftovers" \in Pcs
    BY DEF Claim, At, TypeInv, Pcs
  <1>2. x \in Call /\ x.pc = "leftovers" /\ x.req = r
    BY <1>1 DEF Call
  <1>3. Becomes(c, x)
    BY <1>2 DEF Becomes, Claim
  <1>4. claim' = [claim EXCEPT ![r] = k] /\ k.by = c /\ k.st = "allocating"
    BY DEF Claim
  <1> HIDE DEF x, k
  <1>5. Leased(c)
    BY <1>4 DEF Leased, TypeInv
  <1>6. Tidy(c, x) /\ Activated(c, x) /\ Listed(c, x)
    BY <1>1, <1>2 DEF FundsInv, Funded, Tidy, Activated, Listed, Entry, Planning, Undoing
  <1>7. Covers(c, x, k)
    BY <1>2, <1>4 DEF Covers, Planning
  <1>8. k = claim'[x.req]
    BY <1>2, <1>4 DEF TypeInv
  <1> QED
    BY <1>1, <1>2, <1>3, <1>5, <1>6, <1>7, <1>8, Hold DEF Claim, Funded, Releases, past

\* What is active for a request is other calls' when the reader has nothing.
LEMMA OthersAreActive ==
  ASSUME TypeInv, FundsInv, NEW c \in Calls, Mine(c) = {}, NEW r,
         NEW f \in ActiveFor(r)
  PROVE  f[1] # c /\ call[f[1]].pc # "new" /\ call[f[1]].req = r
  <1>1. f \in Fundings /\ f[1] \in Calls /\ funding[f].st # "none" /\ call[f[1]].req = r
    BY DEF ActiveFor, Fundings
  <1>2. f \in Mine(f[1])
    BY <1>1 DEF Mine
  <1>3. call[f[1]].pc # "new"
    BY <1>1, <1>2 DEF FundsInv, Funded, Tidy, Entry
  <1> QED
    BY <1>1, <1>2, <1>3

\* The leftovers are other calls' fundings.
LEMMA ReadLeftoversFunds ==
  ASSUME TypeInv, Inv, FundsInv, NEW c \in Calls, ReadLeftovers(c)
  PROVE  FundsInv'
  <1>1. call[c].pc = "leftovers" /\ call[c].req \in Requests
    BY DEF ReadLeftovers, At, TypeInv
  <1>2. PICK x : /\ Becomes(c, x) /\ x.pc = "void_old" /\ x.req = call[c].req
                 /\ x.todo = ActiveFor(call[c].req)
    <2>1. ActiveFor(call[c].req) \in SUBSET Fundings /\ "void_old" \in Pcs \ {"new"}
      BY DEF ActiveFor, Pcs, Voiding
    <2> QED
      BY <1>1, <2>1, Moves DEF ReadLeftovers
  <1>3. Mine(c) = {}
    BY <1>1 DEF FundsInv, Funded, Tidy, Entry
  <1>4. Tidy(c, x) /\ Activated(c, x)
    BY <1>2, <1>3 DEF Tidy, Activated, Planning
  <1>5. Listed(c, x)
    BY <1>2, <1>3, OthersAreActive DEF Listed, Undoing
  <1>6. Covers(c, x, claim[x.req])
    BY <1>1, <1>2, CoversStays DEF Planning
  <1>7. Leased(c)
    BY DEF Leased, ReadLeftovers
  <1> QED
    BY <1>1, <1>2, <1>4, <1>5, <1>6, <1>7, Hold DEF ReadLeftovers, Funded, Releases, past

\* A call with nothing has lent nothing.
LEMMA NothingLent ==
  ASSUME TypeInv, FundsInv, NEW c \in Calls, Mine(c) = {}
  PROVE  Lent(Run(c)) = 0
  <1>1. \A f \in Run(c) : Amt[f] = 0
    BY DEF Run, Mine, FundsInv, Blank, Nothing, Amt
  <1>2. Run(c) \in SUBSET Fundings
    BY DEF Run
  <1> QED
    BY <1>1, <1>2, LentIsATotal, TotalNone

\* A full plan comes to the loan.
LEMMA PlanFunds ==
  ASSUME TypeInv, Inv, FundsInv, NEW c \in Calls, Plan(c)
  PROVE  FundsInv'
  <1>1. call[c] \in Call /\ call[c].pc = "plan" /\ call[c].req \in Requests
    BY DEF Plan, At, TypeInv
  <1> PICK want : want = Loan[call[c].req]
    OBVIOUS
  <1>2. PICK p \in [Sources -> 0..want], b \in BOOLEAN :
          /\ b => Total(p, Sources) = want
          /\ call' = [call EXCEPT ![c].pc = "write", ![c].plan = p, ![c].full = b]
    BY DEF Plan
  <1>3. p \in [Sources -> Nat]
    BY <1>1, BoundAssumption
  <1> DEFINE x == [call[c] EXCEPT !.pc = "write", !.plan = p, !.full = b]
  <1>4. x \in Call /\ x.pc = "write" /\ x.req = call[c].req /\ x.plan = p /\ x.full = b
    BY <1>1, <1>3 DEF Call, Pcs
  <1>5. call' = [call EXCEPT ![c] = x]
    BY <1>2
  <1> HIDE DEF x
  <1>6. Becomes(c, x)
    BY <1>1, <1>4, <1>5 DEF Becomes
  <1>7. Mine(c) = {}
    BY <1>1 DEF FundsInv, Funded, Tidy, Entry
  <1>8. Tidy(c, x) /\ Activated(c, x) /\ Listed(c, x)
    BY <1>4, <1>7 DEF Tidy, Activated, Settled, Listed, Entry, Undoing
  <1>9. Covers(c, x, claim[x.req])
    <2>1. claim[x.req].by = c => claim[x.req].st # "complete"
      BY <1>1, <1>4, NotDone
    <2>2. b => Total(x.plan, Sources) + Lent(Run(c)) = Loan[x.req]
      <3>1. Lent(Run(c)) = 0 /\ want \in Nat
        BY <1>1, <1>7, NothingLent, BoundAssumption
      <3> QED
        BY <1>2, <1>4, <3>1
    <2> QED
      BY <1>4, <2>1, <2>2 DEF Covers
  <1>10. Leased(c)
    BY DEF Leased, Plan
  <1> QED
    BY <1>1, <1>4, <1>6, <1>8, <1>9, <1>10, Hold DEF Plan, Funded, Releases, past

\* A step of the call alone, to a place where it writes nothing.
LEMMA Onwards ==
  ASSUME TypeInv, Inv, FundsInv, NEW c \in Calls, call[c].pc # "new",
         NEW x, Becomes(c, x), x.req = call[c].req,
         UNCHANGED <<claim, funding, reserved, given, robbed>>,
         x.pc \notin Planning \union {"complete", "new"},
         Tidy(c, x), Activated(c, x), Listed(c, x),
         x.pc \in Releases => call[c].pc \in Releases /\ x.todo \subseteq call[c].todo
  PROVE  FundsInv'
  <1>1. Covers(c, x, claim[x.req])
    BY CoversStays
  <1>2. Leased(c)
    BY DEF Leased
  <1>3. x.pc \in Releases => \A f \in x.todo : f[1] \in given'
    BY DEF FundsInv, Begun
  <1> QED
    BY <1>1, <1>2, <1>3, Hold DEF Funded

\* A call that turns to void what its attempt wrote.
LEMMA UndoFunds ==
  ASSUME TypeInv, Inv, FundsInv, NEW c \in Calls, call[c].pc \in Writing,
         NEW pc \in Undoing, Begin(c, pc, OwnRun(c)),
         UNCHANGED <<claim, funding, reserved, given, robbed>>,
         pc = "undo_conflict" => call[c].pc = "reserve"
  PROVE  FundsInv'
  <1>1. OwnRun(c) \in SUBSET Fundings /\ Undoing \subseteq Pcs \ {"new"} /\ call[c].pc # "new"
    BY DEF OwnRun, Pcs, Voiding, Undoing, Writing
  <1>2. PICK x : /\ Becomes(c, x) /\ x.pc = pc /\ x.req = call[c].req /\ x.todo = OwnRun(c)
    BY <1>1, Moves
  <1>3. pc = "undo_conflict" => Mine(c) \subseteq OwnRun(c)
    BY DEF FundsInv, Funded, Tidy, Planning, OwnRun, Mine
  <1>4. Tidy(c, x) /\ Activated(c, x)
    BY <1>2, <1>3 DEF Tidy, Activated, Entry, Planning, Undoing
  <1>5. Listed(c, x)
    BY <1>2 DEF Listed, OwnRun, Undoing
  <1> QED
    BY <1>1, <1>2, <1>4, <1>5, Onwards DEF Planning, Undoing, Releases

\* A call that returns, its claim as it was.
LEMMA ReturnFunds ==
  ASSUME TypeInv, Inv, FundsInv, NEW c \in Calls, call[c].pc # "new", Return(c),
         UNCHANGED <<claim, funding, reserved, given, robbed>>
  PROVE  FundsInv'
  <1>1. "over" \in Pcs \ {"new"}
    BY DEF Pcs
  <1>2. PICK x : Becomes(c, x) /\ x.pc = "over" /\ x.req = call[c].req /\ x.todo = {}
    BY <1>1, Moves
  <1>3. Tidy(c, x) /\ Activated(c, x) /\ Listed(c, x)
    BY <1>2 DEF Tidy, Activated, Listed, Entry, Planning
  <1> QED
    BY <1>2, <1>3, Onwards DEF Planning, Releases

\* What is written in full is the loan.
LEMMA WrittenFunds ==
  ASSUME TypeInv, Inv, FundsInv, NEW c \in Calls, Written(c)
  PROVE  FundsInv'
  <1>1. /\ call[c] \in Call /\ call[c].pc = "write" /\ call[c].req \in Requests
        /\ \A s \in Sources : call[c].plan[s] = 0
    BY DEF Written, At, TypeInv
  <1>2. {"complete", "abandon"} \subseteq Pcs \ {"new"}
    BY DEF Pcs
  <1>3. PICK x : /\ Becomes(c, x) /\ x.pc = (IF call[c].full THEN "complete" ELSE "abandon")
                 /\ x.req = call[c].req /\ x.todo = call[c].todo
    BY <1>1, <1>2, Moves DEF Written
  <1>4. Settled(c)
    BY <1>1 DEF FundsInv, Funded, Activated
  <1>5. Tidy(c, x) /\ Activated(c, x) /\ Listed(c, x)
    BY <1>3, <1>4 DEF Tidy, Activated, Listed, Entry, Planning, Undoing
  <1>6. Covers(c, x, claim[x.req])
    <2>1. claim[x.req].by = c => claim[x.req].st # "complete"
      BY <1>1, <1>3, NotDone
    <2>2. Total(call[c].plan, Sources) = 0
      BY <1>1, SourceAssumption, TotalNone
    <2>3. Run(c) \in SUBSET Fundings
      BY DEF Run
    <2>4. Lent(Run(c)) \in Nat
      BY <2>3, LentIsATotal, TotalPart
    <2>5. Covers(c, call[c], claim[x.req])
      BY <1>3 DEF FundsInv, Funded
    <2> QED
      BY <1>1, <1>3, <2>1, <2>2, <2>4, <2>5 DEF Covers, Planning
  <1>7. Leased(c)
    BY DEF Leased, Written
  <1> QED
    BY <1>1, <1>3, <1>5, <1>6, <1>7, Hold DEF Written, Funded, Releases, past

\* The claim of the call's request, under its lease, takes a new status.
LEMMA SetClaimLeased ==
  ASSUME TypeInv, Inv, NEW c \in Calls, call[c].req \in Requests, Holds(c, {"allocating"}),
         NEW st, SetClaim(c, st)
  PROVE  Leased(c) /\ claim'[call[c].req].by = c /\ claim'[call[c].req].st = st
  <1>1. /\ claim'[call[c].req].by = c /\ claim'[call[c].req].st = st
        /\ \A r \in Requests : r # call[c].req => claim'[r] = claim[r]
    BY DEF SetClaim, TypeInv, Claims, Holds
  <1> QED
    BY <1>1 DEF Leased

\* A call completes its claim, or does without knowing.
LEMMA SetCompleteFunds ==
  ASSUME TypeInv, Inv, FundsInv, NEW c \in Calls, call[c].pc = "complete",
         Holds(c, {"allocating"}), SetClaim(c, "complete"), Return(c) \/ To(c, "abandon"),
         UNCHANGED <<funding, reserved, given, robbed>>
  PROVE  FundsInv'
  <1>1. call[c].req \in Requests /\ {"abandon", "over"} \subseteq Pcs \ {"new"}
    BY DEF TypeInv, Pcs
  <1>2. PICK x : /\ Becomes(c, x) /\ x.pc \in {"over", "abandon"} /\ x.req = call[c].req
                 /\ x.todo = {} \/ x.todo = call[c].todo
    BY <1>1, Moves
  <1>3. Settled(c)
    BY DEF FundsInv, Funded, Activated
  <1>4. Tidy(c, x) /\ Activated(c, x) /\ Listed(c, x)
    BY <1>2, <1>3 DEF Tidy, Activated, Listed, Entry, Planning, Undoing
  <1>5. Leased(c)
    BY <1>1, SetClaimLeased
  <1>6. Covers(c, x, claim'[x.req])
    <2>1. Covers(c, call[c], claim[call[c].req])
      BY DEF FundsInv, Funded
    <2> QED
      BY <1>2, <1>3, <2>1 DEF Covers, Planning, Holds
  <1> QED
    BY <1>2, <1>4, <1>5, <1>6, Hold DEF Funded, Releases

\* A completed claim rests on the loan; a lost one is given back.
LEMMA CompleteFunds ==
  ASSUME TypeInv, Inv, FundsInv, NEW c \in Calls, Complete(c) \/ CompleteUnconfirmed(c)
  PROVE  FundsInv'
  <1>1. call[c].pc = "complete" /\ UNCHANGED <<funding, reserved, given, robbed>>
    BY DEF Complete, CompleteUnconfirmed, At, past
  <1>2. CASE Complete(c) /\ Holds(c, {"allocating"})
    BY <1>1, <1>2, SetCompleteFunds DEF Complete
  <1>3. CASE Complete(c) /\ ~Holds(c, {"allocating"})
    BY <1>1, <1>3, UndoFunds DEF Complete, Writing, Undoing
  <1>4. CASE CompleteUnconfirmed(c)
    <2>1. CASE Holds(c, {"allocating"}) /\ SetClaim(c, "complete")
      BY <1>1, <1>4, <2>1, SetCompleteFunds DEF CompleteUnconfirmed
    <2>2. CASE UNCHANGED claim
      <3>1. "abandon" \in Pcs \ {"new"}
        BY DEF Pcs
      <3>2. PICK x : /\ Becomes(c, x) /\ x.pc = "abandon" /\ x.req = call[c].req
                     /\ x.todo = call[c].todo
        BY <1>1, <1>4, <3>1, Moves DEF CompleteUnconfirmed
      <3>3. Settled(c)
        BY <1>1 DEF FundsInv, Funded, Activated
      <3>4. Tidy(c, x) /\ Activated(c, x) /\ Listed(c, x)
        BY <3>2, <3>3 DEF Tidy, Activated, Listed, Entry, Planning, Undoing
      <3> QED
        BY <1>1, <2>2, <3>2, <3>4, Onwards DEF Planning, Releases
    <2> QED
      BY <1>4, <2>1, <2>2 DEF CompleteUnconfirmed
  <1> QED
    BY <1>2, <1>3, <1>4

\* A run is abandoned, stands, or is found lost.
LEMMA AbandonFunds ==
  ASSUME TypeInv, Inv, FundsInv, NEW c \in Calls, Abandon(c)
  PROVE  FundsInv'
  <1>1. /\ call[c].pc = "abandon" /\ call[c].req \in Requests
        /\ UNCHANGED <<funding, reserved, given, robbed>>
    BY DEF Abandon, At, TypeInv, past
  <1>2. ~(Holds(c, {"allocating"}) /\ Holds(c, {"complete"}))
    BY DEF Holds
  <1>3. CASE Holds(c, {"allocating"})
    <2>1. SetClaim(c, "abandoning") /\ Begin(c, "void_run", OwnRun(c))
      BY <1>2, <1>3 DEF Abandon
    <2>2. OwnRun(c) \in SUBSET Fundings /\ "void_run" \in Pcs \ {"new"}
      BY DEF OwnRun, Pcs, Voiding
    <2>3. PICK x : Becomes(c, x) /\ x.pc = "void_run" /\ x.req = call[c].req /\ x.todo = OwnRun(c)
      BY <1>1, <2>1, <2>2, Moves
    <2>4. Tidy(c, x) /\ Activated(c, x) /\ Listed(c, x)
      BY <2>3 DEF Tidy, Activated, Listed, OwnRun, Entry, Planning
    <2>5. Leased(c) /\ claim'[x.req].st = "abandoning"
      BY <1>1, <1>3, <2>1, <2>3, SetClaimLeased
    <2>6. Covers(c, x, claim'[x.req])
      BY <2>5 DEF Covers
    <2> QED
      BY <1>1, <2>3, <2>4, <2>5, <2>6, Hold DEF Funded, Releases
  <1>4. CASE Holds(c, {"complete"})
    BY <1>1, <1>2, <1>4, ReturnFunds DEF Abandon
  <1>5. CASE ~Holds(c, {"allocating"}) /\ ~Holds(c, {"complete"})
    <2>1. Begin(c, "void_lost", OwnRun(c)) /\ UNCHANGED claim
      BY <1>5 DEF Abandon
    <2> QED
      BY <1>1, <2>1, UndoFunds DEF Writing, Undoing
  <1> QED
    BY <1>3, <1>4, <1>5

\* A call that drops a claim is over.
LEMMA DroppedFunds ==
  ASSUME TypeInv, Inv, FundsInv, NEW c \in Calls, call[c].pc # "new", Return(c),
         claim' = [claim EXCEPT ![call[c].req] = NoClaim],
         UNCHANGED <<funding, reserved, given, robbed>>, Leased(c)
  PROVE  FundsInv'
  <1>1. "over" \in Pcs \ {"new"} /\ call[c].req \in Requests
    BY DEF Pcs, TypeInv
  <1>2. PICK x : Becomes(c, x) /\ x.pc = "over" /\ x.req = call[c].req /\ x.todo = {}
    BY <1>1, Moves
  <1>3. Tidy(c, x) /\ Activated(c, x) /\ Listed(c, x)
    BY <1>2 DEF Tidy, Activated, Listed, Entry, Planning
  <1>4. claim'[x.req].st = "none"
    BY <1>1, <1>2 DEF TypeInv, NoClaim
  <1>5. Covers(c, x, claim'[x.req])
    BY <1>4 DEF Covers
  <1> QED
    BY <1>2, <1>3, <1>5, Hold DEF Funded, Releases

\* A claim is dropped by the call that holds it.
LEMMA ReleaseHeldFunds ==
  ASSUME TypeInv, Inv, FundsInv, NEW c \in Calls, ReleaseHeld(c)
  PROVE  FundsInv'
  <1>1. /\ call[c].pc = "release" /\ call[c].req \in Requests /\ Return(c)
        /\ UNCHANGED <<funding, reserved, given, robbed>>
    BY DEF ReleaseHeld, At, TypeInv, past
  <1>2. CASE Holds(c, {"allocating", "abandoning"})
    <2>1. claim' = [claim EXCEPT ![call[c].req] = NoClaim]
      BY <1>2 DEF ReleaseHeld
    <2>2. Leased(c)
      BY <1>1, <2>1 DEF Leased, NoClaim, TypeInv
    <2> QED
      BY <1>1, <2>1, <2>2, DroppedFunds
  <1>3. CASE ~Holds(c, {"allocating", "abandoning"})
    BY <1>1, <1>3, ReturnFunds DEF ReleaseHeld
  <1> QED
    BY <1>2, <1>3

\* A claim is dropped by a release, whoever holds it.
LEMMA DropClaimFunds ==
  ASSUME TypeInv, Inv, FundsInv, NEW c \in Calls, DropClaim(c)
  PROVE  FundsInv'
  <1>1. /\ call[c].pc = "drop" /\ call[c].req \in Requests /\ Return(c)
        /\ claim' = [claim EXCEPT ![call[c].req] = NoClaim]
        /\ UNCHANGED <<funding, reserved, given, robbed>>
    BY DEF DropClaim, At, TypeInv
  <1>2. Leased(c)
    BY <1>1 DEF Leased, NoClaim, TypeInv
  <1> QED
    BY <1>1, <1>2, DroppedFunds

\* A release begins to give back what it read for the request.
LEMMA StartReleaseFunds ==
  ASSUME TypeInv, Inv, FundsInv, NEW c \in Calls, NEW r \in Requests, StartRelease(c, r)
  PROVE  FundsInv'
  <1> DEFINE x == [call[c] EXCEPT !.req = r, !.pc = "void_cancel", !.todo = ActiveFor(r)]
  <1>1. /\ call[c] \in Call /\ call[c].pc = "new"
        /\ given' = given \union {f[1] : f \in ActiveFor(r)}
        /\ UNCHANGED <<claim, funding, reserved, robbed>>
    BY DEF StartRelease, At, TypeInv
  <1>2. x \in Call /\ x.pc = "void_cancel" /\ x.req = r /\ x.todo = ActiveFor(r)
    <2>1. ActiveFor(r) \in SUBSET Fundings /\ "void_cancel" \in Pcs
      BY DEF ActiveFor, Pcs, Voiding
    <2> QED
      BY <1>1, <2>1 DEF Call
  <1>3. Becomes(c, x)
    BY <1>2 DEF Becomes, StartRelease
  <1> HIDE DEF x
  <1>4. Mine(c) = {}
    BY <1>1 DEF FundsInv, Funded, Tidy, Entry
  <1>5. Tidy(c, x) /\ Activated(c, x) /\ Listed(c, x)
    BY <1>2, <1>4, OthersAreActive DEF Tidy, Activated, Listed, Planning, Undoing
  <1>6. claim[r].by = c => claim[r].st # "complete"
    BY <1>1, NotDone
  <1>7. Covers(c, x, claim[r])
    BY <1>2, <1>6 DEF Covers, Planning
  <1>8. Leased(c)
    BY <1>1 DEF Leased
  <1> QED
    BY <1>1, <1>2, <1>3, <1>5, <1>7, <1>8, Hold DEF Funded

\* What follows once all is voided.
LEMMA VoidedFunds ==
  ASSUME TypeInv, Inv, FundsInv, NEW c \in Calls, Voided(c)
  PROVE  FundsInv'
  <1>1. /\ call[c] \in Call /\ call[c].pc \in Voiding /\ call[c].todo = {}
        /\ UNCHANGED <<claim, funding, reserved, given, robbed>>
    BY DEF Voided, At, Voiding, TypeInv, past
  <1>2. call[c].pc # "new" /\ call[c].req \in Requests
    BY <1>1 DEF Voiding, TypeInv
  <1>3. {"plan", "release", "over", "drop"} \subseteq Pcs \ {"new"}
    BY DEF Pcs
  <1>4. PICK x : /\ Becomes(c, x) /\ x.pc \in {"plan", "release", "over", "drop"}
                 /\ x.req = call[c].req /\ x.todo = {}
                 /\ x.pc = "plan" => call[c].pc \in {"void_old", "undo_conflict"}
                 /\ x.pc = "drop" => call[c].pc = "void_cancel"
    <2>1. CASE At(c, "undo_conflict") /\ call[c].attempt < MaxAttempts
      <3> DEFINE y == [call[c] EXCEPT !.pc = "plan", !.attempt = @ + 1,
                                      !.plan = [s \in Sources |-> 0]]
      <3>1. call' = [call EXCEPT ![c] = y]
        BY <2>1 DEF Voided, At
      <3>2. y \in Call /\ y.pc = "plan" /\ y.req = call[c].req /\ y.todo = {}
        <4>1. call[c].attempt + 1 \in 1..MaxAttempts
          BY <1>1, <2>1, BoundAssumption DEF Call
        <4>2. [s \in Sources |-> 0] \in [Sources -> Nat]
          OBVIOUS
        <4> QED
          BY <1>1, <1>3, <4>1, <4>2 DEF Call
      <3> QED
        BY <1>2, <2>1, <3>1, <3>2 DEF Becomes, At
    <2>2. CASE ~(At(c, "undo_conflict") /\ call[c].attempt < MaxAttempts)
      <3>1. \/ To(c, "plan") /\ call[c].pc = "void_old"
            \/ To(c, "release")
            \/ Return(c)
            \/ To(c, "drop") /\ call[c].pc = "void_cancel"
        BY <2>2 DEF Voided, At
      <3> QED
        BY <1>1, <1>2, <1>3, <3>1, Moves
    <2> QED
      BY <2>1, <2>2
  <1>5. x.pc = "plan" => Mine(c) = {}
    BY <1>1, <1>4 DEF FundsInv, Funded, Tidy, Entry
  <1>6. Tidy(c, x) /\ Activated(c, x) /\ Listed(c, x)
    BY <1>4, <1>5 DEF Tidy, Activated, Listed, Entry, Planning
  <1> QED
    BY <1>1, <1>2, <1>4, <1>6, Onwards DEF Planning, Releases

\* A fault writes no funding.
LEMMA FailureFunds ==
  ASSUME TypeInv, Inv, FundsInv, NEW c \in Calls, PersistFails(c) \/ VoidFails(c) \/ Die(c)
  PROVE  FundsInv'
  <1>1. /\ call[c].pc # "new" /\ UNCHANGED <<claim, funding, reserved, given, robbed>>
    BY DEF PersistFails, VoidFails, Die, At, past
  <1>2. CASE PersistFails(c)
    BY <1>1, <1>2, UndoFunds DEF PersistFails, At, Writing, Undoing
  <1>3. CASE Begin(c, "release", {})
    <2>1. "release" \in Pcs \ {"new"} /\ {} \in SUBSET Fundings
      BY DEF Pcs
    <2>2. PICK x : Becomes(c, x) /\ x.pc = "release" /\ x.req = call[c].req /\ x.todo = {}
      BY <1>1, <1>3, <2>1, Moves
    <2>3. Tidy(c, x) /\ Activated(c, x) /\ Listed(c, x)
      BY <2>2 DEF Tidy, Activated, Listed, Entry, Planning
    <2> QED
      BY <1>1, <2>2, <2>3, Onwards DEF Planning, Releases
  <1>4. CASE Return(c)
    BY <1>1, <1>4, ReturnFunds
  <1>5. VoidFails(c) => Begin(c, "release", {}) \/ Return(c)
    BY DEF VoidFails, Begin
  <1> QED
    BY <1>2, <1>3, <1>4, <1>5 DEF Die

-----------------------------------------------------------------------------
(* Steps on the fundings *)

\* Funding f, which call o wrote, changes; no other call's does.
LEMMA OthersKeep ==
  ASSUME TypeInv, FundsInv, NEW f \in Fundings, Only(f), NEW d \in Calls, d # f[1]
  PROVE  Mine(d)' = Mine(d) /\ Settled(d)' = Settled(d)
  <1>1. \A g \in Fundings : g[1] = d => funding'[g] = funding[g]
    BY DEF Only
  <1>2. Mine(d)' = Mine(d)
    BY <1>1 DEF Mine
  <1> QED
    BY <1>1, <1>2 DEF Settled, Mine

\* A step on one funding that leaves the claims as they are: it keeps FundsInv when the
\* call that takes it does, the one whose funding it is, and the accounts.
LEMMA Touch ==
  ASSUME TypeInv, TypeInv', Inv, FundsInv, NEW c \in Calls, NEW x, Becomes(c, x),
         NEW f \in Fundings, Only(f), claim' = claim, given' = given, robbed \subseteq robbed',
         x.pc = call[c].pc \/ x.pc \notin Releases,
         x.pc # "new", call[c].pc # "new", x.req = call[c].req, x.todo \subseteq call[c].todo,
         Blank', Counted', Listed(c, x),
         Tidy(c, x)', Activated(c, x)', Covers(c, x, claim[x.req])',
         NEW o \in Calls, o = f[1],
         o # c => /\ Tidy(o, call[o])' /\ Activated(o, call[o])'
                  /\ Covers(o, call[o], claim[call[o].req])'
  PROVE  FundsInv'
  <1>1. /\ call'[c] = x /\ \A d \in Calls \ {c} : call'[d] = call[d]
    BY DEF Becomes, TypeInv
  <1>2. ASSUME NEW d \in Calls, NEW y, y.todo \subseteq Fundings, Listed(d, y)
        PROVE  Listed(d, y)'
    <2>1. ASSUME NEW g \in y.todo, call[g[1]].pc # "new"
          PROVE  call'[g[1]].pc # "new" /\ call'[g[1]].req = call[g[1]].req
      <3>1. g[1] \in Calls
        BY <1>2 DEF Fundings
      <3> QED
        BY <1>1, <2>1, <3>1
    <2> QED
      BY <1>2, <2>1 DEF Listed
  <1>3. /\ x.todo \subseteq Fundings
        /\ \A d \in Calls : call[d].todo \subseteq Fundings
    BY DEF Becomes, TypeInv, Call
  <1>4. ASSUME NEW d \in Calls PROVE Funded(d, call[d], claim[call[d].req])' /\ Begun(d)'
    <2> PICK y, q : y = call'[d] /\ q = claim[y.req]
      OBVIOUS
    <2>1. Funded(d, call[d], claim[call[d].req]) /\ Begun(d)
      BY DEF FundsInv
    <2>2. Listed(d, y)'
      BY <1>1, <1>2, <1>3, <2>1 DEF Funded
    <2>3. Begun(d)'
      BY <1>1, <2>1 DEF Begun
    <2>4. Tidy(d, y)' /\ Activated(d, y)' /\ Covers(d, y, q)'
      <3>1. CASE d = c
        BY <1>1, <3>1
      <3>2. CASE d # c /\ d = o
        BY <1>1, <3>2
      <3>3. CASE d # c /\ d # o
        <4>1. Mine(d)' = Mine(d) /\ Settled(d)' = Settled(d)
          BY <3>3, OthersKeep
        <4>2. \A g \in Mine(d) : funding'[g] = funding[g]
          BY <3>3 DEF Only, Mine
        <4>3. Lent(Run(d))' = Lent(Run(d))
          <5>1. Run(d) \in SUBSET Fundings /\ f \notin Run(d)
            BY <3>3 DEF Run
          <5> QED
            BY <5>1, LentElsewhere DEF Run
        <4> QED
          BY <1>1, <2>1, <3>3, <4>1, <4>2, <4>3 DEF Funded, Tidy, Activated, Covers
      <3> QED
        BY <3>1, <3>2, <3>3
    <2> QED
      BY <2>2, <2>3, <2>4 DEF Funded
  <1> QED
    BY <1>4 DEF FundsInv

\* The capital of an account's active tranches, when one that is not among them changes.
LEMMA CountedStays ==
  ASSUME TypeInv, TypeInv', FundsInv, NEW f \in Fundings, Only(f), reserved' = reserved,
         \A i \in Investors : f \notin Active(i) /\ f \notin Active(i)'
  PROVE  Counted'
  <1> SUFFICES ASSUME NEW i \in Investors PROVE reserved'[i] = Lent(Active(i))'
    BY DEF Counted
  <1>1. f \notin Active(i) /\ f \notin Active(i)'
    OBVIOUS
  <1>2. Active(i)' = Active(i)
    BY <1>1 DEF Active, Only
  <1> PICK S \in SUBSET Fundings : S = Active(i)
    BY DEF Active
  <1>3. Lent(S)' = Lent(S)
    BY <1>1, LentElsewhere
  <1>4. Lent(Active(i))' = Lent(S)'
    BY <1>2 DEF Lent
  <1> QED
    BY <1>3, <1>4 DEF FundsInv, Counted

\* A funding takes over what the plan lists for its source.
LEMMA WriteFunds ==
  ASSUME TypeInv, Inv, FundsInv, NEW c \in Calls, WriteFunding(c)
  PROVE  FundsInv'
  <1>0. TypeInv'
    BY WriteKeeps
  <1>1. /\ call[c] \in Call /\ call[c].pc = "write" /\ call[c].req \in Requests
        /\ UNCHANGED <<claim, reserved, given, robbed>>
    BY DEF WriteFunding, At, TypeInv
  <1>2. PICK s \in Sources, st \in {"pending", "active"}, pc \in {"reserve", "write"} :
          /\ call[c].plan[s] > 0
          /\ st = "pending" => pc = "reserve"
          /\ st = "active" => pc = "write" /\ s \notin Investors
          /\ funding' = [funding EXCEPT ![<<c, call[c].attempt, s>>] =
                           [amt |-> call[c].plan[s], st |-> st]]
          /\ call' = [call EXCEPT ![c].plan[s] = 0, ![c].pc = pc]
    <2>1. PICK s \in Sources :
            /\ call[c].plan[s] > 0
            /\ funding' = [funding EXCEPT ![<<c, call[c].attempt, s>>] =
                 [amt |-> call[c].plan[s],
                  st |-> IF s \in Investors THEN "pending" ELSE "active"]]
            /\ call' = [call EXCEPT ![c].plan[s] = 0,
                          ![c].pc = IF s \in Investors THEN "reserve" ELSE "write"]
      BY DEF WriteFunding
    <2>2. CASE s \in Investors
      BY <2>1, <2>2
    <2>3. CASE s \notin Investors
      BY <2>1, <2>3
    <2> QED
      BY <2>2, <2>3
  <1> PICK f, q, t : /\ f = <<c, call[c].attempt, s>>
                     /\ q = [call[c].plan EXCEPT ![s] = 0]
                     /\ t = [amt |-> call[c].plan[s], st |-> st]
    OBVIOUS
  <1> PICK x : x = [call[c] EXCEPT !.plan = q, !.pc = pc]
    OBVIOUS
  <1>3. /\ q \in [Sources -> Nat] /\ pc \in Pcs /\ q[s] = 0
        /\ \A z \in Sources \ {s} : q[z] = call[c].plan[z]
    BY <1>1 DEF Call, Pcs
  <1> PICK p \in [Sources -> Nat] : p = call[c].plan
    BY <1>1 DEF Call
  <1>4. /\ x \in Call /\ x.pc = pc /\ x.req = call[c].req /\ x.attempt = call[c].attempt
        /\ x.plan = q /\ x.full = call[c].full /\ x.todo = call[c].todo
    BY <1>1, <1>3 DEF Call
  <1>5. call' = [call EXCEPT ![c] = x]
    BY <1>2
  <1>6. /\ f \in Fundings /\ f[1] = c /\ f[2] = call[c].attempt /\ f[3] = s
        /\ t.amt = p[s] /\ t.st = st
    BY <1>1 DEF Call, Fundings
  <1>7. Becomes(c, x)
    BY <1>1, <1>4, <1>5 DEF Becomes
  <1>8. Only(f) /\ funding'[f] = t
    <2>1. funding' = [funding EXCEPT ![f] = t]
      BY <1>2
    <2> QED
      BY <1>6, <2>1 DEF TypeInv, Only
  <1>9. Tidy(c, call[c]) /\ Settled(c) /\ Listed(c, call[c]) /\ Covers(c, call[c], claim[x.req])
    BY <1>1, <1>4 DEF FundsInv, Funded, Activated
  <1>10. f \notin Mine(c) /\ funding[f].st = "none" /\ funding[f].amt = 0
    <2>1. f \notin Mine(c)
      BY <1>1, <1>2, <1>6, <1>9 DEF Tidy, Planning
    <2>2. funding[f].st = "none"
      BY <1>6, <2>1 DEF Mine
    <2> QED
      BY <1>6, <2>1, <2>2 DEF FundsInv, Blank, Nothing
  <1>11. /\ Mine(c)' = Mine(c) \union {f}
         /\ \A g \in Mine(c) : g # f /\ funding'[g] = funding[g]
    BY <1>2, <1>6, <1>8, <1>10 DEF Mine, Only
  <1>12. Blank'
    BY <1>2, <1>6, <1>8 DEF FundsInv, Blank, Only, Nothing
  <1>13. Counted'
    <2>1. \A i \in Investors : f \notin Active(i) /\ f \notin Active(i)'
      BY <1>2, <1>6, <1>8, <1>10 DEF Active
    <2> QED
      BY <1>0, <1>1, <1>6, <1>8, <2>1, CountedStays
  <1>14. Tidy(c, x)'
    <2>1. ASSUME NEW g \in Mine(c) PROVE g[2] = call[c].attempt /\ q[g[3]] = 0
      <3>1. g[2] = call[c].attempt /\ call[c].plan[g[3]] = 0
        BY <1>1, <1>9 DEF Tidy, Planning
      <3>2. g[3] \in Sources
        BY DEF Mine, Fundings
      <3> QED
        BY <1>3, <3>1, <3>2
    <2>2. \A g \in Mine(c)' : g[2] = x.attempt /\ x.plan[g[3]] = 0
      BY <1>3, <1>4, <1>6, <1>11, <2>1
    <2>3. x.pc \in Planning
      BY <1>4 DEF Planning
    <2> QED
      BY <2>2, <2>3 DEF Tidy, Planning, Entry
  <1>15. Activated(c, x)'
    <2>1. \A g \in Mine(c) : funding'[g].st # "pending"
      BY <1>9, <1>11 DEF Settled
    <2>2. CASE st = "active"
      BY <1>2, <1>4, <1>6, <1>8, <1>11, <2>1, <2>2 DEF Activated, Settled
    <2>3. CASE st = "pending"
      <3>1. x.pc = "reserve"
        BY <1>2, <1>4, <2>3
      <3>2. \A g \in Mine(c)' : funding'[g].st = "pending" => g = f
        BY <1>11, <2>1
      <3> QED
        BY <3>1, <3>2 DEF Activated
    <2> QED
      BY <2>2, <2>3
  <1>16. Covers(c, x, claim[x.req])'
    <2>1. claim[x.req].by = c => claim[x.req].st # "complete"
      BY <1>1, <1>4, NotDone
    <2>2. Lent(Run(c))' = Lent(Run(c)) + p[s] /\ Lent(Run(c)) \in Nat
      <3>1. Run(c) \in SUBSET Fundings /\ f \in Run(c)
        BY <1>6 DEF Run
      <3>2. Lent(Run(c))' = Lent(Run(c)) - funding[f].amt + funding'[f].amt
        <4> PICK R \in SUBSET Fundings : R = Run(c)
          BY <3>1
        <4>1. Lent(R)' = Lent(R) - funding[f].amt + funding'[f].amt
          BY <1>0, <1>8, <3>1, LentChanges
        <4> QED
          BY <4>1 DEF Run
      <3>3. Lent(Run(c)) \in Nat
        BY <3>1, LentIsATotal, TotalPart
      <3> QED
        BY <1>6, <1>8, <1>10, <3>2, <3>3
    <2>3. Total(q, Sources) = Total(p, Sources) - p[s] /\ Total(p, Sources) \in Nat
      <3>1. Whole(p, Sources) /\ Amounts(p, Sources) /\ SameOn(p, q, Sources \ {s})
        BY <1>3 DEF Whole, Amounts, SameOn
      <3>2. Total(q, Sources) = Total(p, Sources) - p[s] + q[s]
        BY <1>3, <3>1, SourceAssumption, TotalUpdate
      <3>3. Total(p, Sources) \in Nat
        BY <3>1, SourceAssumption, TotalPart
      <3> QED
        BY <1>3, <3>2, <3>3
    <2>4. p[s] \in Nat
      OBVIOUS
    <2>5. Total(q, Sources) + Lent(Run(c))' = Total(p, Sources) + Lent(Run(c))
      BY <2>2, <2>3, <2>4
    <2>6. Total(x.plan, Sources) = Total(q, Sources)
      BY <1>4
    <2>7. x.pc \in Planning /\ call[c].pc \in Planning /\ x.pc # "complete" /\ call[c].pc # "new"
      BY <1>1, <1>4 DEF Planning
    <2>8. call[c].plan = p /\ x.req = call[c].req /\ x.full = call[c].full /\ x.plan = q
      BY <1>4
    <2>9. ASSUME claim[x.req].by = c, claim[x.req].st \in {"allocating", "complete"},
                 c \notin given \union robbed, x.full
          PROVE  Total(x.plan, Sources) + Lent(Run(c))' = Loan[x.req]
      <3>1. Total(p, Sources) + Lent(Run(c)) = Loan[x.req]
        BY <1>9, <2>7, <2>8, <2>9 DEF Covers
      <3> QED
        BY <2>5, <2>8, <3>1
    <2>10. given' = given /\ robbed' = robbed /\ claim' = claim
      BY <1>1
    <2> PICK k : k = claim[x.req]
      OBVIOUS
    <2>11. Covers(c, x, k)'
      BY <2>1, <2>7, <2>9, <2>10 DEF Covers
    <2> QED
      BY <2>10, <2>11
  <1>17. Listed(c, x)
    BY <1>1, <1>2, <1>4, <1>9 DEF Listed, Undoing
  <1>18. /\ x.pc \notin Releases /\ x.pc # "new" /\ call[c].pc # "new"
         /\ x.req = call[c].req /\ x.todo \subseteq call[c].todo
    BY <1>1, <1>2, <1>4 DEF Releases
  <1>19. claim' = claim /\ given' = given /\ robbed \subseteq robbed' /\ f \in Fundings /\ f[1] = c
    BY <1>1, <1>6
  <1>20. Only(f)
    BY <1>8
  <1> QED
    BY <1>0, <1>7, <1>12, <1>13, <1>14, <1>15, <1>16, <1>17, <1>18, <1>19, <1>20, Touch

\* A funding whose amount stays changes no sum.
LEMMA LentStays ==
  ASSUME TypeInv, TypeInv', NEW f \in Fundings, Only(f), funding'[f].amt = funding[f].amt,
         NEW S \in SUBSET Fundings
  PROVE  Lent(S)' = Lent(S)
  <1>1. SameOn(Amt', Amt, S)
    BY DEF SameOn, Only, Amt
  <1>2. Total(Amt', S) = Total(Amt, S)
    BY <1>1, LentIsATotal, TotalSame
  <1> QED
    BY <1>2 DEF Lent, Amt

\* A tranche turns active with its capital.
LEMMA ActivateFunds ==
  ASSUME TypeInv, TypeInv', Inv, FundsInv, NEW c \in Calls, call[c].pc = "reserve", To(c, "write"),
         NEW f \in Fundings, f[1] = c, f[3] \in Investors, Only(f), funding[f].st = "pending",
         funding'[f].st = "active", funding'[f].amt = funding[f].amt,
         reserved'[f[3]] = reserved[f[3]] + funding[f].amt,
         \A i \in Investors \ {f[3]} : reserved'[i] = reserved[i],
         UNCHANGED <<claim, given, robbed>>
  PROVE  FundsInv'
  <1>1. /\ call[c] \in Call /\ call[c].req \in Requests /\ "write" \in Pcs \ {"new"}
    BY DEF TypeInv, Pcs
  <1>2. PICK x : /\ Becomes(c, x) /\ x.pc = "write" /\ x.req = call[c].req
                 /\ x.attempt = call[c].attempt /\ x.todo = call[c].todo
                 /\ x.plan = call[c].plan /\ x.full = call[c].full
    BY <1>1, Moves
  <1>3. /\ Tidy(c, call[c]) /\ Activated(c, call[c]) /\ Listed(c, call[c])
        /\ Covers(c, call[c], claim[x.req])
    BY <1>2 DEF FundsInv, Funded
  <1>4. Blank'
    BY DEF FundsInv, Blank, Only
  <1>5. Counted'
    <2> SUFFICES ASSUME NEW i \in Investors PROVE reserved'[i] = Lent(Active(i))'
      BY DEF Counted
    <2> PICK S \in SUBSET Fundings, T \in SUBSET Fundings : S = Active(i) /\ T = Active(i)'
      BY DEF Active
    <2>1. Lent(Active(i))' = Lent(T)' /\ reserved[i] = Lent(S)
      BY DEF Lent, FundsInv, Counted
    <2>2. Lent(T)' = Lent(T)
      BY LentStays
    <2>3. CASE i = f[3]
      <3>1. f \in T /\ T \ {f} = S
        BY <2>3 DEF Active, Only
      <3>2. Lent(T) = funding[f].amt + Lent(S) /\ Lent(S) \in Nat
        BY <3>1, LentWithout
      <3>3. funding[f].amt \in Nat
        BY DEF TypeInv, Tranche
      <3> QED
        BY <2>1, <2>2, <2>3, <3>2, <3>3
    <2>4. CASE i # f[3]
      <3>1. T = S
        BY <2>4 DEF Active, Only
      <3> QED
        BY <2>1, <2>2, <2>4, <3>1
    <2> QED
      BY <2>3, <2>4
  <1>6. Mine(c)' = Mine(c) /\ f \in Mine(c)
    BY DEF Mine, Only
  <1>7. Tidy(c, x)'
    BY <1>2, <1>3, <1>6 DEF Tidy, Entry, Planning
  <1>8. Activated(c, x)'
    <2>1. \A g \in Mine(c) : g # f => funding[g].st # "pending"
      BY <1>3, <1>6 DEF Activated
    <2>2. \A g \in Mine(c)' : funding'[g].st # "pending"
      BY <1>6, <2>1 DEF Only, Mine
    <2> QED
      BY <1>2, <2>2 DEF Activated, Settled
  <1>9. Listed(c, x)
    BY <1>2 DEF Listed, Undoing
  <1>10. Covers(c, x, claim[x.req])'
    <2> PICK k : k = claim[x.req]
      OBVIOUS
    <2>1. k.by = c => k.st # "complete"
      BY <1>1, <1>2, NotDone
    <2>2. Run(c) \in SUBSET Fundings
      BY DEF Run
    <2>3. Lent(Run(c))' = Lent(Run(c))
      <3> PICK R \in SUBSET Fundings : R = Run(c)
        BY <2>2
      <3>1. Lent(R)' = Lent(R)
        BY LentStays
      <3> QED
        BY <3>1 DEF Run
    <2>4. Covers(c, x, k)'
      BY <1>2, <1>3, <2>1, <2>3 DEF Covers, Planning
    <2> QED
      BY <2>4
  <1>11. /\ x.pc \notin Releases /\ x.pc # "new" /\ call[c].pc # "new" /\ x.todo \subseteq call[c].todo
    BY <1>2 DEF Releases
  <1>12. Becomes(c, x) /\ x.req = call[c].req
    BY <1>2
  <1>13. claim' = claim /\ given' = given /\ robbed \subseteq robbed'
    OBVIOUS
  <1> QED
    BY <1>4, <1>5, <1>7, <1>8, <1>9, <1>10, <1>11, <1>12, <1>13, Touch

\* A tranche gets its capital, or the attempt is given back.
LEMMA ReserveFunds ==
  ASSUME TypeInv, Inv, FundsInv, NEW c \in Calls, ReserveAndActivate(c)
  PROVE  FundsInv'
  <1>1. /\ call[c] \in Call /\ call[c].pc = "reserve" /\ TypeInv'
        /\ UNCHANGED <<claim, given, robbed>>
    BY ReserveKeeps DEF ReserveAndActivate, At, TypeInv, past
  <1>2. ASSUME NEW pc \in {"undo_error", "undo_conflict"}, Begin(c, pc, OwnRun(c)),
               UNCHANGED <<funding, reserved>>
        PROVE  FundsInv'
    BY <1>1, <1>2, UndoFunds DEF Writing, Undoing
  <1>3. ASSUME NEW s \in Investors, NEW f, f = <<c, call[c].attempt, s>>,
               funding[f].st = "pending", To(c, "write"),
               funding' = [funding EXCEPT ![f].st = "active"],
               reserved' = [reserved EXCEPT ![s] = @ + funding[f].amt]
        PROVE  FundsInv'
    <2>1. f \in Fundings /\ f[1] = c /\ f[3] = s
      BY <1>1, <1>3, SourceAssumption DEF Call, Fundings
    <2>2. Only(f) /\ funding'[f].st = "active" /\ funding'[f].amt = funding[f].amt
      BY <1>3, <2>1 DEF Only, TypeInv, Tranche
    <2>3. /\ reserved'[f[3]] = reserved[f[3]] + funding[f].amt
          /\ \A i \in Investors \ {f[3]} : reserved'[i] = reserved[i]
      BY <1>3, <2>1 DEF TypeInv
    <2> QED
      BY <1>1, <1>3, <2>1, <2>2, <2>3, ActivateFunds
  <1> DEFINE waiting == {s \in Investors : funding[<<c, call[c].attempt, s>>].st = "pending"}
  <1>4. CASE waiting = {}
    <2>1. Begin(c, "undo_error", OwnRun(c)) /\ UNCHANGED <<funding, reserved>>
      BY <1>4 DEF ReserveAndActivate
    <2> QED
      BY <1>2, <2>1
  <1>5. CASE waiting # {}
    <2>1. PICK s \in waiting :
            LET f == <<c, call[c].attempt, s>> IN
            IF WithinLimits(s, funding[f].amt)
              THEN /\ funding' = [funding EXCEPT ![f].st = "active"]
                   /\ reserved' = [reserved EXCEPT ![s] = @ + funding[f].amt]
                   /\ To(c, "write")
              ELSE /\ Begin(c, "undo_conflict", OwnRun(c))
                   /\ UNCHANGED <<funding, reserved>>
      BY <1>5 DEF ReserveAndActivate
    <2> PICK f : f = <<c, call[c].attempt, s>>
      OBVIOUS
    <2>2. CASE WithinLimits(s, funding[f].amt)
      BY <1>3, <2>1, <2>2
    <2>3. CASE ~WithinLimits(s, funding[f].amt)
      BY <1>2, <2>1, <2>3
    <2> QED
      BY <2>2, <2>3
  <1> QED
    BY <1>4, <1>5

\* A funding is voided and its capital given back.
LEMMA GivenBack ==
  ASSUME TypeInv, TypeInv', FundsInv, NEW f \in Fundings, Only(f), funding'[f] = Nothing,
         GiveBack(f)
  PROVE  Counted'
  <1>1. funding[f].amt \in Nat /\ Nothing.st = "none"
    BY DEF TypeInv, Tranche, Nothing
  <1>2. CASE f[3] \in Investors /\ funding[f].st = "active"
    <2> SUFFICES ASSUME NEW i \in Investors PROVE reserved'[i] = Lent(Active(i))'
      BY DEF Counted
    <2> PICK S \in SUBSET Fundings, T \in SUBSET Fundings, j \in Investors :
          S = Active(i) /\ T = Active(i)' /\ j = f[3]
      BY <1>2 DEF Active
    <2>1. Lent(Active(i))' = Lent(T)' /\ reserved[i] = Lent(S)
      BY DEF Lent, FundsInv, Counted
    <2>2. f \notin T /\ Lent(T)' = Lent(T)
      <3>1. f \notin T
        BY <1>1 DEF Active
      <3> QED
        BY <3>1, LentElsewhere
    <2>3. CASE i = j
      <3>1. f \in S /\ S \ {f} = T
        BY <1>1, <1>2, <2>3 DEF Active, Only
      <3>2. Lent(S) = funding[f].amt + Lent(T) /\ Lent(T) \in Nat
        BY <3>1, LentWithout
      <3>3. reserved[j] >= funding[f].amt
        BY <1>1, <2>1, <2>3, <3>2
      <3>4. reserved' = [reserved EXCEPT ![j] = @ - funding[f].amt]
        BY <1>2, <3>3 DEF GiveBack
      <3>5. reserved'[j] = reserved[j] - funding[f].amt
        BY <3>4 DEF TypeInv
      <3> QED
        BY <1>1, <2>1, <2>2, <2>3, <3>2, <3>5
    <2>4. CASE i # j
      <3>1. T = S
        BY <1>1, <2>4 DEF Active, Only
      <3>2. reserved'[i] = reserved[i]
        BY <2>4 DEF GiveBack, TypeInv
      <3> QED
        BY <2>1, <2>2, <3>1, <3>2
    <2> QED
      BY <2>3, <2>4
  <1>3. CASE ~(f[3] \in Investors /\ funding[f].st = "active")
    <2>1. reserved' = reserved
      BY <1>3 DEF GiveBack
    <2>2. \A i \in Investors : f \notin Active(i) /\ f \notin Active(i)'
      BY <1>1, <1>3 DEF Active
    <2> QED
      BY <2>1, <2>2, CountedStays
  <1> QED
    BY <1>2, <1>3

\* What is voided stood behind no complete claim, or its run is given or robbed.
LEMMA VoidFunds ==
  ASSUME TypeInv, Inv, FundsInv, NEW c \in Calls, VoidAndRelease(c)
  PROVE  FundsInv'
  <1>1. /\ call[c] \in Call /\ call[c].pc \in Voiding /\ TypeInv'
        /\ UNCHANGED <<claim, given>>
    BY VoidKeeps DEF VoidAndRelease, At, TypeInv
  <1>2. call[c].pc # "new" /\ call[c].req \in Requests
    BY <1>1 DEF Voiding, TypeInv
  <1>3. PICK f \in call[c].todo :
          /\ funding' = [funding EXCEPT ![f] = Nothing] /\ GiveBack(f)
          /\ robbed' = IF At(c, "void_old") /\ ~Holds(c, {"allocating"})
                         /\ funding[f].st # "none"
                        THEN robbed \union {f[1]} ELSE robbed
          /\ call' = [call EXCEPT ![c].todo = @ \ {f}]
    BY DEF VoidAndRelease
  <1> PICK x : x = [call[c] EXCEPT !.todo = @ \ {f}]
    OBVIOUS
  <1>4. /\ x \in Call /\ x.pc = call[c].pc /\ x.req = call[c].req /\ x.todo = call[c].todo \ {f}
        /\ f \in Fundings /\ call' = [call EXCEPT ![c] = x]
    BY <1>1, <1>3 DEF Call
  <1>5. Becomes(c, x)
    BY <1>2, <1>4 DEF Becomes
  <1>6. /\ Only(f) /\ funding'[f] = Nothing /\ Nothing.st = "none" /\ robbed \subseteq robbed'
    BY <1>3, <1>4 DEF Only, TypeInv, Nothing
  <1>7. Tidy(c, call[c]) /\ Listed(c, call[c]) /\ Begun(c)
    BY DEF FundsInv, Funded
  <1>8. ASSUME NEW d \in Calls
        PROVE  /\ Mine(d)' \subseteq Mine(d) \ {f}
               /\ \A g \in Mine(d)' : funding'[g] = funding[g]
    BY <1>6 DEF Mine, Only
  <1>9. Blank'
    BY <1>6 DEF FundsInv, Blank, Only
  <1>10. Counted'
    BY <1>1, <1>3, <1>4, <1>6, GivenBack
  <1>11. Tidy(c, x)'
    BY <1>1, <1>4, <1>7, <1>8 DEF Tidy, Planning, Voiding
  <1>12. Activated(c, x)'
    BY <1>1, <1>4 DEF Activated, Voiding
  <1>13. Listed(c, x)
    BY <1>4, <1>7 DEF Listed
  <1>14. Covers(c, x, claim[x.req])'
    <2> PICK k : k = claim[x.req]
      OBVIOUS
    <2>1. k.by = c => k.st # "complete"
      BY <1>1, <1>2, <1>4, NotDone DEF Voiding
    <2>2. Covers(c, x, k)'
      BY <1>1, <1>4, <2>1 DEF Covers, Planning, Voiding
    <2> QED
      BY <1>1, <2>2
  <1> PICK o \in Calls : o = f[1]
    BY <1>4 DEF Fundings
  <1>15. ASSUME o # c
         PROVE  /\ Tidy(o, call[o])' /\ Activated(o, call[o])'
                /\ Covers(o, call[o], claim[call[o].req])'
    <2> PICK y, k : y = call[o] /\ k = claim[y.req]
      OBVIOUS
    <2>1. call'[o] = y /\ Tidy(o, y) /\ Activated(o, y) /\ Covers(o, y, k)
      BY <1>4, <1>15 DEF FundsInv, Funded, TypeInv
    <2>2. /\ Mine(o)' \subseteq Mine(o) /\ \A g \in Mine(o)' : funding'[g] = funding[g]
          /\ Settled(o) => Settled(o)'
      <3>1. /\ Mine(o)' \subseteq Mine(o) /\ \A g \in Mine(o)' : funding'[g] = funding[g]
        BY <1>8
      <3> QED
        BY <3>1 DEF Settled
    <2>3. Tidy(o, y)'
      BY <2>1, <2>2 DEF Tidy
    <2>4. Activated(o, y)'
      BY <2>1, <2>2 DEF Activated
    <2>5. Covers(o, y, k)'
      <3>1. CASE funding[f].st = "none"
        <4>1. funding[f] = Nothing
          BY <1>4, <3>1 DEF FundsInv, Blank
        <4>2. Run(o) \in SUBSET Fundings
          BY DEF Run
        <4>3. Lent(Run(o))' = Lent(Run(o))
          <5> PICK R \in SUBSET Fundings : R = Run(o)
            BY <4>2
          <5>1. Lent(R)' = Lent(R)
            BY <1>1, <1>4, <1>6, <4>1, LentStays
          <5> QED
            BY <5>1 DEF Run
        <4> QED
          BY <1>1, <1>6, <2>1, <2>2, <4>3 DEF Covers
      <3>2. CASE funding[f].st # "none"
        <4>1. call[c].pc \in {"void_old", "void_cancel"} /\ y.req = call[c].req
          BY <1>1, <1>7, <1>15 DEF Listed, Voiding, Undoing
        <4>2. CASE call[c].pc = "void_old"
          <5>1. CASE Holds(c, {"allocating"})
            BY <1>15, <4>1, <5>1 DEF Holds, Covers
          <5>2. CASE ~Holds(c, {"allocating"})
            <6>1. o \in robbed'
              BY <1>3, <3>2, <4>2, <5>2 DEF At
            <6> QED
              BY <6>1 DEF Covers
          <5> QED
            BY <5>1, <5>2
        <4>3. CASE call[c].pc = "void_cancel"
          <5>1. o \in given'
            BY <1>1, <1>7, <4>3 DEF Begun, Releases
          <5> QED
            BY <5>1 DEF Covers
        <4> QED
          BY <4>1, <4>2, <4>3
      <3> QED
        BY <3>1, <3>2
    <2> QED
      BY <1>1, <2>1, <2>3, <2>4, <2>5
  <1>16. /\ x.pc = call[c].pc /\ x.pc # "new" /\ call[c].pc # "new" /\ x.req = call[c].req
         /\ x.todo \subseteq call[c].todo
    BY <1>2, <1>4
  <1>17. claim' = claim /\ given' = given /\ robbed \subseteq robbed' /\ f \in Fundings
    BY <1>1, <1>4, <1>6
  <1> QED
    BY <1>1, <1>5, <1>6, <1>9, <1>10, <1>11, <1>12, <1>13, <1>14, <1>15, <1>16, <1>17, Touch

-----------------------------------------------------------------------------
(* The capital of the accounts *)

\* Nothing is lent at first.
LEMMA InitFunds == Init => FundsInv
  <1> SUFFICES ASSUME Init PROVE FundsInv
    OBVIOUS
  <1>1. /\ \A c \in Calls : call[c] = Fresh
        /\ \A f \in Fundings : funding[f] = Nothing /\ funding[f].st = "none"
    BY DEF Init, Nothing
  <1>2. Fresh.pc = "new" /\ Fresh.todo = {}
    BY DEF Fresh
  <1>3. Counted
    <2> SUFFICES ASSUME NEW i \in Investors PROVE reserved[i] = Lent(Active(i))
      BY DEF Counted
    <2>1. Active(i) = {}
      BY <1>1 DEF Active
    <2>2. Lent({}) = 0
      BY TotalEmpty DEF Lent
    <2> QED
      BY <2>1, <2>2 DEF Init
  <1>4. \A c \in Calls : Mine(c) = {}
    BY <1>1 DEF Mine
  <1>5. ASSUME NEW c \in Calls PROVE Funded(c, call[c], claim[call[c].req]) /\ Begun(c)
    BY <1>1, <1>2, <1>4
    DEF Funded, Tidy, Activated, Listed, Covers, Begun, Entry, Planning, Releases
  <1> QED
    BY <1>1, <1>3, <1>5 DEF FundsInv, Blank

\* Every step keeps what is lent and reserved in step.
LEMMA NextFunds == TypeInv /\ Inv /\ FundsInv /\ [Next]_vars => FundsInv'
  <1> SUFFICES ASSUME TypeInv, Inv, FundsInv, [Next]_vars PROVE FundsInv'
    OBVIOUS
  <1>1. ASSUME NEW c \in Calls, Step(c) PROVE FundsInv'
    <2>1. ASSUME NEW r \in Requests, Claim(c, r) \/ StartRelease(c, r) PROVE FundsInv'
      BY <2>1, ClaimFunds, StartReleaseFunds
    <2>2. CASE ReadLeftovers(c) \/ Plan(c) \/ Written(c)
      BY <2>2, ReadLeftoversFunds, PlanFunds, WrittenFunds
    <2>3. CASE Complete(c) \/ CompleteUnconfirmed(c) \/ Abandon(c)
      BY <2>3, CompleteFunds, AbandonFunds
    <2>4. CASE ReleaseHeld(c) \/ DropClaim(c) \/ Voided(c)
      BY <2>4, ReleaseHeldFunds, DropClaimFunds, VoidedFunds
    <2>5. CASE PersistFails(c) \/ VoidFails(c) \/ Die(c)
      BY <2>5, FailureFunds
    <2>6. CASE WriteFunding(c) \/ ReserveAndActivate(c) \/ VoidAndRelease(c)
      BY <2>6, WriteFunds, ReserveFunds, VoidFunds
    <2> QED
      BY <1>1, <2>1, <2>2, <2>3, <2>4, <2>5, <2>6 DEF Step
  <1>2. CASE UNCHANGED vars
    <2>1. Blank' /\ Counted'
      BY <1>2 DEF vars, FundsInv, Blank, Counted, Lent, Active
    <2>2. \A d : Mine(d)' = Mine(d) /\ Settled(d)' = Settled(d) /\ Lent(Run(d))' = Lent(Run(d))
      BY <1>2 DEF vars, Mine, Settled, Lent, Run
    <2>3. ASSUME NEW d \in Calls PROVE Funded(d, call[d], claim[call[d].req])' /\ Begun(d)'
      <3> PICK y, k : y = call[d] /\ k = claim[y.req]
        OBVIOUS
      <3>1. Funded(d, y, k) /\ Begun(d)
        BY DEF FundsInv
      <3>2. call' = call /\ claim' = claim /\ funding' = funding /\ given' = given /\ robbed' = robbed
        BY <1>2 DEF vars, past
      <3>3. Tidy(d, y)' /\ Activated(d, y)' /\ Listed(d, y)' /\ Covers(d, y, k)'
        BY <2>2, <3>1, <3>2 DEF Funded, Tidy, Activated, Listed, Covers
      <3> QED
        BY <3>1, <3>2, <3>3 DEF Funded, Begun
    <2> QED
      BY <2>1, <2>3 DEF FundsInv
  <1> QED
    BY <1>1, <1>2 DEF Next

\* For any loans, sources, attempts and faults an investor's account holds exactly the
\* capital of its active tranches: what is reserved, taken over, voided twice or retried
\* is given back once (funding_allocation.go:436-438, loan_funding_repo.go:80-97).
THEOREM CapitalIsCounted == Spec => []ReservedIsActive
  <1>1. TypeInv /\ FundsInv => ReservedIsActive
    BY TypeHolds DEF FundsInv, Counted, Active, ReservedIsActive
  <1> QED
    BY <1>1, InitType, InitInv, InitFunds, NextKeeps, NextFunds, PTL DEF Spec

\* For any number of calls that overlap, stall past their lease and fail, the run behind a
\* complete claim covers the loan with capital in every tranche, until a release begins
\* to give any of it back or a call still at its leftovers voids it (funding_allocation.go:182-184).
THEOREM CompleteClaimsStand == Spec => []CompletedIsFunded
  <1>1. TypeInv /\ Inv /\ FundsInv => CompletedIsFunded
    <2> SUFFICES ASSUME TypeInv, Inv, FundsInv, NEW r \in Requests, claim[r].st = "complete",
                        claim[r].by \notin given \union robbed
                 PROVE  /\ Lent(Run(claim[r].by)) = Loan[r]
                        /\ \A f \in Run(claim[r].by) : funding[f].st # "pending"
      BY DEF CompletedIsFunded, Run
    <2> PICK c : c = claim[r].by
      OBVIOUS
    <2>1. c \in Calls /\ call[c].req = r /\ call[c].pc # "new"
      BY DEF Inv, Completed
    <2>2. Covers(c, call[c], claim[r])
      BY <2>1 DEF FundsInv, Funded
    <2>3. Lent(Run(c)) = Loan[r] /\ Settled(c)
      BY <2>1, <2>2 DEF Covers
    <2>4. \A f \in Run(c) : funding[f].st # "none" => f \in Mine(c)
      BY DEF Run, Mine
    <2> QED
      BY <2>3, <2>4 DEF Settled
  <1> QED
    BY <1>1, InitType, InitInv, InitFunds, NextKeeps, NextFunds, PTL DEF Spec
=============================================================================
