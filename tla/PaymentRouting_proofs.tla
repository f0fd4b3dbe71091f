-------------------------- MODULE PaymentRouting_proofs --------------------------
(***************************************************************************)
(* Proofs about the routing of received payments: of PaymentIdentification, *)
(* for any registries, hints and number of services out, that an outage may  *)
(* delay whose payment it is and never changes it; and of PaymentAllocation,  *)
(* for any number of payments, obligations and runs, that what is paid to an  *)
(* obligation, out of a payment and left of it adds up.                      *)
(***************************************************************************)
EXTENDS PaymentIdentification, PaymentAllocation, Sums_proofs

-----------------------------------------------------------------------------
(* A strategy meets an outage or says what it says without any *)

\* An answer x next to what the answer is when every service is up.
Agrees(x, y) == x = Outage \/ x = y

\* What a strategy for one kind of owner may answer.
Answers(kind, x) == x = Nobody \/ x = Outage \/ \E id : x = Owner(kind, id)

\* A strategy for one kind of owner answers with nobody or one of that kind.
LEMMA OnlyAnswers == ASSUME NEW kind, NEW S PROVE Answers(kind, Only(kind, S))
  BY DEF Answers, Only

\* What is not of the kind asked for is no owner.
LEMMA KindOf ==
  ASSUME NEW kind, NEW x, Answers(kind, x), x.kind # kind
  PROVE  x \in {Nobody, Outage}
  <1>1. ASSUME NEW id, x = Owner(kind, id) PROVE FALSE
    BY <1>1 DEF Owner
  <1> QED
    BY <1>1 DEF Answers

\* Nobody is an answer of every strategy.
LEMMA NobodyAnswers == ASSUME NEW kind PROVE Answers(kind, Nobody) /\ Agrees(Nobody, Nobody)
  BY DEF Answers, Agrees

\* An answer agrees with itself.
LEMMA SameAgrees == ASSUME NEW x PROVE Agrees(x, x)
  BY DEF Agrees

\* A lookup that may meet an outage agrees with the one that cannot.
LEMMA AskAgrees ==
  ASSUME NEW service, NEW out, NEW kind, NEW x, NEW y, Agrees(x, y), Answers(kind, x)
  PROVE  /\ Agrees(Ask(service, out, x), Ask(service, {}, y))
         /\ Answers(kind, Ask(service, out, x))
  BY DEF Agrees, Ask, Answers

\* So do two of them, the second asked when the first finds nobody.
LEMMA ElseAgrees ==
  ASSUME NEW kind, NEW a, NEW a0, NEW b, NEW b0, Agrees(a, a0), Agrees(b, b0),
         Answers(kind, a), Answers(kind, b)
  PROVE  Agrees(Else(a, b), Else(a0, b0)) /\ Answers(kind, Else(a, b))
  <1>1. Nobody # Outage
    BY DEF Nobody, Outage
  <1> QED
    BY <1>1 DEF Agrees, Else, Answers

\* The client of a payer, with services out and with all up.
LEMMA ClientSound ==
  ASSUME NEW dir, NEW out, NEW payer
  PROVE  /\ Agrees(clientForContact(dir, out, payer), clientForContact(dir, {}, payer))
         /\ Answers("client", clientForContact(dir, out, payer))
  <1> DEFINE direct == Only("client", ClientsOf(dir, {payer}))
  <1> DEFINE resolved == Only("client", ClientsOf(dir, ProfileOf(dir, payer)))
  <1>1. Answers("client", direct) /\ Answers("client", resolved)
    BY OnlyAnswers
  <1> HIDE DEF direct, resolved
  <1>2. /\ Agrees(Ask("profiles", out, resolved), Ask("profiles", {}, resolved))
        /\ Answers("client", Ask("profiles", out, resolved))
    BY <1>1, SameAgrees, AskAgrees
  <1>3. /\ Agrees(Else(direct, Ask("profiles", out, resolved)),
                  Else(direct, Ask("profiles", {}, resolved)))
        /\ Answers("client", Else(direct, Ask("profiles", out, resolved)))
    BY <1>1, <1>2, SameAgrees, ElseAgrees
  <1>4. /\ Agrees(Ask("clients", out, Else(direct, Ask("profiles", out, resolved))),
                  Ask("clients", {}, Else(direct, Ask("profiles", {}, resolved))))
        /\ Answers("client", Ask("clients", out, Else(direct, Ask("profiles", out, resolved))))
    BY <1>3, AskAgrees
  <1> QED
    BY <1>4 DEF clientForContact, direct, resolved

\* The loan or savings account a payment is for.
LEMMA AccountSound ==
  ASSUME NEW kind, NEW service, NEW accounts, NEW dir, NEW h, NEW out
  PROVE  /\ Agrees(AccountOf(kind, service, accounts, dir, h, out),
                   AccountOf(kind, service, accounts, dir, h, {}))
         /\ Answers(kind, AccountOf(kind, service, accounts, dir, h, out))
  <1> DEFINE fits == {a \in accounts : a.open /\ a.product = h.product}
  <1> DEFINE quoted(o) ==
        IF h.ref = None THEN Nobody ELSE Ask(service, o, Only(kind, {a \in fits : a.id = h.ref}))
  <1> DEFINE payer(o) == IF h.payer = None THEN Nobody ELSE clientForContact(dir, o, h.payer)
  <1> DEFINE owned(o) == Ask(service, o, Only(kind, {a \in fits : a.client = payer(o).id}))
  <1> DEFINE mine(o) == IF payer(o).kind = "client" THEN owned(o) ELSE payer(o)
  <1>1. Agrees(quoted(out), quoted({})) /\ Answers(kind, quoted(out))
    BY NobodyAnswers, OnlyAnswers, SameAgrees, AskAgrees
  <1>2. Agrees(payer(out), payer({})) /\ Answers("client", payer(out))
    BY NobodyAnswers, ClientSound
  <1>3. Agrees(mine(out), mine({})) /\ Answers(kind, mine(out))
    <2>1. CASE payer(out) = Outage
      <3>1. payer(out).kind # "client" /\ mine(out) = Outage
        BY <2>1 DEF Outage
      <3> QED
        BY <3>1 DEF Agrees, Answers
    <2>2. CASE payer(out) = payer({})
      <3>1. CASE payer(out).kind = "client"
        <4>1. mine(out) = owned(out) /\ mine({}) = owned({})
          BY <2>2, <3>1
        <4>2. Agrees(owned(out), owned({})) /\ Answers(kind, owned(out))
          <5> DEFINE x == Only(kind, {a \in fits : a.client = payer(out).id})
          <5>1. owned(out) = Ask(service, out, x) /\ owned({}) = Ask(service, {}, x)
            BY <2>2
          <5>2. Answers(kind, x) /\ Agrees(x, x)
            BY OnlyAnswers, SameAgrees
          <5> HIDE DEF x
          <5> QED
            BY <5>1, <5>2, AskAgrees
        <4> QED
          BY <4>1, <4>2
      <3>2. CASE payer(out).kind # "client"
        <4>1. payer(out) \in {Nobody, Outage}
          BY <1>2, <3>2, KindOf
        <4> QED
          BY <2>2, <3>2, <4>1 DEF Agrees, Answers
      <3> QED
        BY <3>1, <3>2
    <2> QED
      BY <1>2, <2>1, <2>2 DEF Agrees
  <1> HIDE DEF quoted, mine
  <1>4. /\ Agrees(Else(quoted(out), mine(out)), Else(quoted({}), mine({})))
        /\ Answers(kind, Else(quoted(out), mine(out)))
    BY <1>1, <1>3, ElseAgrees
  <1>5. \A o : AccountOf(kind, service, accounts, dir, h, o) =
                 IF h.product = None THEN Nobody ELSE Else(quoted(o), mine(o))
    BY DEF AccountOf, quoted, mine
  <1> QED
    BY <1>4, <1>5, NobodyAnswers

\* The investor account a payment is for.
LEMMA InvestorSound ==
  ASSUME NEW dir, NEW h, NEW out
  PROVE  /\ Agrees(InvestorDeposit(dir, h, out), InvestorDeposit(dir, h, {}))
         /\ Answers("investor", InvestorDeposit(dir, h, out))
  <1> DEFINE quoted == {a \in dir.investors : a.id = h.ref}
  <1> DEFINE profile == (CHOOSE a \in quoted : TRUE).profile
  <1> DEFINE known ==
        IF profile \in ProfileOf(dir, h.payer) THEN Only("investor", quoted) ELSE Nobody
  <1> DEFINE given(o) ==
        IF h.ref = None \/ h.payer = None THEN Nobody
        ELSE IF "funding" \in o THEN Outage
        ELSE IF quoted = {} THEN Nobody
        ELSE IF "identity" \in o THEN Outage
        ELSE IF h.payer = profile THEN Only("investor", quoted)
        ELSE Ask("profiles", o, known)
  <1>1. \A o : InvestorDeposit(dir, h, o) = given(o)
    BY DEF InvestorDeposit
  <1>2. Answers("investor", known) /\ Answers("investor", Only("investor", quoted))
    BY OnlyAnswers, NobodyAnswers
  <1>3. /\ Agrees(Ask("profiles", out, known), Ask("profiles", {}, known))
        /\ Answers("investor", Ask("profiles", out, known))
    BY <1>2, SameAgrees, AskAgrees
  <1> HIDE DEF quoted, profile, known
  <1>4. Agrees(given(out), given({})) /\ Answers("investor", given(out))
    BY <1>2, <1>3 DEF Agrees, Answers
  <1> QED
    BY <1>1, <1>4

\* The member a payment is of, by each of the five strategies.
LEMMA MemberSound ==
  ASSUME NEW dir, NEW h, NEW out
  PROVE  /\ Agrees(ByMembershipID(dir, h, out), ByMembershipID(dir, h, {}))
         /\ Agrees(ByProfileID(dir, h, out), ByProfileID(dir, h, {}))
         /\ Agrees(ByFilteredMembership(dir, h, out), ByFilteredMembership(dir, h, {}))
         /\ Agrees(ByContactID(dir, h, out), ByContactID(dir, h, {}))
         /\ Agrees(ByPayerName(dir, h, out), ByPayerName(dir, h, {}))
         /\ Answers("member", ByMembershipID(dir, h, out))
         /\ Answers("member", ByProfileID(dir, h, out))
         /\ Answers("member", ByFilteredMembership(dir, h, out))
         /\ Answers("member", ByContactID(dir, h, out))
         /\ Answers("member", ByPayerName(dir, h, out))
  <1>1. ASSUME NEW x, Answers("member", x)
        PROVE  /\ Agrees(Ask("identity", out, x), Ask("identity", {}, x))
               /\ Answers("member", Ask("identity", out, x))
    BY <1>1, SameAgrees, AskAgrees
  <1>2. ASSUME NEW S, NEW b \in BOOLEAN
        PROVE  /\ Agrees(IF b THEN Nobody ELSE Ask("identity", out, Only("member", S)),
                         IF b THEN Nobody ELSE Ask("identity", {}, Only("member", S)))
               /\ Answers("member", IF b THEN Nobody
                                    ELSE Ask("identity", out, Only("member", S)))
    BY <1>1, OnlyAnswers, NobodyAnswers
  <1>3. /\ Agrees(ByMembershipID(dir, h, out), ByMembershipID(dir, h, {}))
        /\ Answers("member", ByMembershipID(dir, h, out))
    BY <1>2 DEF ByMembershipID
  <1>4. /\ Agrees(ByProfileID(dir, h, out), ByProfileID(dir, h, {}))
        /\ Answers("member", ByProfileID(dir, h, out))
    BY <1>2 DEF ByProfileID
  <1>5. /\ Agrees(ByFilteredMembership(dir, h, out), ByFilteredMembership(dir, h, {}))
        /\ Answers("member", ByFilteredMembership(dir, h, out))
    BY <1>2 DEF ByFilteredMembership
  <1>6. /\ Agrees(ByContactID(dir, h, out), ByContactID(dir, h, {}))
        /\ Answers("member", ByContactID(dir, h, out))
    <2> DEFINE inGroup ==
          {m \in OfGroup(dir, h.group) : m.contact = h.payer /\ m.state # "deleted"}
    <2> DEFINE first == IF h.group = None THEN Nobody ELSE Only("member", inGroup)
    <2> DEFINE other == Only("member", Active(OfProfile(dir, h.payer)))
    <2>1. Answers("member", first) /\ Answers("member", other)
      BY OnlyAnswers, NobodyAnswers
    <2>2. \A o : ByContactID(dir, h, o) =
                   IF h.payer = None THEN Nobody ELSE Ask("identity", o, Else(first, other))
      BY DEF ByContactID
    <2> HIDE DEF first, other
    <2>3. Answers("member", Else(first, other))
      BY <2>1, SameAgrees, ElseAgrees
    <2> QED
      BY <1>1, <2>2, <2>3, NobodyAnswers
  <1>7. /\ Agrees(ByPayerName(dir, h, out), ByPayerName(dir, h, {}))
        /\ Answers("member", ByPayerName(dir, h, out))
    BY <1>2 DEF ByPayerName
  <1> QED
    BY <1>3, <1>4, <1>5, <1>6, <1>7

-----------------------------------------------------------------------------
(* The walk *)

\* The kind of owner the k-th strategy for hint h names.
KindAt(h, k) ==
  IF h.group = None /\ k = 1 THEN "loan"
  ELSE IF h.group = None /\ k = 2 THEN "savings"
  ELSE IF h.group = None /\ k = 3 THEN "investor" ELSE "member"

Steps(h) == IF h.group = None THEN 1..8 ELSE 1..5

\* The strategies of a payment that names a group.
LEMMA FiveSteps ==
  ASSUME NEW a, NEW b, NEW c, NEW d, NEW e, NEW s, s = <<>> \o <<a, b, c, d, e>>
  PROVE  /\ DOMAIN s = 1..5 /\ Len(s) = 5
         /\ s[1] = a /\ s[2] = b /\ s[3] = c /\ s[4] = d /\ s[5] = e
  OBVIOUS

\* The strategies of a payment that names none.
LEMMA EightSteps ==
  ASSUME NEW x, NEW y, NEW z, NEW a, NEW b, NEW c, NEW d, NEW e, NEW s,
         s = <<x, y, z>> \o <<a, b, c, d, e>>
  PROVE  /\ DOMAIN s = 1..8 /\ Len(s) = 8
         /\ s[1] = x /\ s[2] = y /\ s[3] = z
         /\ s[4] = a /\ s[5] = b /\ s[6] = c /\ s[7] = d /\ s[8] = e
  OBVIOUS

\* Each strategy answers with an outage or what it says when every service is up.
LEMMA Walk ==
  ASSUME NEW dir, NEW h, NEW out
  PROVE  /\ DOMAIN Strategies(dir, h, out) = Steps(h)
         /\ Len(Strategies(dir, h, out)) = IF h.group = None THEN 8 ELSE 5
         /\ \A k \in Steps(h) :
              /\ Agrees(Strategies(dir, h, out)[k], Strategies(dir, h, {})[k])
              /\ Answers(KindAt(h, k), Strategies(dir, h, out)[k])
  <1> DEFINE f(k, o) ==
        IF h.group = None
          THEN CASE k = 1 -> BorrowerLoan(dir, h, o)
                 [] k = 2 -> SaverAccount(dir, h, o)
                 [] k = 3 -> InvestorDeposit(dir, h, o)
                 [] k = 4 -> ByMembershipID(dir, h, o)
                 [] k = 5 -> ByProfileID(dir, h, o)
                 [] k = 6 -> ByFilteredMembership(dir, h, o)
                 [] k = 7 -> ByContactID(dir, h, o)
                 [] OTHER -> ByPayerName(dir, h, o)
          ELSE CASE k = 1 -> ByMembershipID(dir, h, o)
                 [] k = 2 -> ByProfileID(dir, h, o)
                 [] k = 3 -> ByFilteredMembership(dir, h, o)
                 [] k = 4 -> ByContactID(dir, h, o)
                 [] OTHER -> ByPayerName(dir, h, o)
  <1>1. \A o : /\ DOMAIN Strategies(dir, h, o) = Steps(h)
               /\ Len(Strategies(dir, h, o)) = IF h.group = None THEN 8 ELSE 5
               /\ \A k \in Steps(h) : Strategies(dir, h, o)[k] = f(k, o)
    <2>1. ASSUME NEW o, h.group # None
          PROVE  /\ DOMAIN Strategies(dir, h, o) = Steps(h) /\ Len(Strategies(dir, h, o)) = 5
                 /\ \A k \in Steps(h) : Strategies(dir, h, o)[k] = f(k, o)
      <3>1. Strategies(dir, h, o) =
              <<>> \o <<ByMembershipID(dir, h, o), ByProfileID(dir, h, o),
                       ByFilteredMembership(dir, h, o), ByContactID(dir, h, o),
                       ByPayerName(dir, h, o)>>
        BY <2>1 DEF Strategies
      <3> QED
        BY <2>1, <3>1, FiveSteps DEF Steps
    <2>2. ASSUME NEW o, h.group = None
          PROVE  /\ DOMAIN Strategies(dir, h, o) = Steps(h) /\ Len(Strategies(dir, h, o)) = 8
                 /\ \A k \in Steps(h) : Strategies(dir, h, o)[k] = f(k, o)
      <3>1. Strategies(dir, h, o) =
              <<BorrowerLoan(dir, h, o), SaverAccount(dir, h, o), InvestorDeposit(dir, h, o)>>
              \o <<ByMembershipID(dir, h, o), ByProfileID(dir, h, o),
                   ByFilteredMembership(dir, h, o), ByContactID(dir, h, o),
                   ByPayerName(dir, h, o)>>
        BY <2>2 DEF Strategies
      <3> QED
        BY <2>2, <3>1, EightSteps DEF Steps
    <2> QED
      BY <2>1, <2>2
  <1>2. /\ Agrees(BorrowerLoan(dir, h, out), BorrowerLoan(dir, h, {}))
        /\ Answers("loan", BorrowerLoan(dir, h, out))
        /\ Agrees(SaverAccount(dir, h, out), SaverAccount(dir, h, {}))
        /\ Answers("savings", SaverAccount(dir, h, out))
    BY AccountSound DEF BorrowerLoan, SaverAccount
  <1>3. \A k \in Steps(h) : Agrees(f(k, out), f(k, {})) /\ Answers(KindAt(h, k), f(k, out))
    BY <1>2, InvestorSound, MemberSound DEF Steps, KindAt
  <1> QED
    BY <1>1, <1>3

-----------------------------------------------------------------------------
(* The first match is the owner *)

\* An owner found by a strategy, nobody before it, is the one there is.
LEMMA TruthFound ==
  ASSUME NEW k \in Steps(hint), Strategies(reg, hint, {})[k] # Nobody,
         \A l \in Steps(hint) : l < k => Strategies(reg, hint, {})[l] = Nobody
  PROVE  Truth = Strategies(reg, hint, {})[k]
  <1> DEFINE asked == Strategies(reg, hint, {})
  <1> DEFINE found == {l \in DOMAIN asked : asked[l] # Nobody}
  <1>1. DOMAIN asked = Steps(hint) /\ Steps(hint) \subseteq Nat
    BY Walk DEF Steps
  <1> HIDE DEF asked
  <1>2. k \in found /\ \A l \in found : k <= l /\ l \in Nat
    BY <1>1 DEF asked
  <1>3. (CHOOSE l \in found : \A m \in found : l <= m) = k
    <2>1. k \in Nat
      BY <1>1
    <2> HIDE DEF found
    <2> DEFINE first == CHOOSE l \in found : \A m \in found : l <= m
    <2>2. first \in found /\ \A m \in found : first <= m
      BY <1>2
    <2> HIDE DEF first
    <2>3. k <= first /\ first <= k /\ first \in Nat
      BY <1>2, <2>2
    <2>4. first = k
      BY <2>1, <2>3
    <2> QED
      BY <2>4 DEF first
  <1>4. Truth = IF found = {} THEN Nobody
                ELSE asked[CHOOSE l \in found : \A m \in found : l <= m]
    BY DEF Truth, asked
  <1> QED
    BY <1>2, <1>3, <1>4 DEF asked

\* When no strategy finds one there is none.
LEMMA TruthNobody ==
  ASSUME \A l \in Steps(hint) : Strategies(reg, hint, {})[l] = Nobody
  PROVE  Truth = Nobody
  <1>1. {l \in DOMAIN Strategies(reg, hint, {}) : Strategies(reg, hint, {})[l] # Nobody} = {}
    BY Walk
  <1> QED
    BY <1>1 DEF Truth

-----------------------------------------------------------------------------
(* The invariant *)

Kinds == {"nobody", "loan", "savings", "investor", "member"}

\* While the walk is under way every strategy behind it finds nobody, and would
\* find nobody with every service up.
PassedOver ==
  next # 0 =>
    /\ owner = Nobody /\ ~unidentified
    /\ \A l \in Steps(hint) : l < next => Strategies(reg, hint, {})[l] = Nobody

IdInv ==
  /\ next \in Steps(hint) \union {0}
  /\ down \subseteq Services
  /\ owner.kind \in Kinds
  /\ owner \in {Nobody, Truth}
  /\ unidentified => (owner = Nobody /\ Truth = Nobody)
  /\ PassedOver

\* A payment that has not been looked at.
LEMMA IdInitInv == IdInit => IdInv
  <1> SUFFICES ASSUME IdInit PROVE IdInv
    OBVIOUS
  <1>1. owner.kind = "nobody"
    BY DEF IdInit, Nobody
  <1> QED
    BY <1>1 DEF IdInit, IdInv, PassedOver, Kinds

\* A delivery begins at the first strategy.
LEMMA DeliverKeeps == IdInv /\ Deliver => IdInv'
  <1> SUFFICES ASSUME IdInv, Deliver PROVE IdInv'
    OBVIOUS
  <1>1. Steps(hint') = Steps(hint) /\ Truth' = Truth
    BY DEF Deliver, Steps, Truth
  <1>2. 1 \in Steps(hint) /\ \A l \in Steps(hint) : ~(l < 1)
    BY DEF Steps
  <1>3. PassedOver'
    BY <1>1, <1>2 DEF Deliver, PassedOver
  <1> QED
    BY <1>1, <1>2, <1>3 DEF Deliver, IdInv

\* A strategy is asked.
LEMMA AskKeeps == IdInv /\ AskNext => IdInv'
  <1> SUFFICES ASSUME IdInv, AskNext PROVE IdInv'
    OBVIOUS
  <1> DEFINE truly == Strategies(reg, hint, {})
  <1> DEFINE answer == Strategies(reg, hint, down)[next]
  <1>1. /\ next \in Steps(hint) /\ PassedOver /\ owner = Nobody /\ ~unidentified
        /\ \A l \in Steps(hint) : l < next => truly[l] = Nobody
    BY DEF IdInv, AskNext, PassedOver
  <1>2. Steps(hint') = Steps(hint) /\ Truth' = Truth /\ UNCHANGED <<reg, hint, down>>
    BY DEF AskNext, Steps, Truth
  <1>3. /\ Agrees(answer, truly[next])
        /\ Answers(KindAt(hint, next), answer)
        /\ Len(Strategies(reg, hint, down)) = IF hint.group = None THEN 8 ELSE 5
    BY <1>1, Walk
  <1>4. /\ owner' = IF answer = Outage THEN Nobody ELSE answer
        /\ unidentified' =
             (answer = Nobody /\ next = IF hint.group = None THEN 8 ELSE 5)
        /\ next' = IF answer = Nobody /\ next < (IF hint.group = None THEN 8 ELSE 5)
                     THEN next + 1 ELSE 0
    BY <1>3 DEF AskNext
  <1> HIDE DEF answer, truly
  <1>5. Nobody # Outage /\ Nobody.kind = "nobody"
    BY DEF Nobody, Outage
  <1>6. owner'.kind \in Kinds
    <2>1. KindAt(hint, next) \in Kinds
      BY DEF KindAt, Kinds
    <2>2. ASSUME NEW id, answer = Owner(KindAt(hint, next), id)
          PROVE  answer.kind \in Kinds
      BY <2>1, <2>2 DEF Owner
    <2>3. answer = Nobody \/ answer = Outage \/ answer.kind \in Kinds
      BY <1>3, <2>2 DEF Answers
    <2> QED
      BY <1>4, <1>5, <2>3 DEF Kinds
  <1>7. CASE answer = Outage
    <2>1. owner' = Nobody /\ ~unidentified' /\ next' = 0
      BY <1>4, <1>5, <1>7
    <2> QED
      BY <1>2, <1>6, <2>1 DEF IdInv, PassedOver
  <1>8. CASE answer = Nobody
    <2>1. truly[next] = Nobody
      BY <1>3, <1>5, <1>8 DEF Agrees
    <2>2. CASE next < IF hint.group = None THEN 8 ELSE 5
      <3>1. owner' = Nobody /\ ~unidentified' /\ next' = next + 1
        <4> DEFINE last == IF hint.group = None THEN 8 ELSE 5
        <4>1. next # last
          BY <1>1, <2>2 DEF Steps
        <4>2. unidentified' = (answer = Nobody /\ next = last)
          BY <1>4
        <4>3. owner' = Nobody /\ next' = next + 1
          BY <1>4, <1>5, <1>8, <2>2
        <4> HIDE DEF last
        <4>4. ~unidentified'
          BY <4>1, <4>2, Zenon
        <4> QED
          BY <4>3, <4>4
      <3>2. next + 1 \in Steps(hint)
        BY <1>1, <2>2 DEF Steps
      <3>3. \A l \in Steps(hint) : l < next + 1 => truly[l] = Nobody
        <4>1. \A l \in Steps(hint) : l < next + 1 => l < next \/ l = next
          BY <1>1 DEF Steps
        <4> QED
          BY <1>1, <2>1, <4>1
      <3>4. PassedOver'
        BY <1>2, <3>1, <3>3 DEF PassedOver, truly
      <3> QED
        BY <1>2, <1>6, <3>1, <3>2, <3>4 DEF IdInv
    <2>3. CASE ~(next < IF hint.group = None THEN 8 ELSE 5)
      <3>1. owner' = Nobody /\ next' = 0
        BY <1>4, <1>5, <1>8, <2>3
      <3>2. \A l \in Steps(hint) : truly[l] = Nobody
        <4>1. \A l \in Steps(hint) : l < next \/ l = next
          BY <1>1, <2>3 DEF Steps
        <4> QED
          BY <1>1, <2>1, <4>1
      <3>3. Truth = Nobody
        BY <3>2, TruthNobody DEF truly
      <3> QED
        BY <1>2, <1>6, <3>1, <3>3 DEF IdInv, PassedOver
    <2> QED
      BY <2>2, <2>3
  <1>9. CASE answer # Outage /\ answer # Nobody
    <2>1. truly[next] = answer
      BY <1>3, <1>9 DEF Agrees
    <2>2. Truth = answer
      BY <1>1, <1>9, <2>1, TruthFound DEF truly
    <2>3. owner' = answer /\ ~unidentified' /\ next' = 0
      BY <1>4, <1>9
    <2> QED
      BY <1>2, <1>6, <2>2, <2>3 DEF IdInv, PassedOver
  <1> QED
    BY <1>7, <1>8, <1>9

\* Services go out and come back.
LEMMA OutageKeeps ==
  ASSUME IdInv, NEW s \in Services, Fail(s) \/ Recover(s) \/ UNCHANGED idVars
  PROVE  IdInv'
  <1>1. UNCHANGED <<reg, hint, next, owner, unidentified>>
    BY DEF Fail, Recover, idVars
  <1>2. down' \subseteq Services
    BY DEF Fail, Recover, idVars, IdInv
  <1>3. Steps(hint') = Steps(hint) /\ Truth' = Truth
    BY <1>1 DEF Steps, Truth
  <1> QED
    BY <1>1, <1>2, <1>3 DEF IdInv, PassedOver

\* IdentifyPayment's answer does not depend on which peers were out on the way:
\* for any registries, payments and number of services out, an owner recorded is
\* the one all peers up would give, and only a payment of nobody's is given up.
THEOREM OutagesOnlyDelay == IdSpec => []OutageNeverMisroutes
  <1>1. ASSUME IdInv, [IdNext]_idVars PROVE IdInv'
    <2>1. CASE Deliver
      BY <1>1, <2>1, DeliverKeeps
    <2>2. CASE AskNext
      BY <1>1, <2>2, AskKeeps
    <2>3. ASSUME NEW s \in Services, Fail(s) \/ Recover(s) PROVE IdInv'
      BY <1>1, <2>3, OutageKeeps
    <2>4. CASE UNCHANGED idVars
      <3>1. "loans" \in Services
        BY DEF Services
      <3> QED
        BY <1>1, <2>4, <3>1, OutageKeeps
    <2> QED
      BY <1>1, <2>1, <2>2, <2>3, <2>4 DEF IdNext
  <1>2. IdInv => OutageNeverMisroutes
    <2>1. Steps(hint) \union {0} \subseteq 0..8
      BY DEF Steps
    <2> QED
      BY <2>1 DEF IdInv, OutageNeverMisroutes, IdTypeOK, Kinds
  <1> QED
    BY <1>1, <1>2, IdInitInv, PTL DEF IdSpec

-----------------------------------------------------------------------------
(* What the steps of the allocation keep *)

\* A run at one of these acts on its payment under the payment's lease.
Leasing == {"land", "owed", "paid", "walk", "consume", "park"}
PayRowShape == [owner : {"none"} \union Owners, st : {"new", "unallocated", "partial", "full"},
                left : Int, lease : {"free"} \union Runs]
OrderShape == [amt : Nat, st : {"none", "raised", "posted", "parked"}, consumed : BOOLEAN]
RunShape == [pc : Pcs, pay : Payments \union {0}, suspense : BOOLEAN, left : Nat,
             seen : [Obligations -> Nat], next : Obligations \union {0}, amt : Nat,
             done : SUBSET Obligations]

AllocShapes ==
  /\ row \in [Payments -> PayRowShape]
  /\ \A p \in Payments : row[p].left \in Unknown..Amount[p]
                         /\ (row[p].left = Unknown <=> row[p].st = "new")
  /\ owed \in [Obligations -> Int]
  /\ \A o \in Obligations : owed[o] \in Unknown..Owed[o] /\ (o \notin Late => owed[o] # Unknown)
  /\ order \in [Payments -> [Obligations -> OrderShape]]
  /\ \A p \in Payments, o \in Obligations : order[p][o].amt <= Owed[o]
  /\ landing \in [Payments -> {"none", "raised", "posted"}]
  /\ run \in [Runs -> RunShape]
  /\ exceeded \subseteq Payments /\ overrun \subseteq Payments
  /\ lapses \in 0..MaxLapses /\ faults \in 0..MaxFaults

\* An order is only ever raised for an obligation that is, and for an owner.
OrderSound(p, o) ==
  /\ order[p][o].st = "none" => ~order[p][o].consumed
  /\ order[p][o].st # "none" => owed[o] # Unknown /\ row[p].owner # "none"

\* What a run has seen of the obligations was so, and they only went down since.
RunSound(r) ==
  LET x == run[r] IN
  /\ x.pc # "idle" => x.pay \in Payments /\ row[x.pay].owner # "none" /\ x.left <= Amount[x.pay]
  /\ \A o \in Obligations : x.seen[o] <= Owed[o]
       /\ (x.seen[o] > 0 => owed[o] # Unknown /\ owed[o] <= x.seen[o])
  /\ x.pc \in {"consume", "park"} =>
       /\ x.next \in Obligations /\ x.seen[x.next] > 0
       /\ order[x.pay][x.next].st # "none" /\ x.amt = order[x.pay][x.next].amt
  /\ x.pc = "land" => ~x.suspense
  /\ x.pc = "orders" => x.done # {}

\* An order that may still take from its obligation.
Pending(p, o) == order[p][o].st \in {"raised", "posted"} /\ ~order[p][o].consumed
Unspent(p) == AtLeast0(Amount[p] - Spent(p))

\* A payment whose runs kept their lease.
PaymentKept(p) ==
  /\ \A o \in Obligations : order[p][o].st = "parked" => ~order[p][o].consumed
  /\ p \notin exceeded => Spent(p) <= Amount[p]
  /\ row[p].owner = "member" =>
       /\ row[p].left # Unknown => row[p].left + Spent(p) >= Amount[p]
       /\ \A o \in Obligations : Pending(p, o) => order[p][o].amt >= Least(owed[o], Unspent(p))

\* A run of such a payment.
RunKept(r) ==
  LET x == run[r]
      p == x.pay IN
  /\ row[p].lease = r
  /\ x.pc \in {"consume", "park"} => Pending(p, x.next)
  /\ x.pc = "owed" /\ x.suspense => x.left <= Unspent(p)
  /\ p \notin exceeded =>
       /\ x.pc \in {"walk", "consume", "park"} => x.left + Spent(p) <= Amount[p]
       /\ x.pc = "consume" => x.amt <= Portion(r, x.next)
  /\ row[p].owner = "member" =>
       /\ x.left + Spent(p) >= Amount[p]
       /\ \A o \in Obligations : Pending(p, o) /\ x.seen[o] > 0 =>
            /\ x.pc = "paid" /\ ~x.suspense => order[p][o].amt >= Least(x.seen[o], Unspent(p))
            /\ x.pc \in {"walk", "consume", "park"} =>
                 order[p][o].amt >= Least(x.seen[o], x.left)

OrdersSound == \A p \in Payments, o \in Obligations : OrderSound(p, o)
RunsSound == \A r \in Runs : RunSound(r)
OwedAddsUp == \A o \in Obligations : owed[o] # Unknown => owed[o] + Taken(o) = Owed[o]
PaymentsKept == \A p \in Payments \ overrun : PaymentKept(p)
RunsKept == \A r \in Runs : run[r].pc \in Leasing /\ Pay(r) \notin overrun => RunKept(r)

AllocInv == AllocShapes /\ OrdersSound /\ RunsSound /\ OwedAddsUp /\ PaymentsKept /\ RunsKept

-----------------------------------------------------------------------------
(* Helpers *)

\* The sets summed over are finite.
LEMMA SumsFinite ==
  /\ \A S \in SUBSET Payments : IsFiniteSet(S)
  /\ \A S \in SUBSET Obligations : IsFiniteSet(S)
  BY AmountAssumption, FS_Subset

\* There is something outside every set.
LEMMA NothingHoldsAll ==
  ASSUME NEW S
  PROVE  \E x : x \notin S
  <1>1. {x \in S : x \notin x} \notin S
    OBVIOUS
  <1> QED
    BY <1>1

\* The least of a set of numbers is one of them.
LEMMA LeastIsIn ==
  ASSUME NEW S \in SUBSET Nat, S # {}
  PROVE  Min(S) \in S
  <1>1. PICK n \in S : \A m \in S : <<m, n>> \notin OpToRel(<, Nat)
    BY WFMin, NatLessThanWellFounded
  <1>2. \A m \in S : n <= m
    <2> TAKE m \in S
    <2>1. <<m, n>> \notin {ss \in Nat \X Nat : ss[1] < ss[2]}
      BY <1>1 DEF OpToRel
    <2>2. <<m, n>> \in Nat \X Nat /\ <<m, n>>[1] = m /\ <<m, n>>[2] = n
      OBVIOUS
    <2>3. ~(m < n)
      BY <2>1, <2>2
    <2> QED
      BY <2>3
  <1> QED
    BY <1>2 DEF Min

\* Amounts of orders, over payments and over obligations.
AmountsOn(o) == [p \in Payments |-> order[p][o].amt]
AmountsOf(p) == [o \in Obligations |-> order[p][o].amt]
TakersOf(o) == {p \in Payments : order[p][o].consumed}
TakenBy(p) == {o \in Obligations : order[p][o].consumed}

\* What a payment has spent and an obligation been given are sums of amounts.
LEMMA TotalsAre ==
  ASSUME AllocShapes
  PROVE  /\ \A p \in Payments : Spent(p) = Total(AmountsOf(p), TakenBy(p)) /\ Spent(p) \in Nat
         /\ \A o \in Obligations : Taken(o) = Total(AmountsOn(o), TakersOf(o)) /\ Taken(o) \in Nat
  <1>1. \A p \in Payments, o \in Obligations : order[p][o].amt \in Nat
    BY DEF AllocShapes, OrderShape
  <1>2. ASSUME NEW p \in Payments PROVE Spent(p) = Total(AmountsOf(p), TakenBy(p)) /\ Spent(p) \in Nat
    <2>1. Amounts(AmountsOf(p), Obligations) /\ TakenBy(p) \in SUBSET Obligations
      BY <1>1 DEF Amounts, AmountsOf, TakenBy
    <2>2. Total(AmountsOf(p), TakenBy(p)) \in Nat
      BY <2>1, AmountAssumption, TotalPart
    <2> QED
      BY <2>2 DEF Spent, AmountsOf, TakenBy
  <1>3. ASSUME NEW o \in Obligations PROVE Taken(o) = Total(AmountsOn(o), TakersOf(o)) /\ Taken(o) \in Nat
    <2>1. Amounts(AmountsOn(o), Payments) /\ TakersOf(o) \in SUBSET Payments
      BY <1>1 DEF Amounts, AmountsOn, TakersOf
    <2>2. Total(AmountsOn(o), TakersOf(o)) \in Nat
      BY <2>1, AmountAssumption, TotalPart
    <2> QED
      BY <2>2 DEF Taken, AmountsOn, TakersOf
  <1> QED
    BY <1>2, <1>3

\* Orders that have taken from their obligation stay as they are, and no other takes.
OrdersAlike ==
  \A p \in Payments, o \in Obligations :
    /\ order'[p][o].consumed = order[p][o].consumed
    /\ order[p][o].consumed => order'[p][o].amt = order[p][o].amt

\* They stay when no order takes.
LEMMA AlikeTotals ==
  ASSUME OrdersAlike
  PROVE  (\A p \in Payments : Spent(p)' = Spent(p)) /\ \A o \in Obligations : Taken(o)' = Taken(o)
  <1>1. ASSUME NEW p \in Payments PROVE Spent(p)' = Spent(p)
    <2>1. TakenBy(p)' = TakenBy(p) /\ TakenBy(p) \in SUBSET Obligations
      BY DEF OrdersAlike, TakenBy
    <2>2. SameOn(AmountsOf(p)', AmountsOf(p), TakenBy(p))
      BY DEF OrdersAlike, TakenBy, AmountsOf, SameOn
    <2>3. Total(AmountsOf(p)', TakenBy(p)') = Total(AmountsOf(p), TakenBy(p))
      BY <2>1, <2>2, SumsFinite, TotalSame
    <2> QED
      BY <2>3 DEF Spent, AmountsOf, TakenBy
  <1>2. ASSUME NEW o \in Obligations PROVE Taken(o)' = Taken(o)
    <2>1. TakersOf(o)' = TakersOf(o) /\ TakersOf(o) \in SUBSET Payments
      BY DEF OrdersAlike, TakersOf
    <2>2. SameOn(AmountsOn(o)', AmountsOn(o), TakersOf(o))
      BY DEF OrdersAlike, TakersOf, AmountsOn, SameOn
    <2>3. Total(AmountsOn(o)', TakersOf(o)') = Total(AmountsOn(o), TakersOf(o))
      BY <2>1, <2>2, SumsFinite, TotalSame
    <2> QED
      BY <2>3 DEF Taken, AmountsOn, TakersOf
  <1> QED
    BY <1>1, <1>2

\* An order takes from its obligation.
Takes(p, o) ==
  /\ ~order[p][o].consumed /\ order' = [order EXCEPT ![p][o].consumed = TRUE]

\* An order that takes is the only one to change.
LEMMA TakesOne ==
  ASSUME AllocShapes, NEW p \in Payments, NEW o \in Obligations, Takes(p, o)
  PROVE  /\ order'[p][o].consumed /\ order'[p][o].amt = order[p][o].amt
         /\ order'[p][o].st = order[p][o].st
         /\ \A q \in Payments, n \in Obligations : q # p \/ n # o => order'[q][n] = order[q][n]
         /\ order' \in [Payments -> [Obligations -> OrderShape]]
  <1>1. order[p][o] \in OrderShape /\ order[p] \in [Obligations -> OrderShape]
    BY DEF AllocShapes
  <1>2. order' = [order EXCEPT ![p] = [order[p] EXCEPT ![o] = [order[p][o] EXCEPT !.consumed = TRUE]]]
    BY DEF Takes
  <1>3. [order[p][o] EXCEPT !.consumed = TRUE] \in OrderShape
        /\ [order[p][o] EXCEPT !.consumed = TRUE].consumed
        /\ [order[p][o] EXCEPT !.consumed = TRUE].amt = order[p][o].amt
        /\ [order[p][o] EXCEPT !.consumed = TRUE].st = order[p][o].st
    BY <1>1 DEF OrderShape
  <1> DEFINE new == [order[p][o] EXCEPT !.consumed = TRUE]
  <1>4. order'[p][o] = new
    BY <1>1, <1>2 DEF AllocShapes
  <1> HIDE DEF new
  <1>5. \A q \in Payments, n \in Obligations : q # p \/ n # o => order'[q][n] = order[q][n]
    BY <1>1, <1>2 DEF AllocShapes
  <1>6. order' \in [Payments -> [Obligations -> OrderShape]]
    BY <1>1, <1>2, <1>3 DEF AllocShapes, new
  <1> QED
    BY <1>3, <1>4, <1>5, <1>6 DEF new

\* What it takes is spent by its payment and given to its obligation.
LEMMA TakesTotals ==
  ASSUME AllocShapes, NEW p \in Payments, NEW o \in Obligations, Takes(p, o)
  PROVE  /\ Spent(p)' = Spent(p) + order[p][o].amt
         /\ \A q \in Payments : q # p => Spent(q)' = Spent(q)
         /\ Taken(o)' = Taken(o) + order[p][o].amt
         /\ \A n \in Obligations : n # o => Taken(n)' = Taken(n)
  <1>1. /\ order'[p][o].consumed /\ order'[p][o].amt = order[p][o].amt
        /\ \A q \in Payments, n \in Obligations : q # p \/ n # o => order'[q][n] = order[q][n]
        /\ ~order[p][o].consumed /\ order[p][o].amt \in Nat
    BY TakesOne DEF Takes, AllocShapes, OrderShape
  <1>2. \A q \in Payments, n \in Obligations : order[q][n].amt \in Nat /\ order'[q][n].amt = order[q][n].amt
    BY <1>1 DEF AllocShapes, OrderShape
  <1>3. \A q \in Payments : AmountsOf(q)' = AmountsOf(q) /\ TakenBy(q) \in SUBSET Obligations
    BY <1>2 DEF AmountsOf, TakenBy
  <1>4. \A n \in Obligations : AmountsOn(n)' = AmountsOn(n) /\ TakersOf(n) \in SUBSET Payments
    BY <1>2 DEF AmountsOn, TakersOf
  <1>5. TakenBy(p)' = TakenBy(p) \union {o} /\ o \notin TakenBy(p)
        /\ TakersOf(o)' = TakersOf(o) \union {p} /\ p \notin TakersOf(o)
    BY <1>1 DEF TakenBy, TakersOf
  <1>6. /\ \A q \in Payments : q # p => TakenBy(q)' = TakenBy(q)
        /\ \A n \in Obligations : n # o => TakersOf(n)' = TakersOf(n)
    BY <1>1 DEF TakenBy, TakersOf
  <1>7. /\ Whole(AmountsOf(p), TakenBy(p)) /\ AmountsOf(p)[o] = order[p][o].amt
        /\ Whole(AmountsOn(o), TakersOf(o)) /\ AmountsOn(o)[p] = order[p][o].amt
    BY <1>2 DEF Whole, AmountsOf, TakenBy, AmountsOn, TakersOf
  <1>8. IsFiniteSet(TakenBy(p)) /\ IsFiniteSet(TakersOf(o))
    BY <1>3, <1>4, SumsFinite
  <1>9. Total(AmountsOf(p), TakenBy(p) \union {o}) = Total(AmountsOf(p), TakenBy(p)) + order[p][o].amt
    BY <1>1, <1>5, <1>7, <1>8, TotalInsert
  <1>10. Total(AmountsOn(o), TakersOf(o) \union {p}) = Total(AmountsOn(o), TakersOf(o)) + order[p][o].amt
    BY <1>1, <1>5, <1>7, <1>8, TotalInsert
  <1>11. \A q \in Payments : Spent(q) = Total(AmountsOf(q), TakenBy(q))
                             /\ Spent(q)' = Total(AmountsOf(q)', TakenBy(q)')
    BY DEF Spent, AmountsOf, TakenBy
  <1>12. \A n \in Obligations : Taken(n) = Total(AmountsOn(n), TakersOf(n))
                                /\ Taken(n)' = Total(AmountsOn(n)', TakersOf(n)')
    BY DEF Taken, AmountsOn, TakersOf
  <1> QED
    BY <1>3, <1>4, <1>5, <1>6, <1>9, <1>10, <1>11, <1>12

-----------------------------------------------------------------------------
(* What a step makes of its run *)

Others(r) == \A d \in Runs : d # r => run'[d] = run[d]

\* A new value of a run.
LEMMA RunBecomes ==
  ASSUME AllocShapes, NEW r \in Runs, NEW y \in RunShape, run' = [run EXCEPT ![r] = y]
  PROVE  run'[r] = y /\ Others(r) /\ run' \in [Runs -> RunShape]
  BY DEF AllocShapes, Others

\* A run that goes on to pc with everything else as it was.
LEMMA GoesTo ==
  ASSUME AllocShapes, NEW r \in Runs, NEW pc \in Pcs, To(r, pc)
  PROVE  /\ Others(r) /\ run' \in [Runs -> RunShape]
         /\ run'[r].pc = pc /\ run'[r].pay = run[r].pay /\ run'[r].suspense = run[r].suspense
         /\ run'[r].left = run[r].left /\ run'[r].seen = run[r].seen /\ run'[r].next = run[r].next
         /\ run'[r].amt = run[r].amt /\ run'[r].done = run[r].done
  <1>1. run[r] \in RunShape
    BY DEF AllocShapes
  <1>2. run' = [run EXCEPT ![r] = [run[r] EXCEPT !.pc = pc]]
    BY DEF To
  <1>3. [run[r] EXCEPT !.pc = pc] \in RunShape
    BY <1>1 DEF RunShape
  <1> QED
    BY <1>1, <1>2, <1>3 DEF AllocShapes, RunShape, Others

\* A run that ends.
LEMMA EndsRun ==
  ASSUME AllocShapes, NEW r \in Runs, run' = [run EXCEPT ![r] = Idle]
  PROVE  /\ Others(r) /\ run' \in [Runs -> RunShape] /\ run'[r] = Idle
         /\ run'[r].pc = "idle" /\ run'[r].seen = [o \in Obligations |-> 0]
  <1>1. Idle \in RunShape
    BY DEF Idle, RunShape, Pcs
  <1> QED
    BY <1>1 DEF AllocShapes, Idle, Others

\* A run that is through with the obligation it is at.
LEMMA PassesOn ==
  ASSUME AllocShapes, NEW r \in Runs, run' = Passed(r), run[r].next \in Obligations
  PROVE  /\ Others(r) /\ run' \in [Runs -> RunShape]
         /\ run'[r].pc = "walk" /\ run'[r].pay = run[r].pay /\ run'[r].suspense = run[r].suspense
         /\ run'[r].left = run[r].left
         /\ run'[r].seen = [run[r].seen EXCEPT ![run[r].next] = 0]
         /\ run'[r].amt = 0 /\ run'[r].done = run[r].done
  <1> DEFINE x == run[r]
             y == [x EXCEPT !.pc = "walk", !.seen = [x.seen EXCEPT ![x.next] = 0],
                            !.next = 0, !.amt = 0]
  <1>1. x \in RunShape
    BY DEF AllocShapes
  <1>2. run' = [run EXCEPT ![r] = y]
    BY DEF Passed
  <1>3. [x.seen EXCEPT ![x.next] = 0] \in [Obligations -> Nat] /\ "walk" \in Pcs
    BY <1>1 DEF RunShape, Pcs
  <1>4. y \in RunShape /\ y.pc = "walk" /\ y.pay = x.pay /\ y.suspense = x.suspense
        /\ y.left = x.left /\ y.seen = [x.seen EXCEPT ![x.next] = 0] /\ y.amt = 0 /\ y.done = x.done
    BY <1>1, <1>3 DEF RunShape
  <1> HIDE DEF y
  <1> QED
    BY <1>2, <1>4 DEF AllocShapes, Others

\* A run that took an order's amount from its obligation.
LEMMA CountsOn ==
  ASSUME AllocShapes, NEW r \in Runs, NEW o \in Obligations, run[r].next = o,
         run' = [Passed(r) EXCEPT ![r].left = @ - Portion(r, o), ![r].done = @ \union {o}]
  PROVE  /\ Others(r) /\ run' \in [Runs -> RunShape]
         /\ run'[r].pc = "walk" /\ run'[r].pay = run[r].pay /\ run'[r].suspense = run[r].suspense
         /\ run'[r].left = run[r].left - Portion(r, o) /\ run'[r].left \in Nat
         /\ Portion(r, o) \in Nat
         /\ run'[r].seen = [run[r].seen EXCEPT ![o] = 0] /\ run'[r].done = run[r].done \union {o}
  <1> DEFINE x == run[r]
             y == [x EXCEPT !.pc = "walk", !.seen = [x.seen EXCEPT ![o] = 0], !.next = 0,
                            !.amt = 0, !.left = x.left - Portion(r, o), !.done = x.done \union {o}]
  <1>1. x \in RunShape
    BY DEF AllocShapes
  <1>2. run' = [run EXCEPT ![r] = y]
    <2> DEFINE z == [x EXCEPT !.pc = "walk", !.seen = [x.seen EXCEPT ![x.next] = 0],
                              !.next = 0, !.amt = 0]
    <2>1. Passed(r) = [run EXCEPT ![r] = z]
      BY DEF Passed
    <2>2. z.left = x.left /\ z.done = x.done
      BY <1>1 DEF RunShape
    <2>3. y = [z EXCEPT !.left = x.left - Portion(r, o), !.done = x.done \union {o}]
      BY <1>1 DEF RunShape
    <2> HIDE DEF z, y
    <2>4. Passed(r)[r] = z /\ DOMAIN Passed(r) = Runs /\ \A d \in Runs : d # r => Passed(r)[d] = run[d]
      BY <2>1 DEF AllocShapes
    <2>5. run' = [Passed(r) EXCEPT ![r] = [z EXCEPT !.left = x.left - Portion(r, o), !.done = x.done \union {o}]]
      BY <2>2, <2>4
    <2>6. run' = [Passed(r) EXCEPT ![r] = y]
      BY <2>3, <2>5
    <2> QED
      BY <2>1, <2>6 DEF AllocShapes
  <1>3. [x.seen EXCEPT ![o] = 0] \in [Obligations -> Nat] /\ "walk" \in Pcs
    BY <1>1 DEF RunShape, Pcs
  <1>4. Portion(r, o) \in Nat /\ x.left - Portion(r, o) \in Nat
    BY <1>1 DEF Portion, Least, RunShape
  <1>5. y \in RunShape /\ y.pc = "walk" /\ y.pay = x.pay /\ y.suspense = x.suspense
        /\ y.left = x.left - Portion(r, o) /\ y.seen = [x.seen EXCEPT ![o] = 0]
        /\ y.done = x.done \union {o}
    BY <1>1, <1>3, <1>4 DEF RunShape
  <1> HIDE DEF y
  <1>6. run'[r] = y /\ Others(r) /\ run' \in [Runs -> RunShape]
    <2>1. y \in RunShape
      BY <1>5
    <2> QED
      BY <1>2, <2>1, RunBecomes
  <1> QED
    BY <1>4, <1>5, <1>6

\* A run that passes over an obligation.
Skips(r, o, D) ==
  run' = [run EXCEPT ![r] = [run[r] EXCEPT !.seen = [run[r].seen EXCEPT ![o] = 0], !.done = D]]

\* The others stay, and so does what the run has.
LEMMA SkipsOn ==
  ASSUME AllocShapes, NEW r \in Runs, NEW o \in Obligations, NEW D \in SUBSET Obligations,
         Skips(r, o, D)
  PROVE  /\ Others(r) /\ run' \in [Runs -> RunShape]
         /\ run'[r].pc = run[r].pc /\ run'[r].pay = run[r].pay /\ run'[r].suspense = run[r].suspense
         /\ run'[r].left = run[r].left /\ run'[r].seen = [run[r].seen EXCEPT ![o] = 0]
         /\ run'[r].next = run[r].next /\ run'[r].amt = run[r].amt /\ run'[r].done = D
  <1> DEFINE x == run[r]
             y == [x EXCEPT !.seen = [x.seen EXCEPT ![o] = 0], !.done = D]
  <1>1. x \in RunShape
    BY DEF AllocShapes
  <1>2. [x.seen EXCEPT ![o] = 0] \in [Obligations -> Nat]
    BY <1>1 DEF RunShape
  <1>3. y \in RunShape /\ y.pc = x.pc /\ y.pay = x.pay /\ y.suspense = x.suspense
        /\ y.left = x.left /\ y.seen = [x.seen EXCEPT ![o] = 0] /\ y.next = x.next /\ y.amt = x.amt
        /\ y.done = D
    BY <1>1, <1>2 DEF RunShape
  <1> HIDE DEF y
  <1>4. run' = [run EXCEPT ![r] = y]
    BY DEF y, Skips
  <1> QED
    BY <1>3, <1>4 DEF AllocShapes, Others

\* A run that turns to an obligation, with what is to be taken from it.
Turns(r, o, a) ==
  run' = [run EXCEPT ![r] = [run[r] EXCEPT !.pc = "consume", !.next = o, !.amt = a]]

\* The others stay, and so does what the run has left.
LEMMA TurnsTo ==
  ASSUME AllocShapes, NEW r \in Runs, NEW o \in Obligations, NEW a \in Nat, Turns(r, o, a)
  PROVE  /\ Others(r) /\ run' \in [Runs -> RunShape]
         /\ run'[r].pc = "consume" /\ run'[r].pay = run[r].pay /\ run'[r].suspense = run[r].suspense
         /\ run'[r].left = run[r].left /\ run'[r].seen = run[r].seen
         /\ run'[r].next = o /\ run'[r].amt = a /\ run'[r].done = run[r].done
  <1> DEFINE x == run[r]
             y == [x EXCEPT !.pc = "consume", !.next = o, !.amt = a]
  <1>1. x \in RunShape
    BY DEF AllocShapes
  <1>2. y \in RunShape /\ y.pc = "consume" /\ y.pay = x.pay /\ y.suspense = x.suspense
        /\ y.left = x.left /\ y.seen = x.seen /\ y.next = o /\ y.amt = a /\ y.done = x.done
    BY <1>1 DEF RunShape, Pcs
  <1> HIDE DEF y
  <1>3. run' = [run EXCEPT ![r] = y]
    BY DEF y, Turns
  <1> QED
    BY <1>2, <1>3 DEF AllocShapes, Others

\* A run that goes on to pc with n left, having seen s of the obligations.
Reads(r, pc, n, s) ==
  run' = [run EXCEPT ![r] = [run[r] EXCEPT !.pc = pc, !.left = n, !.seen = s]]

\* The others stay.
LEMMA ReadsOn ==
  ASSUME AllocShapes, NEW r \in Runs, NEW pc \in Pcs, NEW n \in Nat, NEW s \in [Obligations -> Nat],
         Reads(r, pc, n, s)
  PROVE  /\ Others(r) /\ run' \in [Runs -> RunShape]
         /\ run'[r].pc = pc /\ run'[r].pay = run[r].pay /\ run'[r].suspense = run[r].suspense
         /\ run'[r].left = n /\ run'[r].seen = s /\ run'[r].done = run[r].done
  <1> DEFINE x == run[r]
             y == [x EXCEPT !.pc = pc, !.left = n, !.seen = s]
  <1>1. x \in RunShape
    BY DEF AllocShapes
  <1>2. y \in RunShape /\ y.pc = pc /\ y.pay = x.pay /\ y.suspense = x.suspense
        /\ y.left = n /\ y.seen = s /\ y.done = x.done
    BY <1>1 DEF RunShape
  <1> HIDE DEF y
  <1>3. run' = [run EXCEPT ![r] = y]
    BY DEF y, Reads
  <1> QED
    BY <1>2, <1>3 DEF AllocShapes, Others

-----------------------------------------------------------------------------
(* Shapes *)

\* What is left of a payment that may be claimed.
LEMMA RemainderIs ==
  ASSUME AllocShapes, NEW p \in Payments
  PROVE  /\ Remainder(p) \in Nat /\ Remainder(p) <= Amount[p] /\ Amount[p] \in Nat
         /\ Remainder(p) = IF row[p].st = "new" THEN Amount[p] ELSE row[p].left
  BY AmountAssumption DEF Remainder, AllocShapes, PayRowShape, Unknown

\* A new value of the row of a payment.
LEMMA RowBecomes ==
  ASSUME AllocShapes, NEW p \in Payments, NEW y \in PayRowShape, row' = [row EXCEPT ![p] = y]
  PROVE  row'[p] = y /\ (\A q \in Payments : q # p => row'[q] = row[q])
         /\ row' \in [Payments -> PayRowShape]
  BY DEF AllocShapes

\* The lease of a payment changes hands.
LeaseTo(p, h) == row' = [row EXCEPT ![p].lease = h]

\* Nothing else of the payments changes.
LEMMA LeaseBecomes ==
  ASSUME AllocShapes, NEW p \in Payments, NEW h \in {"free"} \union Runs, LeaseTo(p, h)
  PROVE  /\ row' \in [Payments -> PayRowShape] /\ row'[p].lease = h
         /\ \A q \in Payments : q # p => row'[q] = row[q]
         /\ row'[p].owner = row[p].owner /\ row'[p].st = row[p].st /\ row'[p].left = row[p].left
  <1> DEFINE y == [row[p] EXCEPT !.lease = h]
  <1>1. row[p] \in PayRowShape
    BY DEF AllocShapes
  <1>2. y \in PayRowShape /\ y.lease = h /\ y.owner = row[p].owner /\ y.st = row[p].st
        /\ y.left = row[p].left
    BY <1>1 DEF PayRowShape
  <1> HIDE DEF y
  <1>3. row' = [row EXCEPT ![p] = y]
    BY DEF y, LeaseTo
  <1>4. row'[p] = y /\ (\A q \in Payments : q # p => row'[q] = row[q])
        /\ row' \in [Payments -> PayRowShape]
    <2>1. y \in PayRowShape
      BY <1>2
    <2> QED
      BY <1>3, <2>1, RowBecomes
  <1> QED
    BY <1>2, <1>4

\* A payment nobody owns is given an owner.
LEMMA OwnerBecomes ==
  ASSUME AllocShapes, NEW p \in Payments, NEW who \in MayOwn[p], AssignOwner(p, who)
  PROVE  /\ row' \in [Payments -> PayRowShape] /\ row'[p].owner = who
         /\ \A q \in Payments : q # p => row'[q] = row[q]
         /\ row'[p].lease = row[p].lease /\ row'[p].st = row[p].st /\ row'[p].left = row[p].left
         /\ row[p].owner = "none" /\ row[p].st = "new"
  <1> DEFINE y == [row[p] EXCEPT !.owner = who]
  <1>1. row[p] \in PayRowShape /\ who \in Owners
    BY AmountAssumption DEF AllocShapes
  <1>2. y \in PayRowShape /\ y.owner = who /\ y.lease = row[p].lease /\ y.st = row[p].st
        /\ y.left = row[p].left
    BY <1>1 DEF PayRowShape
  <1> HIDE DEF y
  <1>3. row' = [row EXCEPT ![p] = y]
    BY DEF y, AssignOwner
  <1>4. row'[p] = y /\ (\A q \in Payments : q # p => row'[q] = row[q])
        /\ row' \in [Payments -> PayRowShape]
    <2>1. y \in PayRowShape
      BY <1>2
    <2> QED
      BY <1>3, <2>1, RowBecomes
  <1> QED
    BY <1>2, <1>4 DEF AssignOwner

\* The outcome of a run goes onto the row, if the run still has its lease.
LEMMA OutcomeBecomes ==
  ASSUME AllocShapes, NEW r \in Runs, Record(r), Pay(r) \in Payments, run[r].left <= Amount[Pay(r)],
         row[Pay(r)].lease = r
  PROVE  LET p == Pay(r) IN
         /\ row' \in [Payments -> PayRowShape]
         /\ \A q \in Payments : q # p => row'[q] = row[q]
         /\ row'[p].owner = row[p].owner /\ row'[p].left = run[r].left
         /\ row'[p].st \in {"unallocated", "partial", "full"} /\ row'[p].lease = "free"
  <1> DEFINE p == Pay(r)
             st == Resolved(p, run[r].left)
             y == [row[p] EXCEPT !.st = st, !.left = run[r].left, !.lease = "free"]
  <1>1. row[p] \in PayRowShape /\ run[r].left \in Int /\ st \in {"unallocated", "partial", "full"}
        /\ st \in {"new", "unallocated", "partial", "full"}
    BY DEF AllocShapes, RunShape, Resolved
  <1> HIDE DEF st, p
  <1>2. y \in PayRowShape /\ y.owner = row[p].owner /\ y.st = st /\ y.left = run[r].left
        /\ y.lease = "free"
    BY <1>1 DEF PayRowShape
  <1>3. row' = [row EXCEPT ![p] = y]
    BY DEF Record, st, p
  <1> HIDE DEF y
  <1>4. row'[p] = y /\ (\A q \in Payments : q # p => row'[q] = row[q])
        /\ row' \in [Payments -> PayRowShape]
    <2>1. y \in PayRowShape /\ p \in Payments
      BY <1>2 DEF p
    <2> QED
      BY <1>3, <2>1, RowBecomes
  <1> QED
    BY <1>1, <1>2, <1>4 DEF p

\* An order changes its state.
OrderTo(p, o, y) == order' = [order EXCEPT ![p][o] = y]

\* A new value of an order.
LEMMA OrderBecomes ==
  ASSUME AllocShapes, NEW p \in Payments, NEW o \in Obligations, NEW y \in OrderShape,
         OrderTo(p, o, y)
  PROVE  /\ order'[p][o] = y /\ order' \in [Payments -> [Obligations -> OrderShape]]
         /\ \A q \in Payments, n \in Obligations : q # p \/ n # o => order'[q][n] = order[q][n]
  <1>1. order[p] \in [Obligations -> OrderShape]
    BY DEF AllocShapes
  <1>2. order' = [order EXCEPT ![p] = [order[p] EXCEPT ![o] = y]]
    BY DEF OrderTo
  <1>3. order'[p] = [order[p] EXCEPT ![o] = y] /\ \A q \in Payments : q # p => order'[q] = order[q]
    BY <1>2 DEF AllocShapes
  <1>4. order'[p][o] = y /\ order'[p] \in [Obligations -> OrderShape]
        /\ \A n \in Obligations : n # o => order'[p][n] = order[p][n]
    BY <1>1, <1>3
  <1>5. order' \in [Payments -> [Obligations -> OrderShape]]
    BY <1>2, <1>3, <1>4 DEF AllocShapes
  <1> QED
    BY <1>3, <1>4, <1>5

StateTo(p, o, s) == order' = [order EXCEPT ![p][o].st = s]

\* A new state of an order.
LEMMA StateBecomes ==
  ASSUME AllocShapes, NEW p \in Payments, NEW o \in Obligations,
         NEW s \in {"none", "raised", "posted", "parked"}, StateTo(p, o, s)
  PROVE  /\ order' \in [Payments -> [Obligations -> OrderShape]]
         /\ order'[p][o].st = s /\ order'[p][o].amt = order[p][o].amt
         /\ order'[p][o].consumed = order[p][o].consumed
         /\ \A q \in Payments, n \in Obligations : q # p \/ n # o => order'[q][n] = order[q][n]
         /\ OrdersAlike
  <1> DEFINE y == [order[p][o] EXCEPT !.st = s]
  <1>1. order[p][o] \in OrderShape /\ order[p] \in [Obligations -> OrderShape]
    BY DEF AllocShapes
  <1>2. y \in OrderShape /\ y.st = s /\ y.amt = order[p][o].amt /\ y.consumed = order[p][o].consumed
    BY <1>1 DEF OrderShape
  <1>3. OrderTo(p, o, y)
    BY DEF StateTo, OrderTo
  <1> HIDE DEF y
  <1>4. y \in OrderShape
    BY <1>2
  <1>5. /\ order'[p][o] = y /\ order' \in [Payments -> [Obligations -> OrderShape]]
        /\ \A q \in Payments, n \in Obligations : q # p \/ n # o => order'[q][n] = order[q][n]
    BY <1>3, <1>4, OrderBecomes
  <1>6. OrdersAlike
    BY <1>2, <1>5 DEF OrdersAlike
  <1> QED
    BY <1>2, <1>5, <1>6

-----------------------------------------------------------------------------
(* What a step leaves alone *)

OwedFalls ==
  \A o \in Obligations : owed[o] # Unknown => owed'[o] # Unknown /\ owed'[o] <= owed[o]
OwnersStay ==
  \A p \in Payments : row[p].owner # "none" => row'[p].owner = row[p].owner
OrdersStay ==
  \A p \in Payments, o \in Obligations : order[p][o].st # "none" =>
    order'[p][o].st # "none" /\ order'[p][o].amt = order[p][o].amt

\* Obligations only go down, owners and orders stay, and what is held against a payment is.
Advances ==
  OwedFalls /\ OwnersStay /\ OrdersStay /\ exceeded \subseteq exceeded' /\ overrun \subseteq overrun'

\* Nothing the run on a payment relies on changed.
PaymentStill(p) ==
  /\ row'[p].owner = row[p].owner /\ row'[p].left = row[p].left
  /\ Spent(p)' = Spent(p)
  /\ \A o \in Obligations :
       /\ order'[p][o].amt = order[p][o].amt /\ (Pending(p, o)' <=> Pending(p, o))
       /\ order'[p][o].st = "parked" /\ order'[p][o].consumed =>
            order[p][o].st = "parked" /\ order[p][o].consumed

OthersStill(p) == \A q \in Payments : q # p => PaymentStill(q)

\* A run other than r does not lose its lease, unless it outlived it.
LeasesStay(r) ==
  \A q \in Payments, d \in Runs :
    d # r /\ row[q].lease = d => row'[q].lease = d \/ q \in overrun'

\* What holds of a payment goes on when nothing its runs rely on changed.
LEMMA StillKept ==
  ASSUME AllocShapes, AllocShapes', OrdersSound, Advances, NEW p \in Payments, PaymentStill(p),
         PaymentKept(p)
  PROVE  PaymentKept(p)'
  <1>1. Spent(p) \in Nat /\ Spent(p)' = Spent(p) /\ Amount[p] \in Nat
    BY TotalsAre, AmountAssumption DEF PaymentStill
  <1>2. ASSUME NEW o \in Obligations, Pending(p, o)', row'[p].owner = "member"
        PROVE  order'[p][o].amt >= Least(owed'[o], Unspent(p)')
    <2>1. Pending(p, o) /\ order'[p][o].amt = order[p][o].amt /\ row[p].owner = "member"
      BY <1>2 DEF PaymentStill
    <2>2. order[p][o].amt >= Least(owed[o], Unspent(p))
      BY <2>1 DEF PaymentKept
    <2>3. owed'[o] <= owed[o]
      BY <2>1 DEF Pending, OrdersSound, OrderSound, Advances, OwedFalls
    <2>4. Unspent(p)' = Unspent(p) /\ Unspent(p) \in Int
      BY <1>1 DEF Unspent, AtLeast0
    <2>5. owed[o] \in Int /\ owed'[o] \in Int /\ order[p][o].amt \in Int
      BY DEF AllocShapes, OrderShape
    <2> QED
      BY <2>1, <2>2, <2>3, <2>4, <2>5 DEF Least
  <1>3. row'[p].left = row[p].left /\ row'[p].owner = row[p].owner
    BY DEF PaymentStill
  <1>4. \A o \in Obligations : order'[p][o].st = "parked" => ~order'[p][o].consumed
    BY DEF PaymentStill, PaymentKept
  <1>5. p \notin exceeded' => Spent(p)' <= Amount[p]
    BY <1>1 DEF PaymentKept, Advances
  <1>6. row'[p].owner = "member" /\ row'[p].left # Unknown => row'[p].left + Spent(p)' >= Amount[p]
    BY <1>1, <1>3 DEF PaymentKept
  <1> QED
    BY <1>2, <1>4, <1>5, <1>6 DEF PaymentKept

\* So does what holds of a run that did not move and has its lease.
LEMMA StillRuns ==
  ASSUME AllocShapes, Advances, NEW d \in Runs, NEW p \in Payments, run[d].pay = p,
         run'[d] = run[d], PaymentStill(p), row'[p].lease = d, RunKept(d), RunSound(d)
  PROVE  RunKept(d)'
  <1>1. run'[d].pay = p /\ run'[d].pc = run[d].pc /\ run'[d].left = run[d].left /\ run'[d].seen = run[d].seen
        /\ run'[d].next = run[d].next /\ run'[d].amt = run[d].amt /\ run'[d].suspense = run[d].suspense
    OBVIOUS
  <1>2. Unspent(p)' = Unspent(p) /\ Spent(p)' = Spent(p)
    BY DEF PaymentStill, Unspent
  <1>3. \A o \in Obligations : order'[p][o].amt = order[p][o].amt /\ (Pending(p, o)' <=> Pending(p, o))
    BY DEF PaymentStill
  <1>4. PICK n : n = run[d].next
    OBVIOUS
  <1>5. row'[p].owner = row[p].owner /\ (p \notin exceeded' => p \notin exceeded)
    BY DEF PaymentStill, Advances
  <1>6. run[d].pc \in {"consume", "park"} => n \in Obligations /\ Pending(p, n)'
    BY <1>3, <1>4 DEF RunSound, RunKept
  <1>7. run'[d].pc \in {"consume", "park"} => Pending(p, run[d].next)'
    BY <1>1, <1>4, <1>6
  <1>8. Portion(d, n)' = Portion(d, n)
    BY <1>1 DEF Portion
  <1>9. Portion(d, run[d].next)' = Portion(d, n)
    BY <1>1, <1>4, <1>8
  <1>10. p \notin exceeded' =>
          /\ run'[d].pc \in {"walk", "consume", "park"} => run'[d].left + Spent(p)' <= Amount[p]
          /\ run'[d].pc = "consume" => run'[d].amt <= Portion(d, run[d].next)'
    BY <1>1, <1>2, <1>4, <1>9, <1>5 DEF RunKept
  <1>11. row'[p].owner = "member" => run'[d].left + Spent(p)' >= Amount[p]
    BY <1>1, <1>2, <1>5 DEF RunKept
  <1>12. row'[p].owner = "member" =>
           \A o \in Obligations : Pending(p, o)' /\ run'[d].seen[o] > 0 =>
             /\ run'[d].pc = "paid" /\ ~run'[d].suspense =>
                  order'[p][o].amt >= Least(run'[d].seen[o], Unspent(p)')
             /\ run'[d].pc \in {"walk", "consume", "park"} =>
                  order'[p][o].amt >= Least(run'[d].seen[o], run'[d].left)
    BY <1>1, <1>2, <1>3, <1>5 DEF RunKept
  <1>13. run'[d].pc = "owed" /\ run'[d].suspense => run'[d].left <= Unspent(p)'
    BY <1>1, <1>2 DEF RunKept
  <1> QED
    BY <1>1, <1>7, <1>10, <1>11, <1>12, <1>13 DEF RunKept

\* A run that did not move saw what still is.
LEMMA SoundStays ==
  ASSUME AllocShapes, AllocShapes', Advances, NEW d \in Runs, run'[d] = run[d], RunSound(d)
  PROVE  RunSound(d)'
  <1>1. run'[d].pay = run[d].pay /\ run'[d].pc = run[d].pc /\ run'[d].left = run[d].left
        /\ run'[d].seen = run[d].seen /\ run'[d].next = run[d].next /\ run'[d].amt = run[d].amt
        /\ run'[d].suspense = run[d].suspense /\ run'[d].done = run[d].done
    OBVIOUS
  <1>2. run'[d].pc # "idle" => run'[d].pay \in Payments /\ row'[run'[d].pay].owner # "none"
                               /\ run'[d].left <= Amount[run'[d].pay]
    BY <1>1 DEF RunSound, Advances, OwnersStay
  <1>3. ASSUME NEW o \in Obligations
        PROVE  run'[d].seen[o] <= Owed[o]
               /\ (run'[d].seen[o] > 0 => owed'[o] # Unknown /\ owed'[o] <= run'[d].seen[o])
    <2>1. run[d].seen[o] \in Int /\ owed[o] \in Int /\ owed'[o] \in Int
      BY DEF AllocShapes, RunShape
    <2> QED
      BY <1>1, <2>1 DEF RunSound, Advances, OwedFalls
  <1>4. run'[d].pc \in {"consume", "park"} =>
          /\ run'[d].next \in Obligations /\ run'[d].seen[run'[d].next] > 0
          /\ order'[run'[d].pay][run'[d].next].st # "none"
          /\ run'[d].amt = order'[run'[d].pay][run'[d].next].amt
    BY <1>1 DEF RunSound, Advances, OrdersStay
  <1> QED
    BY <1>1, <1>2, <1>3, <1>4 DEF RunSound

\* A step of one run, on one payment, keeps the invariant if it does so of that run and
\* that payment: a second run of the payment has no lease any more.
LEMMA OneRunKeeps ==
  ASSUME AllocInv, NEW r \in Runs, NEW p \in Payments, AllocShapes', Advances, Others(r),
         OrdersSound', RunSound(r)', OwedAddsUp', OthersStill(p),
         run[r].pc \in Leasing => Pay(r) = p,
         run[r].pc \in Leasing \/ PaymentStill(p),
         LeasesStay(r), p \notin overrun' => PaymentKept(p)',
         run'[r].pc \in Leasing /\ Pay(r)' \notin overrun' => RunKept(r)'
  PROVE  AllocInv'
  <1>1. AllocShapes /\ OrdersSound /\ RunsSound /\ OwedAddsUp /\ PaymentsKept /\ RunsKept
    BY DEF AllocInv
  <1>2. RunsSound'
    <2> SUFFICES ASSUME NEW d \in Runs PROVE RunSound(d)'
      BY DEF RunsSound
    <2>1. CASE d = r
      BY <2>1
    <2>2. CASE d # r
      BY <1>1, <2>2, SoundStays DEF Others, RunsSound
    <2> QED
      BY <2>1, <2>2
  <1>3. PaymentsKept'
    <2> SUFFICES ASSUME NEW q \in Payments, q \notin overrun' PROVE PaymentKept(q)'
      BY DEF PaymentsKept
    <2>1. CASE q = p
      BY <2>1
    <2>2. CASE q # p
      <3>1. PaymentStill(q) /\ PaymentKept(q)
        BY <1>1, <2>2 DEF OthersStill, PaymentsKept, Advances
      <3> QED
        BY <1>1, <3>1, StillKept
    <2> QED
      BY <2>1, <2>2
  <1>4. ASSUME NEW d \in Runs, d # r, run'[d].pc \in Leasing, Pay(d)' \notin overrun'
        PROVE  RunKept(d)'
    <2>1. run'[d] = run[d] /\ run[d].pc \in Leasing
      BY <1>4 DEF Others
    <2>2. PICK q \in Payments : q = run[d].pay
      BY <1>1, <2>1 DEF RunsSound, RunSound, Leasing
    <2>3. q \notin overrun /\ q \notin overrun' /\ Pay(d) = q
      BY <1>4, <2>1, <2>2 DEF Pay, Advances
    <2>4. RunKept(d)
      BY <1>1, <2>1, <2>3 DEF RunsKept
    <2>5. row[q].lease = d
      BY <2>2, <2>4 DEF RunKept
    <2>6. row'[q].lease = d
      BY <1>4, <2>3, <2>5 DEF LeasesStay
    <2>7. PaymentStill(q)
      <3>1. CASE q # p
        BY <3>1 DEF OthersStill
      <3>2. CASE q = p /\ run[r].pc \in Leasing
        <4>1. RunKept(r) /\ run[r].pay = q
          BY <1>1, <2>3, <3>2 DEF RunsKept, Pay
        <4>2. row[q].lease = r
          BY <4>1 DEF RunKept
        <4> QED
          BY <1>4, <2>5, <4>2
      <3> QED
        BY <3>1, <3>2
    <2> QED
      BY <1>1, <2>1, <2>2, <2>4, <2>6, <2>7, StillRuns DEF RunsSound
  <1>5. RunsKept'
    <2> SUFFICES ASSUME NEW d \in Runs, run'[d].pc \in Leasing, Pay(d)' \notin overrun' PROVE RunKept(d)'
      BY DEF RunsKept
    <2>1. CASE d = r
      BY <2>1
    <2>2. CASE d # r
      BY <2>2, <1>4
    <2> QED
      BY <2>1, <2>2
  <1> QED
    BY <1>2, <1>3, <1>5 DEF AllocInv

\* The invariant keeps when no run moves and no payment is disturbed.
LEMMA NoRunKeeps ==
  ASSUME AllocInv, AllocShapes', Advances, run' = run, overrun' = overrun,
         OrdersSound', OwedAddsUp',
         \A q \in Payments : row'[q].lease = row[q].lease,
         NEW p, OthersStill(p), p \in Payments /\ p \notin overrun => PaymentKept(p)',
         p \in Payments => PaymentStill(p) \/ row[p].owner = "none"
  PROVE  AllocInv'
  <1>1. AllocShapes /\ OrdersSound /\ RunsSound /\ OwedAddsUp /\ PaymentsKept /\ RunsKept
    BY DEF AllocInv
  <1>2. RunsSound'
    <2> SUFFICES ASSUME NEW d \in Runs PROVE RunSound(d)'
      BY DEF RunsSound
    <2> QED
      BY <1>1, SoundStays DEF RunsSound
  <1>3. PaymentsKept'
    <2> SUFFICES ASSUME NEW q \in Payments, q \notin overrun' PROVE PaymentKept(q)'
      BY DEF PaymentsKept
    <2>1. CASE q # p
      <3>1. PaymentStill(q) /\ PaymentKept(q)
        BY <1>1, <2>1 DEF OthersStill, PaymentsKept
      <3> QED
        BY <1>1, <3>1, StillKept
    <2> QED
      BY <2>1
  <1>4. ASSUME NEW d \in Runs, run'[d].pc \in Leasing, Pay(d)' \notin overrun'
        PROVE  RunKept(d)'
    <2>1. PICK q \in Payments : q = run[d].pay
      BY <1>1, <1>4 DEF RunsSound, RunSound, Leasing
    <2>2. q \notin overrun /\ Pay(d) = q /\ row[q].owner # "none"
      BY <1>1, <1>4, <2>1 DEF Pay, RunsSound, RunSound, Leasing
    <2>3. RunKept(d)
      BY <1>1, <1>4, <2>2 DEF RunsKept
    <2>4. row'[q].lease = d
      BY <2>1, <2>3 DEF RunKept
    <2>5. PaymentStill(q)
      BY <2>2 DEF OthersStill
    <2> QED
      BY <1>1, <2>1, <2>3, <2>4, <2>5, StillRuns DEF RunsSound
  <1> QED
    BY <1>2, <1>3, <1>4 DEF AllocInv, RunsKept

-----------------------------------------------------------------------------
(* Steps that move a run and nothing else the invariant is about *)

\* Nothing changes for any payment.
LEMMA AllStill ==
  ASSUME UNCHANGED <<row, owed, order>>, exceeded \subseteq exceeded', overrun \subseteq overrun',
         AllocShapes
  PROVE  /\ Advances /\ (\A q \in Payments : PaymentStill(q))
         /\ (OrdersSound => OrdersSound') /\ (OwedAddsUp => OwedAddsUp')
         /\ \A r \in Runs : LeasesStay(r)
  <1>1. OrdersAlike
    BY DEF OrdersAlike
  <1>2. (\A q \in Payments : Spent(q)' = Spent(q)) /\ \A o \in Obligations : Taken(o)' = Taken(o)
    BY <1>1, AlikeTotals
  <1>3. Advances
    <2>1. \A o \in Obligations : owed'[o] = owed[o] /\ owed[o] \in Int
      BY DEF AllocShapes
    <2> QED
      BY <2>1 DEF Advances, OwedFalls, OwnersStay, OrdersStay
  <1>4. \A q \in Payments : PaymentStill(q)
    BY <1>2 DEF PaymentStill, Pending
  <1>5. OrdersSound => OrdersSound'
    BY DEF OrdersSound, OrderSound
  <1>6. OwedAddsUp => OwedAddsUp'
    BY <1>2 DEF OwedAddsUp
  <1> QED
    BY <1>3, <1>4, <1>5, <1>6 DEF LeasesStay

\* The invariant keeps if the run that moved does.
LEMMA RunOnlyKeeps ==
  ASSUME AllocInv, NEW r \in Runs, NEW p \in Payments, UNCHANGED <<row, owed, order, overrun, lapses>>,
         exceeded \subseteq exceeded', exceeded' \subseteq Payments,
         landing' \in [Payments -> {"none", "raised", "posted"}], faults' \in 0..MaxFaults,
         run' \in [Runs -> RunShape], Others(r), RunSound(r)',
         run[r].pc \in Leasing => Pay(r) = p,
         run'[r].pc \in Leasing /\ Pay(r)' \notin overrun => RunKept(r)'
  PROVE  AllocInv'
  <1>1. AllocShapes /\ OrdersSound /\ OwedAddsUp /\ PaymentsKept
    BY DEF AllocInv
  <1>2. /\ Advances /\ (\A q \in Payments : PaymentStill(q)) /\ OrdersSound' /\ OwedAddsUp' /\ LeasesStay(r)
    BY <1>1, AllStill
  <1>3. AllocShapes'
    BY <1>1 DEF AllocShapes
  <1>4. p \notin overrun' => PaymentKept(p)'
    BY <1>1, <1>2, <1>3, StillKept DEF PaymentsKept
  <1>5. OthersStill(p) /\ PaymentStill(p)
    BY <1>2 DEF OthersStill
  <1>6. run'[r].pc \in Leasing /\ Pay(r)' \notin overrun' => RunKept(r)'
    OBVIOUS
  <1> QED
    BY <1>2, <1>3, <1>4, <1>5, <1>6, OneRunKeeps

-----------------------------------------------------------------------------
(* The reads of a run *)

\* A run that goes on to pc with n left.
Leaves(r, pc, n) == run' = [run EXCEPT ![r] = [run[r] EXCEPT !.pc = pc, !.left = n]]

\* The others stay.
LEMMA LeavesOn ==
  ASSUME AllocShapes, NEW r \in Runs, NEW pc \in Pcs, NEW n \in Nat, Leaves(r, pc, n)
  PROVE  /\ Others(r) /\ run' \in [Runs -> RunShape]
         /\ run'[r].pc = pc /\ run'[r].pay = run[r].pay /\ run'[r].suspense = run[r].suspense
         /\ run'[r].left = n /\ run'[r].seen = run[r].seen /\ run'[r].done = run[r].done
  <1> DEFINE x == run[r]
             y == [x EXCEPT !.pc = pc, !.left = n]
  <1>1. x \in RunShape
    BY DEF AllocShapes
  <1>2. y \in RunShape /\ y.pc = pc /\ y.pay = x.pay /\ y.suspense = x.suspense
        /\ y.left = n /\ y.seen = x.seen /\ y.done = x.done
    BY <1>1 DEF RunShape
  <1> HIDE DEF y
  <1>3. run' = [run EXCEPT ![r] = y]
    BY DEF y, Leaves
  <1> QED
    BY <1>2, <1>3 DEF AllocShapes, Others

\* What the invariant says of a run under way.
LEMMA RunFacts ==
  ASSUME AllocInv, NEW r \in Runs, run[r].pc # "idle"
  PROVE  /\ Pay(r) \in Payments /\ run[r].left \in Nat /\ run[r].left <= Amount[Pay(r)]
         /\ row[Pay(r)].owner # "none" /\ run[r].seen \in [Obligations -> Nat]
         /\ Amount[Pay(r)] \in Nat /\ Spent(Pay(r)) \in Nat
         /\ AllocShapes /\ RunSound(r) /\ run[r] \in RunShape
         /\ (run[r].pc \in Leasing /\ Pay(r) \notin overrun => RunKept(r))
         /\ (Pay(r) \notin overrun => PaymentKept(Pay(r)))
  <1>1. AllocShapes /\ OrdersSound /\ RunSound(r) /\ PaymentsKept /\ RunsKept
    BY DEF AllocInv, RunsSound
  <1>2. run[r] \in RunShape /\ Pay(r) \in Payments
    BY <1>1 DEF AllocShapes, RunSound, Pay
  <1> QED
    BY <1>1, <1>2, TotalsAre, AmountAssumption DEF RunSound, RunShape, Pay, PaymentsKept, RunsKept

\* What takes the payment in is raised.
LEMMA LandKeeps ==
  ASSUME AllocInv, NEW r \in Runs, Land(r)
  PROVE  AllocInv'
  <1>1. run[r].pc = "land"
    BY DEF Land, At
  <1>2. AllocShapes
    BY DEF AllocInv
  <1>3. PICK p \in Payments : p = run[r].pay
    BY <1>1, RunFacts DEF Pay
  <1>4. /\ run[r].left \in Nat /\ run[r].left <= Amount[p] /\ row[p].owner # "none"
        /\ run[r].seen \in [Obligations -> Nat] /\ Amount[p] \in Nat /\ Spent(p) \in Nat /\ RunSound(r)
        /\ (p \notin overrun => RunKept(r) /\ PaymentKept(p))
    BY <1>1, <1>3, RunFacts DEF Pay, Leasing
  <1>5. UNCHANGED <<row, owed, order, exceeded, overrun, lapses, faults>>
    BY DEF Land, past
  <1>6. landing' \in [Payments -> {"none", "raised", "posted"}]
    BY <1>2, <1>3 DEF AllocShapes, Land, Pay
  <1>7. /\ Advances /\ (\A q \in Payments : PaymentStill(q))
    BY <1>2, <1>5, AllStill
  <1>8. ~run[r].suspense
    BY <1>1, <1>4 DEF RunSound
  <1>9. CASE row[p].owner = "member"
    <2>1. To(r, "owed") /\ "owed" \in Pcs
      BY <1>3, <1>9 DEF Land, Pay, Pcs
    <2>2. /\ Others(r) /\ run' \in [Runs -> RunShape]
          /\ run'[r].pc = "owed" /\ run'[r].pay = p /\ run'[r].suspense = run[r].suspense
          /\ run'[r].left = run[r].left /\ run'[r].seen = run[r].seen
      BY <1>2, <1>3, <2>1, GoesTo
    <2>3. RunSound(r)'
      BY <1>1, <1>3, <1>4, <1>5, <1>8, <2>2 DEF RunSound
    <2>4. p \notin overrun => RunKept(r)'
      <3> HAVE p \notin overrun
      <3>1. RunKept(r) /\ row[p].lease = r
        BY <1>3, <1>4 DEF RunKept
      <3>2. Spent(p)' = Spent(p)
        BY <1>7 DEF PaymentStill
      <3>3. row[p].owner = "member" => run[r].left + Spent(p) >= Amount[p]
        BY <1>3, <3>1 DEF RunKept
      <3> QED
        BY <1>5, <1>8, <2>2, <3>1, <3>2, <3>3 DEF RunKept
    <2> QED
      BY <1>2, <1>3, <1>5, <1>6, <2>2, <2>3, <2>4, RunOnlyKeeps DEF Pay, AllocShapes
  <1>10. CASE row[p].owner # "member"
    <2>1. run' = [run EXCEPT ![r] = [run[r] EXCEPT !.pc = "walk", !.left = 0]] /\ "walk" \in Pcs
      BY <1>3, <1>10 DEF Land, Pay, Pcs
    <2>2. /\ Others(r) /\ run' \in [Runs -> RunShape]
          /\ run'[r].pc = "walk" /\ run'[r].pay = p /\ run'[r].suspense = run[r].suspense
          /\ run'[r].left = 0 /\ run'[r].seen = run[r].seen
      <3>1. Leaves(r, "walk", 0)
      BY <2>1 DEF Leaves
    <3>2. "walk" \in Pcs
      BY <2>1
    <3> QED
      BY <1>2, <1>3, <3>1, <3>2, LeavesOn
    <2>3. RunSound(r)'
      BY <1>1, <1>3, <1>4, <1>5, <1>8, <2>2 DEF RunSound
    <2>4. p \notin overrun => RunKept(r)'
      <3> HAVE p \notin overrun
      <3>1. RunKept(r) /\ row[p].lease = r /\ PaymentKept(p)
        BY <1>3, <1>4 DEF RunKept
      <3>2. Spent(p)' = Spent(p)
        BY <1>7 DEF PaymentStill
      <3>3. p \notin exceeded => Spent(p) <= Amount[p]
        BY <3>1 DEF PaymentKept
      <3> QED
        BY <1>4, <1>5, <1>10, <2>2, <3>1, <3>2, <3>3 DEF RunKept
    <2> QED
      BY <1>2, <1>3, <1>5, <1>6, <2>2, <2>3, <2>4, RunOnlyKeeps DEF Pay, AllocShapes
  <1> QED
    BY <1>9, <1>10

\* The obligations are read.
LEMMA ReadOwedKeeps ==
  ASSUME AllocInv, NEW r \in Runs, ReadOwed(r)
  PROVE  AllocInv'
  <1> DEFINE pc == IF run[r].suspense THEN "walk" ELSE "paid"
             s == [o \in Obligations |-> AtLeast0(owed[o])]
  <1>1. run[r].pc = "owed"
    BY DEF ReadOwed, At
  <1>2. AllocShapes
    BY DEF AllocInv
  <1>3. PICK p \in Payments : p = run[r].pay
    BY <1>1, RunFacts DEF Pay
  <1>4. /\ run[r].left \in Nat /\ run[r].left <= Amount[p] /\ row[p].owner # "none"
        /\ run[r].seen \in [Obligations -> Nat] /\ Amount[p] \in Nat /\ Spent(p) \in Nat /\ RunSound(r)
        /\ (p \notin overrun => RunKept(r) /\ PaymentKept(p))
    BY <1>1, <1>3, RunFacts DEF Pay, Leasing
  <1>5. UNCHANGED <<row, owed, order, landing, exceeded, overrun, lapses, faults>>
    BY DEF ReadOwed, past
  <1>6. \A o \in Obligations : owed[o] \in Int /\ owed[o] <= Owed[o] /\ Owed[o] \in Nat
    BY <1>2, AmountAssumption DEF AllocShapes, Unknown
  <1>7. s \in [Obligations -> Nat] /\ pc \in Pcs
    BY <1>6 DEF AtLeast0, Pcs
  <1>8. Reads(r, pc, run[r].left, s)
    <2>1. run' = [run EXCEPT ![r] = [run[r] EXCEPT !.pc = pc, !.seen = s]]
      BY DEF ReadOwed
    <2>2. [run[r] EXCEPT !.pc = pc, !.seen = s] = [run[r] EXCEPT !.pc = pc, !.left = run[r].left, !.seen = s]
      <3>1. run[r] \in RunShape
        BY <1>2 DEF AllocShapes
      <3> HIDE DEF pc, s
      <3> QED
        BY <3>1 DEF RunShape
    <2> QED
      BY <2>1, <2>2 DEF Reads
  <1>9. \A o \in Obligations : s[o] <= Owed[o] /\ (s[o] > 0 => owed[o] # Unknown /\ owed[o] = s[o])
    BY <1>6 DEF AtLeast0, Unknown
  <1>10. (pc = "paid" /\ ~run[r].suspense) \/ (pc = "walk" /\ run[r].suspense)
    OBVIOUS
  <1> HIDE DEF pc, s
  <1>11. /\ Others(r) /\ run' \in [Runs -> RunShape]
         /\ run'[r].pc = pc /\ run'[r].pay = p /\ run'[r].suspense = run[r].suspense
         /\ run'[r].left = run[r].left /\ run'[r].seen = s
    <2>1. s \in [Obligations -> Nat]
      BY <1>7
    <2>2. pc \in Pcs
      BY <1>7
    <2>3. run[r].left \in Nat
      BY <1>4
    <2> QED
      BY <1>2, <1>3, <1>8, <2>1, <2>2, <2>3, ReadsOn
  <1>12. RunSound(r)'
    BY <1>1, <1>3, <1>4, <1>5, <1>6, <1>9, <1>10, <1>11 DEF RunSound
  <1>13. p \notin overrun => RunKept(r)'
    <2> HAVE p \notin overrun
    <2>1. RunKept(r) /\ PaymentKept(p)
      BY <1>4
    <2>2. \A q \in Payments : PaymentStill(q)
      BY <1>2, <1>5, AllStill
    <2>3. Spent(p)' = Spent(p) /\ Unspent(p)' = Unspent(p) /\ Unspent(p) \in Nat
          /\ \A o \in Obligations : (Pending(p, o)' <=> Pending(p, o)) /\ order[p][o].amt \in Int
      BY <1>2, <1>4, <2>2 DEF PaymentStill, Unspent, AtLeast0, AllocShapes, OrderShape
    <2>4. row[p].lease = r /\ (row[p].owner = "member" => run[r].left + Spent(p) >= Amount[p])
          /\ (run[r].suspense => run[r].left <= Unspent(p))
      BY <1>1, <1>3, <2>1 DEF RunKept
    <2>5. p \notin exceeded => Spent(p) <= Amount[p]
      BY <2>1 DEF PaymentKept
    <2>6. ASSUME row[p].owner = "member", NEW o \in Obligations, Pending(p, o), s[o] > 0
          PROVE  /\ order[p][o].amt >= Least(s[o], Unspent(p))
                 /\ run[r].suspense => order[p][o].amt >= Least(s[o], run[r].left)
      <3>1. order[p][o].amt >= Least(s[o], Unspent(p))
        BY <1>9, <2>1, <2>6 DEF PaymentKept
      <3>2. s[o] \in Int /\ Unspent(p) \in Int /\ run[r].left \in Int /\ order[p][o].amt \in Int
        BY <1>4, <1>7, <2>3
      <3> QED
        BY <2>4, <3>1, <3>2 DEF Least
    <2>7. p \notin exceeded /\ run[r].suspense => run[r].left + Spent(p) <= Amount[p]
      BY <1>4, <2>4, <2>5 DEF Unspent, AtLeast0
    <2> QED
      BY <1>5, <1>10, <1>11, <2>3, <2>4, <2>6, <2>7 DEF RunKept
  <1>14. run'[r].pc \in Leasing /\ Pay(r)' \notin overrun => RunKept(r)'
    BY <1>11, <1>13 DEF Pay
  <1>15. landing' \in [Payments -> {"none", "raised", "posted"}] /\ faults' \in 0..MaxFaults
         /\ exceeded' \subseteq Payments /\ exceeded \subseteq exceeded' /\ Pay(r) = p
    BY <1>2, <1>3, <1>5 DEF AllocShapes, Pay
  <1> QED
    BY <1>5, <1>11, <1>12, <1>14, <1>15, RunOnlyKeeps

\* What the orders of the payment paid is read.
LEMMA ReadPaidKeeps ==
  ASSUME AllocInv, NEW r \in Runs, ReadPaid(r)
  PROVE  AllocInv'
  <1> DEFINE pc == IF run[r].suspense THEN "owed" ELSE "walk"
             n == AtLeast0(Least(run[r].left, Amount[Pay(r)] - Spent(Pay(r))))
  <1>1. run[r].pc = "paid"
    BY DEF ReadPaid, At
  <1>2. AllocShapes
    BY DEF AllocInv
  <1>3. PICK p \in Payments : p = run[r].pay
    BY <1>1, RunFacts DEF Pay
  <1>4. /\ run[r].left \in Nat /\ run[r].left <= Amount[p] /\ row[p].owner # "none"
        /\ run[r].seen \in [Obligations -> Nat] /\ Amount[p] \in Nat /\ Spent(p) \in Nat /\ RunSound(r)
        /\ (p \notin overrun => RunKept(r) /\ PaymentKept(p))
    BY <1>1, <1>3, RunFacts DEF Pay, Leasing
  <1>5. UNCHANGED <<row, owed, order, landing, exceeded, overrun, lapses, faults>>
    BY DEF ReadPaid, past
  <1>6. n = AtLeast0(Least(run[r].left, Amount[p] - Spent(p)))
    BY <1>3 DEF Pay
  <1>7. n \in Nat /\ n <= run[r].left /\ n <= Unspent(p) /\ (n = run[r].left \/ n = Unspent(p))
        /\ pc \in Pcs /\ Unspent(p) \in Nat
    BY <1>4, <1>6 DEF AtLeast0, Least, Unspent, Pcs
  <1>8. Leaves(r, pc, n)
    <2>1. [run[r] EXCEPT !.pc = pc, !.left = n] = [run[r] EXCEPT !.left = n, !.pc = pc]
      <3>1. run[r] \in RunShape
        BY <1>2 DEF AllocShapes
      <3> HIDE DEF pc, n
      <3> QED
        BY <3>1 DEF RunShape
    <2>2. run' = [run EXCEPT ![r] = [run[r] EXCEPT !.left = n, !.pc = pc]]
      BY DEF ReadPaid
    <2> QED
      BY <2>1, <2>2 DEF Leaves
  <1>9. (pc = "owed" /\ run[r].suspense) \/ (pc = "walk" /\ ~run[r].suspense)
    OBVIOUS
  <1> HIDE DEF pc, n
  <1>10. /\ Others(r) /\ run' \in [Runs -> RunShape]
         /\ run'[r].pc = pc /\ run'[r].pay = p /\ run'[r].suspense = run[r].suspense
         /\ run'[r].left = n /\ run'[r].seen = run[r].seen
    <2>1. n \in Nat
      BY <1>7
    <2>2. pc \in Pcs
      BY <1>7
    <2> QED
      BY <1>2, <1>3, <1>8, <2>1, <2>2, LeavesOn
  <1>11. RunSound(r)'
    <2>1. n <= Amount[p]
      BY <1>4, <1>7
    <2> QED
      BY <1>1, <1>3, <1>4, <1>5, <2>1, <1>9, <1>10 DEF RunSound
  <1>12. p \notin overrun => RunKept(r)'
    <2> HAVE p \notin overrun
    <2>1. RunKept(r) /\ PaymentKept(p)
      BY <1>4
    <2>2. \A q \in Payments : PaymentStill(q)
      BY <1>2, <1>5, AllStill
    <2>3. Spent(p)' = Spent(p) /\ Unspent(p)' = Unspent(p)
          /\ \A o \in Obligations : (Pending(p, o)' <=> Pending(p, o)) /\ order[p][o].amt \in Int
      BY <1>2, <1>4, <2>2 DEF PaymentStill, Unspent, AtLeast0, AllocShapes, OrderShape
    <2>4. row[p].lease = r /\ (row[p].owner = "member" => n + Spent(p) >= Amount[p])
      <3>1. row[p].lease = r /\ (row[p].owner = "member" => run[r].left + Spent(p) >= Amount[p])
        BY <1>1, <1>3, <2>1 DEF RunKept
      <3>2. Unspent(p) + Spent(p) >= Amount[p]
        BY <1>4 DEF Unspent, AtLeast0
      <3> QED
        BY <1>4, <1>7, <3>1, <3>2
    <2>5. p \notin exceeded => n + Spent(p) <= Amount[p]
      BY <1>4, <1>7, <2>1 DEF PaymentKept, Unspent, AtLeast0
    <2>6. ASSUME row[p].owner = "member", NEW o \in Obligations, Pending(p, o), run[r].seen[o] > 0,
                 ~run[r].suspense
          PROVE  order[p][o].amt >= Least(run[r].seen[o], n)
      <3>1. order[p][o].amt >= Least(run[r].seen[o], Unspent(p))
        BY <1>1, <1>3, <2>1, <2>6 DEF RunKept
      <3>2. run[r].seen[o] \in Int /\ Unspent(p) \in Int /\ order[p][o].amt \in Int
        BY <1>4, <1>7, <2>3
      <3> QED
        BY <1>7, <3>1, <3>2 DEF Least
    <2> QED
      BY <1>5, <1>7, <1>9, <1>10, <2>3, <2>4, <2>5, <2>6 DEF RunKept
  <1>13. run'[r].pc \in Leasing /\ Pay(r)' \notin overrun => RunKept(r)'
    BY <1>10, <1>12 DEF Pay
  <1>14. landing' \in [Payments -> {"none", "raised", "posted"}] /\ faults' \in 0..MaxFaults
         /\ exceeded' \subseteq Payments /\ exceeded \subseteq exceeded' /\ Pay(r) = p
    BY <1>2, <1>3, <1>5 DEF AllocShapes, Pay
  <1> QED
    BY <1>5, <1>10, <1>11, <1>13, <1>14, RunOnlyKeeps

-----------------------------------------------------------------------------
(* The walk over the obligations *)

\* The faults there may still be.
LEMMA FaultKept ==
  ASSUME AllocShapes, Fault
  PROVE  faults' \in 0..MaxFaults
  <1>1. faults \in Int /\ faults > 0 /\ faults <= MaxFaults /\ faults' = faults - 1
    BY BoundAssumption DEF AllocShapes, Fault
  <1> QED
    BY <1>1, BoundAssumption

\* What a run at an obligation of its walk has seen of it.
LEMMA AtFacts ==
  ASSUME NEW r \in Runs, NEW o \in Obligations, AtObligation(r, o)
  PROVE  run[r].seen[o] > 0 /\ run[r].left > 0
  BY DEF AtObligation, Open

\* What a run needs to go on to the next obligation.
LEMMA WalkKept ==
  ASSUME AllocInv, NEW r \in Runs, NEW p \in Payments, run[r].pay = p,
         run[r].pc \in {"walk", "consume", "park"}, p \notin overrun,
         run'[r].pay = p, run'[r].pc = "walk", run'[r].left = run[r].left,
         \A o \in Obligations : run'[r].seen[o] > 0 => run'[r].seen[o] = run[r].seen[o],
         row' = row, exceeded \subseteq exceeded', Spent(p)' = Spent(p),
         \A o \in Obligations : Pending(p, o)' => Pending(p, o) /\ order'[p][o].amt = order[p][o].amt
  PROVE  RunKept(r)'
  <1>1. RunKept(r)
    <2>1. run[r].pc # "idle" /\ run[r].pc \in Leasing /\ Pay(r) = p
      BY DEF Leasing, Pay
    <2> QED
      BY <2>1, RunFacts
  <1>2. row'[p].lease = r
    BY <1>1 DEF RunKept
  <1>3. p \notin exceeded' => run'[r].left + Spent(p)' <= Amount[p]
    BY <1>1 DEF RunKept
  <1>4. row'[p].owner = "member" => run'[r].left + Spent(p)' >= Amount[p]
    BY <1>1 DEF RunKept
  <1>5. ASSUME row'[p].owner = "member", NEW o \in Obligations, Pending(p, o)', run'[r].seen[o] > 0
        PROVE  order'[p][o].amt >= Least(run'[r].seen[o], run'[r].left)
    <2>1. Pending(p, o) /\ order'[p][o].amt = order[p][o].amt /\ run'[r].seen[o] = run[r].seen[o]
      BY <1>5
    <2>2. order[p][o].amt >= Least(run[r].seen[o], run[r].left)
      BY <1>1, <1>5, <2>1 DEF RunKept
    <2> QED
      BY <2>1, <2>2
  <1> QED
    BY <1>2, <1>3, <1>4, <1>5 DEF RunKept

\* An obligation that is passed over.
LEMMA SkipKeeps ==
  ASSUME AllocInv, NEW r \in Runs, run[r].pc = "walk", NEW o \in Obligations,
         NEW D \in SUBSET Obligations, Skips(r, o, D),
         UNCHANGED <<row, owed, order, landing, overrun, lapses>>, faults' \in 0..MaxFaults,
         exceeded' = exceeded
  PROVE  AllocInv'
  <1>1. AllocShapes
    BY DEF AllocInv
  <1>2. PICK p \in Payments : p = run[r].pay
    BY RunFacts DEF Pay
  <1>3. /\ row[p].owner # "none" /\ run[r].seen \in [Obligations -> Nat] /\ RunSound(r)
        /\ run[r].left <= Amount[p]
    BY <1>2, RunFacts DEF Pay
  <1>4. /\ Others(r) /\ run' \in [Runs -> RunShape]
        /\ run'[r].pc = "walk" /\ run'[r].pay = p
        /\ run'[r].left = run[r].left /\ run'[r].seen = [run[r].seen EXCEPT ![o] = 0]
    BY <1>1, <1>2, SkipsOn
  <1>5. \A n \in Obligations : run'[r].seen[n] = run[r].seen[n] \/ run'[r].seen[n] = 0
    BY <1>3, <1>4
  <1>6. RunSound(r)'
    <2>1. \A n \in Obligations : run'[r].seen[n] <= Owed[n]
            /\ (run'[r].seen[n] > 0 => owed'[n] # Unknown /\ owed'[n] <= run'[r].seen[n])
      <3> TAKE n \in Obligations
      <3>1. Owed[n] \in Nat /\ run[r].seen[n] \in Nat /\ run[r].seen[n] <= Owed[n]
            /\ (run[r].seen[n] > 0 => owed[n] # Unknown /\ owed[n] <= run[r].seen[n])
        BY <1>3, AmountAssumption DEF RunSound
      <3>2. CASE run'[r].seen[n] = run[r].seen[n]
        BY <3>1, <3>2
      <3>3. CASE run'[r].seen[n] = 0
        BY <3>1, <3>3
      <3> QED
        BY <1>5, <3>2, <3>3
    <2> QED
      BY <1>2, <1>3, <1>4, <2>1 DEF RunSound
  <1>7. p \notin overrun => RunKept(r)'
    <2> HAVE p \notin overrun
    <2>1. \A q \in Payments : PaymentStill(q)
      BY <1>1, AllStill
    <2>2. Spent(p)' = Spent(p) /\ \A n \in Obligations : Pending(p, n)' => Pending(p, n)
      BY <2>1 DEF PaymentStill
    <2>3. \A n \in Obligations : run'[r].seen[n] > 0 => run'[r].seen[n] = run[r].seen[n]
      BY <1>5
    <2> QED
      BY <1>2, <1>4, <2>2, <2>3, WalkKept
  <1>8. landing' \in [Payments -> {"none", "raised", "posted"}]
        /\ exceeded' \subseteq Payments /\ exceeded \subseteq exceeded' /\ Pay(r) = p
    BY <1>1, <1>2 DEF AllocShapes, Pay
  <1>9. run'[r].pc \in Leasing /\ Pay(r)' \notin overrun => RunKept(r)'
    BY <1>4, <1>7 DEF Pay
  <1> QED
    BY <1>4, <1>6, <1>8, <1>9, RunOnlyKeeps

\* An order could not be written.
LEMMA WriteFailsKeeps ==
  ASSUME AllocInv, NEW r \in Runs, NEW o \in Obligations, WriteFails(r, o)
  PROVE  AllocInv'
  <1>1. run[r].pc = "walk" /\ UNCHANGED <<row, owed, order, landing, overrun, lapses>> /\ exceeded' = exceeded
    BY DEF WriteFails, At, past
  <1>2. faults' \in 0..MaxFaults
    BY FaultKept DEF WriteFails, AllocInv
  <1>3. run[r] \in RunShape
    BY DEF AllocInv, AllocShapes
  <1>4. Skips(r, o, run[r].done) /\ run[r].done \in SUBSET Obligations
    <2>1. [run[r] EXCEPT !.seen[o] = 0]
            = [run[r] EXCEPT !.seen = [run[r].seen EXCEPT ![o] = 0], !.done = run[r].done]
      BY <1>3 DEF RunShape
    <2> QED
      BY <1>3, <2>1 DEF WriteFails, Skips, RunShape
  <1> QED
    BY <1>1, <1>2, <1>4, SkipKeeps

\* What a run needs to go on to take an order's amount.
LEMMA TurnKept ==
  ASSUME AllocInv, NEW r \in Runs, NEW p \in Payments, run[r].pay = p, run[r].pc = "walk",
         p \notin overrun, NEW o \in Obligations, NEW a \in Nat,
         run'[r].pay = p, run'[r].pc = "consume", run'[r].left = run[r].left,
         run'[r].seen = run[r].seen, run'[r].next = o, run'[r].amt = a,
         row' = row, exceeded \subseteq exceeded', Spent(p)' = Spent(p), Pending(p, o)',
         p \notin exceeded' => a <= Portion(r, o),
         \A n \in Obligations : Pending(p, n)' =>
           \/ Pending(p, n) /\ order'[p][n].amt = order[p][n].amt
           \/ n = o /\ order'[p][n].amt = Portion(r, o)
  PROVE  RunKept(r)'
  <1>1. RunKept(r)
    <2>1. run[r].pc # "idle" /\ run[r].pc \in Leasing /\ Pay(r) = p
      BY DEF Leasing, Pay
    <2> QED
      BY <2>1, RunFacts
  <1>2. row'[p].lease = r
    BY <1>1 DEF RunKept
  <1>3. run[r].seen \in [Obligations -> Nat] /\ run[r].left \in Nat
    BY RunFacts
  <1>4. p \notin exceeded' => run'[r].left + Spent(p)' <= Amount[p]
    BY <1>1 DEF RunKept
  <1>5. row'[p].owner = "member" => run'[r].left + Spent(p)' >= Amount[p]
    BY <1>1 DEF RunKept
  <1>6. ASSUME row'[p].owner = "member", NEW n \in Obligations, Pending(p, n)', run'[r].seen[n] > 0
        PROVE  order'[p][n].amt >= Least(run'[r].seen[n], run'[r].left)
    <2>1. CASE Pending(p, n) /\ order'[p][n].amt = order[p][n].amt
      <3>1. order[p][n].amt >= Least(run[r].seen[n], run[r].left)
        BY <1>1, <1>6, <2>1 DEF RunKept
      <3> QED
        BY <2>1, <3>1
    <2>2. CASE n = o /\ order'[p][n].amt = Portion(r, o)
      BY <1>3, <2>2 DEF Portion, Least
    <2> QED
      BY <1>6, <2>1, <2>2
  <1>7. Portion(r, o)' = Portion(r, o)
    BY DEF Portion
  <1>8. Pending(p, run[r].next)' /\ Portion(r, run[r].next)' = Portion(r, o)
    BY <1>7
  <1> QED
    BY <1>2, <1>4, <1>5, <1>6, <1>8 DEF RunKept

\* An order is written, or the one there is taken up.
LEMMA WriteOrderKeeps ==
  ASSUME AllocInv, NEW r \in Runs, NEW o \in Obligations, WriteOrder(r, o)
  PROVE  AllocInv'
  <1>1. run[r].pc = "walk" /\ UNCHANGED <<row, owed, landing, overrun, lapses, faults>>
        /\ AtObligation(r, o)
    BY DEF WriteOrder, At
  <1>2. AllocShapes /\ OrdersSound /\ OwedAddsUp
    BY DEF AllocInv
  <1>3. PICK p \in Payments : p = run[r].pay
    BY <1>1, RunFacts DEF Pay
  <1>4. /\ row[p].owner # "none" /\ run[r].seen \in [Obligations -> Nat] /\ RunSound(r)
        /\ run[r].left <= Amount[p] /\ run[r] \in RunShape /\ run[r].left \in Nat /\ Spent(p) \in Nat
        /\ Amount[p] \in Nat
        /\ (p \notin overrun => RunKept(r) /\ PaymentKept(p)) /\ Pay(r) = p
    BY <1>1, <1>3, RunFacts DEF Pay, Leasing
  <1>5. run[r].seen[o] > 0 /\ run[r].left > 0
    BY <1>1, AtFacts
  <1>6. order[p][o] \in OrderShape /\ order[p][o].amt <= Owed[o] /\ faults \in 0..MaxFaults
        /\ owed[o] # Unknown /\ owed[o] <= run[r].seen[o] /\ run[r].seen[o] <= Owed[o]
        /\ Owed[o] \in Nat /\ owed[o] \in Int
    BY <1>2, <1>4, <1>5, AmountAssumption DEF AllocShapes, RunSound
  <1>7. Portion(r, o) \in Nat /\ Portion(r, o) <= Owed[o]
    BY <1>4, <1>6 DEF Portion, Least
  <1>8. CASE order[p][o].st = "parked"
    <2>1. run' = [run EXCEPT ![r].seen[o] = 0] /\ order' = order /\ exceeded' = exceeded
      BY <1>4, <1>8 DEF WriteOrder
    <2>2. Skips(r, o, run[r].done) /\ run[r].done \in SUBSET Obligations
      <3>1. [run[r] EXCEPT !.seen[o] = 0]
              = [run[r] EXCEPT !.seen = [run[r].seen EXCEPT ![o] = 0], !.done = run[r].done]
        BY <1>4 DEF RunShape
      <3> QED
        BY <1>4, <2>1, <3>1 DEF Skips, RunShape
    <2> QED
      BY <1>1, <1>6, <2>1, <2>2, SkipKeeps
  <1>9. CASE order[p][o].st \in {"raised", "posted"} /\ order[p][o].consumed
    <2>1. run' = [run EXCEPT ![r].seen[o] = 0, ![r].done = @ \union {o}] /\ order' = order
          /\ exceeded' = exceeded
      BY <1>4, <1>9 DEF WriteOrder
    <2>2. Skips(r, o, run[r].done \union {o}) /\ run[r].done \union {o} \in SUBSET Obligations
      <3>1. run' = [run EXCEPT ![r] = [run[r] EXCEPT !.seen[o] = 0, !.done = run[r].done \union {o}]]
        BY <2>1
      <3> QED
        BY <1>4, <3>1 DEF Skips, RunShape
    <2> QED
      BY <1>1, <1>6, <2>1, <2>2, SkipKeeps
  <1>10. CASE order[p][o].st \in {"raised", "posted"} /\ ~order[p][o].consumed
    <2> DEFINE a == order[p][o].amt
    <2>1. Turns(r, o, order[p][o].amt) /\ order' = order
      BY <1>4, <1>10 DEF WriteOrder, Turns
    <2>2. /\ exceeded \subseteq exceeded' /\ exceeded' \subseteq Payments
          /\ (p \notin overrun /\ p \notin exceeded' => order[p][o].amt <= Portion(r, o))
      <3>1. exceeded' = IF order[p][o].amt > Portion(r, o) /\ p \notin overrun
                          THEN exceeded \union {p} ELSE exceeded
        BY <1>4, <1>10 DEF WriteOrder
      <3>2. exceeded \subseteq Payments /\ order[p][o].amt \in Nat
        BY <1>2, <1>6 DEF AllocShapes, OrderShape
      <3> QED
        BY <1>7, <3>1, <3>2
    <2>3. order[p][o].amt \in Nat
      BY <1>6 DEF OrderShape
    <2>4. /\ Others(r) /\ run' \in [Runs -> RunShape]
          /\ run'[r].pc = "consume" /\ run'[r].pay = p /\ run'[r].left = run[r].left
          /\ run'[r].seen = run[r].seen /\ run'[r].next = o /\ run'[r].amt = order[p][o].amt
      <3>1. Turns(r, o, order[p][o].amt)
        BY <2>1
      <3> QED
        BY <1>2, <1>3, <2>3, <3>1, TurnsTo
    <2>5. RunSound(r)'
      BY <1>1, <1>3, <1>4, <1>5, <1>10, <2>1, <2>4 DEF RunSound
    <2>6. p \notin overrun => RunKept(r)'
      <3> HAVE p \notin overrun
      <3>1. \A q \in Payments : PaymentStill(q)
        BY <1>1, <1>2, <2>1, <2>2, AllStill
      <3>2. /\ Spent(p)' = Spent(p) /\ Pending(p, o)'
            /\ \A n \in Obligations : Pending(p, n)' => Pending(p, n) /\ order'[p][n].amt = order[p][n].amt
        BY <1>10, <3>1 DEF PaymentStill, Pending
      <3>3. p \notin exceeded' => order[p][o].amt <= Portion(r, o)
        BY <2>2
      <3> QED
        BY <1>1, <1>3, <2>2, <2>3, <2>4, <3>2, <3>3, TurnKept
    <2>7. run'[r].pc \in Leasing /\ Pay(r)' \notin overrun => RunKept(r)'
      BY <2>4, <2>6 DEF Pay
    <2>8. landing' \in [Payments -> {"none", "raised", "posted"}] /\ faults' \in 0..MaxFaults
      BY <1>1, <1>2 DEF AllocShapes
    <2> QED
      BY <1>1, <1>4, <2>1, <2>2, <2>4, <2>5, <2>7, <2>8, RunOnlyKeeps
  <1>11. CASE order[p][o].st = "none"
    <2> DEFINE y == [amt |-> Portion(r, o), st |-> "raised", consumed |-> FALSE]
    <2>1. Turns(r, o, Portion(r, o)) /\ OrderTo(p, o, y) /\ exceeded' = exceeded
      BY <1>4, <1>11 DEF WriteOrder, Turns, OrderTo
    <2>2. y \in OrderShape /\ y.amt = Portion(r, o) /\ y.st = "raised" /\ ~y.consumed
      BY <1>7 DEF OrderShape
    <2> HIDE DEF y
    <2>3. /\ Others(r) /\ run' \in [Runs -> RunShape]
          /\ run'[r].pc = "consume" /\ run'[r].pay = p /\ run'[r].left = run[r].left
          /\ run'[r].seen = run[r].seen /\ run'[r].next = o /\ run'[r].amt = Portion(r, o)
      <3>1. Turns(r, o, Portion(r, o))
        BY <2>1
      <3>2. Portion(r, o) \in Nat
        BY <1>7
      <3> QED
        BY <1>2, <1>3, <3>1, <3>2, TurnsTo
    <2>4. /\ order'[p][o] = y /\ order' \in [Payments -> [Obligations -> OrderShape]]
          /\ \A q \in Payments, n \in Obligations : q # p \/ n # o => order'[q][n] = order[q][n]
      <3>1. y \in OrderShape
        BY <2>2
      <3> QED
        BY <1>2, <2>1, <3>1, OrderBecomes
    <2>5. ~order[p][o].consumed
      BY <1>2, <1>11 DEF OrdersSound, OrderSound
    <2>6. (\A q \in Payments : Spent(q)' = Spent(q)) /\ \A n \in Obligations : Taken(n)' = Taken(n)
      <3>1. OrdersAlike
        <4> SUFFICES ASSUME NEW q \in Payments, NEW n \in Obligations
                     PROVE  /\ order'[q][n].consumed = order[q][n].consumed
                            /\ order[q][n].consumed => order'[q][n].amt = order[q][n].amt
          BY DEF OrdersAlike
        <4>1. CASE q = p /\ n = o
          <5>1. order[p][o].consumed \in BOOLEAN /\ y.consumed \in BOOLEAN
            BY <1>6, <2>2 DEF OrderShape
          <5> QED
            BY <2>2, <2>4, <2>5, <4>1, <5>1
        <4>2. CASE q # p \/ n # o
          BY <2>4, <4>2
        <4> QED
          BY <4>1, <4>2
      <3> QED
        BY <3>1, AlikeTotals
    <2>7. AllocShapes'
      <3>1. \A q \in Payments, n \in Obligations : order'[q][n].amt <= Owed[n]
        BY <1>2, <1>7, <2>2, <2>4 DEF AllocShapes
      <3> QED
        BY <1>1, <1>2, <2>1, <2>3, <2>4, <3>1 DEF AllocShapes
    <2>8. Advances
      <3>1. OrdersStay
        BY <1>11, <2>4 DEF OrdersStay
      <3>2. \A n \in Obligations : owed'[n] = owed[n] /\ owed[n] \in Int
        BY <1>1, <1>2 DEF AllocShapes
      <3> QED
        BY <1>1, <2>1, <3>1, <3>2 DEF Advances, OwedFalls, OwnersStay
    <2>9. OrdersSound'
      BY <1>1, <1>2, <1>4, <1>6, <2>2, <2>4 DEF OrdersSound, OrderSound
    <2>10. OwedAddsUp'
      BY <1>1, <1>2, <2>6 DEF OwedAddsUp
    <2>11. OthersStill(p)
      BY <1>1, <2>4, <2>6 DEF OthersStill, PaymentStill, Pending
    <2>12. RunSound(r)'
      BY <1>1, <1>3, <1>4, <1>5, <2>2, <2>3, <2>4 DEF RunSound
    <2>13. \A n \in Obligations : n # o =>
              (Pending(p, n)' <=> Pending(p, n)) /\ order'[p][n] = order[p][n]
      BY <2>4 DEF Pending
    <2>14. Pending(p, o)' /\ order'[p][o].amt = Portion(r, o)
      BY <2>2, <2>4 DEF Pending
    <2>15. p \notin overrun => RunKept(r)'
      <3> HAVE p \notin overrun
      <3>1. p \notin exceeded' => Portion(r, o) <= Portion(r, o)
        BY <1>7
      <3>2. \A n \in Obligations : Pending(p, n)' =>
              \/ Pending(p, n) /\ order'[p][n].amt = order[p][n].amt
              \/ n = o /\ order'[p][n].amt = Portion(r, o)
        BY <2>13, <2>14
      <3>3. Spent(p)' = Spent(p) /\ exceeded \subseteq exceeded' /\ row' = row
        BY <1>1, <2>1, <2>6
      <3>4. Portion(r, o) \in Nat
        BY <1>7
      <3> QED
        BY <1>1, <1>3, <2>3, <2>14, <3>1, <3>2, <3>3, <3>4, TurnKept
    <2>16. p \notin overrun => PaymentKept(p)'
      <3> HAVE p \notin overrun
      <3>1. PaymentKept(p) /\ RunKept(r)
        BY <1>4
      <3>2. Unspent(p)' = Unspent(p) /\ Spent(p)' = Spent(p) /\ Unspent(p) \in Nat
        BY <1>4, <2>6 DEF Unspent, AtLeast0
      <3>3. row[p].owner = "member" => Portion(r, o) >= Least(owed[o], Unspent(p))
        <4>1. row[p].owner = "member" => run[r].left + Spent(p) >= Amount[p]
          BY <1>3, <3>1 DEF RunKept
        <4>2. row[p].owner = "member" => run[r].left >= Unspent(p)
          BY <1>4, <4>1 DEF Unspent, AtLeast0
        <4>3. run[r].seen[o] \in Int
          BY <1>4
        <4> QED
          BY <1>4, <1>6, <3>2, <4>2, <4>3 DEF Portion, Least
      <3>4. ASSUME row[p].owner = "member", NEW n \in Obligations, Pending(p, n)'
            PROVE  order'[p][n].amt >= Least(owed[n], Unspent(p))
        <4>1. CASE n = o
          BY <2>14, <3>3, <3>4, <4>1
        <4>2. CASE n # o
          <5>1. Pending(p, n) /\ order'[p][n].amt = order[p][n].amt
            BY <2>13, <3>4, <4>2
          <5> QED
            BY <3>1, <3>4, <5>1 DEF PaymentKept
        <4> QED
          BY <4>1, <4>2
      <3>5. \A n \in Obligations : order'[p][n].st = "parked" => ~order'[p][n].consumed
        BY <2>2, <2>4, <3>1 DEF PaymentKept
      <3> QED
        BY <1>1, <2>1, <3>1, <3>2, <3>4, <3>5 DEF PaymentKept
    <2>17. LeasesStay(r) /\ (run[r].pc \in Leasing => Pay(r) = p) /\ run[r].pc \in Leasing
      BY <1>1, <1>4 DEF LeasesStay, Leasing
    <2>18. run'[r].pc \in Leasing /\ Pay(r)' \notin overrun' => RunKept(r)'
      BY <1>1, <2>3, <2>15 DEF Pay
    <2>19. p \notin overrun' => PaymentKept(p)'
      BY <1>1, <2>16
    <2> QED
      BY <2>3, <2>7, <2>8, <2>9, <2>10, <2>11, <2>12, <2>17, <2>18, <2>19, OneRunKeeps
  <1> QED
    BY <1>6, <1>8, <1>9, <1>10, <1>11 DEF OrderShape

\* A run that gives up on the order it is at keeps what it needs to park it.
LEMMA ToParkKeeps ==
  ASSUME AllocInv, NEW r \in Runs, run[r].pc = "consume", To(r, "park"),
         UNCHANGED <<row, owed, order, landing, exceeded, overrun, lapses>>, faults' \in 0..MaxFaults
  PROVE  AllocInv'
  <1>1. AllocShapes
    BY DEF AllocInv
  <1>2. PICK p \in Payments : p = run[r].pay
    BY RunFacts DEF Pay
  <1>3. /\ row[p].owner # "none" /\ run[r].seen \in [Obligations -> Nat] /\ RunSound(r)
        /\ run[r].left <= Amount[p] /\ (p \notin overrun => RunKept(r)) /\ Pay(r) = p
    BY <1>2, RunFacts DEF Pay, Leasing
  <1>4. "park" \in Pcs
    BY DEF Pcs
  <1>5. /\ Others(r) /\ run' \in [Runs -> RunShape]
        /\ run'[r].pc = "park" /\ run'[r].pay = p
        /\ run'[r].left = run[r].left /\ run'[r].seen = run[r].seen /\ run'[r].next = run[r].next
        /\ run'[r].amt = run[r].amt
    BY <1>1, <1>2, <1>4, GoesTo
  <1>6. RunSound(r)'
    BY <1>2, <1>3, <1>5 DEF RunSound
  <1>7. p \notin overrun => RunKept(r)'
    <2> HAVE p \notin overrun
    <2>1. \A q \in Payments : PaymentStill(q)
      BY <1>1, AllStill
    <2>2. PICK n \in Obligations : n = run[r].next
      BY <1>3 DEF RunSound
    <2>3. Spent(p)' = Spent(p) /\ \A o \in Obligations : Pending(p, o)' <=> Pending(p, o)
      BY <2>1 DEF PaymentStill
    <2>4. RunKept(r)
      BY <1>3
    <2>5. Pending(p, n)
      BY <1>2, <2>2, <2>4 DEF RunKept
    <2>6. Pending(p, run[r].next)'
      BY <1>5, <2>2, <2>3, <2>5
    <2>7. row[p].lease = r /\ (row[p].owner = "member" => run[r].left + Spent(p) >= Amount[p])
          /\ (p \notin exceeded => run[r].left + Spent(p) <= Amount[p])
      BY <1>2, <2>4 DEF RunKept
    <2>8. row[p].owner = "member" => \A o \in Obligations : Pending(p, o) /\ run[r].seen[o] > 0 =>
            order[p][o].amt >= Least(run[r].seen[o], run[r].left)
      BY <1>2, <2>4 DEF RunKept
    <2> QED
      BY <1>5, <2>3, <2>6, <2>7, <2>8 DEF RunKept
  <1>8. run'[r].pc \in Leasing /\ Pay(r)' \notin overrun => RunKept(r)'
    BY <1>5, <1>7 DEF Pay
  <1>9. landing' \in [Payments -> {"none", "raised", "posted"}]
        /\ exceeded' \subseteq Payments /\ exceeded \subseteq exceeded'
    BY <1>1 DEF AllocShapes
  <1> QED
    BY <1>3, <1>5, <1>6, <1>8, <1>9, RunOnlyKeeps

\* The transaction fails.
LEMMA ConsumeFailsKeeps ==
  ASSUME AllocInv, NEW r \in Runs, ConsumeFails(r)
  PROVE  AllocInv'
  <1>1. run[r].pc = "consume" /\ To(r, "park")
        /\ UNCHANGED <<row, owed, order, landing, exceeded, overrun, lapses>>
    BY DEF ConsumeFails, At, past
  <1>2. faults' \in 0..MaxFaults
    BY FaultKept DEF ConsumeFails, AllocInv
  <1> QED
    BY <1>1, <1>2, ToParkKeeps

\* The order takes its amount, or is to be parked.
LEMMA ConsumeKeeps ==
  ASSUME AllocInv, NEW r \in Runs, Consume(r)
  PROVE  AllocInv'
  <1>1. run[r].pc = "consume" /\ UNCHANGED <<row, landing, exceeded, overrun, lapses, faults>>
    BY DEF Consume, At, past
  <1>2. AllocShapes /\ OrdersSound /\ OwedAddsUp
    BY DEF AllocInv
  <1>3. PICK p \in Payments : p = run[r].pay
    BY <1>1, RunFacts DEF Pay
  <1>4. /\ row[p].owner # "none" /\ run[r].seen \in [Obligations -> Nat] /\ RunSound(r)
        /\ run[r].left <= Amount[p] /\ run[r].left \in Nat /\ Spent(p) \in Nat /\ Amount[p] \in Nat
        /\ (p \notin overrun => RunKept(r) /\ PaymentKept(p)) /\ Pay(r) = p
    BY <1>1, <1>3, RunFacts DEF Pay, Leasing
  <1>5. PICK o \in Obligations : o = run[r].next
    BY <1>1, <1>4 DEF RunSound
  <1>6. /\ run[r].seen[o] > 0 /\ order[p][o].st # "none" /\ run[r].amt = order[p][o].amt
        /\ owed[o] # Unknown /\ owed[o] <= run[r].seen[o]
    BY <1>1, <1>3, <1>4, <1>5 DEF RunSound
  <1>7. order[p][o] \in OrderShape /\ owed[o] \in Int /\ run[r].amt \in Nat /\ Owed[o] \in Nat
        /\ owed[o] <= Owed[o] /\ faults \in 0..MaxFaults
    BY <1>2, <1>6, AmountAssumption DEF AllocShapes, OrderShape
  <1>8. CASE ~(owed[o] >= run[r].amt /\ ~order[p][o].consumed)
    <2>1. To(r, "park") /\ UNCHANGED <<owed, order>>
      BY <1>4, <1>5, <1>8 DEF Consume
    <2> QED
      BY <1>1, <1>7, <2>1, ToParkKeeps
  <1>9. CASE owed[o] >= run[r].amt /\ ~order[p][o].consumed
    <2>1. /\ owed' = [owed EXCEPT ![o] = @ - run[r].amt]
          /\ order' = [order EXCEPT ![p][o].consumed = TRUE]
          /\ run' = [Passed(r) EXCEPT ![r].left = @ - Portion(r, o), ![r].done = @ \union {o}]
      BY <1>4, <1>5, <1>9 DEF Consume
    <2>2. Takes(p, o)
      BY <1>9, <2>1 DEF Takes
    <2>3. /\ order'[p][o].consumed /\ order'[p][o].amt = order[p][o].amt
          /\ order'[p][o].st = order[p][o].st
          /\ \A q \in Payments, n \in Obligations : q # p \/ n # o => order'[q][n] = order[q][n]
          /\ order' \in [Payments -> [Obligations -> OrderShape]]
      BY <1>2, <2>2, TakesOne
    <2>4. /\ Spent(p)' = Spent(p) + run[r].amt
          /\ \A q \in Payments : q # p => Spent(q)' = Spent(q)
          /\ Taken(o)' = Taken(o) + run[r].amt
          /\ \A n \in Obligations : n # o => Taken(n)' = Taken(n)
      BY <1>2, <1>6, <2>2, TakesTotals
    <2>5. /\ Others(r) /\ run' \in [Runs -> RunShape]
          /\ run'[r].pc = "walk" /\ run'[r].pay = p
          /\ run'[r].left = run[r].left - Portion(r, o) /\ run'[r].left \in Nat
          /\ Portion(r, o) \in Nat
          /\ run'[r].seen = [run[r].seen EXCEPT ![o] = 0]
      BY <1>2, <1>3, <1>5, <2>1, CountsOn
    <2>6. /\ owed'[o] = owed[o] - run[r].amt /\ (\A n \in Obligations : n # o => owed'[n] = owed[n])
          /\ owed' \in [Obligations -> Int]
      BY <1>2, <1>7, <2>1 DEF AllocShapes
    <2>7. owed'[o] \in 0..Owed[o] /\ owed'[o] <= owed[o] /\ owed'[o] # Unknown
      BY <1>7, <1>9, <2>6 DEF Unknown
    <2>8. AllocShapes'
      <3>1. \A n \in Obligations : owed'[n] \in Unknown..Owed[n] /\ (n \notin Late => owed'[n] # Unknown)
        <4> TAKE n \in Obligations
        <4>1. CASE n = o
          BY <1>7, <2>7, <4>1 DEF Unknown
        <4>2. CASE n # o
          BY <1>2, <2>6, <4>2 DEF AllocShapes
        <4> QED
          BY <4>1, <4>2
      <3>2. \A q \in Payments, n \in Obligations : order'[q][n].amt <= Owed[n]
        BY <1>2, <2>3 DEF AllocShapes
      <3> QED
        BY <1>1, <1>2, <2>3, <2>5, <2>6, <3>1, <3>2 DEF AllocShapes
    <2>9. Advances
      <3>1. OrdersStay
        BY <2>3 DEF OrdersStay
      <3>2. OwedFalls
        <4>1. \A n \in Obligations : owed[n] \in Int
          BY <1>2 DEF AllocShapes
        <4> QED
          BY <2>6, <2>7, <4>1 DEF OwedFalls
      <3> QED
        BY <1>1, <3>1, <3>2 DEF Advances, OwnersStay
    <2>10. OrdersSound'
      <3> SUFFICES ASSUME NEW q \in Payments, NEW n \in Obligations PROVE OrderSound(q, n)'
        BY DEF OrdersSound
      <3>1. owed[n] # Unknown => owed'[n] # Unknown
        BY <2>6, <2>7
      <3>2. order'[q][n].st = order[q][n].st /\ (order[q][n].st = "none" => ~order'[q][n].consumed)
        BY <1>2, <1>6, <2>3 DEF OrdersSound, OrderSound
      <3> QED
        BY <1>1, <1>2, <3>1, <3>2 DEF OrdersSound, OrderSound
    <2>11. OwedAddsUp'
      <3> SUFFICES ASSUME NEW n \in Obligations, owed'[n] # Unknown PROVE owed'[n] + Taken(n)' = Owed[n]
        BY DEF OwedAddsUp
      <3>1. CASE n = o
        <4>1. owed[o] + Taken(o) = Owed[o] /\ Taken(o) \in Nat
          BY <1>2, <1>6, TotalsAre DEF OwedAddsUp
        <4> QED
          BY <1>7, <2>4, <2>6, <3>1, <4>1
      <3>2. CASE n # o
        BY <1>2, <2>4, <2>6, <3>2 DEF OwedAddsUp
      <3> QED
        BY <3>1, <3>2
    <2>12. OthersStill(p)
      BY <1>1, <2>3, <2>4 DEF OthersStill, PaymentStill, Pending
    <2>13. \A n \in Obligations : run'[r].seen[n] = IF n = o THEN 0 ELSE run[r].seen[n]
      BY <1>4, <2>5
    <2>14. RunSound(r)'
      <3>1. \A n \in Obligations : run'[r].seen[n] <= Owed[n]
              /\ (run'[r].seen[n] > 0 => owed'[n] # Unknown /\ owed'[n] <= run'[r].seen[n])
        <4> TAKE n \in Obligations
        <4>1. CASE n = o
          BY <1>7, <2>13, <4>1
        <4>2. CASE n # o
          BY <1>4, <2>6, <2>13, <4>2 DEF RunSound
        <4> QED
          BY <4>1, <4>2
      <3>2. run'[r].left <= Amount[p]
        BY <1>4, <2>5
      <3> QED
        BY <1>1, <1>3, <1>4, <2>5, <3>1, <3>2 DEF RunSound
    <2>15. \A n \in Obligations : Pending(p, n)' =>
             n # o /\ Pending(p, n) /\ order'[p][n].amt = order[p][n].amt
      BY <2>3 DEF Pending
    <2>16. p \notin overrun => Pending(p, o) /\ (p \notin exceeded => run[r].amt <= Portion(r, o))
             /\ (p \notin exceeded => run[r].left + Spent(p) <= Amount[p])
             /\ row[p].lease = r
             /\ (row[p].owner = "member" => run[r].left + Spent(p) >= Amount[p])
             /\ (row[p].owner = "member" => \A n \in Obligations : Pending(p, n) /\ run[r].seen[n] > 0 =>
                   order[p][n].amt >= Least(run[r].seen[n], run[r].left))
      BY <1>1, <1>3, <1>4, <1>5 DEF RunKept
    <2>17. p \notin overrun /\ p \notin exceeded => run'[r].left + Spent(p)' <= Amount[p]
      BY <1>4, <1>7, <2>4, <2>5, <2>16
    <2>18. p \notin overrun /\ row[p].owner = "member" => run'[r].left + Spent(p)' >= Amount[p]
      <3> SUFFICES ASSUME p \notin overrun, row[p].owner = "member"
                   PROVE  run'[r].left + Spent(p)' >= Amount[p]
        OBVIOUS
      <3>1. run[r].amt >= Portion(r, o)
        BY <1>6, <2>16 DEF Portion
      <3> QED
        BY <1>4, <1>7, <2>4, <2>5, <2>16, <3>1
    <2>19. p \notin overrun => RunKept(r)'
      <3> HAVE p \notin overrun
      <3>1. ASSUME row[p].owner = "member", NEW n \in Obligations, Pending(p, n)', run'[r].seen[n] > 0
            PROVE  order'[p][n].amt >= Least(run'[r].seen[n], run'[r].left)
        <4>1. n # o /\ Pending(p, n) /\ order'[p][n].amt = order[p][n].amt /\ run'[r].seen[n] = run[r].seen[n]
          BY <2>13, <2>15, <3>1
        <4>2. order[p][n].amt >= Least(run[r].seen[n], run[r].left)
          BY <2>16, <3>1, <4>1
        <4>3. run'[r].left <= run[r].left /\ run[r].seen[n] \in Int /\ order[p][n].amt \in Int
          BY <1>2, <1>4, <2>5 DEF AllocShapes, OrderShape
        <4> QED
          BY <1>4, <2>5, <4>1, <4>2, <4>3 DEF Least
      <3> QED
        BY <1>1, <2>5, <2>16, <2>17, <2>18, <3>1 DEF RunKept
    <2>20. p \notin overrun => PaymentKept(p)'
      <3> HAVE p \notin overrun
      <3>1. PaymentKept(p)
        BY <1>4
      <3>2. p \notin exceeded => Spent(p)' <= Amount[p]
        BY <1>4, <1>7, <2>4, <2>5, <2>17
      <3>3. row[p].owner = "member" /\ row[p].left # Unknown => row[p].left + Spent(p)' >= Amount[p]
        <4>1. row[p].left \in Int
          BY <1>2 DEF AllocShapes, PayRowShape
        <4> QED
          BY <1>4, <1>7, <2>4, <3>1, <4>1 DEF PaymentKept
      <3>4. ASSUME row[p].owner = "member", NEW n \in Obligations, Pending(p, n)'
            PROVE  order'[p][n].amt >= Least(owed'[n], Unspent(p)')
        <4>1. n # o /\ Pending(p, n) /\ order'[p][n].amt = order[p][n].amt /\ owed'[n] = owed[n]
          BY <2>6, <2>15, <3>4
        <4>2. order[p][n].amt >= Least(owed[n], Unspent(p))
          BY <3>1, <3>4, <4>1 DEF PaymentKept
        <4>3. Unspent(p)' <= Unspent(p) /\ Unspent(p) \in Int /\ Unspent(p)' \in Int
          BY <1>4, <1>7, <2>4 DEF Unspent, AtLeast0
        <4>4. owed[n] \in Int /\ order[p][n].amt \in Int
          BY <1>2 DEF AllocShapes, OrderShape
        <4> QED
          BY <4>1, <4>2, <4>3, <4>4 DEF Least
      <3>5. \A n \in Obligations : order'[p][n].st = "parked" => ~order'[p][n].consumed
        <4>1. order[p][o].st # "parked"
          BY <2>16 DEF Pending
        <4> QED
          BY <2>3, <3>1, <4>1 DEF PaymentKept
      <3> QED
        BY <1>1, <3>2, <3>3, <3>4, <3>5 DEF PaymentKept
    <2>21. LeasesStay(r) /\ (run[r].pc \in Leasing => Pay(r) = p) /\ run[r].pc \in Leasing
      BY <1>1, <1>4 DEF LeasesStay, Leasing
    <2>22. run'[r].pc \in Leasing /\ Pay(r)' \notin overrun' => RunKept(r)'
      BY <1>1, <2>5, <2>19 DEF Pay
    <2>23. p \notin overrun' => PaymentKept(p)'
      BY <1>1, <2>20
    <2> QED
      BY <2>5, <2>8, <2>9, <2>10, <2>11, <2>12, <2>14, <2>21, <2>22, <2>23, OneRunKeeps
  <1> QED
    BY <1>8, <1>9

\* An order that goes on from raised takes nothing.
LEMMA StateStill ==
  ASSUME AllocInv, UNCHANGED <<row, owed, exceeded, overrun>>, NEW p \in Payments,
         NEW o \in Obligations, NEW s \in {"none", "raised", "posted", "parked"}, StateTo(p, o, s),
         s = order[p][o].st \/ (order[p][o].st = "raised" /\ s \in {"posted", "parked"})
  PROVE  /\ order' \in [Payments -> [Obligations -> OrderShape]]
         /\ \A q \in Payments, n \in Obligations : order'[q][n].amt <= Owed[n]
         /\ Advances /\ OrdersSound' /\ OwedAddsUp' /\ OthersStill(p)
         /\ order'[p][o].st = s /\ order'[p][o].consumed = order[p][o].consumed
         /\ Spent(p)' = Spent(p)
         /\ (\A n \in Obligations : Pending(p, n)' => Pending(p, n))
         /\ (\A n \in Obligations : order'[p][n].amt = order[p][n].amt)
         /\ (\A n \in Obligations : n # o => order'[p][n] = order[p][n])
         /\ (s # "parked" \/ s = order[p][o].st => PaymentStill(p))
  <1>1. AllocShapes /\ OrdersSound /\ OwedAddsUp
    BY DEF AllocInv
  <1>2. /\ order' \in [Payments -> [Obligations -> OrderShape]]
        /\ order'[p][o].st = s /\ order'[p][o].amt = order[p][o].amt
        /\ order'[p][o].consumed = order[p][o].consumed
        /\ \A q \in Payments, n \in Obligations : q # p \/ n # o => order'[q][n] = order[q][n]
        /\ OrdersAlike
    BY <1>1, StateBecomes
  <1>3. (\A q \in Payments : Spent(q)' = Spent(q)) /\ \A n \in Obligations : Taken(n)' = Taken(n)
    BY <1>2, AlikeTotals
  <1>4. \A q \in Payments, n \in Obligations : order'[q][n].amt = order[q][n].amt
    BY <1>2
  <1>5. \A q \in Payments, n \in Obligations : order'[q][n].amt <= Owed[n]
    BY <1>1, <1>4 DEF AllocShapes
  <1>6. Advances
    <2>1. OrdersStay
      BY <1>2 DEF OrdersStay
    <2>2. \A n \in Obligations : owed'[n] = owed[n] /\ owed[n] \in Int
      BY <1>1 DEF AllocShapes
    <2> QED
      BY <2>1, <2>2 DEF Advances, OwedFalls, OwnersStay
  <1>7. OrdersSound'
    <2> SUFFICES ASSUME NEW q \in Payments, NEW n \in Obligations PROVE OrderSound(q, n)'
      BY DEF OrdersSound
    <2>1. OrderSound(q, n)
      BY <1>1 DEF OrdersSound
    <2>2. CASE q = p /\ n = o
      BY <1>2, <2>1, <2>2 DEF OrderSound
    <2>3. CASE q # p \/ n # o
      BY <1>2, <2>1, <2>3 DEF OrderSound
    <2> QED
      BY <2>2, <2>3
  <1>8. OwedAddsUp'
    BY <1>1, <1>3 DEF OwedAddsUp
  <1>9. OthersStill(p)
    BY <1>2, <1>3 DEF OthersStill, PaymentStill, Pending
  <1>10. \A n \in Obligations : Pending(p, n)' => Pending(p, n)
    <2> TAKE n \in Obligations
    <2>1. CASE n = o
      BY <1>2, <2>1 DEF Pending
    <2>2. CASE n # o
      BY <1>2, <2>2 DEF Pending
    <2> QED
      BY <2>1, <2>2
  <1>11. ASSUME s # "parked" \/ s = order[p][o].st PROVE PaymentStill(p)
    <2>1. ASSUME NEW n \in Obligations
          PROVE  /\ Pending(p, n)' <=> Pending(p, n)
                 /\ order'[p][n].st = "parked" /\ order'[p][n].consumed =>
                      order[p][n].st = "parked" /\ order[p][n].consumed
      <3>1. CASE n = o
        BY <1>2, <1>11, <3>1 DEF Pending
      <3>2. CASE n # o
        BY <1>2, <3>2 DEF Pending
      <3> QED
        BY <3>1, <3>2
    <2> QED
      BY <1>3, <1>4, <2>1 DEF PaymentStill
  <1> QED
    BY <1>2, <1>3, <1>4, <1>5, <1>6, <1>7, <1>8, <1>9, <1>10, <1>11

\* An order that could not take is parked.
LEMMA ParkKeeps ==
  ASSUME AllocInv, NEW r \in Runs, Park(r)
  PROVE  AllocInv'
  <1>1. run[r].pc = "park" /\ UNCHANGED <<row, owed, landing, exceeded, overrun, lapses, faults>>
    BY DEF Park, At, past
  <1>2. AllocShapes
    BY DEF AllocInv
  <1>3. PICK p \in Payments : p = run[r].pay
    BY <1>1, RunFacts DEF Pay
  <1>4. /\ row[p].owner # "none" /\ run[r].seen \in [Obligations -> Nat] /\ RunSound(r)
        /\ run[r].left <= Amount[p] /\ run[r].left \in Nat
        /\ (p \notin overrun => RunKept(r) /\ PaymentKept(p)) /\ Pay(r) = p
    BY <1>1, <1>3, RunFacts DEF Pay, Leasing
  <1>5. PICK o \in Obligations : o = run[r].next
    BY <1>1, <1>4 DEF RunSound
  <1>6. PICK s : s = IF order[p][o].st = "raised" THEN "parked" ELSE order[p][o].st
    OBVIOUS
  <1>7. s \in {"none", "raised", "posted", "parked"}
        /\ (s = order[p][o].st \/ (order[p][o].st = "raised" /\ s \in {"posted", "parked"}))
    BY <1>2, <1>6 DEF AllocShapes, OrderShape
  <1>8. StateTo(p, o, s) /\ run' = Passed(r)
    BY <1>4, <1>5, <1>6 DEF Park, StateTo
  <1>9. /\ order' \in [Payments -> [Obligations -> OrderShape]]
        /\ \A q \in Payments, n \in Obligations : order'[q][n].amt <= Owed[n]
        /\ Advances /\ OrdersSound' /\ OwedAddsUp' /\ OthersStill(p)
        /\ order'[p][o].st = s /\ order'[p][o].consumed = order[p][o].consumed
        /\ Spent(p)' = Spent(p)
        /\ (\A n \in Obligations : Pending(p, n)' => Pending(p, n))
        /\ (\A n \in Obligations : order'[p][n].amt = order[p][n].amt)
        /\ (\A n \in Obligations : n # o => order'[p][n] = order[p][n])
    BY <1>1, <1>7, <1>8, StateStill
  <1>10. /\ Others(r) /\ run' \in [Runs -> RunShape]
         /\ run'[r].pc = "walk" /\ run'[r].pay = p
         /\ run'[r].left = run[r].left
         /\ run'[r].seen = [run[r].seen EXCEPT ![o] = 0]
    <2>1. run[r].next \in Obligations
      BY <1>5
    <2> QED
      BY <1>2, <1>3, <1>5, <1>8, <2>1, PassesOn
  <1>11. \A n \in Obligations : run'[r].seen[n] = run[r].seen[n] \/ run'[r].seen[n] = 0
    BY <1>4, <1>10
  <1>12. AllocShapes'
    BY <1>1, <1>2, <1>9, <1>10 DEF AllocShapes
  <1>13. RunSound(r)'
    <2>1. \A n \in Obligations : run'[r].seen[n] <= Owed[n]
            /\ (run'[r].seen[n] > 0 => owed'[n] # Unknown /\ owed'[n] <= run'[r].seen[n])
      <3> TAKE n \in Obligations
      <3>1. Owed[n] \in Nat /\ run[r].seen[n] \in Nat /\ run[r].seen[n] <= Owed[n]
            /\ (run[r].seen[n] > 0 => owed[n] # Unknown /\ owed[n] <= run[r].seen[n])
        BY <1>4, AmountAssumption DEF RunSound
      <3>2. CASE run'[r].seen[n] = run[r].seen[n]
        BY <1>1, <3>1, <3>2
      <3>3. CASE run'[r].seen[n] = 0
        BY <3>1, <3>3
      <3> QED
        BY <1>11, <3>2, <3>3
    <2> QED
      BY <1>1, <1>3, <1>4, <1>10, <2>1 DEF RunSound
  <1>14. p \notin overrun => RunKept(r)'
    <2> HAVE p \notin overrun
    <2>1. \A n \in Obligations : run'[r].seen[n] > 0 => run'[r].seen[n] = run[r].seen[n]
      BY <1>11
    <2>2. \A n \in Obligations : Pending(p, n)' => Pending(p, n) /\ order'[p][n].amt = order[p][n].amt
      BY <1>9
    <2> QED
      BY <1>1, <1>3, <1>9, <1>10, <2>1, <2>2, WalkKept
  <1>15. p \notin overrun => PaymentKept(p)'
    <2> HAVE p \notin overrun
    <2>1. PaymentKept(p) /\ RunKept(r) /\ Unspent(p)' = Unspent(p)
      BY <1>4, <1>9 DEF Unspent
    <2>2. ~order[p][o].consumed
      BY <1>1, <1>3, <1>5, <2>1 DEF RunKept, Pending
    <2>3. \A n \in Obligations : order'[p][n].st = "parked" => ~order'[p][n].consumed
      BY <1>9, <2>1, <2>2 DEF PaymentKept
    <2>4. row[p].owner = "member" => \A n \in Obligations : Pending(p, n)' =>
            order'[p][n].amt >= Least(owed[n], Unspent(p))
      BY <1>9, <2>1 DEF PaymentKept
    <2> QED
      BY <1>1, <1>9, <2>1, <2>3, <2>4 DEF PaymentKept
  <1>16. LeasesStay(r) /\ (run[r].pc \in Leasing => Pay(r) = p) /\ run[r].pc \in Leasing
    BY <1>1, <1>4 DEF LeasesStay, Leasing
  <1>17. run'[r].pc \in Leasing /\ Pay(r)' \notin overrun' => RunKept(r)'
    BY <1>1, <1>10, <1>14 DEF Pay
  <1>18. p \notin overrun' => PaymentKept(p)'
    BY <1>1, <1>15
  <1> QED
    BY <1>9, <1>10, <1>12, <1>13, <1>16, <1>17, <1>18, OneRunKeeps

\* An order that could not be parked stays as it is, and the run goes on without it.
LEMMA ParkFailsKeeps ==
  ASSUME AllocInv, NEW r \in Runs, ParkFails(r)
  PROVE  AllocInv'
  <1>1. run[r].pc = "park" /\ UNCHANGED <<row, owed, order, landing, exceeded, overrun, lapses>>
        /\ run' = Passed(r)
    BY DEF ParkFails, At
  <1>2. AllocShapes
    BY DEF AllocInv
  <1>3. PICK p \in Payments : p = run[r].pay
    BY <1>1, RunFacts DEF Pay
  <1>4. /\ row[p].owner # "none" /\ run[r].seen \in [Obligations -> Nat] /\ RunSound(r)
        /\ run[r].left <= Amount[p] /\ Pay(r) = p
    BY <1>1, <1>3, RunFacts DEF Pay
  <1>5. PICK o \in Obligations : o = run[r].next
    BY <1>1, <1>4 DEF RunSound
  <1>6. /\ Others(r) /\ run' \in [Runs -> RunShape]
        /\ run'[r].pc = "walk" /\ run'[r].pay = p /\ run'[r].left = run[r].left
        /\ run'[r].seen = [run[r].seen EXCEPT ![o] = 0]
    <2>1. run[r].next \in Obligations
      BY <1>5
    <2> QED
      BY <1>1, <1>2, <1>3, <1>5, <2>1, PassesOn
  <1>7. \A n \in Obligations : run'[r].seen[n] = run[r].seen[n] \/ run'[r].seen[n] = 0
    BY <1>4, <1>6
  <1>8. RunSound(r)'
    <2>1. \A n \in Obligations : run'[r].seen[n] <= Owed[n]
            /\ (run'[r].seen[n] > 0 => owed'[n] # Unknown /\ owed'[n] <= run'[r].seen[n])
      <3> TAKE n \in Obligations
      <3>1. Owed[n] \in Nat /\ run[r].seen[n] \in Nat /\ run[r].seen[n] <= Owed[n]
            /\ (run[r].seen[n] > 0 => owed[n] # Unknown /\ owed[n] <= run[r].seen[n])
        BY <1>4, AmountAssumption DEF RunSound
      <3>2. CASE run'[r].seen[n] = run[r].seen[n]
        BY <1>1, <3>1, <3>2
      <3>3. CASE run'[r].seen[n] = 0
        BY <3>1, <3>3
      <3> QED
        BY <1>7, <3>2, <3>3
    <2> QED
      BY <1>1, <1>3, <1>4, <1>6, <2>1 DEF RunSound
  <1>9. p \notin overrun => RunKept(r)'
    <2> HAVE p \notin overrun
    <2>1. \A q \in Payments : PaymentStill(q)
      BY <1>1, <1>2, AllStill
    <2>2. /\ Spent(p)' = Spent(p)
          /\ \A n \in Obligations : Pending(p, n)' => Pending(p, n) /\ order'[p][n].amt = order[p][n].amt
      BY <2>1 DEF PaymentStill
    <2>3. \A n \in Obligations : run'[r].seen[n] > 0 => run'[r].seen[n] = run[r].seen[n]
      BY <1>7
    <2> QED
      BY <1>1, <1>3, <1>6, <2>2, <2>3, WalkKept
  <1>10. /\ landing' \in [Payments -> {"none", "raised", "posted"}] /\ faults' \in 0..MaxFaults
         /\ exceeded' \subseteq Payments /\ exceeded \subseteq exceeded'
    BY <1>1, <1>2, FaultKept DEF AllocShapes, ParkFails
  <1>11. run'[r].pc \in Leasing /\ Pay(r)' \notin overrun => RunKept(r)'
    BY <1>6, <1>9 DEF Pay
  <1> QED
    BY <1>1, <1>4, <1>6, <1>8, <1>10, <1>11, RunOnlyKeeps

-----------------------------------------------------------------------------
(* The end of a run *)

\* A run that has no more to post ends, and one that has goes on posting.
LEMMA PostingOn ==
  ASSUME AllocInv, NEW r \in Runs, run[r].pc # "idle", NEW L \in SUBSET Obligations, Posting(r, L),
         row' = row, owed' = owed
  PROVE  /\ Others(r) /\ run' \in [Runs -> RunShape] /\ run'[r].pc \in {"idle", "orders"}
         /\ RunSound(r)'
  <1>1. AllocShapes /\ RunSound(r) /\ run[r] \in RunShape
    BY RunFacts
  <1>2. CASE L = {}
    <2>1. run' = [run EXCEPT ![r] = Idle]
      BY <1>2 DEF Posting
    <2>2. /\ Others(r) /\ run' \in [Runs -> RunShape]
          /\ run'[r].pc = "idle" /\ run'[r].seen = [o \in Obligations |-> 0]
      BY <1>1, <2>1, EndsRun
    <2>3. \A o \in Obligations : run'[r].seen[o] = 0 /\ Owed[o] \in Nat
      BY <2>2, AmountAssumption
    <2> QED
      BY <2>2, <2>3 DEF RunSound
  <1>3. CASE L # {}
    <2> DEFINE y == [run[r] EXCEPT !.pc = "orders", !.done = L]
    <2>1. run' = [run EXCEPT ![r] = y]
      BY <1>3 DEF Posting
    <2>2. y \in RunShape /\ y.pc = "orders" /\ y.done = L /\ y.pay = run[r].pay
          /\ y.left = run[r].left /\ y.seen = run[r].seen
      BY <1>1 DEF RunShape, Pcs
    <2> HIDE DEF y
    <2>3. run'[r] = y /\ Others(r) /\ run' \in [Runs -> RunShape]
      BY <1>1, <2>1, <2>2 DEF AllocShapes, Others
    <2> QED
      BY <1>1, <1>3, <2>2, <2>3 DEF RunSound
  <1> QED
    BY <1>2, <1>3

\* What takes the payment in posts.
LEMMA PostLandingKeeps ==
  ASSUME AllocInv, NEW r \in Runs, PostLanding(r)
  PROVE  AllocInv'
  <1>1. run[r].pc = "post" /\ UNCHANGED <<row, owed, order, exceeded, overrun, lapses, faults>>
    BY DEF PostLanding, At, past
  <1>2. AllocShapes /\ run[r] \in RunShape /\ Pay(r) \in Payments
    BY <1>1, RunFacts
  <1>3. landing' \in [Payments -> {"none", "raised", "posted"}]
    BY <1>2 DEF AllocShapes, PostLanding
  <1>4. run[r].done \in SUBSET Obligations /\ Posting(r, run[r].done)
    BY <1>2 DEF RunShape, PostLanding
  <1>5. Others(r) /\ run' \in [Runs -> RunShape] /\ run'[r].pc \in {"idle", "orders"} /\ RunSound(r)'
    BY <1>1, <1>4, PostingOn
  <1>6. PICK p \in Payments : p = Pay(r)
    BY <1>2
  <1>7. (run[r].pc \in Leasing => Pay(r) = p) /\ run'[r].pc \notin Leasing
    BY <1>5, <1>6 DEF Leasing
  <1>8. exceeded' \subseteq Payments /\ exceeded \subseteq exceeded' /\ faults' \in 0..MaxFaults
    BY <1>1, <1>2 DEF AllocShapes
  <1> QED
    BY <1>1, <1>3, <1>5, <1>7, <1>8, RunOnlyKeeps

\* The order a run posts next.
LEMMA NextPosted ==
  ASSUME AllocInv, NEW r \in Runs, run[r].pc = "orders"
  PROVE  Min(run[r].done) \in Obligations /\ run[r].done \in SUBSET Obligations
  <1>1. run[r] \in RunShape /\ RunSound(r)
    BY RunFacts
  <1>2. run[r].done \in SUBSET Nat /\ run[r].done # {} /\ run[r].done \in SUBSET Obligations
    BY <1>1, AmountAssumption DEF RunShape, RunSound
  <1> QED
    BY <1>2, LeastIsIn

\* An order of the run posts.
LEMMA PostOrderKeeps ==
  ASSUME AllocInv, NEW r \in Runs, PostOrder(r)
  PROVE  AllocInv'
  <1>1. run[r].pc = "orders" /\ UNCHANGED <<row, owed, landing, exceeded, overrun, lapses, faults>>
    BY DEF PostOrder, At, past
  <1>2. AllocShapes
    BY DEF AllocInv
  <1>3. PICK p \in Payments : p = Pay(r)
    BY <1>1, RunFacts
  <1>4. PICK o \in Obligations : o = Min(run[r].done)
    BY <1>1, NextPosted
  <1>5. PICK s : s = IF order[p][o].st = "raised" THEN "posted" ELSE order[p][o].st
    OBVIOUS
  <1>6. s \in {"none", "raised", "posted", "parked"}
        /\ (s = order[p][o].st \/ (order[p][o].st = "raised" /\ s \in {"posted", "parked"}))
        /\ (s # "parked" \/ s = order[p][o].st)
    BY <1>2, <1>5 DEF AllocShapes, OrderShape
  <1>7. StateTo(p, o, s) /\ Posting(r, run[r].done \ {o})
    BY <1>3, <1>4, <1>5 DEF PostOrder, StateTo
  <1>8. /\ order' \in [Payments -> [Obligations -> OrderShape]]
        /\ \A q \in Payments, n \in Obligations : order'[q][n].amt <= Owed[n]
        /\ Advances /\ OrdersSound' /\ OwedAddsUp' /\ OthersStill(p)
        /\ PaymentStill(p)
    BY <1>1, <1>6, <1>7, StateStill
  <1>9. Others(r) /\ run' \in [Runs -> RunShape] /\ run'[r].pc \in {"idle", "orders"} /\ RunSound(r)'
    <2>1. run[r].done \ {o} \in SUBSET Obligations
      BY <1>1, NextPosted
    <2> QED
      BY <1>1, <1>7, <2>1, PostingOn
  <1>10. AllocShapes'
    BY <1>1, <1>2, <1>8, <1>9 DEF AllocShapes
  <1>11. p \notin overrun' => PaymentKept(p)'
    BY <1>1, <1>2, <1>8, <1>10, StillKept DEF AllocInv, PaymentsKept
  <1>12. LeasesStay(r) /\ run[r].pc \notin Leasing /\ run'[r].pc \notin Leasing
    BY <1>1, <1>9 DEF LeasesStay, Leasing
  <1> QED
    BY <1>8, <1>9, <1>10, <1>11, <1>12, OneRunKeeps

\* The ledger refuses.
LEMMA PostFailsKeeps ==
  ASSUME AllocInv, NEW r \in Runs, PostFails(r)
  PROVE  AllocInv'
  <1>1. run[r].pc \in {"post", "orders"}
        /\ UNCHANGED <<row, owed, order, landing, exceeded, overrun, lapses>>
    BY DEF PostFails, At, past
  <1>2. AllocShapes /\ Pay(r) \in Payments
    BY <1>1, RunFacts
  <1>3. faults' \in 0..MaxFaults
    BY <1>2, FaultKept DEF PostFails
  <1>4. PICK L \in SUBSET Obligations : Posting(r, L)
    <2>1. CASE At(r, "post") /\ run' = [run EXCEPT ![r] = Idle]
      <3>1. Posting(r, {})
        BY <2>1 DEF Posting
      <3> QED
        BY <3>1
    <2>2. CASE At(r, "orders") /\ Posting(r, run[r].done \ {Min(run[r].done)})
      <3>1. run[r].done \ {Min(run[r].done)} \in SUBSET Obligations
        BY <2>2, NextPosted DEF At
      <3> QED
        BY <2>2, <3>1
    <2> QED
      BY <2>1, <2>2 DEF PostFails
  <1>5. Others(r) /\ run' \in [Runs -> RunShape] /\ run'[r].pc \in {"idle", "orders"} /\ RunSound(r)'
    BY <1>1, <1>4, PostingOn
  <1>6. PICK p \in Payments : p = Pay(r)
    BY <1>2
  <1>7. (run[r].pc \in Leasing => Pay(r) = p) /\ run'[r].pc \notin Leasing
    BY <1>5, <1>6 DEF Leasing
  <1>8. exceeded' \subseteq Payments /\ exceeded \subseteq exceeded'
        /\ landing' \in [Payments -> {"none", "raised", "posted"}]
    BY <1>1, <1>2 DEF AllocShapes
  <1> QED
    BY <1>1, <1>3, <1>5, <1>7, <1>8, RunOnlyKeeps

\* A lease that changes hands leaves the payments as they are.
LEMMA RowStill ==
  ASSUME AllocInv, UNCHANGED <<owed, order>>, exceeded \subseteq exceeded', overrun \subseteq overrun',
         \A q \in Payments : row'[q].owner = row[q].owner /\ row'[q].left = row[q].left
                             /\ row'[q].st = row[q].st
  PROVE  /\ Advances /\ OrdersSound' /\ OwedAddsUp' /\ (\A q \in Payments : PaymentStill(q))
         /\ \A q \in Payments : row'[q].left \in Unknown..Amount[q]
                                /\ (row'[q].left = Unknown <=> row'[q].st = "new")
  <1>1. AllocShapes /\ OrdersSound /\ OwedAddsUp
    BY DEF AllocInv
  <1>2. OrdersAlike
    BY DEF OrdersAlike
  <1>3. (\A q \in Payments : Spent(q)' = Spent(q)) /\ \A o \in Obligations : Taken(o)' = Taken(o)
    BY <1>2, AlikeTotals
  <1>4. Advances
    <2>1. \A o \in Obligations : owed'[o] = owed[o] /\ owed[o] \in Int
      BY <1>1 DEF AllocShapes
    <2> QED
      BY <2>1 DEF Advances, OwedFalls, OwnersStay, OrdersStay
  <1>5. \A q \in Payments : PaymentStill(q)
    BY <1>3 DEF PaymentStill, Pending
  <1>6. OrdersSound'
    BY <1>1 DEF OrdersSound, OrderSound
  <1>7. OwedAddsUp'
    BY <1>1, <1>3 DEF OwedAddsUp
  <1> QED
    BY <1>1, <1>4, <1>5, <1>6, <1>7 DEF AllocShapes

\* A run that ends gives its lease back.
LEMMA FreesKeeps ==
  ASSUME AllocInv, NEW r \in Runs, run[r].pc # "idle",
         row' = (IF row[Pay(r)].lease = r THEN [row EXCEPT ![Pay(r)].lease = "free"] ELSE row),
         run' = [run EXCEPT ![r] = Idle], faults' \in 0..MaxFaults,
         UNCHANGED <<owed, order, landing, exceeded, overrun, lapses>>
  PROVE  AllocInv'
  <1>1. AllocShapes
    BY DEF AllocInv
  <1>2. PICK p \in Payments : p = Pay(r)
    BY RunFacts
  <1>3. /\ row' \in [Payments -> PayRowShape]
        /\ \A q \in Payments : q # p => row'[q] = row[q]
        /\ row'[p].owner = row[p].owner /\ row'[p].st = row[p].st /\ row'[p].left = row[p].left
        /\ (row[p].lease = r \/ row'[p].lease = row[p].lease)
    <2>1. CASE row[p].lease = r
      <3>1. LeaseTo(p, "free")
        BY <1>2, <2>1 DEF LeaseTo
      <3> QED
        BY <1>1, <2>1, <3>1, LeaseBecomes
    <2>2. CASE row[p].lease # r
      BY <1>1, <1>2, <2>2 DEF AllocShapes
    <2> QED
      BY <2>1, <2>2
  <1>4. \A q \in Payments : row'[q].owner = row[q].owner /\ row'[q].left = row[q].left
                            /\ row'[q].st = row[q].st
    BY <1>3
  <1>5. /\ Advances /\ OrdersSound' /\ OwedAddsUp' /\ (\A q \in Payments : PaymentStill(q))
        /\ \A q \in Payments : row'[q].left \in Unknown..Amount[q]
                               /\ (row'[q].left = Unknown <=> row'[q].st = "new")
    BY <1>4, RowStill
  <1>6. /\ Others(r) /\ run' \in [Runs -> RunShape] /\ run'[r].pc = "idle"
        /\ run'[r].seen = [o \in Obligations |-> 0]
    BY <1>1, EndsRun
  <1>7. RunSound(r)'
    <2>1. \A o \in Obligations : run'[r].seen[o] = 0 /\ Owed[o] \in Nat
      BY <1>6, AmountAssumption
    <2> QED
      BY <1>6, <2>1 DEF RunSound
  <1>8. AllocShapes'
    BY <1>1, <1>3, <1>5, <1>6 DEF AllocShapes
  <1>9. OthersStill(p) /\ PaymentStill(p)
    BY <1>5 DEF OthersStill
  <1>10. p \notin overrun' => PaymentKept(p)'
    BY <1>1, <1>5, <1>8, StillKept DEF AllocInv, PaymentsKept
  <1>11. LeasesStay(r)
    BY <1>3 DEF LeasesStay
  <1>12. (run[r].pc \in Leasing => Pay(r) = p) /\ run'[r].pc \notin Leasing
    BY <1>2, <1>6 DEF Leasing
  <1> QED
    BY <1>5, <1>6, <1>7, <1>8, <1>9, <1>10, <1>11, <1>12, OneRunKeeps

\* A read that fails, and a process that dies.
LEMMA ReleaseKeeps ==
  ASSUME AllocInv, NEW r \in Runs, Release(r) \/ Die(r)
  PROVE  AllocInv'
  <1>1. run[r].pc # "idle" /\ Fault /\ run' = [run EXCEPT ![r] = Idle]
        /\ row' = (IF row[Pay(r)].lease = r THEN [row EXCEPT ![Pay(r)].lease = "free"] ELSE row)
        /\ UNCHANGED <<owed, order, landing, exceeded, overrun, lapses>>
    BY DEF Release, Die, At, past
  <1>2. faults' \in 0..MaxFaults
    BY <1>1, FaultKept DEF AllocInv
  <1> QED
    BY <1>1, <1>2, FreesKeeps

\* The outcome is recorded, under the lease.
LEMMA RecordKeeps ==
  ASSUME AllocInv, NEW r \in Runs, Record(r)
  PROVE  AllocInv'
  <1>1. run[r].pc = "walk" /\ UNCHANGED <<owed, order, landing, exceeded, overrun, lapses, faults>>
    BY DEF Record, At, past
  <1>2. AllocShapes /\ OrdersSound /\ OwedAddsUp
    BY DEF AllocInv
  <1>3. PICK p \in Payments : p = Pay(r)
    BY <1>1, RunFacts
  <1>4. /\ row[p].owner # "none" /\ run[r].left \in Nat /\ run[r].left <= Amount[p]
        /\ run[r] \in RunShape /\ (p \notin overrun => RunKept(r) /\ PaymentKept(p))
        /\ Spent(p) \in Nat /\ p = run[r].pay
    BY <1>1, <1>3, RunFacts DEF Leasing, Pay
  <1>5. /\ row' \in [Payments -> PayRowShape]
        /\ \A q \in Payments : q # p => row'[q] = row[q]
        /\ row'[p].owner = row[p].owner
        /\ \/ /\ row'[p].left = row[p].left /\ row'[p].st = row[p].st
              /\ row'[p].lease = row[p].lease /\ row[p].lease # r
           \/ row'[p].left = run[r].left /\ row'[p].st # "new" /\ row[p].lease = r
    <2>1. CASE row[p].lease = r
      <3>1. row[Pay(r)].lease = r /\ Pay(r) \in Payments /\ run[r].left <= Amount[Pay(r)]
        BY <1>3, <1>4, <2>1
      <3>2. /\ row' \in [Payments -> PayRowShape]
            /\ \A q \in Payments : q # Pay(r) => row'[q] = row[q]
            /\ row'[Pay(r)].owner = row[Pay(r)].owner /\ row'[Pay(r)].left = run[r].left
            /\ row'[Pay(r)].st \in {"unallocated", "partial", "full"} /\ row'[Pay(r)].lease = "free"
        BY <1>2, <3>1, OutcomeBecomes
      <3> QED
        BY <1>3, <2>1, <3>2
    <2>2. CASE row[p].lease # r
      <3>1. row' = row
        BY <1>3, <2>2 DEF Record
      <3> QED
        BY <1>2, <2>2, <3>1 DEF AllocShapes
    <2> QED
      BY <2>1, <2>2
  <1>6. /\ Others(r) /\ run' \in [Runs -> RunShape] /\ run'[r].pc = "post" /\ run'[r].pay = p
        /\ run'[r].seen = [o \in Obligations |-> 0] /\ run'[r].left = 0
    <2> DEFINE y == [Idle EXCEPT !.pay = Pay(r), !.pc = "post", !.suspense = run[r].suspense,
                                 !.done = run[r].done]
    <2>1. run' = [run EXCEPT ![r] = y]
      BY DEF Record
    <2>2. y \in RunShape /\ y.pc = "post" /\ y.pay = p /\ y.seen = [o \in Obligations |-> 0] /\ y.left = 0
      BY <1>3, <1>4 DEF RunShape, Idle, Pcs
    <2> HIDE DEF y
    <2> QED
      BY <1>2, <2>1, <2>2 DEF AllocShapes, Others
  <1>7. RunSound(r)'
    <2>1. \A o \in Obligations : run'[r].seen[o] = 0 /\ Owed[o] \in Nat
      BY <1>6, AmountAssumption
    <2>2. row'[p].owner # "none" /\ 0 <= Amount[p]
      BY <1>4, <1>5, AmountAssumption
    <2> QED
      BY <1>6, <2>1, <2>2 DEF RunSound
  <1>8. OrdersAlike
    BY <1>1 DEF OrdersAlike
  <1>9. (\A q \in Payments : Spent(q)' = Spent(q)) /\ \A o \in Obligations : Taken(o)' = Taken(o)
    BY <1>8, AlikeTotals
  <1>10. Advances
    <2>1. \A o \in Obligations : owed'[o] = owed[o] /\ owed[o] \in Int
      BY <1>1, <1>2 DEF AllocShapes
    <2>2. OwnersStay
      BY <1>5 DEF OwnersStay
    <2> QED
      BY <1>1, <2>1, <2>2 DEF Advances, OwedFalls, OrdersStay
  <1>11. OthersStill(p)
    BY <1>1, <1>5, <1>9 DEF OthersStill, PaymentStill, Pending
  <1>12. OrdersSound' /\ OwedAddsUp'
    <2>1. \A q \in Payments : row'[q].owner = row[q].owner
      BY <1>5
    <2> QED
      BY <1>1, <1>2, <1>9, <2>1 DEF OrdersSound, OrderSound, OwedAddsUp
  <1>13. \A q \in Payments : row'[q].left \in Unknown..Amount[q]
                             /\ (row'[q].left = Unknown <=> row'[q].st = "new")
    <2> TAKE q \in Payments
    <2>1. row[q].left \in Unknown..Amount[q] /\ (row[q].left = Unknown <=> row[q].st = "new")
      BY <1>2 DEF AllocShapes
    <2>2. Amount[q] \in Nat
      BY AmountAssumption
    <2>3. CASE row'[q].left = row[q].left /\ row'[q].st = row[q].st
      BY <2>1, <2>3
    <2>4. CASE q = p /\ row'[p].left = run[r].left /\ row'[p].st # "new"
      BY <1>4, <2>2, <2>4 DEF Unknown
    <2> QED
      BY <1>5, <2>3, <2>4
  <1>14. AllocShapes'
    BY <1>1, <1>2, <1>5, <1>6, <1>13 DEF AllocShapes
  <1>15. p \notin overrun' => PaymentKept(p)'
    <2> HAVE p \notin overrun'
    <2>1. PaymentKept(p) /\ RunKept(r) /\ Unspent(p)' = Unspent(p) /\ Spent(p)' = Spent(p)
      BY <1>1, <1>4, <1>9 DEF Unspent
    <2>2. row[p].lease = r /\ (row[p].owner = "member" => run[r].left + Spent(p) >= Amount[p])
      BY <1>4, <2>1 DEF RunKept
    <2>3. row'[p].left = run[r].left
      BY <1>5, <2>2
    <2>4. row[p].owner = "member" => \A n \in Obligations : Pending(p, n)' =>
            order'[p][n].amt >= Least(owed[n], Unspent(p))
      BY <1>1, <2>1 DEF PaymentKept, Pending
    <2> QED
      BY <1>1, <1>5, <2>1, <2>2, <2>3, <2>4 DEF PaymentKept
  <1>16. LeasesStay(r)
    BY <1>5 DEF LeasesStay
  <1>17. run[r].pc \in Leasing /\ Pay(r) = p /\ run'[r].pc \notin Leasing
    BY <1>1, <1>3, <1>6 DEF Leasing
  <1> QED
    BY <1>6, <1>7, <1>10, <1>11, <1>12, <1>14, <1>15, <1>16, <1>17, OneRunKeeps

-----------------------------------------------------------------------------
(* The claim of a payment *)

\* A payment is claimed, with its lease free or taken from a run that outlived it.
LEMMA ClaimKeeps ==
  ASSUME AllocInv, NEW r \in Runs, NEW p \in Payments, NEW s \in BOOLEAN, Claim(r, p, s)
  PROVE  AllocInv'
  <1>1. run[r].pc = "idle" /\ row[p].owner # "none" /\ LeaseTo(p, r)
        /\ UNCHANGED <<owed, order, landing, exceeded, faults>>
    BY DEF Claim, At, LeaseTo
  <1>2. AllocShapes /\ PaymentsKept
    BY DEF AllocInv
  <1>3. /\ row' \in [Payments -> PayRowShape] /\ row'[p].lease = r
        /\ \A q \in Payments : q # p => row'[q] = row[q]
        /\ row'[p].owner = row[p].owner /\ row'[p].st = row[p].st /\ row'[p].left = row[p].left
    BY <1>1, <1>2, LeaseBecomes
  <1>4. /\ overrun \subseteq overrun' /\ overrun' \subseteq Payments /\ lapses' \in 0..MaxLapses
        /\ (row[p].lease = "free" \/ p \in overrun')
    <2>1. CASE row[p].lease = "free" /\ UNCHANGED <<overrun, lapses>>
      BY <1>2, <2>1 DEF AllocShapes
    <2>2. CASE lapses > 0 /\ overrun' = overrun \union {p} /\ lapses' = lapses - 1
      <3>1. lapses \in Int /\ lapses <= MaxLapses /\ overrun \subseteq Payments
        BY <1>2, BoundAssumption DEF AllocShapes
      <3> QED
        BY <2>2, <3>1, BoundAssumption
    <2> QED
      BY <2>1, <2>2 DEF Claim, Claimable
  <1>5. /\ Advances /\ OrdersSound' /\ OwedAddsUp' /\ (\A q \in Payments : PaymentStill(q))
        /\ \A q \in Payments : row'[q].left \in Unknown..Amount[q]
                               /\ (row'[q].left = Unknown <=> row'[q].st = "new")
    <2>1. \A q \in Payments : row'[q].owner = row[q].owner /\ row'[q].left = row[q].left
                              /\ row'[q].st = row[q].st
      BY <1>3
    <2>2. exceeded \subseteq exceeded' /\ overrun \subseteq overrun'
      BY <1>1, <1>4
    <2> QED
      BY <1>1, <2>1, <2>2, RowStill
  <1>6. /\ Remainder(p) \in Nat /\ Remainder(p) <= Amount[p] /\ Amount[p] \in Nat
        /\ Remainder(p) = (IF row[p].st = "new" THEN Amount[p] ELSE row[p].left)
    BY <1>2, RemainderIs
  <1>7. /\ Others(r) /\ run' \in [Runs -> RunShape] /\ run'[r].pc \in {"paid", "land"}
        /\ (run'[r].pc = "land" => ~run'[r].suspense)
        /\ run'[r].pay = p /\ run'[r].seen = [o \in Obligations |-> 0] /\ run'[r].left = Remainder(p)
    <2> DEFINE y == [Idle EXCEPT !.pay = p, !.suspense = s, !.left = Remainder(p),
                                 !.pc = IF s THEN "paid" ELSE "land"]
    <2>1. run' = [run EXCEPT ![r] = y]
      BY DEF Claim
    <2>2. y \in RunShape /\ y.pc \in {"paid", "land"} /\ (y.pc = "land" => ~y.suspense)
          /\ y.pay = p /\ y.seen = [o \in Obligations |-> 0] /\ y.left = Remainder(p)
      BY <1>6 DEF RunShape, Idle, Pcs
    <2> HIDE DEF y
    <2> QED
      BY <1>2, <2>1, <2>2 DEF AllocShapes, Others
  <1>8. RunSound(r)'
    <2>1. \A o \in Obligations : run'[r].seen[o] = 0 /\ Owed[o] \in Nat
      BY <1>7, AmountAssumption
    <2> QED
      BY <1>1, <1>3, <1>6, <1>7, <2>1 DEF RunSound
  <1>9. AllocShapes'
    BY <1>1, <1>2, <1>3, <1>4, <1>5, <1>7 DEF AllocShapes
  <1>10. OthersStill(p) /\ PaymentStill(p)
    BY <1>5 DEF OthersStill
  <1>11. p \notin overrun' => PaymentKept(p)'
    BY <1>2, <1>4, <1>5, <1>9, StillKept DEF AllocInv, PaymentsKept
  <1>12. p \notin overrun' => RunKept(r)'
    <2> HAVE p \notin overrun'
    <2>1. PaymentKept(p) /\ Spent(p)' = Spent(p) /\ Spent(p) \in Nat
      BY <1>2, <1>4, <1>5, TotalsAre DEF PaymentsKept, PaymentStill
    <2>2. row[p].owner = "member" => Remainder(p) + Spent(p) >= Amount[p]
      <3>1. row[p].left = Unknown <=> row[p].st = "new"
        BY <1>2 DEF AllocShapes
      <3> QED
        BY <1>6, <2>1, <3>1 DEF PaymentKept
    <2>3. \A o \in Obligations : ~(run'[r].seen[o] > 0)
      BY <1>7
    <2> QED
      BY <1>3, <1>7, <2>1, <2>2, <2>3 DEF RunKept
  <1>13. LeasesStay(r)
    <2> SUFFICES ASSUME NEW q \in Payments, NEW d \in Runs, d # r, row[q].lease = d
                 PROVE  row'[q].lease = d \/ q \in overrun'
      BY DEF LeasesStay
    <2>1. d # "free"
      BY NameAssumption
    <2> QED
      BY <1>3, <1>4, <2>1
  <1>14. (run[r].pc \in Leasing => Pay(r) = p)
         /\ (run'[r].pc \in Leasing /\ Pay(r)' \notin overrun' => RunKept(r)')
    BY <1>1, <1>7, <1>12 DEF Leasing, Pay
  <1> QED
    BY <1>5, <1>7, <1>8, <1>9, <1>10, <1>11, <1>13, <1>14, OneRunKeeps

-----------------------------------------------------------------------------
(* Steps of no run *)

\* A payment is matched with its owner.
LEMMA AssignOwnerKeeps ==
  ASSUME AllocInv, NEW p \in Payments, NEW who \in MayOwn[p], AssignOwner(p, who)
  PROVE  AllocInv'
  <1>1. UNCHANGED <<owed, order, landing, run, exceeded, overrun, lapses, faults>>
    BY DEF AssignOwner, past
  <1>2. AllocShapes /\ OrdersSound /\ OwedAddsUp /\ PaymentsKept
    BY DEF AllocInv
  <1>3. /\ row' \in [Payments -> PayRowShape] /\ row'[p].owner = who
        /\ \A q \in Payments : q # p => row'[q] = row[q]
        /\ row'[p].lease = row[p].lease /\ row'[p].st = row[p].st /\ row'[p].left = row[p].left
        /\ row[p].owner = "none" /\ row[p].st = "new"
    BY <1>2, OwnerBecomes
  <1>4. who # "none"
    BY AmountAssumption DEF Owners
  <1>5. AllocShapes'
    <2>1. \A q \in Payments : row'[q].left = row[q].left /\ row'[q].st = row[q].st
      BY <1>3
    <2> QED
      BY <1>1, <1>2, <1>3, <2>1 DEF AllocShapes
  <1>6. OrdersAlike
    BY <1>1 DEF OrdersAlike
  <1>7. (\A q \in Payments : Spent(q)' = Spent(q)) /\ \A o \in Obligations : Taken(o)' = Taken(o)
    BY <1>6, AlikeTotals
  <1>8. Advances
    <2>1. \A o \in Obligations : owed'[o] = owed[o] /\ owed[o] \in Int
      BY <1>1, <1>2 DEF AllocShapes
    <2>2. OwnersStay
      BY <1>3 DEF OwnersStay
    <2> QED
      BY <1>1, <2>1, <2>2 DEF Advances, OwedFalls, OrdersStay
  <1>9. OthersStill(p)
    BY <1>1, <1>3, <1>7 DEF OthersStill, PaymentStill, Pending
  <1>10. OrdersSound'
    <2>1. \A q \in Payments : row[q].owner # "none" => row'[q].owner # "none"
      BY <1>3
    <2> QED
      BY <1>1, <1>2, <2>1 DEF OrdersSound, OrderSound
  <1>11. OwedAddsUp'
    BY <1>1, <1>2, <1>7 DEF OwedAddsUp
  <1>12. p \notin overrun => PaymentKept(p)'
    <2> HAVE p \notin overrun
    <2>1. \A o \in Obligations : order[p][o].st = "none"
      BY <1>2, <1>3 DEF OrdersSound, OrderSound
    <2>2. row[p].left = Unknown
      BY <1>2, <1>3 DEF AllocShapes
    <2>3. PaymentKept(p)
      BY <1>2 DEF PaymentsKept
    <2>4. \A o \in Obligations : ~Pending(p, o)'
      BY <1>1, <2>1 DEF Pending
    <2> QED
      BY <1>1, <1>3, <1>7, <2>1, <2>2, <2>3, <2>4 DEF PaymentKept
  <1>13. \A q \in Payments : row'[q].lease = row[q].lease
    BY <1>3
  <1> QED
    BY <1>1, <1>3, <1>5, <1>8, <1>9, <1>10, <1>11, <1>12, <1>13, NoRunKeeps

\* An obligation is raised late.
LEMMA RaiseKeeps ==
  ASSUME AllocInv, NEW o \in Obligations, Raise(o)
  PROVE  AllocInv'
  <1>1. UNCHANGED <<row, order, landing, run, exceeded, overrun, lapses, faults>>
        /\ owed[o] = Unknown
    BY DEF Raise, past
  <1>2. AllocShapes /\ OrdersSound /\ OwedAddsUp /\ PaymentsKept
    BY DEF AllocInv
  <1>3. /\ owed'[o] = Owed[o] /\ (\A n \in Obligations : n # o => owed'[n] = owed[n])
        /\ owed' \in [Obligations -> Int] /\ Owed[o] \in Nat
    BY <1>2, AmountAssumption DEF AllocShapes, Raise
  <1>4. AllocShapes'
    <2>1. \A n \in Obligations : owed'[n] \in Unknown..Owed[n] /\ (n \notin Late => owed'[n] # Unknown)
      <3> TAKE n \in Obligations
      <3>1. CASE n = o
        BY <1>3, <3>1 DEF Unknown
      <3>2. CASE n # o
        BY <1>2, <1>3, <3>2 DEF AllocShapes
      <3> QED
        BY <3>1, <3>2
    <2> QED
      BY <1>1, <1>2, <1>3, <2>1 DEF AllocShapes
  <1>5. OrdersAlike
    BY <1>1 DEF OrdersAlike
  <1>6. (\A q \in Payments : Spent(q)' = Spent(q)) /\ \A n \in Obligations : Taken(n)' = Taken(n)
    BY <1>5, AlikeTotals
  <1>7. Advances
    <2>1. OwedFalls
      <3>1. \A n \in Obligations : owed[n] \in Int
        BY <1>2 DEF AllocShapes
      <3> QED
        BY <1>1, <1>3, <3>1 DEF OwedFalls
    <2> QED
      BY <1>1, <2>1 DEF Advances, OwnersStay, OrdersStay
  <1>8. \A q \in Payments : PaymentStill(q)
    BY <1>1, <1>6 DEF PaymentStill, Pending
  <1>9. OrdersSound'
    <2>1. \A n \in Obligations : owed[n] # Unknown => owed'[n] # Unknown
      BY <1>1, <1>3
    <2> QED
      BY <1>1, <1>2, <2>1 DEF OrdersSound, OrderSound
  <1>10. Taken(o) = 0
    <2>1. TakersOf(o) = {}
      BY <1>1, <1>2 DEF OrdersSound, OrderSound, TakersOf
    <2> QED
      BY <1>2, <2>1, TotalsAre, TotalEmpty
  <1>11. OwedAddsUp'
    <2> SUFFICES ASSUME NEW n \in Obligations, owed'[n] # Unknown PROVE owed'[n] + Taken(n)' = Owed[n]
      BY DEF OwedAddsUp
    <2>1. CASE n = o
      BY <1>3, <1>6, <1>10, <2>1
    <2>2. CASE n # o
      BY <1>2, <1>3, <1>6, <2>2 DEF OwedAddsUp
    <2> QED
      BY <2>1, <2>2
  <1>12. PICK p : p \notin Payments
    BY NothingHoldsAll
  <1>13. OthersStill(p)
    BY <1>8 DEF OthersStill
  <1> QED
    BY <1>1, <1>4, <1>7, <1>9, <1>11, <1>12, <1>13, NoRunKeeps

\* The settle job posts what takes a payment in.
LEMMA SettleLandingKeeps ==
  ASSUME AllocInv, NEW p \in Payments, SettleLanding(p)
  PROVE  AllocInv'
  <1>1. UNCHANGED <<row, owed, order, run, exceeded, overrun, lapses, faults>>
    BY DEF SettleLanding, past
  <1>2. AllocShapes /\ OrdersSound /\ OwedAddsUp
    BY DEF AllocInv
  <1>3. Advances /\ (\A q \in Payments : PaymentStill(q)) /\ OrdersSound' /\ OwedAddsUp'
    BY <1>1, <1>2, AllStill
  <1>4. AllocShapes'
    <2>1. landing' \in [Payments -> {"none", "raised", "posted"}]
      BY <1>2 DEF AllocShapes, SettleLanding
    <2> QED
      BY <1>1, <1>2, <2>1 DEF AllocShapes
  <1>5. p \notin overrun => PaymentKept(p)'
    BY <1>2, <1>3, <1>4, StillKept DEF AllocInv, PaymentsKept
  <1>6. OthersStill(p) /\ PaymentStill(p)
    BY <1>3 DEF OthersStill
  <1> QED
    BY <1>1, <1>3, <1>4, <1>5, <1>6, NoRunKeeps

\* It posts an order.
LEMMA SettleOrderKeeps ==
  ASSUME AllocInv, NEW p \in Payments, NEW o \in Obligations, SettleOrder(p, o)
  PROVE  AllocInv'
  <1>1. UNCHANGED <<row, owed, landing, run, exceeded, overrun, lapses, faults>>
        /\ order[p][o].st = "raised" /\ StateTo(p, o, "posted")
    BY DEF SettleOrder, past, StateTo
  <1>2. AllocShapes
    BY DEF AllocInv
  <1>3. /\ order' \in [Payments -> [Obligations -> OrderShape]]
        /\ \A q \in Payments, n \in Obligations : order'[q][n].amt <= Owed[n]
        /\ Advances /\ OrdersSound' /\ OwedAddsUp' /\ OthersStill(p) /\ PaymentStill(p)
    <2>1. "posted" \in {"none", "raised", "posted", "parked"}
      OBVIOUS
    <2> QED
      BY <1>1, <2>1, StateStill
  <1>4. AllocShapes'
    BY <1>1, <1>2, <1>3 DEF AllocShapes
  <1>5. p \notin overrun => PaymentKept(p)'
    BY <1>2, <1>3, <1>4, StillKept DEF AllocInv, PaymentsKept
  <1> QED
    BY <1>1, <1>3, <1>4, <1>5, NoRunKeeps

-----------------------------------------------------------------------------
(* Orders raised and not debited *)

\* A run is at the order p has for o.
Holds(r, p, o) == run[r].pc \in {"consume", "park"} /\ run[r].pay = p /\ run[r].next = o

\* An order that took nothing has a run at it, is parked, or was left by a run that stopped
\* or could not park it: until then it is not posted.
OrdersHeld ==
  \A p \in Payments \ overrun, o \in Obligations : <<p, o>> \notin torn /\ Pending(p, o) =>
    order[p][o].st = "raised" /\ \E r \in Runs : Holds(r, p, o)

\* What a run is to post has taken from its obligation.
DoneTook ==
  \A r \in Runs : \A o \in run[r].done :
    run[r].pay \in Payments /\ o \in Obligations /\ order[run[r].pay][o].consumed

HeldInv == OrdersHeld /\ DoneTook

\* A step of one run keeps it if what the run was at does not stay, or stays with it.
LEMMA OneRunHolds ==
  ASSUME HeldInv, NEW r \in Runs, Others(r), overrun \subseteq overrun', torn \subseteq torn',
         \A p \in Payments \ overrun', o \in Obligations :
           <<p, o>> \notin torn' /\ Pending(p, o)' =>
             \/ Pending(p, o) /\ order'[p][o].st = order[p][o].st /\ (Holds(r, p, o) => Holds(r, p, o)')
             \/ order'[p][o].st = "raised" /\ Holds(r, p, o)',
         \A p \in Payments, o \in Obligations : order[p][o].consumed => order'[p][o].consumed,
         \A o \in run'[r].done :
           run'[r].pay \in Payments /\ o \in Obligations /\ order'[run'[r].pay][o].consumed
  PROVE  HeldInv'
  <1>1. OrdersHeld'
    <2> SUFFICES ASSUME NEW p \in Payments, p \notin overrun', NEW o \in Obligations,
                        <<p, o>> \notin torn', Pending(p, o)'
                 PROVE  order'[p][o].st = "raised" /\ \E d \in Runs : Holds(d, p, o)'
      BY DEF OrdersHeld
    <2>1. CASE order'[p][o].st = "raised" /\ Holds(r, p, o)'
      BY <2>1
    <2>2. CASE /\ Pending(p, o) /\ order'[p][o].st = order[p][o].st
               /\ Holds(r, p, o) => Holds(r, p, o)'
      <3>1. p \notin overrun /\ <<p, o>> \notin torn
        OBVIOUS
      <3>2. order[p][o].st = "raised" /\ \E d \in Runs : Holds(d, p, o)
        BY <2>2, <3>1 DEF HeldInv, OrdersHeld
      <3>3. PICK d \in Runs : Holds(d, p, o)
        BY <3>2
      <3>4. Holds(d, p, o)'
        <4>1. CASE d = r
          BY <2>2, <3>3, <4>1
        <4>2. CASE d # r
          BY <3>3, <4>2 DEF Others, Holds
        <4> QED
          BY <4>1, <4>2
      <3> QED
        BY <2>2, <3>2, <3>4
    <2> QED
      BY <2>1, <2>2
  <1>2. DoneTook'
    <2> SUFFICES ASSUME NEW d \in Runs, NEW o \in run'[d].done
                 PROVE  run'[d].pay \in Payments /\ o \in Obligations /\ order'[run'[d].pay][o].consumed
      BY DEF DoneTook
    <2>1. CASE d = r
      BY <2>1
    <2>2. CASE d # r
      <3>1. run'[d] = run[d]
        BY <2>2 DEF Others
      <3> QED
        BY <3>1 DEF HeldInv, DoneTook
    <2> QED
      BY <2>1, <2>2
  <1> QED
    BY <1>1, <1>2 DEF HeldInv

\* So does a step that leaves the orders alone, of a run that is at none or leaves it behind.
LEMMA QuietHolds ==
  ASSUME HeldInv, NEW r \in Runs, Others(r), order' = order, overrun \subseteq overrun',
         torn \subseteq torn',
         \A p \in Payments, o \in Obligations : Holds(r, p, o) => <<p, o>> \in torn' \/ Holds(r, p, o)',
         run'[r].done \subseteq run[r].done, run'[r].done # {} => run'[r].pay = run[r].pay
  PROVE  HeldInv'
  <1>1. \A p \in Payments, o \in Obligations : Pending(p, o)' <=> Pending(p, o)
    BY DEF Pending
  <1>2. \A o \in run'[r].done :
          run'[r].pay \in Payments /\ o \in Obligations /\ order'[run'[r].pay][o].consumed
    BY DEF HeldInv, DoneTook
  <1> QED
    BY <1>1, <1>2, OneRunHolds

\* What a run left to post, or none, is what it had to.
LEMMA PostingLeaves ==
  ASSUME AllocShapes, NEW r \in Runs, NEW L \in SUBSET Obligations, Posting(r, L)
  PROVE  /\ Others(r) /\ run'[r].done = L /\ (L # {} => run'[r].pay = run[r].pay)
         /\ run'[r].pc \in {"idle", "orders"}
  <1>1. CASE L = {}
    BY <1>1 DEF Posting, AllocShapes, Others, Idle
  <1>2. CASE L # {}
    <2> DEFINE y == [run[r] EXCEPT !.pc = "orders", !.done = L]
    <2>1. run' = [run EXCEPT ![r] = y]
      BY <1>2 DEF Posting
    <2>2. run[r] \in RunShape
      BY DEF AllocShapes
    <2>3. y.done = L /\ y.pay = run[r].pay /\ y.pc = "orders"
      BY <2>2 DEF RunShape
    <2> HIDE DEF y
    <2> QED
      BY <2>1, <2>3 DEF AllocShapes, Others
  <1> QED
    BY <1>1, <1>2

\* The reads of a run, and what takes the payment in.
LEMMA ReadsHold ==
  ASSUME AllocInv, HeldInv, NEW r \in Runs, Land(r) \/ ReadOwed(r) \/ ReadPaid(r)
  PROVE  HeldInv'
  <1>1. AllocShapes /\ run[r] \in RunShape
    BY DEF AllocInv, AllocShapes
  <1>2. run[r].pc \in {"land", "owed", "paid"} /\ order' = order /\ overrun' = overrun /\ torn' = torn
    BY DEF Land, ReadOwed, ReadPaid, At, past
  <1>3. Others(r) /\ run'[r].done = run[r].done /\ run'[r].pay = run[r].pay
    <2>1. CASE Land(r)
      <3>1. CASE To(r, "owed")
        BY <1>1, <3>1, GoesTo DEF Pcs
      <3>2. CASE run' = [run EXCEPT ![r].pc = "walk", ![r].left = 0]
        <4>1. Leaves(r, "walk", 0)
          BY <3>2 DEF Leaves
        <4> QED
          BY <1>1, <4>1, LeavesOn DEF Pcs
      <3> QED
        BY <2>1, <3>1, <3>2 DEF Land
    <2>2. CASE ReadOwed(r)
      <3> DEFINE pc == IF run[r].suspense THEN "walk" ELSE "paid"
                 s == [o \in Obligations |-> AtLeast0(owed[o])]
                 y == [run[r] EXCEPT !.pc = pc, !.seen = s]
      <3>1. run' = [run EXCEPT ![r] = y]
        BY <2>2 DEF ReadOwed
      <3>2. y.done = run[r].done /\ y.pay = run[r].pay
        BY <1>1 DEF RunShape
      <3> HIDE DEF y
      <3> QED
        BY <1>1, <3>1, <3>2 DEF AllocShapes, Others
    <2>3. CASE ReadPaid(r)
      <3> DEFINE pc == IF run[r].suspense THEN "owed" ELSE "walk"
                 n == AtLeast0(Least(run[r].left, Amount[Pay(r)] - Spent(Pay(r))))
                 y == [run[r] EXCEPT !.left = n, !.pc = pc]
      <3>1. run' = [run EXCEPT ![r] = y]
        BY <2>3 DEF ReadPaid
      <3>2. y.done = run[r].done /\ y.pay = run[r].pay
        BY <1>1 DEF RunShape
      <3> HIDE DEF y
      <3> QED
        BY <1>1, <3>1, <3>2 DEF AllocShapes, Others
    <2> QED
      BY <2>1, <2>2, <2>3
  <1>4. \A p \in Payments, o \in Obligations : ~Holds(r, p, o)
    BY <1>2 DEF Holds
  <1> QED
    BY <1>2, <1>3, <1>4, QuietHolds

\* An order is written or taken up, and the run is at it, or it is passed over.
LEMMA WriteOrderHolds ==
  ASSUME AllocInv, HeldInv, NEW r \in Runs, NEW o \in Obligations, WriteOrder(r, o)
  PROVE  HeldInv'
  <1>1. run[r].pc = "walk" /\ overrun' = overrun /\ torn' = torn
    BY DEF WriteOrder, At
  <1>2. AllocShapes /\ run[r] \in RunShape
    BY DEF AllocInv, AllocShapes
  <1>3. PICK p \in Payments : p = run[r].pay
    BY <1>1, RunFacts DEF Pay
  <1>4. order[p][o] \in OrderShape /\ Pay(r) = p
    BY <1>2, <1>3 DEF AllocShapes, Pay
  <1>5. run[r].left \in Nat /\ run[r].seen[o] \in Nat /\ Portion(r, o) \in Nat
    BY <1>2 DEF RunShape, Portion, Least
  <1>6. \A q \in Payments, n \in Obligations : ~Holds(r, q, n)
    BY <1>1 DEF Holds
  <1>7. ASSUME NEW D \in SUBSET Obligations, Skips(r, o, D), order' = order,
               D \subseteq run[r].done \/ (D = run[r].done \union {o} /\ order[p][o].consumed)
        PROVE  HeldInv'
    <2>1. Others(r) /\ run'[r].done = D /\ run'[r].pay = p
      BY <1>2, <1>3, <1>7, SkipsOn
    <2>2. \A n \in D : p \in Payments /\ n \in Obligations /\ order[p][n].consumed
      BY <1>3, <1>7 DEF HeldInv, DoneTook
    <2>3. \A q \in Payments, n \in Obligations : Pending(q, n)' <=> Pending(q, n)
      BY <1>7 DEF Pending
    <2> QED
      BY <1>1, <1>6, <1>7, <2>1, <2>2, <2>3, OneRunHolds
  <1>8. CASE order[p][o].st = "parked"
    <2>1. run' = [run EXCEPT ![r].seen[o] = 0] /\ order' = order
      BY <1>4, <1>8 DEF WriteOrder
    <2>2. Skips(r, o, run[r].done) /\ run[r].done \in SUBSET Obligations
      <3>1. [run[r] EXCEPT !.seen[o] = 0]
              = [run[r] EXCEPT !.seen = [run[r].seen EXCEPT ![o] = 0], !.done = run[r].done]
        BY <1>2 DEF RunShape
      <3> QED
        BY <1>2, <2>1, <3>1 DEF Skips, RunShape
    <2> QED
      BY <1>7, <2>1, <2>2
  <1>9. CASE order[p][o].st \in {"raised", "posted"} /\ order[p][o].consumed
    <2>1. run' = [run EXCEPT ![r].seen[o] = 0, ![r].done = @ \union {o}] /\ order' = order
      BY <1>4, <1>9 DEF WriteOrder
    <2>2. Skips(r, o, run[r].done \union {o}) /\ run[r].done \union {o} \in SUBSET Obligations
      <3>1. run' = [run EXCEPT ![r] = [run[r] EXCEPT !.seen[o] = 0, !.done = run[r].done \union {o}]]
        BY <2>1
      <3> QED
        BY <1>2, <3>1 DEF Skips, RunShape
    <2> QED
      BY <1>7, <1>9, <2>1, <2>2
  <1>10. CASE order[p][o].st \in {"raised", "posted"} /\ ~order[p][o].consumed
    <2>1. Turns(r, o, order[p][o].amt) /\ order' = order /\ order[p][o].amt \in Nat
      BY <1>4, <1>10 DEF WriteOrder, Turns, OrderShape
    <2>2. Others(r) /\ run'[r].done = run[r].done /\ run'[r].pay = run[r].pay
      BY <1>2, <2>1, TurnsTo
    <2> QED
      BY <1>1, <1>6, <2>1, <2>2, QuietHolds
  <1>11. CASE order[p][o].st = "none"
    <2> DEFINE y == [amt |-> Portion(r, o), st |-> "raised", consumed |-> FALSE]
    <2>1. Turns(r, o, Portion(r, o)) /\ OrderTo(p, o, y)
      BY <1>4, <1>11 DEF WriteOrder, Turns, OrderTo
    <2>2. y \in OrderShape /\ y.st = "raised" /\ ~y.consumed
      BY <1>5 DEF OrderShape
    <2> HIDE DEF y
    <2>3. /\ Others(r) /\ run'[r].done = run[r].done /\ run'[r].pay = p
          /\ run'[r].pc = "consume" /\ run'[r].next = o
      BY <1>2, <1>3, <1>5, <2>1, TurnsTo
    <2>4. /\ order'[p][o] = y
          /\ \A q \in Payments, n \in Obligations : q # p \/ n # o => order'[q][n] = order[q][n]
      <3>1. y \in OrderShape
        BY <2>2
      <3> QED
        BY <1>2, <2>1, <3>1, OrderBecomes
    <2>5. ~order[p][o].consumed
      BY <1>11 DEF AllocInv, OrdersSound, OrderSound
    <2>6. \A q \in Payments, n \in Obligations : order[q][n].consumed => order'[q][n].consumed
      BY <2>4, <2>5
    <2>7. Holds(r, p, o)' /\ order'[p][o].st = "raised"
      BY <2>2, <2>3, <2>4 DEF Holds
    <2>8. \A q \in Payments, n \in Obligations : Pending(q, n)' =>
            \/ Pending(q, n) /\ order'[q][n].st = order[q][n].st
            \/ order'[q][n].st = "raised" /\ Holds(r, q, n)'
      BY <2>4, <2>7 DEF Pending
    <2>9. \A n \in run'[r].done :
            run'[r].pay \in Payments /\ n \in Obligations /\ order'[run'[r].pay][n].consumed
      BY <1>3, <2>3, <2>6 DEF HeldInv, DoneTook
    <2> QED
      BY <1>1, <1>6, <2>3, <2>6, <2>8, <2>9, OneRunHolds
  <1> QED
    BY <1>4, <1>8, <1>9, <1>10, <1>11 DEF OrderShape

\* An order could not be written.
LEMMA WriteFailsHolds ==
  ASSUME AllocInv, HeldInv, NEW r \in Runs, NEW o \in Obligations, WriteFails(r, o)
  PROVE  HeldInv'
  <1>1. run[r].pc = "walk" /\ order' = order /\ overrun' = overrun /\ torn' = torn
    BY DEF WriteFails, At, past
  <1>2. AllocShapes /\ run[r] \in RunShape
    BY DEF AllocInv, AllocShapes
  <1>3. Skips(r, o, run[r].done) /\ run[r].done \in SUBSET Obligations
    <2>1. [run[r] EXCEPT !.seen[o] = 0]
            = [run[r] EXCEPT !.seen = [run[r].seen EXCEPT ![o] = 0], !.done = run[r].done]
      BY <1>2 DEF RunShape
    <2> QED
      BY <1>2, <2>1 DEF WriteFails, Skips, RunShape
  <1>4. PICK D \in SUBSET Obligations : D = run[r].done /\ Skips(r, o, D)
    BY <1>3
  <1>5. Others(r) /\ run'[r].done \subseteq run[r].done /\ run'[r].pay = run[r].pay
    <2>1. AllocShapes /\ Skips(r, o, D)
      BY <1>2, <1>4
    <2>2. Others(r) /\ run'[r].done = D /\ run'[r].pay = run[r].pay
      BY <2>1, SkipsOn
    <2> QED
      BY <1>4, <2>2
  <1>6. \A p \in Payments, n \in Obligations : ~Holds(r, p, n)
    BY <1>1 DEF Holds
  <1> QED
    BY <1>1, <1>5, <1>6, QuietHolds

\* A run that gives up on the order it is at is still at it, to park it.
LEMMA ToParkHolds ==
  ASSUME AllocInv, HeldInv, NEW r \in Runs, run[r].pc = "consume", To(r, "park"),
         UNCHANGED <<order, overrun, torn>>
  PROVE  HeldInv'
  <1>1. /\ Others(r) /\ run'[r].pc = "park" /\ run'[r].pay = run[r].pay
        /\ run'[r].next = run[r].next /\ run'[r].done = run[r].done
    BY GoesTo DEF AllocInv, Pcs
  <1>2. \A p \in Payments, o \in Obligations : Holds(r, p, o) => Holds(r, p, o)'
    BY <1>1 DEF Holds
  <1> QED
    BY <1>1, <1>2, QuietHolds

\* The order a run is at takes its amount, or is to be parked.
LEMMA ConsumeHolds ==
  ASSUME AllocInv, HeldInv, NEW r \in Runs, Consume(r)
  PROVE  HeldInv'
  <1>1. run[r].pc = "consume" /\ UNCHANGED <<overrun, torn>>
    BY DEF Consume, At, past
  <1>2. AllocShapes
    BY DEF AllocInv
  <1>3. PICK p \in Payments : p = run[r].pay
    BY <1>1, RunFacts DEF Pay
  <1>4. RunSound(r) /\ Pay(r) = p
    BY <1>1, <1>3, RunFacts DEF Pay
  <1>5. PICK o \in Obligations : o = run[r].next
    BY <1>1, <1>4 DEF RunSound
  <1>6. CASE ~(owed[o] >= run[r].amt /\ ~order[p][o].consumed)
    <2>1. To(r, "park") /\ order' = order
      BY <1>4, <1>5, <1>6 DEF Consume
    <2> QED
      BY <1>1, <2>1, ToParkHolds
  <1>7. CASE owed[o] >= run[r].amt /\ ~order[p][o].consumed
    <2>1. /\ Takes(p, o)
          /\ run' = [Passed(r) EXCEPT ![r].left = @ - Portion(r, o), ![r].done = @ \union {o}]
      BY <1>4, <1>5, <1>7 DEF Consume, Takes
    <2>2. /\ order'[p][o].consumed
          /\ \A q \in Payments, n \in Obligations : q # p \/ n # o => order'[q][n] = order[q][n]
      BY <1>2, <2>1, TakesOne
    <2>3. Others(r) /\ run'[r].pay = p /\ run'[r].done = run[r].done \union {o}
      BY <1>2, <1>3, <1>5, <2>1, CountsOn
    <2>4. \A q \in Payments, n \in Obligations : order[q][n].consumed => order'[q][n].consumed
      BY <2>2
    <2>5. \A q \in Payments, n \in Obligations : Pending(q, n)' =>
            Pending(q, n) /\ order'[q][n].st = order[q][n].st /\ ~Holds(r, q, n)
      BY <1>3, <1>5, <2>2 DEF Pending, Holds
    <2>6. \A n \in run'[r].done :
            run'[r].pay \in Payments /\ n \in Obligations /\ order'[run'[r].pay][n].consumed
      BY <1>3, <2>2, <2>3, <2>4 DEF HeldInv, DoneTook
    <2> QED
      BY <1>1, <2>3, <2>4, <2>5, <2>6, OneRunHolds
  <1> QED
    BY <1>6, <1>7

\* An order that could not take is parked: it takes and posts no more.
LEMMA ParkHolds ==
  ASSUME AllocInv, HeldInv, NEW r \in Runs, Park(r)
  PROVE  HeldInv'
  <1>1. run[r].pc = "park" /\ UNCHANGED <<overrun, torn>>
    BY DEF Park, At, past
  <1>2. AllocShapes
    BY DEF AllocInv
  <1>3. PICK p \in Payments : p = run[r].pay
    BY <1>1, RunFacts DEF Pay
  <1>4. RunSound(r) /\ Pay(r) = p
    BY <1>1, <1>3, RunFacts DEF Pay
  <1>5. PICK o \in Obligations : o = run[r].next
    BY <1>1, <1>4 DEF RunSound
  <1>6. PICK s : s = IF order[p][o].st = "raised" THEN "parked" ELSE order[p][o].st
    OBVIOUS
  <1>7. s \in {"none", "raised", "posted", "parked"}
    BY <1>2, <1>6 DEF AllocShapes, OrderShape
  <1>8. StateTo(p, o, s) /\ run' = Passed(r)
    BY <1>4, <1>5, <1>6 DEF Park, StateTo
  <1>9. /\ order'[p][o].st = s /\ order'[p][o].consumed = order[p][o].consumed
        /\ \A q \in Payments, n \in Obligations : q # p \/ n # o => order'[q][n] = order[q][n]
    BY <1>2, <1>7, <1>8, StateBecomes
  <1>10. Others(r) /\ run'[r].pay = p /\ run'[r].done = run[r].done
    <2>1. run[r].next \in Obligations
      BY <1>5
    <2> QED
      BY <1>2, <1>3, <1>8, <2>1, PassesOn
  <1>11. \A q \in Payments, n \in Obligations : order[q][n].consumed => order'[q][n].consumed
    BY <1>9
  <1>12. ASSUME NEW q \in Payments, q \notin overrun, NEW n \in Obligations, <<q, n>> \notin torn,
                Pending(q, n)'
         PROVE  Pending(q, n) /\ order'[q][n].st = order[q][n].st /\ ~Holds(r, q, n)
    <2>1. CASE q # p \/ n # o
      BY <1>3, <1>5, <1>9, <1>12, <2>1 DEF Pending, Holds
    <2>2. CASE q = p /\ n = o
      <3>1. order[p][o].st # "raised" /\ order[p][o].st = "posted" /\ ~order[p][o].consumed
        BY <1>6, <1>9, <1>12, <2>2 DEF Pending
      <3>2. Pending(p, o)
        BY <3>1 DEF Pending
      <3>3. order[p][o].st = "raised"
        BY <1>12, <2>2, <3>2 DEF HeldInv, OrdersHeld
      <3> QED
        BY <3>1, <3>3
    <2> QED
      BY <2>1, <2>2
  <1>13. \A n \in run'[r].done :
           run'[r].pay \in Payments /\ n \in Obligations /\ order'[run'[r].pay][n].consumed
    BY <1>3, <1>10, <1>11 DEF HeldInv, DoneTook
  <1> QED
    BY <1>1, <1>10, <1>11, <1>12, <1>13, OneRunHolds

\* A run that stops or goes on without the order it is at leaves it behind.
LEMMA AbandonsHolds ==
  ASSUME AllocInv, NEW r \in Runs, Abandons(r)
  PROVE  /\ torn \subseteq torn'
         /\ \A p \in Payments, o \in Obligations : Holds(r, p, o) => <<p, o>> \in torn'
  BY DEF Abandons, At, Holds, Pay

\* An order could not be parked.
LEMMA ParkFailsHolds ==
  ASSUME AllocInv, HeldInv, NEW r \in Runs, ParkFails(r)
  PROVE  HeldInv'
  <1>1. run[r].pc = "park" /\ order' = order /\ overrun' = overrun /\ run' = Passed(r)
    BY DEF ParkFails, At
  <1>2. RunSound(r) /\ AllocShapes
    BY <1>1, RunFacts
  <1>3. run[r].next \in Obligations
    BY <1>1, <1>2 DEF RunSound
  <1>4. Others(r) /\ run'[r].pay = run[r].pay /\ run'[r].done = run[r].done
    BY <1>1, <1>2, <1>3, PassesOn
  <1> QED
    BY <1>1, <1>4, AbandonsHolds, QuietHolds DEF ParkFails

\* A run ends, or goes on to post.
LEMMA EndHolds ==
  ASSUME AllocInv, HeldInv, NEW r \in Runs,
         Record(r) \/ PostLanding(r) \/ PostFails(r) \/ Release(r) \/ Die(r)
  PROVE  HeldInv'
  <1>1. AllocShapes /\ run[r] \in RunShape
    BY DEF AllocInv, AllocShapes
  <1>2. order' = order /\ overrun' = overrun /\ torn \subseteq torn'
    BY AbandonsHolds DEF Record, PostLanding, PostFails, Release, Die, past
  <1>3. ASSUME ~Die(r) PROVE \A p \in Payments, o \in Obligations : ~Holds(r, p, o)
    BY <1>3 DEF Record, PostLanding, PostFails, Release, At, Holds
  <1>4. \A p \in Payments, o \in Obligations : Holds(r, p, o) => <<p, o>> \in torn'
    BY <1>3, AbandonsHolds DEF Die
  <1>5. Others(r) /\ run'[r].done \subseteq run[r].done /\ (run'[r].done # {} => run'[r].pay = run[r].pay)
    <2>1. CASE run' = [run EXCEPT ![r] = Idle]
      BY <1>1, <2>1 DEF AllocShapes, Others, Idle
    <2>2. CASE Record(r)
      <3> DEFINE y == [Idle EXCEPT !.pay = Pay(r), !.pc = "post", !.suspense = run[r].suspense,
                                   !.done = run[r].done]
      <3>1. run' = [run EXCEPT ![r] = y]
        BY <2>2 DEF Record
      <3>2. y.done = run[r].done /\ y.pay = run[r].pay
        BY DEF Idle, Pay
      <3> HIDE DEF y
      <3> QED
        BY <1>1, <3>1, <3>2 DEF AllocShapes, Others
    <2>3. CASE \E L \in SUBSET run[r].done : Posting(r, L)
      <3>1. PICK L \in SUBSET run[r].done : Posting(r, L)
        BY <2>3
      <3>2. L \in SUBSET Obligations
        BY <1>1 DEF RunShape
      <3> QED
        BY <1>1, <3>1, <3>2, PostingLeaves
    <2> QED
      BY <2>1, <2>2, <2>3 DEF PostLanding, PostFails, Release, Die
  <1> QED
    BY <1>2, <1>4, <1>5, QuietHolds

\* An order of a run posts: it has taken from its obligation.
LEMMA PostOrderHolds ==
  ASSUME AllocInv, HeldInv, NEW r \in Runs, PostOrder(r)
  PROVE  HeldInv'
  <1>1. run[r].pc = "orders" /\ overrun' = overrun /\ torn' = torn
    BY DEF PostOrder, At, past
  <1>2. AllocShapes /\ RunSound(r) /\ Pay(r) \in Payments
    BY <1>1, RunFacts
  <1>3. PICK p \in Payments : p = Pay(r)
    BY <1>2
  <1>4. PICK o \in Obligations : o = Min(run[r].done) /\ o \in run[r].done
    <2>1. Min(run[r].done) \in Obligations /\ run[r].done \in SUBSET Nat /\ run[r].done # {}
      BY <1>1, <1>2, NextPosted, AmountAssumption DEF RunSound
    <2> QED
      BY <2>1, LeastIsIn
  <1>5. order[p][o].consumed
    BY <1>3, <1>4 DEF HeldInv, DoneTook, Pay
  <1>6. PICK s : s = IF order[p][o].st = "raised" THEN "posted" ELSE order[p][o].st
    OBVIOUS
  <1>7. s \in {"none", "raised", "posted", "parked"}
    BY <1>2, <1>6 DEF AllocShapes, OrderShape
  <1>8. StateTo(p, o, s) /\ Posting(r, run[r].done \ {o})
    BY <1>3, <1>4, <1>6 DEF PostOrder, StateTo
  <1>9. /\ order'[p][o].consumed = order[p][o].consumed
        /\ \A q \in Payments, n \in Obligations : q # p \/ n # o => order'[q][n] = order[q][n]
    BY <1>2, <1>7, <1>8, StateBecomes
  <1>10. /\ Others(r) /\ run'[r].done = run[r].done \ {o}
         /\ (run[r].done \ {o} # {} => run'[r].pay = run[r].pay)
    <2>1. run[r].done \ {o} \in SUBSET Obligations
      BY <1>1, NextPosted
    <2> QED
      BY <1>2, <1>8, <2>1, PostingLeaves
  <1>11. \A q \in Payments, n \in Obligations : order[q][n].consumed => order'[q][n].consumed
    BY <1>9
  <1>12. \A q \in Payments, n \in Obligations : Pending(q, n)' =>
           Pending(q, n) /\ order'[q][n].st = order[q][n].st /\ ~Holds(r, q, n)
    BY <1>1, <1>5, <1>9 DEF Pending, Holds
  <1>13. \A n \in run'[r].done :
           run'[r].pay \in Payments /\ n \in Obligations /\ order'[run'[r].pay][n].consumed
    BY <1>10, <1>11 DEF HeldInv, DoneTook
  <1> QED
    BY <1>1, <1>10, <1>11, <1>12, <1>13, OneRunHolds

\* Every step of a run.
LEMMA StepHolds ==
  ASSUME AllocInv, HeldInv, NEW r \in Runs, Step(r)
  PROVE  HeldInv'
  <1>1. CASE ConsumeFails(r)
    <2>1. run[r].pc = "consume" /\ To(r, "park") /\ UNCHANGED <<order, overrun, torn>>
      BY <1>1 DEF ConsumeFails, At, past
    <2> QED
      BY <2>1, ToParkHolds
  <1> QED
    BY <1>1, ReadsHold, WriteOrderHolds, WriteFailsHolds, ConsumeHolds, ParkHolds, ParkFailsHolds,
       EndHolds, PostOrderHolds DEF Step

\* A payment is claimed by a run that had none.
LEMMA ClaimHolds ==
  ASSUME AllocInv, HeldInv, NEW r \in Runs, NEW p \in Payments, NEW s \in BOOLEAN, Claim(r, p, s)
  PROVE  HeldInv'
  <1>1. run[r].pc = "idle" /\ order' = order /\ torn' = torn /\ overrun \subseteq overrun'
    BY DEF Claim, Claimable, At
  <1>2. Others(r) /\ run'[r].done = {}
    <2> DEFINE y == [Idle EXCEPT !.pay = p, !.suspense = s, !.left = Remainder(p),
                                 !.pc = IF s THEN "paid" ELSE "land"]
    <2>1. run' = [run EXCEPT ![r] = y]
      BY DEF Claim
    <2>2. y.done = {}
      BY DEF Idle
    <2> HIDE DEF y
    <2> QED
      BY <2>1, <2>2 DEF AllocInv, AllocShapes, Others
  <1>3. \A q \in Payments, o \in Obligations : ~Holds(r, q, o)
    BY <1>1 DEF Holds
  <1> QED
    BY <1>1, <1>2, <1>3, QuietHolds

\* The settle job posts no order that a run is at, unless one outlived its lease or left it.
LEMMA SettleOrderHolds ==
  ASSUME AllocInv, HeldInv, NEW p \in Payments, NEW o \in Obligations, SettleOrder(p, o)
  PROVE  HeldInv'
  <1>1. UNCHANGED <<run, overrun, torn>> /\ Rests(p, o) /\ StateTo(p, o, "posted")
        /\ order[p][o].st = "raised"
    BY DEF SettleOrder, past, StateTo
  <1>2. /\ order'[p][o].consumed = order[p][o].consumed
        /\ \A q \in Payments, n \in Obligations : q # p \/ n # o => order'[q][n] = order[q][n]
    <2>1. "posted" \in {"none", "raised", "posted", "parked"}
      OBVIOUS
    <2> QED
      BY <1>1, <2>1, StateBecomes DEF AllocInv
  <1>3. OrdersHeld'
    <2> SUFFICES ASSUME NEW q \in Payments, q \notin overrun, NEW n \in Obligations,
                        <<q, n>> \notin torn, Pending(q, n)'
                 PROVE  order'[q][n].st = "raised" /\ \E r \in Runs : Holds(r, q, n)'
      BY <1>1 DEF OrdersHeld
    <2>1. CASE q = p /\ n = o
      <3>1. Pending(p, o)
        BY <1>1, <1>2, <2>1 DEF Pending
      <3>2. \E r \in Runs : Holds(r, p, o)
        BY <2>1, <3>1 DEF HeldInv, OrdersHeld
      <3> QED
        BY <1>1, <2>1, <3>2 DEF Rests, Holds, At, Pay
    <2>2. CASE q # p \/ n # o
      <3>1. order'[q][n] = order[q][n] /\ Pending(q, n)
        BY <1>2, <2>2 DEF Pending
      <3> QED
        BY <1>1, <3>1 DEF HeldInv, OrdersHeld, Holds
    <2> QED
      BY <2>1, <2>2
  <1>4. DoneTook'
    <2>1. \A q \in Payments, n \in Obligations : order[q][n].consumed => order'[q][n].consumed
      BY <1>2
    <2> QED
      BY <1>1, <2>1 DEF HeldInv, DoneTook
  <1> QED
    BY <1>3, <1>4 DEF HeldInv

\* What no run and no order has part in.
LEMMA ElseHolds ==
  ASSUME HeldInv, UNCHANGED <<run, order, overrun, torn>>
  PROVE  HeldInv'
  BY DEF HeldInv, OrdersHeld, DoneTook, Holds, Pending

-----------------------------------------------------------------------------
(* The theorems *)

\* Before any payment is matched.
LEMMA InitIsSound ==
  ASSUME Init
  PROVE  AllocInv
  <1>1. AllocShapes
    <2>1. row \in [Payments -> PayRowShape]
      BY DEF Init, PayRowShape, Unknown
    <2>2. \A p \in Payments : row[p].left \in Unknown..Amount[p]
                              /\ (row[p].left = Unknown <=> row[p].st = "new")
      BY AmountAssumption DEF Init, Unknown
    <2>3. owed \in [Obligations -> Int]
          /\ \A o \in Obligations : owed[o] \in Unknown..Owed[o] /\ (o \notin Late => owed[o] # Unknown)
      BY AmountAssumption DEF Init, Unknown
    <2>4. order \in [Payments -> [Obligations -> OrderShape]]
          /\ \A p \in Payments, o \in Obligations : order[p][o].amt <= Owed[o]
      BY AmountAssumption DEF Init, NoOrder, OrderShape
    <2>5. run \in [Runs -> RunShape]
      <3>1. Idle \in RunShape
        BY DEF Idle, RunShape, Pcs
      <3> QED
        BY <3>1 DEF Init
    <2> QED
      BY <2>1, <2>2, <2>3, <2>4, <2>5, BoundAssumption DEF AllocShapes, Init
  <1>2. OrdersSound
    BY DEF Init, NoOrder, OrdersSound, OrderSound
  <1>3. \A r \in Runs : run[r].pc = "idle" /\ \A o \in Obligations : run[r].seen[o] = 0
    BY DEF Init, Idle
  <1>4. RunsSound
    <2>1. \A o \in Obligations : Owed[o] \in Nat
      BY AmountAssumption
    <2> QED
      BY <1>3, <2>1 DEF RunsSound, RunSound
  <1>5. /\ \A o \in Obligations : Taken(o) = 0
        /\ \A p \in Payments : Spent(p) = 0
    <2>1. /\ \A o \in Obligations : TakersOf(o) = {}
          /\ \A p \in Payments : TakenBy(p) = {}
      BY DEF Init, NoOrder, TakersOf, TakenBy
    <2> QED
      BY <1>1, <2>1, TotalsAre, TotalEmpty
  <1>6. OwedAddsUp
    <2> SUFFICES ASSUME NEW o \in Obligations, owed[o] # Unknown PROVE owed[o] + Taken(o) = Owed[o]
      BY DEF OwedAddsUp
    <2>1. owed[o] = Owed[o] /\ Owed[o] \in Nat
      BY AmountAssumption DEF Init
    <2> QED
      BY <1>5, <2>1
  <1>7. PaymentsKept
    <2> SUFFICES ASSUME NEW p \in Payments PROVE PaymentKept(p)
      BY DEF PaymentsKept
    <2>1. row[p].owner = "none" /\ Amount[p] \in Nat /\ \A o \in Obligations : ~order[p][o].consumed
      BY AmountAssumption DEF Init, NoOrder
    <2> QED
      BY <1>5, <2>1 DEF PaymentKept
  <1>8. RunsKept
    BY <1>3 DEF RunsKept, Leasing
  <1> QED
    BY <1>1, <1>2, <1>4, <1>6, <1>7, <1>8 DEF AllocInv

\* Every step of a run.
LEMMA StepKeeps ==
  ASSUME AllocInv, NEW r \in Runs, Step(r)
  PROVE  AllocInv'
  BY LandKeeps, ReadOwedKeeps, ReadPaidKeeps, WriteOrderKeeps, WriteFailsKeeps, ConsumeKeeps, ParkKeeps,
     ParkFailsKeeps, RecordKeeps, PostLandingKeeps, PostOrderKeeps, ConsumeFailsKeeps, PostFailsKeeps, ReleaseKeeps
     DEF Step

\* The invariant of the allocation holds whatever runs overlap, retry, fail or die.
THEOREM AllocHolds == Spec => []AllocInv
  <1>1. Init => AllocInv
    BY InitIsSound
  <1>2. AllocInv /\ [Next]_vars => AllocInv'
    <2> SUFFICES ASSUME AllocInv, [Next]_vars PROVE AllocInv'
      OBVIOUS
    <2>1. CASE \E p \in Payments : \E who \in MayOwn[p] : AssignOwner(p, who)
      BY <2>1, AssignOwnerKeeps
    <2>2. CASE \E r \in Runs, p \in Payments, s \in BOOLEAN : Claim(r, p, s)
      BY <2>2, ClaimKeeps
    <2>3. CASE \E r \in Runs : Step(r)
      BY <2>3, StepKeeps
    <2>4. CASE \E o \in Obligations : Raise(o)
      BY <2>4, RaiseKeeps
    <2>5. CASE \E p \in Payments : SettleLanding(p) \/ \E o \in Obligations : SettleOrder(p, o)
      BY <2>5, SettleLandingKeeps, SettleOrderKeeps
    <2>6. CASE UNCHANGED vars
      <3>1. UNCHANGED <<row, owed, order, landing, run, exceeded, overrun, lapses, faults>>
        BY <2>6 DEF vars
      <3>2. AllocShapes /\ OrdersSound /\ OwedAddsUp
        BY DEF AllocInv
      <3>3. Advances /\ (\A q \in Payments : PaymentStill(q)) /\ OrdersSound' /\ OwedAddsUp'
        BY <3>1, <3>2, AllStill
      <3>4. AllocShapes'
        BY <3>1, <3>2 DEF AllocShapes
      <3>5. PICK p : p \notin Payments
        BY NothingHoldsAll
      <3>6. OthersStill(p)
        BY <3>3 DEF OthersStill
      <3> QED
        BY <3>1, <3>3, <3>4, <3>5, <3>6, NoRunKeeps
    <2> QED
      BY <2>1, <2>2, <2>3, <2>4, <2>5, <2>6 DEF Next
  <1> QED
    BY <1>1, <1>2, PTL DEF Spec

\* No obligation is paid twice and no order counts for nothing (payment_routing.go:1167-1172,
\* transfer_order_repo.go:108-119), for any number of payments, obligations and runs.
THEOREM ObligationsArePaidOnce == Spec => []ObligationPaidOnce
  <1>1. AllocInv => ObligationPaidOnce
    <2> SUFFICES ASSUME AllocInv PROVE ObligationPaidOnce
      OBVIOUS
    <2>1. AllocShapes /\ OwedAddsUp /\ PaymentsKept
      BY DEF AllocInv
    <2>2. TypeOK
      <3>1. \A p \in Payments, o \in Obligations :
              /\ order[p][o].amt \in 0..Owed[o]
              /\ order[p][o].st \in {"none", "raised", "posted", "parked"}
        <4> TAKE p \in Payments, o \in Obligations
        <4>1. order[p][o] \in OrderShape /\ order[p][o].amt <= Owed[o] /\ Owed[o] \in Nat
          BY <2>1, AmountAssumption DEF AllocShapes
        <4> QED
          BY <4>1 DEF OrderShape
      <3>2. \A r \in Runs : ~At(r, "idle") =>
              run[r].pc \in Pcs /\ Pay(r) \in Payments /\ run[r].left \in 0..Amount[Pay(r)]
        <4> SUFFICES ASSUME NEW r \in Runs, run[r].pc # "idle"
                     PROVE  run[r].pc \in Pcs /\ Pay(r) \in Payments /\ run[r].left \in 0..Amount[Pay(r)]
          BY DEF At
        <4> QED
          BY RunFacts DEF RunShape
      <3>3. row \in [Payments -> [owner : {"none"} \union Owners,
                st : {"new", "unallocated", "partial", "full"}, left : Int, lease : {"free"} \union Runs]]
        BY <2>1 DEF AllocShapes, PayRowShape
      <3> QED
        BY <2>1, <3>1, <3>2, <3>3 DEF TypeOK, AllocShapes
    <2>3. \A o \in Obligations \ {k \in Late : owed[k] = Unknown} : owed[o] + Taken(o) = Owed[o]
      BY <2>1 DEF AllocShapes, OwedAddsUp
    <2> QED
      BY <2>1, <2>2, <2>3 DEF ObligationPaidOnce, PaymentsKept, PaymentKept
  <1> QED
    BY <1>1, AllocHolds, PTL

\* An order not debited has its run at it, or was parked or left (payment_routing.go:1212-1250,
\* transfer_order_repo.go:473-497): the settle job posts no other. Whatever runs overlap,
\* retry, fail or die.
THEOREM OrdersAreHeld == Spec => []HeldInv
  <1>1. Init => HeldInv
    BY DEF Init, NoOrder, Idle, HeldInv, OrdersHeld, DoneTook, Pending
  <1>2. AllocInv /\ HeldInv /\ [Next]_vars => HeldInv'
    <2> SUFFICES ASSUME AllocInv, HeldInv, [Next]_vars PROVE HeldInv'
      OBVIOUS
    <2>1. CASE \E p \in Payments : \E who \in MayOwn[p] : AssignOwner(p, who)
      BY <2>1, ElseHolds DEF AssignOwner, past
    <2>2. CASE \E r \in Runs, p \in Payments, s \in BOOLEAN : Claim(r, p, s)
      BY <2>2, ClaimHolds
    <2>3. CASE \E r \in Runs : Step(r)
      BY <2>3, StepHolds
    <2>4. CASE \E o \in Obligations : Raise(o)
      BY <2>4, ElseHolds DEF Raise, past
    <2>5. CASE \E p \in Payments : SettleLanding(p)
      BY <2>5, ElseHolds DEF SettleLanding, past
    <2>6. CASE \E p \in Payments, o \in Obligations : SettleOrder(p, o)
      BY <2>6, SettleOrderHolds
    <2>7. CASE UNCHANGED vars
      BY <2>7, ElseHolds DEF vars
    <2> QED
      BY <2>1, <2>2, <2>3, <2>4, <2>5, <2>6, <2>7 DEF Next
  <1> QED
    BY <1>1, <1>2, AllocHolds, PTL DEF Spec

\* What a payment paid comes to no more than came in (payment_routing.go:929-940), when its runs
\* kept their lease and finished no order at more than they had left. Nor does what leaves
\* suspense for it, the orders the settle job posted included, unless a run stopped on an order
\* it had raised or could not park it.
THEOREM PaymentsAreNotOverspent == Spec => []SpentWithinPayment
  <1>1. AllocInv /\ HeldInv => SpentWithinPayment
    <2> SUFFICES ASSUME AllocInv, HeldInv, NEW p \in Payments, p \notin exceeded, p \notin overrun
                 PROVE  /\ Spent(p) <= Amount[p]
                        /\ (\A o \in Obligations : <<p, o>> \notin torn) => PaidOut(p) <= Amount[p]
      BY DEF SpentWithinPayment
    <2>1. Spent(p) <= Amount[p]
      BY DEF AllocInv, PaymentsKept, PaymentKept
    <2>2. ASSUME \A o \in Obligations : <<p, o>> \notin torn PROVE PaidOut(p) = Spent(p)
      <3>1. ASSUME NEW o \in Obligations, order[p][o].st = "posted" PROVE order[p][o].consumed
        <4>1. SUFFICES ASSUME ~order[p][o].consumed PROVE FALSE
          OBVIOUS
        <4>2. Pending(p, o)
          BY <3>1, <4>1 DEF Pending
        <4> QED
          BY <2>2, <3>1, <4>2 DEF HeldInv, OrdersHeld
      <3>2. {o \in Obligations : order[p][o].consumed \/ order[p][o].st = "posted"}
              = {o \in Obligations : order[p][o].consumed}
        BY <3>1
      <3> QED
        BY <3>2 DEF PaidOut, Spent
    <2> QED
      BY <2>1, <2>2
  <1> QED
    BY <1>1, AllocHolds, OrdersAreHeld, PTL

\* The remainder recorded on a member's payment never leaves out money that no obligation took
\* (payment_suspense.go:28-45), when its runs kept their lease.
THEOREM NoMoneyIsStranded == Spec => []NothingIsStranded
  <1>1. AllocInv => NothingIsStranded
    BY DEF AllocInv, PaymentsKept, PaymentKept, NothingIsStranded
  <1> QED
    BY <1>1, AllocHolds, PTL
=============================================================================
