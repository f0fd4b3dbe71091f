------------------------ MODULE PaymentIdentification ------------------------
(***************************************************************************)
(* apps/operations: whose payment a received payment is. IdentifyPayment     *)
(* walks strategies in order, each of which asks peer services; a strategy   *)
(* names one owner, finds nobody, or meets a service that cannot answer.     *)
(* The records of the peers are the fields of a registry, and "down" is the  *)
(* set of services that are out while the payment is looked up.             *)
(***************************************************************************)
EXTENDS Naturals, Sequences, FiniteSets

CONSTANTS
  Registries,   \* what the peers may hold
  Hints,        \* what a payment may say of its payer
  Alike,        \* pairs of a payer's name and a member's that resemble it
  MaxDown       \* bound: services out at a time

VARIABLES
  reg, hint,
  down,         \* the services that are out
  next,         \* the strategy to ask next, 0 between deliveries
  owner,        \* whose the payment is
  unidentified  \* routed to the unidentified account

idVars == <<reg, hint, down, next, owner, unidentified>>

Services == {"identity", "loans", "clients", "profiles", "savings", "funding"}

None == ""
Nobody == [kind |-> "nobody", id |-> None]
Outage == [kind |-> "outage", id |-> None]
Owner(kind, id) == [kind |-> kind, id |-> id]

\* A lookup: outage when the peer cannot answer, else what it says.
Ask(service, out, answer) == IF service \in out THEN Outage ELSE answer
\* The one record of a set, or nobody.
Only(kind, S) ==
  IF Cardinality(S) = 1 THEN Owner(kind, (CHOOSE m \in S : TRUE).id) ELSE Nobody
\* a, and b when a finds nobody.
Else(a, b) == IF a = Nobody THEN b ELSE a

------------------------------------------------------------------------------
(* An individual's own loan, savings or investor account *)

\* The profile a payer reference stands for, when it is a contact.
ProfileOf(dir, payer) == {c.profile : c \in {k \in dir.contacts : k.contact = payer}}
ClientsOf(dir, profiles) == {c \in dir.clients : c.profile \in profiles}

\* The one client of the payer as a profile, failing that as a contact.
clientForContact(dir, out, payer) ==
  LET direct == Only("client", ClientsOf(dir, {payer}))
      resolved == Only("client", ClientsOf(dir, ProfileOf(dir, payer)))
  IN Ask("clients", out, Else(direct, Ask("profiles", out, resolved)))

\* identifyBorrowerLoan, identifySaverAccount: the account quoted, if it is open
\* and of the product the rail credited, else the payer's only one of it.
AccountOf(kind, service, accounts, dir, h, out) ==
  LET fits == {a \in accounts : a.open /\ a.product = h.product}
      quoted == Only(kind, {a \in fits : a.id = h.ref})
      payer == IF h.payer = None THEN Nobody ELSE clientForContact(dir, out, h.payer)
      owned == Ask(service, out, Only(kind, {a \in fits : a.client = payer.id}))
  IN IF h.product = None THEN Nobody
     ELSE Else(IF h.ref = None THEN Nobody ELSE Ask(service, out, quoted),
               IF payer.kind = "client" THEN owned ELSE payer)

BorrowerLoan(dir, h, out) == AccountOf("loan", "loans", dir.loans, dir, h, out)
SaverAccount(dir, h, out) == AccountOf("savings", "savings", dir.savings, dir, h, out)

\* identifyInvestorDeposit: the account quoted, when the payer is its investor.
InvestorDeposit(dir, h, out) ==
  LET quoted == {a \in dir.investors : a.id = h.ref}
      profile == (CHOOSE a \in quoted : TRUE).profile
  IN IF h.ref = None \/ h.payer = None THEN Nobody
     ELSE IF "funding" \in out THEN Outage
     ELSE IF quoted = {} THEN Nobody
     ELSE IF "identity" \in out THEN Outage
     ELSE IF h.payer = profile THEN Only("investor", quoted)
     ELSE Ask("profiles", out,
              IF profile \in ProfileOf(dir, h.payer) THEN Only("investor", quoted) ELSE Nobody)

------------------------------------------------------------------------------
(* A group's member *)

Active(members) == {m \in members : m.state \notin {"deleted", "shutdown"}}
OfProfile(dir, profile) == {m \in dir.members : m.profile = profile}
OfGroup(dir, group) == {m \in dir.members : m.group = group}

ByMembershipID(dir, h, out) ==
  IF h.ref = None THEN Nobody
  ELSE Ask("identity", out, Only("member", {m \in Active(dir.members) : m.id = h.ref}))

ByProfileID(dir, h, out) ==
  IF h.payer = None THEN Nobody
  ELSE Ask("identity", out, Only("member", Active(OfProfile(dir, h.payer))))

ByFilteredMembership(dir, h, out) ==
  IF h.payer = None THEN Nobody
  ELSE Ask("identity", out,
           Only("member", {m \in Active(OfProfile(dir, h.payer)) :
                             m.type = "member" /\ h.group \in {None, m.group}}))

\* The group's members by contact, then the payer's memberships anywhere.
ByContactID(dir, h, out) ==
  LET inGroup == {m \in OfGroup(dir, h.group) : m.contact = h.payer /\ m.state # "deleted"}
  IN IF h.payer = None THEN Nobody
     ELSE Ask("identity", out,
              Else(IF h.group = None THEN Nobody ELSE Only("member", inGroup),
                   Only("member", Active(OfProfile(dir, h.payer)))))

ByPayerName(dir, h, out) ==
  IF h.name = None \/ h.group = None THEN Nobody
  ELSE Ask("identity", out,
           Only("member", {m \in Active(OfGroup(dir, h.group)) : <<h.name, m.name>> \in Alike}))

------------------------------------------------------------------------------
(* The walk *)

\* identifyIndividual's strategies are tried for a payment that names no group,
\* then runIdentificationStrategies' for every payment.
Strategies(dir, h, out) ==
  (IF h.group # None THEN <<>>
   ELSE <<BorrowerLoan(dir, h, out), SaverAccount(dir, h, out),
          InvestorDeposit(dir, h, out)>>)
  \o <<ByMembershipID(dir, h, out), ByProfileID(dir, h, out),
       ByFilteredMembership(dir, h, out), ByContactID(dir, h, out),
       ByPayerName(dir, h, out)>>

IdInit ==
  /\ reg \in Registries /\ hint \in Hints
  /\ down = {} /\ next = 0 /\ owner = Nobody /\ unidentified = FALSE

\* IdentifyPayment, and its redelivery: a payment with an owner keeps it.
Deliver ==
  /\ next = 0 /\ owner = Nobody
  /\ next' = 1 /\ unidentified' = FALSE
  /\ UNCHANGED <<reg, hint, down, owner>>

\* Mutant: a lookup that failed counts as no match.
AskNextAnyway ==
  /\ next # 0
  /\ LET asked == Strategies(reg, hint, down)
         answer == asked[next]
         matched == answer \notin {Nobody, Outage}
     IN /\ owner' = IF matched THEN answer ELSE Nobody
        /\ unidentified' = (~matched /\ next = Len(asked))
        /\ next' = IF ~matched /\ next < Len(asked) THEN next + 1 ELSE 0
  /\ UNCHANGED <<reg, hint, down>>

\* One strategy: a match is recorded, no match goes on to the next strategy or,
\* after the last, to the unidentified account, an outage ends the walk.
AskNext ==
  /\ next # 0
  /\ LET asked == Strategies(reg, hint, down)
         answer == asked[next]
     IN /\ owner' = IF answer = Outage THEN Nobody ELSE answer
        /\ unidentified' = (answer = Nobody /\ next = Len(asked))
        /\ next' = IF answer = Nobody /\ next < Len(asked) THEN next + 1 ELSE 0
  /\ UNCHANGED <<reg, hint, down>>

Fail(s) ==
  /\ s \notin down /\ Cardinality(down) < MaxDown /\ down' = down \union {s}
  /\ UNCHANGED <<reg, hint, next, owner, unidentified>>

Recover(s) ==
  /\ s \in down /\ down' = down \ {s}
  /\ UNCHANGED <<reg, hint, next, owner, unidentified>>

IdNext == Deliver \/ AskNext \/ \E s \in Services : Fail(s) \/ Recover(s)

IdSpec == IdInit /\ [][IdNext]_idVars

------------------------------------------------------------------------------
(* Properties *)

\* The walk is at one of its strategies, and a payment is matched, unmatched or
\* not decided yet.
IdTypeOK ==
  /\ next \in 0..8 /\ down \subseteq Services
  /\ owner.kind \in {"nobody", "loan", "savings", "investor", "member"}
  /\ unidentified => owner = Nobody

\* Whose the payment is when every service answers: the first match.
Truth ==
  LET asked == Strategies(reg, hint, {})
      found == {k \in DOMAIN asked : asked[k] # Nobody}
  IN IF found = {} THEN Nobody
     ELSE asked[CHOOSE k \in found : \A l \in found : k <= l]

\* lookup_errors.go:25-28, "a payment whose lookup failed that way must be
\* retried, never routed to the unidentified account": whatever services go out
\* and come back between the lookups, a payment that is given an owner has the
\* one it has when all of them answer, and one that is given up has none.
OutageNeverMisroutes ==
  /\ IdTypeOK
  /\ owner \in {Nobody, Truth}
  /\ unidentified => Truth = Nobody
=============================================================================
