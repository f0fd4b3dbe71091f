----------------------- MODULE MCPaymentIdentification -----------------------
(* A small instance of PaymentIdentification. *)
EXTENDS PaymentIdentification

\* Two people; the first may be a member of two groups and a client with two
\* loans, savings and an investor account, known by profile or by contact.
Member(id, profile, group, name) ==
  [id |-> id, profile |-> profile, contact |-> "ca", type |-> "member",
   group |-> group, state |-> "active", name |-> name]
m1 == Member("m1", "pa", "g1", "ann")
m2 == Member("m2", "pa", "g2", "ann")
m3 == Member("m3", "pb", "g1", "ann b")
Account(id, product) == [id |-> id, client |-> "c1", product |-> product, open |-> TRUE]

Peers ==
  [members : {{}, {m1}, {m1, m2}, {m1, m3}, {m1, m2, m3}},
   contacts : SUBSET {[contact |-> "ca", profile |-> "pa"]},
   clients : SUBSET {[id |-> "c1", profile |-> "pa"]},
   loans : {{}, {Account("l1", "A")}, {Account("l1", "A"), Account("l2", "A")}},
   savings : {{}, {Account("s1", "A")}},
   investors : {{}, {[id |-> "i1", profile |-> "pa"]}}]
Payers ==
  [ref : {None, "l1", "i1"}, payer : {None, "pa", "ca"}, name : {"ann"},
   group : {None, "g1"}, product : {None, "A"}]
Names == {<<"ann", "ann">>, <<"ann", "ann b">>}
=============================================================================
