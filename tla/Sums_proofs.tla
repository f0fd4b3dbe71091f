----------------------------- MODULE Sums_proofs -----------------------------
(***************************************************************************)
(* What the proofs of the other modules need of Total, for every function    *)
(* and every finite set. The library defines the sum as a recursive function *)
(* over the subsets of a set; it is shown to exist, to be the only one, and   *)
(* to add a member's amount when the member is added.                        *)
(*                                                                         *)
(* The library states induction with an operator as the parameter, which the *)
(* installed provers cannot instantiate. Here it is stated of a set of        *)
(* numbers and of a set of subsets, and derived from well-foundedness, which  *)
(* needs no operator.                                                       *)
(*                                                                         *)
(* A hypothesis about every member of a set is a predicate of its own, which  *)
(* a proof states first: the provers do not instantiate lemmas otherwise.     *)
(***************************************************************************)
EXTENDS Sums, FiniteSetTheorems, TLAPS

\* g is the function the library's fold takes its value from.
Adds(f, S, g) ==
  g = [s \in SUBSET S |->
         IF s = {} THEN 0
         ELSE LET x == CHOOSE x \in s : TRUE IN f[x] + g[s \ {x}]]

\* f and e agree on S; f is of whole numbers on S, or of amounts; no more than e;
\* g adds f and e.
SameOn(f, e, S) == \A x \in S : f[x] = e[x]
Whole(f, S) == \A x \in S : f[x] \in Int
Amounts(f, S) == \A x \in S : f[x] \in Nat
NoMore(f, e, S) == \A x \in S : f[x] <= e[x]
Sum2(f, e, g, S) == \A x \in S : g[x] = f[x] + e[x]

\* What the library computes, written out as one recursive function.
LEMMA TotalIsAFold ==
  ASSUME NEW f, NEW S
  PROVE  Total(f, S) = (CHOOSE g : Adds(f, S, g))[S]
  BY DEF Total, MapThenSumSet, MapThenFoldSet, Adds

\* Induction over the naturals, of a set instead of an operator: a set that holds 0 and
\* the successor of each of its members is Nat. It comes from the well-foundedness of <.
LEMMA EveryNatural ==
  ASSUME NEW T \in SUBSET Nat, 0 \in T, \A n \in T : n + 1 \in T
  PROVE  T = Nat
  <1> DEFINE R == OpToRel(<, Nat)
             U == Nat \ T
  <1>1. SUFFICES ASSUME U # {} PROVE FALSE
    OBVIOUS
  <1>2. PICK n \in U : \A m \in U : <<m, n>> \notin R
    BY <1>1, WFMin, NatLessThanWellFounded
  <1>3. R = {ss \in Nat \X Nat : ss[1] < ss[2]}
    BY DEF OpToRel
  <1>4. \A m \in U : ~(m < n)
    BY <1>2, <1>3
  <1>5. n # 0
    OBVIOUS
  <1>6. n - 1 \in Nat /\ n - 1 < n /\ (n - 1) + 1 = n
    BY <1>5
  <1>7. n - 1 \in T
    BY <1>4, <1>6
  <1> QED
    BY <1>6, <1>7

\* The fold exists: it is built one cardinality after the other.
LEMMA AddsExists ==
  ASSUME NEW f, NEW S, IsFiniteSet(S)
  PROVE  \E g : Adds(f, S, g)
  <1> DEFINE Body(g, s) == IF s = {} THEN 0
                           ELSE LET x == CHOOSE x \in s : TRUE IN f[x] + g[s \ {x}]
             Up(n, g) == \A s \in SUBSET S : Cardinality(s) <= n => g[s] = Body(g, s)
             T == {n \in Nat : \E g : Up(n, g)}
  <1>1. \A s \in SUBSET S : IsFiniteSet(s) /\ Cardinality(s) \in Nat
    BY FS_Subset, FS_CardinalityType
  <1>2. \A s \in SUBSET S : s # {} =>
          /\ (CHOOSE x \in s : TRUE) \in s
          /\ Cardinality(s \ {CHOOSE x \in s : TRUE}) = Cardinality(s) - 1
    BY <1>1, FS_RemoveElement
  <1>3. 0 \in T
    <2>1. \A s \in SUBSET S : Cardinality(s) <= 0 => s = {}
      BY <1>1, FS_EmptySet
    <2>2. Up(0, [s \in SUBSET S |-> 0])
      BY <2>1
    <2> QED
      BY <2>2
  <1>4. ASSUME NEW n \in T PROVE n + 1 \in T
    <2>1. PICK g : Up(n, g)
      OBVIOUS
    <2> DEFINE h == [s \in SUBSET S |-> IF Cardinality(s) <= n THEN g[s] ELSE Body(g, s)]
    <2>2. ASSUME NEW s \in SUBSET S, Cardinality(s) <= n + 1
          PROVE  h[s] = Body(h, s)
      <3>1. CASE s = {}
        <4>1. h[s] = 0
          BY <3>1, <2>1
        <4> QED
          BY <4>1, <3>1
      <3>2. CASE s # {}
        <4> DEFINE x == CHOOSE x \in s : TRUE
        <4>1. x \in s /\ Cardinality(s \ {x}) = Cardinality(s) - 1 /\ s \ {x} \in SUBSET S
          BY <1>2, <3>2
        <4>2. Cardinality(s \ {x}) <= n
          BY <4>1, <1>1, <2>2
        <4>3. h[s \ {x}] = g[s \ {x}]
          BY <4>1, <4>2
        <4>4. h[s] = Body(g, s)
          BY <2>1
        <4>5. Body(g, s) = f[x] + g[s \ {x}] /\ Body(h, s) = f[x] + h[s \ {x}]
          BY <3>2
        <4> QED
          BY <4>3, <4>4, <4>5
      <3> QED
        BY <3>1, <3>2
    <2>3. Up(n + 1, h)
      BY <2>2
    <2> HIDE DEF h
    <2>4. \E e : Up(n + 1, e)
      BY <2>3
    <2>5. n + 1 \in Nat
      OBVIOUS
    <2> QED
      BY <2>4, <2>5
  <1>5. T = Nat
    <2> HIDE DEF T
    <2>1. T \subseteq Nat
      BY DEF T
    <2> QED
      BY <1>3, <1>4, <2>1, EveryNatural
  <1>6. Cardinality(S) \in T
    BY <1>1, <1>5
  <1>7. PICK g : Up(Cardinality(S), g)
    BY <1>6
  <1>8. \A s \in SUBSET S : Cardinality(s) <= Cardinality(S)
    BY FS_Subset
  <1>9. \A s \in SUBSET S : g[s] = Body(g, s)
    BY <1>7, <1>8
  <1> DEFINE h == [s \in SUBSET S |-> g[s]]
  <1>10. \A s \in SUBSET S : h[s] = Body(h, s)
    BY <1>2, <1>9
  <1>11. Adds(f, S, h)
    <2>1. h = [s \in SUBSET S |-> Body(h, s)]
      BY <1>10
    <2> QED
      BY <2>1 DEF Adds
  <1> QED
    BY <1>11

\* Two folds agree on every set both are defined on.
LEMMA AddsAgree ==
  ASSUME NEW f, NEW e, NEW S, NEW U, IsFiniteSet(S), IsFiniteSet(U),
         NEW g, Adds(f, S, g), NEW h, Adds(e, U, h),
         NEW V, V \subseteq S, V \subseteq U, SameOn(f, e, V)
  PROVE  g[V] = h[V]
  <1> DEFINE T == {n \in Nat : \A s \in SUBSET V : Cardinality(s) = n => g[s] = h[s]}
  <1>1. \A s \in SUBSET V : IsFiniteSet(s) /\ Cardinality(s) \in Nat
    BY FS_Subset, FS_CardinalityType
  <1>2. \A s \in SUBSET V : s # {} =>
          /\ (CHOOSE x \in s : TRUE) \in s
          /\ Cardinality(s \ {CHOOSE x \in s : TRUE}) = Cardinality(s) - 1
    BY <1>1, FS_RemoveElement
  <1>3. \A s \in SUBSET V : s = {} => g[s] = 0 /\ h[s] = 0
    BY DEF Adds
  <1>4. \A s \in SUBSET V : s # {} =>
          LET x == CHOOSE x \in s : TRUE IN
            g[s] = f[x] + g[s \ {x}] /\ h[s] = e[x] + h[s \ {x}]
    BY DEF Adds
  <1>5. 0 \in T
    BY <1>1, <1>3, FS_EmptySet
  <1>6. ASSUME NEW n \in T PROVE n + 1 \in T
    <2>1. ASSUME NEW s \in SUBSET V, Cardinality(s) = n + 1
          PROVE  g[s] = h[s]
      <3> DEFINE x == CHOOSE x \in s : TRUE
      <3>1. s # {}
        BY <2>1, FS_EmptySet
      <3>2. x \in s /\ Cardinality(s \ {x}) = n /\ s \ {x} \in SUBSET V
        BY <3>1, <1>2, <2>1
      <3>3. g[s \ {x}] = h[s \ {x}]
        BY <3>2
      <3>4. g[s] = f[x] + g[s \ {x}] /\ h[s] = e[x] + h[s \ {x}]
        BY <3>1, <1>4
      <3>5. f[x] = e[x]
        BY <3>2 DEF SameOn
      <3> QED
        BY <3>3, <3>4, <3>5
    <2> QED
      BY <2>1
  <1>7. T = Nat
    <2> HIDE DEF T
    <2>1. T \subseteq Nat
      BY DEF T
    <2> QED
      BY <1>5, <1>6, <2>1, EveryNatural
  <1> QED
    BY <1>1, <1>7

\* The sum is the value of any fold over a superset.
LEMMA TotalByFold ==
  ASSUME NEW f, NEW S, IsFiniteSet(S), NEW g, Adds(f, S, g), NEW V, V \subseteq S
  PROVE  Total(f, V) = g[V]
  <1>1. IsFiniteSet(V)
    BY FS_Subset
  <1>2. Adds(f, V, CHOOSE h : Adds(f, V, h))
    BY <1>1, AddsExists
  <1>3. PICK h : h = CHOOSE e : Adds(f, V, e)
    OBVIOUS
  <1>4. Adds(f, V, h)
    BY <1>2, <1>3
  <1>5. SameOn(f, f, V)
    BY DEF SameOn
  <1>6. g[V] = h[V]
    BY <1>1, <1>4, <1>5, AddsAgree
  <1> QED
    BY <1>3, <1>6, TotalIsAFold

\* Nothing adds up to 0.
LEMMA TotalEmpty ==
  ASSUME NEW f
  PROVE  Total(f, {}) = 0
  <1>1. PICK g : Adds(f, {}, g)
    BY AddsExists, FS_EmptySet
  <1>2. Total(f, {}) = g[{}]
    BY <1>1, TotalByFold, FS_EmptySet
  <1> QED
    BY <1>1, <1>2 DEF Adds

\* Functions that agree on a set have one sum over it.
LEMMA TotalSame ==
  ASSUME NEW f, NEW e, NEW S, IsFiniteSet(S), SameOn(f, e, S)
  PROVE  Total(f, S) = Total(e, S)
  <1>1. PICK g : Adds(f, S, g)
    BY AddsExists
  <1>2. PICK h : Adds(e, S, h)
    BY AddsExists
  <1> QED
    BY <1>1, <1>2, TotalByFold, AddsAgree

\* Whole numbers add up to a whole number.
LEMMA TotalType ==
  ASSUME NEW f, NEW S, IsFiniteSet(S), Whole(f, S)
  PROVE  Total(f, S) \in Int
  <1> DEFINE T == {n \in Nat : \A s \in SUBSET S : Cardinality(s) = n => Total(f, s) \in Int}
  <1>1. \A s \in SUBSET S : IsFiniteSet(s) /\ Cardinality(s) \in Nat
    BY FS_Subset, FS_CardinalityType
  <1>2. PICK g : Adds(f, S, g)
    BY AddsExists
  <1>3. \A s \in SUBSET S : Total(f, s) = g[s]
    BY <1>2, TotalByFold
  <1>4. 0 \in T
    BY <1>1, TotalEmpty, FS_EmptySet
  <1>5. ASSUME NEW n \in T PROVE n + 1 \in T
    <2>1. ASSUME NEW s \in SUBSET S, Cardinality(s) = n + 1
          PROVE  Total(f, s) \in Int
      <3> DEFINE x == CHOOSE x \in s : TRUE
      <3>1. s # {}
        BY <2>1, FS_EmptySet
      <3>2. x \in s /\ s \ {x} \in SUBSET S
        BY <3>1
      <3>3. Cardinality(s \ {x}) = n
        <4> HIDE DEF x
        <4>1. IsFiniteSet(s) /\ n \in Nat
          BY <1>1
        <4>2. Cardinality(s \ {x}) = Cardinality(s) - 1
          BY <3>2, <4>1, FS_RemoveElement
        <4> QED
          BY <4>1, <4>2, <2>1
      <3>4. Total(f, s \ {x}) \in Int
        BY <3>2, <3>3
      <3>5. g[s] = f[x] + g[s \ {x}]
        BY <1>2, <3>1 DEF Adds
      <3>6. Total(f, s) = f[x] + Total(f, s \ {x})
        BY <3>5, <3>2, <1>3
      <3>7. f[x] \in Int
        BY <3>2 DEF Whole
      <3> HIDE DEF x
      <3> QED
        BY <3>4, <3>6, <3>7
    <2> QED
      BY <2>1
  <1>6. T = Nat
    <2> HIDE DEF T
    <2>1. T \subseteq Nat
      BY DEF T
    <2> QED
      BY <1>4, <1>5, <2>1, EveryNatural
  <1> QED
    BY <1>1, <1>6

\* Whichever member is taken out first.
LEMMA TotalRemove ==
  ASSUME NEW f, NEW S, IsFiniteSet(S), Whole(f, S), NEW y \in S
  PROVE  Total(f, S) = f[y] + Total(f, S \ {y})
  <1> DEFINE T == {n \in Nat : \A s \in SUBSET S : Cardinality(s) = n =>
                     \A z \in s : Total(f, s) = f[z] + Total(f, s \ {z})}
  <1>1. \A s \in SUBSET S : IsFiniteSet(s) /\ Cardinality(s) \in Nat /\ Total(f, s) \in Int
    <2>1. \A s \in SUBSET S : IsFiniteSet(s) /\ Cardinality(s) \in Nat /\ Whole(f, s)
      BY FS_Subset, FS_CardinalityType DEF Whole
    <2> QED
      BY <2>1, TotalType
  <1>2. PICK g : Adds(f, S, g)
    BY AddsExists
  <1>3. \A s \in SUBSET S : Total(f, s) = g[s]
    BY <1>2, TotalByFold
  <1>4. 0 \in T
    BY <1>1, FS_EmptySet
  <1>5. ASSUME NEW n \in T PROVE n + 1 \in T
    <2>1. ASSUME NEW s \in SUBSET S, Cardinality(s) = n + 1, NEW z \in s
          PROVE  Total(f, s) = f[z] + Total(f, s \ {z})
      <3> DEFINE x == CHOOSE x \in s : TRUE
      <3>1. x \in s /\ s \ {x} \in SUBSET S
        OBVIOUS
      <3>2. g[s] = f[x] + g[s \ {x}]
        BY <1>2, <3>1 DEF Adds
      <3>3. Total(f, s) = f[x] + Total(f, s \ {x})
        BY <3>2, <3>1, <1>3
      <3> HIDE DEF x
      <3>4. CASE z = x
        BY <3>3, <3>4
      <3>5. CASE z # x
        <4> DEFINE a == s \ {x}
                   b == s \ {z}
                   c == s \ {x, z}
        <4>1. /\ a \in SUBSET S /\ b \in SUBSET S /\ c \in SUBSET S
              /\ z \in a /\ x \in b /\ a \ {z} = c /\ b \ {x} = c
          BY <3>1, <3>5
        <4>2. Cardinality(a) = n /\ Cardinality(b) = n
          <5>1. IsFiniteSet(s) /\ n \in Nat
            BY <1>1
          <5>2. Cardinality(a) = Cardinality(s) - 1 /\ Cardinality(b) = Cardinality(s) - 1
            BY <3>1, <5>1, FS_RemoveElement
          <5> HIDE DEF a, b
          <5> QED
            BY <5>1, <5>2, <2>1
        <4>3. Total(f, a) = f[z] + Total(f, c)
          BY <4>1, <4>2
        <4>4. Total(f, b) = f[x] + Total(f, c)
          BY <4>1, <4>2
        <4>5. f[x] \in Int /\ f[z] \in Int /\ Total(f, c) \in Int
          BY <3>1, <4>1, <1>1 DEF Whole
        <4> HIDE DEF a, b, c
        <4>6. Total(f, s) = f[x] + Total(f, a)
          BY <3>3 DEF a
        <4>7. Total(f, s) = f[z] + Total(f, b)
          BY <4>3, <4>4, <4>5, <4>6
        <4> QED
          BY <4>7 DEF b
      <3> QED
        BY <3>4, <3>5
    <2> QED
      BY <2>1
  <1>6. T = Nat
    <2> HIDE DEF T
    <2>1. T \subseteq Nat
      BY DEF T
    <2> QED
      BY <1>4, <1>5, <2>1, EveryNatural
  <1> QED
    BY <1>1, <1>6

\* A new member adds its amount.
LEMMA TotalInsert ==
  ASSUME NEW f, NEW S, IsFiniteSet(S), Whole(f, S), NEW y, y \notin S, f[y] \in Int
  PROVE  Total(f, S \union {y}) = Total(f, S) + f[y]
  <1>1. IsFiniteSet(S \union {y}) /\ (S \union {y}) \ {y} = S /\ y \in S \union {y}
    BY FS_AddElement
  <1>2. Whole(f, S \union {y})
    BY DEF Whole
  <1>3. Total(f, S \union {y}) = f[y] + Total(f, (S \union {y}) \ {y})
    BY <1>1, <1>2, TotalRemove
  <1>4. Total(f, S) \in Int
    BY TotalType
  <1>5. Total(f, S \union {y}) = f[y] + Total(f, S)
    BY <1>1, <1>3
  <1> QED
    BY <1>4, <1>5

\* One member's amount changes.
LEMMA TotalUpdate ==
  ASSUME NEW f, NEW e, NEW S, IsFiniteSet(S), Whole(f, S), NEW y \in S,
         e[y] \in Int, SameOn(f, e, S \ {y})
  PROVE  Total(e, S) = Total(f, S) - f[y] + e[y]
  <1>1. Whole(e, S) /\ Whole(e, S \ {y}) /\ Whole(f, S \ {y}) /\ f[y] \in Int
    BY DEF Whole, SameOn
  <1>2. IsFiniteSet(S \ {y})
    BY FS_RemoveElement
  <1>3. Total(f, S) = f[y] + Total(f, S \ {y}) /\ Total(e, S) = e[y] + Total(e, S \ {y})
    BY <1>1, TotalRemove
  <1>4. Total(f, S \ {y}) = Total(e, S \ {y})
    BY <1>2, TotalSame
  <1>5. Total(f, S \ {y}) \in Int
    BY <1>1, <1>2, TotalType
  <1> QED
    BY <1>1, <1>3, <1>4, <1>5

\* A set of subsets that starts empty and takes in any member holds them all.
LEMMA EverySubset ==
  ASSUME NEW S, IsFiniteSet(S), NEW P \in SUBSET SUBSET S, {} \in P,
         \A s \in P : \A x \in S \ s : s \union {x} \in P
  PROVE  S \in P
  <1> DEFINE T == {n \in Nat : \A s \in SUBSET S : Cardinality(s) = n => s \in P}
  <1>1. \A s \in SUBSET S : IsFiniteSet(s) /\ Cardinality(s) \in Nat
    BY FS_Subset, FS_CardinalityType
  <1>2. 0 \in T
    BY <1>1, FS_EmptySet
  <1>3. ASSUME NEW n \in T PROVE n + 1 \in T
    <2>1. ASSUME NEW s \in SUBSET S, Cardinality(s) = n + 1
          PROVE  s \in P
      <3>1. IsFiniteSet(s) /\ n \in Nat
        BY <1>1
      <3>2. s # {}
        BY <2>1, <3>1, FS_EmptySet
      <3>3. PICK x \in s : TRUE
        BY <3>2
      <3>4. Cardinality(s \ {x}) = n
        <4>1. Cardinality(s \ {x}) = Cardinality(s) - 1
          BY <3>1, <3>3, FS_RemoveElement
        <4> QED
          BY <4>1, <3>1, <2>1
      <3>5. s \ {x} \in P
        BY <3>4
      <3>6. (s \ {x}) \union {x} = s /\ x \in S \ (s \ {x})
        BY <3>3
      <3> QED
        BY <3>5, <3>6
    <2> QED
      BY <2>1
  <1>4. T = Nat
    <2> HIDE DEF T
    <2>1. T \subseteq Nat
      BY DEF T
    <2> QED
      BY <1>2, <1>3, <2>1, EveryNatural
  <1> QED
    BY <1>1, <1>4

\* What is no more at each member is no more in total.
LEMMA TotalAtMost ==
  ASSUME NEW f, NEW e, NEW S, IsFiniteSet(S), Whole(f, S), Whole(e, S), NoMore(f, e, S)
  PROVE  Total(f, S) <= Total(e, S)
  <1> DEFINE P == {s \in SUBSET S : Total(f, s) <= Total(e, s)}
  <1>1. {} \in P
    BY TotalEmpty
  <1>2. ASSUME NEW s \in P, NEW x \in S \ s PROVE s \union {x} \in P
    <2>1. IsFiniteSet(s) /\ Whole(f, s) /\ Whole(e, s) /\ f[x] \in Int /\ e[x] \in Int /\ f[x] <= e[x]
      BY FS_Subset DEF Whole, NoMore
    <2>2. Total(f, s) \in Int /\ Total(e, s) \in Int
      BY <2>1, TotalType
    <2>3. Total(f, s \union {x}) = Total(f, s) + f[x] /\ Total(e, s \union {x}) = Total(e, s) + e[x]
      BY <2>1, TotalInsert
    <2> QED
      BY <2>1, <2>2, <2>3
  <1>3. S \in P
    <2> HIDE DEF P
    <2>1. P \in SUBSET SUBSET S
      BY DEF P
    <2> QED
      BY <1>1, <1>2, <2>1, EverySubset
  <1> QED
    BY <1>3

\* Amounts that are not negative: a part is no more than the whole.
LEMMA TotalPart ==
  ASSUME NEW f, NEW S, IsFiniteSet(S), Amounts(f, S), NEW R \in SUBSET S
  PROVE  Total(f, R) \in Nat /\ Total(f, R) <= Total(f, S)
  <1> DEFINE P == {s \in SUBSET S : Total(f, s) \in Nat
                     /\ Total(f, s \intersect R) \in Nat /\ Total(f, s \intersect R) <= Total(f, s)}
  <1>1. {} \in P
    <2>1. {} \intersect R = {}
      OBVIOUS
    <2> QED
      BY <2>1, TotalEmpty
  <1>2. ASSUME NEW s \in P, NEW x \in S \ s PROVE s \union {x} \in P
    <2>1. IsFiniteSet(s) /\ Whole(f, s) /\ f[x] \in Nat
      BY FS_Subset DEF Whole, Amounts
    <2>2. Total(f, s \union {x}) = Total(f, s) + f[x]
      BY <2>1, TotalInsert
    <2>3. IsFiniteSet(s \intersect R) /\ Whole(f, s \intersect R) /\ x \notin s \intersect R
      BY FS_Subset DEF Whole, Amounts
    <2>4. CASE x \in R
      <3>1. (s \union {x}) \intersect R = (s \intersect R) \union {x}
        BY <2>4
      <3>2. Total(f, (s \intersect R) \union {x}) = Total(f, s \intersect R) + f[x]
        BY <2>1, <2>3, TotalInsert
      <3>3. Total(f, s) \in Nat /\ Total(f, s \intersect R) \in Nat
            /\ Total(f, s \intersect R) <= Total(f, s)
        OBVIOUS
      <3>4. Total(f, (s \union {x}) \intersect R) = Total(f, s \intersect R) + f[x]
        BY <3>1, <3>2
      <3> QED
        BY <2>1, <2>2, <3>3, <3>4
    <2>5. CASE x \notin R
      <3>1. (s \union {x}) \intersect R = s \intersect R
        BY <2>5
      <3> QED
        BY <2>1, <2>2, <3>1
    <2> QED
      BY <2>4, <2>5
  <1>3. S \in P
    <2> HIDE DEF P
    <2>1. P \in SUBSET SUBSET S
      BY DEF P
    <2> QED
      BY <1>1, <1>2, <2>1, EverySubset
  <1>4. S \intersect R = R
    OBVIOUS
  <1> QED
    BY <1>3, <1>4

\* Zeros add up to 0.
LEMMA TotalNone ==
  ASSUME NEW f, NEW S, IsFiniteSet(S), \A x \in S : f[x] = 0
  PROVE  Total(f, S) = 0
  <1> DEFINE P == {s \in SUBSET S : Total(f, s) = 0}
  <1>1. {} \in P
    BY TotalEmpty
  <1>2. ASSUME NEW s \in P, NEW x \in S \ s PROVE s \union {x} \in P
    <2>1. IsFiniteSet(s) /\ Whole(f, s) /\ f[x] = 0
      BY FS_Subset DEF Whole
    <2>2. Total(f, s \union {x}) = Total(f, s) + f[x]
      BY <2>1, TotalInsert
    <2> QED
      BY <2>1, <2>2
  <1>3. S \in P
    <2> HIDE DEF P
    <2>1. P \in SUBSET SUBSET S
      BY DEF P
    <2> QED
      BY <1>1, <1>2, <2>1, EverySubset
  <1> QED
    BY <1>3

\* The sum of a sum is the sum of the sums.
LEMMA TotalPlus ==
  ASSUME NEW f, NEW e, NEW g, NEW S, IsFiniteSet(S), Whole(f, S), Whole(e, S), Sum2(f, e, g, S)
  PROVE  Total(g, S) = Total(f, S) + Total(e, S)
  <1> DEFINE P == {s \in SUBSET S : Total(g, s) = Total(f, s) + Total(e, s)}
  <1>1. {} \in P
    BY TotalEmpty
  <1>2. ASSUME NEW s \in P, NEW x \in S \ s PROVE s \union {x} \in P
    <2>1. IsFiniteSet(s) /\ Whole(f, s) /\ Whole(e, s) /\ Whole(g, s)
      BY FS_Subset DEF Whole, Sum2
    <2>2. f[x] \in Int /\ e[x] \in Int /\ g[x] = f[x] + e[x] /\ g[x] \in Int
      BY DEF Whole, Sum2
    <2>3. Total(f, s) \in Int /\ Total(e, s) \in Int
      BY <2>1, TotalType
    <2>4. Total(f, s \union {x}) = Total(f, s) + f[x] /\ Total(e, s \union {x}) = Total(e, s) + e[x]
          /\ Total(g, s \union {x}) = Total(g, s) + g[x]
      BY <2>1, <2>2, TotalInsert
    <2> QED
      BY <2>2, <2>3, <2>4
  <1>3. S \in P
    <2> HIDE DEF P
    <2>1. P \in SUBSET SUBSET S
      BY DEF P
    <2> QED
      BY <1>1, <1>2, <2>1, EverySubset
  <1> QED
    BY <1>3

\* One member alone.
LEMMA TotalOne ==
  ASSUME NEW f, NEW x, f[x] \in Int
  PROVE  Total(f, {x}) = f[x]
  <1>1. IsFiniteSet({}) /\ Whole(f, {}) /\ {} \union {x} = {x} /\ x \notin {}
    BY FS_EmptySet DEF Whole
  <1>2. Total(f, {} \union {x}) = Total(f, {}) + f[x]
    BY <1>1, TotalInsert
  <1> QED
    BY <1>1, <1>2, TotalEmpty

\* A sum over two disjoint sets is the sum of theirs.
LEMMA TotalUnion ==
  ASSUME NEW f, NEW R, NEW S, IsFiniteSet(R), IsFiniteSet(S), Whole(f, R), Whole(f, S),
         R \intersect S = {}
  PROVE  Total(f, R \union S) = Total(f, R) + Total(f, S)
  <1> DEFINE P == {s \in SUBSET S : Total(f, R \union s) = Total(f, R) + Total(f, s)}
  <1>1. Total(f, R) \in Int
    BY TotalType
  <1>2. {} \in P
    <2>1. Total(f, {}) = 0 /\ R \union {} = R
      BY TotalEmpty
    <2> QED
      BY <1>1, <2>1
  <1>3. ASSUME NEW s \in P, NEW x \in S \ s
        PROVE  s \union {x} \in P
    <2>1. IsFiniteSet(s) /\ Whole(f, s) /\ f[x] \in Int /\ s \in SUBSET S
      BY FS_Subset DEF Whole
    <2>2. IsFiniteSet(R \union s) /\ Whole(f, R \union s) /\ x \notin R \union s
      BY <2>1, FS_Union DEF Whole
    <2>3. Total(f, s) \in Int
      BY <2>1, TotalType
    <2>4. Total(f, s \union {x}) = Total(f, s) + f[x]
      BY <2>1, TotalInsert
    <2>5. Total(f, (R \union s) \union {x}) = Total(f, R \union s) + f[x]
      BY <2>1, <2>2, TotalInsert
    <2>6. (R \union s) \union {x} = R \union (s \union {x})
      OBVIOUS
    <2>7. Total(f, R \union s) = Total(f, R) + Total(f, s)
      OBVIOUS
    <2>8. Total(f, R \union (s \union {x})) = (Total(f, R) + Total(f, s)) + f[x]
      BY <2>5, <2>6, <2>7
    <2>9. Total(f, R \union (s \union {x})) = Total(f, R) + Total(f, s \union {x})
      BY <1>1, <2>1, <2>3, <2>4, <2>8
    <2>10. s \union {x} \in SUBSET S
      BY <2>1
    <2> QED
      BY <2>9, <2>10
  <1>4. P \in SUBSET SUBSET S
    OBVIOUS
  <1>5. S \in P
    <2> HIDE DEF P
    <2> QED
      BY <1>2, <1>3, <1>4, EverySubset
  <1> QED
    BY <1>5
=============================================================================
