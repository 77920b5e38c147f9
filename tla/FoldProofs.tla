---------------------------- MODULE FoldProofs -----------------------------
(***************************************************************************)
(* What the proofs about sums need of SumFunction, with which the models   *)
(* count what was lent, bought and scored.  It is defined by a recursion   *)
(* over subsets, taking the elements in an order nobody knows; that the    *)
(* recursion has a solution, that the order makes no difference, and what  *)
(* one value more or another value does to the sum, is shown here.  There  *)
(* is no induction rule to instantiate: each of these arguments takes the  *)
(* least number for which the claim were false.                            *)
(***************************************************************************)
EXTENDS Naturals, FiniteSets, Functions, FiniteSetTheorems, WellFoundedInduction, TLAPS

\* Every nonempty set of naturals has a least element.
LEMMA LeastNatural ==
  ASSUME NEW S \in SUBSET Nat, S # {}
  PROVE  \E m \in S : \A n \in S : m <= n
<1> DEFINE R == {p \in Nat \X Nat : p[1] < p[2]}
<1>1. IsWellFoundedOn(R, Nat)
  BY NatLessThanWellFounded DEF OpToRel
<1>2. \E m \in S : \A n \in S : <<n, m>> \notin R
  BY <1>1, WFMin
<1>3. PICK m \in S : \A n \in S : <<n, m>> \notin R
  BY <1>2
<1>4. ASSUME NEW n \in S PROVE m <= n
  <2>1. <<n, m>> \notin R /\ n \in Nat /\ m \in Nat
    BY <1>3
  <2>2. ~(n < m)
    BY <2>1
  <2> QED BY <2>1, <2>2
<1> QED
  BY <1>4

\* Induction over the finite subsets of a set, the property given as a set.
LEMMA SubsetInduction ==
  ASSUME NEW D, IsFiniteSet(D), NEW Good, {} \in Good,
         ASSUME NEW s \in SUBSET D, s # {}, \A x \in s : s \ {x} \in Good
         PROVE  s \in Good
  PROVE  \A s \in SUBSET D : s \in Good
<1> SUFFICES ASSUME \E s \in SUBSET D : s \notin Good PROVE FALSE
  OBVIOUS
<1> DEFINE Bad == {n \in Nat : \E s \in SUBSET D : s \notin Good /\ Cardinality(s) = n}
<1>1. \A s \in SUBSET D : IsFiniteSet(s) /\ Cardinality(s) \in Nat
  BY FS_Subset, FS_CardinalityType
<1>2. Bad \in SUBSET Nat /\ Bad # {}
  BY <1>1
<1>3. PICK m \in Bad : \A n \in Bad : m <= n
  BY <1>2, LeastNatural
<1>4. PICK s \in SUBSET D : s \notin Good /\ Cardinality(s) = m
  BY <1>3
<1>5. s # {}
  BY <1>4
<1>6. ASSUME NEW x \in s PROVE s \ {x} \in Good
  <2>1. s \ {x} \in SUBSET D
    OBVIOUS
  <2>2. Cardinality(s \ {x}) = Cardinality(s) - 1
    BY <1>1, FS_RemoveElement
  <2>3. Cardinality(s \ {x}) \in Nat
    BY <2>1, <1>1
  <2>4. ~(m <= Cardinality(s \ {x}))
    BY <2>2, <2>3, <1>1, <1>4
  <2>5. Cardinality(s \ {x}) \notin Bad
    BY <2>4, <1>3
  <2> QED BY <2>1, <2>3, <2>5
<1> QED BY <1>4, <1>5, <1>6

\* F gives the sum of f over every subset of D.
Sums(F, f, D) ==
  /\ F \in [SUBSET D -> Nat]
  /\ F[{}] = 0
  /\ \A s \in SUBSET D : \A x \in s : F[s] = f[x] + F[s \ {x}]

\* The recursion that SumFunctionOnSet is defined by.
Peeled(F, f, s) ==
  IF s = {} THEN 0
  ELSE f[CHOOSE x \in s : TRUE] + F[s \ {CHOOSE x \in s : TRUE}]

PeeledSums(f, D) == CHOOSE F : F = [s \in SUBSET D |-> Peeled(F, f, s)]

LEMMA SumUnfold ==
  ASSUME NEW f, NEW D
  PROVE  SumFunctionOnSet(f, D) = PeeledSums(f, D)[D]
BY DEF SumFunctionOnSet, FoldFunctionOnSet, MapThenFoldSet, Peeled, PeeledSums

\* F follows the recursion on every subset of D, or on those of at most n
\* elements.
Solved(F, f, D) == \A s \in SUBSET D : F[s] = Peeled(F, f, s)

SolvedUpTo(F, f, D, n) ==
  \A s \in SUBSET D : Cardinality(s) <= n => F[s] = Peeled(F, f, s)

\* The recursion has a solution over the subsets of at most n elements, for
\* every n.
LEMMA PeeledUpTo ==
  ASSUME NEW D, IsFiniteSet(D), NEW f \in [D -> Nat]
  PROVE  \A n \in Nat : \E F \in [SUBSET D -> Nat] : SolvedUpTo(F, f, D, n)
<1> DEFINE Bad == {n \in Nat : ~\E F \in [SUBSET D -> Nat] : SolvedUpTo(F, f, D, n)}
<1> SUFFICES ASSUME Bad # {} PROVE FALSE
  OBVIOUS
<1>1. \A s \in SUBSET D : IsFiniteSet(s) /\ Cardinality(s) \in Nat
  BY FS_Subset, FS_CardinalityType
<1>2. PICK m \in Bad : \A n \in Bad : m <= n
  <2>1. Bad \in SUBSET Nat
    OBVIOUS
  <2> QED BY <2>1, LeastNatural
<1>3. m \in Nat /\ ~\E F \in [SUBSET D -> Nat] : SolvedUpTo(F, f, D, m)
  BY <1>2
<1>4. CASE m = 0
  <2> DEFINE F == [s \in SUBSET D |-> 0]
  <2>1. F \in [SUBSET D -> Nat]
    OBVIOUS
  <2>2. ASSUME NEW s \in SUBSET D, Cardinality(s) <= m PROVE F[s] = Peeled(F, f, s)
    <3>1. Cardinality(s) = 0
      BY <1>1, <1>4, <2>2
    <3>2. s = {}
      BY <3>1, <1>1, FS_EmptySet
    <3> QED BY <3>2 DEF Peeled
  <2>3. SolvedUpTo(F, f, D, m)
    BY <2>2 DEF SolvedUpTo
  <2> HIDE DEF F
  <2> QED BY <2>1, <2>3, <1>3
<1>5. CASE m # 0
  <2>1. m - 1 \in Nat /\ m - 1 \notin Bad
    <3>1. m - 1 \in Nat /\ ~(m <= m - 1)
      BY <1>3, <1>5
    <3> HIDE DEF Bad
    <3> QED BY <3>1, <1>2
  <2>2. PICK G \in [SUBSET D -> Nat] : SolvedUpTo(G, f, D, m - 1)
    BY <2>1
  <2> DEFINE F == [s \in SUBSET D |-> Peeled(G, f, s)]
  <2>3. ASSUME NEW s \in SUBSET D, s # {}
        PROVE  /\ (CHOOSE x \in s : TRUE) \in s
               /\ s \ {CHOOSE x \in s : TRUE} \in SUBSET D
               /\ Cardinality(s \ {CHOOSE x \in s : TRUE}) = Cardinality(s) - 1
    <3>1. (CHOOSE x \in s : TRUE) \in s
      BY <2>3
    <3> DEFINE c == CHOOSE x \in s : TRUE
    <3> HIDE DEF c
    <3>2. c \in s
      BY <3>1 DEF c
    <3>3. s \ {c} \in SUBSET D /\ Cardinality(s \ {c}) = Cardinality(s) - 1
      BY <3>2, <1>1, FS_RemoveElement
    <3> QED BY <3>2, <3>3 DEF c
  <2>4. ASSUME NEW s \in SUBSET D PROVE Peeled(G, f, s) \in Nat
    <3>1. CASE s = {}
      BY <3>1 DEF Peeled
    <3>2. CASE s # {}
      <4> DEFINE c == CHOOSE x \in s : TRUE
      <4>1. c \in s /\ s \ {c} \in SUBSET D
        BY <3>2, <2>3
      <4>2. Peeled(G, f, s) = f[c] + G[s \ {c}]
        BY <3>2 DEF Peeled
      <4> HIDE DEF c
      <4>3. f[c] \in Nat /\ G[s \ {c}] \in Nat
        BY <4>1, <2>2
      <4> QED BY <4>2, <4>3
    <3> QED BY <3>1, <3>2
  <2>5. F \in [SUBSET D -> Nat]
    BY <2>4
  <2>6. ASSUME NEW s \in SUBSET D, Cardinality(s) <= m PROVE F[s] = Peeled(F, f, s)
    <3>1. CASE s = {}
      BY <3>1 DEF Peeled
    <3>2. CASE s # {}
      <4> DEFINE c == CHOOSE x \in s : TRUE
      <4>1. /\ c \in s /\ s \ {c} \in SUBSET D
            /\ Cardinality(s \ {c}) = Cardinality(s) - 1
        BY <3>2, <2>3
      <4>2. Cardinality(s \ {c}) <= m - 1
        BY <4>1, <2>6, <1>1, <1>3
      <4>3. G[s \ {c}] = Peeled(G, f, s \ {c})
        BY <4>1, <4>2, <2>2 DEF SolvedUpTo
      <4>4. F[s \ {c}] = G[s \ {c}]
        BY <4>1, <4>3
      <4>5. F[s] = f[c] + G[s \ {c}]
        BY <3>2 DEF Peeled
      <4>6. Peeled(F, f, s) = f[c] + F[s \ {c}]
        BY <3>2 DEF Peeled
      <4> QED BY <4>4, <4>5, <4>6
    <3> QED BY <3>1, <3>2
  <2>7. SolvedUpTo(F, f, D, m)
    BY <2>6 DEF SolvedUpTo
  <2> HIDE DEF F
  <2> QED BY <2>5, <2>7, <1>3
<1> QED BY <1>4, <1>5

\* SumFunctionOnSet follows its recursion.
LEMMA SumIsPeeled ==
  ASSUME NEW D, IsFiniteSet(D), NEW f \in [D -> Nat]
  PROVE  \E F \in [SUBSET D -> Nat] :
           SumFunctionOnSet(f, D) = F[D] /\ Solved(F, f, D)
<1>1. Cardinality(D) \in Nat /\ \A s \in SUBSET D : Cardinality(s) <= Cardinality(D)
  BY FS_Subset, FS_CardinalityType
<1>2. PICK H \in [SUBSET D -> Nat] : SolvedUpTo(H, f, D, Cardinality(D))
  BY <1>1, PeeledUpTo
<1>3. \A s \in SUBSET D : H[s] = Peeled(H, f, s)
  BY <1>1, <1>2 DEF SolvedUpTo
<1>4. H = [s \in SUBSET D |-> Peeled(H, f, s)]
  BY <1>3
<1> DEFINE F == PeeledSums(f, D)
<1>5. SumFunctionOnSet(f, D) = F[D]
  BY SumUnfold
<1>6. F = [s \in SUBSET D |-> Peeled(F, f, s)]
  BY <1>4 DEF PeeledSums
<1> HIDE DEF F
<1>7. \A s \in SUBSET D : F[s] = Peeled(F, f, s)
  BY <1>6
<1>8. DOMAIN F = SUBSET D
  BY <1>6
<1> DEFINE Good == {s \in SUBSET D : F[s] \in Nat}
<1>9. {} \in Good
  BY <1>7 DEF Peeled
<1>10. ASSUME NEW s \in SUBSET D, s # {}, \A x \in s : s \ {x} \in Good
       PROVE  s \in Good
  <2> DEFINE c == CHOOSE x \in s : TRUE
  <2>1. c \in s
    BY <1>10
  <2>2. F[s] = f[c] + F[s \ {c}]
    BY <1>7, <1>10 DEF Peeled
  <2> HIDE DEF c
  <2>3. F[s \ {c}] \in Nat /\ f[c] \in Nat
    BY <2>1, <1>10
  <2> QED BY <2>2, <2>3
<1> HIDE DEF Good
<1>11. \A s \in SUBSET D : s \in Good
  BY <1>9, <1>10, SubsetInduction
<1>12. F = [s \in SUBSET D |-> F[s]] /\ \A s \in SUBSET D : F[s] \in Nat
  BY <1>6, <1>8, <1>11 DEF Good
<1>13. F \in [SUBSET D -> Nat]
  BY <1>12
<1> QED BY <1>5, <1>7, <1>13 DEF Solved

\* The order in which the elements are taken makes no difference.
LEMMA SumOrder ==
  ASSUME NEW D, IsFiniteSet(D), NEW f \in [D -> Nat],
         NEW F \in [SUBSET D -> Nat], Solved(F, f, D)
  PROVE  Sums(F, f, D)
<1> DEFINE Good == {s \in SUBSET D : \A x \in s : F[s] = f[x] + F[s \ {x}]}
<1>1. {} \in Good
  OBVIOUS
<1>2. ASSUME NEW s \in SUBSET D, s # {}, \A x \in s : s \ {x} \in Good
      PROVE  s \in Good
  <2> SUFFICES ASSUME NEW x \in s PROVE F[s] = f[x] + F[s \ {x}]
    OBVIOUS
  <2>1. PICK c \in s : F[s] = f[c] + F[s \ {c}]
    BY <1>2 DEF Peeled, Solved
  <2>2. CASE x = c
    BY <2>1, <2>2
  <2>3. CASE x # c
    <3>1. F[s \ {c}] = f[x] + F[(s \ {c}) \ {x}]
      BY <1>2, <2>3
    <3>2. F[s \ {x}] = f[c] + F[(s \ {x}) \ {c}]
      BY <1>2, <2>3
    <3>3. (s \ {c}) \ {x} = (s \ {x}) \ {c}
      OBVIOUS
    <3>4. F[s] = f[c] + (f[x] + F[(s \ {x}) \ {c}])
      BY <2>1, <3>1, <3>3
    <3>5. f[x] + F[s \ {x}] = f[x] + (f[c] + F[(s \ {x}) \ {c}])
      BY <3>2
    <3>6. \A a, b, d \in Nat : a + (b + d) = b + (a + d)
      OBVIOUS
    <3>7. f[x] \in Nat /\ f[c] \in Nat /\ F[(s \ {x}) \ {c}] \in Nat
      OBVIOUS
    <3>8. f[c] + (f[x] + F[(s \ {x}) \ {c}]) = f[x] + (f[c] + F[(s \ {x}) \ {c}])
      BY <3>6, <3>7
    <3> QED BY <3>4, <3>5, <3>8
  <2> QED BY <2>2, <2>3
<1> HIDE DEF Good
<1>3. \A s \in SUBSET D : s \in Good
  BY <1>1, <1>2, SubsetInduction
<1>4. F[{}] = 0
  BY DEF Peeled, Solved
<1> QED BY <1>3, <1>4 DEF Good, Sums

\* Every sum is one of such a family of sums.
LEMMA SumExists ==
  ASSUME NEW D, IsFiniteSet(D), NEW f \in [D -> Nat]
  PROVE  \E F : Sums(F, f, D) /\ SumFunction(f) = F[D]
<1>1. PICK F \in [SUBSET D -> Nat] :
        SumFunctionOnSet(f, D) = F[D] /\ Solved(F, f, D)
  BY SumIsPeeled
<1>2. Sums(F, f, D)
  BY <1>1, SumOrder
<1>3. SumFunction(f) = F[D]
  BY <1>1 DEF SumFunction
<1> QED BY <1>2, <1>3

\* A sum depends on nothing but the values that are added.
LEMMA SumsAgree ==
  ASSUME NEW D, NEW f, NEW F, Sums(F, f, D),
         NEW E, NEW g, NEW G, Sums(G, g, E),
         NEW S, IsFiniteSet(S), S \subseteq D, S \subseteq E, \A x \in S : f[x] = g[x]
  PROVE  F[S] = G[S]
<1> DEFINE Good == {s \in SUBSET S : F[s] = G[s]}
<1>1. {} \in Good
  BY DEF Sums
<1>2. ASSUME NEW s \in SUBSET S, s # {}, \A x \in s : s \ {x} \in Good
      PROVE  s \in Good
  <2>1. PICK x : x \in s
    BY <1>2
  <2>2. F[s] = f[x] + F[s \ {x}] /\ G[s] = g[x] + G[s \ {x}]
    <3>1. s \in SUBSET D /\ s \in SUBSET E
      OBVIOUS
    <3> QED BY <2>1, <3>1 DEF Sums
  <2>3. F[s \ {x}] = G[s \ {x}] /\ f[x] = g[x]
    BY <2>1, <1>2
  <2> QED BY <2>2, <2>3
<1> HIDE DEF Good
<1>3. S \in SUBSET S
  OBVIOUS
<1>4. \A s \in SUBSET S : s \in Good
  BY <1>1, <1>2, SubsetInduction
<1> QED BY <1>3, <1>4 DEF Good

LEMMA SumType ==
  ASSUME NEW D, IsFiniteSet(D), NEW f \in [D -> Nat]
  PROVE  SumFunction(f) \in Nat
<1>1. PICK F : Sums(F, f, D) /\ SumFunction(f) = F[D]
  BY SumExists
<1> QED BY <1>1 DEF Sums

LEMMA SumEmpty ==
  ASSUME NEW f \in [{} -> Nat]
  PROVE  SumFunction(f) = 0
<1>1. IsFiniteSet({})
  BY FS_EmptySet
<1> QED BY <1>1, SumExists DEF Sums

\* One value more: the sum grows by it.
Extends(g, f, D, x) ==
  /\ x \notin D /\ f \in [D -> Nat] /\ g \in [D \cup {x} -> Nat]
  /\ \A y \in D : g[y] = f[y]

LEMMA SumExtend ==
  ASSUME NEW D, IsFiniteSet(D), NEW x, NEW f, NEW g, Extends(g, f, D, x)
  PROVE  SumFunction(g) = g[x] + SumFunction(f)
<1> USE DEF Extends
<1>1. IsFiniteSet(D \cup {x})
  BY FS_AddElement
<1>2. PICK G : Sums(G, g, D \cup {x}) /\ SumFunction(g) = G[D \cup {x}]
  BY <1>1, SumExists
<1>3. PICK F : Sums(F, f, D) /\ SumFunction(f) = F[D]
  BY SumExists
<1>4. G[D] = F[D]
  BY <1>2, <1>3, SumsAgree
<1>5. G[D \cup {x}] = g[x] + G[(D \cup {x}) \ {x}]
  BY <1>2 DEF Sums
<1>6. (D \cup {x}) \ {x} = D
  OBVIOUS
<1> QED BY <1>2, <1>3, <1>4, <1>5, <1>6

\* One value changed: the sum moves by the difference.
Differ(f, g, D, x) ==
  /\ x \in D /\ f \in [D -> Nat] /\ g \in [D -> Nat]
  /\ \A y \in D \ {x} : g[y] = f[y]

LEMMA SumChange ==
  ASSUME NEW D, IsFiniteSet(D), NEW x, NEW f, NEW g, Differ(f, g, D, x)
  PROVE  SumFunction(g) + f[x] = SumFunction(f) + g[x]
<1> USE DEF Differ
<1> DEFINE E == D \ {x}
           h == [y \in E |-> f[y]]
<1>1. IsFiniteSet(E) /\ D = E \cup {x} /\ x \notin E
  BY FS_RemoveElement
<1>2. h \in [E -> Nat] /\ \A y \in E : h[y] = f[y] /\ g[y] = h[y] /\ f[y] = h[y]
  OBVIOUS
<1>3. f \in [E \cup {x} -> Nat] /\ g \in [E \cup {x} -> Nat]
  BY <1>1
<1> HIDE DEF E, h
<1>0. Extends(f, h, E, x) /\ Extends(g, h, E, x)
  BY <1>1, <1>2, <1>3 DEF Extends
<1>4. SumFunction(f) = f[x] + SumFunction(h)
  BY <1>1, <1>0, SumExtend
<1>5. SumFunction(g) = g[x] + SumFunction(h)
  BY <1>1, <1>0, SumExtend
<1>6. SumFunction(h) \in Nat /\ f[x] \in Nat /\ g[x] \in Nat
  BY <1>1, <1>2, SumType
<1> QED BY <1>4, <1>5, <1>6

\* A part of the values, or smaller ones, sum to no more.
LEMMA SumWithin ==
  ASSUME NEW E, IsFiniteSet(E), NEW D \in SUBSET E,
         NEW f \in [D -> Nat], NEW g \in [E -> Nat],
         \A x \in D : f[x] <= g[x]
  PROVE  SumFunction(f) <= SumFunction(g)
<1>1. IsFiniteSet(D)
  BY FS_Subset
<1>2. PICK F : Sums(F, f, D) /\ SumFunction(f) = F[D]
  BY <1>1, SumExists
<1>3. PICK G : Sums(G, g, E) /\ SumFunction(g) = G[E]
  BY SumExists
<1> DEFINE Good == {s \in SUBSET E : F[s \cap D] <= G[s]}
<1>4. \A s \in SUBSET E : F[s \cap D] \in Nat /\ G[s] \in Nat
  BY <1>2, <1>3 DEF Sums
<1>5. {} \in Good
  <2>1. F[{} \cap D] = 0 /\ G[{}] = 0
    BY <1>2, <1>3 DEF Sums
  <2> QED BY <2>1
<1>6. ASSUME NEW s \in SUBSET E, s # {}, \A x \in s : s \ {x} \in Good
      PROVE  s \in Good
  <2>1. PICK x : x \in s
    BY <1>6
  <2>2. G[s] = g[x] + G[s \ {x}]
    BY <2>1, <1>3 DEF Sums
  <2>3. F[(s \ {x}) \cap D] <= G[s \ {x}]
    BY <2>1, <1>6
  <2>4. F[(s \ {x}) \cap D] \in Nat /\ G[s \ {x}] \in Nat /\ g[x] \in Nat
    BY <2>1, <1>4
  <2>5. CASE x \in D
    <3>1. F[s \cap D] = f[x] + F[(s \cap D) \ {x}]
      BY <2>1, <2>5, <1>2 DEF Sums
    <3>2. (s \cap D) \ {x} = (s \ {x}) \cap D
      OBVIOUS
    <3>3. f[x] <= g[x] /\ f[x] \in Nat
      BY <2>5
    <3>4. F[s \cap D] <= G[s]
      BY <2>2, <2>3, <2>4, <3>1, <3>2, <3>3
    <3> QED BY <3>4
  <2>6. CASE x \notin D
    <3>1. s \cap D = (s \ {x}) \cap D
      BY <2>6
    <3>2. \A a, b, d \in Nat : a <= b => a <= d + b
      OBVIOUS
    <3>3. F[(s \ {x}) \cap D] <= G[s]
      BY <2>2, <2>3, <2>4, <3>2
    <3> QED BY <3>1, <3>3
  <2> QED BY <2>5, <2>6
<1> HIDE DEF Good
<1>7. \A s \in SUBSET E : s \in Good
  BY <1>5, <1>6, SubsetInduction
<1>8. F[E \cap D] <= G[E] /\ E \cap D = D
  BY <1>7 DEF Good
<1> QED BY <1>2, <1>3, <1>8
=============================================================================
