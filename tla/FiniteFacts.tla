---------------------------- MODULE FiniteFacts -----------------------------
(***************************************************************************)
(* Facts about finite sets that the proofs share: extreme elements, and    *)
(* the sum of a function over a set (SumFunctionOnSet of the community     *)
(* modules).  The library's induction over finite sets takes an operator,  *)
(* which no prover here can supply; that strict inclusion is well-founded  *)
(* needs none, so what an induction would show of every subset is shown    *)
(* here by looking at a smallest one of which it fails.                    *)
(***************************************************************************)
EXTENDS Integers, FiniteSetsExt, FiniteSetTheorems, WellFoundedInduction, TLAPS

\* Of some subsets of a finite set one has no other properly within it.
LEMMA MinimalSubset ==
  ASSUME NEW T, IsFiniteSet(T), NEW B \in SUBSET SUBSET T, B # {}
  PROVE  \E b \in B : \A c \in B : c \subseteq b => c = b
<1> DEFINE R == StrictSubsetOrdering(T)
<1>1. IsWellFoundedOn(R, SUBSET T)
  BY FS_StrictSubsetOrderingWellFounded, FS_FiniteSubsetsOfFinite
<1>2. \E b \in B : \A c \in B : ~(<<c, b>> \in R)
  <2> HIDE DEF R
  <2> QED
    BY <1>1, WFMin
<1>3. \A b \in B, c \in B : c \subseteq b /\ c # b => <<c, b>> \in R
  BY DEF StrictSubsetOrdering
<1> HIDE DEF R
<1> QED
  BY <1>2, <1>3

\* The same of a family of subsets.
LEMMA SmallestSubset ==
  ASSUME NEW S, IsFiniteSet(S), S # {}, NEW above \in [S -> SUBSET S]
  PROVE  \E x \in S : \A y \in S : ~(above[y] \subseteq above[x] /\ above[y] # above[x])
<1> DEFINE B == {above[x] : x \in S}
<1>1. B \in SUBSET SUBSET S /\ B # {}
  OBVIOUS
<1>2. \E b \in B : \A c \in B : c \subseteq b => c = b
  <2> HIDE DEF B
  <2> QED
    BY <1>1, MinimalSubset
<1> QED
  BY <1>2

\* The largest of some numbers is one of them and no smaller than any.
LEMMA MaxOfFinite ==
  ASSUME NEW S \in SUBSET Int, IsFiniteSet(S), S # {}
  PROVE  Max(S) \in S /\ \A y \in S : Max(S) >= y
<1> DEFINE above == [x \in S |-> {h \in S : h > x}]
<1>1. \E x \in S : \A y \in S : ~(above[y] \subseteq above[x] /\ above[y] # above[x])
  <2>1. above \in [S -> SUBSET S]
    OBVIOUS
  <2>2. \A f \in [S -> SUBSET S] :
          \E x \in S : \A y \in S : ~(f[y] \subseteq f[x] /\ f[y] # f[x])
    BY SmallestSubset
  <2> QED
    BY ONLY <2>1, <2>2
<1>2. PICK x \in S : \A y \in S : ~(above[y] \subseteq above[x] /\ above[y] # above[x])
  BY <1>1
<1>3. ASSUME NEW h \in S, ~(x >= h)
      PROVE  FALSE
  <2>1. h \in Int /\ x \in Int /\ x < h
    BY <1>3
  <2>2. above[h] = {g \in S : g > h} /\ above[x] = {g \in S : g > x}
    OBVIOUS
  <2>3. h \in above[x] /\ h \notin above[h]
    BY <2>1, <2>2
  <2>4. ASSUME NEW g \in above[h] PROVE g \in above[x]
    BY <2>1, <2>2, <2>4
  <2> HIDE DEF above
  <2> QED
    BY <1>2, <2>3, <2>4
<1>4. \E m \in S : \A y \in S : m >= y
  BY <1>3
<1> QED
  BY <1>4 DEF Max

\* Of two numbers.
LEMMA OfTwo ==
  ASSUME NEW a \in Int, NEW b \in Int
  PROVE  /\ Max({a, b}) = IF a >= b THEN a ELSE b
         /\ Min({a, b}) = IF a <= b THEN a ELSE b
<1>1. PICK m \in {a, b} : m = Max({a, b}) /\ \A y \in {a, b} : m >= y
  <2>1. \E k \in {a, b} : \A y \in {a, b} : k >= y
    OBVIOUS
  <2> QED
    BY <2>1 DEF Max
<1>2. PICK n \in {a, b} : n = Min({a, b}) /\ \A y \in {a, b} : n <= y
  <2>1. \E k \in {a, b} : \A y \in {a, b} : k <= y
    OBVIOUS
  <2> QED
    BY <2>1 DEF Min
<1> QED
  BY <1>1, <1>2

----------------------------------------------------------------------------
(* Sums.  The fold of the library takes the elements of a set in the order *)
(* CHOOSE gives them.                                                      *)

Chosen(s) == CHOOSE x \in s : TRUE
Others(s) == s \ {Chosen(s)}

\* g is the recursive function the fold over T is defined with.
Folds(g, f, T) ==
  g = [s \in SUBSET T |-> IF s = {} THEN 0 ELSE f[Chosen(s)] + g[Others(s)]]

LEMMA SumIsFold ==
  ASSUME NEW f, NEW S
  PROVE  SumFunctionOnSet(f, S) = (CHOOSE g : Folds(g, f, S))[S]
BY DEF SumFunctionOnSet, FoldFunctionOnSet, MapThenFoldSet, Folds, Chosen, Others

LEMMA RestSmaller ==
  ASSUME NEW s, s # {}
  PROVE  Chosen(s) \in s /\ Others(s) \subseteq s /\ Others(s) # s
BY DEF Chosen, Others

LEMMA FoldValue ==
  ASSUME NEW g, NEW f, NEW T, Folds(g, f, T), NEW s \in SUBSET T
  PROVE  g[s] = IF s = {} THEN 0 ELSE f[Chosen(s)] + g[Others(s)]
<1> DEFINE Value(r) == IF r = {} THEN 0 ELSE f[Chosen(r)] + g[Others(r)]
<1>1. g = [r \in SUBSET T |-> Value(r)]
  BY DEF Folds
<1> HIDE DEF Value
<1>2. g[s] = Value(s)
  BY <1>1
<1> QED
  BY <1>2 DEF Value

LEMMA FoldUnique ==
  ASSUME NEW f, NEW T, IsFiniteSet(T), NEW g, Folds(g, f, T), NEW h, Folds(h, f, T)
  PROVE  \A s \in SUBSET T : g[s] = h[s]
<1> DEFINE B == {s \in SUBSET T : g[s] # h[s]}
<1> SUFFICES ASSUME B # {} PROVE FALSE
  OBVIOUS
<1>1. PICK b \in B : \A c \in B : c \subseteq b => c = b
  <2>1. B \in SUBSET SUBSET T
    OBVIOUS
  <2> HIDE DEF B
  <2> QED
    BY <2>1, MinimalSubset
<1>2. g[b] = (IF b = {} THEN 0 ELSE f[Chosen(b)] + g[Others(b)])
  BY FoldValue
<1>3. h[b] = (IF b = {} THEN 0 ELSE f[Chosen(b)] + h[Others(b)])
  BY FoldValue
<1>4. b # {}
  BY <1>2, <1>3
<1>5. Others(b) \in SUBSET T /\ Others(b) \subseteq b /\ Others(b) # b
  BY <1>4, RestSmaller
<1>6. Others(b) \notin B
  BY <1>1, <1>5
<1> QED
  BY <1>2, <1>3, <1>5, <1>6

LEMMA FoldRestricted ==
  ASSUME NEW f, NEW T, NEW g, Folds(g, f, T), NEW U \in SUBSET T
  PROVE  Folds([s \in SUBSET U |-> g[s]], f, U)
<1> DEFINE h == [s \in SUBSET U |-> g[s]]
           Value(s) == IF s = {} THEN 0 ELSE f[Chosen(s)] + h[Others(s)]
<1>1. ASSUME NEW s \in SUBSET U PROVE g[s] = Value(s)
  <2>1. g[s] = IF s = {} THEN 0 ELSE f[Chosen(s)] + g[Others(s)]
    BY FoldValue
  <2>2. CASE s = {}
    BY <2>1, <2>2
  <2>3. CASE s # {}
    <3>1. Others(s) \in SUBSET U
      BY <2>3, RestSmaller
    <3>2. h[Others(s)] = g[Others(s)]
      BY <3>1
    <3> QED
      BY <2>1, <2>3, <3>2
  <2> QED
    BY <2>2, <2>3
<1>2. h = [s \in SUBSET U |-> Value(s)]
  <2> HIDE DEF Value
  <2> QED
    BY <1>1
<1> QED
  BY <1>2 DEF Folds

\* The recursive function exists.
LEMMA FoldExists ==
  ASSUME NEW f, NEW T, IsFiniteSet(T)
  PROVE  \E g : Folds(g, f, T)
<1> DEFINE B == {r \in SUBSET T : ~ \E g : Folds(g, f, r)}
<1> SUFFICES ASSUME B # {} PROVE FALSE
  OBVIOUS
<1>1. PICK b \in B : \A c \in B : c \subseteq b => c = b
  <2>1. B \in SUBSET SUBSET T
    OBVIOUS
  <2> HIDE DEF B
  <2> QED
    BY <2>1, MinimalSubset
<1> DEFINE G(r) == CHOOSE g : Folds(g, f, r)
           Value(s) == IF s = {} THEN 0 ELSE f[Chosen(s)] + G(Others(s))[Others(s)]
           h == [s \in SUBSET b |-> Value(s)]
<1>2. ASSUME NEW r \in SUBSET b, r # b PROVE Folds(G(r), f, r)
  BY <1>1, <1>2
<1>3. ASSUME NEW r \in SUBSET b, r # b PROVE h[r] = G(r)[r]
  <2>1. Folds(G(r), f, r)
    BY <1>2, <1>3
  <2>2. G(r)[r] = IF r = {} THEN 0 ELSE f[Chosen(r)] + G(r)[Others(r)]
    <3> HIDE DEF G
    <3> QED
      BY <2>1, FoldValue
  <2>3. h[r] = Value(r)
    <3> HIDE DEF Value
    <3> QED OBVIOUS
  <2>4. CASE r = {}
    BY <2>2, <2>3, <2>4
  <2>5. CASE r # {}
    <3> DEFINE q == Others(r)
    <3>1. q \subseteq r /\ q # r
      BY <2>5, RestSmaller
    <3>2. Folds([s \in SUBSET q |-> G(r)[s]], f, q)
      <4> HIDE DEF G, q
      <4> QED
        BY <2>1, <3>1, FoldRestricted
    <3>3. Folds(G(q), f, q)
      <4> HIDE DEF G, q
      <4> QED
      BY <1>2, <3>1
    <3>4. IsFiniteSet(q)
      BY <3>1, FS_Subset
    <3>5. [s \in SUBSET q |-> G(r)[s]][q] = G(q)[q]
      <4> HIDE DEF G, q
      <4> DEFINE k == [s \in SUBSET q |-> G(r)[s]]
      <4>1. Folds(k, f, q)
        BY <3>2
      <4> HIDE DEF k
      <4>2. k[q] = G(q)[q]
        BY <4>1, <3>3, <3>4, FoldUnique
      <4> QED
        BY <4>2 DEF k
    <3>6. G(r)[q] = G(q)[q]
      <4> HIDE DEF G, q
      <4> QED
        BY <3>5
    <3> HIDE DEF G
    <3> QED
      BY <2>2, <2>3, <2>5, <3>6
  <2> QED
    BY <2>4, <2>5
<1>4. ASSUME NEW s \in SUBSET b
      PROVE  Value(s) = IF s = {} THEN 0 ELSE f[Chosen(s)] + h[Others(s)]
  <2>1. CASE s = {}
    BY <2>1
  <2>2. CASE s # {}
    <3>1. Others(s) \in SUBSET b /\ Others(s) # b
      BY <2>2, RestSmaller
    <3>2. h[Others(s)] = G(Others(s))[Others(s)]
      <4> HIDE DEF h, G
      <4> QED
        BY <3>1, <1>3
    <3> HIDE DEF h, G
    <3> QED
      BY <2>2, <3>2
  <2> QED
    BY <2>1, <2>2
<1>5. Folds(h, f, b)
  <2> DEFINE Again(s) == IF s = {} THEN 0 ELSE f[Chosen(s)] + h[Others(s)]
  <2>1. \A s \in SUBSET b : Value(s) = Again(s)
    BY <1>4
  <2>2. h = [s \in SUBSET b |-> Again(s)]
    <3> HIDE DEF Value, Again
    <3>1. [s \in SUBSET b |-> Value(s)] = [s \in SUBSET b |-> Again(s)]
      BY <2>1
    <3> QED
      BY <3>1
  <2> HIDE DEF h
  <2> QED
    BY <2>2 DEF Folds
<1> QED
  BY <1>5

\* A sum is the first of its terms and the sum of the rest.
LEMMA SumUnfolds ==
  ASSUME NEW f, NEW S, IsFiniteSet(S)
  PROVE  SumFunctionOnSet(f, S) =
           IF S = {} THEN 0 ELSE f[Chosen(S)] + SumFunctionOnSet(f, Others(S))
<1> DEFINE G(r) == CHOOSE g : Folds(g, f, r)
<1>1. ASSUME NEW r, IsFiniteSet(r) PROVE Folds(G(r), f, r)
  BY <1>1, FoldExists
<1>2. Folds(G(S), f, S) /\ SumFunctionOnSet(f, S) = G(S)[S]
  BY <1>1, SumIsFold
<1> HIDE DEF G
<1>3. G(S)[S] = IF S = {} THEN 0 ELSE f[Chosen(S)] + G(S)[Others(S)]
  BY <1>2, FoldValue
<1>4. CASE S = {}
  BY <1>2, <1>3, <1>4
<1>5. CASE S # {}
  <2> DEFINE q == Others(S)
             k == [s \in SUBSET q |-> G(S)[s]]
  <2>1. q \subseteq S /\ IsFiniteSet(q)
    BY <1>5, RestSmaller, FS_Subset
  <2> HIDE DEF q
  <2>2. Folds(k, f, q)
    BY <1>2, <2>1, FoldRestricted
  <2>3. Folds(G(q), f, q)
    BY <1>1, <2>1
  <2>4. SumFunctionOnSet(f, q) = G(q)[q]
    BY SumIsFold DEF G
  <2> HIDE DEF k
  <2>5. k[q] = G(q)[q]
    BY <2>1, <2>2, <2>3, FoldUnique
  <2>6. G(S)[q] = SumFunctionOnSet(f, q)
    BY <2>4, <2>5 DEF k
  <2> QED
    BY <1>2, <1>3, <1>5, <2>6 DEF q
<1> QED
  BY <1>4, <1>5

\* Numbers add up to a number, natural numbers to a natural one.
LEMMA SumType ==
  ASSUME NEW f, NEW N \in {Nat, Int}, NEW S, IsFiniteSet(S), \A x \in S : f[x] \in N
  PROVE  SumFunctionOnSet(f, S) \in N
<1> DEFINE B == {s \in SUBSET S : SumFunctionOnSet(f, s) \notin N}
<1> SUFFICES ASSUME B # {} PROVE FALSE
  OBVIOUS
<1>1. PICK b \in B : \A c \in B : c \subseteq b => c = b
  <2>1. B \in SUBSET SUBSET S
    OBVIOUS
  <2> HIDE DEF B
  <2> QED
    BY <2>1, MinimalSubset
<1>2. SumFunctionOnSet(f, b) =
        IF b = {} THEN 0 ELSE f[Chosen(b)] + SumFunctionOnSet(f, Others(b))
  BY SumUnfolds, FS_Subset
<1>3. b # {}
  BY <1>2
<1>4. Chosen(b) \in b /\ Others(b) \subseteq b /\ Others(b) # b
  BY <1>3, RestSmaller
<1>5. SumFunctionOnSet(f, Others(b)) \in N
  BY <1>1, <1>4
<1> QED
  BY <1>2, <1>3, <1>4, <1>5

\* Any term can be taken out of a sum.
LEMMA SumTakeOut ==
  ASSUME NEW f, NEW S, IsFiniteSet(S), \A x \in S : f[x] \in Int, NEW x \in S
  PROVE  SumFunctionOnSet(f, S) = f[x] + SumFunctionOnSet(f, S \ {x})
<1> DEFINE Sum(s) == SumFunctionOnSet(f, s)
           B == {s \in SUBSET S : \E y \in s : Sum(s) # f[y] + Sum(s \ {y})}
<1> SUFFICES ASSUME B # {} PROVE FALSE
  OBVIOUS
<1>1. PICK b \in B : \A c \in B : c \subseteq b => c = b
  <2>1. B \in SUBSET SUBSET S
    OBVIOUS
  <2> HIDE DEF B
  <2> QED
    BY <2>1, MinimalSubset
<1>2. PICK y \in b : Sum(b) # f[y] + Sum(b \ {y})
  BY <1>1
<1> DEFINE p == Chosen(b)
<1>3. p \in b /\ Others(b) = b \ {p}
  BY <1>2, RestSmaller DEF Others
<1>4. Sum(b) = f[p] + Sum(b \ {p})
  <2>1. IsFiniteSet(b) /\ b # {}
    BY <1>2, FS_Subset
  <2>2. Sum(b) = f[p] + Sum(Others(b))
    BY <2>1, SumUnfolds
  <2> QED
    BY <1>3, <2>2
<1> HIDE DEF p
<1>5. p # y
  BY <1>2, <1>4
<1>6. Sum(b \ {p}) = f[y] + Sum((b \ {p}) \ {y})
  <2>1. b \ {p} \in SUBSET S /\ b \ {p} \notin B /\ y \in b \ {p}
    BY <1>1, <1>3, <1>5
  <2> HIDE DEF Sum
  <2> QED
    BY <2>1
<1>7. Sum(b \ {y}) = f[p] + Sum((b \ {y}) \ {p})
  <2>1. b \ {y} \in SUBSET S /\ b \ {y} \notin B /\ p \in b \ {y}
    BY <1>1, <1>2, <1>3, <1>5
  <2> HIDE DEF Sum
  <2> QED
    BY <2>1
<1>8. (b \ {p}) \ {y} = (b \ {y}) \ {p}
  OBVIOUS
<1>9. Sum((b \ {p}) \ {y}) \in Int /\ f[p] \in Int /\ f[y] \in Int
  <2>1. IsFiniteSet((b \ {p}) \ {y}) /\ \A z \in (b \ {p}) \ {y} : f[z] \in Int
    BY FS_Subset
  <2> QED
    BY <1>3, <2>1, SumType
<1> HIDE DEF Sum, B
<1>10. Sum(b \ {y}) = f[p] + Sum((b \ {p}) \ {y})
  BY <1>7, <1>8
<1>11. Sum(b) = f[p] + (f[y] + Sum((b \ {p}) \ {y}))
  BY <1>4, <1>6
<1>12. f[p] + (f[y] + Sum((b \ {p}) \ {y})) = f[y] + (f[p] + Sum((b \ {p}) \ {y}))
  BY <1>9
<1> QED
  BY <1>2, <1>10, <1>11, <1>12

\* A sum depends on its terms only.
LEMMA SumSame ==
  ASSUME NEW f, NEW g, NEW S, IsFiniteSet(S), \A x \in S : f[x] = g[x]
  PROVE  SumFunctionOnSet(f, S) = SumFunctionOnSet(g, S)
<1> DEFINE B == {s \in SUBSET S : SumFunctionOnSet(f, s) # SumFunctionOnSet(g, s)}
<1> SUFFICES ASSUME B # {} PROVE FALSE
  OBVIOUS
<1>1. PICK b \in B : \A c \in B : c \subseteq b => c = b
  <2>1. B \in SUBSET SUBSET S
    OBVIOUS
  <2> HIDE DEF B
  <2> QED
    BY <2>1, MinimalSubset
<1>2. SumFunctionOnSet(f, b) =
        IF b = {} THEN 0 ELSE f[Chosen(b)] + SumFunctionOnSet(f, Others(b))
  BY SumUnfolds, FS_Subset
<1>3. SumFunctionOnSet(g, b) =
        IF b = {} THEN 0 ELSE g[Chosen(b)] + SumFunctionOnSet(g, Others(b))
  BY SumUnfolds, FS_Subset
<1>4. b # {}
  BY <1>1, <1>2, <1>3
<1>5. Chosen(b) \in b /\ Others(b) \subseteq b /\ Others(b) # b
  BY <1>4, RestSmaller
<1>6. SumFunctionOnSet(f, Others(b)) = SumFunctionOnSet(g, Others(b))
  BY <1>1, <1>5
<1> QED
  BY <1>1, <1>2, <1>3, <1>5, <1>6
=============================================================================
