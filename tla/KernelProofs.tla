---------------------------- MODULE KernelProofs ----------------------------
(***************************************************************************)
(* Proofs about the recipe kernels: laws of OracleLaws, for columns of any *)
(* length, and that the answers of the oracle obey those of the tests.     *)
(***************************************************************************)
EXTENDS OracleLaws, Recipes, FiniteFacts

----------------------------------------------------------------------------
(* Natural numbers *)

LEMMA Smallest1 ==
  ASSUME NEW S \in SUBSET Nat, S # {}
  PROVE  \E m \in S : \A k \in S : m <= k
<1>1. PICK s \in S : TRUE
  OBVIOUS
<1> DEFINE B == {-k : k \in S \cap 0..s}
<1>2. B \in SUBSET Int /\ B # {}
  BY <1>1
<1>3. IsFiniteSet(B)
  <2>1. B \subseteq (-s)..0
    BY <1>1
  <2>2. IsFiniteSet((-s)..0)
    BY <1>1, FS_Interval
  <2> HIDE DEF B
  <2> QED
    BY <2>1, <2>2, FS_Subset
<1>4. PICK b \in B : \A y \in B : b >= y
  <2> HIDE DEF B
  <2> QED
    BY <1>2, <1>3, MaxOfFinite
<1>5. PICK m \in S \cap 0..s : b = -m
  BY <1>4
<1>6. \A k \in S \cap 0..s : m <= k
  BY <1>4, <1>5
<1>7. \A k \in S : k \in 0..s \/ m <= k
  BY <1>5, <1>1
<1> QED
  BY <1>5, <1>6, <1>7

----------------------------------------------------------------------------
(* Euclid's algorithm *)

Below(N) == Nat \X (0..N)
Step(g, p) == IF p[2] = 0 THEN p[1] ELSE g[<<p[2], p[1] % p[2]>>]
Euclid(g, N) == g = [p \in Below(N) |-> Step(g, p)]

LEMMA Remainder ==
  ASSUME NEW a \in Nat, NEW b \in Nat \ {0}
  PROVE  /\ a % b \in Nat /\ a % b < b
         /\ a \div b \in Nat /\ a = b * (a \div b) + (a % b)
OBVIOUS

LEMMA EuclidStep ==
  ASSUME NEW N \in Nat, NEW g, Euclid(g, N), NEW p \in Below(N)
  PROVE  g[p] = Step(g, p)
<1> HIDE DEF Step
<1> QED
  BY DEF Euclid

LEMMA StepDown2 ==
  ASSUME NEW N \in Nat, NEW p \in Below(N), p[2] # 0
  PROVE  /\ p[1] \in Nat /\ p[2] \in Nat \ {0}
         /\ p[1] % p[2] \in Nat /\ p[1] % p[2] < p[2]
         /\ \A K \in Nat : p[1] % p[2] <= K => <<p[2], p[1] % p[2]>> \in Below(K)
<1>1. p[1] \in Nat /\ p[2] \in Nat \ {0}
  BY DEF Below
<1> QED
  BY <1>1, Remainder DEF Below

LEMMA EuclidUnique ==
  ASSUME NEW N \in Nat, NEW M \in Nat, NEW g, Euclid(g, N), NEW h, Euclid(h, M)
  PROVE  \A p \in Below(N) \cap Below(M) : g[p] = h[p]
<1> DEFINE D == {p \in Below(N) \cap Below(M) : g[p] # h[p]}
           S == {p[2] : p \in D}
<1> SUFFICES ASSUME D # {} PROVE FALSE
  OBVIOUS
<1>1. S \in SUBSET Nat /\ S # {}
  BY DEF Below
<1>2. PICK s \in S : \A k \in S : s <= k
  <2> HIDE DEF S
  <2> QED
    BY <1>1, Smallest1
<1>3. PICK p \in D : p[2] = s
  OBVIOUS
<1>4. g[p] = Step(g, p) /\ h[p] = Step(h, p)
  BY <1>3, EuclidStep
<1>5. p[2] # 0
  BY <1>3, <1>4 DEF Step
<1> DEFINE q == <<p[2], p[1] % p[2]>>
<1>6. p[1] % p[2] \in Nat /\ p[1] % p[2] < p[2] /\ p[2] \in Nat /\ p[2] <= N /\ p[2] <= M
  BY <1>3, <1>5, StepDown2 DEF Below
<1>7. q \in Below(N) \cap Below(M) /\ q[2] = p[1] % p[2]
  <2>1. p[1] % p[2] <= N /\ p[1] % p[2] <= M
    BY <1>6
  <2> QED
    BY <1>3, <1>5, <2>1, StepDown2
<1>8. q \notin D
  BY <1>1, <1>2, <1>3, <1>6, <1>7
<1> QED
  BY <1>3, <1>4, <1>5, <1>7, <1>8 DEF Step

LEMMA EuclidExists ==
  ASSUME NEW N \in Nat
  PROVE  \E g : Euclid(g, N)
<1> DEFINE B == {n \in Nat : ~ \E g : Euclid(g, n)}
<1> SUFFICES ASSUME B # {} PROVE FALSE
  OBVIOUS
<1>1. PICK n \in B : \A k \in B : n <= k
  <2>1. B \in SUBSET Nat
    OBVIOUS
  <2> HIDE DEF B
  <2> QED
    BY <2>1, Smallest1
<1>2. CASE n = 0
  <2> DEFINE g == [p \in Below(0) |-> p[1]]
  <2>1. \A p \in Below(0) : Step(g, p) = p[1]
    BY DEF Step, Below
  <2>2. g = [p \in Below(0) |-> Step(g, p)]
    <3>1. \A p \in Below(0) : g[p] = Step(g, p)
      BY <2>1
    <3> QED
      BY <2>1
  <2> HIDE DEF g
  <2> QED
    BY <1>1, <1>2, <2>2 DEF Euclid
<1>3. CASE n # 0
  <2>1. n - 1 \in Nat /\ n - 1 \notin B /\ n \in Nat
    BY <1>1, <1>3
  <2>2. PICK f : Euclid(f, n - 1)
    BY <2>1
  <2> DEFINE g == [p \in Below(n) |-> Step(f, p)]
  <2>3. \A p \in Below(n - 1) : g[p] = f[p]
    <3>1. Below(n - 1) \subseteq Below(n)
      BY <2>1 DEF Below
    <3> HIDE DEF Step
    <3> QED
      BY <2>1, <2>2, <3>1, EuclidStep
  <2>4. \A p \in Below(n) : Step(f, p) = Step(g, p)
    <3> SUFFICES ASSUME NEW p \in Below(n), p[2] # 0
                 PROVE  f[<<p[2], p[1] % p[2]>>] = g[<<p[2], p[1] % p[2]>>]
      BY DEF Step
    <3>1. <<p[2], p[1] % p[2]>> \in Below(n - 1)
      <4>1. p[1] % p[2] < p[2] /\ p[1] % p[2] \in Nat /\ p[2] <= n /\ p[2] \in Nat
        BY <2>1, StepDown2 DEF Below
      <4>2. p[1] % p[2] <= n - 1
        BY <2>1, <4>1
      <4> QED
        BY <2>1, <4>2, StepDown2
    <3> HIDE DEF g
    <3> QED
      BY <2>3, <3>1
  <2>5. g = [p \in Below(n) |-> Step(g, p)]
    <3> DEFINE h == [p \in Below(n) |-> Step(g, p)]
    <3>1. g = h
      <4> HIDE DEF Step
      <4> QED
        BY <2>4
    <3> QED
      BY <3>1
  <2> HIDE DEF g
  <2> QED
    BY <1>1, <2>5 DEF Euclid
<1> QED
  BY <1>2, <1>3

\* The recursion of Gcd has a solution, so Gcd is one.
LEMMA GcdUnfolds ==
  \A a, b \in Nat : Gcd[<<a, b>>] = IF b = 0 THEN a ELSE Gcd[<<b, a % b>>]
<1> DEFINE E(n) == CHOOSE g : Euclid(g, n)
           G == [p \in Nat \X Nat |-> E(p[2])[p]]
<1>1. \A n \in Nat : Euclid(E(n), n)
  BY EuclidExists
<1>2. ASSUME NEW p \in Nat \X Nat PROVE G[p] = Step(G, p)
  <2> DEFINE n == p[2]
             q == <<p[2], p[1] % p[2]>>
  <2>1. n \in Nat /\ p \in Below(n)
    BY DEF Below
  <2>2. G[p] = E(n)[p]
    <3> HIDE DEF E
    <3> QED OBVIOUS
  <2>3. E(n)[p] = Step(E(n), p)
    <3> HIDE DEF E, n
    <3> QED
      BY <1>1, <2>1, EuclidStep
  <2>4. CASE p[2] = 0
    BY <2>2, <2>3, <2>4 DEF Step
  <2>5. CASE p[2] # 0
    <3>1. /\ q[2] = p[1] % p[2] /\ q[2] \in Nat /\ q[2] < n
          /\ q \in Below(q[2]) /\ q \in Below(n) /\ q \in Nat \X Nat
      <4>1. p[1] \in Nat /\ p[2] \in Nat \ {0}
        BY <2>5
      <4>2. p[1] % p[2] \in Nat /\ p[1] % p[2] < p[2]
        BY <4>1, Remainder
      <4> QED
        BY <4>1, <4>2 DEF Below
    <3>2. G[q] = E(q[2])[q]
      <4> HIDE DEF E, q
      <4> QED
        BY <3>1
    <3>3. E(q[2])[q] = E(n)[q]
      <4> HIDE DEF E, q, n
      <4> QED
        BY <1>1, <2>1, <3>1, EuclidUnique
    <3> HIDE DEF E, G
    <3> QED
      BY <2>2, <2>3, <2>5, <3>2, <3>3 DEF Step
  <2> QED
    BY <2>4, <2>5
<1> HIDE DEF G
<1> DEFINE Solves(g) == g = [p \in Nat \X Nat |-> IF p[2] = 0 THEN p[1] ELSE g[<<p[2], p[1] % p[2]>>]]
<1>3. Solves(G)
  <2>1. G = [p \in Nat \X Nat |-> G[p]]
    BY DEF G
  <2> QED
    BY <1>2, <2>1 DEF Step
<1>4. Solves(Gcd)
  <2>1. Gcd = CHOOSE g : Solves(g)
    BY DEF Gcd
  <2> HIDE DEF Solves
  <2> QED
    BY <1>3, <2>1
<1> QED
  BY <1>4

\* The result divides both numbers.
LEMMA GcdDivides ==
  ASSUME NEW a \in Nat, NEW b \in Nat, a # 0 \/ b # 0
  PROVE  /\ Gcd[<<a, b>>] \in Nat \ {0}
         /\ \E x, y \in Nat : a = x * Gcd[<<a, b>>] /\ b = y * Gcd[<<a, b>>]
<1> DEFINE Divides(g, c, d) ==
             g \in Nat \ {0} /\ \E x, y \in Nat : c = x * g /\ d = y * g
           B == {n \in Nat : \E c \in Nat : (c # 0 \/ n # 0) /\ ~Divides(Gcd[<<c, n>>], c, n)}
<1> SUFFICES ASSUME B # {} PROVE FALSE
  OBVIOUS
<1>1. PICK n \in B : \A k \in B : n <= k
  <2>1. B \in SUBSET Nat
    OBVIOUS
  <2> HIDE DEF B
  <2> QED
    BY <2>1, Smallest1
<1>2. PICK c \in Nat : (c # 0 \/ n # 0) /\ ~Divides(Gcd[<<c, n>>], c, n)
  BY <1>1
<1>3. n # 0
  <2>1. n = 0 => Gcd[<<c, n>>] = c
    BY GcdUnfolds
  <2>2. n = 0 => c = 1 * c /\ n = 0 * c
    BY <1>2
  <2> QED
    BY <1>2, <2>1, <2>2
<1> DEFINE r == c % n
           g == Gcd[<<n, r>>]
<1>4. r \in Nat /\ r < n /\ c \div n \in Nat /\ c = n * (c \div n) + r /\ n \in Nat
  BY <1>3, Remainder
<1>5. Divides(g, n, r)
  <2>1. r \notin B
    <3> HIDE DEF B, r
    <3> QED
      BY <1>1, <1>4
  <2> QED
    BY <1>3, <1>4, <2>1
<1>6. PICK x, y \in Nat : n = x * g /\ r = y * g
  BY <1>5
<1>7. Gcd[<<c, n>>] = g
  BY <1>3, <1>4, GcdUnfolds
<1>8. c = (x * (c \div n) + y) * g
  <2> DEFINE q == c \div n
  <2>1. g \in Nat /\ q \in Nat
    BY <1>4, <1>5
  <2>2. (x * q + y) * g = (x * g) * q + y * g
    <3> HIDE DEF g, q
    <3> QED
      BY <2>1
  <2> HIDE DEF g, q
  <2> QED
    BY <1>4, <1>6, <2>2 DEF q
<1>9. x * (c \div n) + y \in Nat
  BY <1>4
<1> HIDE DEF r, g
<1> QED
  BY <1>2, <1>5, <1>6, <1>7, <1>8, <1>9

\* A common factor goes through the algorithm.
LEMMA RemainderScales ==
  ASSUME NEW a \in Nat, NEW b \in Nat \ {0}, NEW k \in Nat \ {0}
  PROVE  (k * a) % (k * b) = k * (a % b)
<1> DEFINE q == a \div b
           r == a % b
<1>1. q \in Nat /\ r \in Nat /\ r < b /\ a = b * q + r
  BY Remainder
<1>2. k * a = (k * b) * q + k * r
  <2> HIDE DEF q, r
  <2>1. k * (b * q + r) = (k * b) * q + k * r
    BY <1>1
  <2> QED
    BY <1>1, <2>1
<1>3. k * r < k * b /\ k * r \in Nat /\ k * b \in Nat \ {0} /\ k * a \in Nat
  <2> HIDE DEF q, r
  <2> QED
    BY <1>1
<1> HIDE DEF q, r
<1>4. \A m \in Nat, d \in Nat \ {0}, s, t \in Nat : m = d * s + t /\ t < d => m % d = t
  OBVIOUS
<1>5. (k * a) % (k * b) = k * r
  BY <1>1, <1>2, <1>3, <1>4
<1> QED
  BY <1>5 DEF r

LEMMA GcdScales ==
  ASSUME NEW a \in Nat, NEW b \in Nat, NEW k \in Nat \ {0}
  PROVE  Gcd[<<k * a, k * b>>] = k * Gcd[<<a, b>>]
<1> DEFINE B == {n \in Nat : \E c \in Nat : Gcd[<<k * c, k * n>>] # k * Gcd[<<c, n>>]}
<1> SUFFICES ASSUME B # {} PROVE FALSE
  OBVIOUS
<1>1. PICK n \in B : \A m \in B : n <= m
  <2>1. B \in SUBSET Nat
    OBVIOUS
  <2> HIDE DEF B
  <2> QED
    BY <2>1, Smallest1
<1>2. PICK c \in Nat : Gcd[<<k * c, k * n>>] # k * Gcd[<<c, n>>]
  BY <1>1
<1>3. k * c \in Nat /\ k * n \in Nat /\ (n # 0 => k * n # 0) /\ (n = 0 => k * n = 0)
  BY <1>1
<1>4. n # 0
  BY <1>2, <1>3, GcdUnfolds
<1> DEFINE r == c % n
<1>5. r \in Nat /\ r < n /\ n \in Nat
  BY <1>4, Remainder
<1>6. Gcd[<<k * n, k * r>>] = k * Gcd[<<n, r>>]
  <2>1. r \notin B
    <3> HIDE DEF B, r
    <3> QED
      BY <1>1, <1>5
  <2> HIDE DEF r
  <2> QED
    BY <1>5, <2>1
<1>7. Gcd[<<c, n>>] = Gcd[<<n, r>>]
  BY <1>4, GcdUnfolds
<1>8. Gcd[<<k * c, k * n>>] = Gcd[<<k * n, (k * c) % (k * n)>>]
  BY <1>3, <1>4, GcdUnfolds
<1>9. (k * c) % (k * n) = k * r
  BY <1>4, RemainderScales
<1> HIDE DEF r
<1> QED
  BY <1>2, <1>6, <1>7, <1>8, <1>9

----------------------------------------------------------------------------
(* Fractions *)

LEMMA Quotient ==
  ASSUME NEW z \in Int, NEW g \in Nat \ {0}
  PROVE  (z * g) \div g = z
OBVIOUS

\* What Over leaves of its operands when it divides them by their factor.
LEMMA OverParts ==
  ASSUME NEW a \in Int, NEW b \in Int \ {0}
  PROVE  LET g == Gcd[<<Magnitude(a), Magnitude(b)>>]
             s == IF b < 0 THEN -1 ELSE 1
         IN  /\ g \in Nat \ {0}
             /\ \E z \in Int, y \in Nat \ {0} :
                  Over(a, b) = [n |-> z, d |-> y] /\ s * a = z * g /\ s * b = y * g
<1> DEFINE A == Magnitude(a)
           B == Magnitude(b)
           g == Gcd[<<A, B>>]
           s == IF b < 0 THEN -1 ELSE 1
<1>1. A \in Nat /\ B \in Nat \ {0} /\ s * b = B /\ (s * a = A \/ s * a = -A)
  BY DEF Magnitude
<1>2. g \in Nat \ {0} /\ \E x, y \in Nat : A = x * g /\ B = y * g
  <2> HIDE DEF A, B
  <2> QED
    BY <1>1, GcdDivides
<1>3. PICK x, y \in Nat : A = x * g /\ B = y * g
  BY <1>2
<1>4. PICK z \in Int : s * a = z * g
  <2> HIDE DEF A, B, g, s
  <2>1. CASE s * a = A
    BY <1>3, <2>1
  <2>2. CASE s * a = -A
    <3>1. -A = (-x) * g
      BY <1>1, <1>2, <1>3
    <3> QED
      BY <2>2, <3>1
  <2> QED
    BY <1>1, <2>1, <2>2
<1>5. (s * a) \div g = z /\ B \div g = y
  <2> HIDE DEF A, B, g, s
  <2> QED
    BY <1>2, <1>3, <1>4, Quotient
<1>6. y # 0
  <2> HIDE DEF A, B, g
  <2> QED
    BY <1>1, <1>2, <1>3
<1>7. Over(a, b) = [n |-> (s * a) \div g, d |-> B \div g]
  BY DEF Over
<1> HIDE DEF A, g, s
<1>8. Over(a, b) = [n |-> z, d |-> y] /\ s * b = y * g
  <2> HIDE DEF B
  <2> QED
    BY <1>1, <1>3, <1>5, <1>7
<1> QED
  BY <1>2, <1>4, <1>6, <1>8 DEF A, g, s

\* A quotient is defined unless the divisor is zero, and is what it says.
LEMMA OverValue ==
  ASSUME NEW a \in Int, NEW b \in Int \ {0}
  PROVE  /\ Over(a, b).n \in Int /\ Over(a, b).d \in Nat \ {0}
         /\ Over(a, b).n * b = a * Over(a, b).d
<1> DEFINE g == Gcd[<<Magnitude(a), Magnitude(b)>>]
           s == IF b < 0 THEN -1 ELSE 1
<1>1. g \in Nat \ {0}
  BY OverParts
<1>2. PICK z \in Int, y \in Nat \ {0} :
        Over(a, b) = [n |-> z, d |-> y] /\ s * a = z * g /\ s * b = y * g
  BY OverParts
<1>3. z * b = a * y
  <2>1. s = 1 \/ s = -1
    OBVIOUS
  <2> HIDE DEF g, s
  <2>2. (s * a) * y = (s * b) * z
    <3>1. (z * g) * y = (y * g) * z
      BY <1>1
    <3> QED
      BY <1>2, <3>1
  <2> QED
    BY <2>1, <2>2
<1> QED
  BY <1>2, <1>3

\* A common factor of the operands is no part of the quotient.
LEMMA OverScales ==
  ASSUME NEW a \in Int, NEW b \in Int \ {0}, NEW k \in Int \ {0}
  PROVE  Over(k * a, k * b) = Over(a, b)
<1> DEFINE A == Magnitude(a)
           B == Magnitude(b)
           K == Magnitude(k)
           g == Gcd[<<A, B>>]
           s == IF b < 0 THEN -1 ELSE 1
           t == IF k * b < 0 THEN -1 ELSE 1
<1>1. g \in Nat \ {0}
  BY OverParts
<1>2. PICK z \in Int, y \in Nat \ {0} :
        Over(a, b) = [n |-> z, d |-> y] /\ s * a = z * g /\ s * b = y * g
  BY OverParts
<1>3. A \in Nat /\ B \in Nat /\ K \in Nat \ {0}
  BY DEF Magnitude
<1>4. Magnitude(k * a) = K * A /\ Magnitude(k * b) = K * B
  BY DEF Magnitude
<1>5. Gcd[<<Magnitude(k * a), Magnitude(k * b)>>] = K * g
  <2> HIDE DEF A, B, K
  <2> QED
    BY <1>3, <1>4, GcdScales
<1>6. t * (k * a) = K * (s * a) /\ K * B = K * (s * b) /\ k * b # 0
  BY DEF Magnitude
<1>7. Over(k * a, k * b) = [n |-> (t * (k * a)) \div (K * g), d |-> (K * B) \div (K * g)]
  <2> HIDE DEF A, B, K, g
  <2> QED
    BY <1>4, <1>5, <1>6 DEF Over
<1> HIDE DEF A, B, K, g, s, t
<1>8. K * (s * a) = z * (K * g) /\ K * (s * b) = y * (K * g) /\ K * g \in Nat \ {0}
  BY <1>1, <1>2, <1>3
<1>9. (t * (k * a)) \div (K * g) = z /\ (K * B) \div (K * g) = y
  BY <1>6, <1>8, Quotient
<1> QED
  BY <1>2, <1>7, <1>9

\* Two quotients are equal when cross-multiplication says so: fractions in
\* lowest terms are numbers.
LEMMA OverEqual ==
  ASSUME NEW a \in Int, NEW b \in Int \ {0}, NEW c \in Int, NEW d \in Int \ {0},
         a * d = c * b
  PROVE  Over(a, b) = Over(c, d)
<1>1. Over(d * a, d * b) = Over(a, b) /\ Over(b * c, b * d) = Over(c, d)
  BY OverScales
<1>2. d * a = b * c /\ d * b = b * d
  OBVIOUS
<1> QED
  BY <1>1, <1>2

LEMMA WholeNumber ==
  ASSUME NEW k \in Int
  PROVE  Q(k) = Over(k, 1)
<1> DEFINE m == Magnitude(k)
<1>1. m \in Nat /\ m % 1 = 0 /\ Magnitude(1) = 1
  BY DEF Magnitude
<1> HIDE DEF m
<1>2. Gcd[<<m, 1>>] = 1
  <2>1. Gcd[<<m, 1>>] = Gcd[<<1, m % 1>>]
    BY <1>1, GcdUnfolds
  <2>2. Gcd[<<1, 0>>] = 1
    BY GcdUnfolds
  <2> QED
    BY <1>1, <2>1, <2>2
<1>3. Over(k, 1) = [n |-> (1 * k) \div 1, d |-> 1 \div 1]
  BY <1>1, <1>2 DEF Over, m
<1> QED
  BY <1>3 DEF Q

LEMMA OverNumber ==
  ASSUME NEW a \in Int, NEW b \in Int
  PROVE  /\ Over(a, b).n \in Int /\ Over(a, b).d \in Nat
         /\ Undefined(Over(a, b)) <=> b = 0
         /\ b = 0 => Over(a, b) = NaN
<1>1. CASE b = 0
  BY <1>1 DEF Over, NaN, Undefined
<1>2. CASE b # 0
  BY <1>2, OverValue DEF Undefined
<1> QED
  BY <1>1, <1>2

\* The arithmetic of the kernels is that of fractions.
LEMMA OverPlus ==
  ASSUME NEW a \in Int, NEW b \in Int \ {0}, NEW c \in Int, NEW d \in Int \ {0}
  PROVE  /\ Over(a, b) ++ Over(c, d) = Over(a * d + c * b, b * d)
         /\ Over(a, b) -- Over(c, d) = Over(a * d - c * b, b * d)
<1> DEFINE x == Over(a, b)
           y == Over(c, d)
<1>1. /\ x.n \in Int /\ x.d \in Nat \ {0} /\ x.n * b = a * x.d
      /\ y.n \in Int /\ y.d \in Nat \ {0} /\ y.n * d = c * y.d
  BY OverValue
<1> HIDE DEF x, y
<1>2. x.d * y.d \in Int \ {0} /\ b * d \in Int \ {0}
  BY <1>1
<1>3. (x.n * y.d) * (b * d) = (a * d) * (x.d * y.d)
  <2>1. (x.n * y.d) * (b * d) = (x.n * b) * (y.d * d)
    BY <1>1
  <2>2. (a * d) * (x.d * y.d) = (a * x.d) * (y.d * d)
    BY <1>1
  <2> QED
    BY <1>1, <2>1, <2>2
<1>4. (y.n * x.d) * (b * d) = (c * b) * (x.d * y.d)
  <2>1. (y.n * x.d) * (b * d) = (y.n * d) * (x.d * b)
    BY <1>1
  <2>2. (c * b) * (x.d * y.d) = (c * y.d) * (x.d * b)
    BY <1>1
  <2> QED
    BY <1>1, <2>1, <2>2
<1>5. \A u, v, w, z, e \in Int, f \in Int :
        u * f = w * e /\ v * f = z * e
          => (u + v) * f = (w + z) * e /\ (u - v) * f = (w - z) * e
  OBVIOUS
<1>6. /\ (x.n * y.d + y.n * x.d) * (b * d) = (a * d + c * b) * (x.d * y.d)
      /\ (x.n * y.d - y.n * x.d) * (b * d) = (a * d - c * b) * (x.d * y.d)
  <2> DEFINE u == x.n * y.d
             v == y.n * x.d
             w == a * d
             z == c * b
             e == x.d * y.d
             f == b * d
  <2>1. u \in Int /\ v \in Int /\ w \in Int /\ z \in Int /\ e \in Int /\ f \in Int
    BY <1>1
  <2>2. u * f = w * e /\ v * f = z * e
    BY <1>3, <1>4
  <2> HIDE DEF u, v, w, z, e, f
  <2>3. (u + v) * f = (w + z) * e /\ (u - v) * f = (w - z) * e
    BY <1>5, <2>1, <2>2
  <2> QED
    BY <2>3 DEF u, v, w, z, e, f
<1>7. /\ Over(x.n * y.d + y.n * x.d, x.d * y.d) = Over(a * d + c * b, b * d)
      /\ Over(x.n * y.d - y.n * x.d, x.d * y.d) = Over(a * d - c * b, b * d)
  <2>1. /\ x.n * y.d + y.n * x.d \in Int /\ x.n * y.d - y.n * x.d \in Int
        /\ a * d + c * b \in Int /\ a * d - c * b \in Int
    BY <1>1
  <2> QED
    BY <1>2, <1>6, <2>1, OverEqual
<1> QED
  BY <1>7 DEF ++, --, x, y

LEMMA OverTimes ==
  ASSUME NEW a \in Int, NEW b \in Int \ {0}, NEW c \in Int, NEW d \in Int \ {0}
  PROVE  Over(a, b) ** Over(c, d) = Over(a * c, b * d)
<1> DEFINE x == Over(a, b)
           y == Over(c, d)
<1>1. /\ x.n \in Int /\ x.d \in Nat \ {0} /\ x.n * b = a * x.d
      /\ y.n \in Int /\ y.d \in Nat \ {0} /\ y.n * d = c * y.d
  BY OverValue
<1> HIDE DEF x, y
<1>2. (x.n * y.n) * (b * d) = (a * c) * (x.d * y.d)
  <2>1. (x.n * y.n) * (b * d) = (x.n * b) * (y.n * d)
    BY <1>1
  <2>2. (a * c) * (x.d * y.d) = (a * x.d) * (c * y.d)
    BY <1>1
  <2> QED
    BY <1>1, <2>1, <2>2
<1>3. x.n * y.n \in Int /\ a * c \in Int /\ x.d * y.d \in Int \ {0} /\ b * d \in Int \ {0}
  BY <1>1
<1>4. Over(x.n * y.n, x.d * y.d) = Over(a * c, b * d)
  BY <1>2, <1>3, OverEqual
<1> QED
  BY <1>4 DEF **, x, y

LEMMA OverBy ==
  ASSUME NEW a \in Int, NEW b \in Int \ {0}, NEW c \in Int, NEW d \in Int \ {0}
  PROVE  Over(a, b) // Over(c, d) = IF c = 0 THEN NaN ELSE Over(a * d, b * c)
<1> DEFINE x == Over(a, b)
           y == Over(c, d)
<1>1. /\ x.n \in Int /\ x.d \in Nat \ {0} /\ x.n * b = a * x.d
      /\ y.n \in Int /\ y.d \in Nat \ {0} /\ y.n * d = c * y.d
  BY OverValue
<1> HIDE DEF x, y
<1>2. x // y = Over(x.n * y.d, x.d * y.n)
  BY <1>1 DEF //, Undefined
<1>3. CASE c = 0
  <2>1. y.n = 0
    <3>1. y.n * d = 0
      BY <1>1, <1>3
    <3>2. \A p \in Int, q \in Int \ {0} : p * q = 0 => p = 0
      OBVIOUS
    <3> QED
      BY <1>1, <3>1, <3>2
  <2>2. x.d * y.n = 0
    BY <1>1, <2>1
  <2> QED
    BY <1>2, <1>3, <2>2 DEF Over, x, y
<1>4. CASE c # 0
  <2>1. y.n # 0
    BY <1>1, <1>4
  <2>2. (x.n * y.d) * (b * c) = (a * d) * (x.d * y.n)
    <3>1. (x.n * y.d) * (b * c) = (x.n * b) * (c * y.d)
      BY <1>1
    <3>2. (a * d) * (x.d * y.n) = (a * x.d) * (y.n * d)
      BY <1>1
    <3> QED
      BY <1>1, <3>1, <3>2
  <2>3. x.n * y.d \in Int /\ a * d \in Int /\ x.d * y.n \in Int \ {0} /\ b * c \in Int \ {0}
    BY <1>1, <1>4, <2>1
  <2>4. Over(x.n * y.d, x.d * y.n) = Over(a * d, b * c)
    BY <2>2, <2>3, OverEqual
  <2> QED
    BY <1>2, <1>4, <2>4 DEF x, y
<1> QED
  BY <1>3, <1>4

----------------------------------------------------------------------------
(* The rates of one confusion table *)

LEMMA Complement ==
  ASSUME NEW a \in Nat, NEW b \in Nat
  PROVE  Same(Over(a, a + b), One -- Over(b, b + a))
<1>1. CASE a + b = 0
  BY <1>1, OverNumber DEF Same
<1>2. CASE a + b # 0
  <2>1. One -- Over(b, b + a) = Over(1 * (b + a) - b * 1, 1 * (b + a))
    BY <1>2, WholeNumber, OverPlus DEF One
  <2>2. Over(1 * (b + a) - b * 1, 1 * (b + a)) = Over(a, a + b)
    BY <1>2
  <2> QED
    BY <2>1, <2>2 DEF Same
<1> QED
  BY <1>1, <1>2

\* A product is undefined when a factor is.
LEMMA UndefinedTimes ==
  ASSUME NEW a \in Int, NEW b \in Int, NEW c \in Int, NEW d \in Int, b = 0 \/ d = 0
  PROVE  /\ Over(a, b) ** Over(c, d) = NaN
         /\ Over(a, b) ++ Over(c, d) = NaN
         /\ Over(a, b) -- Over(c, d) = NaN
         /\ Over(a, b) // Over(c, d) = NaN
<1> DEFINE x == Over(a, b)
           y == Over(c, d)
<1>1. /\ x.n \in Int /\ x.d \in Nat /\ y.n \in Int /\ y.d \in Nat
      /\ Undefined(x) \/ Undefined(y)
  BY OverNumber
<1> HIDE DEF x, y
<1>2. x.d * y.d = 0
  BY <1>1 DEF Undefined
<1>3. \A u : Over(u, 0) = NaN
  BY DEF Over
<1>4. x ** y = NaN /\ x ++ y = NaN /\ x -- y = NaN /\ x // y = NaN
  BY <1>1, <1>2, <1>3 DEF **, ++, --, //
<1> QED
  BY <1>4 DEF x, y

LEMMA HarmonicOfThreat ==
  ASSUME NEW c \in [tp : Nat, fp : Nat, fn : Nat, tn : Nat]
  PROVE  Same(f1(c), (Q(2) ** threat_score(c)) // (One ++ threat_score(c)))
<1> DEFINE t == c.tp
           p == c.tp + c.fp
           r == c.tp + c.fn
           u == c.tp + c.fn + c.fp
<1>1. t \in Nat /\ p \in Nat /\ r \in Nat /\ u \in Nat /\ p + r = t + u
      /\ (t # 0 => p # 0 /\ r # 0 /\ u # 0)
  OBVIOUS
<1>2. /\ f1(c) = (Q(2) ** Over(t, p) ** Over(t, r)) // (Over(t, p) ++ Over(t, r))
      /\ threat_score(c) = Over(t, u)
  BY DEF f1, precision, recall, threat_score
<1> HIDE DEF t, p, r, u
<1>3. CASE p = 0 \/ r = 0
  <2>1. Over(t, p) ++ Over(t, r) = NaN
    BY <1>1, <1>3, UndefinedTimes
  <2>2. \A x : x // NaN = NaN
    BY DEF //, Undefined, NaN
  <2> QED
    BY <1>2, <2>1, <2>2 DEF Same, Undefined, NaN
<1>4. CASE p # 0 /\ r # 0
  <2>0. p * r \in Int \ {0} /\ 1 * p \in Int \ {0} /\ 2 * t \in Int
    BY <1>1, <1>4
  <2>1. Q(2) ** Over(t, p) = Over(2 * t, 1 * p)
    BY <1>1, <1>4, WholeNumber, OverTimes
  <2>2. Over(2 * t, 1 * p) ** Over(t, r) = Over((2 * t) * t, (1 * p) * r)
    BY <1>1, <1>4, <2>0, OverTimes
  <2>3. Over(t, p) ++ Over(t, r) = Over(t * r + t * p, p * r)
    BY <1>1, <1>4, OverPlus
  <2>4. /\ (2 * t) * t \in Int /\ (1 * p) * r \in Int \ {0}
        /\ t * r + t * p \in Int /\ p * r \in Int \ {0}
    BY <1>1, <1>4
  <2>5. f1(c) = IF t * r + t * p = 0 THEN NaN
                ELSE Over(((2 * t) * t) * (p * r), ((1 * p) * r) * (t * r + t * p))
    <3> DEFINE i == (2 * t) * t
               j == (1 * p) * r
               k == t * r + t * p
               l == p * r
    <3>1. i \in Int /\ j \in Int \ {0} /\ k \in Int /\ l \in Int \ {0}
      BY <2>4
    <3> HIDE DEF i, j, k, l
    <3>2. Over(i, j) // Over(k, l) = IF k = 0 THEN NaN ELSE Over(i * l, j * k)
      BY <3>1, OverBy
    <3>3. f1(c) = Over(i, j) // Over(k, l)
      BY <1>2, <2>1, <2>2, <2>3 DEF i, j, k, l
    <3> QED
      BY <3>2, <3>3 DEF i, j, k, l
  <2>6. CASE t = 0
    <3>1. t * r + t * p = 0
      BY <1>1, <2>6
    <3> QED
      BY <2>5, <3>1 DEF Same, Undefined, NaN
  <2>7. CASE t # 0
    <3>1. t * r + t * p = t * (t + u)
      <4>1. t * r + t * p = t * (p + r)
        BY <1>1
      <4> QED
        BY <1>1, <4>1
    <3>2. t * (t + u) \in Int \ {0} /\ t + u \in Int \ {0} /\ u \in Int \ {0}
      BY <1>1, <2>7
    <3>3. f1(c) = Over(((2 * t) * t) * (p * r), ((1 * p) * r) * (t * (t + u)))
      BY <2>5, <3>1, <3>2
    <3>4. Over(((2 * t) * t) * (p * r), ((1 * p) * r) * (t * (t + u))) = Over(2 * t, t + u)
      <4> DEFINE w == p * r
                 s == t + u
      <4>1. ((2 * t) * t) * w \in Int /\ ((1 * p) * r) * (t * s) \in Int \ {0}
        BY <1>1, <1>4, <2>0, <3>2
      <4>2. (((2 * t) * t) * w) * s = (2 * t) * (((1 * p) * r) * (t * s))
        <5>1. (1 * p) * r = w
          BY <1>1
        <5>2. w \in Int /\ s \in Int /\ t \in Int
          BY <1>1, <2>0
        <5> HIDE DEF w, s
        <5>3. (((2 * t) * t) * w) * s = (2 * t) * (w * (t * s))
          BY <5>2
        <5> QED
          BY <5>1, <5>3
      <4> DEFINE i == ((2 * t) * t) * w
                 j == ((1 * p) * r) * (t * s)
                 k == 2 * t
      <4>3. i \in Int /\ j \in Int \ {0} /\ k \in Int /\ s \in Int \ {0} /\ i * s = k * j
        BY <2>0, <3>2, <4>1, <4>2
      <4> HIDE DEF i, j, k, s, w
      <4>4. Over(i, j) = Over(k, s)
        BY <4>3, OverEqual
      <4> QED
        BY <4>4 DEF i, j, k, s, w
    <3>5. Q(2) ** Over(t, u) = Over(2 * t, 1 * u) /\ One ++ Over(t, u) = Over(1 * u + t * 1, 1 * u)
      <4>1. Q(2) = Over(2, 1) /\ One = Over(1, 1)
        BY WholeNumber DEF One
      <4>2. Over(2, 1) ** Over(t, u) = Over(2 * t, 1 * u)
        BY <1>1, <3>2, OverTimes
      <4>3. Over(1, 1) ++ Over(t, u) = Over(1 * u + t * 1, 1 * u)
        BY <1>1, <3>2, OverPlus
      <4> QED
        BY <4>1, <4>2, <4>3
    <3>6. 1 * u + t * 1 = t + u /\ 1 * u = u
      BY <1>1
    <3>7. Over(2 * t, u) // Over(t + u, u) = Over((2 * t) * u, u * (t + u))
      <4> DEFINE k == 2 * t
                 s == t + u
      <4>1. k \in Int /\ s \in Int \ {0} /\ u \in Int \ {0}
        BY <2>0, <3>2
      <4> HIDE DEF k, s
      <4>2. Over(k, u) // Over(s, u) = Over(k * u, u * s)
        BY <4>1, OverBy
      <4> QED
        BY <4>2 DEF k, s
    <3>8. Over((2 * t) * u, u * (t + u)) = Over(2 * t, t + u)
      <4>1. (2 * t) * u = u * (2 * t)
        BY <1>1
      <4> QED
        BY <2>0, <3>2, <4>1, OverScales
    <3> QED
      BY <1>2, <3>3, <3>4, <3>5, <3>6, <3>7, <3>8 DEF Same
  <2> QED
    BY <2>6, <2>7
<1> QED
  BY <1>3, <1>4

LEMMA OddsOfLikelihoods ==
  ASSUME NEW c \in [tp : Nat, fp : Nat, fn : Nat, tn : Nat]
  PROVE  Same(diagnostic_odds_ratio(c),
              positive_likelihood_ratio(c) // negative_likelihood_ratio(c))
<1> DEFINE a == c.tp
           b == c.fp
           e == c.fn
           f == c.tn
           P == a + e
           N == b + f
<1>1. a \in Nat /\ b \in Nat /\ e \in Nat /\ f \in Nat
  OBVIOUS
<1>2. /\ diagnostic_odds_ratio(c) = Over(a * f, b * e)
      /\ positive_likelihood_ratio(c) = Over(a, P) // Over(b, N)
      /\ negative_likelihood_ratio(c) = Over(e, P) // Over(f, N)
  BY <1>1 DEF diagnostic_odds_ratio, positive_likelihood_ratio, negative_likelihood_ratio,
              recall, false_positive_rate, false_negative_rate, specificity
<1> HIDE DEF a, b, e, f
<1>3. CASE b = 0 \/ e = 0
  <2>1. b * e = 0
    BY <1>1, <1>3
  <2>2. \A u : Over(u, 0) = NaN
    BY DEF Over
  <2> QED
    BY <1>2, <2>1, <2>2 DEF Same, Undefined, NaN
<1>4. CASE b # 0 /\ e # 0
  <2>1. P \in Nat \ {0} /\ N \in Nat \ {0}
    BY <1>1, <1>4
  <2> HIDE DEF P, N
  <2>2. positive_likelihood_ratio(c) = Over(a * N, P * b)
    BY <1>1, <1>2, <1>4, <2>1, OverBy
  <2>3. negative_likelihood_ratio(c) = IF f = 0 THEN NaN ELSE Over(e * N, P * f)
    BY <1>1, <1>2, <1>4, <2>1, OverBy
  <2>4. CASE f = 0
    <3>1. \A x : x // NaN = NaN
      BY DEF //, Undefined, NaN
    <3> QED
      BY <2>3, <2>4, <3>1 DEF Same, Undefined, NaN
  <2>5. CASE f # 0
    <3>1. /\ a * N \in Int /\ P * b \in Int \ {0} /\ e * N \in Int \ {0} /\ P * f \in Int \ {0}
          /\ a * f \in Int /\ b * e \in Int \ {0}
      BY <1>1, <1>4, <2>1, <2>5
    <3>2. Over(a * N, P * b) // Over(e * N, P * f) = Over((a * N) * (P * f), (P * b) * (e * N))
      <4> DEFINE i == a * N
                 j == P * b
                 k == e * N
                 l == P * f
      <4>1. i \in Int /\ j \in Int \ {0} /\ k \in Int \ {0} /\ l \in Int \ {0}
        BY <3>1
      <4> HIDE DEF i, j, k, l
      <4>2. Over(i, j) // Over(k, l) = Over(i * l, j * k)
        BY <4>1, OverBy
      <4> QED
        BY <4>2 DEF i, j, k, l
    <3>3. Over((a * N) * (P * f), (P * b) * (e * N)) = Over(a * f, b * e)
      <4>1. (a * N) * (P * f) = (P * N) * (a * f) /\ (P * b) * (e * N) = (P * N) * (b * e)
        BY <1>1, <2>1
      <4> DEFINE i == a * f
                 j == b * e
                 k == P * N
      <4>2. i \in Int /\ j \in Int \ {0} /\ k \in Int \ {0}
        BY <2>1, <3>1
      <4> HIDE DEF i, j, k
      <4>3. Over(k * i, k * j) = Over(i, j)
        BY <4>2, OverScales
      <4> QED
        BY <4>1, <4>3 DEF i, j, k
    <3> QED
      BY <1>2, <2>2, <2>3, <2>5, <3>2, <3>3 DEF Same
  <2> QED
    BY <2>4, <2>5
<1> QED
  BY <1>3, <1>4

LEMMA Informed ==
  ASSUME NEW c \in [tp : Nat, fp : Nat, fn : Nat, tn : Nat]
  PROVE  Same(youden_j(c), recall(c) -- false_positive_rate(c))
<1> DEFINE a == c.tp
           b == c.fp
           f == c.tn
           P == c.tp + c.fn
           N == f + b
<1>1. a \in Nat /\ b \in Nat /\ f \in Nat /\ P \in Nat /\ N \in Nat /\ N = b + f
  OBVIOUS
<1>2. /\ youden_j(c) = Over(a, P) ++ (Over(f, N) -- One)
      /\ recall(c) -- false_positive_rate(c) = Over(a, P) -- Over(b, b + f)
  BY DEF youden_j, recall, specificity, false_positive_rate
<1> HIDE DEF a, b, f, P, N
<1>3. CASE P = 0 \/ N = 0
  <2>1. Over(a, P) -- Over(b, b + f) = NaN
    BY <1>1, <1>3, UndefinedTimes
  <2> QED
    BY <1>2, <2>1 DEF Same, Undefined, NaN
<1>4. CASE P # 0 /\ N # 0
  <2>1. Over(f, N) -- One = Over(f * 1 - 1 * N, N * 1)
    BY <1>1, <1>4, WholeNumber, OverPlus DEF One
  <2>2. f * 1 - 1 * N = -b /\ N * 1 = N /\ -b \in Int
    BY <1>1 DEF N
  <2>3. Over(a, P) ++ Over(-b, N) = Over(a * N + (-b) * P, P * N)
    BY <1>1, <1>4, <2>2, OverPlus
  <2>4. Over(a, P) -- Over(b, N) = Over(a * N - b * P, P * N)
    BY <1>1, <1>4, OverPlus
  <2>5. a * N + (-b) * P = a * N - b * P
    BY <1>1
  <2> QED
    BY <1>1, <1>2, <2>1, <2>2, <2>3, <2>4, <2>5 DEF Same
<1> QED
  BY <1>3, <1>4

\* For every confusion table the rates of spike/recipes/numeric.py, computed
\* by separate kernels, determine each other, as TablesAgree says of the
\* tables that are enumerated: F1 is the harmonic form of the threat score
\* (which is the Jaccard index), a rate and its complement make one, the
\* diagnostic odds ratio is the quotient of the likelihood ratios, and
\* informedness is the difference of the true and the false positive rate,
\* wherever both sides are defined.
THEOREM RatesAgree ==
  ASSUME NEW c \in [tp : Nat, fp : Nat, fn : Nat, tn : Nat]
  PROVE  /\ Same(f1(c), (Q(2) ** threat_score(c)) // (One ++ threat_score(c)))
         /\ threat_score(c) = jaccard(c)
         /\ Same(recall(c), One -- false_negative_rate(c))
         /\ Same(specificity(c), One -- false_positive_rate(c))
         /\ Same(precision(c), One -- false_discovery_rate(c))
         /\ Same(diagnostic_odds_ratio(c),
                 positive_likelihood_ratio(c) // negative_likelihood_ratio(c))
         /\ Same(youden_j(c), recall(c) -- false_positive_rate(c))
<1>1. c.tp \in Nat /\ c.fp \in Nat /\ c.fn \in Nat /\ c.tn \in Nat
  OBVIOUS
<1>2. c.tp + c.fn + c.fp = c.tp + c.fp + c.fn
  BY <1>1
<1>3. threat_score(c) = jaccard(c)
  BY <1>2 DEF threat_score, jaccard
<1>4. /\ Same(recall(c), One -- false_negative_rate(c))
      /\ Same(specificity(c), One -- false_positive_rate(c))
      /\ Same(precision(c), One -- false_discovery_rate(c))
  BY <1>1, Complement
     DEF recall, false_negative_rate, specificity, false_positive_rate, precision,
         false_discovery_rate
<1> QED
  BY <1>3, <1>4, HarmonicOfThreat, OddsOfLikelihoods, Informed

----------------------------------------------------------------------------
(* The order of fractions *)

Fraction == {Over(a, b) : a \in Int, b \in Int \ {0}}

LEMMA FractionForm ==
  ASSUME NEW x \in Fraction
  PROVE  x.n \in Int /\ x.d \in Nat \ {0} /\ x = Over(x.n, x.d)
<1>1. PICK a \in Int, b \in Int \ {0} : x = Over(a, b)
  BY DEF Fraction
<1>2. x.n \in Int /\ x.d \in Nat \ {0} /\ x.n * b = a * x.d
  BY <1>1, OverValue
<1>3. Over(x.n, x.d) = Over(a, b)
  BY <1>2, OverEqual
<1> QED
  BY <1>1, <1>2, <1>3

LEMMA AnyTwo ==
  ASSUME NEW x \in Fraction, NEW y \in Fraction
  PROVE  /\ x \prec y \/ x = y \/ y \prec x
         /\ ~(x \prec y /\ y \prec x) /\ ~(x \prec x)
         /\ x \preceq y <=> ~(y \prec x)
<1>1. /\ x.n \in Int /\ x.d \in Nat \ {0} /\ x = Over(x.n, x.d)
      /\ y.n \in Int /\ y.d \in Nat \ {0} /\ y = Over(y.n, y.d)
  BY FractionForm
<1>2. x.n * y.d = y.n * x.d => x = y
  BY <1>1, OverEqual
<1> QED
  BY <1>1, <1>2 DEF \prec, \preceq

LEMMA Transitive ==
  ASSUME NEW x \in Fraction, NEW y \in Fraction, NEW z \in Fraction, x \preceq y, y \preceq z
  PROVE  x \preceq z
<1>1. /\ x.n \in Int /\ x.d \in Nat \ {0} /\ y.n \in Int /\ y.d \in Nat \ {0}
      /\ z.n \in Int /\ z.d \in Nat \ {0}
      /\ x.n * y.d <= y.n * x.d /\ y.n * z.d <= z.n * y.d
  BY FractionForm DEF \preceq
<1> DEFINE a == x.n
           b == x.d
           c == y.n
           d == y.d
           e == z.n
           f == z.d
<1>2. /\ a \in Int /\ b \in Nat \ {0} /\ c \in Int /\ d \in Nat \ {0} /\ e \in Int /\ f \in Nat \ {0}
      /\ a * d <= c * b /\ c * f <= e * d
  BY <1>1
<1> HIDE DEF a, b, c, d, e, f
<1>3. \A p, q \in Int, r \in Nat \ {0} : (p <= q <=> p * r <= q * r)
  OBVIOUS
<1>4. (a * d) * f <= (c * b) * f /\ (c * f) * b <= (e * d) * b
  <2>1. a * d \in Int /\ c * b \in Int /\ c * f \in Int /\ e * d \in Int
    BY <1>2
  <2> QED
    BY <1>2, <1>3, <2>1
<1>5. (a * f) * d <= (e * b) * d
  <2>1. (a * d) * f = (a * f) * d /\ (c * b) * f = (c * f) * b /\ (e * d) * b = (e * b) * d
    BY <1>2
  <2>2. (a * d) * f \in Int /\ (c * b) * f \in Int /\ (e * d) * b \in Int
    BY <1>2
  <2> QED
    BY <1>4, <2>1, <2>2
<1>6. a * f <= e * b
  <2>1. a * f \in Int /\ e * b \in Int
    BY <1>2
  <2> QED
    BY <1>2, <1>3, <1>5, <2>1
<1> QED
  BY <1>1, <1>6 DEF \preceq, a, b, e, f

LEMMA OverAtMost ==
  ASSUME NEW a \in Int, NEW b \in Nat \ {0}, NEW c \in Int, NEW d \in Nat \ {0},
         a * d <= c * b
  PROVE  Over(a, b) \preceq Over(c, d)
<1> DEFINE x == Over(a, b)
           y == Over(c, d)
<1>1. /\ x.n \in Int /\ x.d \in Nat \ {0} /\ x.n * b = a * x.d
      /\ y.n \in Int /\ y.d \in Nat \ {0} /\ y.n * d = c * y.d
  BY OverValue
<1> HIDE DEF x, y
<1>2. \A p, q \in Int, r \in Nat \ {0} : (p <= q <=> p * r <= q * r)
  OBVIOUS
<1>3. (x.n * y.d) * (b * d) <= (y.n * x.d) * (b * d)
  <2>1. (a * d) * (x.d * y.d) <= (c * b) * (x.d * y.d)
    <3>1. a * d \in Int /\ c * b \in Int /\ x.d * y.d \in Nat \ {0}
      BY <1>1
    <3> QED
      BY <1>2, <3>1
  <2>2. (a * d) * (x.d * y.d) = (x.n * y.d) * (b * d)
    <3>1. (a * d) * (x.d * y.d) = (a * x.d) * (y.d * d)
      BY <1>1
    <3>2. (x.n * y.d) * (b * d) = (x.n * b) * (y.d * d)
      BY <1>1
    <3> QED
      BY <1>1, <3>1, <3>2
  <2>3. (c * b) * (x.d * y.d) = (y.n * x.d) * (b * d)
    <3>1. (c * b) * (x.d * y.d) = (c * y.d) * (x.d * b)
      BY <1>1
    <3>2. (y.n * x.d) * (b * d) = (y.n * d) * (x.d * b)
      BY <1>1
    <3> QED
      BY <1>1, <3>1, <3>2
  <2> QED
    BY <2>1, <2>2, <2>3
<1>4. x.n * y.d <= y.n * x.d
  <2>1. x.n * y.d \in Int /\ y.n * x.d \in Int /\ b * d \in Nat \ {0}
    BY <1>1
  <2> QED
    BY <1>2, <1>3, <2>1
<1>5. x \preceq y
  BY <1>1, <1>4 DEF \preceq
<1> QED
  BY <1>5 DEF x, y

----------------------------------------------------------------------------
(* Sorting a column *)

\* Rows with a smaller value are ahead, and earlier rows of the same value.
Ahead(xs, j) ==
  {i \in 1..Len(xs) : xs[i] \prec xs[j] \/ (xs[i] = xs[j] /\ i <= j)}

LEMMA AheadOrders ==
  ASSUME NEW xs \in Seq(Fraction), NEW i \in 1..Len(xs), NEW j \in 1..Len(xs), i # j
  PROVE  \/ Ahead(xs, i) \subseteq Ahead(xs, j) /\ j \notin Ahead(xs, i) /\ j \in Ahead(xs, j)
         \/ Ahead(xs, j) \subseteq Ahead(xs, i) /\ i \notin Ahead(xs, j) /\ i \in Ahead(xs, i)
<1>1. \A r \in 1..Len(xs) : xs[r] \in Fraction /\ r \in Ahead(xs, r)
  BY DEF Ahead
<1>2. ASSUME NEW p \in 1..Len(xs), NEW q \in 1..Len(xs), p # q,
             xs[p] \prec xs[q] \/ (xs[p] = xs[q] /\ p <= q)
      PROVE  Ahead(xs, p) \subseteq Ahead(xs, q) /\ q \notin Ahead(xs, p)
  <2>1. q \notin Ahead(xs, p)
    <3>1. q \in 1..Len(xs) /\ p \in 1..Len(xs) /\ (p <= q => ~(q <= p))
      BY <1>2
    <3>2. xs[p] \in Fraction /\ xs[q] \in Fraction
      BY <1>1
    <3> QED
      BY <1>2, <3>1, <3>2, AnyTwo DEF Ahead
  <2>2. ASSUME NEW r \in Ahead(xs, p) PROVE r \in Ahead(xs, q)
    <3>1. r \in 1..Len(xs) /\ (xs[r] \prec xs[p] \/ (xs[r] = xs[p] /\ r <= p))
      BY <2>2 DEF Ahead
    <3>2. xs[r] \in Fraction /\ xs[p] \in Fraction /\ xs[q] \in Fraction
      BY <1>1, <3>1
    <3>3. xs[r] \prec xs[q] \/ (xs[r] = xs[q] /\ r <= q)
      <4>1. CASE xs[r] = xs[p] /\ r <= p /\ xs[p] = xs[q] /\ p <= q
        BY <3>1, <4>1
      <4>2. CASE xs[r] = xs[p] /\ xs[p] \prec xs[q]
        BY <4>2
      <4>3. CASE xs[r] \prec xs[p] /\ xs[p] = xs[q]
        BY <4>3
      <4>4. CASE xs[r] \prec xs[p] /\ xs[p] \prec xs[q]
        <5>1. xs[r] \preceq xs[p] /\ xs[p] \preceq xs[q]
          BY <3>2, <4>4, AnyTwo
        <5>2. xs[r] \preceq xs[q]
          BY <3>2, <5>1, Transitive
        <5>3. xs[r] # xs[q]
          BY <3>2, <4>4, AnyTwo
        <5> QED
          BY <3>2, <5>2, <5>3, AnyTwo
      <4> QED
        BY <1>2, <3>1, <4>1, <4>2, <4>3, <4>4
    <3> QED
      BY <3>1, <3>3 DEF Ahead
  <2> QED
    BY <2>1, <2>2
<1>3. \/ xs[i] \prec xs[j] \/ (xs[i] = xs[j] /\ i <= j)
      \/ xs[j] \prec xs[i] \/ (xs[j] = xs[i] /\ j <= i)
  BY <1>1, AnyTwo
<1> QED
  BY <1>1, <1>2, <1>3

\* A sorted column holds in each place the value of the row with so many
\* rows ahead.
LEMMA SortedColumn ==
  ASSUME NEW xs \in Seq(Fraction), NEW k \in 1..Len(xs)
  PROVE  \E r \in 1..Len(xs) : Sorted(xs)[k] = xs[r] /\ Cardinality(Ahead(xs, r)) = k
<1> DEFINE n == Len(xs)
           place == [j \in 1..n |-> Cardinality(Ahead(xs, j))]
           rows == [l \in 1..n |-> CHOOSE i \in 1..n : place[i] = l]
<1>1. n \in Nat /\ IsFiniteSet(1..n) /\ Cardinality(1..n) = n
  BY FS_Interval
<1>2. \A j \in 1..n : /\ Ahead(xs, j) \subseteq 1..n /\ j \in Ahead(xs, j)
                      /\ IsFiniteSet(Ahead(xs, j)) /\ place[j] \in 1..n
  <2> SUFFICES ASSUME NEW j \in 1..n
               PROVE  /\ Ahead(xs, j) \subseteq 1..n /\ j \in Ahead(xs, j)
                      /\ IsFiniteSet(Ahead(xs, j)) /\ Cardinality(Ahead(xs, j)) \in 1..n
    OBVIOUS
  <2>1. Ahead(xs, j) \subseteq 1..n /\ j \in Ahead(xs, j)
    BY DEF Ahead
  <2>2. /\ IsFiniteSet(Ahead(xs, j)) /\ Cardinality(Ahead(xs, j)) \in Nat
        /\ Cardinality(Ahead(xs, j)) <= n
    BY <1>1, <2>1, FS_Subset, FS_CardinalityType
  <2>3. Cardinality(Ahead(xs, j)) # 0
    BY <2>1, <2>2, FS_EmptySet
  <2> QED
    BY <1>1, <2>1, <2>2, <2>3
<1>3. ASSUME NEW i \in 1..n, NEW j \in 1..n, i # j PROVE place[i] # place[j]
  <2>1. \/ Ahead(xs, i) \subseteq Ahead(xs, j) /\ Ahead(xs, i) # Ahead(xs, j)
        \/ Ahead(xs, j) \subseteq Ahead(xs, i) /\ Ahead(xs, i) # Ahead(xs, j)
    BY <1>3, AheadOrders
  <2>2. Cardinality(Ahead(xs, i)) # Cardinality(Ahead(xs, j))
    BY <1>2, <2>1, FS_Subset
  <2> QED
    BY <2>2
<1>4. \E i \in 1..n : place[i] = k
  <2> DEFINE others == (1..n) \ {k}
  <2>1. IsFiniteSet(others) /\ Cardinality(others) = n - 1
    BY <1>1, FS_RemoveElement
  <2>2. SUFFICES ASSUME \A i \in 1..n : place[i] # k PROVE FALSE
    OBVIOUS
  <2>3. place \in [1..n -> others]
    BY <1>2, <2>2
  <2> HIDE DEF place, others
  <2>4. \E i, j \in 1..n : i # j /\ place[i] = place[j]
    BY <1>1, <2>1, <2>3, FS_PigeonHole
  <2> QED
    BY <1>3, <2>4
<1>5. rows[k] \in 1..n /\ place[rows[k]] = k
  <2> HIDE DEF place
  <2> QED
    BY <1>4
<1>6. RowsBy(Len(xs), LAMBDA i : xs[i]) = rows
  BY DEF RowsBy, Ahead
<1>7. Sorted(xs)[k] = xs[rows[k]]
  <2>1. Sorted(xs) = [l \in DOMAIN rows |-> xs[rows[l]]]
    <3> HIDE DEF rows
    <3> QED
      BY <1>6 DEF Sorted, Each
  <2>2. DOMAIN rows = 1..n
    OBVIOUS
  <2> HIDE DEF rows
  <2> QED
    BY <2>1, <2>2
<1>8. Cardinality(Ahead(xs, rows[k])) = k
  <2> HIDE DEF rows
  <2> QED
    BY <1>5
<1> HIDE DEF rows
<1> QED
  BY <1>5, <1>7, <1>8

----------------------------------------------------------------------------
(* The sum of a column *)

\* g has the sums of the first k entries of xs, for every k up to n.
Sums(g, xs, n) == g = [k \in 0..n |-> IF k = 0 THEN Zero ELSE g[k - 1] ++ xs[k]]

LEMMA SumsStep ==
  ASSUME NEW xs, NEW n \in Nat, NEW g, Sums(g, xs, n), NEW k \in 0..n
  PROVE  g[k] = IF k = 0 THEN Zero ELSE g[k - 1] ++ xs[k]
<1> DEFINE Next1(j) == IF j = 0 THEN Zero ELSE g[j - 1] ++ xs[j]
<1>1. g = [j \in 0..n |-> Next1(j)]
  BY DEF Sums
<1> HIDE DEF Next1
<1>2. g[k] = Next1(k)
  BY <1>1
<1> QED
  BY <1>2 DEF Next1

LEMMA SumsExist ==
  ASSUME NEW xs, NEW n \in Nat
  PROVE  \E g : Sums(g, xs, n)
<1> DEFINE Bad == {k \in Nat : ~ \E g : Sums(g, xs, k)}
<1> SUFFICES ASSUME Bad # {} PROVE FALSE
  OBVIOUS
<1>1. PICK m \in Bad : \A k \in Bad : m <= k
  <2>1. Bad \in SUBSET Nat
    OBVIOUS
  <2> HIDE DEF Bad
  <2> QED
    BY <2>1, Smallest1
<1>2. m # 0
  <2>1. Sums([k \in 0..0 |-> Zero], xs, 0)
    <3> DEFINE g == [k \in 0..0 |-> Zero]
               h == [k \in 0..0 |-> IF k = 0 THEN Zero ELSE g[k - 1] ++ xs[k]]
    <3>1. g = h
      <4>1. \A k \in 0..0 : k = 0
        OBVIOUS
      <4> HIDE DEF g
      <4>2. h = [k \in 0..0 |-> Zero]
        BY <4>1
      <4> QED
        BY <4>2 DEF g
    <3> QED
      BY <3>1 DEF Sums
  <2> QED
    BY <2>1
<1>3. m - 1 \in Nat /\ m - 1 \notin Bad
  BY <1>1, <1>2
<1>4. PICK g : Sums(g, xs, m - 1)
  BY <1>3
<1> DEFINE h == [k \in 0..m |-> IF k = m THEN g[m - 1] ++ xs[m] ELSE g[k]]
           Again(k) == IF k = 0 THEN Zero ELSE h[k - 1] ++ xs[k]
<1>5. ASSUME NEW k \in 0..m PROVE h[k] = Again(k)
  <2>1. CASE k = m
    <3>1. h[m - 1] = g[m - 1] /\ h[m] = g[m - 1] ++ xs[m]
      BY <1>2, <1>3
    <3> HIDE DEF h
    <3> QED
      BY <1>2, <2>1, <3>1
  <2>2. CASE k # m
    <3>1. k \in 0..(m - 1)
      BY <1>3, <2>2
    <3>2. g[k] = IF k = 0 THEN Zero ELSE g[k - 1] ++ xs[k]
      BY <1>3, <1>4, <3>1, SumsStep
    <3>3. h[k] = g[k] /\ (k # 0 => h[k - 1] = g[k - 1])
      BY <1>3, <2>2, <3>1
    <3> HIDE DEF h
    <3> QED
      BY <3>2, <3>3
  <2> QED
    BY <2>1, <2>2
<1>6. h = [k \in 0..m |-> Again(k)]
  <2>1. h = [k \in 0..m |-> h[k]]
    OBVIOUS
  <2> HIDE DEF h, Again
  <2> QED
    BY <1>5, <2>1
<1>7. Sums(h, xs, m)
  <2> HIDE DEF h
  <2> QED
    BY <1>6 DEF Sums
<1> QED
  BY <1>1, <1>7

LEMMA TotalOfSums ==
  ASSUME NEW xs, Len(xs) \in Nat
  PROVE  \E g : Sums(g, xs, Len(xs)) /\ Total(xs) = g[Len(xs)]
<1> DEFINE g == CHOOSE h : Sums(h, xs, Len(xs))
<1>1. Sums(g, xs, Len(xs))
  BY SumsExist
<1>2. Total(xs) = g[Len(xs)]
  BY DEF Total, Sums
<1> QED
  BY <1>1, <1>2

\* The harmonic sum of the Benjamini-Yekutieli procedure is at least one.
LEMMA HarmonicSum ==
  ASSUME NEW m \in Nat \ {0}
  PROVE  \E a, b \in Nat \ {0} : Total([i \in 1..m |-> Over(1, i)]) = Over(a, b) /\ b <= a
<1> DEFINE xs == [i \in 1..m |-> Over(1, i)]
           Large(x) == \E a, b \in Nat \ {0} : x = Over(a, b) /\ b <= a
<1>1. Len(xs) = m
  OBVIOUS
<1>2. PICK g : Sums(g, xs, m) /\ Total(xs) = g[m]
  <2> HIDE DEF xs
  <2> QED
    BY <1>1, TotalOfSums
<1>3. \A k \in 1..m : g[k] = g[k - 1] ++ Over(1, k)
  <2>1. \A k \in 1..m : g[k] = g[k - 1] ++ xs[k]
    <3> HIDE DEF xs
    <3> QED
      BY <1>2, SumsStep
  <2> QED
    BY <2>1
<1>4. g[0] = Zero
  <2>1. 0 \in 0..m /\ m \in Nat
    OBVIOUS
  <2>2. Sums(g, xs, m)
    BY <1>2
  <2> HIDE DEF xs
  <2>3. g[0] = IF 0 = 0 THEN Zero ELSE g[0 - 1] ++ xs[0]
    BY <2>1, <2>2, SumsStep
  <2> QED
    BY <2>3
<1> HIDE DEF xs
<1> DEFINE Bad == {k \in 1..m : ~Large(g[k])}
<1>5. Bad = {}
  <2> SUFFICES ASSUME Bad # {} PROVE FALSE
    OBVIOUS
  <2>1. PICK k \in Bad : \A j \in Bad : k <= j
    <3>1. Bad \in SUBSET Nat
      OBVIOUS
    <3> HIDE DEF Bad
    <3> QED
      BY <3>1, Smallest1
  <2>2. k \in 1..m /\ g[k] = g[k - 1] ++ Over(1, k) /\ ~Large(g[k])
    BY <1>3, <2>1
  <2>3. CASE k = 1
    <3>1. Zero = Over(0, 1)
      BY WholeNumber DEF Zero
    <3>2. g[1] = Over(0, 1) ++ Over(1, 1)
      BY <1>4, <2>2, <2>3, <3>1
    <3>3. g[1] = Over(0 * 1 + 1 * 1, 1 * 1)
      BY <3>2, OverPlus
    <3>4. g[1] = Over(1, 1)
      BY <3>3
    <3> QED
      BY <2>2, <2>3, <3>4
  <2>4. CASE k # 1
    <3>1. k - 1 \in 1..m /\ k - 1 \notin Bad
      BY <2>1, <2>2, <2>4
    <3>2. PICK a \in Nat \ {0}, b \in Nat \ {0} : g[k - 1] = Over(a, b) /\ b <= a
      BY <3>1
    <3>3. k \in Nat \ {0}
      BY <2>2
    <3>4. g[k] = Over(a * k + 1 * b, b * k)
      BY <2>2, <3>2, <3>3, OverPlus
    <3>5. b * k <= a * k /\ a * k + 1 * b \in Nat \ {0} /\ b * k \in Nat \ {0}
      <4>1. \A p, q, r \in Nat : p <= q => p * r <= q * r
        OBVIOUS
      <4> QED
        BY <3>2, <3>3, <4>1
    <3>6. b * k <= a * k + 1 * b
      BY <3>2, <3>3, <3>5
    <3> HIDE DEF Bad
    <3> QED
      BY <2>2, <3>4, <3>5, <3>6
  <2> QED
    BY <2>3, <2>4
<1>6. Large(g[m])
  <2>1. m \in 1..m
    OBVIOUS
  <2> QED
    BY <1>5, <2>1
<1> HIDE DEF Large
<1> QED
  BY <1>2, <1>6 DEF Large, xs

----------------------------------------------------------------------------
(* The corrections for multiple testing *)

\* The bounds of the corrections at rank k of m, for a level that is not
\* negative, in the order in which they grow.
LEMMA Bounds ==
  ASSUME NEW level \in Fraction, Zero \preceq level, NEW m \in Nat, NEW k \in 1..m
  PROVE  /\ level // Q(m) \in Fraction
         /\ level // Q(m - k + 1) \in Fraction
         /\ Over(k, m) ** level \in Fraction
         /\ level // Q(m) \preceq level // Q(m - k + 1)
         /\ level // Q(m - k + 1) \preceq Over(k, m) ** level
<1> DEFINE a == level.n
           b == level.d
           l == m - k + 1
<1>1. a \in Int /\ b \in Nat \ {0} /\ level = Over(a, b)
  BY FractionForm
<1>2. 0 <= a
  BY <1>1 DEF \preceq, Zero, Q
<1>3. l \in Nat \ {0} /\ m \in Nat \ {0} /\ k \in Nat \ {0} /\ l <= m
  OBVIOUS
<1>4. k * l >= m
  <2>1. k * l - m = (k - 1) * (m - k)
    BY <1>3
  <2>2. k - 1 \in Nat /\ m - k \in Nat
    BY <1>3
  <2>3. (k - 1) * (m - k) \in Nat
    BY <2>2
  <2>4. k * l \in Int
    BY <1>3
  <2> QED
    BY <1>3, <2>1, <2>3, <2>4
<1> HIDE DEF a, b, l
<1>5. \A i \in Nat \ {0} : level // Q(i) = Over(a, b * i) /\ b * i \in Nat \ {0}
  <2> SUFFICES ASSUME NEW i \in Nat \ {0}
               PROVE  level // Q(i) = Over(a, b * i) /\ b * i \in Nat \ {0}
    OBVIOUS
  <2>1. Q(i) = Over(i, 1)
    BY WholeNumber
  <2>2. Over(a, b) // Over(i, 1) = Over(a * 1, b * i)
    BY <1>1, OverBy
  <2> QED
    BY <1>1, <2>1, <2>2
<1>6. Over(k, m) ** level = Over(k * a, m * b) /\ m * b \in Nat \ {0} /\ k * a \in Int
  <2>1. Over(k, m) ** Over(a, b) = Over(k * a, m * b)
    BY <1>1, <1>3, OverTimes
  <2> QED
    BY <1>1, <1>3, <2>1
<1>7. a * (b * l) <= a * (b * m)
  <2>1. b * l <= b * m /\ b * l \in Nat /\ b * m \in Nat
    BY <1>1, <1>3
  <2>2. a \in Nat
    BY <1>1, <1>2
  <2> HIDE DEF a
  <2>3. \A p, q, r \in Nat : p <= q => r * p <= r * q
    OBVIOUS
  <2> QED
    BY <2>1, <2>2, <2>3
<1>8. a * (m * b) <= (k * a) * (b * l)
  <2>1. a * b \in Nat /\ k * l \in Nat
    BY <1>1, <1>2, <1>3
  <2>2. \A p, q, r \in Nat : p <= q => r * p <= r * q
    OBVIOUS
  <2>3. (a * b) * m <= (a * b) * (k * l)
    BY <1>3, <1>4, <2>1, <2>2
  <2>4. a * (m * b) = (a * b) * m /\ (k * a) * (b * l) = (a * b) * (k * l)
    BY <1>1, <1>3
  <2> QED
    BY <2>3, <2>4
<1>9. Over(a, b * m) \preceq Over(a, b * l)
  BY <1>1, <1>3, <1>5, <1>7, OverAtMost
<1>10. Over(a, b * l) \preceq Over(k * a, m * b)
  BY <1>1, <1>3, <1>5, <1>6, <1>8, OverAtMost
<1>11. level // Q(m) = Over(a, b * m) /\ level // Q(l) = Over(a, b * l)
  BY <1>3, <1>5
<1>12. Over(a, b * m) \in Fraction /\ Over(a, b * l) \in Fraction /\ Over(k * a, m * b) \in Fraction
  BY <1>1, <1>3, <1>5, <1>6 DEF Fraction
<1> QED
  BY <1>6, <1>9, <1>10, <1>11, <1>12 DEF l

LEMMA Fewer ==
  ASSUME NEW n \in Nat, NEW A \in SUBSET (1..n), NEW B \in SUBSET (1..n),
         Cardinality(A) <= Cardinality(B)
  PROVE  AtMost(Q(Cardinality(A)), Q(Cardinality(B)))
<1>1. Cardinality(A) \in Nat /\ Cardinality(B) \in Nat
  <2>1. IsFiniteSet(1..n)
    BY FS_Interval
  <2> QED
    BY <2>1, FS_Subset, FS_CardinalityType
<1> QED
  BY <1>1 DEF AtMost, \preceq, Q

\* The bound of Benjamini-Yekutieli is at most that of Benjamini-Hochberg.
LEMMA HarmonicBound ==
  ASSUME NEW level \in Fraction, Zero \preceq level, NEW m \in Nat, NEW k \in 1..m
  PROVE  LET c == Total([i \in 1..m |-> Over(1, i)])
         IN  /\ (Over(k, m) ** level) // c \in Fraction
             /\ (Over(k, m) ** level) // c \preceq Over(k, m) ** level
<1> DEFINE c == Total([i \in 1..m |-> Over(1, i)])
<1>1. m \in Nat \ {0} /\ k \in Nat \ {0}
  OBVIOUS
<1>2. PICK a \in Nat \ {0}, b \in Nat \ {0} : c = Over(a, b) /\ b <= a
  BY <1>1, HarmonicSum
<1> HIDE DEF c
<1>3. /\ level.n \in Nat /\ level.d \in Nat \ {0}
      /\ level = Over(level.n, level.d)
  <2>1. level.n \in Int /\ level.d \in Nat \ {0} /\ level = Over(level.n, level.d)
    BY FractionForm
  <2>2. 0 <= level.n
    BY <2>1 DEF \preceq, Zero, Q
  <2> QED
    BY <2>1, <2>2
<1> DEFINE p == k * level.n
           q == m * level.d
<1>4. p \in Nat /\ q \in Nat \ {0} /\ Over(k, m) ** level = Over(p, q)
  <2> DEFINE u == level.n
             v == level.d
  <2>1. Over(k, m) ** Over(u, v) = Over(k * u, m * v)
    <3>1. u \in Int /\ v \in Int \ {0} /\ k \in Int /\ m \in Int \ {0}
      BY <1>1, <1>3
    <3> HIDE DEF u, v
    <3> QED
      BY <3>1, OverTimes
  <2>2. k * level.n \in Nat /\ m * level.d \in Nat \ {0}
    BY <1>1, <1>3
  <2> QED
    BY <1>3, <2>1, <2>2
<1> HIDE DEF p, q
<1>5. Over(p, q) // c = Over(p * b, q * a)
  BY <1>2, <1>4, OverBy
<1>6. /\ p * b \in Nat /\ q * a \in Nat \ {0}
      /\ (p * b) * q <= p * (q * a)
  <2>1. \A x, y, z \in Nat : y <= z => x * y <= x * z
    OBVIOUS
  <2>2. p * q \in Nat /\ (p * q) * b <= (p * q) * a
    BY <1>2, <1>4, <2>1
  <2>3. (p * b) * q = (p * q) * b /\ p * (q * a) = (p * q) * a
    BY <1>2, <1>4
  <2>4. p * b \in Nat /\ q * a \in Nat \ {0}
    BY <1>2, <1>4
  <2> QED
    BY <2>2, <2>3, <2>4
<1>7. Over(p * b, q * a) \preceq Over(p, q)
  BY <1>4, <1>6, OverAtMost
<1>8. Over(p * b, q * a) \in Fraction
  BY <1>6 DEF Fraction
<1> QED
  BY <1>4, <1>5, <1>7, <1>8 DEF c

\* The corrections for multiple testing (bonferroni_rejections,
\* holm_rejections, hochberg_rejections, bh_rejections and
\* benjamini_yekutieli of spike/recipes/numeric.py) are nested for every
\* list of p-values, unsorted and with ties, and every level that is not
\* negative: a less careful one rejects at least as many hypotheses.
THEOREM CorrectionsNested ==
  ASSUME NEW pvals \in Seq(Fraction), NEW level \in Fraction, Zero \preceq level
  PROVE  /\ AtMost(bonferroni_rejections(pvals, level), holm_rejections(pvals, level))
         /\ AtMost(holm_rejections(pvals, level), hochberg_rejections(pvals, level))
         /\ AtMost(hochberg_rejections(pvals, level), bh_rejections(pvals, level))
         /\ AtMost(benjamini_yekutieli(pvals, level), bh_rejections(pvals, level))
<1> DEFINE m == Len(pvals)
           S == Sorted(pvals)
           careful == {k \in 1..m : S[k] \preceq level // Q(m - k + 1)}
           loose == {k \in 1..m : S[k] \preceq Over(k, m) ** level}
           first == {i \in 1..m : pvals[i] \preceq level // Q(m)}
           down == {k \in 1..m : \A l \in 1..k : l \in careful}
           up == {k \in 1..m : \E l \in careful : k <= l}
           most == {k \in 1..m : \E l \in loose : k <= l}
           c == Total([i \in 1..m |-> Over(1, i)])
           dependent == {k \in 1..m : S[k] \preceq (Over(k, m) ** level) // c}
           robust == {k \in 1..m : \E l \in dependent : k <= l}
<1>1. CASE pvals = << >>
  BY <1>1 DEF bonferroni_rejections, holm_rejections, hochberg_rejections, bh_rejections,
              benjamini_yekutieli, StepUp, StepDown, AtMost, Undefined, NaN
<1>2. CASE pvals # << >>
  <2>1. m \in Nat /\ DOMAIN pvals = 1..m
    OBVIOUS
  <2>2. /\ bonferroni_rejections(pvals, level) = Q(Cardinality(first))
        /\ holm_rejections(pvals, level) = Q(Cardinality(down))
        /\ hochberg_rejections(pvals, level) = Q(Cardinality(up))
        /\ bh_rejections(pvals, level) = Q(Cardinality(most))
    BY <1>2, <2>1 DEF bonferroni_rejections, holm_rejections, hochberg_rejections,
                      bh_rejections, StepUp, StepDown, Count
  <2>12. benjamini_yekutieli(pvals, level) = Q(Cardinality(robust))
    BY <1>2, <2>1 DEF benjamini_yekutieli, StepUp, Sum
  <2>3. \A k \in 1..m : S[k] \in Fraction
    <3> SUFFICES ASSUME NEW k \in 1..m PROVE S[k] \in Fraction
      OBVIOUS
    <3> HIDE DEF careful, loose, first, down, up, most, c, dependent, robust, S
    <3>1. PICK r \in 1..m : S[k] = pvals[r]
      BY SortedColumn DEF S
    <3>2. pvals[r] \in Fraction
      BY <2>1
    <3> QED
      BY <3>1, <3>2
  <2>4. first \subseteq 1..m /\ down \subseteq 1..m /\ up \subseteq 1..m /\ most \subseteq 1..m
    OBVIOUS
  <2>5. IsFiniteSet(1..m) /\ Cardinality(1..m) = m
    BY <2>1, FS_Interval
  <2>6. Cardinality(first) <= Cardinality(down)
    <3> DEFINE b == Cardinality(first)
    <3>1. IsFiniteSet(first) /\ b \in Nat /\ b <= m
      BY <2>4, <2>5, FS_Subset, FS_CardinalityType
    <3>2. ASSUME NEW k \in 1..b PROVE k \in careful
      <4>1. k \in 1..m
        BY <2>1, <3>1
      <4>2. PICK r \in 1..m : S[k] = pvals[r] /\ Cardinality(Ahead(pvals, r)) = k
        BY <4>1, SortedColumn
      <4>3. pvals[r] \in Fraction /\ level // Q(m) \in Fraction
        BY <2>1, <4>1, Bounds
      <4>4. pvals[r] \preceq level // Q(m)
        <5>1. SUFFICES ASSUME level // Q(m) \prec pvals[r] PROVE FALSE
          BY <4>3, AnyTwo
        <5>2. r \notin first
          BY <4>3, <5>1, AnyTwo
        <5>3. ASSUME NEW i \in first PROVE i \in Ahead(pvals, r)
          <6>1. i \in 1..m /\ pvals[i] \preceq level // Q(m) /\ pvals[i] \in Fraction
            BY <2>1
          <6>2. level // Q(m) \preceq pvals[r]
            BY <4>3, <5>1, AnyTwo
          <6>3. pvals[i] \preceq pvals[r]
            BY <4>3, <6>1, <6>2, Transitive
          <6>4. pvals[i] # pvals[r]
            BY <4>3, <5>1, <6>1, AnyTwo
          <6>5. pvals[i] \prec pvals[r]
            BY <4>3, <6>1, <6>3, <6>4, AnyTwo
          <6> QED
            BY <6>1, <6>5 DEF Ahead
        <5>4. r \in Ahead(pvals, r) /\ Ahead(pvals, r) \subseteq 1..m
          BY DEF Ahead
        <5>5. first \cup {r} \subseteq Ahead(pvals, r)
          BY <5>3, <5>4
        <5>6. Cardinality(first \cup {r}) = b + 1
          <6> HIDE DEF first
          <6> QED
            BY <3>1, <5>2, FS_AddElement
        <5>7. IsFiniteSet(Ahead(pvals, r))
          BY <2>5, <5>4, FS_Subset
        <5>8. Cardinality(first \cup {r}) <= Cardinality(Ahead(pvals, r))
          <6> HIDE DEF first
          <6> QED
            BY <5>5, <5>7, FS_Subset
        <5> HIDE DEF first
        <5> QED
          BY <3>1, <4>2, <5>6, <5>8
      <4>5. /\ level // Q(m) \preceq level // Q(m - k + 1)
            /\ level // Q(m - k + 1) \in Fraction
        BY <2>1, <4>1, Bounds
      <4>6. pvals[r] \preceq level // Q(m - k + 1)
        BY <4>3, <4>4, <4>5, Transitive
      <4> QED
        BY <4>1, <4>2, <4>6
    <3>3. 1..b \subseteq down
      <4> HIDE DEF careful
      <4>1. ASSUME NEW k \in 1..b PROVE k \in 1..m /\ \A l \in 1..k : l \in 1..b
        <5> HIDE DEF first, b
        <5> QED
          BY <2>1, <3>1
      <4> QED
        BY <3>2, <4>1
    <3>4. Cardinality(1..b) = b /\ IsFiniteSet(down)
      <4>1. IsFiniteSet(down)
        <5> HIDE DEF down
        <5> QED
          BY <2>4, <2>5, FS_Subset
      <4>2. Cardinality(1..b) = b
        <5> HIDE DEF b
        <5> QED
          BY <3>1, FS_Interval
      <4> QED
        BY <4>1, <4>2
    <3> HIDE DEF down
    <3>5. Cardinality(1..b) <= Cardinality(down)
      BY <3>3, <3>4, FS_Subset
    <3> QED
      BY <3>4, <3>5
  <2>7. down \subseteq up
    <3> HIDE DEF careful
    <3> SUFFICES ASSUME NEW k \in down PROVE k \in up
      OBVIOUS
    <3>1. k \in 1..m /\ k \in 1..k
      BY <2>1
    <3> QED
      BY <3>1
  <2>8. up \subseteq most
    <3> SUFFICES ASSUME NEW k \in careful PROVE k \in loose
      OBVIOUS
    <3>1. k \in 1..m /\ S[k] \preceq level // Q(m - k + 1) /\ S[k] \in Fraction
      BY <2>3
    <3>2. /\ level // Q(m - k + 1) \in Fraction /\ Over(k, m) ** level \in Fraction
          /\ level // Q(m - k + 1) \preceq Over(k, m) ** level
      BY <2>1, <3>1, Bounds
    <3>3. S[k] \preceq Over(k, m) ** level
      BY <3>1, <3>2, Transitive
    <3> QED
      BY <3>1, <3>3
  <2>13. robust \subseteq 1..m /\ robust \subseteq most
    <3> SUFFICES ASSUME NEW k \in dependent PROVE k \in loose
      OBVIOUS
    <3>1. k \in 1..m /\ S[k] \preceq (Over(k, m) ** level) // c /\ S[k] \in Fraction
      BY <2>3
    <3>2. /\ (Over(k, m) ** level) // c \in Fraction /\ Over(k, m) ** level \in Fraction
          /\ (Over(k, m) ** level) // c \preceq Over(k, m) ** level
      BY <2>1, <3>1, Bounds, HarmonicBound
    <3> HIDE DEF c
    <3>3. S[k] \preceq Over(k, m) ** level
      BY <3>1, <3>2, Transitive
    <3> QED
      BY <3>1, <3>3
  <2> HIDE DEF first, down, up, most, robust, S
  <2>14. Cardinality(robust) <= Cardinality(most)
    BY <2>4, <2>5, <2>13, FS_Subset
  <2>15. AtMost(Q(Cardinality(robust)), Q(Cardinality(most)))
    BY <2>1, <2>4, <2>13, <2>14, Fewer
  <2>9. IsFiniteSet(up) /\ IsFiniteSet(most)
    BY <2>4, <2>5, FS_Subset
  <2>10. Cardinality(down) <= Cardinality(up) /\ Cardinality(up) <= Cardinality(most)
    BY <2>7, <2>8, <2>9, FS_Subset
  <2>11. /\ AtMost(Q(Cardinality(first)), Q(Cardinality(down)))
         /\ AtMost(Q(Cardinality(down)), Q(Cardinality(up)))
         /\ AtMost(Q(Cardinality(up)), Q(Cardinality(most)))
    BY <2>1, <2>4, <2>6, <2>10, Fewer
  <2> QED
    BY <2>2, <2>11, <2>12, <2>15
<1> QED
  BY <1>1, <1>2
----------------------------------------------------------------------------
(* The oracle that asks these kernels *)

Corrections ==
  {"bonferroni_rejections", "holm_rejections", "hochberg_rejections", "bh_rejections",
   "benjamini_yekutieli"}

\* The recipes are those of the registry, and a formula has a name.
Registered ==
  /\ \A id : Tags(id) = required_tags(id)
  /\ \A id, c, o : Recipe(id, c, o) = Value(id, c, o)
  /\ "" \notin Validated

\* The p-values of a call are numbers; its level is none or not negative.
TestsOf(capture) ==
  LET level == Bare(ConventionOf(capture.kwargs), Over(1, 20))
  IN  /\ Fills(capture.inputs, "value") # << >> =>
           _bind(<<"value">>, capture.inputs).value \in Seq(Fraction)
      /\ Undefined(level) \/ (level \in Fraction /\ Zero \preceq level)

TestCases == \A k \in Cases : k.claims \cap Corrections # {} => TestsOf(k.capture)

\* What the registry says of the corrections.
LEMMA CorrectionKernels ==
  ASSUME NEW c, NEW o
  PROVE  /\ Value("bonferroni_rejections", c, o) =
              bonferroni_rejections(c.value, Number(o, "alpha", Over(1, 20)))
         /\ Value("hochberg_rejections", c, o) =
              hochberg_rejections(c.value, Number(o, "alpha", Over(1, 20)))
         /\ Value("benjamini_yekutieli", c, o) =
              benjamini_yekutieli(c.value, Number(o, "alpha", Over(1, 20)))
         /\ Value("holm_rejections", c, o) =
              IF Undefined(Bare(o, Over(1, 20))) THEN NaN
              ELSE holm_rejections(c.value, Bare(o, Over(1, 20)))
         /\ Value("bh_rejections", c, o) =
              IF Undefined(Bare(o, Over(1, 20))) THEN NaN
              ELSE bh_rejections(c.value, Bare(o, Over(1, 20)))
<1> USE DEF Value, Pack_OLS, Pack_BD3, Pack_STR, Pack_HET, Pack_FAIR2, Pack_CAL2, Pack_VD,
            Pack_RC2, Pack_REL, Pack_TSF, Pack_CF, Pack_SK, Pack_MS, Pack_EFF, Pack_CR3,
            Pack_DEC, Pack_FE4, Pack_NT, Pack_GM, Pack_TS2, Pack_WIN, Pack_MOM, Pack_NP,
            Pack_CN, Pack_DV, Pack_FC2, Pack_DD, Pack_AC, Pack_BIZ, Pack_TL, Pack_SH,
            Pack_RNK, Pack_CO, Pack_AG, Pack_FCI, Pack_RGD, Pack_EF, Pack_INE, Pack_PME,
            Pack_TX, Pack_SV, Pack_DIST, Pack_CAL, Pack_AR, Pack_FX, Pack_OPS, Pack_TSb,
            Pack_AB
<1>1. Value("bonferroni_rejections", c, o) =
        bonferroni_rejections(c.value, Number(o, "alpha", Over(1, 20)))
  BY SMTT(60)
<1>2. Value("hochberg_rejections", c, o) =
        hochberg_rejections(c.value, Number(o, "alpha", Over(1, 20)))
  BY SMTT(60)
<1>3. Value("benjamini_yekutieli", c, o) =
        benjamini_yekutieli(c.value, Number(o, "alpha", Over(1, 20)))
  BY SMTT(60)
<1> USE DEF Pack_LQ, Pack_FM, Pack_RC, Pack_PA, Pack_ML2, Pack_HU, Pack_RV, Pack_QRb,
            Pack_PERF2, Pack_CLU, Pack_CX, Pack_CRb, Pack_ES, Pack_FI, Pack_IR, Pack_EXP,
            Pack_QR2, Pack_ENG, Pack_BC, Pack_FAIR, Pack_TS, Pack_AN, Pack_CR, Pack_RM,
            Pack_ST2
<1>4. Value("holm_rejections", c, o) =
        IF Undefined(Bare(o, Over(1, 20))) THEN NaN
        ELSE holm_rejections(c.value, Bare(o, Over(1, 20)))
  BY SMTT(60)
<1>5. Value("bh_rejections", c, o) =
        IF Undefined(Bare(o, Over(1, 20))) THEN NaN
        ELSE bh_rejections(c.value, Bare(o, Over(1, 20)))
  BY SMTT(60)
<1> HIDE DEF Value
<1> QED
  BY <1>1, <1>2, <1>3, <1>4, <1>5

LEMMA CorrectionTags ==
  ASSUME NEW m \in Corrections
  PROVE  required_tags(m) = <<"value">>
<1>1. /\ required_tags("bonferroni_rejections") = <<"value">>
      /\ required_tags("holm_rejections") = <<"value">>
      /\ required_tags("hochberg_rejections") = <<"value">>
      /\ required_tags("bh_rejections") = <<"value">>
      /\ required_tags("benjamini_yekutieli") = <<"value">>
  BY DEF required_tags
<1> QED
  BY <1>1 DEF Corrections

\* The names of the corrections are neither the catalog's nor a network's.
LEMMA CorrectionNames ==
  ASSUME NEW m \in Corrections
  PROVE  canonical(m) = "" /\ m \notin LEARNED_METRICS /\ _registry_metric(m) = ""
<1>1. Alias(m) = m
  <2>1. /\ Alias("bonferroni_rejections") = "bonferroni_rejections"
        /\ Alias("holm_rejections") = "holm_rejections"
        /\ Alias("hochberg_rejections") = "hochberg_rejections"
        /\ Alias("bh_rejections") = "bh_rejections"
        /\ Alias("benjamini_yekutieli") = "benjamini_yekutieli"
    BY DEF Alias
  <2> QED
    BY <2>1 DEF Corrections
<1> QED
  BY <1>1 DEF canonical, CATALOG, LEARNED_METRICS, _registry_metric, Corrections

\* The two parsers of a level agree where both accept it.
LEMMA OneLevel ==
  ASSUME NEW o, NEW default, ~Undefined(Bare(o, default))
  PROVE  Number(o, "alpha", default) = Bare(o, default)
<1>1. CASE o = NoConvention
  <2>1. o.nums = << >> /\ DOMAIN o.nums = {} /\ DOMAIN o.nums # {""}
    <3>1. NoConvention.nums = << >>
      BY DEF NoConvention
    <3>2. DOMAIN << >> = {}
      OBVIOUS
    <3> QED
      BY <1>1, <3>1, <3>2
  <2>2. Bare(o, default) = default
    BY <1>1, <2>1, Zenon DEF Bare
  <2>3. {k \in DOMAIN o.nums : DOMAIN o.nums = {k} /\ k \in {"alpha", ""}} = {}
    BY <2>1
  <2> QED
    BY <2>2, <2>3 DEF Number
<1>2. CASE o # NoConvention /\ DOMAIN o.nums = {""}
  <2>1. Bare(o, default) = o.nums[""]
    BY <1>2 DEF Bare
  <2>2. {k \in DOMAIN o.nums : DOMAIN o.nums = {k} /\ k \in {"alpha", ""}} = {""}
    BY <1>2
  <2>3. (CHOOSE k \in {""} : TRUE) = ""
    OBVIOUS
  <2> QED
    BY <2>1, <2>2, <2>3 DEF Number
<1>3. CASE o # NoConvention /\ DOMAIN o.nums # {""}
  <2>1. Bare(o, default) = NaN
    BY <1>3 DEF Bare
  <2> QED
    BY <2>1 DEF Undefined, NaN
<1> QED
  BY <1>1, <1>2, <1>3

LEMMA CorrectionRecipe ==
  ASSUME Registered, NEW m \in Corrections, NEW capture
  PROVE  recompute_recipe(m, capture) =
           IF Fills(capture.inputs, "value") = << >> THEN NaN
           ELSE Value(m, _bind(<<"value">>, capture.inputs), ConventionOf(capture.kwargs))
<1>1. Tags(m) = <<"value">> /\ <<"value">> # << >>
  BY CorrectionTags DEF Registered
<1>2. _resolve_id(m) = m
  <2>1. /\ m \notin {"cross_entropy", "logloss", "brier_score_loss", "brier_score"}
        /\ m \notin {"sortino_ratio", "calmar_ratio", "explained_variance_score"}
        /\ m # "matthews_corrcoef"
    BY DEF Corrections
  <2> QED
    BY <1>1, <2>1, Zenon DEF _resolve_id
<1>3. m # ""
  BY DEF Corrections
<1>4. (\E i \in DOMAIN <<"value">> : Fills(capture.inputs, <<"value">>[i]) = << >>)
        <=> Fills(capture.inputs, "value") = << >>
  OBVIOUS
<1> QED
  BY <1>1, <1>2, <1>3, <1>4 DEF recompute_recipe, Registered

\* The recipes of one call are nested.
LEMMA NestedRecipes ==
  ASSUME Registered, NEW capture, TestsOf(capture)
  PROVE  LET R(m) == recompute_recipe(m, capture)
         IN  /\ AtMost(R("bonferroni_rejections"), R("holm_rejections"))
             /\ AtMost(R("holm_rejections"), R("hochberg_rejections"))
             /\ AtMost(R("hochberg_rejections"), R("bh_rejections"))
             /\ AtMost(R("benjamini_yekutieli"), R("bh_rejections"))
<1> DEFINE I == capture.inputs
           o == ConventionOf(capture.kwargs)
           c == _bind(<<"value">>, I)
           level == Bare(o, Over(1, 20))
           R(m) == recompute_recipe(m, capture)
<1>1. \A m \in Corrections : R(m) = IF Fills(I, "value") = << >> THEN NaN ELSE Value(m, c, o)
  BY CorrectionRecipe
<1>2. /\ Fills(I, "value") # << >> => c.value \in Seq(Fraction)
      /\ Undefined(level) \/ (level \in Fraction /\ Zero \preceq level)
  BY DEF TestsOf
<1>3. \A x : AtMost(NaN, x) /\ AtMost(x, NaN)
  BY DEF AtMost, Undefined, NaN
<1>4. ~Undefined(level) => Number(o, "alpha", Over(1, 20)) = level
  BY OneLevel
<1> HIDE DEF I, o, c, level, R
<1>5. CASE Fills(I, "value") = << >>
  BY <1>1, <1>3, <1>5 DEF Corrections, R
<1>6. CASE Fills(I, "value") # << >> /\ Undefined(level)
  <2>1. R("holm_rejections") = NaN /\ R("bh_rejections") = NaN
    BY <1>1, <1>6, CorrectionKernels DEF Corrections, level
  <2> QED
    BY <1>3, <2>1 DEF R
<1>7. CASE Fills(I, "value") # << >> /\ ~Undefined(level)
  <2>1. /\ R("bonferroni_rejections") = bonferroni_rejections(c.value, level)
        /\ R("holm_rejections") = holm_rejections(c.value, level)
        /\ R("hochberg_rejections") = hochberg_rejections(c.value, level)
        /\ R("bh_rejections") = bh_rejections(c.value, level)
        /\ R("benjamini_yekutieli") = benjamini_yekutieli(c.value, level)
    <3>1. \A m \in Corrections : R(m) = Value(m, c, o)
      BY <1>1, <1>7
    <3>2. Number(o, "alpha", Over(1, 20)) = level
      BY <1>4, <1>7
    <3>3. ~Undefined(Bare(o, Over(1, 20))) /\ level = Bare(o, Over(1, 20))
      BY <1>7 DEF level
    <3> QED
      BY <3>1, <3>2, <3>3, CorrectionKernels DEF Corrections
  <2>2. c.value \in Seq(Fraction) /\ level \in Fraction /\ Zero \preceq level
    BY <1>2, <1>7
  <2> QED
    BY <2>1, <2>2, CorrectionsNested DEF R
<1> QED
  BY <1>5, <1>6, <1>7

\* The answer for a correction is its recipe's, or none.
LEMMA CorrectionAnswer ==
  ASSUME Registered, "" \notin bank, NEW m \in Corrections
  PROVE  LET value == diff_claim(m).value
         IN  value = recompute_recipe(m, case.capture) \/ Undefined(value)
<1> DEFINE recipe == recompute_recipe(m, case.capture)
           answer == recompute_any(m, case.capture)
<1>1. canonical(m) = "" /\ m \notin LEARNED_METRICS /\ _registry_metric(m) = ""
  BY CorrectionNames
<1>2. ~_synthesize_and_validate(m)
  BY <1>1 DEF _synthesize_and_validate, Registered
<1>3. CASE ~Undefined(recipe)
  <2>1. answer = Answer("recipe", recipe)
    <3> HIDE DEF recipe
    <3> QED
      BY <1>1, <1>3 DEF recompute_any, recipe
  <2>2. answer.value = recipe
    <3> HIDE DEF recipe, answer
    <3> QED
      BY <2>1 DEF Answer
  <2>3. diff_claim(m) = answer
    <3> HIDE DEF recipe
    <3> QED
      BY <1>1 DEF diff_claim, Conventional
  <2> QED
    BY <2>2, <2>3
<1>4. CASE Undefined(recipe)
  <2>1. answer = Answer("none", NaN)
    <3> HIDE DEF recipe
    <3> QED
      BY <1>1, <1>2, <1>4 DEF recompute_any, recipe
  <2>2. Undefined(answer.value)
    <3> HIDE DEF recipe, answer
    <3> QED
      BY <2>1 DEF Answer, Undefined, NaN
  <2>3. diff_claim(m) = answer
    <3> HIDE DEF recipe
    <3> QED
      BY <1>1 DEF diff_claim, Conventional
  <2> QED
    BY <2>2, <2>3
<1> QED
  BY <1>3, <1>4

\* Nothing but a recipe answers for a correction.
Answered ==
  \A m \in Corrections :
    Asked(m) =>
      /\ m \in case.claims
      /\ V(m) = recompute_recipe(m, case.capture) \/ Undefined(V(m))
OracleInv == case \in Cases /\ "" \notin bank /\ Answered

\* The answers of the oracle for the corrections for multiple testing are
\* nested, whatever else is claimed, produced or banked: for every list of
\* p-values, and for every level a call may name (recompute_any of
\* spike/synth/formula.py, the adapter, and the recipes' kernels).
THEOREM RejectionsNested ==
  ASSUME Registered, TestCases
  PROVE  Spec => []TestsAgree
<1>1. Init => OracleInv
  BY DEF Init, OracleInv, Answered, Asked
<1>2. ASSUME OracleInv, [Next]_vars
      PROVE  OracleInv'
  <2>1. CASE Verify
    <3>1. case' \in Cases /\ "" \notin bank'
      BY <1>2, <2>1 DEF OracleInv, Verify
    <3>2. ASSUME NEW m \in Corrections, Asked(m)'
          PROVE  /\ m \in case'.claims
                 /\ V(m)' = recompute_recipe(m, case.capture) \/ Undefined(V(m)')
      <4>1. m \in case.claims /\ case' = case /\ report'[m] = diff_claim(m)
        BY <2>1, <3>2 DEF Verify, Asked
      <4>2. V(m)' = diff_claim(m).value
        BY <4>1 DEF V
      <4> QED
        BY <1>2, <4>1, <4>2, CorrectionAnswer DEF OracleInv
    <3>3. case' = case
      BY <2>1 DEF Verify
    <3> QED
      BY <3>1, <3>2, <3>3 DEF OracleInv, Answered
  <2>2. CASE NextRepository
    BY <1>2, <2>2 DEF OracleInv, Answered, Asked, NextRepository
  <2>3. CASE UNCHANGED vars
    BY <1>2, <2>3 DEF OracleInv, Answered, Asked, V, vars
  <2> QED
    BY <1>2, <2>1, <2>2, <2>3 DEF Next
<1>3. ASSUME OracleInv
      PROVE  TestsAgree
  <2> DEFINE R(m) == recompute_recipe(m, case.capture)
  <2>1. ASSUME NEW a \in Corrections, NEW b \in Corrections, Asked(a), Asked(b),
               TestsOf(case.capture) => AtMost(R(a), R(b))
        PROVE  AtMost(V(a), V(b))
    <3>1. /\ V(a) = R(a) \/ Undefined(V(a))
          /\ V(b) = R(b) \/ Undefined(V(b))
          /\ a \in case.claims /\ case \in Cases
      BY <1>3, <2>1 DEF OracleInv, Answered
    <3>2. TestsOf(case.capture)
      BY <3>1 DEF TestCases
    <3> HIDE DEF R
    <3> QED
      BY <2>1, <3>1, <3>2 DEF AtMost
  <2>2. TestsOf(case.capture) =>
          /\ AtMost(R("bonferroni_rejections"), R("holm_rejections"))
          /\ AtMost(R("holm_rejections"), R("hochberg_rejections"))
          /\ AtMost(R("hochberg_rejections"), R("bh_rejections"))
          /\ AtMost(R("benjamini_yekutieli"), R("bh_rejections"))
    BY NestedRecipes
  <2>3. /\ "bonferroni_rejections" \in Corrections /\ "holm_rejections" \in Corrections
        /\ "hochberg_rejections" \in Corrections /\ "bh_rejections" \in Corrections
        /\ "benjamini_yekutieli" \in Corrections
    BY DEF Corrections
  <2> HIDE DEF R
  <2> QED
    BY <2>1, <2>2, <2>3 DEF TestsAgree
<1> QED
  BY <1>1, <1>2, <1>3, PTL DEF Spec
=============================================================================
