------------------------------- MODULE Ratio --------------------------------
(***************************************************************************)
(* The numbers of the recipe kernels (spike/recipes/numeric.py).  The      *)
(* kernels are written with correctly rounded sums, products and           *)
(* quotients; here they are exact: a number is a fraction in lowest terms. *)
(* NaN is what the code returns where a kernel is undefined; a kernel that *)
(* would raise (a division by zero) is NaN as well, which is what the      *)
(* adapter makes of it.  Rounding, signed zeros and overflow to infinity   *)
(* are left out.                                                           *)
(***************************************************************************)
EXTENDS Integers, Sequences, FiniteSets
LOCAL INSTANCE SequencesExt
LOCAL INSTANCE FiniteSetsExt

Gcd[p \in Nat \X Nat] == IF p[2] = 0 THEN p[1] ELSE Gcd[<<p[2], p[1] % p[2]>>]

Magnitude(a) == IF a < 0 THEN -a ELSE a

NaN == [n |-> 0, d |-> 0]
Infinity == [n |-> 1, d |-> 0]

\* The quotient of two integers.
Over(a, b) ==
  IF b = 0 THEN NaN
  ELSE LET g == Gcd[<<Magnitude(a), Magnitude(b)>>]
           s == IF b < 0 THEN -1 ELSE 1
       IN  [n |-> (s * a) \div g, d |-> Magnitude(b) \div g]

Q(a) == [n |-> a, d |-> 1]
Zero == Q(0)
One == Q(1)
Half == Over(1, 2)

Undefined(x) == x.d = 0

x ++ y == Over(x.n * y.d + y.n * x.d, x.d * y.d)
x -- y == Over(x.n * y.d - y.n * x.d, x.d * y.d)
x ** y == Over(x.n * y.n, x.d * y.d)
x // y == IF Undefined(x) \/ Undefined(y) THEN NaN ELSE Over(x.n * y.d, x.d * y.n)

\* Comparisons with NaN are false.
x \prec y == x.d # 0 /\ y.d # 0 /\ x.n * y.d < y.n * x.d
x \preceq y == x.d # 0 /\ y.d # 0 /\ x.n * y.d <= y.n * x.d

\* How answers compare: what is undefined says nothing.
Same(x, y) == x = y \/ Undefined(x) \/ Undefined(y)
AtMost(x, y) == x \preceq y \/ Undefined(x) \/ Undefined(y)

Square(x) == x ** x
Cube(x) == x ** x ** x
Abs(x) == [x EXCEPT !.n = Magnitude(@)]
Negate(x) == [x EXCEPT !.n = -@]
Signum(x) == IF x.n > 0 THEN 1 ELSE IF x.n < 0 THEN -1 ELSE 0

\* A quotient by a square root is represented by its square, with its sign.
SignedSquare(x) == Q(Signum(x)) ** x ** x

Larger(x, y) == IF x \prec y THEN y ELSE x
Smaller(x, y) == IF y \prec x THEN y ELSE x

\* max() and min() of Python: the first of the largest, in order.
Largest(xs) == FoldLeft(Larger, xs[1], xs)
Smallest(xs) == FoldLeft(Smaller, xs[1], xs)

\* The integers of 1..n in order, to range over a column.
Upto(n) == [i \in 1..n |-> i]
Each(xs, f(_)) == [i \in DOMAIN xs |-> f(xs[i])]
Pairs(xs, ys, f(_, _)) == [i \in DOMAIN xs |-> f(xs[i], ys[i])]

Times(x, y) == x ** y
Total(xs) ==
  LET upto[k \in 0..Len(xs)] == IF k = 0 THEN Zero ELSE upto[k - 1] ++ xs[k]
  IN  upto[Len(xs)]
Product(xs) == FoldLeft(Times, One, xs)
Power(x, k) == Product([i \in 1..k |-> x])
Sum(n, f(_)) == Total([i \in 1..n |-> f(i)])

Listed(S, f(_)) == FoldSet(LAMBDA x, xs : Append(xs, f(x)), << >>, S)
SumOver(S, f(_)) == Total(Listed(S, f))
MeanOver(S, f(_)) == SumOver(S, f) // Q(Cardinality(S))

\* The rows 1..n by a rising key, rows of equal keys in their order.
RowsBy(n, key(_)) ==
  LET ahead(i, j) == key(i) \prec key(j) \/ (key(i) = key(j) /\ i <= j)
      place == [j \in 1..n |-> Cardinality({i \in 1..n : ahead(i, j)})]
  IN  [k \in 1..n |-> CHOOSE i \in 1..n : place[i] = k]

Sorted(xs) == Each(RowsBy(Len(xs), LAMBDA i : xs[i]), LAMBDA i : xs[i])

\* The elements of a column that satisfy a test, in order.
Having(xs, Test(_)) == SelectSeq(xs, Test)
Where(xs, Test(_)) == Each(SelectSeq(Upto(Len(xs)), Test), LAMBDA i : xs[i])
Count(n, Test(_)) == Cardinality({i \in 1..n : Test(i)})

fmean(xs) == Total(xs) // Q(Len(xs))

fvar(xs, ddof) ==
  IF Len(xs) - ddof <= 0 THEN NaN
  ELSE LET mu == fmean(xs)
       IN  Sum(Len(xs), LAMBDA i : Square(xs[i] -- mu)) // Q(Len(xs) - ddof)

Floor(x) == x.n \div x.d
Ceiling(x) == -((-x.n) \div x.d)

quantile(xs, q) ==
  IF xs = << >> \/ ~(Zero \preceq q /\ q \preceq One) THEN NaN
  ELSE LET ys == Sorted(xs)
           h == Q(Len(xs) - 1) ** q
           lo == Floor(h)
           frac == h -- Q(lo)
       IN  IF frac = Zero THEN ys[lo + 1]
           ELSE ys[lo + 1] ++ frac ** (ys[lo + 2] -- ys[lo + 1])
=============================================================================
