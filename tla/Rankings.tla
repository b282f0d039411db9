----------------------------- MODULE Rankings ------------------------------
(***************************************************************************)
(* The kernels of spike/recipes/numeric.py that compare two columns by the *)
(* order of their values: separation of two samples, scores against        *)
(* labels, concordance, rank tests, robust slopes.  Columns hold integers  *)
(* and no NaN; paired columns are equally long.  A kernel that ends in a   *)
(* square root is represented by its signed square.                        *)
(* Definitions named ..._Mutant are faulty variants of those they precede. *)
(***************************************************************************)
EXTENDS Columns
LOCAL INSTANCE Functions

Above(a, b) == Cardinality({ij \in (DOMAIN a) \X (DOMAIN b) : a[ij[1]] > b[ij[2]]})
Ties(a, b) == Cardinality({ij \in (DOMAIN a) \X (DOMAIN b) : a[ij[1]] = b[ij[2]]})
Fractions(a) == Each(a, Q)
Select(a, labels, y) == SelectSeq(Upto(Len(a)), LAMBDA i : labels[i] = y)
Labelled(a, labels, y) == Each(Select(a, labels, y), LAMBDA i : a[i])

(* Two samples *)

\* A pair in order counts 1, a tie a half.
psi_mean_Mutant(a, b) == Over(Above(a, b) + Ties(a, b), Len(a) * Len(b))
psi_mean(a, b) == Over(2 * Above(a, b) + Ties(a, b), 2 * Len(a) * Len(b))

common_language_effect_size(a, b) ==
  Over(Above(a, b), Len(a) * Len(b)) ++ Half ** Over(Ties(a, b), Len(a) * Len(b))

cliffs_delta(a, b) == Over(Above(a, b) - Above(b, a), Len(a) * Len(b))

\* Midranks: tied values share the mean of their ranks.
avg_ranks(xs) ==
  [i \in DOMAIN xs |->
     LET below == Count(Len(xs), LAMBDA j : xs[j] < xs[i])
         same == Count(Len(xs), LAMBDA j : xs[j] = xs[i])
     IN  Over(2 * below + same + 1, 2)]

\* The ranks the rows of a have among those of both.
RanksIn(a, b) == SubSeq(avg_ranks(a \o b), 1, Len(a))
RanksAfter(a, b) == SubSeq(avg_ranks(a \o b), Len(a) + 1, Len(a) + Len(b))

rank_biserial(a, b) ==
  LET u == Total(RanksIn(a, b)) -- Over(Len(a) * (Len(a) + 1), 2)
  IN  One -- (Q(2) ** u) // Q(Len(a) * Len(b))

wilcoxon_rank_sum(a, b) ==
  LET n == Len(a) + Len(b) + 1
      excess == Total(RanksIn(a, b)) -- Over(Len(a) * n, 2)
  IN  SignedSquare(excess) // Over(Len(a) * Len(b) * n, 12)

mood_test(a, b) ==
  LET n == Len(a) + Len(b)
      t == Total(Each(RanksIn(a, b), LAMBDA r : Square(r -- Over(n + 1, 2))))
      var == Over(Len(a) * Len(b) * (n + 1) * (n * n - 4), 180)
  IN  IF Zero \prec var THEN SignedSquare(t -- Over(Len(a) * (n * n - 1), 12)) // var ELSE NaN

ansari_bradley(a, b) ==
  IF Len(a) < 1 \/ Len(b) < 1 THEN NaN
  ELSE Total(Each(RanksIn(a, b), LAMBDA r : Smaller(r, Q(Len(a) + Len(b) + 1) -- r)))

brunner_munzel(a, b) ==
  LET m1 == fmean(RanksIn(a, b))
      m2 == fmean(RanksAfter(a, b))
      spread(all, own, m) ==
        Total(Pairs(all, own, LAMBDA r, i : Square((r -- i) -- (m -- Over(Len(own) + 1, 2)))))
          // Q(Len(own) - 1)
      s == Q(Len(a)) ** spread(RanksIn(a, b), avg_ranks(a), m1)
             ++ Q(Len(b)) ** spread(RanksAfter(a, b), avg_ranks(b), m2)
  IN  IF Len(a) < 2 \/ Len(b) < 2 THEN NaN
      ELSE SignedSquare(Over(Len(a) * Len(b), Len(a) + Len(b)) ** (m2 -- m1)) // s

\* Above, and at or below, the common median, corrected for continuity.
mood_median_test(a, b) ==
  LET grand == quantile(Fractions(a \o b), Half)
      over(s) == Count(Len(s), LAMBDA i : grand \prec Q(s[i]))
      n == Len(a) + Len(b)
      all == over(a) + over(b)
      cell(o, rows, size) ==
        LET e == Over(rows * size, n) IN Square(Abs(Q(o) -- e) -- Half) // e
  IN  IF a = << >> \/ b = << >> THEN NaN
      ELSE (cell(over(a), all, Len(a)) ++ cell(over(b), all, Len(b)))
             ++ (cell(Len(a) - over(a), n - all, Len(a)) ++ cell(Len(b) - over(b), n - all, Len(b)))

(* The empirical distribution functions of two samples *)
ecdf(a, v) == Over(Count(Len(a), LAMBDA i : a[i] <= v), Len(a))

Gap(a, b, v) == Abs(ecdf(a, v) -- ecdf(b, v))
Support(a, b) ==
  LET S == Range(a) \cup Range(b)
  IN  [k \in 1..Cardinality(S) |-> CHOOSE v \in S : Cardinality({w \in S : w <= v}) = k]

ks_d(a, b) == Largest(<<Zero>> \o Each(a \o b, LAMBDA v : Gap(a, b, v)))

ks_2samp(a, b) ==
  IF a = << >> \/ b = << >> THEN NaN
  ELSE Largest(<<Zero>> \o Each(Support(a, b), LAMBDA v : Gap(a, b, v)))

\* The integral of a function of the gap over the common support.
Integral(a, b, f(_)) ==
  LET v == Support(a, b)
  IN  IF a = << >> \/ b = << >> THEN NaN
      ELSE Sum(Len(v) - 1, LAMBDA i : f(Gap(a, b, v[i])) ** Q(v[i + 1] - v[i]))

wasserstein_1d(a, b) == Integral(a, b, LAMBDA g : g)
energy_distance(a, b) == Q(2) ** Integral(a, b, Square)

----------------------------------------------------------------------------
(* Scores against labels: 1 is positive, 0 negative. *)

auc(scores, labels) == psi_mean(Labelled(scores, labels, 1), Labelled(scores, labels, 0))
gini_norm(scores, labels) == Q(2) ** auc(scores, labels) -- One

auc_delong_se(scores, labels) ==
  LET pos == Labelled(scores, labels, 1)
      neg == Labelled(scores, labels, 0)
      v10 == Each(pos, LAMBDA p : psi_mean(<<p>>, neg))
      v01 == Each(neg, LAMBDA q : psi_mean(pos, <<q>>))
  IN  fvar(v10, 1) // Q(Len(pos)) ++ fvar(v01, 1) // Q(Len(neg))

ks_statistic(scores, labels) ==
  LET pos == Labelled(scores, labels, 1)
      neg == Labelled(scores, labels, 0)
  IN  IF pos = << >> \/ neg = << >> THEN NaN ELSE ks_d(pos, neg)

\* The curve of precision over recall: one point for each distinct score.
CurveSum(scores, labels, height(_)) ==
  LET rows(Test(_)) == Count(Len(scores), Test)
      pos == rows(LAMBDA i : labels[i] = 1)
      precision(t) == Over(rows(LAMBDA i : scores[i] >= t /\ labels[i] = 1),
                           rows(LAMBDA i : scores[i] >= t))
      step(t) == Over(rows(LAMBDA i : scores[i] = t /\ labels[i] = 1), pos)
      above(t) == {u \in Range(scores) : u > t}
      before(t) == IF above(t) = {} THEN One
                   ELSE precision(CHOOSE u \in above(t) : \A w \in above(t) : u <= w)
  IN  IF pos = 0 THEN NaN
      ELSE SumOver(Range(scores),
                   LAMBDA t : step(t) ** height([at |-> precision(t), before |-> before(t)]))

average_precision(scores, labels) == CurveSum(scores, labels, LAMBDA p : p.at)
pr_auc_trapezoid(scores, labels) ==
  CurveSum(scores, labels, LAMBDA p : Half ** (p.before ++ p.at))

----------------------------------------------------------------------------
(* Dependence of two paired columns *)

spearman_r(xs, ys) == IF Len(xs) < 2 THEN NaN ELSE pearson_r(avg_ranks(xs), avg_ranks(ys))

Sign(x) == IF x > 0 THEN 1 ELSE IF x < 0 THEN -1 ELSE 0

\* The pairs of rows i < j that move together (1), apart (-1), or tie in one column.
RowPairs(n) == {ij \in (1..n) \X (1..n) : ij[1] < ij[2]}
Moving(xs, ys, way) ==
  Cardinality({ij \in RowPairs(Len(xs)) :
    Sign(xs[ij[1]] - xs[ij[2]]) * Sign(ys[ij[1]] - ys[ij[2]]) = way})
TiedIn(xs, ys) ==
  Cardinality({ij \in RowPairs(Len(xs)) : xs[ij[1]] = xs[ij[2]] /\ ys[ij[1]] # ys[ij[2]]})
tie_pairs(xs) == Cardinality({ij \in RowPairs(Len(xs)) : xs[ij[1]] = xs[ij[2]]})

kendall_tau(xs, ys) ==
  LET pairs == Cardinality(RowPairs(Len(xs)))
  IN  SignedSquare(Q(Moving(xs, ys, 1) - Moving(xs, ys, -1)))
        // Q((pairs - tie_pairs(xs)) * (pairs - tie_pairs(ys)))

somers_d(xs, ys) ==
  LET c == Moving(xs, ys, 1)
      d == Moving(xs, ys, -1)
  IN  Over(c - d, c + d + TiedIn(ys, xs))

goodman_kruskal_gamma(xs, ys) ==
  LET c == Moving(xs, ys, 1)
      d == Moving(xs, ys, -1)
  IN  Over(c - d, c + d)

blomqvist_beta(xs, ys) ==
  LET n == Len(xs)
      mx == quantile(Fractions(xs), Half)
      my == quantile(Fractions(ys), Half)
      side(i) == Signum((Q(xs[i]) -- mx) ** (Q(ys[i]) -- my))
      same == Count(n, LAMBDA i : side(i) = 1)
      other == Count(n, LAMBDA i : side(i) = -1)
  IN  IF n = 0 THEN NaN ELSE Over(same - other, same + other)

chatterjee_xi(xs, ys) ==
  LET n == Len(xs)
      order == RowsBy(n, LAMBDA i : Q(xs[i]))
      y == [i \in 1..n |-> ys[order[i]]]
      r(i) == Count(n, LAMBDA j : y[j] <= y[i])
      l(i) == Count(n, LAMBDA j : y[j] >= y[i])
      den == Sum(n, LAMBDA i : Q(2 * l(i) * (n - l(i))))
  IN  One -- (Q(n) ** Sum(n - 1, LAMBDA i : Q(Magnitude(r(i + 1) - r(i))))) // den

\* Slopes through the pairs of rows that differ in x.
Slope(xs, ys, i, j) == Over(ys[j] - ys[i], xs[j] - xs[i])
SlopesOf(xs, ys, S) ==
  Listed({ij \in S : xs[ij[1]] # xs[ij[2]]}, LAMBDA ij : Slope(xs, ys, ij[1], ij[2]))
theil_sen_slope(xs, ys) == quantile(SlopesOf(xs, ys, RowPairs(Len(xs))), Half)

siegel_slope(xs, ys) ==
  LET n == Len(xs)
      from(i) == SlopesOf(xs, ys, {i} \X (1..n))
      rows == SelectSeq(Upto(n), LAMBDA i : from(i) # << >>)
  IN  quantile(Each(rows, LAMBDA i : quantile(from(i), Half)), Half)

\* Its fourth power: the distances of the rows, centred in both directions.
distance_correlation(xs, ys) ==
  LET n == Len(xs)
      cells == (1..n) \X (1..n)
      far(v, i, j) == Q(Magnitude(v[i] - v[j]))
      mean(v, i) == MeanOver(1..n, LAMBDA j : far(v, i, j))
      centred(v, i, j) ==
        ((far(v, i, j) -- mean(v, i)) -- mean(v, j)) ++ MeanOver(1..n, LAMBDA k : mean(v, k))
      dcov(v, w) ==
        MeanOver(cells, LAMBDA ij : centred(v, ij[1], ij[2]) ** centred(w, ij[1], ij[2]))
  IN  IF n < 2 THEN NaN
      ELSE Square(Larger(Zero, dcov(xs, ys))) // (dcov(xs, xs) ** dcov(ys, ys))

\* Pairs where the first died earlier; the higher score should survive longer.
concordance_index(times, scores, events) ==
  LET n == Len(times)
      usable == {ij \in (1..n) \X (1..n) : events[ij[1]] = 1 /\ times[ij[1]] < times[ij[2]]}
      right == {ij \in usable : scores[ij[1]] < scores[ij[2]]}
      tied == {ij \in usable : scores[ij[1]] = scores[ij[2]]}
  IN  Over(2 * Cardinality(right) + Cardinality(tied), 2 * Cardinality(usable))

point_biserial(binary, value) == pearson_r(Fractions(binary), Fractions(value))
=============================================================================
