----------------------------- MODULE Partitions -----------------------------
(***************************************************************************)
(* The kernels of spike/recipes/numeric.py over labels: two clusterings of *)
(* the same rows, contingency tables of (group, outcome) rows, values by   *)
(* group, and the multiple-testing corrections.  Labels are integers, so   *)
(* that the sorted keys of a table are known.  A test that ends in the     *)
(* tail probability of its statistic is represented by the statistic; a    *)
(* kernel that ends in a square root by its signed square.                 *)
(* Definitions named ..._Mutant are faulty variants of those they precede. *)
(***************************************************************************)
EXTENDS Rankings
LOCAL INSTANCE Functions

Members(xs, v) == {i \in DOMAIN xs : xs[i] = v}
Size(xs, v) == Cardinality(Members(xs, v))
\* The rows with label v in one column and w in the other.
cell(a, b, v, w) == Cardinality(Members(a, v) \cap Members(b, w))

(* Two clusterings of the same rows *)
PairsWithin(xs) == SumOver(Range(xs), LAMBDA v : Q(Subsets(Size(xs, v), 2))).n
Joint(a, b) == [i \in DOMAIN a |-> <<a[i], b[i]>>]
pair_counts(a, b) ==
  [joint |-> PairsWithin(Joint(a, b)), a |-> PairsWithin(a), b |-> PairsWithin(b),
   all |-> Subsets(Len(a), 2)]

\* Agreeing pairs: together in both, or apart in both.
rand_index_Mutant(a, b) ==
  LET k == pair_counts(a, b)
  IN  IF a = << >> THEN NaN ELSE IF k.all = 0 THEN One
      ELSE Over(k.all + k.joint - k.a - k.b, k.all)
rand_index(a, b) ==
  LET k == pair_counts(a, b)
  IN  IF a = << >> THEN NaN ELSE IF k.all = 0 THEN One
      ELSE Over(k.all + 2 * k.joint - k.a - k.b, k.all)

adjusted_rand_index(a, b) ==
  LET k == pair_counts(a, b)
      chance == Over(k.a * k.b, k.all)
      room == Over(k.a + k.b, 2) -- chance
  IN  IF a = << >> THEN NaN ELSE IF k.all = 0 THEN One
      ELSE IF room = Zero THEN (IF Q(k.joint) = chance THEN One ELSE Zero)
      ELSE (Q(k.joint) -- chance) // room

fowlkes_mallows_clustering(a, b) ==                                             \* squared
  LET k == pair_counts(a, b)
  IN  IF a = << >> THEN NaN ELSE IF k.a = 0 \/ k.b = 0 THEN Zero
      ELSE Over(k.joint * k.joint, k.a * k.b)

purity(pred, label) ==
  LET overlap(c) == Largest(Listed(Range(label), LAMBDA l : Q(cell(pred, label, c, l))))
  IN  SumOver(Range(pred), overlap) // Q(Len(pred))

bcubed(pred, label, of) ==
  fmean([i \in DOMAIN pred |-> Over(cell(pred, label, pred[i], label[i]), Size(of, of[i]))])
bcubed_precision(pred, label) == bcubed(pred, label, pred)
bcubed_recall(pred, label) == bcubed(pred, label, label)
bcubed_f1(pred, label) ==
  LET p == bcubed_precision(pred, label)
      r == bcubed_recall(pred, label)
  IN  (Q(2) ** p ** r) // (p ++ r)

----------------------------------------------------------------------------
(* Contingency tables of (group, outcome) rows *)
Degrees(groups, outcomes) ==
  (Cardinality(Range(groups)) - 1) * (Cardinality(Range(outcomes)) - 1)

chi_square(groups, outcomes, yates) ==
  LET expected(r, c) == Over(Size(groups, r) * Size(outcomes, c), Len(groups))
      \* Yates moves the observed count half a unit towards the expected.
      observed(r, c) ==
        LET o == Q(cell(groups, outcomes, r, c))
        IN  IF yates /\ Degrees(groups, outcomes) = 1
              THEN o ++ Half ** Q(Signum(expected(r, c) -- o)) ELSE o
  IN  IF Cardinality(Range(groups)) < 2 \/ Cardinality(Range(outcomes)) < 2 THEN NaN
      ELSE SumOver(Range(groups) \X Range(outcomes), LAMBDA rc :
             Square(observed(rc[1], rc[2]) -- expected(rc[1], rc[2])) // expected(rc[1], rc[2]))

Uncorrected(groups, outcomes) == chi_square(groups, outcomes, FALSE)
\* The strengths of association, squared (tschuprow_t: its fourth power).
cramers_v(groups, outcomes) ==
  Uncorrected(groups, outcomes)
    // (Q(Len(groups)) ** Smaller(Q(Cardinality(Range(groups)) - 1),
                                  Q(Cardinality(Range(outcomes)) - 1)))
tschuprow_t(groups, outcomes) ==
  Square(Uncorrected(groups, outcomes) // Q(Len(groups))) // Q(Degrees(groups, outcomes))
pearson_contingency_coefficient(groups, outcomes) ==
  LET stat == Uncorrected(groups, outcomes) IN stat // (stat ++ Q(Len(groups)))
cohens_w(groups, outcomes) == Uncorrected(groups, outcomes) // Q(Len(groups))

\* Exactly two groups and two outcomes, in the order of their keys.
table_2x2(groups, outcomes) ==
  LET low(xs) == CHOOSE v \in Range(xs) : \A w \in Range(xs) : v <= w
      high(xs) == CHOOSE v \in Range(xs) : \A w \in Range(xs) : v >= w
  IN  [a |-> cell(groups, outcomes, low(groups), low(outcomes)),
       b |-> cell(groups, outcomes, low(groups), high(outcomes)),
       c |-> cell(groups, outcomes, high(groups), low(outcomes)),
       d |-> cell(groups, outcomes, high(groups), high(outcomes))]
Is2x2(groups, outcomes) ==
  Cardinality(Range(groups)) = 2 /\ Cardinality(Range(outcomes)) = 2

\* The tables with the same margins whose weight is within the gate.
fisher_exact_p(t) ==
  LET r1 == t.a + t.b
      r2 == t.c + t.d
      c1 == t.a + t.c
      weight(x) == Subsets(r1, x) * Subsets(r2, c1 - x)
      gate == weight(t.a) + weight(t.a) \div 10000000 + 1
      tables == {x \in 0..c1 : x <= r1 /\ c1 - x <= r2}
  IN  Smaller(One, SumOver({x \in tables : weight(x) <= gate}, LAMBDA x : Q(weight(x)))
                     // Q(Subsets(r1 + r2, c1)))

odds_ratio_2x2(t, haldane) ==
  LET h(k) == IF haldane THEN Q(k) ++ Half ELSE Q(k)
  IN  (h(t.a) ** h(t.d)) // (h(t.b) ** h(t.c))
relative_risk_2x2(t) == Over(t.a, t.a + t.b) // Over(t.c, t.c + t.d)

\* The departure of the group sizes from an equal split.
srm_pvalue(group) ==
  LET equal == Over(Len(group), Cardinality(Range(group)))
  IN  IF Cardinality(Range(group)) < 2 THEN NaN
      ELSE SumOver(Range(group), LAMBDA g : Square(Q(Size(group, g)) -- equal) // equal)

----------------------------------------------------------------------------
(* Values by group *)
Own(groups, values, g) == Where(values, LAMBDA i : groups[i] = g)
Between(groups, values) ==
  SumOver(Range(groups), LAMBDA g :
    Q(Size(groups, g)) ** Square(fmean(Own(groups, values, g)) -- fmean(values)))
Within(groups, values) == SumOver(Range(groups), LAMBDA g : Scatter(Own(groups, values, g)))
GroupCount(groups) == Cardinality(Range(groups))
Residual(groups) == Len(groups) - GroupCount(groups)

eta_squared(groups, values) ==
  IF GroupCount(groups) < 2 THEN NaN ELSE Between(groups, values) // Scatter(values)

MeanSquares(groups, values) ==
  (Between(groups, values) // Q(GroupCount(groups) - 1))
    // (Within(groups, values) // Q(Residual(groups)))
anova_p(groups, values) ==
  IF GroupCount(groups) < 2 \/ Residual(groups) <= 0 THEN NaN ELSE MeanSquares(groups, values)

\* omega and epsilon discount the noise expected between the groups.
anova_ss(groups, values) ==
  LET ssb == Between(groups, values)
      sst == Scatter(values)
  IN  [ssb |-> ssb, sst |-> sst,
       msw |-> IF GroupCount(groups) < 2 THEN NaN ELSE (sst -- ssb) // Q(Residual(groups))]
Discounted(groups, ss) == ss.ssb -- Q(GroupCount(groups) - 1) ** ss.msw
omega_squared(groups, values) ==
  LET ss == anova_ss(groups, values) IN Discounted(groups, ss) // (ss.sst ++ ss.msw)
epsilon_squared(groups, values) ==
  LET ss == anova_ss(groups, values) IN Discounted(groups, ss) // ss.sst
cohens_f(groups, values) ==                                                     \* squared
  LET ss == anova_ss(groups, values)
      eta2 == ss.ssb // ss.sst
  IN  IF Undefined(ss.msw) THEN NaN ELSE eta2 // (One -- eta2)

\* Brown-Forsythe: the analysis of variance of the distances to the medians.
levene(groups, values) ==
  LET median(g) == quantile(Own(groups, values, g), Half)
      z == [i \in DOMAIN values |-> Abs(values[i] -- median(groups[i]))]
  IN  IF GroupCount(groups) < 2 THEN NaN
      ELSE (Over(Residual(groups), GroupCount(groups) - 1) ** Between(groups, z))
             // Within(groups, z)

tie_term(xs) == SumOver(Range(xs), LAMBDA v : Q(Size(xs, v) * (Size(xs, v) * Size(xs, v) - 1)))
kruskal_wallis(groups, xs) ==
  LET n == Len(xs)
      ranksum(g) == Total(Own(groups, avg_ranks(xs), g))
      h == (Over(12, n * (n + 1))
              ** SumOver(Range(groups), LAMBDA g : Square(ranksum(g)) // Q(Size(groups, g))))
             -- Q(3 * (n + 1))
  IN  IF GroupCount(groups) < 2 THEN NaN ELSE h // (One -- (tie_term(xs) // Q(n * n * n - n)))

----------------------------------------------------------------------------
(* How many hypotheses each correction rejects.  A step-up rule rejects    *)
(* all up to the last rank within its bound, a step-down rule stops before *)
(* the first one beyond it.                                                *)
StepUp(pvals, bound(_)) ==
  LET ranks == {k \in DOMAIN pvals : Sorted(pvals)[k] \preceq bound(k)}
  IN  IF pvals = << >> THEN NaN
      ELSE Q(Cardinality({k \in DOMAIN pvals : \E l \in ranks : k <= l}))
StepDown(pvals, bound(_)) ==
  LET ranks == {k \in DOMAIN pvals : Sorted(pvals)[k] \preceq bound(k)}
  IN  IF pvals = << >> THEN NaN
      ELSE Q(Cardinality({k \in DOMAIN pvals : \A l \in 1..k : l \in ranks}))

bonferroni_rejections(pvals, alpha) ==
  IF pvals = << >> THEN NaN
  ELSE Q(Count(Len(pvals), LAMBDA i : pvals[i] \preceq alpha // Q(Len(pvals))))
holm_rejections(pvals, alpha) == StepDown(pvals, LAMBDA k : alpha // Q(Len(pvals) - k + 1))
\* A step-up rule of the bounds of holm.
hochberg_rejections_Mutant(pvals, alpha) ==
  StepUp(pvals, LAMBDA k : alpha // Q(Len(pvals) - k + 2))
hochberg_rejections(pvals, alpha) == StepUp(pvals, LAMBDA k : alpha // Q(Len(pvals) - k + 1))
bh_rejections(pvals, alpha) == StepUp(pvals, LAMBDA k : Over(k, Len(pvals)) ** alpha)
benjamini_yekutieli(pvals, alpha) ==
  LET c == Sum(Len(pvals), LAMBDA i : Over(1, i))
  IN  StepUp(pvals, LAMBDA k : (Over(k, Len(pvals)) ** alpha) // c)
=============================================================================
