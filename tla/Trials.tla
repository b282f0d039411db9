------------------------------- MODULE Trials -------------------------------
(***************************************************************************)
(* The kernels of spike/recipes/numeric.py that compare a treatment with a *)
(* control: differences of means and of risks, standardised differences,   *)
(* CUPED, and the tests.  Columns hold fractions.  A test that ends in the *)
(* tail probability of its statistic is represented by the statistic, and  *)
(* a kernel or statistic that ends in a square root by its signed square.  *)
(***************************************************************************)
EXTENDS Partitions

Difference(a, b) == fmean(a) -- fmean(b)

average_treatment_effect(treatment, control) == Difference(treatment, control)
risk_difference(treatment, control) == Difference(treatment, control)
lift(control, treatment, mode) ==
  IF mode = "absolute" THEN Difference(treatment, control)
  ELSE Difference(treatment, control) // fmean(control)
relative_risk_reduction(treatment, control) == Difference(control, treatment) // fmean(control)
number_needed_to_treat(treatment, control) == One // Abs(Difference(treatment, control))

(* Standardised differences, squared *)
PooledVariance(a, b) ==
  (Q(Len(a) - 1) ** fvar(a, 1) ++ Q(Len(b) - 1) ** fvar(b, 1)) // Q(Len(a) + Len(b) - 2)
Standardised(a, b, var) == SignedSquare(Difference(a, b)) // var

cohen_d(a, b) == Standardised(a, b, PooledVariance(a, b))
glass_delta(a, b) == Standardised(a, b, fvar(b, 1))
hedges_g(a, b) ==
  Square(One -- Over(3, 4 * (Len(a) + Len(b)) - 9)) ** cohen_d(a, b)
standardized_mean_difference(treatment, control) ==
  Standardised(treatment, control, Half ** (fvar(treatment, 1) ++ fvar(control, 1)))

\* The standard error of the difference: of one variance, or of two.
t_test_p(a, b, mode) ==
  Standardised(a, b,
    IF mode = "pooled" THEN PooledVariance(a, b) ** (Over(1, Len(a)) ++ Over(1, Len(b)))
    ELSE fvar(a, 1) // Q(Len(a)) ++ fvar(b, 1) // Q(Len(b)))

proportion_z_p(a, b) ==
  LET rate(xs) == ratio_share(xs)
      pool == ratio_share(a \o b)
      var == (pool ** (One -- pool)) ** (Over(1, Len(a)) ++ Over(1, Len(b)))
  IN  SignedSquare(rate(a) -- rate(b)) // var

\* Discordant pairs, with Edwards' correction.
mcnemar_p(a, b) ==
  LET only(x, y) == Count(Len(a), LAMBDA i : x[i] # Zero /\ y[i] = Zero)
      excess == Magnitude(only(a, b) - only(b, a)) - 1
  IN  Over(excess * excess, only(a, b) + only(b, a))

\* The rank tests: the statistic is corrected for ties; mann_whitney_p also
\* for continuity.
mann_whitney_p(a, b) ==
  LET n == Len(a) + Len(b)
      u == Total(RanksIn(a, b)) -- Over(Len(a) * (Len(a) + 1), 2)
      var == Over(Len(a) * Len(b), 12) ** (Q(n + 1) -- (tie_term(a \o b) // Q(n * (n - 1))))
  IN  SignedSquare(Abs(u -- Over(Len(a) * Len(b), 2)) -- Half) // var

wilcoxon_signed_rank(a, b) ==
  LET d == Having([i \in DOMAIN a |-> a[i] - b[i]], LAMBDA x : x # 0)
      n == Len(d)
      sizes == Each(d, Magnitude)
      up == Total(Where(avg_ranks(sizes), LAMBDA i : d[i] > 0))
      var == Over(n * (n + 1) * (2 * n + 1), 24) -- (tie_term(sizes) // Q(48))
  IN  SignedSquare(up -- Over(n * (n + 1), 4)) // var

\* The two-sample Kolmogorov-Smirnov statistic, scaled by the sample sizes, squared.
ks_p(a, b) == Over(Len(a) * Len(b), Len(a) + Len(b)) ** Square(ks_2samp(a, b))

(* CUPED: the outcome less its part explained by the covariate *)
Adjusted(value, covariate) ==
  LET theta == covariance(value, covariate) // fvar(covariate, 1)
  IN  Pairs(value, covariate, LAMBDA y, x : y -- theta ** (x -- fmean(covariate)))
cuped_ate(value, covariate, group) ==
  LET adjusted == Adjusted(value, covariate)
  IN  fmean(Where(adjusted, LAMBDA i : group[i] # 0)) -- fmean(Where(adjusted, LAMBDA i : group[i] = 0))
variance_reduction_cuped(value, covariate) ==
  One -- (fvar(Adjusted(value, covariate), 1) // fvar(value, 1))
=============================================================================
