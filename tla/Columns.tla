------------------------------ MODULE Columns -------------------------------
(***************************************************************************)
(* The kernels of spike/recipes/numeric.py over one column of numbers, and *)
(* the distances and moments of two: location, dispersion, inequality,     *)
(* concentration, shape, the series diagnostics, latency and reliability.  *)
(* A column is a sequence of fractions without NaN; a column of raw cells  *)
(* is a sequence of values, Null standing for every null token.  A kernel  *)
(* that ends in a square root is represented by its signed square (the     *)
(* comment says "squared").                                                *)
(***************************************************************************)
EXTENDS Ratio
LOCAL INSTANCE Functions
LOCAL INSTANCE Combinatorics

Null == "null"

\* The subsets of size k of a set of size n.
Subsets(n, k) == IF k > n THEN 0 ELSE choose(n, k)

NonNegative(xs) == \A i \in DOMAIN xs : xs[i].n >= 0
Positive(xs) == \A i \in DOMAIN xs : xs[i].n > 0
Percent(p) == Over(p, 100)
SquareSum(xs) == Total(Each(xs, Square))
\* A denominator of zero or less leaves the quotient undefined.
PerPositive(x, y) == IF Zero \prec y THEN x // y ELSE NaN
Diffs(xs) == [i \in 1..(Len(xs) - 1) |-> xs[i + 1] -- xs[i]]
Reversed(xs) == [i \in DOMAIN xs |-> xs[Len(xs) + 1 - i]]
\* The central moments: the mean of (x - mean)^k.
Centred(xs) == Each(xs, LAMBDA x : x -- fmean(xs))
Cross(xs, ys) == Total(Pairs(Centred(xs), Centred(ys), Times))
Scatter(xs) == Cross(xs, xs)

(* Sums, extremes, quantiles *)
col_sum(xs) == Total(xs)
col_mean(xs) == fmean(xs)
col_median(xs) == quantile(xs, Half)
col_min(xs) == IF xs = << >> THEN NaN ELSE Smallest(xs)
col_max(xs) == IF xs = << >> THEN NaN ELSE Largest(xs)
peak(xs) == IF xs = << >> THEN NaN ELSE Largest(xs)
range_value(xs) == col_max(xs) -- col_min(xs)
variance(xs) == fvar(xs, 1)
col_std(xs) == IF Len(xs) < 2 THEN NaN ELSE fvar(xs, 1)          \* squared
iqr(xs) == quantile(xs, Percent(75)) -- quantile(xs, Percent(25))

outlier_count(xs, k) ==
  LET q1 == quantile(xs, Percent(25))
      q3 == quantile(xs, Percent(75))
      reach == k ** (q3 -- q1)
  IN  IF xs = << >> \/ k \preceq Zero THEN NaN
      ELSE Q(Count(Len(xs), LAMBDA i : xs[i] \prec (q1 -- reach) \/ (q3 ++ reach) \prec xs[i]))

mean_abs_deviation(xs) == fmean(Each(Centred(xs), Abs))
median_abs_deviation(xs) ==
  quantile(Each(xs, LAMBDA x : Abs(x -- quantile(xs, Half))), Half)
relative_mean_deviation(xs) == mean_abs_deviation(xs) // Abs(fmean(xs))
quartile_coefficient_dispersion(xs) ==
  iqr(xs) // (quantile(xs, Percent(75)) ++ quantile(xs, Percent(25)))
index_of_dispersion(xs) == fvar(xs, 1) // fmean(xs)
midhinge(xs) == Half ** (quantile(xs, Percent(25)) ++ quantile(xs, Percent(75)))
trimean(xs) == Half ** (midhinge(xs) ++ quantile(xs, Half))
gastwirth_location(xs) ==
  Over(3, 10) ** (quantile(xs, Over(1, 3)) ++ quantile(xs, Over(2, 3)))
    ++ Over(4, 10) ** quantile(xs, Half)
hodges_lehmann_estimator(xs) ==
  quantile(Listed({ij \in (DOMAIN xs) \X (DOMAIN xs) : ij[1] <= ij[2]},
                  LAMBDA ij : Half ** (xs[ij[1]] ++ xs[ij[2]])), Half)

\* A share of the sorted column is cut from, or clamped at, both ends.
Cut(xs, share) == Floor(share ** Q(Len(xs)))
Trimmed(xs, share) == SubSeq(Sorted(xs), 1 + Cut(xs, share), Len(xs) - Cut(xs, share))
Winsorized(xs, share) ==
  LET core == Trimmed(xs, share)
  IN  Each(xs, LAMBDA x : Smaller(Larger(x, core[1]), core[Len(core)]))
TrimOk(xs, share) == xs # << >> /\ Zero \preceq share /\ share \prec Half
trimmed_mean(xs, share) == IF TrimOk(xs, share) THEN fmean(Trimmed(xs, share)) ELSE NaN
trimmed_std(xs, share) == IF TrimOk(xs, share) THEN fvar(Trimmed(xs, share), 1) ELSE NaN
winsorized_mean(xs, share) == IF TrimOk(xs, share) THEN fmean(Winsorized(xs, share)) ELSE NaN
winsorized_std(xs, share) ==
  IF TrimOk(xs, share) THEN fvar(Winsorized(xs, share), 1) ELSE NaN      \* squared

(* Means *)
weighted_mean(xs, ws) == Total(Pairs(ws, xs, Times)) // Total(ws)
harmonic_mean(xs) ==
  IF Positive(xs) THEN Q(Len(xs)) // Total(Each(xs, LAMBDA x : One // x)) ELSE NaN
power_mean(xs) == IF Positive(xs) THEN fmean(Each(xs, Square)) ELSE NaN   \* p = 2, squared
lehmer_mean(xs) == IF Positive(xs) THEN SquareSum(xs) // Total(xs) ELSE NaN     \* p = 2
root_mean_square(xs) == fmean(Each(xs, Square))                                 \* squared

(* Shape *)
Moment(xs, power(_)) == fmean(Each(Centred(xs), power))
skewness(xs) ==                                                                 \* squared
  IF Len(xs) < 2 THEN NaN
  ELSE SignedSquare(Moment(xs, Cube)) // Cube(Moment(xs, Square))
kurtosis_excess(xs) ==
  IF Len(xs) < 2 THEN NaN
  ELSE Moment(xs, LAMBDA x : Square(Square(x))) // Square(Moment(xs, Square)) -- Q(3)
jarque_bera(xs) ==
  IF Len(xs) < 4 THEN NaN
  ELSE Over(Len(xs), 6) ** (Abs(skewness(xs)) ++ Square(kurtosis_excess(xs)) // Q(4))

bowley_skewness(xs) ==
  IF Len(xs) < 3 THEN NaN ELSE (Q(2) ** (midhinge(xs) -- quantile(xs, Half))) // iqr(xs)
moors_kurtosis(xs) ==
  LET e(k) == quantile(xs, Over(k, 8))
  IN  IF Len(xs) < 8 THEN NaN
      ELSE ((e(7) -- e(5)) ++ (e(3) -- e(1))) // (e(6) -- e(2))
pearson_median_skewness(xs) ==                                                  \* squared
  SignedSquare(Q(3) ** (fmean(xs) -- quantile(xs, Half))) // fvar(xs, 1)
studentized_range(xs) == SignedSquare(range_value(xs)) // fvar(xs, 1)           \* squared

kstat_third(xs) ==
  LET n == Len(xs)
      s(power(_)) == Total(Each(xs, power))
      id(x) == x
  IN  IF n < 3 THEN NaN
      ELSE (((Q(2) ** Cube(s(id))) -- (Q(3 * n) ** s(id) ** s(Square))) ++ (Q(n * n) ** s(Cube)))
             // Q(n * (n - 1) * (n - 2))

\* Hosking's sample L-moments, of at least four rows.
l_moments(xs) ==
  LET n == Len(xs)
      s == Sorted(xs)
      b(k) == Sum(n, LAMBDA i : Over(Subsets(i - 1, k), Subsets(n - 1, k)) ** s[i]) // Q(n)
  IN  IF n < 4 THEN [k \in 1..4 |-> NaN]
      ELSE <<b(0), Q(2) ** b(1) -- b(0), (Q(6) ** b(2) -- Q(6) ** b(1)) ++ b(0),
             ((Q(20) ** b(3)) -- (Q(30) ** b(2))) ++ (Q(12) ** b(1) -- b(0))>>
l_scale(xs) == l_moments(xs)[2]
l_cv(xs) == l_moments(xs)[2] // l_moments(xs)[1]
l_skewness(xs) == l_moments(xs)[3] // l_moments(xs)[2]
l_kurtosis(xs) == l_moments(xs)[4] // l_moments(xs)[2]

(* Inequality, concentration, diversity of non-negative amounts *)
dv_shares(xs) == Each(xs, LAMBDA x : x // Total(xs))
Amounts(xs) == NonNegative(xs) /\ Zero \prec Total(xs)
shares_desc(xs) == Reversed(Sorted(dv_shares(xs)))
Present(xs) == Q(Count(Len(xs), LAMBDA i : xs[i].n > 0))

\* The rows are weighted 2i - n - 1 in rising order.
gini_coefficient(xs) ==
  IF ~Amounts(xs) THEN NaN
  ELSE Sum(Len(xs), LAMBDA i : Q(2 * i - Len(xs) - 1) ** Sorted(xs)[i])
         // (Q(Len(xs)) ** Total(xs))

gini_mean_difference(xs) ==
  LET n == Len(xs)
  IN  IF n < 2 THEN NaN
      ELSE (Q(2) ** Sum(n, LAMBDA i : Sorted(xs)[i] ** Q(2 * i - 1 - n))) // Q(n * (n - 1))
relative_mean_difference(xs) == gini_mean_difference(xs) // Abs(fmean(xs))
sen_welfare(xs) == fmean(xs) ** (One -- gini_coefficient(xs))
hhi(xs) == IF Amounts(xs) THEN SquareSum(dv_shares(xs)) ELSE NaN
normalized_hhi(xs) ==
  LET least == Over(1, Len(xs))
  IN  IF Amounts(xs) THEN (SquareSum(shares_desc(xs)) -- least) // (One -- least) ELSE NaN
berger_parker(xs) == IF Amounts(xs) THEN Largest(dv_shares(xs)) ELSE NaN
hill_number(xs) == IF Amounts(xs) THEN One // SquareSum(dv_shares(xs)) ELSE NaN     \* q = 2
tsallis_entropy(xs) == IF Amounts(xs) THEN One -- SquareSum(dv_shares(xs)) ELSE NaN \* q = 2
simpson_evenness(xs) == hill_number(xs) // Present(xs)
menhinick_richness(xs) ==                                                       \* squared
  IF Amounts(xs) THEN Square(Present(xs)) // Total(xs) ELSE NaN
concentration_ratio(xs, k) ==
  IF Amounts(xs) /\ k >= 1 THEN Total(SubSeq(shares_desc(xs), 1, IF k < Len(xs) THEN k ELSE Len(xs)))
  ELSE NaN
rosenbluth_index(xs) ==
  IF ~Amounts(xs) THEN NaN
  ELSE PerPositive(One, Q(2) ** Sum(Len(xs), LAMBDA i : Q(i) ** shares_desc(xs)[i]) -- One)
comprehensive_concentration_index(xs) ==
  IF ~Amounts(xs) THEN NaN
  ELSE LET p == shares_desc(xs)
       IN  p[1] ++ Sum(Len(xs) - 1, LAMBDA i : Square(p[i + 1]) ** (Q(2) -- p[i + 1]))
hoover_index(xs) ==
  IF Positive(xs)
    THEN Half ** Total(Each(dv_shares(xs), LAMBDA p : Abs(p -- Over(1, Len(xs)))))
         ++ (IF xs = << >> THEN NaN ELSE Zero)
  ELSE NaN
generalized_entropy_index(xs) ==                                                \* alpha = 2
  IF Positive(xs)
    THEN Total(Each(xs, LAMBDA x : Square(x // fmean(xs)) -- One)) // Q(2 * Len(xs))
  ELSE NaN
percentile_ratio(xs) ==
  IF Positive(xs) THEN quantile(xs, Percent(90)) // quantile(xs, Percent(10)) ELSE NaN
max_to_sum_ratio(xs) ==                                                         \* p = 2
  IF xs = << >> THEN NaN ELSE Largest(Each(xs, Square)) // SquareSum(xs)

(* Columns of raw cells *)
ShareOf(n, Test(_)) == Over(Count(n, Test), n)
null_fraction(raw) == ShareOf(Len(raw), LAMBDA i : raw[i] = Null)
distinct_count(raw) ==
  IF raw = << >> THEN NaN ELSE Q(Cardinality(Range(raw) \ {Null}))
duplicate_count(raw) ==
  IF raw = << >> THEN NaN ELSE Q(Len(raw) - Cardinality(Range(raw)))
uniqueness_ratio(raw) == distinct_count(raw) // Q(Len(raw))
mode_share(raw) ==
  IF raw = << >> THEN NaN
  ELSE Largest(Each(raw, LAMBDA v : ShareOf(Len(raw), LAMBDA i : raw[i] = v)))
join_row_loss(left, joined) == Q(Len(left) - Len(joined))
groupby_aggregate(groups, xs, agg, label) ==
  LET own == Where(xs, LAMBDA i : groups[i] = label)
  IN  IF own = << >> THEN NaN ELSE IF agg = "sum" THEN Total(own) ELSE fmean(own)

(* Series: the order of the rows matters *)
growth_rate(xs, mode) ==
  IF Len(xs) < 2 THEN NaN
  ELSE xs[Len(xs)] // (IF mode = "total" THEN xs[1] ELSE xs[Len(xs) - 1]) -- One

acf(xs, k) ==
  LET c == Centred(xs)
  IN  Sum(Len(xs) - k, LAMBDA t : c[t + k] ** c[t]) // Scatter(xs)
autocorrelation(xs, lag) == IF lag < 1 \/ Len(xs) <= lag THEN NaN ELSE acf(xs, lag)
box_pierce(xs, lags) ==
  IF Len(xs) < 2 \/ lags < 1 \/ lags >= Len(xs) THEN NaN
  ELSE Q(Len(xs)) ** Sum(lags, LAMBDA k : Square(acf(xs, k)))

\* Durbin-Levinson: row k of phi from row k - 1.
partial_autocorrelation(xs, lag) ==
  LET rho(k) == acf(xs, k)
      next(row, k) ==
        LET num == rho(k) -- Sum(k - 1, LAMBDA j : row[j] ** rho(k - j))
            den == One -- Sum(k - 1, LAMBDA j : row[j] ** rho(j))
            last == num // den
        IN  [j \in 1..k |-> IF j = k THEN last ELSE row[j] -- last ** row[k - j]]
      phi[k \in 1..lag] == IF k = 1 THEN <<rho(1)>> ELSE next(phi[k - 1], k)
  IN  IF Len(xs) < lag + 1 \/ lag < 1 THEN NaN ELSE phi[lag][lag]

zero_crossing_rate(xs) ==
  IF Len(xs) < 2 THEN NaN
  ELSE Over(Count(Len(xs) - 1, LAMBDA i : (xs[i].n < 0) # (xs[i + 1].n < 0)), Len(xs) - 1)
turning_point_rate(xs) ==
  IF Len(xs) < 3 THEN NaN
  ELSE Over(Count(Len(xs) - 2, LAMBDA i : Diffs(xs)[i] ** Diffs(xs)[i + 1] \prec Zero), Len(xs) - 2)
mean_absolute_change(xs) == IF xs = << >> THEN NaN ELSE fmean(Each(Diffs(xs), Abs))
rms_successive_differences(xs) ==                                               \* squared
  IF xs = << >> THEN NaN ELSE fmean(Each(Diffs(xs), Square))
hjorth_mobility(xs) ==                                                          \* squared
  IF Len(xs) < 2 THEN NaN ELSE fvar(Diffs(xs), 0) // fvar(xs, 0)
hjorth_complexity(xs) ==                                                        \* squared
  IF Len(xs) < 3 THEN NaN ELSE hjorth_mobility(Diffs(xs)) // hjorth_mobility(xs)

(* Durations, flags, counts *)
speedup_ratio(before, after, mode) ==
  LET at(xs) == IF mode = "median" THEN quantile(xs, Half) ELSE fmean(xs)
  IN  PerPositive(at(before), at(after))
throughput(xs) == PerPositive(Q(Len(xs)), Total(xs))
coverage_fraction(hits) == ShareOf(Len(hits), LAMBDA i : hits[i].n > 0)
error_rate(flags, mode) ==
  ShareOf(Len(flags), LAMBDA i : CASE mode = "http4xx" -> Q(400) \preceq flags[i]
                                   [] mode = "http5xx" -> Q(500) \preceq flags[i]
                                   [] OTHER -> flags[i] # Zero)
ratio_share(flags) == ShareOf(Len(flags), LAMBDA i : flags[i] # Zero)
apdex(xs, t) ==
  LET within(k) == Count(Len(xs), LAMBDA i : xs[i] \preceq (Q(k) ** t))
  IN  IF t \preceq Zero THEN NaN ELSE Over(within(1) + within(4), 2 * Len(xs))
latency_p75(xs) == quantile(xs, Percent(75))
latency_p999(xs) == quantile(xs, Over(999, 1000))
tail_latency_ratio(xs) == quantile(xs, Percent(99)) // quantile(xs, Half)
latency_stddev(xs) == fvar(xs, 1)                                               \* squared
jitter(xs) == IF Len(xs) < 2 THEN NaN ELSE fmean(Each(Diffs(xs), Abs))
slo_attainment(xs, t) == ShareOf(Len(xs), LAMBDA i : xs[i] \preceq t)
error_budget_burn(flags, target) ==
  IF Zero \prec target THEN ratio_share(flags) // target ELSE NaN
compression_ratio(original, compressed) == PerPositive(Total(original), Total(compressed))
availability(up, down) == PerPositive(Total(up), Total(up) ++ Total(down))
mtbf(flags) == One // ratio_share(flags)
rel_ratio(num, den, mult) == (Q(mult) ** Total(num)) // Total(den)
failure_rate(failures, time) == rel_ratio(failures, time, 1)
mean_time_to_repair(downtime, repairs) == rel_ratio(downtime, repairs, 1)
mean_time_to_failure(uptime, failures) == rel_ratio(uptime, failures, 1)
defect_density(defects, size) == rel_ratio(defects, size, 1)
dpmo(defects, opportunities) == rel_ratio(defects, opportunities, 1000000)
first_pass_yield(passed, total) == rel_ratio(passed, total, 1)
rolled_throughput_yield(yields) == IF yields = << >> THEN NaN ELSE Product(yields)

(* Two paired columns *)
covariance(xs, ys) == IF Len(xs) < 2 THEN NaN ELSE Cross(xs, ys) // Q(Len(xs) - 1)
pearson_r(xs, ys) ==                                                            \* squared
  IF Len(xs) < 2 THEN NaN ELSE (SignedSquare(Cross(xs, ys)) // Scatter(xs)) // Scatter(ys)

Apart(xs, ys) == Pairs(xs, ys, LAMBDA x, y : Abs(x -- y))
squared_euclidean_distance(xs, ys) == IF xs = << >> THEN NaN ELSE SquareSum(Apart(xs, ys))
euclidean_distance(xs, ys) == squared_euclidean_distance(xs, ys)                \* squared
minkowski_distance(xs, ys) == squared_euclidean_distance(xs, ys)         \* p = 2, squared
manhattan_distance(xs, ys) == IF xs = << >> THEN NaN ELSE Total(Apart(xs, ys))
chebyshev_distance(xs, ys) == IF xs = << >> THEN NaN ELSE Largest(Apart(xs, ys))
braycurtis_distance(xs, ys) ==
  Total(Apart(xs, ys)) // Total(Pairs(xs, ys, LAMBDA x, y : Abs(x ++ y)))
canberra_distance(xs, ys) ==
  LET rows == SelectSeq(Upto(Len(xs)), LAMBDA i : Zero \prec (Abs(xs[i]) ++ Abs(ys[i])))
  IN  IF xs = << >> THEN NaN
      ELSE Total(Each(rows, LAMBDA i : Abs(xs[i] -- ys[i]) // (Abs(xs[i]) ++ Abs(ys[i]))))
\* The similarities, squared, of which the distances are the complements.
cosine_distance(xs, ys) ==
  (SignedSquare(Total(Pairs(xs, ys, Times))) // SquareSum(xs)) // SquareSum(ys)
correlation_distance(xs, ys) == pearson_r(xs, ys)
=============================================================================
