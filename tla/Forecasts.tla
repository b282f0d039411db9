----------------------------- MODULE Forecasts ------------------------------
(***************************************************************************)
(* The kernels of spike/recipes/numeric.py that compare a column of        *)
(* predictions with the actual values: errors, skill against a baseline,   *)
(* bias, prediction intervals, and regressions on one column.  Columns     *)
(* hold fractions, row by row of equal length.  Kernels that end in a      *)
(* square root are represented by their signed square ("squared"); those   *)
(* through a logarithm or an arc tangent are left out.                     *)
(***************************************************************************)
EXTENDS Columns

Errors(pred, actual) == Pairs(pred, actual, LAMBDA p, a : p -- a)
AbsoluteErrors(pred, actual) == Apart(pred, actual)
\* The relative errors; a zero actual leaves one of them, so all sums, undefined.
Relative(pred, actual) == Pairs(pred, actual, LAMBDA p, a : (a -- p) // a)
Deviations(xs) == Each(Centred(xs), Abs)

(* Errors *)
mean_squared_error(pred, actual) == fmean(Each(Errors(pred, actual), Square))
rmse(pred, actual) == mean_squared_error(pred, actual)                          \* squared
mae(pred, actual) == fmean(AbsoluteErrors(pred, actual))
medae(pred, actual) == quantile(AbsoluteErrors(pred, actual), Half)
max_error(pred, actual) == IF pred = << >> THEN NaN ELSE Largest(AbsoluteErrors(pred, actual))
nrmse(pred, actual, mode) ==                                                    \* squared
  IF pred = << >> THEN NaN
  ELSE LET scale == IF mode = "range" THEN range_value(actual) ELSE fmean(actual)
       IN  (Q(Signum(scale)) ** rmse(pred, actual)) // Square(scale)
huber_loss(pred, actual, delta) ==
  LET loss(e) == IF e \preceq delta THEN Half ** Square(e) ELSE delta ** (e -- Half ** delta)
  IN  IF delta \preceq Zero THEN NaN ELSE fmean(Each(AbsoluteErrors(pred, actual), loss))
pinball(pred, actual, q) ==
  LET loss(p, a) == Larger(q ** (a -- p), (q -- One) ** (a -- p))
  IN  IF Zero \prec q /\ q \prec One THEN fmean(Pairs(pred, actual, loss)) ELSE NaN

(* Relative errors *)
mape(pred, actual, symmetric) ==
  fmean(Pairs(pred, actual, LAMBDA p, a :
    IF symmetric THEN (Q(2) ** Abs(p -- a)) // (Abs(p) ++ Abs(a)) ELSE Abs(p -- a) // Abs(a)))
mean_percentage_error(pred, actual) == fmean(Relative(pred, actual))
median_absolute_percentage_error(pred, actual) ==
  IF \E i \in DOMAIN actual : actual[i] = Zero THEN NaN
  ELSE quantile(Each(Relative(pred, actual), Abs), Half)
root_mean_square_percentage_error(pred, actual) ==                              \* squared
  fmean(Each(Relative(pred, actual), Square))
wape(pred, actual) == Total(AbsoluteErrors(pred, actual)) // Total(Each(actual, Abs))

(* Bias *)
cumulative_forecast_error(pred, actual) ==
  IF pred = << >> THEN NaN ELSE Negate(Total(Errors(pred, actual)))
mean_bias_error(pred, actual) == fmean(Errors(pred, actual))
forecast_bias(pred, actual) == (Total(pred) -- Total(actual)) // Total(actual)
fractional_bias(pred, actual) ==
  (Q(2) ** (fmean(actual) -- fmean(pred))) // (fmean(actual) ++ fmean(pred))
tracking_signal(pred, actual) == Total(Errors(pred, actual)) // mae(pred, actual)

(* Skill: the error over that of a baseline, or its complement to one *)
relative_squared_error(pred, actual) == SquareSum(Errors(pred, actual)) // Scatter(actual)
relative_absolute_error(pred, actual) ==
  Total(AbsoluteErrors(pred, actual)) // Total(Deviations(actual))
r2(pred, actual) ==
  IF Len(actual) < 2 THEN NaN
  ELSE One -- (SquareSum(Errors(pred, actual)) // Scatter(actual))
adjusted_r2(pred, actual, p) ==
  LET left == Len(actual) - p - 1
  IN  IF p < 1 \/ left <= 0 THEN NaN
      ELSE One -- ((One -- r2(pred, actual)) ** Over(Len(actual) - 1, left))
explained_variance(pred, actual) ==
  IF Len(actual) < 2 THEN NaN ELSE One -- (fvar(Errors(pred, actual), 0) // fvar(actual, 0))
nash_sutcliffe_efficiency(pred, actual) ==
  One -- (Total(Pairs(pred, actual, LAMBDA p, a : Square(a -- p)))
            // Total(Each(actual, LAMBDA a : Square(a -- fmean(actual)))))
legates_mccabe_efficiency(pred, actual) ==
  One -- (Total(AbsoluteErrors(pred, actual)) // Total(Deviations(actual)))
d2_absolute_error(pred, actual) ==
  LET med == quantile(actual, Half)
  IN  One -- (mae(pred, actual) // fmean(Each(actual, LAMBDA a : Abs(a -- med))))
d2_pinball_score(pred, target, alpha) ==
  LET qa == quantile(target, alpha)
  IN  One -- (pinball(pred, target, alpha) // pinball([i \in DOMAIN target |-> qa], target, alpha))
willmott_index(pred, actual) ==
  LET reach(p, a) == Square(Abs(p -- fmean(actual)) ++ Abs(a -- fmean(actual)))
  IN  One -- (SquareSum(Errors(pred, actual)) // Total(Pairs(pred, actual, reach)))
refined_willmott_index(pred, actual) ==
  LET err == Total(AbsoluteErrors(pred, actual))
      reach == Q(2) ** Total(Deviations(actual))
  IN  IF reach = Zero THEN NaN
      ELSE IF err \preceq reach THEN One -- err // reach ELSE reach // err -- One
concordance_correlation(pred, actual) ==
  (Q(2) ** (Cross(pred, actual) // Q(Len(pred))))
    // ((fvar(pred, 0) ++ fvar(actual, 0)) ++ Square(fmean(pred) -- fmean(actual)))

(* The naive forecast, the actual value of an earlier row, as the baseline *)
mase(pred, actual, m) ==
  LET n == Len(actual)
      step == Sum(n - m, LAMBDA t : Abs(actual[t + m] -- actual[t])) // Q(n - m)
  IN  IF m < 1 \/ n <= m THEN NaN ELSE mae(pred, actual) // step
rmsse(pred, actual) ==                                                          \* squared
  IF Len(pred) < 2 THEN NaN
  ELSE mean_squared_error(pred, actual) // fmean(Each(Diffs(actual), Square))
theil_u2(pred, actual) ==                                                       \* squared
  LET n == Len(pred)
      over(f(_)) == Sum(n - 1, LAMBDA t : Square((f(t + 1) -- actual[t + 1]) // actual[t]))
  IN  IF n < 2 THEN NaN
      ELSE over(LAMBDA t : pred[t]) // over(LAMBDA t : actual[t - 1])
mean_directional_accuracy(pred, actual) ==
  LET turn(x, t) == Signum(x -- actual[t])
      hit(t) == turn(actual[t + 1], t) = turn(pred[t + 1], t)
  IN  IF Len(pred) < 2 THEN NaN ELSE Over(Count(Len(pred) - 1, hit), Len(pred) - 1)
durbin_watson(pred, actual) ==
  IF Len(actual) < 2 THEN NaN
  ELSE SquareSum(Diffs(Errors(pred, actual))) // SquareSum(Errors(pred, actual))

(* Prediction intervals *)
interval_coverage(lower, upper, actual) ==
  ShareOf(Len(actual), LAMBDA i : lower[i] \preceq actual[i] /\ actual[i] \preceq upper[i])
mean_interval_width(lower, upper) == fmean(Errors(upper, lower))
\* A row outside its interval pays for the distance to the nearer end.
winkler_score(lower, upper, actual, alpha) ==
  LET outside(i) == Larger(Zero, Larger(lower[i] -- actual[i],
                                        IF actual[i] \prec lower[i] THEN Zero
                                        ELSE actual[i] -- upper[i]))
      score(i) == (upper[i] -- lower[i]) ++ (Q(2) // alpha) ** outside(i)
  IN  IF Zero \prec alpha /\ alpha \prec One THEN fmean(Each(Upto(Len(actual)), score)) ELSE NaN
coverage_deviation(lower, upper, actual, alpha) ==
  IF Zero \prec alpha /\ alpha \prec One
    THEN interval_coverage(lower, upper, actual) -- (One -- alpha)
  ELSE NaN

(* Least squares on one column, with an intercept *)
ols_slope(xs, ys) == Cross(xs, ys) // Scatter(xs)
slope_of(xs, ys) == IF Len(xs) < 3 THEN NaN ELSE ols_slope(xs, ys)
ols_intercept(xs, ys) == fmean(ys) -- slope_of(xs, ys) ** fmean(xs)
Unexplained(xs, ys) == Scatter(ys) -- (Square(Cross(xs, ys)) // Scatter(xs))
Explained(xs, ys) == Abs(pearson_r(xs, ys))
residual_variance(xs, ys) ==
  IF Len(xs) < 3 THEN NaN ELSE Unexplained(xs, ys) // Q(Len(xs) - 2)
residual_standard_error(xs, ys) == residual_variance(xs, ys)                    \* squared
regression_f_statistic(xs, ys) ==
  IF Len(xs) < 3 THEN NaN
  ELSE Explained(xs, ys) // ((One -- Explained(xs, ys)) // Q(Len(xs) - 2))
\* The estimates over their standard errors.
slope_variance(xs, ys) == residual_variance(xs, ys) // Scatter(xs)
intercept_variance(xs, ys) == slope_variance(xs, ys) ** fmean(Each(xs, Square))
linregress_slope_stderr(xs, ys) == slope_variance(xs, ys)                       \* squared
linregress_intercept_stderr(xs, ys) == intercept_variance(xs, ys)               \* squared
regression_t_statistic(xs, ys) == SignedSquare(ols_slope(xs, ys)) // slope_variance(xs, ys) \* squared

\* The market model: the returns of an asset on those of a benchmark.
idiosyncratic_volatility(ret, bench) == residual_variance(bench, ret)           \* squared
alpha_tstat(ret, bench) ==                                                      \* squared
  SignedSquare(ols_intercept(bench, ret)) // intercept_variance(bench, ret)
beta_tstat(ret, bench) == regression_t_statistic(bench, ret)                    \* squared
subset_beta(ret, bench, sign) ==
  LET on(xs) == Where(xs, LAMBDA i : Signum(bench[i]) = sign)
  IN  ols_slope(on(bench), on(ret))
bull_beta(ret, bench) == subset_beta(ret, bench, 1)
bear_beta(ret, bench) == subset_beta(ret, bench, -1)
up_down_beta_ratio(ret, bench) == bull_beta(ret, bench) // bear_beta(ret, bench)

\* Heteroskedasticity: the squared residuals on the regressor, and on its square.
breusch_pagan_lm(resid, x) ==
  IF Len(x) < 2 THEN NaN ELSE Q(Len(x)) ** Explained(x, Each(resid, Square))
breusch_pagan_fstat(resid, x) ==
  IF Len(x) <= 3 THEN NaN ELSE regression_f_statistic(x, Each(resid, Square))
white_lm(resid, x) ==
  LET e2 == Each(resid, Square)
      x2 == Each(x, Square)
      both == Scatter(x) ** Scatter(x2) -- Square(Cross(x, x2))
      fitted == (Square(Cross(x, e2)) ** Scatter(x2) ++ Square(Cross(x2, e2)) ** Scatter(x))
                  -- (Q(2) ** Cross(x, e2) ** Cross(x2, e2) ** Cross(x, x2))
  IN  Q(Len(x)) ** ((fitted // both) // Scatter(e2))
goldfeld_quandt_fstat(value, regressor) ==
  LET n == Len(value)
      half == n \div 2
      order == RowsBy(n, LAMBDA i : regressor[i])
      rss(first) ==
        LET on(xs) == [k \in 1..half |-> xs[order[first + k]]]
        IN  Unexplained(on(regressor), on(value))
  IN  IF n < 6 THEN NaN ELSE rss(n - half) // rss(0)
=============================================================================
