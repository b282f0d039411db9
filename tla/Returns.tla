------------------------------ MODULE Returns -------------------------------
(***************************************************************************)
(* The kernels of spike/recipes/numeric.py over a series of periodic       *)
(* returns, alone, against a benchmark or against predicted risk.  A       *)
(* column holds fractions; rates are per period and "periods" is the       *)
(* number of periods in a year.  Kernels that end in a square root are     *)
(* represented by their signed square ("squared"); those through a         *)
(* logarithm, a power or the normal law are left out.                      *)
(***************************************************************************)
EXTENDS Columns

Gain(r) == Larger(r, Zero)
Loss(r) == Larger(Negate(r), Zero)
AtTail(level) == Half \prec level /\ level \prec One
MeanOf(xs, f(_)) == fmean(Each(xs, f))
OfSign(xs, sign) == Having(xs, LAMBDA r : Signum(r) = sign)
\* The longest run of consecutive rows that satisfy a test.
LongestRun(n, Test(_)) ==
  CHOOSE k \in 0..n :
    /\ \E a \in 0..(n - k) : \A i \in (a + 1)..(a + k) : Test(i)
    /\ \A a \in 0..(n - k - 1) : \E i \in (a + 1)..(a + k + 1) : ~Test(i)

(* Growth and drawdown: the peak starts at the initial capital *)
Growth(rets) == Product(Each(rets, LAMBDA r : One ++ r))
total_return(rets) == Growth(rets) -- One

equity(rets) == [i \in DOMAIN rets |-> Growth(SubSeq(rets, 1, i))]
drawdown_series(rets) ==
  LET eq == equity(rets)
      highest(i) == Largest(<<One>> \o SubSeq(eq, 1, i))
  IN  [i \in DOMAIN rets |-> eq[i] // highest(i) -- One]

max_drawdown(rets) == Smallest(<<Zero>> \o drawdown_series(rets))

ulcer_index(rets) == MeanOf(drawdown_series(rets), Square)                      \* squared
pain_index(rets) == MeanOf(drawdown_series(rets), Negate)
recovery_factor(rets) == total_return(rets) // Abs(max_drawdown(rets))
max_drawdown_duration(rets) ==
  IF rets = << >> THEN NaN
  ELSE LET dd == drawdown_series(rets)
       IN  Q(LongestRun(Len(rets), LAMBDA i : dd[i] \prec Zero))
time_underwater(rets) ==
  LET dd == drawdown_series(rets) IN ShareOf(Len(rets), LAMBDA i : dd[i] \prec Zero)
drawdown_at_risk(rets, level) ==
  IF AtTail(level) THEN Negate(quantile(drawdown_series(rets), One -- level)) ELSE NaN
drawdown_deviation(rets) == fvar(drawdown_series(rets), 1)                      \* squared

\* The ratios of an annualised return, over a series of one whole year.
YearOf(rets, risk) ==
  IF Len(rets) >= 2 /\ Zero \prec Growth(rets) THEN PerPositive(total_return(rets), risk) ELSE NaN
calmar(rets) == YearOf(rets, Abs(max_drawdown(rets)))
pain_ratio(rets) == YearOf(rets, pain_index(rets))
sterling_ratio(rets) == YearOf(rets, Abs(max_drawdown(rets)) ++ Over(1, 10))
martin_ratio(rets) ==                                                           \* squared
  IF Undefined(YearOf(rets, One)) THEN NaN
  ELSE SignedSquare(total_return(rets)) // ulcer_index(rets)
burke_ratio(rets) == martin_ratio(rets) // Q(Len(rets))                         \* squared

(* Reward and risk of a series alone *)
sharpe(rets, periods) == (SignedSquare(fmean(rets)) // fvar(rets, 1)) ** Q(periods) \* squared
sharpe_se(sr, T) == IF T <= 1 THEN NaN ELSE (One ++ Half ** Square(sr)) // Q(T)     \* squared
volatility(rets, periods) == fvar(rets, 1) ** Q(periods)                            \* squared
downside_deviation(rets, periods) == MeanOf(rets, LAMBDA r : Square(Loss(r))) ** Q(periods) \* squared
upside_deviation(rets, periods) == MeanOf(rets, LAMBDA r : Square(Gain(r))) ** Q(periods)   \* squared
sortino(rets, periods) ==                                                       \* squared
  IF Len(rets) < 2 THEN NaN
  ELSE (SignedSquare(fmean(rets)) // downside_deviation(rets, 1)) ** Q(periods)
downside_potential(rets) == MeanOf(rets, Loss)
upside_potential(rets) == MeanOf(rets, Gain)
upside_potential_ratio(rets) ==                                                 \* squared
  Square(upside_potential(rets)) // downside_deviation(rets, 1)
reward_above(rets, threshold, reward) ==
  PerPositive(reward, MeanOf(rets, LAMBDA r : Loss(r -- threshold)))
omega_ratio(rets, threshold) ==
  reward_above(rets, threshold, MeanOf(rets, LAMBDA r : Gain(r -- threshold)))
omega_sharpe_ratio(rets, threshold) == reward_above(rets, threshold, fmean(rets) -- threshold)

win_rate(rets) == ShareOf(Len(rets), LAMBDA i : Zero \prec rets[i])
profit_factor(rets) == Total(OfSign(rets, 1)) // Negate(Total(OfSign(rets, -1)))
gain_to_pain_ratio(rets) == Total(rets) // Negate(Total(OfSign(rets, -1)))
gain_loss_ratio(rets) == fmean(OfSign(rets, 1)) // Abs(fmean(OfSign(rets, -1)))
win_loss_ratio(rets) == Over(Len(OfSign(rets, 1)), Len(OfSign(rets, -1)))
kelly_criterion(rets) ==
  LET w == Over(Len(OfSign(rets, 1)), Len(OfSign(rets, 1)) + Len(OfSign(rets, -1)))
  IN  w -- (One -- w) // gain_loss_ratio(rets)
max_consecutive_losses(rets) ==
  IF rets = << >> THEN NaN ELSE Q(LongestRun(Len(rets), LAMBDA i : rets[i] \prec Zero))
bias_ratio(rets) ==
  LET near(sign) == Count(Len(rets), LAMBDA i : /\ (rets[i] \prec Zero) = (sign < 0)
                                                /\ Square(rets[i]) \preceq fvar(rets, 1))
  IN  IF Zero \prec fvar(rets, 1) THEN Over(near(1), near(-1)) ELSE NaN

(* Tails *)
value_at_risk(rets, level) ==
  IF AtTail(level) THEN Negate(quantile(rets, One -- level)) ELSE NaN
TailMean(xs, level) ==
  LET cut == quantile(xs, One -- level)
  IN  IF AtTail(level) THEN Negate(fmean(Having(xs, LAMBDA x : x \preceq cut))) ELSE NaN
cvar(rets, level) == TailMean(rets, level)
cdar(rets, level) == TailMean(drawdown_series(rets), level)
tail_ratio(rets) == Abs(quantile(rets, Percent(95))) // Abs(quantile(rets, Percent(5)))
common_sense_ratio(rets) == tail_ratio(rets) ** profit_factor(rets)
\* The upper tail of a series is the lower tail of its negation.
rachev_ratio(rets, level) == TailMean(Each(rets, Negate), level) // TailMean(rets, level)
reward_to_var_ratio(rets, level) == PerPositive(fmean(rets), value_at_risk(rets, level))
starr_ratio(rets, level) == PerPositive(fmean(rets), cvar(rets, level))

(* Against a benchmark *)
Active(rets, bench) == Pairs(rets, bench, LAMBDA r, b : r -- b)
beta(rets, bench) == covariance(rets, bench) // fvar(bench, 1)
per_period_alpha(rets, bench) == fmean(rets) -- beta(rets, bench) ** fmean(bench)
alpha(rets, bench, periods) == per_period_alpha(rets, bench) ** Q(periods)
tracking_error(rets, bench, periods) == volatility(Active(rets, bench), periods)    \* squared
information_ratio(rets, bench, periods) == sharpe(Active(rets, bench), periods)     \* squared
active_return(rets, bench, periods) == fmean(Active(rets, bench)) ** Q(periods)
captured(rets, bench, sign) ==
  LET over(xs) == fmean(Where(xs, LAMBDA i : Signum(bench[i]) = sign))
  IN  over(rets) // over(bench)
up_capture_ratio(rets, bench) == captured(rets, bench, 1)
down_capture_ratio(rets, bench) == captured(rets, bench, -1)
capture_ratio(rets, bench) == up_capture_ratio(rets, bench) // down_capture_ratio(rets, bench)
treynor_ratio(rets, bench, periods) == (fmean(rets) ** Q(periods)) // beta(rets, bench)
r_squared(rets, bench) == Abs(pearson_r(rets, bench))
m2_measure(rets, bench) == sharpe(rets, 1) ** fvar(bench, 1)                    \* squared
appraisal_ratio(rets, bench) ==                                                 \* squared
  SignedSquare(per_period_alpha(rets, bench))
    // fvar(Pairs(rets, bench, LAMBDA r, x : r -- beta(rets, bench) ** x), 1)
batting_average(rets, bench) == ShareOf(Len(rets), LAMBDA i : bench[i] \prec rets[i])

(* Backtests: the days a loss exceeds the predicted value at risk *)
es_exceptions(rets, var) ==
  SelectSeq(Upto(Len(rets)), LAMBDA i : var[i] \prec Negate(rets[i]))
OnExceptions(rets, var, f(_)) == Each(es_exceptions(rets, var), f)
var_breach_rate(rets, var) == Over(Len(es_exceptions(rets, var)), Len(rets))
realized_shortfall(rets, var) == fmean(OnExceptions(rets, var, LAMBDA i : Negate(rets[i])))
expected_exceedance(rets, var) ==
  fmean(OnExceptions(rets, var, LAMBDA i : Negate(rets[i]) -- var[i]))
basel_traffic_light(rets, var) ==
  LET x == Len(es_exceptions(rets, var))
  IN  CASE rets = << >> -> NaN
        [] rets # << >> /\ x <= 4 -> Zero
        [] x \in 5..9 -> Percent(<<40, 50, 65, 75, 85>>[x - 4])
        [] OTHER -> One
\* Each excess loss in units of the predicted shortfall.
ShortfallUnits(rets, var, es) ==
  OnExceptions(rets, var, LAMBDA i : PerPositive(Negate(rets[i]), es[i]))
acerbi_szekely_z1(rets, var, es, level) ==
  IF AtTail(level) THEN fmean(ShortfallUnits(rets, var, es)) -- One ELSE NaN
acerbi_szekely_z2(rets, var, es, level) ==
  IF AtTail(level)
    THEN Total(ShortfallUnits(rets, var, es)) // (Q(Len(rets)) ** (One -- level)) -- One
  ELSE NaN
es_backtest_ratio(rets, var, es) ==
  PerPositive(Total(OnExceptions(rets, var, LAMBDA i : Negate(rets[i]))),
              Total(OnExceptions(rets, var, LAMBDA i : es[i])))

(* Realised variance, persistence, randomness *)
realized_variance(rets) == IF rets = << >> THEN NaN ELSE SquareSum(rets)
realized_volatility(rets) == realized_variance(rets)                            \* squared
rescaled_range(xs) ==                                                           \* squared
  LET z == [i \in DOMAIN xs |-> Total(SubSeq(Centred(xs), 1, i))]
  IN  IF Len(xs) < 2 THEN NaN ELSE Square(Largest(z) -- Smallest(z)) // fvar(xs, 0)

variance_ratio(rets, q) ==
  LET n == Len(rets)
      window(t) == Total(SubSeq(rets, t, t + q - 1)) -- Q(q) ** fmean(rets)
      m == Q(q * (n - q + 1)) ** (One -- Over(q, n))
  IN  IF q < 2 \/ n <= q THEN NaN
      ELSE (Sum(n - q + 1, LAMBDA t : Square(window(t))) // m) // fvar(rets, 1)

\* The correction of one half applies to a series of fewer than fifty rows.
runs_test(xs, cutoff) ==                                                        \* squared
  LET n == Len(xs)
      above(i) == cutoff \preceq xs[i]
      pairs == 2 * Count(n, above) * (n - Count(n, above))
      runs == 1 + Count(n - 1, LAMBDA i : above(i) # above(i + 1))
      excess == Q(runs) -- (Over(pairs, n) ++ One)
      shift == IF n >= 50 \/ excess = Half THEN Zero ELSE IF Half \prec excess THEN Negate(Half) ELSE Half
      var == Over(pairs * (pairs - n), n * n * (n - 1))
      z == IF n < 50 /\ excess = Half THEN Zero ELSE excess ++ shift
  IN  IF n < 2 \/ pairs = 0 THEN NaN ELSE PerPositive(SignedSquare(z), var)

\* The regression of the squared residuals on their first lag.
arch_lm(resid) ==
  LET e2 == Each(resid, Square)
      n == Len(resid) - 1
  IN  IF n < 2 THEN NaN ELSE Q(n) ** Abs(pearson_r(Tail(e2), SubSeq(e2, 1, n)))
=============================================================================
