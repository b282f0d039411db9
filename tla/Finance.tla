------------------------------ MODULE Finance -------------------------------
(***************************************************************************)
(* The kernels of spike/recipes/numeric.py over business and market data:  *)
(* cash flows and curves, credit, portfolios and their attribution, funds, *)
(* accounting ratios, trading costs and survival times.  Columns hold      *)
(* fractions, row by row of equal length; times of cash flows are whole    *)
(* years.  Kernels that end in a square root are represented by their      *)
(* square ("squared"); those through a logarithm, a fractional power, a    *)
(* root search or the normal law are left out.                             *)
(***************************************************************************)
EXTENDS Columns

Dot(xs, ys) == Total(Pairs(xs, ys, Times))
\* A quotient of column sums; a zero denominator leaves it undefined.
biz_ratio(num, den, mult) == rel_ratio(num, den, mult)
PositiveSum(xs) == Total(Having(xs, LAMBDA x : x.n > 0))
NegativeSum(xs) == Negate(Total(Having(xs, LAMBDA x : x.n < 0)))
AbsoluteSum(xs) == Total(Each(xs, Abs))

(* Cash flows, the first at time 0 *)
npv(cashflows, rate) ==
  IF cashflows = << >> \/ rate \preceq Q(-1) THEN NaN
  ELSE Sum(Len(cashflows), LAMBDA i : cashflows[i] // Power(One ++ rate, i - 1))
profitability_index(cashflows, rate) ==
  IF Len(cashflows) < 2 \/ cashflows[1].n >= 0 THEN NaN
  ELSE (npv(cashflows, rate) -- cashflows[1]) // Negate(cashflows[1])
equivalent_annual_annuity(cashflows, rate) ==
  LET n == Len(cashflows) - 1
      annuity == (One -- (One // Power(One ++ rate, n))) // rate
  IN  IF n < 1 \/ rate \preceq Q(-1) THEN NaN ELSE npv(cashflows, rate) // annuity
\* The growth of the whole series, of which MIRR takes the root.
modified_irr(cashflows, finance_rate, reinvest_rate) ==
  LET of(sign) == Each(cashflows, LAMBDA c : IF Signum(c) = sign THEN c ELSE Zero)
  IN  IF Len(cashflows) < 2 \/ PositiveSum(cashflows) = Zero THEN NaN
      ELSE (Abs(npv(of(1), reinvest_rate)) // Abs(npv(of(-1), finance_rate)))
             ** Power(One ++ reinvest_rate, Len(cashflows) - 1)
cagr(xs) ==                                      \* over one year, the root of 1
  IF Len(xs) < 2 \/ xs[1].n <= 0 \/ xs[Len(xs)].n <= 0 THEN NaN
  ELSE xs[Len(xs)] // xs[1] -- One

(* Bonds: cash flows at their times under one yield, or under a zero curve *)
discount_factors(zero, time) == [i \in DOMAIN zero |-> One // Power(One ++ zero[i], time[i])]
Discountable(rates) == \A i \in DOMAIN rates : Q(-1) \prec rates[i]
curve_pv(cashflow, zero, time) ==
  IF zero # << >> /\ Discountable(zero) THEN Dot(cashflow, discount_factors(zero, time)) ELSE NaN
annuity_factor(zero, time) ==
  IF zero # << >> /\ Discountable(zero) THEN Total(discount_factors(zero, time)) ELSE NaN
par_yield(zero, time) ==
  IF zero = << >> THEN NaN
  ELSE (One -- discount_factors(zero, time)[Len(zero)]) // annuity_factor(zero, time)
forward_rate(zero, time) ==                      \* of adjacent tenors
  LET n == Len(zero)
      df == discount_factors(zero, time)
  IN  IF n < 2 \/ ~Discountable(<<zero[n - 1], zero[n]>>) THEN NaN ELSE df[n - 1] // df[n] -- One

pv_terms(cashflows, times, y) ==
  [i \in DOMAIN cashflows |-> cashflows[i] // Power(One ++ y, times[i])]
bond_price(cashflows, times, y) ==
  IF cashflows = << >> \/ y \preceq Q(-1) THEN NaN ELSE Total(pv_terms(cashflows, times, y))
\* The present values, each weighted by a function of its time.
PriceWeighted(cashflows, times, y, weight(_)) ==
  Sum(Len(times), LAMBDA i : Q(weight(times[i])) ** pv_terms(cashflows, times, y)[i])
    // bond_price(cashflows, times, y)
macaulay_duration(cashflows, times, y) == PriceWeighted(cashflows, times, y, LAMBDA t : t)
modified_duration(cashflows, times, y) == macaulay_duration(cashflows, times, y) // (One ++ y)
convexity(cashflows, times, y) ==
  PriceWeighted(cashflows, times, y, LAMBDA t : t * (t + 1)) // Square(One ++ y)
dv01(cashflows, times, y) ==                     \* in ten-thousandths
  modified_duration(cashflows, times, y) ** bond_price(cashflows, times, y)
weighted_average_life(cashflows, times) ==
  Sum(Len(times), LAMBDA i : Q(times[i]) ** cashflows[i]) // Total(cashflows)
\* Repriced at the yield bumped up and down.
effective_duration(cashflow, time, y, bump) ==
  (bond_price(cashflow, time, y -- bump) -- bond_price(cashflow, time, y ++ bump))
    // (Q(2) ** bond_price(cashflow, time, y) ** bump)
effective_convexity(cashflow, time, y, bump) ==
  LET p0 == bond_price(cashflow, time, y)
  IN  ((bond_price(cashflow, time, y ++ bump) ++ bond_price(cashflow, time, y -- bump)) -- Q(2) ** p0)
        // (p0 ** Square(bump))

(* Credit *)
expected_loss(pd, lgd, ead) == IF pd = << >> THEN NaN ELSE Dot(Pairs(pd, lgd, Times), ead)
expected_loss_rate(pd, lgd, ead) == expected_loss(pd, lgd, ead) // Total(ead)
weighted_lgd(lgd, ead) == Dot(lgd, ead) // Total(ead)
recovery_rate(recovery, exposure) == biz_ratio(recovery, exposure, 1)
\* The published weights, in hundredths, of the columns of a score.
Score(columns, weights) ==
  fmean([i \in DOMAIN columns[1] |->
           Sum(Len(columns), LAMBDA j : Percent(weights[j]) ** columns[j][i])])
altman_z(x1, x2, x3, x4, x5) == Score(<<x1, x2, x3, x4, x5>>, <<120, 140, 330, 60, 100>>)
altman_z_prime(x1, x2, x3, x4) == Score(<<x1, x2, x3, x4>>, <<656, 326, 672, 105>>)
altman_z_double_prime(x1, x2, x3, x4) == Percent(325) ++ altman_z_prime(x1, x2, x3, x4)
springate_score(wc_ta, ebit_ta, ebt_cl, sales_ta) ==
  Score(<<wc_ta, ebit_ta, ebt_cl, sales_ta>>, <<103, 307, 66, 40>>)
zmijewski_score(roa, tl_ta, ca_cl) ==
  Over(1, 10) ** (Percent(-4336) ++ Score(<<roa, tl_ta, ca_cl>>, <<-4513, 5679, 4>>))
capital_adequacy_ratio(capital, rwa) == biz_ratio(capital, rwa, 1)
tier1_leverage_ratio(tier1, exposure) == biz_ratio(tier1, exposure, 1)
provision_coverage_ratio(provisions, npl) == biz_ratio(provisions, npl, 1)
cds_implied_hazard(spread, recovery) ==
  fmean(Pairs(spread, recovery, LAMBDA s, r : PerPositive(s, One -- r)))

(* Portfolios: weights and returns by segment *)
Spread(xs, ys) == Pairs(xs, ys, LAMBDA x, y : x -- y)
OfRows(xs, value) == IF xs = << >> THEN NaN ELSE value
brinson_allocation(wp, wb, rb) == OfRows(wp, Dot(Spread(wp, wb), rb))
brinson_selection(wb, rp, rb) == OfRows(wb, Dot(wb, Spread(rp, rb)))
brinson_interaction(wp, wb, rp, rb) == OfRows(wp, Dot(Spread(wp, wb), Spread(rp, rb)))
brinson_total_active(wp, wb, rp, rb) == OfRows(wp, Dot(wp, rp) -- Dot(wb, rb))
brinson_fachler_allocation(wp, wb, rb) ==
  OfRows(wp, Dot(Spread(wp, wb), Each(rb, LAMBDA r : r -- Dot(wb, rb))))
geometric_excess_return(wp, wb, rp, rb) ==
  OfRows(wp, (One ++ Dot(wp, rp)) // (One ++ Dot(wb, rb)) -- One)
active_share(wp, wb) == OfRows(wp, Half ** Total(Apart(wp, wb)))
portfolio_turnover(prev, curr) == OfRows(prev, Half ** Total(Apart(curr, prev)))
effective_number_of_bets(weight) == Square(Total(weight)) // SquareSum(weight)

gross_exposure(exposure) == OfRows(exposure, AbsoluteSum(exposure))
net_exposure(exposure) == OfRows(exposure, Total(exposure))
long_exposure(exposure) == OfRows(exposure, PositiveSum(exposure))
short_exposure(exposure) == OfRows(exposure, NegativeSum(exposure))
long_short_ratio(exposure) == PositiveSum(exposure) // NegativeSum(exposure)
largest_position(exposure) ==
  IF exposure = << >> THEN NaN ELSE Largest(Each(exposure, Abs)) // AbsoluteSum(exposure)
liquidity_coverage(weight, days, threshold) ==
  AbsoluteSum(Where(weight, LAMBDA i : days[i] \preceq threshold)) // AbsoluteSum(weight)

(* Funds *)
PaidIn(contribution, value) == PerPositive(value, Total(contribution))
dpi(contribution, distribution) == PaidIn(contribution, Total(distribution))
rvpi(contribution, nav) == PaidIn(contribution, nav)
tvpi(contribution, distribution, nav) == PaidIn(contribution, Total(distribution) ++ nav)
called_pct(contribution, committed) == OfRows(contribution, PerPositive(Total(contribution), committed))
carried_interest(contribution, distribution, carry_rate) ==
  IF contribution = << >> \/ ~(Zero \preceq carry_rate /\ carry_rate \preceq One) THEN NaN
  ELSE carry_rate ** Larger(Total(distribution) -- Total(contribution), Zero)
realization_ratio(distribution, nav) ==
  OfRows(distribution, PerPositive(Total(distribution), Total(distribution) ++ nav))
\* Flows in units of a public index.
Indexed(flow, index) == Total(Pairs(flow, index, LAMBDA f, i : f // i))
ks_pme(contribution, distribution, index, nav) ==
  IF index = << >> \/ ~Positive(index) THEN NaN
  ELSE PerPositive(Indexed(distribution, index) ++ nav // index[Len(index)],
                   Indexed(contribution, index))
pme_plus_lambda(contribution, distribution, index, nav) ==
  LET scaled(flow) == index[Len(index)] ** Indexed(flow, index)
  IN  IF index = << >> \/ ~Positive(index) THEN NaN
      ELSE PerPositive(scaled(contribution) -- nav, scaled(distribution))

(* Accounts: sums over entities or periods *)
current_ratio(assets, liabilities) == biz_ratio(assets, liabilities, 1)
quick_ratio(assets, inventory, liabilities) == biz_ratio(Spread(assets, inventory), liabilities, 1)
interest_coverage(ebit, interest) == biz_ratio(ebit, interest, 1)
debt_to_equity(debt, equity) == biz_ratio(debt, equity, 1)
debt_to_ebitda(debt, ebitda) == biz_ratio(debt, ebitda, 1)
net_debt_to_ebitda(debt, cash, ebitda) == biz_ratio(Spread(debt, cash), ebitda, 1)
ebitda_margin(ebitda, revenue) == biz_ratio(ebitda, revenue, 1)
return_on_equity(net_income, equity) == biz_ratio(net_income, equity, 1)
return_on_assets(net_income, assets) == biz_ratio(net_income, assets, 1)
return_on_invested_capital(nopat, invested) == biz_ratio(nopat, invested, 1)
asset_turnover(revenue, assets) == biz_ratio(revenue, assets, 1)
operating_margin(operating_income, revenue) == biz_ratio(operating_income, revenue, 1)
net_margin(net_income, revenue) == biz_ratio(net_income, revenue, 1)
free_cash_flow_margin(fcf, revenue) == biz_ratio(fcf, revenue, 1)
dividend_payout_ratio(dividends, net_income) == biz_ratio(dividends, net_income, 1)
days_sales_outstanding(receivables, revenue) == biz_ratio(receivables, revenue, 365)
days_inventory_outstanding(inventory, cogs) == biz_ratio(inventory, cogs, 365)
days_payable_outstanding(payables, cogs) == biz_ratio(payables, cogs, 365)
cash_conversion_cycle(receivables, inventory, payables, revenue, cogs) ==
  biz_ratio(receivables, revenue, 365) ++ biz_ratio(Spread(inventory, payables), cogs, 365)
fixed_charge_coverage(ebit, lease, interest) ==
  (Total(ebit) ++ Total(lease)) // (Total(interest) ++ Total(lease))
churn_rate(flags, mode) ==
  IF mode = "retention" THEN One -- ratio_share(flags) ELSE ratio_share(flags)
margin_pct(revenue, cost) ==
  IF revenue = << >> \/ cost = << >> THEN NaN
  ELSE (Total(revenue) -- Total(cost)) // Total(revenue)
reconciliation_diff(a, b) == IF a = << >> \/ b = << >> THEN NaN ELSE Total(a) -- Total(b)

(* Trading *)
vwap(price, volume) == Dot(price, volume) // Total(volume)
relative_spread(bid, ask) ==
  fmean(Pairs(bid, ask, LAMBDA b, a : PerPositive(a -- b, Half ** (a ++ b))))
amihud_illiquidity(ret, dollar_volume) ==
  fmean(Pairs(ret, dollar_volume, LAMBDA r, v : PerPositive(Abs(r), v)))
amivest_liquidity(ret, dollar_volume) ==
  Total(Where(dollar_volume, LAMBDA i : ret[i] # Zero)) // AbsoluteSum(ret)
roll_spread(price) ==                                                           \* squared
  LET d == Diffs(price)
      n == Len(d)
      serial == covariance(SubSeq(d, 1, n - 1), Tail(d))
  IN  IF n < 2 \/ ~(serial \prec Zero) THEN NaN ELSE Q(-4) ** serial
kyle_lambda(price_change, signed_volume) ==
  covariance(price_change, signed_volume) // fvar(signed_volume, 1)
signed_cost_bps(exec_px, bench, qty, side, mult) ==
  (Q(side * mult * 10000) ** Dot(qty, Spread(exec_px, bench))) // Dot(qty, bench)
implementation_shortfall(exec_px, decision_px, qty, side) ==
  signed_cost_bps(exec_px, decision_px, qty, side, 1)
arrival_slippage(exec_px, arrival_px, qty, side) == signed_cost_bps(exec_px, arrival_px, qty, side, 1)
vwap_slippage(exec_px, vwap_px, qty, side) == signed_cost_bps(exec_px, vwap_px, qty, side, 1)
effective_spread_bps(exec_px, mid_px, qty, side) == signed_cost_bps(exec_px, mid_px, qty, side, 2)
realized_spread_bps(exec_px, future_px, qty, side) == signed_cost_bps(exec_px, future_px, qty, side, 2)
price_impact_bps(mid_px, future_px, qty, side) == signed_cost_bps(future_px, mid_px, qty, side, 2)
participation_rate(order_volume, market_volume) == PerPositive(Total(order_volume), Total(market_volume))
order_flow_imbalance(buy, sell) == (Total(buy) -- Total(sell)) // (Total(buy) ++ Total(sell))
share_turnover(volume, shares) == biz_ratio(volume, shares, 1)

(* Losses on a signed margin, and distances of two distributions *)
Margins(scores, labels) ==
  Pairs(scores, labels, LAMBDA s, y : Larger(Zero, One -- (IF y = One THEN s ELSE Negate(s))))
hinge_loss(scores, labels) == fmean(Margins(scores, labels))
squared_hinge_loss(scores, labels) == fmean(Each(Margins(scores, labels), Square))
Distributions(p, q) == Amounts(p) /\ Amounts(q)
total_variation_distance(p, q) ==
  IF Distributions(p, q) THEN Half ** Total(Apart(dv_shares(p), dv_shares(q))) ELSE NaN
chi_square_distance(p, q) ==
  LET part(a, b) == IF (a ++ b) = Zero THEN Zero ELSE Square(a -- b) // (a ++ b)
  IN  IF Distributions(p, q) THEN Total(Pairs(dv_shares(p), dv_shares(q), part)) ELSE NaN

(* Survival: event is 1 where the duration ends in the event *)
EventTimes(duration, event) == {duration[i] : i \in {j \in DOMAIN event : event[j] = 1}}
AtRisk(duration, t) == Count(Len(duration), LAMBDA i : duration[i] >= t)
DeathShare(duration, event, t) ==
  Over(Count(Len(duration), LAMBDA i : event[i] = 1 /\ duration[i] = t), AtRisk(duration, t))
km_survival_at(duration, event, t) ==
  IF duration = << >> THEN NaN
  ELSE Product(Listed({u \in EventTimes(duration, event) : Q(u) \preceq t},
                      LAMBDA u : One -- DeathShare(duration, event, u)))
nelson_aalen_cumhaz(duration, event, t) ==
  IF duration = << >> THEN NaN
  ELSE SumOver({u \in EventTimes(duration, event) : Q(u) \preceq t}, LAMBDA u : DeathShare(duration, event, u))
km_median_survival(duration, event) ==
  LET half == {u \in EventTimes(duration, event) : km_survival_at(duration, event, Q(u)) \preceq Half}
  IN  IF duration = << >> THEN NaN
      ELSE IF half = {} THEN Infinity
      ELSE Q(CHOOSE t \in half : \A u \in half : t <= u)
\* The area under the survival curve: one strip per unit of time, the last cut off.
restricted_mean_survival_time(duration, event, horizon) ==
  IF duration = << >> \/ horizon \preceq Zero THEN NaN
  ELSE Sum(Ceiling(horizon), LAMBDA t :
         Smaller(One, horizon -- Q(t - 1)) ** km_survival_at(duration, event, Q(t - 1)))
=============================================================================
