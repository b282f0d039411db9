------------------------------ MODULE Recipes -------------------------------
(***************************************************************************)
(* The recipe registry (spike/recipes/recipes_legacy.py): a recipe reads   *)
(* the columns bound to its required tags, parses its convention and calls *)
(* one kernel.  One operator stands for each pack of the source and falls  *)
(* back on the packs before it.  c maps a tag to its column: labels and    *)
(* the columns of order statistics are integers or strings, others are     *)
(* fractions.                                                              *)
(*                                                                         *)
(* A convention is a string of the claim; o abstracts it to the word it is *)
(* ("median", "sell" of "side=sell") or to the numbers it assigns, by key: *)
(* "k=10", "p95" (key %), "252" (no key).  Recipes whose kernel is left    *)
(* out, and the settings left out of a kernel, have the value NaN.         *)
(***************************************************************************)
EXTENDS Rates, Retrieval, Trials, Returns, Forecasts, Finance

NoConvention == [word |-> "", nums |-> << >>]
Worded(w) == [word |-> w, nums |-> << >>]
Setting(key, v) == [word |-> "", nums |-> [k \in {key} |-> v]]

(* Parsers of conventions *)
\* "k=10" of this key, or a number without a key; anything else is ignored.
Number(o, key, default) ==
  LET known == {k \in DOMAIN o.nums : DOMAIN o.nums = {k} /\ k \in {key, ""}}
  IN  IF known = {} THEN default ELSE o.nums[CHOOSE k \in known : TRUE]

Whole(o, key, default) ==
  LET v == Number(o, key, Q(default))
  IN  IF v.n < 0 THEN Ceiling(v) ELSE Floor(v)

Periods(o) == Whole(o, "periods", 252)
Word(o, default) == IF o = NoConvention THEN default ELSE o.word
Keyed(o, key, default) == IF key \in DOMAIN o.nums THEN o.nums[key] ELSE default

\* "p95" and "90" are percents, "p99.9" as well, "q=0.9" and "0.9" are shares.
Quantile(o) ==
  CASE DOMAIN o.nums \in {{"%"}, {"q"}} ->
         LET v == o.nums[CHOOSE k \in DOMAIN o.nums : TRUE]
         IN  IF v.d = 1 \/ One \prec v THEN v // Q(100) ELSE v
    [] DOMAIN o.nums = {""} -> IF One \prec o.nums[""] THEN o.nums[""] // Q(100) ELSE o.nums[""]
    [] OTHER -> NaN

Level(o) == IF o = NoConvention THEN Over(19, 20) ELSE Quantile(o)
TailLevel(o) == IF Half \prec Quantile(o) /\ Quantile(o) \prec One THEN Quantile(o) ELSE Over(19, 20)

\* float(convention): text that is no number raises.
Bare(o, default) ==
  CASE o = NoConvention -> default
    [] DOMAIN o.nums = {""} -> o.nums[""]
    [] OTHER -> NaN

Side(o) == IF o.word = "sell" THEN -1 ELSE 1

Ranking(c) == [query |-> c.query, rank |-> c.rank, rel |-> c.relevance]

\* the first recipes: quant, classification, regression, aggregates
Pack_0(id, c, o) ==
  CASE id = "total_return" -> total_return(c.return)
    [] id = "sharpe" -> IF Undefined(Bare(o, Q(252))) THEN NaN ELSE sharpe(c.return, Bare(o, Q(252)).n)
    [] id = "max_drawdown" -> max_drawdown(c.return)
    [] id = "accuracy" -> accuracy(c.prediction, c.label)
    [] id = "auc" -> auc(c.score, c.label)
    [] id = "rmse" -> rmse(c.prediction, c.target)
    [] id = "mae" -> mae(c.prediction, c.target)
    [] id = "r2" -> r2(c.prediction, c.target)
    [] id = "precision" -> precision(confusion(c.prediction, c.label))
    [] id = "recall" -> recall(confusion(c.prediction, c.label))
    [] id = "f1" -> f1(confusion(c.prediction, c.label))
    [] id = "column_sum" -> col_sum(c.value)
    [] id = "column_mean" -> col_mean(c.value)
    [] id = "brier" -> brier(c.prob, c.label)
    [] OTHER -> NaN

\* performance & engineering claims
Pack_1(id, c, o) ==
  CASE id = "speedup_ratio" -> speedup_ratio(c.before, c.after, Word(o, "mean"))
    [] id = "latency_p50" -> quantile(c.duration, Half)
    [] id = "latency_p95" -> quantile(c.duration, Over(19, 20))
    [] id = "latency_p99" -> quantile(c.duration, Over(99, 100))
    [] id = "throughput" -> throughput(c.duration)
    [] id = "peak_memory" -> peak(c.value)
    [] id = "test_coverage" -> coverage_fraction(c.hits)
    [] id = "error_rate" -> error_rate(c.flag, Word(o, "flag"))
    [] OTHER -> Pack_0(id, c, o)

\* analytics depth
Pack_2(id, c, o) ==
  CASE id = "column_median" -> quantile(c.value, Half)
    [] id = "percentile" -> quantile(c.value, Quantile(o))
    [] id = "distinct_count" -> IF o.word = "include_null" THEN NaN ELSE distinct_count(c.value)
    [] id = "growth_rate" -> growth_rate(c.value, Word(o, "period"))
    [] id = "ratio_share" -> ratio_share(c.flag)
    [] id = "null_fraction" -> null_fraction(c.value)
    [] id = "duplicate_count" -> duplicate_count(c.value)
    [] id = "join_row_loss" -> join_row_loss(c.left_key, c.joined_key)
    [] OTHER -> Pack_1(id, c, o)

\* modern ML & RAG evals
Pack_3(id, c, o) ==
  CASE id = "recall_at_k" -> recall_at_k(Ranking(c), Whole(o, "k", 10))
    [] id = "mrr" -> mrr(Ranking(c), Whole(o, "k", 0))
    [] id = "top_k_accuracy" -> hit_at_k(Ranking(c), Whole(o, "k", 5))
    [] id = "exact_match" -> exact_match(c.prediction, c.reference, o.word = "normalized")
    [] id = "pass_at_k" -> pass_at_k(c.problem, c.correct, Whole(o, "k", 1))
    [] id = "macro_f1" -> macro_f1(c.prediction, c.label)
    [] id = "micro_f1" -> micro_f1(c.prediction, c.label)
    [] id = "pr_auc" ->
         IF o.word = "trapezoid" THEN pr_auc_trapezoid(c.score, c.label) ELSE average_precision(c.score, c.label)
    [] id = "mcc" -> mcc(c.prediction, c.label)
    [] id = "ece" -> ece(c.prob, c.label, Whole(o, "bins", 15))
    [] OTHER -> Pack_2(id, c, o)

\* statistical claims
Pack_4(id, c, o) ==
  CASE id = "p_value" -> t_test_p(c.sample_a, c.sample_b, Word(o, "welch"))
    [] id = "lift" -> lift(c.sample_a, c.sample_b, Word(o, "relative"))
    [] id = "chi_square" -> chi_square(c.group, c.outcome, o.word \notin {"p-no-yates", "statistic-no-yates"})
    [] id = "correlation" -> IF o.word = "spearman" THEN NaN ELSE pearson_r(c.x, c.y)
    [] id = "effect_size" ->
         IF o.word = "glass_delta" THEN glass_delta(c.sample_a, c.sample_b)
         ELSE IF o.word = "hedges_g" THEN NaN ELSE cohen_d(c.sample_a, c.sample_b)
    [] OTHER -> Pack_3(id, c, o)

\* business & finance beyond trading
Pack_5(id, c, o) ==
  CASE id = "npv" -> IF Undefined(Number(o, "rate", NaN)) THEN NaN ELSE npv(c.cashflow, Number(o, "rate", NaN))
    [] id = "churn_rate" -> churn_rate(c.flag, Word(o, "churn"))
    [] id = "margin_pct" -> margin_pct(c.value, c.cost)
    [] id = "reconciliation_total" -> reconciliation_diff(c.value_a, c.value_b)
    [] OTHER -> Pack_4(id, c, o)

\* forecasting
Pack_6(id, c, o) ==
  CASE id = "mape" -> mape(c.prediction, c.target, o.word = "smape")
    [] id = "mase" -> mase(c.prediction, c.target, Whole(o, "m", 1))
    [] id = "pinball_loss" -> pinball(c.prediction, c.target, Number(o, "q", Half))
    [] OTHER -> Pack_5(id, c, o)

\* quant risk & relative performance
Pack_7(id, c, o) ==
  CASE id = "volatility" -> volatility(c.return, Periods(o))
    [] id = "downside_deviation" -> downside_deviation(c.return, Periods(o))
    [] id = "sortino" -> sortino(c.return, Periods(o))
    [] id = "value_at_risk" -> value_at_risk(c.return, Level(o))
    [] id = "cvar" -> cvar(c.return, Level(o))
    [] id = "win_rate" -> win_rate(c.return)
    [] id = "profit_factor" -> profit_factor(c.return)
    [] id = "omega_ratio" -> omega_ratio(c.return, Number(o, "threshold", Zero))
    [] id = "beta" -> beta(c.return, c.benchmark)
    [] id = "alpha" -> alpha(c.return, c.benchmark, Periods(o))
    [] id = "information_ratio" -> information_ratio(c.return, c.benchmark, Periods(o))
    [] id = "tracking_error" -> tracking_error(c.return, c.benchmark, Periods(o))
    [] OTHER -> Pack_6(id, c, o)

\* classification & regression depth II
Pack_8(id, c, o) ==
  CASE id = "balanced_accuracy" -> balanced_accuracy(c.prediction, c.label)
    [] id = "cohen_kappa" -> cohen_kappa(c.prediction, c.label)
    [] id = "specificity" -> specificity(confusion(c.prediction, c.label))
    [] id = "fbeta" -> fbeta(confusion(c.prediction, c.label), Number(o, "beta", One))
    [] id = "jaccard" -> jaccard(confusion(c.prediction, c.label))
    [] id = "weighted_f1" -> weighted_f1(c.prediction, c.label)
    [] id = "ks_statistic" -> ks_statistic(c.score, c.label)
    [] id = "gini_norm" -> gini_norm(c.score, c.label)
    [] id = "medae" -> medae(c.prediction, c.target)
    [] id = "max_error" -> max_error(c.prediction, c.target)
    [] id = "explained_variance" -> explained_variance(c.prediction, c.target)
    [] id = "wape" -> wape(c.prediction, c.target)
    [] id = "forecast_bias" -> forecast_bias(c.prediction, c.target)
    [] id = "adjusted_r2" ->
         IF Whole(o, "p", 0) = 0 THEN NaN ELSE adjusted_r2(c.prediction, c.target, Whole(o, "p", 0))
    [] id = "nrmse" -> nrmse(c.prediction, c.target, Word(o, "mean"))
    [] id = "durbin_watson" -> durbin_watson(c.prediction, c.target)
    [] OTHER -> Pack_7(id, c, o)

\* analytics & engineering depth II
Pack_9(id, c, o) ==
  CASE id = "column_min" -> col_min(c.value)
    [] id = "column_max" -> col_max(c.value)
    [] id = "column_std" -> IF Whole(o, "ddof", 1) = 1 THEN col_std(c.value) ELSE NaN
    [] id = "iqr" -> iqr(c.value)
    [] id = "outlier_count" -> outlier_count(c.value, Number(o, "k", Over(3, 2)))
    [] id = "mode_share" -> mode_share(c.value)
    [] id = "gini_coefficient" -> gini_coefficient(c.value)
    [] id = "hhi" -> hhi(c.value)
    [] id = "latency_p90" -> quantile(c.duration, Over(9, 10))
    [] id = "apdex" -> IF Undefined(Number(o, "t", NaN)) THEN NaN ELSE apdex(c.duration, Number(o, "t", NaN))
    [] id = "uptime_pct" -> ratio_share(c.flag)
    [] id = "cache_hit_rate" -> ratio_share(c.flag)
    [] OTHER -> Pack_8(id, c, o)

\* statistical tests II
Pack_10(id, c, o) ==
  CASE id = "mann_whitney" -> mann_whitney_p(c.sample_a, c.sample_b)
    [] id = "ks_test" -> ks_p(c.sample_a, c.sample_b)
    [] id = "anova" -> anova_p(c.group, c.value)
    [] id = "proportion_z" -> proportion_z_p(c.sample_a, c.sample_b)
    [] id = "fisher_exact" -> fisher_exact_p(table_2x2(c.group, c.outcome))
    [] id = "odds_ratio" -> odds_ratio_2x2(table_2x2(c.group, c.outcome), o.word = "haldane")
    [] id = "relative_risk" -> relative_risk_2x2(table_2x2(c.group, c.outcome))
    [] id = "cramers_v" -> cramers_v(c.group, c.outcome)
    [] id = "skewness" -> skewness(c.value)
    [] id = "kurtosis" -> kurtosis_excess(c.value)
    [] id = "jarque_bera" -> jarque_bera(c.value)
    [] id = "autocorrelation" -> autocorrelation(c.value, Whole(o, "lag", 1))
    [] OTHER -> Pack_9(id, c, o)

\* retrieval / LLM evals II
Pack_11(id, c, o) ==
  CASE id = "precision_at_k" -> precision_at_k(Ranking(c), Whole(o, "k", 10))
    [] id = "map_at_k" -> map_at_k(Ranking(c), Whole(o, "k", 10))
    [] id = "wer" -> IF o.word = "cer" THEN NaN ELSE wer(c.prediction, c.reference)
    [] OTHER -> Pack_10(id, c, o)

\* quant-risk depth
Pack_QR(id, c, o) ==
  CASE id = "ulcer_index" -> ulcer_index(c.return)
    [] id = "pain_index" -> pain_index(c.return)
    [] id = "recovery_factor" -> recovery_factor(c.return)
    [] id = "gain_to_pain_ratio" -> gain_to_pain_ratio(c.return)
    [] id = "tail_ratio" -> tail_ratio(c.return)
    [] id = "gain_loss_ratio" -> gain_loss_ratio(c.return)
    [] id = "win_loss_ratio" -> win_loss_ratio(c.return)
    [] id = "kelly_criterion" -> kelly_criterion(c.return)
    [] id = "upside_deviation" -> upside_deviation(c.return, Periods(o))
    [] id = "upside_potential_ratio" -> upside_potential_ratio(c.return)
    [] id = "cdar" -> cdar(c.return, Level(o))
    [] id = "max_drawdown_duration" -> max_drawdown_duration(c.return)
    [] id = "up_capture_ratio" -> up_capture_ratio(c.return, c.benchmark)
    [] id = "down_capture_ratio" -> down_capture_ratio(c.return, c.benchmark)
    [] id = "capture_ratio" -> capture_ratio(c.return, c.benchmark)
    [] id = "treynor_ratio" -> treynor_ratio(c.return, c.benchmark, Periods(o))
    [] id = "r_squared" -> r_squared(c.return, c.benchmark)
    [] id = "active_return" -> active_return(c.return, c.benchmark, Periods(o))
    [] OTHER -> Pack_11(id, c, o)

\* statistics & hypothesis tests
Pack_ST(id, c, o) ==
  CASE id = "point_biserial" -> point_biserial(c.binary, c.value)
    [] id = "kendall_tau" -> kendall_tau(c.x, c.y)
    [] id = "theil_sen_slope" -> theil_sen_slope(c.x, c.y)
    [] id = "cliffs_delta" -> cliffs_delta(c.sample_a, c.sample_b)
    [] id = "rank_biserial" -> rank_biserial(c.sample_a, c.sample_b)
    [] id = "eta_squared" -> eta_squared(c.group, c.value)
    [] id = "mcnemar" -> mcnemar_p(c.sample_a, c.sample_b)
    [] OTHER -> Pack_QR(id, c, o)

\* variance / distribution / nonparametric k-sample tests + CIs + multiplicit
Pack_ST2(id, c, o) ==
  CASE id = "levene" -> levene(c.group, c.value)
    [] id = "kruskal_wallis" -> kruskal_wallis(c.group, c.value)
    [] id = "wilcoxon_signed_rank" -> wilcoxon_signed_rank(c.sample_a, c.sample_b)
    [] id = "bh_rejections" ->
         IF Undefined(Bare(o, Over(1, 20))) THEN NaN ELSE bh_rejections(c.value, Bare(o, Over(1, 20)))
    [] id = "holm_rejections" ->
         IF Undefined(Bare(o, Over(1, 20))) THEN NaN ELSE holm_rejections(c.value, Bare(o, Over(1, 20)))
    [] OTHER -> Pack_ST(id, c, o)

\* risk-model validation: VaR backtesting + distribution shift / discriminati
Pack_RM(id, c, o) ==
  CASE id = "wasserstein_1d" -> wasserstein_1d(c.sample_a, c.sample_b)
    [] id = "energy_distance" -> energy_distance(c.sample_a, c.sample_b)
    [] id = "ks_2samp" -> ks_2samp(c.sample_a, c.sample_b)
    [] OTHER -> Pack_ST2(id, c, o)

\* classification & regression depth
Pack_CR(id, c, o) ==
  CASE id = "g_mean" -> g_mean(confusion(c.prediction, c.label))
    [] id = "youden_j" -> youden_j(confusion(c.prediction, c.label))
    [] id = "markedness" -> markedness(confusion(c.prediction, c.label))
    [] id = "negative_predictive_value" -> negative_predictive_value(confusion(c.prediction, c.label))
    [] id = "false_positive_rate" -> false_positive_rate(confusion(c.prediction, c.label))
    [] id = "false_negative_rate" -> false_negative_rate(confusion(c.prediction, c.label))
    [] id = "false_discovery_rate" -> false_discovery_rate(confusion(c.prediction, c.label))
    [] id = "positive_likelihood_ratio" -> positive_likelihood_ratio(confusion(c.prediction, c.label))
    [] id = "negative_likelihood_ratio" -> negative_likelihood_ratio(confusion(c.prediction, c.label))
    [] id = "diagnostic_odds_ratio" -> diagnostic_odds_ratio(confusion(c.prediction, c.label))
    [] id = "threat_score" -> threat_score(confusion(c.prediction, c.label))
    [] id = "fowlkes_mallows" -> fowlkes_mallows(confusion(c.prediction, c.label))
    [] id = "concordance_correlation" -> concordance_correlation(c.prediction, c.target)
    [] id = "huber_loss" -> huber_loss(c.prediction, c.target, Number(o, "delta", One))
    [] id = "d2_absolute_error" -> d2_absolute_error(c.prediction, c.target)
    [] OTHER -> Pack_RM(id, c, o)

\* analytics / data-quality / robust-stats depth
Pack_AN(id, c, o) ==
  CASE id = "variance" -> variance(c.value)
    [] id = "range_value" -> range_value(c.value)
    [] id = "mean_abs_deviation" -> mean_abs_deviation(c.value)
    [] id = "median_abs_deviation" -> median_abs_deviation(c.value)
    [] id = "harmonic_mean" -> harmonic_mean(c.value)
    [] id = "quartile_coefficient_dispersion" -> quartile_coefficient_dispersion(c.value)
    [] id = "index_of_dispersion" -> index_of_dispersion(c.value)
    [] id = "trimmed_mean" -> trimmed_mean(c.value, Number(o, "proportion", Over(1, 10)))
    [] id = "weighted_mean" -> weighted_mean(c.value, c.weight)
    [] id = "covariance" -> covariance(c.x, c.y)
    [] id = "uniqueness_ratio" -> uniqueness_ratio(c.value)
    [] OTHER -> Pack_CR(id, c, o)

\* forecasting / time-series accuracy
Pack_TS(id, c, o) ==
  CASE id = "theil_u2" -> theil_u2(c.prediction, c.target)
    [] id = "rmsse" -> rmsse(c.prediction, c.target)
    [] id = "tracking_signal" -> tracking_signal(c.prediction, c.target)
    [] id = "mean_directional_accuracy" -> mean_directional_accuracy(c.prediction, c.target)
    [] id = "relative_absolute_error" -> relative_absolute_error(c.prediction, c.target)
    [] id = "relative_squared_error" -> relative_squared_error(c.prediction, c.target)
    [] id = "mean_percentage_error" -> mean_percentage_error(c.prediction, c.target)
    [] id = "median_absolute_percentage_error" -> median_absolute_percentage_error(c.prediction, c.target)
    [] OTHER -> Pack_AN(id, c, o)

\* fairness / bias across a sensitive group
Pack_FAIR(id, c, o) ==
  CASE id = "demographic_parity_difference" ->
         demographic_parity_difference(grp_confusion(c.prediction, c.label, c.group))
    [] id = "demographic_parity_ratio" ->
         demographic_parity_ratio(grp_confusion(c.prediction, c.label, c.group))
    [] id = "equalized_odds_difference" ->
         equalized_odds_difference(grp_confusion(c.prediction, c.label, c.group))
    [] id = "equalized_odds_ratio" -> equalized_odds_ratio(grp_confusion(c.prediction, c.label, c.group))
    [] id = "equal_opportunity_difference" ->
         equal_opportunity_difference(grp_confusion(c.prediction, c.label, c.group))
    [] id = "predictive_parity_difference" ->
         predictive_parity_difference(grp_confusion(c.prediction, c.label, c.group))
    [] id = "fpr_parity_difference" -> fpr_parity_difference(grp_confusion(c.prediction, c.label, c.group))
    [] id = "accuracy_parity_difference" ->
         accuracy_parity_difference(grp_confusion(c.prediction, c.label, c.group))
    [] OTHER -> Pack_TS(id, c, o)

\* survival concordance + clustering-agreement
Pack_BC(id, c, o) ==
  CASE id = "concordance_index" -> concordance_index(c.time, c.score, c.event)
    [] id = "rand_index" -> rand_index(c.labels_true, c.labels_pred)
    [] id = "adjusted_rand_index" -> adjusted_rand_index(c.labels_true, c.labels_pred)
    [] id = "fowlkes_mallows_clustering" -> fowlkes_mallows_clustering(c.labels_true, c.labels_pred)
    [] OTHER -> Pack_FAIR(id, c, o)

\* performance / SRE depth
Pack_ENG(id, c, o) ==
  CASE id = "latency_p75" -> latency_p75(c.duration)
    [] id = "latency_p999" -> latency_p999(c.duration)
    [] id = "tail_latency_ratio" -> tail_latency_ratio(c.duration)
    [] id = "latency_stddev" -> latency_stddev(c.duration)
    [] id = "jitter" -> jitter(c.duration)
    [] id = "slo_attainment" -> slo_attainment(c.duration, Number(o, "threshold", Zero))
    [] id = "error_budget_burn" -> error_budget_burn(c.flag, Number(o, "target", Over(1, 100)))
    [] id = "compression_ratio" -> compression_ratio(c.original, c.compressed)
    [] id = "availability" -> availability(c.uptime, c.downtime)
    [] id = "mtbf" -> mtbf(c.flag)
    [] OTHER -> Pack_BC(id, c, o)

\* quant performance depth
Pack_QR2(id, c, o) ==
  CASE id = "common_sense_ratio" -> common_sense_ratio(c.return)
    [] id = "downside_potential" -> downside_potential(c.return)
    [] id = "upside_potential" -> upside_potential(c.return)
    [] id = "m2_measure" -> m2_measure(c.return, c.benchmark)
    [] id = "appraisal_ratio" -> appraisal_ratio(c.return, c.benchmark)
    [] id = "rachev_ratio" -> rachev_ratio(c.return, Level(o))
    [] id = "omega_sharpe_ratio" -> omega_sharpe_ratio(c.return, Number(o, "threshold", Zero))
    [] OTHER -> Pack_ENG(id, c, o)

\* causal / experimentation
Pack_EXP(id, c, o) ==
  CASE id = "average_treatment_effect" -> average_treatment_effect(c.treatment, c.control)
    [] id = "risk_difference" -> risk_difference(c.treatment, c.control)
    [] id = "relative_risk_reduction" -> relative_risk_reduction(c.treatment, c.control)
    [] id = "number_needed_to_treat" -> number_needed_to_treat(c.treatment, c.control)
    [] id = "standardized_mean_difference" -> standardized_mean_difference(c.treatment, c.control)
    [] id = "cuped_ate" -> cuped_ate(c.value, c.covariate, c.group)
    [] id = "variance_reduction_cuped" -> variance_reduction_cuped(c.value, c.covariate)
    [] id = "srm_pvalue" -> srm_pvalue(c.group)
    [] OTHER -> Pack_QR2(id, c, o)

\* retrieval / ranking depth + token-overlap text metrics
Pack_IR(id, c, o) ==
  CASE id = "r_precision" -> r_precision(Ranking(c))
    [] id = "mean_average_precision" -> mean_average_precision(Ranking(c))
    [] id = "f1_at_k" -> f1_at_k(Ranking(c), Whole(o, "k", 10))
    [] id = "fallout_at_k" -> fallout_at_k(Ranking(c), Whole(o, "k", 10))
    [] id = "rbp" -> rbp(Ranking(c), Number(o, "p", Over(4, 5)))
    [] id = "token_f1" -> token_f1(c.prediction, c.reference)
    [] id = "token_jaccard" -> token_jaccard(c.prediction, c.reference)
    [] id = "token_dice" -> token_dice(c.prediction, c.reference)
    [] OTHER -> Pack_EXP(id, c, o)

\* fixed-income analytics
Pack_FI(id, c, o) ==
  CASE id = "bond_price" -> bond_price(c.cashflow, c.time, Number(o, "ytm", Over(1, 20)))
    [] id = "macaulay_duration" -> macaulay_duration(c.cashflow, c.time, Number(o, "ytm", Over(1, 20)))
    [] id = "modified_duration" -> modified_duration(c.cashflow, c.time, Number(o, "ytm", Over(1, 20)))
    [] id = "convexity" -> convexity(c.cashflow, c.time, Number(o, "ytm", Over(1, 20)))
    [] id = "dv01" -> dv01(c.cashflow, c.time, Number(o, "ytm", Over(1, 20)))
    [] id = "weighted_average_life" -> weighted_average_life(c.cashflow, c.time)
    [] OTHER -> Pack_IR(id, c, o)

\* expected-shortfall / VaR backtesting
Pack_ES(id, c, o) ==
  CASE id = "var_breach_rate" -> var_breach_rate(c.return, c.var)
    [] id = "realized_shortfall" -> realized_shortfall(c.return, c.var)
    [] id = "expected_exceedance" -> expected_exceedance(c.return, c.var)
    [] id = "basel_traffic_light" -> basel_traffic_light(c.return, c.var)
    [] id = "es_backtest_ratio" -> es_backtest_ratio(c.return, c.var, c.es)
    [] id = "acerbi_szekely_z1" -> acerbi_szekely_z1(c.return, c.var, c.es, Number(o, "level", Over(39, 40)))
    [] id = "acerbi_szekely_z2" -> acerbi_szekely_z2(c.return, c.var, c.es, Number(o, "level", Over(39, 40)))
    [] OTHER -> Pack_FI(id, c, o)

\* credit / default risk
Pack_CRb(id, c, o) ==
  CASE id = "expected_loss" -> expected_loss(c.pd, c.lgd, c.ead)
    [] id = "expected_loss_rate" -> expected_loss_rate(c.pd, c.lgd, c.ead)
    [] id = "weighted_lgd" -> weighted_lgd(c.lgd, c.ead)
    [] id = "altman_z" -> altman_z(c.x1, c.x2, c.x3, c.x4, c.x5)
    [] id = "altman_z_prime" -> altman_z_prime(c.x1, c.x2, c.x3, c.x4)
    [] OTHER -> Pack_ES(id, c, o)

\* credit recovery & exposure-weighting
Pack_CX(id, c, o) ==
  CASE id = "recovery_rate" -> recovery_rate(c.recovery, c.exposure)
    [] id = "exposure_weighted_pd" -> weighted_mean(c.pd, c.ead)
    [] id = "exposure_weighted_maturity" -> weighted_mean(c.maturity, c.ead)
    [] OTHER -> Pack_CRb(id, c, o)

\* clustering agreement depth
Pack_CLU(id, c, o) ==
  CASE id = "purity" -> purity(c.prediction, c.label)
    [] id = "bcubed_precision" -> bcubed_precision(c.prediction, c.label)
    [] id = "bcubed_recall" -> bcubed_recall(c.prediction, c.label)
    [] id = "bcubed_f1" -> bcubed_f1(c.prediction, c.label)
    [] OTHER -> Pack_CX(id, c, o)

\* consistency & ODD-flag metrics
Pack_PERF2(id, c, o) ==
  CASE id = "batting_average" -> batting_average(c.return, c.benchmark)
    [] id = "bias_ratio" -> bias_ratio(c.return)
    [] id = "max_consecutive_losses" -> max_consecutive_losses(c.return)
    [] OTHER -> Pack_CLU(id, c, o)

\* tail-risk-adjusted reward ratios
Pack_QRb(id, c, o) ==
  CASE id = "reward_to_var_ratio" -> reward_to_var_ratio(c.return, TailLevel(o))
    [] id = "starr_ratio" -> starr_ratio(c.return, TailLevel(o))
    [] OTHER -> Pack_PERF2(id, c, o)

\* realized volatility / jump measures
Pack_RV(id, c, o) ==
  CASE id = "realized_variance" -> realized_variance(c.return)
    [] id = "realized_volatility" -> realized_volatility(c.return)
    [] OTHER -> Pack_QRb(id, c, o)

\* Hurst / long-memory
Pack_HU(id, c, o) ==
  CASE id = "rescaled_range" -> rescaled_range(c.value)
    [] OTHER -> Pack_RV(id, c, o)

\* margin classification losses
Pack_ML2(id, c, o) ==
  CASE id = "hinge_loss" -> hinge_loss(c.score, c.label)
    [] id = "squared_hinge_loss" -> squared_hinge_loss(c.score, c.label)
    [] OTHER -> Pack_HU(id, c, o)

\* portfolio construction & attribution
Pack_PA(id, c, o) ==
  CASE id = "brinson_allocation" -> brinson_allocation(c.port_weight, c.bench_weight, c.bench_return)
    [] id = "brinson_selection" -> brinson_selection(c.bench_weight, c.port_return, c.bench_return)
    [] id = "brinson_interaction" ->
         brinson_interaction(c.port_weight, c.bench_weight, c.port_return, c.bench_return)
    [] id = "brinson_total_active" ->
         brinson_total_active(c.port_weight, c.bench_weight, c.port_return, c.bench_return)
    [] id = "active_share" -> active_share(c.port_weight, c.bench_weight)
    [] id = "portfolio_turnover" -> portfolio_turnover(c.prev_weight, c.curr_weight)
    [] id = "effective_number_of_bets" -> effective_number_of_bets(c.weight)
    [] id = "brinson_fachler_allocation" ->
         brinson_fachler_allocation(c.port_weight, c.bench_weight, c.bench_return)
    [] id = "geometric_excess_return" ->
         geometric_excess_return(c.port_weight, c.bench_weight, c.port_return, c.bench_return)
    [] OTHER -> Pack_ML2(id, c, o)

\* rates / curve analytics
Pack_RC(id, c, o) ==
  CASE id = "par_yield" -> par_yield(c.zero_rate, c.time)
    [] id = "annuity_factor" -> annuity_factor(c.zero_rate, c.time)
    [] id = "forward_rate" -> forward_rate(c.zero_rate, c.time)
    [] id = "curve_pv" -> curve_pv(c.cashflow, c.zero_rate, c.time)
    [] id = "effective_duration" ->
         effective_duration(c.cashflow, c.time, Number(o, "ytm", Over(1, 20)), Over(1, 10000))
    [] id = "effective_convexity" ->
         effective_convexity(c.cashflow, c.time, Number(o, "ytm", Over(1, 20)), Over(1, 10000))
    [] OTHER -> Pack_PA(id, c, o)

\* fund / LP economics
Pack_FM(id, c, o) ==
  CASE id = "dpi" -> dpi(c.contribution, c.distribution)
    [] id = "rvpi" -> rvpi(c.contribution, Number(o, "nav", Zero))
    [] id = "tvpi" -> tvpi(c.contribution, c.distribution, Number(o, "nav", Zero))
    [] id = "called_pct" -> called_pct(c.contribution, Number(o, "committed", Zero))
    [] id = "carried_interest" ->
         carried_interest(c.contribution, c.distribution, Number(o, "carry", Over(1, 5)))
    [] id = "realization_ratio" -> realization_ratio(c.distribution, Number(o, "nav", Zero))
    [] OTHER -> Pack_RC(id, c, o)

\* liquidity / microstructure
Pack_LQ(id, c, o) ==
  CASE id = "amihud_illiquidity" -> amihud_illiquidity(c.return, c.dollar_volume)
    [] id = "amivest_liquidity" -> amivest_liquidity(c.return, c.dollar_volume)
    [] id = "roll_spread" -> roll_spread(c.price)
    [] id = "kyle_lambda" -> kyle_lambda(c.price_change, c.signed_volume)
    [] id = "vwap" -> vwap(c.price, c.volume)
    [] id = "relative_spread" -> relative_spread(c.bid, c.ask)
    [] OTHER -> Pack_FM(id, c, o)

\* multiple-testing corrections
Pack_AB(id, c, o) ==
  CASE id = "bonferroni_rejections" -> bonferroni_rejections(c.value, Number(o, "alpha", Over(1, 20)))
    [] id = "hochberg_rejections" -> hochberg_rejections(c.value, Number(o, "alpha", Over(1, 20)))
    [] id = "benjamini_yekutieli" -> benjamini_yekutieli(c.value, Number(o, "alpha", Over(1, 20)))
    [] OTHER -> Pack_LQ(id, c, o)

\* time-series / return diagnostics
Pack_TSb(id, c, o) ==
  CASE id = "variance_ratio" -> variance_ratio(c.return, Whole(o, "q", 2))
    [] id = "runs_test" -> runs_test(c.value, Zero)
    [] id = "arch_lm" -> arch_lm(c.value)
    [] OTHER -> Pack_AB(id, c, o)

\* exposure, leverage & operational-due-diligence metrics
Pack_OPS(id, c, o) ==
  CASE id = "gross_exposure" -> gross_exposure(c.exposure)
    [] id = "net_exposure" -> net_exposure(c.exposure)
    [] id = "long_exposure" -> long_exposure(c.exposure)
    [] id = "short_exposure" -> short_exposure(c.exposure)
    [] id = "long_short_ratio" -> long_short_ratio(c.exposure)
    [] id = "largest_position" -> largest_position(c.exposure)
    [] id = "liquidity_coverage" ->
         liquidity_coverage(c.weight, c.days_to_liquidate, Number(o, "threshold", Q(5)))
    [] OTHER -> Pack_TSb(id, c, o)

\* single-factor market-model risk
Pack_FX(id, c, o) ==
  CASE id = "idiosyncratic_volatility" -> idiosyncratic_volatility(c.return, c.benchmark)
    [] id = "alpha_tstat" -> alpha_tstat(c.return, c.benchmark)
    [] id = "beta_tstat" -> beta_tstat(c.return, c.benchmark)
    [] id = "bull_beta" -> bull_beta(c.return, c.benchmark)
    [] id = "bear_beta" -> bear_beta(c.return, c.benchmark)
    [] id = "up_down_beta_ratio" -> up_down_beta_ratio(c.return, c.benchmark)
    [] OTHER -> Pack_OPS(id, c, o)

\* credit-quality / covenant ratios
Pack_AR(id, c, o) ==
  CASE id = "current_ratio" -> current_ratio(c.current_assets, c.current_liabilities)
    [] id = "quick_ratio" -> quick_ratio(c.current_assets, c.inventory, c.current_liabilities)
    [] id = "interest_coverage" -> interest_coverage(c.ebit, c.interest_expense)
    [] id = "debt_to_equity" -> debt_to_equity(c.debt, c.equity)
    [] id = "debt_to_ebitda" -> debt_to_ebitda(c.debt, c.ebitda)
    [] id = "net_debt_to_ebitda" -> net_debt_to_ebitda(c.debt, c.cash, c.ebitda)
    [] id = "ebitda_margin" -> ebitda_margin(c.ebitda, c.revenue)
    [] OTHER -> Pack_FX(id, c, o)

\* probability-calibration depth
Pack_CAL(id, c, o) ==
  CASE id = "maximum_calibration_error" ->
         maximum_calibration_error(c.probability, c.label, Whole(o, "bins", 15))
    [] id = "brier_reliability" -> brier_reliability(c.probability, c.label, Whole(o, "bins", 15))
    [] id = "brier_resolution" -> brier_resolution(c.probability, c.label, Whole(o, "bins", 15))
    [] id = "brier_skill_score" -> brier_skill_score(c.probability, c.label)
    [] id = "calibration_in_the_large" -> calibration_in_the_large(c.probability, c.label)
    [] id = "spiegelhalter_z" -> spiegelhalter_z(c.probability, c.label)
    [] id = "sharpness" -> sharpness(c.probability)
    [] OTHER -> Pack_AR(id, c, o)

\* distribution-distance depth
Pack_DIST(id, c, o) ==
  CASE id = "total_variation_distance" -> total_variation_distance(c.p, c.q)
    [] id = "chi_square_distance" -> chi_square_distance(c.p, c.q)
    [] OTHER -> Pack_CAL(id, c, o)

\* survival / time-to-event
Pack_SV(id, c, o) ==
  CASE id = "km_median_survival" -> km_median_survival(c.duration, c.event)
    [] id = "km_survival_at" -> km_survival_at(c.duration, c.event, Number(o, "t", One))
    [] id = "nelson_aalen_cumhaz" -> nelson_aalen_cumhaz(c.duration, c.event, Number(o, "t", One))
    [] id = "restricted_mean_survival_time" ->
         restricted_mean_survival_time(c.duration, c.event, Number(o, "horizon", One))
    [] OTHER -> Pack_DIST(id, c, o)

\* transaction-cost analysis
Pack_TX(id, c, o) ==
  CASE id = "implementation_shortfall" ->
         implementation_shortfall(c.exec_price, c.decision_price, c.quantity, Side(o))
    [] id = "arrival_slippage" -> arrival_slippage(c.exec_price, c.arrival_price, c.quantity, Side(o))
    [] id = "vwap_slippage" -> vwap_slippage(c.exec_price, c.vwap_price, c.quantity, Side(o))
    [] id = "effective_spread_bps" -> effective_spread_bps(c.exec_price, c.mid_price, c.quantity, Side(o))
    [] id = "participation_rate" -> participation_rate(c.order_volume, c.market_volume)
    [] OTHER -> Pack_SV(id, c, o)

\* private-market benchmarking
Pack_PME(id, c, o) ==
  CASE id = "ks_pme" -> ks_pme(c.contribution, c.distribution, c.index, Number(o, "nav", Zero))
    [] id = "pme_plus_lambda" ->
         pme_plus_lambda(c.contribution, c.distribution, c.index, Number(o, "nav", Zero))
    [] OTHER -> Pack_TX(id, c, o)

\* inequality / concentration depth
Pack_INE(id, c, o) ==
  CASE id = "hoover_index" -> hoover_index(c.value)
    [] id = "generalized_entropy_index" ->
         IF Number(o, "alpha", Q(2)) = Q(2) THEN generalized_entropy_index(c.value) ELSE NaN
    [] id = "percentile_ratio" -> percentile_ratio(c.value)
    [] OTHER -> Pack_PME(id, c, o)

\* effect-size depth
Pack_EF(id, c, o) ==
  CASE id = "glass_delta" -> glass_delta(c.sample_a, c.sample_b)
    [] id = "hedges_g" -> hedges_g(c.sample_a, c.sample_b)
    [] id = "common_language_effect_size" -> common_language_effect_size(c.sample_a, c.sample_b)
    [] OTHER -> Pack_INE(id, c, o)

\* regression / GLM deviance depth
Pack_RGD(id, c, o) ==
  CASE id = "mean_squared_error" -> mean_squared_error(c.prediction, c.target)
    [] OTHER -> Pack_EF(id, c, o)

\* prediction-interval / probabilistic-forecast evaluation
Pack_FCI(id, c, o) ==
  CASE id = "interval_coverage" -> interval_coverage(c.lower, c.upper, c.actual)
    [] id = "mean_interval_width" -> mean_interval_width(c.lower, c.upper)
    [] id = "winkler_score" -> winkler_score(c.lower, c.upper, c.actual, Number(o, "alpha", Over(1, 10)))
    [] id = "coverage_deviation" ->
         coverage_deviation(c.lower, c.upper, c.actual, Number(o, "alpha", Over(1, 10)))
    [] OTHER -> Pack_RGD(id, c, o)

\* inter-rater agreement coefficients
Pack_AG(id, c, o) ==
  CASE id = "percentage_agreement" -> percentage_agreement(c.rater_a, c.rater_b)
    [] id = "scott_pi" -> scott_pi(c.rater_a, c.rater_b)
    [] id = "brennan_prediger" -> brennan_prediger(c.rater_a, c.rater_b)
    [] id = "gwet_ac1" -> gwet_ac1(c.rater_a, c.rater_b)
    [] OTHER -> Pack_FCI(id, c, o)

\* correlation / dependence depth
Pack_CO(id, c, o) ==
  CASE id = "distance_correlation" -> distance_correlation(c.x, c.y)
    [] id = "somers_d" -> somers_d(c.x, c.y)
    [] id = "goodman_kruskal_gamma" -> goodman_kruskal_gamma(c.x, c.y)
    [] OTHER -> Pack_AG(id, c, o)

\* ranking / IR depth
Pack_RNK(id, c, o) ==
  CASE id = "err_at_k" -> err_at_k(Ranking(c), Whole(o, "k", 10))
    [] id = "success_at_k" -> success_at_k(Ranking(c), Whole(o, "k", 10))
    [] id = "arhr_at_k" -> arhr_at_k(Ranking(c), Whole(o, "k", 10))
    [] OTHER -> Pack_CO(id, c, o)

\* robust distribution shape
Pack_SH(id, c, o) ==
  CASE id = "bowley_skewness" -> bowley_skewness(c.value)
    [] id = "moors_kurtosis" -> moors_kurtosis(c.value)
    [] id = "l_skewness" -> l_skewness(c.value)
    [] id = "l_kurtosis" -> l_kurtosis(c.value)
    [] OTHER -> Pack_RNK(id, c, o)

\* tail-risk / extreme-value estimators
Pack_TL(id, c, o) ==
  CASE id = "max_to_sum_ratio" -> IF Number(o, "p", Q(2)) = Q(2) THEN max_to_sum_ratio(c.value) ELSE NaN
    [] OTHER -> Pack_SH(id, c, o)

\* return-on-capital & efficiency ratios
Pack_BIZ(id, c, o) ==
  CASE id = "return_on_equity" -> return_on_equity(c.net_income, c.equity)
    [] id = "return_on_assets" -> return_on_assets(c.net_income, c.assets)
    [] id = "return_on_invested_capital" -> return_on_invested_capital(c.nopat, c.invested_capital)
    [] id = "asset_turnover" -> asset_turnover(c.revenue, c.assets)
    [] id = "days_sales_outstanding" -> days_sales_outstanding(c.receivables, c.revenue)
    [] OTHER -> Pack_TL(id, c, o)

\* profitability margin ratios
Pack_AC(id, c, o) ==
  CASE id = "operating_margin" -> operating_margin(c.operating_income, c.revenue)
    [] id = "net_margin" -> net_margin(c.net_income, c.revenue)
    [] id = "free_cash_flow_margin" -> free_cash_flow_margin(c.fcf, c.revenue)
    [] id = "dividend_payout_ratio" -> dividend_payout_ratio(c.dividends, c.net_income)
    [] OTHER -> Pack_BIZ(id, c, o)

\* drawdown / path-risk depth
Pack_DD(id, c, o) ==
  CASE id = "time_underwater" -> time_underwater(c.return)
    [] id = "drawdown_deviation" -> drawdown_deviation(c.return)
    [] id = "drawdown_at_risk" -> drawdown_at_risk(c.return, TailLevel(o))
    [] OTHER -> Pack_AC(id, c, o)

\* forecasting accuracy depth
Pack_FC2(id, c, o) ==
  CASE id = "cumulative_forecast_error" -> cumulative_forecast_error(c.prediction, c.target)
    [] id = "nash_sutcliffe_efficiency" -> nash_sutcliffe_efficiency(c.prediction, c.target)
    [] id = "willmott_index" -> willmott_index(c.prediction, c.target)
    [] OTHER -> Pack_DD(id, c, o)

\* diversity / breadth indices
Pack_DV(id, c, o) ==
  CASE id = "berger_parker" -> berger_parker(c.value)
    [] OTHER -> Pack_FC2(id, c, o)

\* concentration-ratio depth
Pack_CN(id, c, o) ==
  CASE id = "concentration_ratio" -> concentration_ratio(c.value, Whole(o, "k", 4))
    [] id = "normalized_hhi" -> normalized_hhi(c.value)
    [] id = "rosenbluth_index" -> rosenbluth_index(c.value)
    [] id = "comprehensive_concentration_index" -> comprehensive_concentration_index(c.value)
    [] OTHER -> Pack_DV(id, c, o)

\* nonparametric scale / location tests
Pack_NP(id, c, o) ==
  CASE id = "mood_test" -> mood_test(c.sample_a, c.sample_b)
    [] id = "ansari_bradley" -> ansari_bradley(c.sample_a, c.sample_b)
    [] id = "brunner_munzel" -> brunner_munzel(c.sample_a, c.sample_b)
    [] OTHER -> Pack_CN(id, c, o)

\* robust moment & dispersion depth
Pack_MOM(id, c, o) ==
  CASE id = "pearson_median_skewness" -> pearson_median_skewness(c.value)
    [] id = "studentized_range" -> studentized_range(c.value)
    [] id = "relative_mean_deviation" -> relative_mean_deviation(c.value)
    [] id = "midhinge" -> midhinge(c.value)
    [] id = "trimean" -> trimean(c.value)
    [] id = "hodges_lehmann_estimator" -> hodges_lehmann_estimator(c.value)
    [] id = "gastwirth_location" -> gastwirth_location(c.value)
    [] id = "gini_mean_difference" -> gini_mean_difference(c.value)
    [] id = "relative_mean_difference" -> relative_mean_difference(c.value)
    [] id = "l_scale" -> l_scale(c.value)
    [] id = "l_cv" -> l_cv(c.value)
    [] OTHER -> Pack_NP(id, c, o)

\* winsorized / trimmed robust statistics
Pack_WIN(id, c, o) ==
  CASE id = "winsorized_mean" -> winsorized_mean(c.value, Number(o, "trim", Over(1, 10)))
    [] id = "winsorized_std" -> winsorized_std(c.value, Number(o, "trim", Over(1, 10)))
    [] id = "trimmed_std" -> trimmed_std(c.value, Number(o, "trim", Over(1, 10)))
    [] OTHER -> Pack_MOM(id, c, o)

\* time-series diagnostics depth
Pack_TS2(id, c, o) ==
  CASE id = "box_pierce" -> box_pierce(c.value, Whole(o, "lags", 10))
    [] id = "partial_autocorrelation" -> partial_autocorrelation(c.value, Whole(o, "lag", 1))
    [] OTHER -> Pack_WIN(id, c, o)

\* generalized means & power-sum descriptive statistics
Pack_GM(id, c, o) ==
  CASE id = "power_mean" -> IF Number(o, "p", Q(2)) = Q(2) THEN power_mean(c.value) ELSE NaN
    [] id = "lehmer_mean" -> IF Number(o, "p", Q(2)) = Q(2) THEN lehmer_mean(c.value) ELSE NaN
    [] id = "root_mean_square" -> root_mean_square(c.value)
    [] id = "kstat_third" -> kstat_third(c.value)
    [] OTHER -> Pack_TS2(id, c, o)

\* normality & nonparametric test statistics
Pack_NT(id, c, o) ==
  CASE id = "wilcoxon_rank_sum" -> wilcoxon_rank_sum(c.sample_a, c.sample_b)
    [] id = "mood_median_test" -> mood_median_test(c.sample_a, c.sample_b)
    [] OTHER -> Pack_GM(id, c, o)

\* forecasting & hydrology skill metrics
Pack_FE4(id, c, o) ==
  CASE id = "root_mean_square_percentage_error" -> root_mean_square_percentage_error(c.prediction, c.target)
    [] id = "legates_mccabe_efficiency" -> legates_mccabe_efficiency(c.prediction, c.target)
    [] id = "refined_willmott_index" -> refined_willmott_index(c.prediction, c.target)
    [] id = "fractional_bias" -> fractional_bias(c.prediction, c.target)
    [] id = "mean_bias_error" -> mean_bias_error(c.prediction, c.target)
    [] OTHER -> Pack_NT(id, c, o)

\* diversity, entropy & welfare depth
Pack_DEC(id, c, o) ==
  CASE id = "tsallis_entropy" -> IF Number(o, "q", Q(2)) = Q(2) THEN tsallis_entropy(c.value) ELSE NaN
    [] id = "menhinick_richness" -> menhinick_richness(c.value)
    [] id = "sen_welfare" -> sen_welfare(c.value)
    [] id = "simpson_evenness" -> simpson_evenness(c.value)
    [] OTHER -> Pack_FE4(id, c, o)

\* distress-scoring models & bank-capital ratios
Pack_CR3(id, c, o) ==
  CASE id = "altman_z_double_prime" -> altman_z_double_prime(c.x1, c.x2, c.x3, c.x4)
    [] id = "springate_score" -> springate_score(c.wc_ta, c.ebit_ta, c.ebt_cl, c.sales_ta)
    [] id = "zmijewski_score" -> zmijewski_score(c.roa, c.tl_ta, c.ca_cl)
    [] id = "capital_adequacy_ratio" -> capital_adequacy_ratio(c.capital, c.rwa)
    [] id = "tier1_leverage_ratio" -> tier1_leverage_ratio(c.tier1_capital, c.total_exposure)
    [] id = "provision_coverage_ratio" -> provision_coverage_ratio(c.provisions, c.npl)
    [] id = "cds_implied_hazard" -> cds_implied_hazard(c.spread, c.recovery)
    [] OTHER -> Pack_DEC(id, c, o)

\* effect sizes & association measures
Pack_EFF(id, c, o) ==
  CASE id = "tschuprow_t" -> tschuprow_t(c.group, c.outcome)
    [] id = "pearson_contingency_coefficient" -> pearson_contingency_coefficient(c.group, c.outcome)
    [] id = "cohens_w" -> cohens_w(c.group, c.outcome)
    [] id = "omega_squared" -> omega_squared(c.group, c.value)
    [] id = "epsilon_squared" -> epsilon_squared(c.group, c.value)
    [] id = "cohens_f" -> cohens_f(c.group, c.value)
    [] OTHER -> Pack_CR3(id, c, o)

\* market-microstructure / execution depth
Pack_MS(id, c, o) ==
  CASE id = "order_flow_imbalance" -> order_flow_imbalance(c.buy_volume, c.sell_volume)
    [] id = "share_turnover" -> share_turnover(c.volume, c.shares_outstanding)
    [] id = "realized_spread_bps" -> realized_spread_bps(c.exec_price, c.mid_future_price, c.quantity, Side(o))
    [] id = "price_impact_bps" -> price_impact_bps(c.mid_price, c.mid_future_price, c.quantity, Side(o))
    [] OTHER -> Pack_EFF(id, c, o)

\* sklearn-validated classification / regression depth
Pack_SK(id, c, o) ==
  CASE id = "cohen_kappa_linear" -> cohen_kappa_linear(c.prediction, c.label)
    [] id = "cohen_kappa_quadratic" -> cohen_kappa_quadratic(c.prediction, c.label)
    [] id = "balanced_accuracy_adjusted" -> balanced_accuracy_adjusted(c.prediction, c.label)
    [] id = "jaccard_macro" -> jaccard_macro(c.prediction, c.label)
    [] id = "d2_pinball_score" -> d2_pinball_score(c.prediction, c.target, Number(o, "alpha", Half))
    [] OTHER -> Pack_MS(id, c, o)

\* corporate finance & capital-budgeting depth
Pack_CF(id, c, o) ==
  CASE id = "modified_irr" ->
         modified_irr(c.cashflow, Keyed(o, "finance", Over(1, 10)), Keyed(o, "reinvest", Over(1, 10)))
    [] id = "profitability_index" -> profitability_index(c.cashflow, Number(o, "rate", NaN))
    [] id = "equivalent_annual_annuity" -> equivalent_annual_annuity(c.cashflow, Number(o, "rate", NaN))
    [] id = "days_inventory_outstanding" -> days_inventory_outstanding(c.inventory, c.cogs)
    [] id = "days_payable_outstanding" -> days_payable_outstanding(c.payables, c.cogs)
    [] id = "cash_conversion_cycle" ->
         cash_conversion_cycle(c.receivables, c.inventory, c.payables, c.revenue, c.cogs)
    [] id = "fixed_charge_coverage" -> fixed_charge_coverage(c.ebit, c.lease, c.interest)
    [] OTHER -> Pack_SK(id, c, o)

\* time-series / signal-shape features over a single ordered value column
Pack_TSF(id, c, o) ==
  CASE id = "zero_crossing_rate" -> zero_crossing_rate(c.value)
    [] id = "hjorth_mobility" -> hjorth_mobility(c.value)
    [] id = "hjorth_complexity" -> hjorth_complexity(c.value)
    [] id = "turning_point_rate" -> turning_point_rate(c.value)
    [] id = "rms_successive_differences" -> rms_successive_differences(c.value)
    [] id = "mean_absolute_change" -> mean_absolute_change(c.value)
    [] OTHER -> Pack_CF(id, c, o)

\* reliability & operations engineering
Pack_REL(id, c, o) ==
  CASE id = "failure_rate" -> failure_rate(c.failures, c.operating_time)
    [] id = "mean_time_to_repair" -> mean_time_to_repair(c.downtime, c.repairs)
    [] id = "mean_time_to_failure" -> mean_time_to_failure(c.uptime, c.failures)
    [] id = "defect_density" -> defect_density(c.defects, c.size)
    [] id = "dpmo" -> dpmo(c.defects, c.opportunities)
    [] id = "first_pass_yield" -> first_pass_yield(c.passed, c.total)
    [] id = "rolled_throughput_yield" -> rolled_throughput_yield(c.yield_step)
    [] OTHER -> Pack_TSF(id, c, o)

\* robust correlation & regression-slope estimators over paired
Pack_RC2(id, c, o) ==
  CASE id = "siegel_slope" -> siegel_slope(c.x, c.y)
    [] id = "linregress_slope_stderr" -> linregress_slope_stderr(c.x, c.y)
    [] id = "linregress_intercept_stderr" -> linregress_intercept_stderr(c.x, c.y)
    [] id = "chatterjee_xi" -> chatterjee_xi(c.x, c.y)
    [] id = "blomqvist_beta" -> blomqvist_beta(c.x, c.y)
    [] OTHER -> Pack_REL(id, c, o)

\* vector distance & similarity between two equal-length columns
Pack_VD(id, c, o) ==
  CASE id = "euclidean_distance" -> euclidean_distance(c.x, c.y)
    [] id = "squared_euclidean_distance" -> squared_euclidean_distance(c.x, c.y)
    [] id = "manhattan_distance" -> manhattan_distance(c.x, c.y)
    [] id = "chebyshev_distance" -> chebyshev_distance(c.x, c.y)
    [] id = "cosine_distance" -> cosine_distance(c.x, c.y)
    [] id = "braycurtis_distance" -> braycurtis_distance(c.x, c.y)
    [] id = "canberra_distance" -> canberra_distance(c.x, c.y)
    [] id = "correlation_distance" -> correlation_distance(c.x, c.y)
    [] id = "minkowski_distance" -> IF Number(o, "p", Q(2)) = Q(2) THEN minkowski_distance(c.x, c.y) ELSE NaN
    [] OTHER -> Pack_RC2(id, c, o)

\* probability calibration & decision-curve depth
Pack_CAL2(id, c, o) ==
  CASE id = "rms_calibration_error" -> rms_calibration_error(c.prob, c.label, Whole(o, "bins", 15))
    [] id = "adaptive_calibration_error" -> adaptive_calibration_error(c.prob, c.label, Whole(o, "bins", 15))
    [] id = "net_benefit" -> net_benefit(c.prob, c.label, Number(o, "threshold", Half))
    [] id = "pabak" -> pabak(c.prediction, c.label)
    [] OTHER -> Pack_VD(id, c, o)

\* group-fairness depth
Pack_FAIR2(id, c, o) ==
  CASE id = "fdr_parity_difference" -> fdr_parity_difference(grp_confusion(c.prediction, c.label, c.group))
    [] id = "for_parity_difference" -> for_parity_difference(grp_confusion(c.prediction, c.label, c.group))
    [] id = "average_abs_odds_difference" ->
         average_abs_odds_difference(grp_confusion(c.prediction, c.label, c.group))
    [] id = "treatment_equality_difference" ->
         treatment_equality_difference(grp_confusion(c.prediction, c.label, c.group))
    [] id = "balanced_accuracy_parity_difference" ->
         balanced_accuracy_parity_difference(grp_confusion(c.prediction, c.label, c.group))
    [] id = "generalized_entropy_error" ->
         IF Number(o, "alpha", Q(2)) = Q(2) THEN generalized_entropy_error(c.prediction, c.label) ELSE NaN
    [] OTHER -> Pack_CAL2(id, c, o)

\* regression heteroskedasticity tests
Pack_HET(id, c, o) ==
  CASE id = "breusch_pagan_lm" -> breusch_pagan_lm(c.residual, c.regressor)
    [] id = "breusch_pagan_fstat" -> breusch_pagan_fstat(c.residual, c.regressor)
    [] id = "white_lm" -> white_lm(c.residual, c.regressor)
    [] id = "goldfeld_quandt_fstat" -> goldfeld_quandt_fstat(c.value, c.regressor)
    [] OTHER -> Pack_FAIR2(id, c, o)

\* string-similarity metrics over paired
Pack_STR(id, c, o) ==
  CASE id = "levenshtein_similarity" -> levenshtein_similarity(c.prediction, c.reference)
    [] id = "indel_similarity" -> indel_similarity(c.prediction, c.reference)
    [] id = "jaro_similarity" -> jaro_similarity(c.prediction, c.reference)
    [] id = "jaro_winkler_similarity" -> jaro_winkler_similarity(c.prediction, c.reference)
    [] id = "longest_common_subsequence" -> longest_common_subsequence(c.prediction, c.reference)
    [] OTHER -> Pack_HET(id, c, o)

\* boolean / set distances between two 0/1 columns
Pack_BD3(id, c, o) ==
  CASE id = "dice_distance" -> dice_distance(bool_counts(c.x, c.y))
    [] id = "rogers_tanimoto_distance" -> rogers_tanimoto_distance(bool_counts(c.x, c.y))
    [] id = "russell_rao_distance" -> russell_rao_distance(bool_counts(c.x, c.y))
    [] id = "sokal_sneath_distance" -> sokal_sneath_distance(bool_counts(c.x, c.y))
    [] id = "yule_distance" -> yule_distance(bool_counts(c.x, c.y))
    [] id = "hamming_distance" -> hamming_distance(c.x, c.y)
    [] OTHER -> Pack_STR(id, c, o)

\* simple OLS regression inference over paired
Pack_OLS(id, c, o) ==
  CASE id = "ols_slope" -> ols_slope(c.x, c.y)
    [] id = "ols_intercept" -> ols_intercept(c.x, c.y)
    [] id = "residual_standard_error" -> residual_standard_error(c.x, c.y)
    [] id = "regression_f_statistic" -> regression_f_statistic(c.x, c.y)
    [] id = "regression_t_statistic" -> regression_t_statistic(c.x, c.y)
    [] OTHER -> Pack_BD3(id, c, o)

(* The value of the recipe id on columns c under convention o *)
Value(id, c, o) == Pack_OLS(id, c, o)

(* required_tags of the registered recipes, by the columns they bind *)
required_tags(id) ==
  CASE id \in {"total_return", "sharpe", "max_drawdown", "volatility", "downside_deviation", "sortino",
         "value_at_risk", "cvar", "win_rate", "profit_factor", "omega_ratio", "ulcer_index", "pain_index",
         "recovery_factor", "gain_to_pain_ratio", "tail_ratio", "gain_loss_ratio", "win_loss_ratio",
         "kelly_criterion", "upside_deviation", "upside_potential_ratio", "cdar", "max_drawdown_duration",
         "common_sense_ratio", "downside_potential", "upside_potential", "rachev_ratio",
         "omega_sharpe_ratio", "bias_ratio", "max_consecutive_losses", "reward_to_var_ratio", "starr_ratio",
         "realized_variance", "realized_volatility", "variance_ratio", "time_underwater",
         "drawdown_deviation", "drawdown_at_risk"}
         -> <<"return">>
    [] id = "accuracy" -> <<"label", "prediction">>
    [] id = "auc" -> <<"label", "score">>
    [] id \in {"rmse", "mae", "r2", "mape", "mase", "pinball_loss", "medae", "max_error", "explained_variance",
         "wape", "forecast_bias", "adjusted_r2", "nrmse", "durbin_watson", "concordance_correlation",
         "huber_loss", "d2_absolute_error", "theil_u2", "rmsse", "tracking_signal",
         "mean_directional_accuracy", "relative_absolute_error", "relative_squared_error",
         "mean_percentage_error", "median_absolute_percentage_error", "mean_squared_error",
         "cumulative_forecast_error", "nash_sutcliffe_efficiency", "willmott_index",
         "root_mean_square_percentage_error", "legates_mccabe_efficiency", "refined_willmott_index",
         "fractional_bias", "mean_bias_error", "d2_pinball_score"}
         -> <<"prediction", "target">>
    [] id \in {"precision", "recall", "f1", "macro_f1", "micro_f1", "mcc", "balanced_accuracy", "cohen_kappa",
         "specificity", "fbeta", "jaccard", "weighted_f1", "g_mean", "youden_j", "markedness",
         "negative_predictive_value", "false_positive_rate", "false_negative_rate", "false_discovery_rate",
         "positive_likelihood_ratio", "negative_likelihood_ratio", "diagnostic_odds_ratio", "threat_score",
         "fowlkes_mallows", "purity", "bcubed_precision", "bcubed_recall", "bcubed_f1", "cohen_kappa_linear",
         "cohen_kappa_quadratic", "balanced_accuracy_adjusted", "jaccard_macro", "pabak",
         "generalized_entropy_error"}
         -> <<"prediction", "label">>
    [] id \in {"column_sum", "column_mean", "peak_memory", "column_median", "percentile", "distinct_count",
         "growth_rate", "null_fraction", "duplicate_count", "column_min", "column_max", "column_std", "iqr",
         "outlier_count", "mode_share", "gini_coefficient", "hhi", "skewness", "kurtosis", "jarque_bera",
         "autocorrelation", "bh_rejections", "holm_rejections", "variance", "range_value",
         "mean_abs_deviation", "median_abs_deviation", "harmonic_mean", "quartile_coefficient_dispersion",
         "index_of_dispersion", "trimmed_mean", "uniqueness_ratio", "rescaled_range",
         "bonferroni_rejections", "hochberg_rejections", "benjamini_yekutieli", "runs_test", "arch_lm",
         "hoover_index", "generalized_entropy_index", "percentile_ratio", "bowley_skewness",
         "moors_kurtosis", "l_skewness", "l_kurtosis", "max_to_sum_ratio", "berger_parker",
         "concentration_ratio", "normalized_hhi", "rosenbluth_index", "comprehensive_concentration_index",
         "pearson_median_skewness", "studentized_range", "relative_mean_deviation", "midhinge", "trimean",
         "hodges_lehmann_estimator", "gastwirth_location", "gini_mean_difference",
         "relative_mean_difference", "l_scale", "l_cv", "winsorized_mean", "winsorized_std", "trimmed_std",
         "box_pierce", "partial_autocorrelation", "power_mean", "lehmer_mean", "root_mean_square",
         "kstat_third", "tsallis_entropy", "menhinick_richness", "sen_welfare", "simpson_evenness",
         "zero_crossing_rate", "hjorth_mobility", "hjorth_complexity", "turning_point_rate",
         "rms_successive_differences", "mean_absolute_change"}
         -> <<"value">>
    [] id \in {"brier", "ece", "rms_calibration_error", "adaptive_calibration_error", "net_benefit"}
         -> <<"prob", "label">>
    [] id = "speedup_ratio" -> <<"before", "after">>
    [] id \in {"latency_p50", "latency_p95", "latency_p99", "throughput", "latency_p90", "apdex", "latency_p75",
         "latency_p999", "tail_latency_ratio", "latency_stddev", "jitter", "slo_attainment"}
         -> <<"duration">>
    [] id = "test_coverage" -> <<"hits">>
    [] id \in {"error_rate", "ratio_share", "churn_rate", "uptime_pct", "cache_hit_rate", "error_budget_burn",
         "mtbf"}
         -> <<"flag">>
    [] id = "join_row_loss" -> <<"left_key", "joined_key">>
    [] id \in {"recall_at_k", "mrr", "top_k_accuracy", "precision_at_k", "map_at_k", "r_precision",
         "mean_average_precision", "f1_at_k", "fallout_at_k", "rbp", "err_at_k", "success_at_k", "arhr_at_k"}
         -> <<"query", "rank", "relevance">>
    [] id \in {"exact_match", "wer", "token_f1", "token_jaccard", "token_dice", "levenshtein_similarity",
         "indel_similarity", "jaro_similarity", "jaro_winkler_similarity", "longest_common_subsequence"}
         -> <<"prediction", "reference">>
    [] id = "pass_at_k" -> <<"problem", "correct">>
    [] id \in {"pr_auc", "ks_statistic", "gini_norm", "hinge_loss", "squared_hinge_loss"}
         -> <<"score", "label">>
    [] id \in {"p_value", "lift", "effect_size", "mann_whitney", "ks_test", "proportion_z", "cliffs_delta",
         "rank_biserial", "mcnemar", "wilcoxon_signed_rank", "wasserstein_1d", "energy_distance", "ks_2samp",
         "glass_delta", "hedges_g", "common_language_effect_size", "mood_test", "ansari_bradley",
         "brunner_munzel", "wilcoxon_rank_sum", "mood_median_test"}
         -> <<"sample_a", "sample_b">>
    [] id \in {"chi_square", "fisher_exact", "odds_ratio", "relative_risk", "cramers_v", "tschuprow_t",
         "pearson_contingency_coefficient", "cohens_w"}
         -> <<"group", "outcome">>
    [] id \in {"correlation", "kendall_tau", "theil_sen_slope", "covariance", "distance_correlation", "somers_d",
         "goodman_kruskal_gamma", "siegel_slope", "linregress_slope_stderr", "linregress_intercept_stderr",
         "chatterjee_xi", "blomqvist_beta", "euclidean_distance", "squared_euclidean_distance",
         "manhattan_distance", "chebyshev_distance", "cosine_distance", "braycurtis_distance",
         "canberra_distance", "correlation_distance", "minkowski_distance", "dice_distance",
         "rogers_tanimoto_distance", "russell_rao_distance", "sokal_sneath_distance", "yule_distance",
         "hamming_distance", "ols_slope", "ols_intercept", "residual_standard_error",
         "regression_f_statistic", "regression_t_statistic"}
         -> <<"x", "y">>
    [] id \in {"npv", "modified_irr", "profitability_index", "equivalent_annual_annuity"}
         -> <<"cashflow">>
    [] id = "margin_pct" -> <<"value", "cost">>
    [] id = "reconciliation_total" -> <<"value_a", "value_b">>
    [] id \in {"beta", "alpha", "information_ratio", "tracking_error", "up_capture_ratio", "down_capture_ratio",
         "capture_ratio", "treynor_ratio", "r_squared", "active_return", "m2_measure", "appraisal_ratio",
         "batting_average", "idiosyncratic_volatility", "alpha_tstat", "beta_tstat", "bull_beta",
         "bear_beta", "up_down_beta_ratio"}
         -> <<"return", "benchmark">>
    [] id \in {"anova", "eta_squared", "levene", "kruskal_wallis", "omega_squared", "epsilon_squared", "cohens_f"}
         -> <<"group", "value">>
    [] id = "point_biserial" -> <<"binary", "value">>
    [] id = "weighted_mean" -> <<"value", "weight">>
    [] id \in {"demographic_parity_difference", "demographic_parity_ratio", "equalized_odds_difference",
         "equalized_odds_ratio", "equal_opportunity_difference", "predictive_parity_difference",
         "fpr_parity_difference", "accuracy_parity_difference", "fdr_parity_difference",
         "for_parity_difference", "average_abs_odds_difference", "treatment_equality_difference",
         "balanced_accuracy_parity_difference"}
         -> <<"prediction", "label", "group">>
    [] id = "concordance_index" -> <<"time", "score", "event">>
    [] id \in {"rand_index", "adjusted_rand_index", "fowlkes_mallows_clustering"}
         -> <<"labels_true", "labels_pred">>
    [] id = "compression_ratio" -> <<"original", "compressed">>
    [] id = "availability" -> <<"uptime", "downtime">>
    [] id \in {"average_treatment_effect", "risk_difference", "relative_risk_reduction", "number_needed_to_treat",
         "standardized_mean_difference"}
         -> <<"treatment", "control">>
    [] id = "cuped_ate" -> <<"value", "covariate", "group">>
    [] id = "variance_reduction_cuped" -> <<"value", "covariate">>
    [] id = "srm_pvalue" -> <<"group">>
    [] id \in {"bond_price", "macaulay_duration", "modified_duration", "convexity", "dv01",
         "weighted_average_life", "effective_duration", "effective_convexity"}
         -> <<"cashflow", "time">>
    [] id \in {"var_breach_rate", "realized_shortfall", "expected_exceedance", "basel_traffic_light"}
         -> <<"return", "var">>
    [] id \in {"es_backtest_ratio", "acerbi_szekely_z1", "acerbi_szekely_z2"}
         -> <<"return", "var", "es">>
    [] id \in {"expected_loss", "expected_loss_rate"}
         -> <<"pd", "lgd", "ead">>
    [] id = "weighted_lgd" -> <<"lgd", "ead">>
    [] id = "altman_z" -> <<"x1", "x2", "x3", "x4", "x5">>
    [] id \in {"altman_z_prime", "altman_z_double_prime"}
         -> <<"x1", "x2", "x3", "x4">>
    [] id = "recovery_rate" -> <<"recovery", "exposure">>
    [] id = "exposure_weighted_pd" -> <<"pd", "ead">>
    [] id = "exposure_weighted_maturity" -> <<"maturity", "ead">>
    [] id \in {"brinson_allocation", "brinson_fachler_allocation"}
         -> <<"port_weight", "bench_weight", "bench_return">>
    [] id = "brinson_selection" -> <<"bench_weight", "port_return", "bench_return">>
    [] id \in {"brinson_interaction", "brinson_total_active", "geometric_excess_return"}
         -> <<"port_weight", "bench_weight", "port_return", "bench_return">>
    [] id = "active_share" -> <<"port_weight", "bench_weight">>
    [] id = "portfolio_turnover" -> <<"prev_weight", "curr_weight">>
    [] id = "effective_number_of_bets" -> <<"weight">>
    [] id \in {"par_yield", "annuity_factor", "forward_rate"}
         -> <<"zero_rate", "time">>
    [] id = "curve_pv" -> <<"cashflow", "zero_rate", "time">>
    [] id \in {"dpi", "tvpi", "carried_interest"}
         -> <<"contribution", "distribution">>
    [] id \in {"rvpi", "called_pct"}
         -> <<"contribution">>
    [] id = "realization_ratio" -> <<"distribution">>
    [] id \in {"amihud_illiquidity", "amivest_liquidity"}
         -> <<"return", "dollar_volume">>
    [] id = "roll_spread" -> <<"price">>
    [] id = "kyle_lambda" -> <<"price_change", "signed_volume">>
    [] id = "vwap" -> <<"price", "volume">>
    [] id = "relative_spread" -> <<"bid", "ask">>
    [] id \in {"gross_exposure", "net_exposure", "long_exposure", "short_exposure", "long_short_ratio",
         "largest_position"}
         -> <<"exposure">>
    [] id = "liquidity_coverage" -> <<"weight", "days_to_liquidate">>
    [] id = "current_ratio" -> <<"current_assets", "current_liabilities">>
    [] id = "quick_ratio" -> <<"current_assets", "inventory", "current_liabilities">>
    [] id = "interest_coverage" -> <<"ebit", "interest_expense">>
    [] id = "debt_to_equity" -> <<"debt", "equity">>
    [] id = "debt_to_ebitda" -> <<"debt", "ebitda">>
    [] id = "net_debt_to_ebitda" -> <<"debt", "cash", "ebitda">>
    [] id = "ebitda_margin" -> <<"ebitda", "revenue">>
    [] id \in {"maximum_calibration_error", "brier_reliability", "brier_resolution", "brier_skill_score",
         "calibration_in_the_large", "spiegelhalter_z"}
         -> <<"probability", "label">>
    [] id = "sharpness" -> <<"probability">>
    [] id \in {"total_variation_distance", "chi_square_distance"}
         -> <<"p", "q">>
    [] id \in {"km_median_survival", "km_survival_at", "nelson_aalen_cumhaz", "restricted_mean_survival_time"}
         -> <<"duration", "event">>
    [] id = "implementation_shortfall" -> <<"exec_price", "decision_price", "quantity">>
    [] id = "arrival_slippage" -> <<"exec_price", "arrival_price", "quantity">>
    [] id = "vwap_slippage" -> <<"exec_price", "vwap_price", "quantity">>
    [] id = "effective_spread_bps" -> <<"exec_price", "mid_price", "quantity">>
    [] id = "participation_rate" -> <<"order_volume", "market_volume">>
    [] id \in {"ks_pme", "pme_plus_lambda"}
         -> <<"contribution", "distribution", "index">>
    [] id \in {"interval_coverage", "winkler_score", "coverage_deviation"}
         -> <<"lower", "upper", "actual">>
    [] id = "mean_interval_width" -> <<"lower", "upper">>
    [] id \in {"percentage_agreement", "scott_pi", "brennan_prediger", "gwet_ac1"}
         -> <<"rater_a", "rater_b">>
    [] id = "return_on_equity" -> <<"net_income", "equity">>
    [] id = "return_on_assets" -> <<"net_income", "assets">>
    [] id = "return_on_invested_capital" -> <<"nopat", "invested_capital">>
    [] id = "asset_turnover" -> <<"revenue", "assets">>
    [] id = "days_sales_outstanding" -> <<"receivables", "revenue">>
    [] id = "operating_margin" -> <<"operating_income", "revenue">>
    [] id = "net_margin" -> <<"net_income", "revenue">>
    [] id = "free_cash_flow_margin" -> <<"fcf", "revenue">>
    [] id = "dividend_payout_ratio" -> <<"dividends", "net_income">>
    [] id = "springate_score" -> <<"wc_ta", "ebit_ta", "ebt_cl", "sales_ta">>
    [] id = "zmijewski_score" -> <<"roa", "tl_ta", "ca_cl">>
    [] id = "capital_adequacy_ratio" -> <<"capital", "rwa">>
    [] id = "tier1_leverage_ratio" -> <<"tier1_capital", "total_exposure">>
    [] id = "provision_coverage_ratio" -> <<"provisions", "npl">>
    [] id = "cds_implied_hazard" -> <<"spread", "recovery">>
    [] id = "order_flow_imbalance" -> <<"buy_volume", "sell_volume">>
    [] id = "share_turnover" -> <<"volume", "shares_outstanding">>
    [] id = "realized_spread_bps" -> <<"exec_price", "mid_future_price", "quantity">>
    [] id = "price_impact_bps" -> <<"mid_price", "mid_future_price", "quantity">>
    [] id = "days_inventory_outstanding" -> <<"inventory", "cogs">>
    [] id = "days_payable_outstanding" -> <<"payables", "cogs">>
    [] id = "cash_conversion_cycle" -> <<"receivables", "inventory", "payables", "revenue", "cogs">>
    [] id = "fixed_charge_coverage" -> <<"ebit", "lease", "interest">>
    [] id = "failure_rate" -> <<"failures", "operating_time">>
    [] id = "mean_time_to_repair" -> <<"downtime", "repairs">>
    [] id = "mean_time_to_failure" -> <<"uptime", "failures">>
    [] id = "defect_density" -> <<"defects", "size">>
    [] id = "dpmo" -> <<"defects", "opportunities">>
    [] id = "first_pass_yield" -> <<"passed", "total">>
    [] id = "rolled_throughput_yield" -> <<"yield_step">>
    [] id \in {"breusch_pagan_lm", "breusch_pagan_fstat", "white_lm"}
         -> <<"residual", "regressor">>
    [] id = "goldfeld_quandt_fstat" -> <<"value", "regressor">>
    [] OTHER -> << >>
=============================================================================
