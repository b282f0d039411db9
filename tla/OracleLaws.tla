----------------------------- MODULE OracleLaws -----------------------------
(***************************************************************************)
(* What the answers of Oracle have to do with each other.  The metrics of  *)
(* one capture are computed by separate kernels (and the same metric by a  *)
(* catalog metric and a recipe): where two answers are tied by an          *)
(* identity of their definitions, a slip in either breaks it.  An answer   *)
(* that is degenerate constrains nothing.                                  *)
(***************************************************************************)
EXTENDS Oracle, Rates, Retrieval, Rankings

V(metric) == report[metric].value
Asked(metric) == report # << >> /\ metric \in DOMAIN report

\* The rates of one confusion table (spike/core/catalog.py and the
\* classification kernels of spike/recipes/numeric.py) determine each other:
\* F1 and the threat score, every rate and its complement, the likelihood
\* ratios and the diagnostic odds ratio, the correlation of the labels and
\* its two factors, and the statistics of the 2x2 table.  The catalog scores
\* a label nobody predicted or nobody has as 0, where the recipes are
\* degenerate.
TablesAgree ==
  Asked("threat_score") =>
    /\ Same(V("f1"), (Q(2) ** V("threat_score")) // (One ++ V("threat_score")))
    /\ Same(V("threat_score"), V("jaccard"))
    /\ Undefined(V("threat_score")) \/ Same(V("dice_distance"), One -- V("f1"))
    /\ Same(V("specificity"), One -- V("false_positive_rate"))
    /\ V("recall") = Zero \/ Same(V("recall"), One -- V("false_negative_rate"))
    /\ V("precision") = Zero \/ Same(V("precision"), One -- V("false_discovery_rate"))
    /\ Same(V("youden_j"), V("balanced_accuracy_adjusted"))
    /\ Undefined(V("youden_j")) \/ V("balanced_accuracy") = Half ** (V("recall") ++ V("specificity"))
    /\ Same(V("micro_f1"), V("accuracy"))
    /\ Same(V("hamming_distance"), One -- V("accuracy"))
    /\ Same(V("pabak"), Q(2) ** V("percentage_agreement") -- One)
    /\ Same(V("g_mean"), V("recall") ** V("specificity"))
    /\ Same(V("fowlkes_mallows"), V("precision") ** V("recall"))
    /\ Same(V("diagnostic_odds_ratio"),
            V("positive_likelihood_ratio") // V("negative_likelihood_ratio"))
    /\ Same(V("diagnostic_odds_ratio"), V("odds_ratio"))
    /\ Same(Abs(V("mcc")), V("youden_j") ** V("markedness"))
    /\ Same(Abs(V("mcc")), V("cohens_w"))
    /\ Same(V("cohens_w"), V("cramers_v"))
    /\ Same(V("pearson_contingency_coefficient"), V("cohens_w") // (One ++ V("cohens_w")))
    /\ AtMost(Abs(V("cohen_kappa")), One)

\* Areas and effect sizes of scores with ties.
OneArea ==
  Asked("gini_norm") =>
    /\ Same(V("gini_norm"), Q(2) ** V("roc_auc") -- One)
    /\ Same(V("common_language_effect_size"), V("roc_auc"))
    /\ Same(V("cliffs_delta"), V("gini_norm"))
    /\ Same(V("rank_biserial"), Negate(V("cliffs_delta")))
    /\ Same(V("somers_d"), V("gini_norm"))
    /\ AtMost(Abs(V("somers_d")), Abs(V("goodman_kruskal_gamma")))
    /\ Same(V("ks_statistic"), V("ks_2samp"))
    /\ AtMost(Abs(V("gini_norm")), V("ks_statistic") ++ V("ks_statistic"))

\* Reliability, resolution and the Brier score of a few forecast values,
\* each in a bin of its own: Murphy's decomposition.
BrierDecomposed ==
  Asked("ece") =>
    LET rate == base_rate(case.capture.inputs.y_true)
        uncertainty == rate ** (One -- rate)
        gap == V("brier_resolution") -- V("brier_reliability")
    IN  /\ Zero \prec uncertainty => Same(V("brier"), uncertainty -- gap)
        /\ Same(V("brier_skill_score"), gap // uncertainty)
        /\ V("rms_calibration_error") = V("brier_reliability")
        /\ Abs(V("calibration_in_the_large")) \preceq V("ece")
        /\ Square(V("ece")) \preceq V("rms_calibration_error")
        /\ V("rms_calibration_error") \preceq Square(V("maximum_calibration_error"))

\* The measures of one ranked answer under one cutoff k.
OneCutoff ==
  Asked("map_at_k") =>
    LET relevant == Relevant(case.capture.inputs.relevance)
        k == case.capture.kwargs.convention.nums["k"].n
        reach == Smaller(Q(relevant), Q(k))
    IN  /\ V("success_at_k") = V("top_k_accuracy")
        /\ relevant > 0 => (V("map_at_k") = Zero) = (V("success_at_k") = Zero)
        /\ AtMost(V("map_at_k"), V("success_at_k"))
        /\ AtMost(V("arhr_at_k"), V("map_at_k") ** reach)
        /\ AtMost(V("f1_at_k"), V("success_at_k"))
        /\ relevant = k => Same(V("f1_at_k"), V("r_precision"))
        /\ V("fallout_at_k") = Zero /\ k <= Len(case.capture.inputs.rank) =>
             Same(V("map_at_k"), reach // reach)

\* Counting ordered pairs, ranking with ties and integrating the ROC curve
\* give one area (spike/core/catalog.py roc_auc; psi_mean, rank sums and
\* curves of spike/recipes/numeric.py), also for the effect sizes of the two
\* samples of scores and the two forms of the Kolmogorov-Smirnov distance.
\* Binning probabilities keeps the terms of the Brier score, and the cutoff
\* measures of a ranked answer (by_query) see the same top of it.
RankingsAgree ==
  /\ OneArea
  /\ BrierDecomposed
  /\ OneCutoff

\* The corrections for multiple testing (spike/recipes/numeric.py) are
\* nested: a hypothesis rejected by a more careful one is rejected by the
\* less careful one, for any number of equal or unsorted p-values.
TestsAgree ==
  LET Nested(careful, loose) ==
        Asked(careful) /\ Asked(loose) => AtMost(V(careful), V(loose))
  IN  /\ Nested("bonferroni_rejections", "holm_rejections")
      /\ Nested("holm_rejections", "hochberg_rejections")
      /\ Nested("hochberg_rejections", "bh_rejections")
      /\ Nested("benjamini_yekutieli", "bh_rejections")

\* Two samples: the effect sizes and the t statistic are those of one
\* difference, and CUPED removes what the correlation explains.
OneDifference ==
  Asked("average_treatment_effect") =>
    /\ V("risk_difference") = V("average_treatment_effect")
    /\ Same(V("number_needed_to_treat"), One // Abs(V("risk_difference")))
    /\ Same(V("lift"), Negate(V("relative_risk_reduction")))
    /\ Same(Abs(V("standardized_mean_difference")), Abs(V("effect_size")))
    /\ AtMost(Abs(V("hedges_g")), Abs(V("effect_size")))
    /\ Same(V("p_value"), V("effect_size") ** Half ** Q(Len(case.capture.inputs.treatment)))
    /\ Same(V("variance_reduction_cuped"), Abs(V("correlation")))

\* The measures of agreement of two partitions find the same pairs equal;
\* the shares of variance explained by a grouping are ordered by how much
\* they discount.
OnePartition ==
  Asked("rand_index") =>
    /\ V("rand_index") \preceq One
    /\ AtMost(V("adjusted_rand_index"), V("rand_index"))
    /\ V("rand_index") = One <=> V("adjusted_rand_index") = One
    /\ V("fowlkes_mallows_clustering") = One => V("rand_index") = One
    /\ V("rand_index") = One => V("purity") = One /\ V("bcubed_f1") = One
    /\ V("purity") = One <=> V("bcubed_precision") = One
    /\ AtMost(V("bcubed_f1"), Larger(V("bcubed_precision"), V("bcubed_recall")))
    /\ Same(V("cohens_f"), V("eta_squared") // (One -- V("eta_squared")))
    /\ Zero \preceq V("epsilon_squared") => AtMost(V("omega_squared"), V("epsilon_squared"))
    /\ AtMost(V("epsilon_squared"), V("eta_squared"))
    /\ V("rand_index") = One => Undefined(V("eta_squared")) \/ V("eta_squared") = One

\* The errors of one forecast and the dispersion measures of one column.
OneDispersion ==
  Asked("gini_coefficient") =>
    /\ Same(V("relative_mean_difference"), V("gini_mean_difference") // Abs(V("column_mean")))
    /\ Same(V("index_of_dispersion"), V("variance") // V("column_mean"))
    /\ Same(V("sen_welfare"), V("column_mean") ** (One -- V("gini_coefficient")))
    /\ AtMost(V("hoover_index"), V("gini_coefficient"))
    /\ AtMost(V("gini_coefficient"), Half ** V("relative_mean_difference"))
    /\ Same(V("nash_sutcliffe_efficiency"), V("r2"))
    /\ Same(V("relative_squared_error"), One -- V("r2"))
    /\ Same(V("mse"), V("rmse"))
    /\ AtMost(Square(V("mae")), V("mse"))

\* One series of returns and its benchmark: the excess is that of the
\* market model, the drawdown measures are means of one path, gains and
\* losses split the mean.
OneTrackRecord ==
  Asked("beta") =>
    /\ Same(V("active_return"),
            V("alpha") ++ (V("beta") -- One) ** Q(252) ** fmean(case.capture.inputs.benchmark))
    /\ Same(V("beta"), V("ols_slope"))
    /\ Square(V("pain_index")) \preceq V("ulcer_index")
    /\ V("ulcer_index") \preceq Square(V("max_drawdown"))
    /\ Same(V("recovery_factor"), V("total_return") // Abs(V("max_drawdown")))
    /\ V("max_drawdown") = Zero => V("time_underwater") = Zero
    /\ Same(V("omega_ratio"), V("profit_factor"))
    /\ Same(V("omega_ratio"), One ++ V("gain_to_pain_ratio"))
    /\ Same(V("profit_factor"), V("gain_loss_ratio") ** V("win_loss_ratio"))
    /\ AtMost(V("value_at_risk"), V("cvar"))
    /\ Same(V("upside_potential") -- V("downside_potential"), fmean(case.capture.inputs.returns))

\* Attribution of a portfolio over segments, and its exposures.
OnePortfolio ==
  Asked("active_share") =>
    /\ V("brinson_total_active") =
         V("brinson_allocation") ++ V("brinson_selection") ++ V("brinson_interaction")
    /\ Total(case.capture.inputs.port_weight) = Total(case.capture.inputs.bench_weight) =>
         V("brinson_fachler_allocation") = V("brinson_allocation")
    /\ Same(V("net_exposure"), V("long_exposure") -- V("short_exposure"))
    /\ Same(V("gross_exposure"), V("long_exposure") ++ V("short_exposure"))
    /\ AtMost(V("largest_position"), One)

\* Survival: deaths at each time, among those still at risk.
OneCohort ==
  Asked("km_survival_at") =>
    /\ One -- V("km_survival_at") \preceq V("nelson_aalen_cumhaz")
    /\ V("restricted_mean_survival_time") \preceq Q(2)
    /\ Undefined(V("km_median_survival")) \/ V("km_median_survival") = Infinity
         \/ (V("km_median_survival") \preceq Q(2)) = (V("km_survival_at") \preceq Half)

\* Columns of one capture measured by separate kernels
\* (spike/recipes/numeric.py, and r2, mse and mae of spike/core/catalog.py):
\* differences, partitions, dispersion and errors, returns, portfolios and
\* survival.
ColumnsAgree ==
  /\ OneDifference
  /\ OnePartition
  /\ OneDispersion
  /\ OneTrackRecord
  /\ OnePortfolio
  /\ OneCohort

\* What an independent implementation gives under each convention of a metric.
Independent(metric) ==
  LET I == case.capture.inputs
      whole(key) == Each(I[key], LAMBDA q : q.n)
      ranked == [case.capture EXCEPT !.inputs = [key \in DOMAIN I |-> whole(key)]]
      sample == recompute_recipe("variance", case.capture)
      n == Len(I.x)
  IN  CASE metric = "correlation" ->
             [pearson |-> recompute_recipe("correlation", case.capture),
              spearman |-> spearman_r(whole("x"), whole("y")),
              kendall |-> recompute_recipe("kendall_tau", ranked)]
        [] metric \in {"variance", "stdev"} ->
             [sample |-> sample, population |-> (sample ** Q(n - 1)) // Q(n)]
        [] OTHER -> [standard |-> recompute_recipe(metric, case.capture)]

\* The conventions under which a second implementation gives the number the
\* repository produced.
Giving(metric) ==
  {c \in DOMAIN Independent(metric) : Independent(metric)[c] = case.produced[metric]}

\* A metric that is both in the catalog and a recipe has one value
\* (reconcile, spike/synth/xcheck.py): the cross-check by the recipe takes no
\* catalog answer away, where the call names its periods a year (the defaults
\* of the two differ) and more than one class occurs (of one class, Brier
\* scores differ).  Where the produced number is not the default but found by
\* the convention search (search, spike/core/conventions.py), the answer is
\* that number and a second implementation gives it: no other number is
\* rescued.  A number that exactly one convention gives is answered.  Of one
\* that several give nothing is asked: the comment in the source would leave
\* it alone, the code answers by the first.
CatalogAgrees ==
  report # << >> =>
    \A metric \in DOMAIN report :
      \/ metric = "brier" /\ Cardinality(Range(case.capture.inputs.y_true)) < 2
      \/ IF metric \in DOMAIN case.produced
         THEN /\ report[metric].provenance = "convention" =>
                   V(metric) = case.produced[metric] /\ Giving(metric) # {}
              /\ Cardinality(Giving(metric)) = 1 => V(metric) = case.produced[metric]
         ELSE reconcile(report[metric], recompute_recipe(metric, case.capture)) = report[metric]
=============================================================================
