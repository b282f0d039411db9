------------------------------ MODULE MCOracle ------------------------------
(***************************************************************************)
(* Captures for the metrics that are related: all confusion tables of a    *)
(* few rows, scores with ties, p-values around the levels of a test, pairs *)
(* of partitions, short columns.                                           *)
(***************************************************************************)
EXTENDS OracleLaws, Recipes

C == INSTANCE Catalog

\* The implementations the oracle asks.  TLC counts the calls of a constant
\* whose definition is a LET as one expression; it would otherwise unfold all
\* kernels at every place they may be called from.
TrustedRecipe(id, c, o) ==
  LET value == Value(id, c, o)
  IN  value
TrustedMetric(metric, I, K) ==
  LET value == C!Kernel(metric, I, K)
  IN  value

CONSTANTS Length   \* of the longest column

NoOptions == << >>
Case(inputs, labels, claims) ==
  [capture |-> [inputs |-> inputs, labels |-> labels, kwargs |-> NoOptions],
   claims |-> claims, produced |-> << >>]
ColumnsOf(n, S) == [1..n -> S]
Pair(n, S, T) == ColumnsOf(n, S) \X ColumnsOf(n, T)

TableClaims ==
  {"precision", "recall", "f1", "mcc", "balanced_accuracy", "cohen_kappa", "accuracy", "threat_score",
   "jaccard", "dice_distance", "hamming_distance", "specificity", "false_positive_rate",
   "false_negative_rate", "false_discovery_rate", "youden_j", "markedness",
   "balanced_accuracy_adjusted", "micro_f1", "pabak", "percentage_agreement", "g_mean",
   "fowlkes_mallows", "diagnostic_odds_ratio", "positive_likelihood_ratio",
   "negative_likelihood_ratio", "odds_ratio", "cohens_w", "cramers_v",
   "pearson_contingency_coefficient"}

Table(p) ==
  Case([y_true |-> p[1], y_pred |-> p[2], x |-> p[1], y |-> p[2], group |-> p[2], outcome |-> p[1],
        rater_a |-> p[1], rater_b |-> p[2]],
       {"y_true", "y_pred", "x", "y"}, TableClaims)
Tables == {Table(p) : p \in UNION {Pair(n, {0, 1}, {0, 1}) : n \in 1..Length}}

RankingClaims ==
  {"roc_auc", "gini_norm", "common_language_effect_size", "cliffs_delta", "rank_biserial", "somers_d",
   "goodman_kruskal_gamma", "ks_statistic", "ks_2samp"}

Scores(p) ==
  Case([y_true |-> p[1], y_score |-> p[2], x |-> p[1], y |-> p[2],
        sample_a |-> Labelled(p[2], p[1], 1), sample_b |-> Labelled(p[2], p[1], 0)],
       {"y_true", "y_score", "x", "y"}, RankingClaims)
Orders == {Scores(p) : p \in UNION {Pair(n, {0, 1}, 0..2) : n \in 2..Length}}

Level005 == {Over(1, d) : d \in {200, 80, 60, 40, 30, 20, 15}}
RejectionClaims ==
  {"bonferroni_rejections", "holm_rejections", "hochberg_rejections", "bh_rejections",
   "benjamini_yekutieli"}
Tests ==
  {Case([values |-> p], {}, RejectionClaims) : p \in UNION {ColumnsOf(n, Level005) : n \in 1..(Length - 1)}}

Groupings(n) ==
  {g \in ColumnsOf(n, 0..2) : g[1] = 0 /\ \A i \in 2..n : \E j \in 1..(i - 1) : g[i] <= g[j] + 1}
PartitionClaims ==
  {"rand_index", "adjusted_rand_index", "fowlkes_mallows_clustering", "purity", "bcubed_precision",
   "bcubed_recall", "bcubed_f1", "eta_squared", "omega_squared", "epsilon_squared", "cohens_f"}
Clusterings ==
  {Case([labels_true |-> p[1], labels_pred |-> p[2], y_true |-> p[1], y_pred |-> p[2],
         group |-> p[2], values |-> Each(p[1], Q)], {"y_true", "y_pred"}, PartitionClaims) :
     p \in UNION {Groupings(n) \X Groupings(n) : n \in 1..Length}}

SeriesClaims ==
  {"gini_coefficient", "gini_mean_difference", "relative_mean_difference", "column_mean",
   "index_of_dispersion", "variance", "sen_welfare", "hoover_index", "nash_sutcliffe_efficiency",
   "r2", "relative_squared_error", "mse", "rmse", "mae", "correlation"}
Series ==
  {Case([y_true |-> p[1], y_pred |-> p[2], values |-> p[1]], {}, SeriesClaims) :
     p \in UNION {Pair(n, {Q(1), Q(2), Q(4)}, {Zero, One, Q(2)}) : n \in 2..(Length - 1)}}

ReturnClaims == {"sharpe", "sortino", "calmar", "information_ratio", "volatility"}
Performances ==
  {[Case([returns |-> p[1], benchmark |-> p[2]], {}, ReturnClaims)
      EXCEPT !.capture.kwargs = [periods_per_year |-> Q(2 * Len(p[1]))]] :
     p \in UNION {Pair(n, {Over(-1, 2), Zero, Half, One}, {Zero, Half}) : n \in {2}}}

OneClass ==
  {Case([y_true |-> p[1], y_score |-> p[2]], {"y_true"}, {"brier"}) :
     p \in UNION {Pair(n, {0, 1}, {Zero, Over(1, 4), One}) : n \in 1..(Length - 1)}}

Unnamed ==
  {Case([x |-> p[1], y |-> p[2]], {}, {"spearman", "correlation", "bertscore"}) :
     p \in Pair(3, {Zero, One, Q(3)}, {Zero, One, Q(3)})}

ReturnPaths ==
  {Case([returns |-> p[1], benchmark |-> p[2], x |-> p[2], y |-> p[1]], {},
        {"beta", "alpha", "active_return", "ols_slope",
         "pain_index", "ulcer_index", "max_drawdown", "recovery_factor", "total_return", "time_underwater",
         "omega_ratio", "profit_factor", "gain_to_pain_ratio", "gain_loss_ratio", "win_loss_ratio",
         "value_at_risk", "cvar", "upside_potential", "downside_potential"}) :
     p \in UNION {Pair(n, {Over(-1, 2), Zero, Half}, {Zero, Half}) : n \in 2..Length}}

Samples ==
  {Case([treatment |-> p[1], control |-> p[2], sample_a |-> p[2], sample_b |-> p[1],
         values |-> p[1], covariate |-> p[2], x |-> p[1], y |-> p[2]], {},
        {"average_treatment_effect", "risk_difference", "number_needed_to_treat", "lift",
         "relative_risk_reduction", "standardized_mean_difference", "effect_size", "hedges_g", "p_value",
         "variance_reduction_cuped", "correlation"}) :
     p \in UNION {Pair(n, {Zero, One, Q(3)}, {Zero, One, Q(3)}) : n \in 2..(Length - 1)}}

Calibrations ==
  {Case([y_true |-> p[1], y_score |-> p[2], probability |-> p[2]], {"y_true"},
        {"ece", "maximum_calibration_error", "rms_calibration_error", "brier_reliability",
         "brier_resolution", "brier", "brier_skill_score", "calibration_in_the_large"}) :
     p \in UNION {Pair(n, {0, 1}, {Zero, Over(1, 4), One}) : n \in 1..Length}}

RankedAnswers ==
  {[Case([query |-> [i \in DOMAIN p[1] |-> 1], rank |-> p[1], relevance |-> p[2]], {},
         {"map_at_k", "success_at_k", "top_k_accuracy", "arhr_at_k", "f1_at_k", "r_precision",
          "fallout_at_k"}) EXCEPT !.capture.kwargs = [convention |-> Setting("k", Q(k))]] :
     p \in UNION {Pair(n, 1..2, {0, 1}) : n \in 1..Length}, k \in 1..Length}

Shares(n) == ColumnsOf(n, {Zero, Half, One})
Portfolios ==
  {Case([port_weight |-> p[1], bench_weight |-> p[2], port_return |-> p[3], bench_return |-> p[4],
         exposure |-> Pairs(p[1], p[2], LAMBDA w, b : w -- b)], {},
        {"active_share", "brinson_total_active", "brinson_allocation", "brinson_selection",
         "brinson_interaction", "brinson_fachler_allocation", "net_exposure", "long_exposure",
         "short_exposure", "gross_exposure", "largest_position"}) :
     p \in Shares(2) \X {<<Half, Half>>, <<Zero, One>>} \X {<<Half, Over(-1, 4)>>, <<Zero, One>>}
             \X {<<Over(1, 4), Zero>>}}

Cohorts ==
  {[Case([duration |-> p[1], event |-> p[2]], {},
         {"km_survival_at", "nelson_aalen_cumhaz", "km_median_survival", "restricted_mean_survival_time"})
      EXCEPT !.capture.kwargs = [convention |-> Setting("", Q(2))]] :
     p \in UNION {Pair(n, 1..3, {0, 1}) : n \in 1..Length}}

\* A number a repository may print, right by some convention or not.
Printed == {Over(-1, 4), Zero, Over(1, 9), Over(1, 4), Half, Over(2, 3), One, Over(14, 9), Over(7, 3)}
Fabricated ==
  {[Case([x |-> p[1], y |-> p[2]], {}, {"correlation", "variance"})
      EXCEPT !.produced = [correlation |-> v, variance |-> v]] :
     p \in {<<Zero, One, Q(3)>>, <<One, One, Q(2)>>} \X ColumnsOf(3, {Zero, One, Q(3)}), v \in Printed}

AllCases ==
  Fabricated \cup ReturnPaths \cup Samples \cup Calibrations \cup RankedAnswers \cup Portfolios
    \cup Cohorts \cup Tables \cup Orders \cup Tests \cup Clusterings \cup Series \cup Performances
    \cup OneClass \cup Unnamed
=============================================================================
