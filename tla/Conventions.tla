---------------------------- MODULE Conventions -----------------------------
(***************************************************************************)
(* What the metrics of the catalog are called (spike/core/catalog.py, with *)
(* those of spike/core/textmetrics.py) and the settings a claim may leave  *)
(* unsaid (spike/core/conventions.py).  What a metric computes is a        *)
(* parameter, as it is of the search.                                      *)
(***************************************************************************)
EXTENDS Ratio, TLC
LOCAL INSTANCE SequencesExt

CONSTANT Metric(_, _, _)   \* a metric of the catalog, over inputs, with options

----------------------------------------------------------------------------
(* The registry *)
CATALOG ==
  {"accuracy", "balanced_accuracy", "precision", "recall", "f1", "roc_auc", "mcc",
   "cohen_kappa", "brier", "mse", "rmse", "mae", "r2", "mean", "sum", "sharpe", "stdev",
   "variance", "sortino", "calmar", "information_ratio", "correlation", "ndcg", "mrr",
   "recall_at_k", "precision_at_k", "hit_at_k", "average_precision", "bleu", "rouge1",
   "rouge2", "rouge_l"}

\* Other spellings of a name; the bare "var" is left alone, being ambiguous.
Alias(metric) ==
  CASE metric \in {"acc", "accuracy_score", "top-1", "top1"} -> "accuracy"
    [] metric \in {"bacc", "balanced_accuracy_score"} -> "balanced_accuracy"
    [] metric \in {"auc", "auc_roc", "auroc", "roc_auc_score"} -> "roc_auc"
    [] metric \in {"f1-score", "f1_score", "f_score", "fscore"} -> "f1"
    [] metric = "precision_score" -> "precision"
    [] metric = "recall_score" -> "recall"
    [] metric = "mean_squared_error" -> "mse"
    [] metric = "root_mean_squared_error" -> "rmse"
    [] metric = "mean_absolute_error" -> "mae"
    [] metric \in {"r2_score", "r^2", "r_squared", "rsquared"} -> "r2"
    [] metric \in {"average", "avg"} -> "mean"
    [] metric \in {"sharpe_ratio", "sr"} -> "sharpe"
    [] metric \in {"matthews", "matthews_corrcoef", "mcc_score"} -> "mcc"
    [] metric \in {"cohen_kappa_score", "cohens_kappa", "kappa"} -> "cohen_kappa"
    [] metric \in {"brier_score", "brier_score_loss"} -> "brier"
    [] metric \in {"standard_deviation", "std", "std_dev", "stddev"} -> "stdev"
    [] metric = "var_" -> "variance"
    [] metric = "sortino_ratio" -> "sortino"
    [] metric = "calmar_ratio" -> "calmar"
    [] metric \in {"info_ratio", "information ratio"} -> "information_ratio"
    [] metric \in {"corr", "pearson", "pearson_correlation", "pearson_r", "pearsonr"}
         -> "correlation"
    [] metric \in {"ndcg@10", "ndcg@k", "ndcg_score", "normalized_dcg"} -> "ndcg"
    [] metric \in {"mean_reciprocal_rank", "reciprocal_rank"} -> "mrr"
    [] metric \in {"recall@10", "recall@k", "recall_at"} -> "recall_at_k"
    [] metric \in {"precision@k", "precision_at"} -> "precision_at_k"
    [] metric \in {"hit@k", "hit_rate", "hits@k"} -> "hit_at_k"
    [] metric \in {"ap", "average_precision_score", "map", "mean_average_precision"}
         -> "average_precision"
    [] metric \in {"bleu_score", "corpus_bleu", "sacrebleu", "sentence_bleu"} -> "bleu"
    [] metric \in {"rouge-1", "rouge_1"} -> "rouge1"
    [] metric \in {"rouge-2", "rouge_2"} -> "rouge2"
    [] metric \in {"rouge-l", "rougel", "rougelsum"} -> "rouge_l"
    [] OTHER -> metric

canonical(metric) == IF Alias(metric) \in CATALOG THEN Alias(metric) ELSE ""

recompute(metric, I, K) == IF canonical(metric) = "" THEN NaN ELSE Metric(canonical(metric), I, K)

\* Metrics that are neural networks: there is nothing independent to compute.
LEARNED_METRICS ==
  {"bertscore", "bert_score", "bertscore_f1", "bleurt", "comet", "comet_score", "moverscore",
   "bartscore", "prism", "unieval", "gptscore"}

----------------------------------------------------------------------------
(* Conventions: the standard settings a claim may leave unsaid, in the     *)
(* order they are tried                                                    *)

Settings(a, xs, b, ys) ==
  [i \in 1..(Len(xs) * Len(ys)) |->
     a :> xs[1 + (i - 1) \div Len(ys)] @@ b :> ys[((i - 1) % Len(ys)) + 1]]

CONVENTIONS ==
  [sharpe |-> Settings("periods_per_year", Each(<<1, 252, 260, 250, 52, 12, 4>>, Q), "ddof", <<1, 0>>),
   sortino |-> Settings("periods_per_year", Each(<<1, 252, 52, 12>>, Q),
                        "downside_denom", <<"full", "downside">>),
   calmar |-> Each(<<252, 52, 12, 1>>, LAMBDA p : "periods_per_year" :> Q(p)),
   information_ratio |-> Settings("periods_per_year", Each(<<1, 252, 52, 12>>, Q), "ddof", <<1, 0>>),
   stdev |-> Each(<<1, 0>>, LAMBDA d : "ddof" :> d),
   variance |-> Each(<<1, 0>>, LAMBDA d : "ddof" :> d),
   correlation |-> Each(<<"pearson", "spearman", "kendall">>, LAMBDA t : "method" :> t),
   ndcg |-> Settings("gain", <<"linear", "exponential">>, "k", <<0, 5, 10, 20>>),
   bleu |-> Settings("tokenize", <<"none", "13a", "char">>, "smooth", <<"none", "exp", "floor">>)]
    \* times the scale of BLEU, 1 or 100

has_grid(metric) == metric \in DOMAIN CONVENTIONS

\* The first setting, over the captured options, that gives the produced value.
Reproducing(metric, I, produced, K) ==
  SelectSeq(CONVENTIONS[metric], LAMBDA cell : produced = Metric(metric, I, cell @@ K))

search(metric, I, produced, K) ==
  IF Undefined(produced) \/ ~has_grid(metric) \/ Reproducing(metric, I, produced, K) = << >>
  THEN << >> ELSE Reproducing(metric, I, produced, K)[1]
=============================================================================
