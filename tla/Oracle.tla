------------------------------- MODULE Oracle -------------------------------
(***************************************************************************)
(* The recompute oracle: how a claimed metric finds a trusted              *)
(* implementation (recompute_any of spike/synth/formula.py), how captured  *)
(* inputs are bound to a recipe's columns (spike/recipes/adapter.py), and  *)
(* how the answer is compared with what the repository produced: the       *)
(* convention search and the cross-check by a second implementation        *)
(* (diff_claim of spike/core/diff.py).                                     *)
(*                                                                         *)
(* A capture is [inputs, labels, kwargs]: the columns by name, the names   *)
(* of those that hold labels (integers; other columns are fractions) and   *)
(* the keyword arguments of the call.  `produced' has the values the       *)
(* repository computed for some of the claims.  Validating a formula and   *)
(* matching it by similarity are left to the constants.                    *)
(***************************************************************************)
EXTENDS Conventions
CONSTANTS
  Recipe(_, _, _),  \* the recipe of an id, over bound columns, under a convention
  Tags(_),          \* the tags it requires, none for what is no recipe
  Convention(_, _), \* a convention that gives a key a value
  Implicit,         \* the convention of a call that names none
  Cases,      \* what a run captured: [capture, claims, produced]
  Validated   \* the formulas whose synthesis passes validation
VARIABLES
  case,       \* the claims of one repository with their captured call
  bank,       \* formula store: the metrics whose formula is banked
  report      \* the answer for every claim, once asked

vars == <<case, bank, report>>

(* The adapter *)
\* The captured inputs that may fill a required tag, the first one wins.
_TAG_SOURCES(tag) ==
  CASE tag = "label" -> <<"y_true", "target", "label", "actual", "y", "truth">>
    [] tag = "target" -> <<"y_true", "target", "actual", "y", "truth">>
    [] tag = "prediction" -> <<"y_pred", "prediction", "pred", "yhat", "y">>
    [] tag = "score" -> <<"y_score", "score", "y_prob", "prob", "proba", "scores">>
    [] tag = "prob" -> <<"y_score", "y_prob", "prob", "proba", "score">>
    [] tag = "value" -> <<"values", "value", "x", "data", "column">>
    [] tag = "return" -> <<"returns", "return", "values", "x">>
    [] tag = "benchmark" -> <<"benchmark", "bench", "market", "y2">>
    [] tag = "before" -> <<"before", "baseline", "control", "x">>
    [] tag = "after" -> <<"after", "candidate", "treatment", "y">>
    [] tag = "weight" -> <<"sample_weight", "weight", "weights">>
    [] tag = "group" -> <<"group", "era", "fold", "groups">>
    [] tag = "x" -> <<"x", "values", "y_true">>
    [] tag = "y" -> <<"y", "y_pred">>
    [] OTHER -> <<tag>>

Fills(I, tag) == SelectSeq(_TAG_SOURCES(tag), LAMBDA key : key \in DOMAIN I)

_resolve_id(metric) ==
  CASE Tags(metric) # << >> -> metric
    [] metric \in {"cross_entropy", "logloss"} -> "log_loss"
    [] metric \in {"brier_score_loss", "brier_score"} -> "brier"
    [] metric = "sortino_ratio" -> "sortino"
    [] metric = "calmar_ratio" -> "calmar"
    [] metric = "explained_variance_score" -> "explained_variance"
    [] metric = "matthews_corrcoef" -> "mcc"
    [] OTHER -> ""

\* Two tags may be filled by one input.
_bind(tags, I) == [tag \in {tags[i] : i \in DOMAIN tags} |-> I[Fills(I, tag)[1]]]

\* The periods of a call become the bare convention of any recipe.
ConventionOf(K) ==
  CASE "convention" \in DOMAIN K -> K.convention
    [] "convention" \notin DOMAIN K /\ "periods_per_year" \in DOMAIN K ->
         Convention("", Q(Floor(K.periods_per_year)))
    [] OTHER -> Implicit

recompute_recipe(metric, capture) ==
  LET id == _resolve_id(metric)
      tags == Tags(id)
  IN  IF id = "" \/ \E i \in DOMAIN tags : Fills(capture.inputs, tags[i]) = << >> THEN NaN
      ELSE Recipe(id, _bind(tags, capture.inputs), ConventionOf(capture.kwargs))

(* Formulas *)
_registry_metric(metric) ==
  IF metric \in {"spearman", "spearmanr", "spearman correlation", "spearman rank correlation", "rho"}
  THEN "spearman" ELSE ""

\* The formulas other than this one are those of the catalog.
exec_formula(formula, I) == Metric("correlation", I, [method |-> formula])

\* A formula is banked once it has passed validation, under its own name.
_synthesize_and_validate(metric) == _registry_metric(metric) \in Validated
Banked(metrics) ==
  {_registry_metric(m) : m \in {x \in metrics : canonical(x) = "" /\ _synthesize_and_validate(x)}}

Numeric(capture) ==
  [key \in DOMAIN capture.inputs |->
     IF key \in capture.labels THEN Each(capture.inputs[key], Q) ELSE capture.inputs[key]]

Answer(provenance, value) == [provenance |-> provenance, value |-> value]

\* Catalog, recipes, formula store, synthesis, none.
recompute_any(metric, capture) ==
  LET recipe == recompute_recipe(metric, capture)
      formula == _registry_metric(metric)
  IN  CASE canonical(metric) # "" ->
             Answer("catalog", recompute(metric, Numeric(capture), capture.kwargs))
        [] canonical(metric) = "" /\ metric \in LEARNED_METRICS -> Answer("learned", NaN)
        [] canonical(metric) = "" /\ ~Undefined(recipe) -> Answer("recipe", recipe)
        [] OTHER ->
             CASE formula \in bank -> Answer("store", exec_formula(formula, Numeric(capture)))
               [] formula \notin bank /\ _synthesize_and_validate(metric) ->
                    Answer("synth", exec_formula(formula, Numeric(capture)))
               [] OTHER -> Answer("none", NaN)

(* The comparison with the produced value *)
\* A disagreeing answer may be that of another standard convention.
Conventional(metric, capture, produced, answer) ==
  LET id == canonical(metric)
      standard == search(id, Numeric(capture), produced, capture.kwargs)
  IN  IF id = "" \/ Undefined(answer.value) \/ answer.value = produced \/ standard = << >> THEN answer
      ELSE Answer("convention", Metric(id, Numeric(capture), standard @@ capture.kwargs))

\* A second implementation that disagrees takes the answer away.
reconcile(answer, shadow) ==
  IF Undefined(answer.value) \/ Undefined(shadow) \/ shadow = answer.value THEN answer
  ELSE [answer EXCEPT !.value = NaN]

diff_claim(metric) ==
  LET answer == recompute_any(metric, case.capture)
  IN  IF metric \in DOMAIN case.produced
      THEN Conventional(metric, case.capture, case.produced[metric], answer)
      ELSE answer

----------------------------------------------------------------------------
Init ==
  /\ case \in Cases
  /\ bank = {}
  /\ report = << >>

\* The claims of a repository are recomputed; formulas stay for the next one.
Verify ==
  /\ report = << >>
  /\ report' = [metric \in case.claims |-> diff_claim(metric)]
  /\ bank' = bank \cup {f \in Banked(case.claims) : f # ""}
  /\ UNCHANGED case

\* Another repository with these claims asks the bank again.
NextRepository ==
  /\ report # << >>
  /\ bank # {}
  /\ case' \in {k \in Cases : k.claims = case.claims}
  /\ report' = << >>
  /\ UNCHANGED bank

Next == Verify \/ NextRepository
Spec == Init /\ [][Next]_vars
=============================================================================
