------------------------------ MODULE Catalog -------------------------------
(***************************************************************************)
(* The trusted metric catalog: spike/core/catalog.py and the retrieval and *)
(* text metrics merged into it from spike/core/textmetrics.py, with the    *)
(* conventions of spike/core/conventions.py.                               *)
(*                                                                         *)
(* I maps a captured input to its column (a missing input is not in the    *)
(* domain), K a keyword argument to its value.  Cells are fractions, a     *)
(* text is the sequence of its tokens.  A degenerate result, which is what *)
(* every failure becomes, is NaN; a metric that ends in a square root is   *)
(* represented by its signed square.  The module is instantiated: several  *)
(* of its metrics share their names with recipe kernels.                   *)
(* The definition named ..._Mutant is a faulty variant of its successor.   *)
(***************************************************************************)
EXTENDS TextMetrics, TLC
LOCAL INSTANCE SequencesExt
LOCAL INSTANCE Functions

(* Captured inputs and options *)
\* Zero and None count as not given.
Given(K, key, default) ==
  IF key \in DOMAIN K /\ K[key] # Zero THEN K[key] ELSE default

\* A cell that is no finite number makes the whole column unusable.
_as_floats(xs) == IF \E i \in DOMAIN xs : Undefined(xs[i]) THEN << >> ELSE xs

Paired(xs, ys) == xs # << >> /\ Len(xs) = Len(ys)
_pair(I) == Paired(Input(I, <<"y_true">>), Input(I, <<"y_pred">>))

----------------------------------------------------------------------------
(* Classification *)

Matching(yt, yp, a, b) == Count(Len(yt), LAMBDA i : yt[i] = a /\ yp[i] = b)
Labels(yt, yp) == Range(yt) \cup Range(yp)

accuracy(I, K) ==
  LET correct == Count(Len(I.y_true), LAMBDA i : I.y_true[i] = I.y_pred[i])
  IN  IF ~_pair(I) THEN NaN
      ELSE IF Option(K, "normalize", TRUE) THEN Over(correct, Len(I.y_true)) ELSE Q(correct)

_per_class(yt, yp) ==
  [x \in Labels(yt, yp) |->
     [tp |-> Matching(yt, yp, x, x),
      fp |-> Count(Len(yt), LAMBDA i : yt[i] # x /\ yp[i] = x),
      fn |-> Count(Len(yt), LAMBDA i : yt[i] = x /\ yp[i] # x),
      support |-> Count(Len(yt), LAMBDA i : yt[i] = x)]]

OrZero(x) == IF Undefined(x) THEN Zero ELSE x

_prf(which, s) ==
  LET prec == OrZero(Over(s.tp, s.tp + s.fp))
      rec == OrZero(Over(s.tp, s.tp + s.fn))
  IN  CASE which = "precision" -> prec
        [] which = "recall" -> rec
        [] which = "f1" -> OrZero((Q(2) ** prec ** rec) // (prec ++ rec))

_prf_metric(which, I, K) ==
  LET stats == _per_class(I.y_true, I.y_pred)
      average == Option(K, "average", "binary")
      pos == Option(K, "pos_label", One)
      all(f(_)) == SumOver(DOMAIN stats, LAMBDA x : Q(f(stats[x]))).n
      scored(x) == _prf(which, stats[x])
  IN  CASE ~_pair(I) -> NaN
        [] _pair(I) /\ average = "binary" -> IF pos \in DOMAIN stats THEN scored(pos) ELSE Zero
        [] _pair(I) /\ average = "macro" -> MeanOver(DOMAIN stats, scored)
        [] _pair(I) /\ average = "micro" ->
             _prf(which, [tp |-> all(LAMBDA s : s.tp), fp |-> all(LAMBDA s : s.fp),
                          fn |-> all(LAMBDA s : s.fn)])
        [] _pair(I) /\ average = "weighted" ->
             SumOver(DOMAIN stats, LAMBDA x : scored(x) ** Q(stats[x].support)) // Q(Len(I.y_true))
        [] OTHER -> NaN

balanced_accuracy(I, K) ==
  LET recalled(x) == Over(Matching(I.y_true, I.y_pred, x, x), Count(Len(I.y_true), LAMBDA i : I.y_true[i] = x))
  IN  IF _pair(I) THEN MeanOver(Range(I.y_true), recalled) ELSE NaN

\* Labels are put in the order of their spelling: 10 before 2.
Digits[n \in Nat] == IF n < 10 THEN <<n>> ELSE Append(Digits[n \div 10], n % 10)
Spelling(x) == IF x.n < 0 THEN <<-1>> \o Digits[-x.n] ELSE Digits[x.n]

SpelledBefore(x, y) ==
  LET s == Spelling(x)
      t == Spelling(y)
  IN  \/ IsStrictPrefix(s, t)
      \/ \E k \in (DOMAIN s) \cap (DOMAIN t) : SubSeq(s, 1, k - 1) = SubSeq(t, 1, k - 1) /\ s[k] < t[k]

LastClass(S) == CHOOSE x \in S : \A y \in S \ {x} : SpelledBefore(y, x)

Scored(I) == Paired(Input(I, <<"y_true">>), Input(I, <<"y_score", "y_pred">>))

_rank(xs) ==
  LET below(v) == Count(Len(xs), LAMBDA i : xs[i] \prec v)
      equal(v) == Count(Len(xs), LAMBDA i : xs[i] = v)
  IN  [i \in DOMAIN xs |-> Over(2 * below(xs[i]) + equal(xs[i]) + 1, 2)]

roc_auc(I, K) ==
  LET yt == I.y_true
      scores == _as_floats(Input(I, <<"y_score", "y_pred">>))
      pos == LastClass(Range(yt))
      n_pos == Count(Len(yt), LAMBDA i : yt[i] = pos)
      sum_ranks_pos == Total(Where(_rank(scores), LAMBDA i : yt[i] = pos))
  IN  IF Scored(I) /\ Cardinality(Range(yt)) = 2 /\ scores # << >>
      THEN (sum_ranks_pos -- Over(n_pos * (n_pos + 1), 2)) // Q(n_pos * (Len(yt) - n_pos))
      ELSE NaN

Of(xs, v) == Count(Len(xs), LAMBDA i : xs[i] = v)
SquaredSum(S, f(_)) == SumOver(S, LAMBDA x : Q(f(x) * f(x)))

mcc(I, K) ==
  LET yt == I.y_true
      yp == I.y_pred
      n == Len(yt)
      L == Labels(yt, yp)
      correct == Count(n, LAMBDA i : yt[i] = yp[i])
      num == Q(correct * n) -- SumOver(L, LAMBDA x : Q(Of(yt, x) * Of(yp, x)))
      spread(xs) == Q(n * n) -- SquaredSum(L, LAMBDA x : Of(xs, x))
  IN  IF _pair(I) THEN SignedSquare(num) // (spread(yt) ** spread(yp)) ELSE NaN     \* squared

cohen_kappa(I, K) ==
  LET yt == I.y_true
      yp == I.y_pred
      n == Len(yt)
      po == Over(Count(n, LAMBDA i : yt[i] = yp[i]), n)
      pe == SumOver(Labels(yt, yp), LAMBDA x : Over(Of(yt, x) * Of(yp, x), n * n))
  IN  IF _pair(I) THEN (po -- pe) // (One -- pe) ELSE NaN

MeanSquare(xs, ys) == fmean(Pairs(xs, ys, LAMBDA x, y : Square(x -- y)))

\* The one class of a column with one class is the positive one, even 0.
brier(I, K) ==
  LET probs == _as_floats(Input(I, <<"y_score", "y_pred">>))
      y == Each(I.y_true, LAMBDA x : IF x = LastClass(Range(I.y_true)) THEN One ELSE Zero)
  IN  IF Scored(I) /\ Cardinality(Range(I.y_true)) <= 2 /\ probs # << >>
      THEN MeanSquare(probs, y) ELSE NaN

----------------------------------------------------------------------------
(* Regression, aggregates *)

_reg(I) == /\ _pair(I)
           /\ _as_floats(I.y_true) # << >> /\ _as_floats(I.y_pred) # << >>

mse(I, K) == IF _reg(I) THEN MeanSquare(I.y_true, I.y_pred) ELSE NaN
rmse(I, K) == mse(I, K)                                                             \* squared
mae(I, K) == IF _reg(I) THEN fmean(Pairs(I.y_true, I.y_pred, LAMBDA x, y : Abs(x -- y))) ELSE NaN

Scatter(xs) == LET m == fmean(xs)
               IN  Total(Each(xs, LAMBDA x : Square(x -- m)))

r2(I, K) ==
  IF _reg(I) THEN One -- (Q(Len(I.y_true)) ** mse(I, K)) // Scatter(I.y_true) ELSE NaN

_values(I) == _as_floats(Input(I, <<"values", "x">>))
mean(I, K) == fmean(_values(I))
total_sum(I, K) == IF _values(I) = << >> THEN NaN ELSE Total(_values(I))

----------------------------------------------------------------------------
(* Finance: the ratios are squared, so that the factor sqrt(periods per    *)
(* year) is the periods per year                                           *)

Returns(I) == _as_floats(Input(I, <<"returns", "values">>))
ddof(K) == Option(K, "ddof", 1)

RatioOf(xs, ys, ppy) == (SignedSquare(fmean(xs)) // ys) ** ppy

sharpe(I, K) ==
  LET excess == Each(Returns(I), LAMBDA x : x -- Given(K, "risk_free", Zero))
  IN  IF Len(excess) < 2 THEN NaN
      ELSE RatioOf(excess, fvar(excess, ddof(K)), Given(K, "periods_per_year", One))

stdev(I, K) == fvar(_values(I), ddof(K))                                            \* squared
variance(I, K) == stdev(I, K)

sortino(I, K) ==
  LET target == Option(K, "target", Given(K, "risk_free", Zero))
      excess == Each(Returns(I), LAMBDA x : x -- target)
      down == Having(excess, LAMBDA e : e \prec Zero)
      denom_n == IF Option(K, "downside_denom", "full") = "full" THEN Len(excess) ELSE Len(down)
  IN  IF Len(excess) < 2 THEN NaN
      ELSE RatioOf(excess, Total(Each(down, Square)) // Q(denom_n), Given(K, "periods_per_year", One))

\* Only where the number of periods divides the periods per year.
calmar(I, K) ==
  LET r == Returns(I)
      curve == [i \in 0..Len(r) |-> Product(Each(SubSeq(r, 1, i), LAMBDA x : One ++ x))]
      peak(i) == Largest(<<One>> \o [j \in 1..i |-> curve[j]])
      mdd == Smallest(<<Zero>> \o [i \in DOMAIN r |-> (curve[i] -- peak(i)) // peak(i)])
      turns == Given(K, "periods_per_year", Q(252)) // Q(Len(r))
  IN  IF Len(r) < 2 \/ ~(Zero \prec curve[Len(r)]) \/ turns.d # 1 THEN NaN
      ELSE (Power(curve[Len(r)], turns.n) -- One) // Abs(mdd)

information_ratio(I, K) ==
  LET ra == _as_floats(Input(I, <<"returns", "portfolio">>))
      rb == _as_floats(Input(I, <<"benchmark", "bench">>))
      active == Pairs(ra, rb, LAMBDA a, b : a -- b)
  IN  IF Len(ra) # Len(rb) \/ Len(ra) < 2 THEN NaN
      ELSE RatioOf(active, fvar(active, ddof(K)), Given(K, "periods_per_year", One))

_tie_pairs_Mutant(xs) == 0
_tie_pairs(xs) ==
  Cardinality({ij \in (DOMAIN xs) \X (DOMAIN xs) : ij[1] < ij[2] /\ xs[ij[1]] = xs[ij[2]]})

Pearson(xs, ys) ==
  LET mx == fmean(xs)
      my == fmean(ys)
  IN  SignedSquare(Total(Pairs(xs, ys, LAMBDA a, b : (a -- mx) ** (b -- my))))
        // (Scatter(xs) ** Scatter(ys))                                             \* squared

Kendall(xs, ys) ==
  LET n0 == (Len(xs) * (Len(xs) - 1)) \div 2
      pairs == {ij \in (DOMAIN xs) \X (DOMAIN xs) : ij[1] < ij[2]}
      way(ij) == Signum(xs[ij[1]] -- xs[ij[2]]) * Signum(ys[ij[1]] -- ys[ij[2]])
      moving(s) == Cardinality({ij \in pairs : way(ij) = s})
  IN  SignedSquare(Q(moving(1) - moving(-1)))
        // Q((n0 - _tie_pairs(xs)) * (n0 - _tie_pairs(ys)))                         \* squared

correlation(I, K) ==
  LET x == Input(I, <<"x", "y_true">>)
      y == Input(I, <<"y", "y_pred">>)
      xf == _as_floats(x)
      yf == _as_floats(y)
      method == Option(K, "method", "pearson")
  IN  IF Len(x) # Len(y) \/ Len(x) < 2 \/ xf = << >> \/ yf = << >> THEN NaN
      ELSE CASE method = "pearson" -> Pearson(xf, yf)
             [] method = "spearman" -> Pearson(_rank(xf), _rank(yf))
             [] method = "kendall" -> Kendall(xf, yf)
             [] OTHER -> NaN

----------------------------------------------------------------------------
Kernel(metric, I, K) ==
  CASE metric \in {"precision", "recall", "f1"} -> _prf_metric(metric, I, K)
    [] metric = "accuracy" -> accuracy(I, K)
    [] metric = "balanced_accuracy" -> balanced_accuracy(I, K)
    [] metric = "roc_auc" -> roc_auc(I, K)
    [] metric = "mcc" -> mcc(I, K)
    [] metric = "cohen_kappa" -> cohen_kappa(I, K)
    [] metric = "brier" -> brier(I, K)
    [] metric = "mse" -> mse(I, K)
    [] metric = "rmse" -> rmse(I, K)
    [] metric = "mae" -> mae(I, K)
    [] metric = "r2" -> r2(I, K)
    [] metric = "mean" -> mean(I, K)
    [] metric = "sum" -> total_sum(I, K)
    [] metric = "sharpe" -> sharpe(I, K)
    [] metric = "stdev" -> stdev(I, K)
    [] metric = "variance" -> variance(I, K)
    [] metric = "sortino" -> sortino(I, K)
    [] metric = "calmar" -> calmar(I, K)
    [] metric = "information_ratio" -> information_ratio(I, K)
    [] metric = "correlation" -> correlation(I, K)
    [] metric = "mrr" -> mrr(I, K)
    [] metric = "recall_at_k" -> recall_at_k(I, K)
    [] metric = "precision_at_k" -> precision_at_k(I, K)
    [] metric = "hit_at_k" -> hit_at_k(I, K)
    [] metric = "average_precision" -> average_precision(I, K)
    [] metric = "rouge1" -> rouge1(I, K)
    [] metric = "rouge2" -> rouge2(I, K)
    [] metric = "rouge_l" -> rouge_l(I, K)
    [] OTHER -> NaN
=============================================================================
