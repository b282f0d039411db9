------------------------------- MODULE Rates --------------------------------
(***************************************************************************)
(* The classification kernels of spike/recipes/numeric.py: rates of the    *)
(* binary confusion counts, agreement of two columns of labels, disparity  *)
(* between groups, distances of boolean columns, calibration of            *)
(* probabilities.  Columns are equally long and hold no NaN (otherwise     *)
(* every kernel returns NaN); a kernel that ends in a square root is       *)
(* represented by its signed square.                                       *)
(* Definitions named ..._Mutant are faulty variants of those they precede. *)
(***************************************************************************)
EXTENDS Ratio, FiniteSetsExt
LOCAL INSTANCE Functions

(* Columns and their counts *)
Hits(a, b, x, y) == Count(Len(a), LAMBDA i : a[i] = x /\ b[i] = y)
Agreeing(a, b) == Count(Len(a), LAMBDA i : a[i] = b[i])
Holding(a, x) == Count(Len(a), LAMBDA i : a[i] = x)
Classes(a, b) == Range(a) \cup Range(b)

\* What is neither a hit, a false alarm nor a miss counts as a true negative.
confusion(pred, label) ==
  LET tp == Hits(pred, label, 1, 1)
      fp == Hits(pred, label, 1, 0)
      fn == Hits(pred, label, 0, 1)
  IN  [tp |-> tp, fp |-> fp, fn |-> fn, tn |-> Len(pred) - tp - fp - fn]

(* Rates of confusion counts c *)
precision(c) == Over(c.tp, c.tp + c.fp)
recall(c) == Over(c.tp, c.tp + c.fn)
specificity(c) == Over(c.tn, c.tn + c.fp)
negative_predictive_value(c) == Over(c.tn, c.tn + c.fn)
false_positive_rate(c) == Over(c.fp, c.fp + c.tn)
false_negative_rate(c) == Over(c.fn, c.fn + c.tp)
false_discovery_rate(c) == Over(c.fp, c.fp + c.tp)
jaccard(c) == Over(c.tp, c.tp + c.fp + c.fn)
threat_score_Mutant(c) == Over(c.tp, c.tp + c.fn)
threat_score(c) == Over(c.tp, c.tp + c.fn + c.fp)

\* No positives predicted or none there, or no hit: undefined.
f1(c) == LET pr == precision(c)
             rc == recall(c)
         IN  (Q(2) ** pr ** rc) // (pr ++ rc)

fbeta(c, beta) ==
  LET pr == precision(c)
      rc == recall(c)
      b2 == Square(beta)
  IN  IF Zero \prec beta THEN ((One ++ b2) ** pr ** rc) // (b2 ** pr ++ rc) ELSE NaN

g_mean(c) == recall(c) ** specificity(c)
fowlkes_mallows(c) == precision(c) ** recall(c)
youden_j(c) == recall(c) ++ (specificity(c) -- One)
markedness(c) == precision(c) ++ (negative_predictive_value(c) -- One)
positive_likelihood_ratio(c) == recall(c) // false_positive_rate(c)
negative_likelihood_ratio(c) == false_negative_rate(c) // specificity(c)
diagnostic_odds_ratio(c) == Over(c.tp * c.tn, c.fp * c.fn)

----------------------------------------------------------------------------
(* Several classes *)

accuracy(preds, labels) == Over(Agreeing(preds, labels), Len(labels))

multiclass_counts(preds, labels) ==
  [x \in Classes(preds, labels) |->
     LET tp == Hits(preds, labels, x, x)
     IN  [tp |-> tp, fp |-> Holding(preds, x) - tp, fn |-> Holding(labels, x) - tp]]

\* A class with no support and no prediction would score 0.
ClassF1(k) == IF 2 * k.tp + k.fp + k.fn = 0 THEN Zero
              ELSE Over(2 * k.tp, 2 * k.tp + k.fp + k.fn)

macro_f1(preds, labels) ==
  LET k == multiclass_counts(preds, labels)
  IN  MeanOver(DOMAIN k, LAMBDA x : ClassF1(k[x]))

micro_f1(preds, labels) ==
  LET k == multiclass_counts(preds, labels)
      all(f(_)) == FoldSet(LAMBDA x, n : n + f(k[x]), 0, DOMAIN k)
      tp == all(LAMBDA r : r.tp)
  IN  IF labels = << >> THEN NaN
      ELSE Over(2 * tp, 2 * tp + all(LAMBDA r : r.fp) + all(LAMBDA r : r.fn))

weighted_f1(preds, labels) ==
  LET k == multiclass_counts(preds, labels)
  IN  IF labels = << >> THEN NaN
      ELSE SumOver(Range(labels),
             LAMBDA x : ClassF1(k[x]) ** Over(Holding(labels, x), Len(labels)))

balanced_accuracy(preds, labels) ==
  MeanOver(Range(labels), LAMBDA x : Over(Hits(preds, labels, x, x), Holding(labels, x)))

balanced_accuracy_adjusted(pred, label) ==
  LET chance == Over(1, Cardinality(Range(label)))
  IN  (balanced_accuracy(pred, label) -- chance) // (One -- chance)

jaccard_macro(pred, label) ==
  MeanOver(Classes(pred, label),
    LAMBDA x : LET tp == Hits(pred, label, x, x)
               IN  Over(tp, Holding(pred, x) + Holding(label, x) - tp))

\* Gorodkin's correlation; 0 when either column has one class.
mcc(preds, labels) ==
  LET n == Len(labels)
      product(a, b) == FoldSet(LAMBDA x, s : s + Holding(a, x) * Holding(b, x), 0,
                               Classes(preds, labels))
      cov == n * Agreeing(preds, labels) - product(preds, labels)
      var_p == n * n - product(preds, preds)
      var_t == n * n - product(labels, labels)
  IN  IF n = 0 THEN NaN ELSE IF var_p = 0 \/ var_t = 0 THEN Zero
      ELSE SignedSquare(Q(cov)) // Q(var_p * var_t)

(* Agreement corrected for chance *)
Corrected(po, pe) == (po -- pe) // (One -- pe)

cohen_kappa(preds, labels) ==
  LET n == Len(labels)
  IN  Corrected(accuracy(preds, labels),
        SumOver(Classes(preds, labels),
                LAMBDA x : Over(Holding(preds, x) * Holding(labels, x), n * n)))

\* Disagreement weighted by the distance of the classes in their order.
weighted_kappa(pred, label, quadratic) ==
  LET C == Classes(pred, label)
      rank(x) == Cardinality({y \in C : y < x})
      w(x, y) == LET r == Magnitude(rank(x) - rank(y)) IN IF quadratic THEN r * r ELSE r
      weighted(f(_, _)) == FoldSet(LAMBDA xy, s : s + w(xy[1], xy[2]) * f(xy[1], xy[2]), 0, C \X C)
  IN  One -- Over(weighted(LAMBDA x, y : Hits(pred, label, y, x)) * Len(label),
                  weighted(LAMBDA x, y : Holding(label, x) * Holding(pred, y)))

cohen_kappa_linear(pred, label) == weighted_kappa(pred, label, FALSE)
cohen_kappa_quadratic(pred, label) == weighted_kappa(pred, label, TRUE)

percentage_agreement(a, b) == Over(Agreeing(a, b), Len(a))
pabak(pred, label) == Q(2) ** percentage_agreement(pred, label) -- One

\* The share of a class in both columns pooled.
Pooled(a, b, x) == Over(Holding(a, x) + Holding(b, x), 2 * Len(a))

scott_pi(a, b) ==
  Corrected(percentage_agreement(a, b),
    SumOver(Classes(a, b), LAMBDA x : Square(Pooled(a, b, x))))

brennan_prediger(a, b) ==
  Corrected(percentage_agreement(a, b), Over(1, Cardinality(Classes(a, b))))

gwet_ac1(a, b) ==
  Corrected(percentage_agreement(a, b),
    Over(1, Cardinality(Classes(a, b)) - 1)
      ** SumOver(Classes(a, b), LAMBDA x : Pooled(a, b, x) ** (One -- Pooled(a, b, x))))

----------------------------------------------------------------------------
(* Disparity between groups: the range, or the ratio of the extremes, of a *)
(* rate over the groups where it is defined.                               *)

Taken(xs, rows) == Each(rows, LAMBDA i : xs[i])

grp_confusion(pred, label, group) ==
  [g \in Range(group) |->
     LET rows == SelectSeq(Upto(Len(group)), LAMBDA i : group[i] = g)
     IN  confusion(Taken(pred, rows), Taken(label, rows))]

Defined(rates) == SelectSeq(rates, LAMBDA x : ~Undefined(x))

frange(rates) ==
  LET v == Defined(rates) IN IF v = << >> THEN NaN ELSE Largest(v) -- Smallest(v)

fratio(rates) ==
  LET v == Defined(rates) IN IF v = << >> THEN NaN ELSE Smallest(v) // Largest(v)

\* A rate of the counts, group by group.
ByGroup(k, rate(_)) == Listed(DOMAIN k, LAMBDA g : rate(k[g]))

selection(c) == Over(c.tp + c.fp, c.tp + c.fp + c.fn + c.tn)
hit_share(c) == Over(c.tp + c.tn, c.tp + c.fp + c.fn + c.tn)
false_omission(c) == Over(c.fn, c.fn + c.tn)
balance(c) == Half ** (recall(c) ++ specificity(c))

demographic_parity_difference(k) == frange(ByGroup(k, selection))
demographic_parity_ratio(k) == fratio(ByGroup(k, selection))
equalized_odds_difference(k) ==
  Larger(frange(ByGroup(k, recall)), frange(ByGroup(k, false_positive_rate)))
equalized_odds_ratio(k) ==
  Smaller(fratio(ByGroup(k, recall)), fratio(ByGroup(k, false_positive_rate)))
equal_opportunity_difference(k) == frange(ByGroup(k, recall))
predictive_parity_difference(k) == frange(ByGroup(k, precision))
fpr_parity_difference(k) == frange(ByGroup(k, false_positive_rate))
accuracy_parity_difference(k) == frange(ByGroup(k, hit_share))
fdr_parity_difference(k) == frange(ByGroup(k, false_discovery_rate))
for_parity_difference(k) == frange(ByGroup(k, false_omission))
treatment_equality_difference(k) == frange(ByGroup(k, LAMBDA c : Over(c.fn, c.fp)))
balanced_accuracy_parity_difference(k) == frange(ByGroup(k, balance))
average_abs_odds_difference(k) ==
  Half ** (frange(ByGroup(k, false_positive_rate)) ++ frange(ByGroup(k, recall)))

\* Benefit p - y + 1 of each row; order 2, the default.
generalized_entropy_error(pred, label) ==
  LET b == Pairs(pred, label, LAMBDA p, y : Q(p - y + 1))
  IN  Total(Each(b, LAMBDA x : Square(x // fmean(b)) -- One)) // Q(2 * Len(pred))

----------------------------------------------------------------------------
(* Distances of boolean columns: ntt, ntf, nft, nff as in scipy; two       *)
(* columns without a true value are at distance 0.                         *)
bool_counts(x, y) ==
  LET n(p, q) == Count(Len(x), LAMBDA i : (x[i] # 0) = p /\ (y[i] # 0) = q)
  IN  [tt |-> n(TRUE, TRUE), tf |-> n(TRUE, FALSE), ft |-> n(FALSE, TRUE), ff |-> n(FALSE, FALSE)]

OrZero(a, b) == IF b = 0 THEN Zero ELSE Over(a, b)
Unlike(k) == k.tf + k.ft

dice_distance(k) == OrZero(Unlike(k), 2 * k.tt + Unlike(k))
rogers_tanimoto_distance(k) == OrZero(2 * Unlike(k), k.tt + k.ff + 2 * Unlike(k))
russell_rao_distance(k) == Over(Unlike(k) + k.ff, k.tt + k.ff + Unlike(k))
sokal_sneath_distance(k) == OrZero(2 * Unlike(k), k.tt + 2 * Unlike(k))
yule_distance(k) == OrZero(2 * k.tf * k.ft, k.tt * k.ff + k.tf * k.ft)
hamming_distance(x, y) == Over(Len(x) - Agreeing(x, y), Len(x))

----------------------------------------------------------------------------
(* Calibration: probabilities p (fractions) against binary labels y *)
Outcomes(labels) == Each(labels, LAMBDA y : Q(IF y = 1 THEN 1 ELSE 0))
Rows(xs, rows) == Each(rows, LAMBDA i : xs[i])

\* Bins of equal width, closed on the right; p = 0 belongs to the first.
BinOf(p, bins) == Min({Max({Ceiling(p ** Q(bins)), 1}), bins})

Bin(probs, labels, rows) ==
  [n |-> Len(rows), acc |-> fmean(Rows(Outcomes(labels), rows)), conf |-> fmean(Rows(probs, rows))]

\* The bins that hold rows.
cal_bins(probs, labels, bins) ==
  [b \in {BinOf(probs[i], bins) : i \in DOMAIN probs} |->
     Bin(probs, labels,
         SelectSeq(Upto(Len(probs)), LAMBDA i : BinOf(probs[i], bins) = b))]

\* A sum over the bins k, each with the share of its rows.
ByBin(k, n, f(_)) == IF n = 0 THEN NaN
                     ELSE SumOver(DOMAIN k, LAMBDA b : Over(k[b].n, n) ** f(k[b]))
Miscalibration(bin) == Abs(bin.acc -- bin.conf)

ece(probs, labels, bins) == ByBin(cal_bins(probs, labels, bins), Len(probs), Miscalibration)

rms_calibration_error(probs, labels, bins) ==
  ByBin(cal_bins(probs, labels, bins), Len(probs), LAMBDA b : Square(Miscalibration(b)))

maximum_calibration_error(probs, labels, bins) ==
  LET k == cal_bins(probs, labels, bins)
  IN  IF probs = << >> THEN NaN ELSE Largest(Listed(DOMAIN k, LAMBDA b : Miscalibration(k[b])))

\* Bins of equal mass: the rows by rising p, as evenly as they go.
adaptive_calibration_error(probs, labels, bins) ==
  LET n == Len(probs)
      rows == RowsBy(n, LAMBDA i : probs[i])
      upto(b) == b * (n \div bins) + Min({b, n % bins})
      bin(b) == Bin(probs, labels, SubSeq(rows, upto(b - 1) + 1, upto(b)))
  IN  fmean([b \in 1..Min({bins, n}) |-> Miscalibration(bin(b))])

\* The terms of Murphy's decomposition of the Brier score.
base_rate(labels) == fmean(Outcomes(labels))

brier_reliability(probs, labels, bins) ==
  ByBin(cal_bins(probs, labels, bins), Len(probs), LAMBDA b : Square(b.conf -- b.acc))

brier_resolution(probs, labels, bins) ==
  ByBin(cal_bins(probs, labels, bins), Len(probs),
        LAMBDA b : Square(b.acc -- base_rate(labels)))

brier(probs, labels) ==
  fmean(Pairs(probs, labels, LAMBDA p, y : Square(p -- Q(y))))

brier_skill_score(probs, labels) ==
  LET y == base_rate(labels)
      bs == fmean(Pairs(probs, Outcomes(labels), LAMBDA p, o : Square(p -- o)))
  IN  One -- bs // (y ** (One -- y))

calibration_in_the_large(probs, labels) == base_rate(labels) -- fmean(probs)

spiegelhalter_z(probs, labels) ==
  LET slope(p) == One -- Q(2) ** p
      num == Total(Pairs(probs, Outcomes(labels), LAMBDA p, o : (o -- p) ** slope(p)))
      den == Total(Each(probs, LAMBDA p : Square(slope(p)) ** p ** (One -- p)))
  IN  IF Zero \prec den THEN SignedSquare(num) // den ELSE NaN

sharpness(probs) == fvar(probs, 1)

\* Decisions at the threshold, false alarms weighed by its odds.
net_benefit(probs, labels, threshold) ==
  LET n == Len(probs)
      at(y) == Over(Count(n, LAMBDA i : threshold \preceq probs[i] /\ labels[i] = y), n)
  IN  IF Zero \prec threshold /\ threshold \prec One
      THEN at(1) -- at(0) ** (threshold // (One -- threshold))
      ELSE NaN
=============================================================================
