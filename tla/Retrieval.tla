----------------------------- MODULE Retrieval ------------------------------
(***************************************************************************)
(* The kernels of spike/recipes/numeric.py over ranked answers and texts.  *)
(* A run is three columns: query, rank and relevance of each answer; the   *)
(* answers of a query are taken by rising rank, ties in their order.       *)
(* A text is a sequence of tokens (of characters, for the string           *)
(* similarities); Articles are the tokens the answer normalisation drops.  *)
(***************************************************************************)
EXTENDS Columns
LOCAL INSTANCE Functions
LOCAL INSTANCE SequencesExt
LOCAL INSTANCE FiniteSetsExt

Articles == {"a", "an", "the"}

----------------------------------------------------------------------------
(* by_query: for each query, the relevances of its answers by rank *)
by_query(run) ==
  LET order == RowsBy(Len(run.query), LAMBDA i : Q(run.rank[i]))
      of(q) == Having(order, LAMBDA i : run.query[i] = q)
  IN  [q \in Range(run.query) |-> Each(of(q), LAMBDA i : run.rel[i])]

Top(rels, k) == SubSeq(rels, 1, IF k < Len(rels) THEN k ELSE Len(rels))
Relevant(rels) == Count(Len(rels), LAMBDA i : rels[i] > 0)
Found(rels, k) == Relevant(Top(rels, k))

\* The mean over the queries that pass a test.
OverQueries(run, Counts(_), score(_)) ==
  LET per == by_query(run)
  IN  MeanOver({q \in DOMAIN per : Counts(per[q])}, LAMBDA q : score(per[q]))
All(rels) == TRUE
AtCutoff(run, k, Counts(_), score(_)) ==
  IF k < 1 THEN NaN ELSE OverQueries(run, Counts, score)
Answerable(rels) == Relevant(rels) > 0

recall_at_k(run, k) ==
  AtCutoff(run, k, Answerable, LAMBDA rels : Over(Found(rels, k), Relevant(rels)))
precision_at_k(run, k) == AtCutoff(run, k, All, LAMBDA rels : Over(Found(rels, k), k))
hit_at_k(run, k) ==
  AtCutoff(run, k, All, LAMBDA rels : IF Found(rels, k) > 0 THEN One ELSE Zero)
success_at_k(run, k) ==
  AtCutoff(run, k, All, LAMBDA rels : IF \E i \in DOMAIN Top(rels, k) : rels[i] > 0 THEN One ELSE Zero)
r_precision(run) ==
  OverQueries(run, Answerable, LAMBDA rels : Over(Found(rels, Relevant(rels)), Relevant(rels)))
f1_at_k(run, k) ==
  AtCutoff(run, k, Answerable, LAMBDA rels : Over(2 * Found(rels, k), k + Relevant(rels)))
fallout_at_k(run, k) ==
  LET other(rels) == Len(rels) - Relevant(rels)
  IN  AtCutoff(run, k, LAMBDA rels : other(rels) > 0,
                  LAMBDA rels : Over(other(Top(rels, k)), other(rels)))

\* The reciprocal of the first relevant position; k = 0 for no cutoff.
mrr(run, k) ==
  LET first(rels) == {i \in DOMAIN rels : rels[i] > 0 /\ \A j \in 1..(i - 1) : rels[j] <= 0}
      seen(rels) == IF k = 0 THEN rels ELSE Top(rels, k)
  IN  OverQueries(run, All, LAMBDA rels : SumOver(first(seen(rels)), LAMBDA i : Over(1, i)))
arhr_at_k(run, k) ==
  AtCutoff(run, k, All, LAMBDA rels :
    Sum(Len(Top(rels, k)), LAMBDA i : IF rels[i] > 0 THEN Over(1, i) ELSE Zero))

\* The precision at each relevant position.
PrecisionSum(rels) ==
  Sum(Len(rels), LAMBDA i : IF rels[i] > 0 THEN Over(Found(rels, i), i) ELSE Zero)
mean_average_precision(run) ==
  OverQueries(run, Answerable, LAMBDA rels : PrecisionSum(rels) // Q(Relevant(rels)))
map_at_k(run, k) ==
  AtCutoff(run, k, Answerable, LAMBDA rels :
    PrecisionSum(Top(rels, k)) // Smaller(Q(Relevant(rels)), Q(k)))

rbp(run, p) ==
  IF ~(Zero \prec p /\ p \prec One) THEN NaN
  ELSE OverQueries(run, All, LAMBDA rels :
         (One -- p) ** Sum(Len(rels), LAMBDA i : IF rels[i] > 0 THEN Power(p, i - 1) ELSE Zero))

\* The reader stops at a position with a chance that grows with its grade.
err_at_k(run, k) ==
  LET gmax == Largest(<<Zero>> \o Each(run.rel, Q)).n
      stop(rel) == Power(Q(2), rel) -- One
      chance(rel) == stop(rel) // Power(Q(2), gmax)
      reach(rels, i) == Product([j \in 1..(i - 1) |-> One -- chance(rels[j])])
  IN  IF gmax <= 0 THEN NaN
      ELSE AtCutoff(run, k, All, LAMBDA rels :
             Sum(Len(Top(rels, k)), LAMBDA i : (reach(rels, i) ** chance(rels[i])) // Q(i)))

----------------------------------------------------------------------------
(* Generated answers *)
pass_at_k(problems, corrects, k) ==
  LET of(p) == {i \in DOMAIN problems : problems[i] = p}
      wrong(p) == Cardinality({i \in of(p) : corrects[i] = 0})
      n(p) == Cardinality(of(p))
      chance(p) == One -- Over(Subsets(wrong(p), k), Subsets(n(p), k))
  IN  IF k < 1 \/ \E p \in Range(problems) : n(p) < k THEN NaN
      ELSE MeanOver(Range(problems), chance)

em_normalize(text) == Having(text, LAMBDA token : token \notin Articles)
MeanPairs(preds, refs, f(_, _)) == fmean(Pairs(preds, refs, f))

exact_match(preds, refs, normalized) ==
  LET form(t) == IF normalized THEN em_normalize(t) ELSE t
  IN  MeanPairs(preds, refs, LAMBDA p, r : IF form(p) = form(r) THEN One ELSE Zero)

\* The tokens two texts share, each as often as in the text that has it less.
multiset_overlap(a, b) ==
  LET times(t, v) == Count(Len(t), LAMBDA i : t[i] = v)
      least(v) == IF times(a, v) < times(b, v) THEN times(a, v) ELSE times(b, v)
  IN  SumOver(Range(a), LAMBDA v : Q(least(v))).n
token_f1(preds, refs) ==
  LET f1(p, r) == IF p = << >> /\ r = << >> THEN One
                  ELSE Over(2 * multiset_overlap(p, r), Len(p) + Len(r))
  IN  MeanPairs(preds, refs, LAMBDA p, r : f1(em_normalize(p), em_normalize(r)))
token_jaccard(preds, refs) ==
  LET share(A, B) == IF A \cup B = {} THEN One
                     ELSE Over(Cardinality(A \cap B), Cardinality(A \cup B))
  IN  MeanPairs(preds, refs, LAMBDA p, r : share(Range(p), Range(r)))
token_dice(preds, refs) ==
  LET share(A, B) == IF A \cup B = {} THEN One
                     ELSE Over(2 * Cardinality(A \cap B), Cardinality(A) + Cardinality(B))
  IN  MeanPairs(preds, refs, LAMBDA p, r : share(Range(p), Range(r)))

----------------------------------------------------------------------------
(* Distances of two strings; d[i, j] is that of their prefixes *)
edit_distance(a, b) ==
  LET d[i \in 0..Len(a), j \in 0..Len(b)] ==
        IF i = 0 \/ j = 0 THEN i + j
        ELSE Min({d[i - 1, j] + 1, d[i, j - 1] + 1,
                  d[i - 1, j - 1] + (IF a[i] = b[j] THEN 0 ELSE 1)})
  IN  d[Len(a), Len(b)]

lcs_len(a, b) ==
  LET d[i \in 0..Len(a), j \in 0..Len(b)] ==
        IF i = 0 \/ j = 0 THEN 0
        ELSE IF a[i] = b[j] THEN d[i - 1, j - 1] + 1
        ELSE Max({d[i - 1, j], d[i, j - 1]})
  IN  d[Len(a), Len(b)]

wer(preds, refs) ==
  Total(Pairs(preds, refs, LAMBDA p, r : Q(edit_distance(r, p)))) // Total(Each(refs, LAMBDA r : Q(Len(r))))

levenshtein_similarity(preds, refs) ==
  LET alike(p, r) == IF p \o r = << >> THEN One
                     ELSE One -- Over(edit_distance(p, r), Max({Len(p), Len(r)}))
  IN  MeanPairs(preds, refs, alike)
indel_similarity(preds, refs) ==
  LET alike(p, r) == IF p \o r = << >> THEN One
                     ELSE Over(2 * lcs_len(p, r), Len(p) + Len(r))
  IN  MeanPairs(preds, refs, alike)
longest_common_subsequence(preds, refs) ==
  MeanPairs(preds, refs, LAMBDA p, r : Q(lcs_len(p, r)))

\* The characters of a, in order, take the first free equal one of b nearby.
jaro_matches(a, b) ==
  LET window == Max({Max({Len(a), Len(b)}) \div 2 - 1, 0})
      free(i, taken) ==
        {j \in DOMAIN b : j \notin Range(taken) /\ b[j] = a[i] /\ Magnitude(i - j) <= window}
      match(taken, i) == Append(taken, IF free(i, taken) = {} THEN 0 ELSE Min(free(i, taken)))
  IN  FoldLeft(match, << >>, Upto(Len(a)))
jaro(a, b) ==
  LET taken == jaro_matches(a, b)
      ka == Where(a, LAMBDA i : i <= Len(a) /\ taken[i] # 0)
      kb == Where(b, LAMBDA j : j \in Range(taken))
      m == Len(ka)
      swapped == Count(m, LAMBDA i : ka[i] # kb[i])
  IN  IF a \o b = << >> THEN One ELSE IF m = 0 THEN Zero
      ELSE ((Over(m, Len(a)) ++ Over(m, Len(b))) ++ Over(2 * m - swapped, 2 * m)) // Q(3)
jaro_winkler(a, b) ==
  LET same == {p \in 0..Min({4, Len(a), Len(b)}) : SubSeq(a, 1, p) = SubSeq(b, 1, p)}
  IN  jaro(a, b) ++ Over(Max(same), 10) ** (One -- jaro(a, b))
jaro_similarity(preds, refs) == MeanPairs(preds, refs, jaro)
jaro_winkler_similarity(preds, refs) == MeanPairs(preds, refs, jaro_winkler)
=============================================================================
