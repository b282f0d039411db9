---------------------------- MODULE TextMetrics -----------------------------
(***************************************************************************)
(* Retrieval and text metrics of the catalog: spike/core/textmetrics.py.   *)
(* I maps a captured input to its value and K an option to its setting, as *)
(* in Catalog; a text is the sequence of its tokens (so the tokenization   *)
(* is that of the capture).  A degenerate result is NaN.  nDCG and BLEU    *)
(* end in logarithms: of nDCG the ranking is modelled, of BLEU the clipped *)
(* n-gram precisions.                                                      *)
(***************************************************************************)
EXTENDS Ratio
LOCAL INSTANCE SequencesExt
LOCAL INSTANCE Functions

\* The first of these inputs that was captured; none is as bad as empty.
Input(I, keys) ==
  LET there == SelectSeq(keys, LAMBDA k : k \in DOMAIN I)
  IN  IF there = << >> THEN << >> ELSE I[there[1]]

Option(K, key, default) == IF key \in DOMAIN K THEN K[key] ELSE default

----------------------------------------------------------------------------
(* Retrieval *)

Judged == <<"relevances", "relevance", "gains">>
Truth == <<"y_true", "labels">>
Score == <<"y_score", "scores", "y_pred">>

Captured(I, keys) == \E i \in DOMAIN keys : keys[i] \in DOMAIN I

Rankable(I) ==
  \/ Captured(I, Judged)
  \/ Captured(I, Truth) /\ Captured(I, Score) /\ Len(Input(I, Truth)) = Len(Input(I, Score))

\* Best score first, equal scores in their order.
_ranked_relevances(I) ==
  IF Captured(I, Judged) THEN Input(I, Judged)
  ELSE LET scores == Input(I, Score)
       IN  Each(RowsBy(Len(scores), LAMBDA i : Negate(scores[i])), LAMBDA i : Input(I, Truth)[i])

\* The ranks of the relevant items.
_binary_ranked(I) ==
  {i \in DOMAIN _ranked_relevances(I) : Zero \prec _ranked_relevances(I)[i]}

Within(S, k) == Cardinality({i \in S : i <= k})

\* No cutoff, and a cutoff of 0, mean the whole ranking.
_k_of(I, K) == IF Option(K, "k", 0) = 0 THEN Len(_ranked_relevances(I)) ELSE K.k

mrr(I, K) ==
  LET ranks == Input(I, <<"ranks">>)
      found == Having(ranks, LAMBDA r : 0 < r)
      hits == _binary_ranked(I)
      first == CHOOSE i \in hits : \A j \in hits : i <= j
  IN  CASE Captured(I, <<"ranks">>) ->
             IF found = << >> THEN NaN
             ELSE Total(Each(found, LAMBDA r : Over(1, r))) // Q(Len(ranks))
        [] ~Captured(I, <<"ranks">>) /\ Rankable(I) -> IF hits = {} THEN Zero ELSE Over(1, first)
        [] OTHER -> NaN

recall_at_k(I, K) ==
  IF Rankable(I) THEN Over(Within(_binary_ranked(I), _k_of(I, K)), Cardinality(_binary_ranked(I)))
  ELSE NaN

precision_at_k(I, K) ==
  IF Rankable(I) THEN Over(Within(_binary_ranked(I), _k_of(I, K)), _k_of(I, K)) ELSE NaN

hit_at_k(I, K) ==
  IF ~Rankable(I) THEN NaN
  ELSE IF Within(_binary_ranked(I), _k_of(I, K)) > 0 THEN One ELSE Zero

average_precision(I, K) ==
  IF Rankable(I) THEN MeanOver(_binary_ranked(I), LAMBDA i : Over(Within(_binary_ranked(I), i), i))
  ELSE NaN

----------------------------------------------------------------------------
(* Generated text *)

Candidate == <<"candidate", "hypothesis", "prediction", "predictions">>
Reference == <<"references", "reference", "refs">>

\* How often each n-gram occurs.
_ngrams(toks, n) ==
  LET grams == [i \in 1..(Len(toks) - n + 1) |-> SubSeq(toks, i, i + n - 1)]
  IN  [g \in Range(grams) |-> Cardinality({i \in DOMAIN grams : grams[i] = g})]

Occurs(counts, g) == IF g \in DOMAIN counts THEN counts[g] ELSE 0

\* No n-gram of the candidate counts more often than in the reference.
Overlap(c, r) ==
  SumOver(DOMAIN r, LAMBDA g : Q(IF Occurs(c, g) < r[g] THEN Occurs(c, g) ELSE r[g])).n

BothRates(match, inCandidate, inReference, K) ==
  LET prec == Over(match, inCandidate)
      rec == Over(match, inReference)
      score == Option(K, "score", "f")
  IN  CASE inCandidate = 0 \/ inReference = 0 -> NaN
        [] inCandidate * inReference > 0 /\ score = "precision" -> prec
        [] inCandidate * inReference > 0 /\ score = "recall" -> rec
        [] OTHER -> IF match = 0 THEN Zero ELSE (Q(2) ** prec ** rec) // (prec ++ rec)

_rouge_n(I, K, n) ==
  LET c == Input(I, Candidate)
      r == Input(I, Reference)
      grams(t) == IF Len(t) < n THEN 0 ELSE Len(t) - n + 1
  IN  IF Captured(I, Candidate) /\ Captured(I, Reference)
      THEN BothRates(Overlap(_ngrams(c, n), _ngrams(r, n)), grams(c), grams(r), K)
      ELSE NaN

rouge1(I, K) == _rouge_n(I, K, 1)
rouge2(I, K) == _rouge_n(I, K, 2)

\* One row of the table of longest common subsequences at a time.
_lcs(a, b) ==
  LET larger(m, n) == IF m >= n THEN m ELSE n
      row(prev, x) ==
        FoldLeft(LAMBDA cur, j :
                   Append(cur, IF x = b[j] THEN prev[j] + 1 ELSE larger(prev[j + 1], cur[j])),
                 <<0>>, Upto(Len(b)))
  IN  FoldLeft(row, [j \in 1..(Len(b) + 1) |-> 0], a)[Len(b) + 1]

rouge_l(I, K) ==
  LET c == Input(I, Candidate)
      r == Input(I, Reference)
  IN  IF Captured(I, Candidate) /\ Captured(I, Reference)
      THEN BothRates(_lcs(c, r), Len(c), Len(r), K)
      ELSE NaN

\* Per order, the clipped matches and the candidate's n-grams of one sentence.
BleuCounts(cand, refs, max_order) ==
  [n \in 1..max_order |->
     LET c == _ngrams(cand, n)
         most(g) == CHOOSE m \in {Occurs(_ngrams(refs[i], n), g) : i \in DOMAIN refs} :
                      \A i \in DOMAIN refs : Occurs(_ngrams(refs[i], n), g) <= m
         clipped(g) == IF c[g] < most(g) THEN c[g] ELSE most(g)
     IN  [match |-> SumOver(DOMAIN c, LAMBDA g : Q(clipped(g))).n,
          total |-> SumOver(DOMAIN c, LAMBDA g : Q(c[g])).n]]

\* The precisions BLEU multiplies; the tiny floor of "floor" is left out.
_bleu_corpus(counts, smooth) ==
  LET empty(n) == counts[n].match = 0 /\ counts[n].total > 0
      halvings(n) == Cardinality({i \in 1..n : empty(i)})
  IN  [n \in DOMAIN counts |->
         CASE smooth = "add1" -> Over(counts[n].match + 1, counts[n].total + 1)
           [] smooth = "exp" /\ empty(n) -> Over(1, 2^halvings(n) * counts[n].total)
           [] OTHER -> IF counts[n].total = 0 THEN Zero ELSE Over(counts[n].match, counts[n].total)]
=============================================================================
