---------------------------- MODULE LedgerProofs ----------------------------
(***************************************************************************)
(* Proofs about Ledger.  The chain keeps what its docstring promises       *)
(* against edits; and it stays intact, through any number of restarts, as  *)
(* long as one thread serves the endpoint.  With two it does not           *)
(* (UntamperedChainIntact is violated): what breaks it is the missing lock *)
(* and nothing else.                                                       *)
(***************************************************************************)
EXTENDS Ledger, FiniteFacts

IsSequence(es) == es \in Seq(Range(es))

\* A chain holds of each entry what its hash is the hash of, and numbers it by
\* its place.
Recorded(es) == \A i \in 1..Len(es) : es[i] = EntryHash(es[i])
Numbered(es) == \A i \in 1..Len(es) : es[i].index = i - 1

Chained(es) == IsSequence(es) /\ Recorded(es) /\ Numbered(es) /\ ChainIntact(es)

----------------------------------------------------------------------------
(* Sequences *)

LEMMA AppendGrows ==
  ASSUME NEW es, IsSequence(es), NEW e
  PROVE  LET fs == Append(es, e)
         IN  /\ IsSequence(fs) /\ Len(es) \in Nat /\ Len(fs) = Len(es) + 1
             /\ fs[Len(es) + 1] = e
             /\ \A i \in 1..Len(es) : fs[i] = es[i]
<1> DEFINE T == Range(es) \cup {e}
           fs == Append(es, e)
<1>1. es \in Seq(T)
  <2>1. es \in Seq(Range(es)) /\ Range(es) \subseteq T
    BY DEF IsSequence
  <2> HIDE DEF T
  <2> QED
    BY <2>1
<1>2. e \in T
  OBVIOUS
<1> HIDE DEF T
<1>3. /\ fs \in Seq(T) /\ Len(es) \in Nat /\ Len(fs) = Len(es) + 1
      /\ fs[Len(es) + 1] = e
      /\ \A i \in 1..Len(es) : fs[i] = es[i]
  BY <1>1, <1>2
<1>4. fs \in Seq(Range(fs))
  BY <1>3 DEF Range
<1> QED
  BY <1>3, <1>4 DEF IsSequence

LEMMA LastIsLast ==
  ASSUME NEW es, IsSequence(es), es # << >>
  PROVE  Len(es) \in Nat \ {0} /\ Last(es) = es[Len(es)]
BY DEF IsSequence, Last

----------------------------------------------------------------------------
(* Edits *)

\* Two intact chains whose last entries have the same hash are the same chain:
\* whoever kept that hash notices any edit, removal or insertion before it
\* (tlog.py: "tampering with any past entry breaks every subsequent link").
\* That no hash is the one before the first entry is what Zero stands for.
THEOREM TamperEvident ==
  ASSUME NEW es, IsSequence(es), Recorded(es), ChainIntact(es), es # << >>,
         NEW fs, IsSequence(fs), Recorded(fs), ChainIntact(fs), fs # << >>,
         EntryHash(Last(es)) = EntryHash(Last(fs)),
         \A i, v, p : [index |-> i, verdict |-> v, prev |-> p] # Zero
  PROVE  es = fs
<1> DEFINE n == Len(es)
           m == Len(fs)
<1>1. n \in Nat \ {0} /\ m \in Nat \ {0} /\ es[n] = fs[m]
  BY LastIsLast DEF Recorded
<1>2. es = [i \in 1..n |-> es[i]] /\ fs = [i \in 1..m |-> fs[i]]
  BY DEF IsSequence
<1>3. /\ \A i \in 1..n : es[i] = EntryHash(es[i])
      /\ \A i \in 1..m : fs[i] = EntryHash(fs[i])
      /\ \A i \in 2..n : es[i].prev = EntryHash(es[i - 1])
      /\ \A i \in 2..m : fs[i].prev = EntryHash(fs[i - 1])
      /\ es[1].prev = Zero /\ fs[1].prev = Zero
  BY <1>1 DEF Recorded, ChainIntact
<1> HIDE DEF n, m
\* From the end the chains agree entry by entry.
<1>4. \A i \in 1..n, j \in 1..m : n - i = m - j => es[i] = fs[j]
  <2> DEFINE D == {i \in 1..n : \E j \in 1..m : n - i = m - j /\ es[i] # fs[j]}
  <2> SUFFICES ASSUME D # {} PROVE FALSE
    OBVIOUS
  <2>1. D \in SUBSET Int /\ IsFiniteSet(D)
    <3>1. IsFiniteSet(1..n) /\ 1..n \subseteq Int
      BY <1>1, FS_Interval
    <3>2. D \subseteq 1..n
      OBVIOUS
    <3> HIDE DEF D
    <3> QED
      BY <3>1, <3>2, FS_Subset
  <2>2. PICK i \in D : \A k \in D : i >= k
    <3> HIDE DEF D
    <3> QED
      BY <2>1, MaxOfFinite
  <2>3. PICK j \in 1..m : n - i = m - j /\ es[i] # fs[j]
    BY <2>2
  <2>4. i \in 1..n /\ i # n
    BY <1>1, <2>3
  <2>5. i + 1 \in 2..n /\ j + 1 \in 2..m /\ n - (i + 1) = m - (j + 1) /\ ~(i >= i + 1)
    BY <1>1, <2>3, <2>4
  <2>6. es[i + 1] = fs[j + 1]
    BY <2>2, <2>5
  <2>7. es[i + 1].prev = EntryHash(es[i]) /\ fs[j + 1].prev = EntryHash(fs[j])
    BY <1>3, <2>3, <2>4, <2>5
  <2>8. es[i] = EntryHash(es[i]) /\ fs[j] = EntryHash(fs[j])
    BY <1>3, <2>3, <2>4
  <2> QED
    BY <2>3, <2>6, <2>7, <2>8
\* So the shorter one begins where the longer one has a predecessor: neither is.
<1>5. n = m
  <2>1. ASSUME n < m PROVE FALSE
    <3>1. es[1] = fs[m - n + 1] /\ m - n + 1 \in 2..m
      BY <1>1, <1>4, <2>1
    <3>2. fs[m - n + 1].prev = EntryHash(fs[(m - n + 1) - 1])
      BY <1>3, <3>1
    <3> QED
      BY <1>3, <3>1, <3>2 DEF EntryHash
  <2>2. ASSUME m < n PROVE FALSE
    <3>1. fs[1] = es[n - m + 1] /\ n - m + 1 \in 2..n
      BY <1>1, <1>4, <2>2
    <3>2. es[n - m + 1].prev = EntryHash(es[(n - m + 1) - 1])
      BY <1>3, <3>1
    <3> QED
      BY <1>3, <3>1, <3>2 DEF EntryHash
  <2> QED
    BY <1>1, <2>1, <2>2
<1>6. \A i \in 1..n : es[i] = fs[i]
  BY <1>1, <1>4, <1>5
<1> QED
  BY <1>2, <1>5, <1>6

----------------------------------------------------------------------------
(* One thread *)

\* Appending the entry made of the last hash and the length keeps a chain.
LEMMA AppendKeepsChain ==
  ASSUME NEW es, Chained(es), NEW e,
         e.prev = IF es = << >> THEN Zero ELSE EntryHash(Last(es)),
         e.index = Len(es)
  PROVE  Chained(Append(es, EntryHash(e)))
<1> DEFINE h == EntryHash(e)
           fs == Append(es, h)
           n == Len(es)
<1>1. /\ IsSequence(fs) /\ n \in Nat /\ Len(fs) = n + 1 /\ fs[n + 1] = h
      /\ \A i \in 1..n : fs[i] = es[i]
  BY AppendGrows DEF Chained
<1>2. h.prev = e.prev /\ h.index = n /\ EntryHash(h) = h
  BY DEF EntryHash
<1>3. IF n = 0 THEN e.prev = Zero ELSE e.prev = EntryHash(es[n])
  <2>1. CASE es = << >>
    BY <2>1
  <2>2. CASE es # << >>
    BY <2>2, LastIsLast DEF Chained
  <2> QED
    BY <2>1, <2>2
<1> HIDE DEF h, fs, n
<1>4. \A i \in 1..(n + 1) : i = n + 1 \/ (i \in 1..n /\ (i # 1 => i - 1 \in 1..n))
  BY <1>1
<1>5. Recorded(fs) /\ Numbered(fs)
  <2>1. /\ \A i \in 1..n : es[i] = EntryHash(es[i])
        /\ \A i \in 1..n : es[i].index = i - 1
    BY DEF Chained, Recorded, Numbered, n
  <2> QED
    BY <1>1, <1>2, <1>4, <2>1 DEF Recorded, Numbered
<1>6. ChainIntact(fs)
  <2> SUFFICES ASSUME NEW i \in 1..(n + 1)
               PROVE  fs[i].prev = IF i = 1 THEN Zero ELSE EntryHash(fs[i - 1])
    BY <1>1 DEF ChainIntact
  <2>1. CASE i = n + 1
    <3>1. CASE n = 0
      BY <1>1, <1>2, <1>3, <2>1, <3>1
    <3>2. CASE n # 0
      <4>1. n \in 1..n /\ i # 1 /\ i - 1 = n
        BY <1>1, <2>1, <3>2
      <4> QED
        BY <1>1, <1>2, <1>3, <2>1, <3>2, <4>1
    <3> QED
      BY <3>1, <3>2
  <2>2. CASE i \in 1..n
    <3>1. es[i].prev = IF i = 1 THEN Zero ELSE EntryHash(es[i - 1])
      BY <2>2 DEF Chained, ChainIntact, n
    <3> QED
      BY <1>1, <1>4, <2>2, <3>1
  <2> QED
    BY <1>1, <1>4, <2>1, <2>2
<1> QED
  BY <1>1, <1>5, <1>6 DEF Chained, fs, h

\* What the thread has read is still so, and what it renders is what there is.
ThreadCurrent(w) ==
  /\ thread[w].at \in {"index", "append"} => thread[w].prev = LastHash
  /\ thread[w].at = "append" => thread[w].index = Len(entries)
  /\ thread[w].at = "close" => Chained(thread[w].buffer)

OneWriter ==
  /\ thread = [w \in Workers |-> thread[w]]
  /\ Chained(entries)
  /\ Chained(file)
  /\ \A w \in Workers : ThreadCurrent(w)

\* With one thread in submit() the ledger is a chain, and numbered, in memory
\* and in the file, whatever restarts come between two of its steps: the
\* chain check finds nothing (tlog.py append, _save, __init__).
THEOREM OneWriterChained ==
  ASSUME \A v, w \in Workers : v = w
  PROVE  LSpec => [](UntamperedChainIntact /\ ChainIntact(file))
<1>1. Chained(<< >>)
  BY DEF Chained, IsSequence, Recorded, Numbered, ChainIntact, Range
<1>2. LInit => OneWriter
  BY <1>1 DEF LInit, OneWriter, ThreadCurrent, Idle
<1>3. ASSUME OneWriter, [LNext]_lvars
      PROVE  OneWriter'
  <2> USE <1>3 DEF OneWriter
  <2>1. ASSUME NEW w \in Workers, ReadPrev(w)
        PROVE  OneWriter'
    BY <2>1 DEF ReadPrev, ThreadCurrent, LastHash
  <2>2. ASSUME NEW w \in Workers, ReadIndex(w)
        PROVE  OneWriter'
    BY <2>2 DEF ReadIndex, ThreadCurrent, LastHash
  <2>3. ASSUME NEW w \in Workers, AppendEntry(w)
        PROVE  OneWriter'
    <3>1. Chained(entries')
      BY <2>3, AppendKeepsChain DEF AppendEntry, ThreadCurrent, LastHash
    <3> QED
      BY <2>3, <3>1 DEF AppendEntry, ThreadCurrent
  <2>4. ASSUME NEW w \in Workers, OpenFile(w)
        PROVE  OneWriter'
    BY <1>1, <2>4 DEF OpenFile, Unreadable, ThreadCurrent
  <2>5. ASSUME NEW w \in Workers, DumpEntries(w)
        PROVE  OneWriter'
    BY <2>5 DEF DumpEntries, ThreadCurrent
  <2>6. ASSUME NEW w \in Workers, CloseFile(w)
        PROVE  OneWriter'
    BY <1>1, <2>6 DEF CloseFile, Unreadable, ThreadCurrent, Idle
  <2>7. CASE Restart
    BY <2>7 DEF Restart, ThreadCurrent, Idle
  <2>8. CASE UNCHANGED lvars
    BY <2>8 DEF lvars, ThreadCurrent, LastHash
  <2> QED
    BY <1>3, <2>1, <2>2, <2>3, <2>4, <2>5, <2>6, <2>7, <2>8 DEF LNext
<1>4. OneWriter => UntamperedChainIntact /\ ChainIntact(file)
  BY DEF OneWriter, Chained, UntamperedChainIntact
<1> QED
  BY <1>2, <1>3, <1>4, PTL DEF LSpec
=============================================================================
