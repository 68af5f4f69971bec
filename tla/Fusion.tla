------------------------------- MODULE Fusion -------------------------------
(***************************************************************************)
(* Reciprocal rank fusion (fusion.rs): one ranking out of two lists of row *)
(* ids, with the rank each hit held in either list.                        *)
(*                                                                         *)
(* A score is a sum of fractions 1 / (k + rank).  Here it is exact: the    *)
(* numerator over the common denominator of all ranks in use.  What the    *)
(* rounding of f32 may do to scores that are nearly equal is left out.     *)
(***************************************************************************)
EXTENDS Integers, Sequences, FiniteSets

CONSTANTS
  DEFAULT_K,               \* k for a corpus of the usual size
  SMALL_CORPUS_K,          \* k for a small one
  SMALL_CORPUS_THRESHOLD   \* the number of documents that is no longer small

ASSUME FusionAssumption ==
  /\ DEFAULT_K \in Nat /\ SMALL_CORPUS_K \in Nat
  /\ SMALL_CORPUS_THRESHOLD \in Nat

\* k is chosen from the size of the corpus, not from the lengths of the lists.
EffectiveK(documents) ==
  IF documents < SMALL_CORPUS_THRESHOLD THEN SMALL_CORPUS_K ELSE DEFAULT_K

\* The common denominator of 1 / (k + r) for the ranks r up to n.
Denominator(k, n) ==
  LET product[r \in 0..n] == IF r = 0 THEN 1 ELSE product[r - 1] * (k + r)
  IN product[n]

\* Mutant: ranks count from zero.
ShareFromZero(k, rank, n) == Denominator(k, n) \div (k + rank - 1)

\* What a place at this rank adds to the score.
Share(k, rank, n) == Denominator(k, n) \div (k + rank)

NoHits == [row \in {} |-> 0]

\* A hit that neither list has placed: rank 0 stands for no rank.
Unplaced == [score |-> 0, vector_rank |-> 0, lexical_rank |-> 0]

\* Mutant: a row that is a hit already keeps the score it has.
PlacedOnce(hits, row, side, rank, share) ==
  [r \in DOMAIN hits \cup {row} |->
     LET hit == IF r \in DOMAIN hits THEN hits[r] ELSE Unplaced
     IN IF r # row THEN hit
        ELSE [hit EXCEPT !.score = IF @ = 0 THEN share ELSE @, ![side] = rank]]

\* The row at one position of a list becomes a hit, or adds to the hit it is.
Placed(hits, row, side, rank, share) ==
  [r \in DOMAIN hits \cup {row} |->
     LET hit == IF r \in DOMAIN hits THEN hits[r] ELSE Unplaced
     IN IF r # row THEN hit
        ELSE [hit EXCEPT !.score = @ + share, ![side] = rank]]

\* contribute: every position of a list, in order.
Contribute(hits, list, side, k, n) ==
  LET after[i \in 0..Len(list)] ==
        IF i = 0 THEN hits
        ELSE Placed(after[i - 1], list[i], side, i, Share(k, i, n))
  IN after[Len(list)]

Longest(s, t) == IF Len(s) > Len(t) THEN Len(s) ELSE Len(t)

\* The hits of both lists, from row to score and ranks.
Hits(vector, lexical, k) ==
  LET n == Longest(vector, lexical)
  IN Contribute(Contribute(NoHits, vector, "vector_rank", k, n),
                lexical, "lexical_rank", k, n)

\* The order of the ranking: by score, and by row id where scores tie.
Ahead(hits, a, b) ==
  hits[a].score > hits[b].score \/ (hits[a].score = hits[b].score /\ a < b)

\* The rows in that order: before the row at place p there are p - 1 others.
Ranking(hits) ==
  [p \in 1..Cardinality(DOMAIN hits) |->
     CHOOSE row \in DOMAIN hits :
       Cardinality({o \in DOMAIN hits \ {row} : Ahead(hits, o, row)}) = p - 1]

\* Mutant: the whole ranking is returned.
TruncatedNever(s, limit) == s

Truncated(s, limit) == SubSeq(s, 1, IF limit < Len(s) THEN limit ELSE Len(s))

\* fuse
Fuse(vector, lexical, documents, limit) ==
  LET k == EffectiveK(documents)
      hits == Hits(vector, lexical, k)
      rows == Truncated(Ranking(hits), limit)
  IN [rows |-> rows, hits |-> [p \in 1..Len(rows) |-> hits[rows[p]]],
      effective_k |-> k]

-----------------------------------------------------------------------------
(* What is said of a fused ranking. *)

Distinct(s) == \A i, j \in 1..Len(s) : s[i] = s[j] => i = j

Members(s) == {s[i] : i \in 1..Len(s)}

Position(s, row) == CHOOSE i \in 1..Len(s) : s[i] = row

\* The formula of AC-37: the sum over the lists that hold the row.
FormulaScore(vector, lexical, k, row) ==
  LET n == Longest(vector, lexical)
      part(s) == IF row \in Members(s)
                 THEN Denominator(k, n) \div (k + Position(s, row)) ELSE 0
  IN part(vector) + part(lexical)

\* The scores of f are those of the formula, the ranks it reports are places of
\* the row, and the ranking is by score, equal scores by row id.
ByFormula(vector, lexical, f) ==
  LET score(row) == FormulaScore(vector, lexical, f.effective_k, row) IN
  /\ \A p \in DOMAIN f.rows :
       /\ f.hits[p].score = score(f.rows[p])
       /\ f.hits[p].vector_rank > 0 => vector[f.hits[p].vector_rank] = f.rows[p]
       /\ f.hits[p].lexical_rank > 0 => lexical[f.hits[p].lexical_rank] = f.rows[p]
  /\ \A p \in DOMAIN f.rows :
       \A other \in (Members(vector) \cup Members(lexical)) \ {f.rows[n] : n \in 1..p} :
         \/ score(f.rows[p]) > score(other)
         \/ score(f.rows[p]) = score(other) /\ f.rows[p] < other

\* A row that both lists place no lower than k + 1 comes before every row that
\* has one place in one of them, however high.
BothFirst(vector, lexical, f) ==
  LET high(s, row) == row \in Members(s) /\ Position(s, row) <= f.effective_k + 1
      places(row) == {<<1, i>> : i \in {n \in DOMAIN vector : vector[n] = row}} \cup
                     {<<2, i>> : i \in {n \in DOMAIN lexical : lexical[n] = row}}
  IN \A p \in DOMAIN f.rows :
       Cardinality(places(f.rows[p])) = 1 =>
         \A both \in {x \in Members(vector) : high(vector, x) /\ high(lexical, x)} :
           \E n \in 1..p : f.rows[n] = both
=============================================================================
