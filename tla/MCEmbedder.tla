----------------------------- MODULE MCEmbedder -----------------------------
(* A small instance of the embedder: a window of 8 and a budget of 5. *)
EXTENDS Embedder

TwoThreads == {"t1", "t2"}
TwoBuckets == {4, 8}

Words(n) == [i \in 1..n |-> TRUE]
Blanks(n) == [i \in 1..n |-> FALSE]

\* Texts that fit, just fit, need a second piece for one token, fill two pieces
\* exactly, have a blank piece in the middle or at the end, and are all blank.
SomeTexts ==
  {Words(1), Words(5), Words(6), Words(10),
   Words(4) \o Blanks(6) \o Words(1), Words(1) \o Blanks(5), Blanks(7)}
=============================================================================
