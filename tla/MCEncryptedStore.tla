-------------------------- MODULE MCEncryptedStore --------------------------
(* Small instances of the encrypting object store. *)
EXTENDS EncryptedStore, TLC

OneHandle == {"h1"}
OnePath == {"a"}

\* Handles differ only in the frame they keep, and paths in what is stored there.
Interchangeable == Permutations(Handles) \cup Permutations(Paths)

\* Pieces of one, two and three bytes; blocks hold two.
SmallParts == {<<1>>, <<2, 3>>, <<4, 5, 6>>}
\* Objects of one and of two full blocks, for exchanges and copies.
WholeBlocks == {<<1, 2>>, <<3, 4, 5, 6>>}

Range(kind, from, to) == [kind |-> kind, from |-> from, to |-> to]
All == Range("all", 0, 0)
SomeRanges ==
  {All, Range("bounded", 1, 2), Range("bounded", 2, 9), Range("offset", 3, 0),
   Range("suffix", 2, 0)}
TwoRanges == {All, Range("bounded", 1, 3)}
JustAll == {All}
=============================================================================
