---------------------------- MODULE FrameLayout ----------------------------
(***************************************************************************)
(* Where the bytes of a sealed object are (frame.rs): a header, then the   *)
(* plaintext in blocks of fixed size, each with its nonce and tag, the     *)
(* last one always shorter than a full one.  All offsets and lengths count *)
(* bytes.                                                                  *)
(***************************************************************************)
EXTENDS Integers

CONSTANTS
  BlockSize,       \* plaintext bytes per block
  HEADER_LEN,      \* bytes of the header
  BLOCK_OVERHEAD   \* bytes of a nonce and a tag

ASSUME LayoutAssumption ==
  /\ BlockSize \in Nat \ {0}
  /\ HEADER_LEN \in Nat \ {0}
  /\ BLOCK_OVERHEAD \in Nat \ {0}

Least(a, b) == IF a <= b THEN a ELSE b
Greatest(a, b) == IF a <= b THEN b ELSE a

SealedBlockLen == BlockSize + BLOCK_OVERHEAD

\* Bytes that n plaintext bytes occupy once sealed.
CiphertextLen(n) ==
  HEADER_LEN + (n \div BlockSize) * SealedBlockLen + (n % BlockSize) + BLOCK_OVERHEAD

\* plaintext_len accepts this length; all others are reported as truncated.
WholeObject(c) ==
  /\ c >= HEADER_LEN
  /\ (c - HEADER_LEN) % SealedBlockLen >= BLOCK_OVERHEAD

\* Mutant: the size on disk is reported as it is.
PlaintextLenOnDisk(c) == c

\* The plaintext bytes in a sealed object of c bytes.
PlaintextLen(c) ==
  ((c - HEADER_LEN) \div SealedBlockLen) * BlockSize
    + ((c - HEADER_LEN) % SealedBlockLen) - BLOCK_OVERHEAD

\* The first block that holds a byte of a range, and the block after the last.
FirstBlock(from) == from \div BlockSize
BlockAfter(from, to) ==
  Greatest((to + BlockSize - 1) \div BlockSize, FirstBlock(from) + 1)

\* The sealed bytes to fetch for the plaintext bytes from..to-1 of `total'.
SpanStart(from) == HEADER_LEN + FirstBlock(from) * SealedBlockLen

SpanEnd(from, to, total) ==
  Greatest(SpanStart(from),
           Least(HEADER_LEN + BlockAfter(from, to) * SealedBlockLen, CiphertextLen(total)))
=============================================================================
