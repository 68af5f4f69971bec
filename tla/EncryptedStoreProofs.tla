------------------------ MODULE EncryptedStoreProofs ------------------------
(* Proofs about the encrypting object store, for every block size, header, *)
(* overhead, keyring, set of handles and locations, and every way of       *)
(* cutting an object into parts and of asking for a range of it.           *)
EXTENDS EncryptedStore, TLAPS

-----------------------------------------------------------------------------
(* What the offsets of frame.rs satisfy for every block size, header and   *)
(* overhead: the facts a range read rests on.                              *)

\* Quotient and remainder by a positive divisor recompose the number.
LEMMA DivMod ==
  ASSUME NEW a \in Nat, NEW b \in Nat \ {0}
  PROVE  /\ a \div b \in Nat
         /\ a % b \in 0..b-1
         /\ a = (a \div b) * b + (a % b)
BY Z3

\* They are the only numbers that do.
LEMMA DivModUnique ==
  ASSUME NEW b \in Nat \ {0}, NEW q \in Nat, NEW r \in 0..b-1
  PROVE  /\ (q * b + r) \div b = q
         /\ (q * b + r) % b = r
BY Z3

\* A product of natural numbers is one.
LEMMA Product ==
  ASSUME NEW a \in Nat, NEW b \in Nat
  PROVE  a * b \in Nat
BY Z3

\* More blocks take at least as many bytes.
LEMMA Monotone ==
  ASSUME NEW a \in Nat, NEW b \in Nat, NEW c \in Nat, a <= b
  PROVE  a * c <= b * c
BY Z3

\* A block more takes a block's bytes more.
LEMMA OneMore ==
  ASSUME NEW a \in Nat, NEW c \in Nat
  PROVE  (a + 1) * c = a * c + c
BY Z3

\* The size that head and list report is the size that was stored: what
\* plaintext_len computes from the length on disk undoes what sealing did to
\* the length, for every length and every layout, and never reports an intact
\* object as truncated.
THEOREM LengthsInverse ==
  ASSUME NEW n \in Nat
  PROVE  /\ WholeObject(CiphertextLen(n))
         /\ PlaintextLen(CiphertextLen(n)) = n
<1> DEFINE q == n \div BlockSize
           r == n % BlockSize
           body == q * SealedBlockLen + (r + BLOCK_OVERHEAD)
<1>1. /\ q \in Nat /\ r \in 0..BlockSize-1
      /\ n = q * BlockSize + r
  BY DivMod, LayoutAssumption
<1>2. SealedBlockLen \in Nat \ {0} /\ r + BLOCK_OVERHEAD \in 0..SealedBlockLen-1
  BY <1>1, LayoutAssumption DEF SealedBlockLen
<1>3. q * SealedBlockLen \in Nat
  BY <1>1, <1>2, Product
<1>4. body \in Nat /\ CiphertextLen(n) = HEADER_LEN + body
  BY <1>1, <1>2, <1>3, LayoutAssumption DEF CiphertextLen
<1>5. body \div SealedBlockLen = q /\ body % SealedBlockLen = r + BLOCK_OVERHEAD
  BY <1>1, <1>2, DivModUnique
<1>6. CiphertextLen(n) - HEADER_LEN = body /\ CiphertextLen(n) >= HEADER_LEN
  BY <1>4, LayoutAssumption
<1>7. WholeObject(CiphertextLen(n))
  BY <1>1, <1>5, <1>6, LayoutAssumption DEF WholeObject
<1>8. PlaintextLen(CiphertextLen(n)) = q * BlockSize + (r + BLOCK_OVERHEAD) - BLOCK_OVERHEAD
  BY <1>5, <1>6 DEF PlaintextLen
<1>9. q * BlockSize \in Nat
  BY <1>1, Product, LayoutAssumption
<1> QED
  BY <1>1, <1>7, <1>8, <1>9, LayoutAssumption

\* The span that is fetched for a range begins at a block, lies within the
\* object, is not empty, and is made of the blocks that hold the range: the
\* first byte wanted is in the first of them, and the last byte wanted comes
\* before the end of the last.
THEOREM SpanCovers ==
  ASSUME NEW total \in Nat, NEW from \in Nat, NEW to \in Nat,
         from < to, to <= total
  PROVE  /\ SpanStart(from) \in Nat
         /\ SpanEnd(from, to, total) \in Nat
         /\ (SpanStart(from) - HEADER_LEN) % SealedBlockLen = 0
         /\ SpanStart(from) < SpanEnd(from, to, total)
         /\ SpanEnd(from, to, total) <= CiphertextLen(total)
         /\ FirstBlock(from) * BlockSize <= from
         /\ to <= BlockAfter(from, to) * BlockSize
         /\ \/ SpanEnd(from, to, total) = HEADER_LEN + BlockAfter(from, to) * SealedBlockLen
            \/ SpanEnd(from, to, total) = CiphertextLen(total)
<1> DEFINE first == FirstBlock(from)
           after == BlockAfter(from, to)
           ceil == (to + BlockSize - 1) \div BlockSize
           full == total \div BlockSize
<1>1. BlockSize \in Nat \ {0} /\ HEADER_LEN \in Nat /\ BLOCK_OVERHEAD \in Nat \ {0}
      /\ SealedBlockLen \in Nat \ {0} /\ SealedBlockLen = BlockSize + BLOCK_OVERHEAD
  BY LayoutAssumption DEF SealedBlockLen
<1>2. /\ first \in Nat /\ from % BlockSize \in 0..BlockSize-1
      /\ from = first * BlockSize + (from % BlockSize)
  BY <1>1, DivMod DEF FirstBlock
<1>3. first * BlockSize \in Nat /\ first * BlockSize <= from
  BY <1>1, <1>2, Product
<1>4. /\ ceil \in Nat /\ (to + BlockSize - 1) % BlockSize \in 0..BlockSize-1
      /\ to + BlockSize - 1 = ceil * BlockSize + ((to + BlockSize - 1) % BlockSize)
  <2>1. to + BlockSize - 1 \in Nat
    BY <1>1
  <2> QED
    BY <1>1, <2>1, DivMod
<1>5. ceil * BlockSize \in Nat /\ to <= ceil * BlockSize
  BY <1>1, <1>4, Product
<1>6. after \in Nat /\ ceil <= after /\ first + 1 <= after
  BY <1>2, <1>4 DEF BlockAfter, Greatest
<1>7. to <= after * BlockSize
  <2>1. ceil * BlockSize <= after * BlockSize
    BY <1>1, <1>4, <1>6, Monotone
  <2>2. after * BlockSize \in Nat
    BY <1>1, <1>6, Product
  <2> QED
    BY <1>5, <2>1, <2>2
<1>8. /\ full \in Nat /\ total % BlockSize \in 0..BlockSize-1
      /\ total = full * BlockSize + (total % BlockSize)
  BY <1>1, DivMod
<1>9. /\ full * SealedBlockLen \in Nat
      /\ CiphertextLen(total) = HEADER_LEN + full * SealedBlockLen + (total % BlockSize) + BLOCK_OVERHEAD
  BY <1>1, <1>8, Product DEF CiphertextLen
<1>10. first <= full
  <2>1. SUFFICES ASSUME full + 1 <= first
                 PROVE  FALSE
    BY <1>2, <1>8
  <2>2. (full + 1) * BlockSize <= first * BlockSize
    BY <1>1, <1>2, <1>8, <2>1, Monotone
  <2>3. (full + 1) * BlockSize = full * BlockSize + BlockSize
    BY <1>1, <1>8, OneMore
  <2>4. full * BlockSize \in Nat
    BY <1>1, <1>8, Product
  <2> QED
    BY <1>1, <1>3, <1>8, <2>2, <2>3, <2>4
<1>11. /\ first * SealedBlockLen \in Nat
       /\ first * SealedBlockLen <= full * SealedBlockLen
       /\ SpanStart(from) = HEADER_LEN + first * SealedBlockLen
  BY <1>1, <1>2, <1>8, <1>10, Product, Monotone DEF SpanStart
<1>12. SpanStart(from) \in Nat /\ SpanStart(from) < CiphertextLen(total)
  BY <1>1, <1>8, <1>9, <1>11
<1>13. (SpanStart(from) - HEADER_LEN) % SealedBlockLen = 0
  <2>1. (first * SealedBlockLen + 0) % SealedBlockLen = 0
    BY <1>1, <1>2, DivModUnique
  <2> QED
    BY <1>1, <1>11, <2>1
<1>14. /\ after * SealedBlockLen \in Nat
       /\ first * SealedBlockLen + SealedBlockLen <= after * SealedBlockLen
  <2>1. (first + 1) * SealedBlockLen <= after * SealedBlockLen
    BY <1>1, <1>2, <1>6, Monotone
  <2>2. (first + 1) * SealedBlockLen = first * SealedBlockLen + SealedBlockLen
    BY <1>1, <1>2, OneMore
  <2> QED
    BY <1>1, <1>6, <2>1, <2>2, Product
<1>15. SpanStart(from) < HEADER_LEN + after * SealedBlockLen
  BY <1>1, <1>11, <1>14
<1>16. CiphertextLen(total) \in Nat
  BY <1>1, <1>8, <1>9
<1>17. SpanEnd(from, to, total) =
         IF HEADER_LEN + after * SealedBlockLen <= CiphertextLen(total)
         THEN HEADER_LEN + after * SealedBlockLen ELSE CiphertextLen(total)
  BY <1>1, <1>12, <1>14, <1>15, <1>16 DEF SpanEnd, Greatest, Least
<1> QED
  BY <1>1, <1>3, <1>7, <1>12, <1>13, <1>14, <1>15, <1>16, <1>17

-----------------------------------------------------------------------------
(* The shape of sealed bytes, byte by byte. *)

HeaderCell(key, j) == [kind |-> "header", key |-> key, at |-> j]

BlockCell(key, i, final, piece, j) ==
  [kind |-> "block", key |-> key, at |-> j, plain |-> piece, aad |-> <<key, i, final>>]

\* These cells are `plain' sealed under this key: the header, then block after
\* block, each byte at its place, only the last block marked as final.
IsSealed(o, key, plain) ==
  /\ Len(o) = CiphertextLen(Len(plain))
  /\ \A j \in 1..HEADER_LEN : o[j] = HeaderCell(key, j)
  /\ \A i \in 0..Len(plain) \div BlockSize, j \in 1..SealedBlockLen :
       HEADER_LEN + i * SealedBlockLen + j <= Len(o) =>
         o[HEADER_LEN + i * SealedBlockLen + j] =
           BlockCell(key, i, i = Len(plain) \div BlockSize, Chunk(plain, i), j)

\* These cells are the header and the first n blocks of `plain', full ones,
\* none of them final.
Leading(o, key, plain, n) ==
  /\ Len(o) = HEADER_LEN + n * SealedBlockLen
  /\ \A j \in 1..HEADER_LEN : o[j] = HeaderCell(key, j)
  /\ \A i \in 0..n-1, j \in 1..SealedBlockLen :
       o[HEADER_LEN + i * SealedBlockLen + j] = BlockCell(key, i, FALSE, Chunk(plain, i), j)

\* These bytes are the end of `plain' from block n on.
Rest(pending, plain, n) ==
  /\ Len(plain) = n * BlockSize + Len(pending)
  /\ \A k \in 1..Len(pending) : pending[k] = plain[n * BlockSize + k]

\* What an upload has sent is the header and the full blocks of what it was
\* given, numbered from 0, and it has kept the rest.
Begun(u, key) ==
  /\ IF u.header_sent THEN Leading(u.sent, key, u.given, u.next_index)
                      ELSE u.sent = <<>> /\ u.next_index = 0
  /\ Rest(u.pending, u.given, u.next_index)

\* A cell that is still part of a block is part of the block of `plain' that
\* its associated data names, wherever it is now.
Genuine(cell, plain) ==
  cell.kind = "block" =>
    /\ cell.aad[2] <= Len(plain) \div BlockSize
    /\ cell.aad[3] = (cell.aad[2] = Len(plain) \div BlockSize)
    /\ cell.plain = Chunk(plain, cell.aad[2])

-----------------------------------------------------------------------------
(* The inductive invariant. *)

\* Frames are earlier states of the keyring, which never loses a key; only an
\* open handle has a result.
KeysGrow ==
  /\ ring.keys = 1..ring.current
  /\ \A h \in Handles : frame[h] # None => frame[h].keys \subseteq ring.keys
  /\ \A h \in Handles : frame[h] = None => result[h] = None

\* An object nothing has altered is its content, sealed under a kept key.
Whole ==
  \A p \in intact : \E key \in ring.keys : IsSealed(objects[p], key, content[p])

\* Any object, damaged or not, holds only blocks of its content, and no more
\* bytes than sealing it takes.
Remains ==
  \A p \in Paths : objects[p] # None =>
    /\ Len(objects[p]) <= CiphertextLen(Len(content[p]))
    /\ \A c \in 1..Len(objects[p]) : Genuine(objects[p][c], content[p])

Uploading ==
  \A h \in Handles : upload[h] # None => Begun(upload[h], frame[h].current)

\* A read that has begun fetches the blocks of its range; as long as nothing
\* has touched the object, they were worked out from its true length.
Reading ==
  \A h \in Handles : read[h] # None =>
    LET g == read[h]
        n == Len(content[g.path])
    IN /\ g.start = SpanStart(g.from)
       /\ g.steady => objects[g.path] # None
       /\ g.steady /\ g.path \in intact =>
            /\ g.from = WantedFrom(g.range, n) /\ g.to = WantedTo(g.range, n)
            /\ g.end = SpanEnd(g.from, g.to, n)

StoreInv ==
  /\ TypeOK /\ KeysGrow /\ Whole /\ Remains /\ Uploading /\ Reading
  /\ ReadsAreAuthentic /\ ReadsSucceed

-----------------------------------------------------------------------------
(* Arithmetic of blocks. *)

\* The lengths of the layout are positive numbers.
LEMMA Layout ==
  /\ BlockSize \in Nat \ {0} /\ HEADER_LEN \in Nat \ {0} /\ BLOCK_OVERHEAD \in Nat \ {0}
  /\ SealedBlockLen \in Nat \ {0} /\ SealedBlockLen = BlockSize + BLOCK_OVERHEAD
BY LayoutAssumption DEF SealedBlockLen

\* A block before the n-th ends where the n-th begins or earlier.
LEMMA Before ==
  ASSUME NEW i \in Nat, NEW n \in Nat, NEW c \in Nat, i < n
  PROVE  i * c \in Nat /\ n * c \in Nat /\ i * c + c <= n * c
<1>1. (i + 1) * c <= n * c
  BY Monotone
<1>2. (i + 1) * c = i * c + c
  BY OneMore
<1> QED
  BY <1>1, <1>2, Product

\* Conversely, what begins before the end of n blocks is in one of them.
LEMMA Within ==
  ASSUME NEW i \in Nat, NEW n \in Nat, NEW c \in Nat, i * c < n * c
  PROVE  i < n
<1>1. i * c \in Nat /\ n * c \in Nat
  BY Product
<1>2. CASE n <= i
  BY <1>1, <1>2, Monotone
<1> QED
  BY <1>2

\* Blocks are counted on where the earlier ones end.
LEMMA Onward ==
  ASSUME NEW a \in Nat, NEW b \in Nat, NEW c \in Nat
  PROVE  (a + b) * c = a * c + b * c
BY Z3

-----------------------------------------------------------------------------
(* Pieces, blocks and objects. *)

\* A piece holds the bytes of its block, up to the end of the plaintext.
LEMMA ChunkFacts ==
  ASSUME NEW plain \in Plaintexts, NEW i \in Nat, i * BlockSize <= Len(plain)
  PROVE  /\ Chunk(plain, i) \in Plaintexts
         /\ Len(Chunk(plain, i)) = Least(BlockSize, Len(plain) - i * BlockSize)
         /\ \A j \in 1..Len(Chunk(plain, i)) : Chunk(plain, i)[j] = plain[i * BlockSize + j]
<1>1. i * BlockSize \in Nat /\ Len(plain) \in Nat /\ (i + 1) * BlockSize = i * BlockSize + BlockSize
  BY Layout, Product, OneMore DEF Plaintexts
<1> DEFINE s == i * BlockSize
           e == Least(s + BlockSize, Len(plain))
<1>2. Chunk(plain, i) = SubSeq(plain, s + 1, e)
  BY <1>1 DEF Chunk
<1>2a. s \in Nat /\ s <= Len(plain)
  BY <1>1
<1> HIDE DEF s
<1>3. s \in Nat /\ e \in Nat /\ s <= e /\ e <= Len(plain) /\ e - s = Least(BlockSize, Len(plain) - s)
  BY <1>1, <1>2a, Layout DEF Least
<1> HIDE DEF e
<1>4. /\ SubSeq(plain, s + 1, e) \in Seq(Bytes)
      /\ Len(SubSeq(plain, s + 1, e)) = e - s
      /\ \A j \in 1..e-s : SubSeq(plain, s + 1, e)[j] = plain[s + j]
  BY <1>3 DEF Plaintexts
<1> QED
  BY <1>2, <1>3, <1>4 DEF s, Plaintexts

\* The byte of a sealed block is a cell.
LEMMA BlockCells ==
  ASSUME NEW key \in Keys, NEW i \in Nat, NEW final \in BOOLEAN,
         NEW piece \in Plaintexts, NEW j \in Nat
  PROVE  BlockCell(key, i, final, piece, j) \in Cells
BY DEF BlockCell, Cells

\* A sealed block holds its cells in order.
LEMMA SealBlockFacts ==
  ASSUME NEW key \in Keys, NEW i \in Nat, NEW final \in BOOLEAN, NEW piece \in Plaintexts
  PROVE  /\ SealBlock(key, i, final, piece) \in Objects
         /\ Len(SealBlock(key, i, final, piece)) = Len(piece) + BLOCK_OVERHEAD
         /\ \A j \in 1..Len(piece) + BLOCK_OVERHEAD :
              SealBlock(key, i, final, piece)[j] = BlockCell(key, i, final, piece, j)
<1>1. Len(piece) + BLOCK_OVERHEAD \in Nat
  BY Layout DEF Plaintexts
<1>2. \A j \in Nat : BlockCell(key, i, final, piece, j) \in Cells
  BY BlockCells, Zenon
<1>3. SealBlock(key, i, final, piece) =
        [j \in 1..Len(piece) + BLOCK_OVERHEAD |-> BlockCell(key, i, final, piece, j)]
  BY DEF SealBlock, BlockCell, AssociatedData
<1> DEFINE n == Len(piece) + BLOCK_OVERHEAD
           C(j) == BlockCell(key, i, final, piece, j)
<1> HIDE DEF n, C
<1>4. /\ [j \in 1..n |-> C(j)] \in Seq(Cells)
      /\ Len([j \in 1..n |-> C(j)]) = n
  BY <1>1, <1>2 DEF n, C
<1> QED
  BY <1>3, <1>4 DEF Objects, n, C

\* The header is as many cells, and names the frame's current key.
LEMMA HeaderFacts ==
  ASSUME NEW f \in Frames
  PROVE  /\ Header(f) \in Objects
         /\ Len(Header(f)) = HEADER_LEN
         /\ \A j \in 1..HEADER_LEN : Header(f)[j] = HeaderCell(f.current, j)
<1>1. f.current \in Keys /\ f.current \in 0..MaxKeys
  BY BoundsAssumption DEF Frames, Keys
<1>2. \A j \in Nat : HeaderCell(f.current, j) \in Cells
  BY <1>1 DEF HeaderCell, Cells
<1>3. Header(f) = [j \in 1..HEADER_LEN |-> HeaderCell(f.current, j)]
  BY DEF Header, HeaderCell
<1> DEFINE C(j) == HeaderCell(f.current, j)
<1> HIDE DEF C
<1>4. /\ [j \in 1..HEADER_LEN |-> C(j)] \in Seq(Cells)
      /\ Len([j \in 1..HEADER_LEN |-> C(j)]) = HEADER_LEN
  BY <1>2, Layout DEF C
<1> QED
  BY <1>3, <1>4 DEF Objects, C

\* Full blocks follow each other, each sealed under its own number.
LEMMA FullBlocksFacts ==
  ASSUME NEW f \in Frames, NEW first \in Nat, NEW plain \in Plaintexts,
         NEW n \in Nat, n * BlockSize <= Len(plain)
  PROVE  /\ FullBlocks(f, first, plain, n) \in Objects
         /\ Len(FullBlocks(f, first, plain, n)) = n * SealedBlockLen
         /\ \A i \in 0..n-1, j \in 1..SealedBlockLen :
              FullBlocks(f, first, plain, n)[i * SealedBlockLen + j] =
                BlockCell(f.current, first + i, FALSE, Chunk(plain, i), j)
<1>0. f.current \in Keys
  BY DEF Frames
<1>1. n * SealedBlockLen \in Nat
  BY Layout, Product
<1>2. ASSUME NEW i \in Nat, i < n
      PROVE  /\ Chunk(plain, i) \in Plaintexts
             /\ Len(Chunk(plain, i)) = BlockSize
             /\ \A j \in 1..SealedBlockLen :
                  /\ SealBlock(f.current, first + i, FALSE, Chunk(plain, i))[j] =
                       BlockCell(f.current, first + i, FALSE, Chunk(plain, i), j)
                  /\ BlockCell(f.current, first + i, FALSE, Chunk(plain, i), j) \in Cells
  <2>1. i * BlockSize \in Nat /\ i * BlockSize + BlockSize <= n * BlockSize /\ n * BlockSize \in Nat
    BY <1>2, Layout, Before
  <2>2. Len(plain) \in Nat
    BY DEF Plaintexts
  <2>3. Chunk(plain, i) \in Plaintexts /\ Len(Chunk(plain, i)) = BlockSize
    <3> DEFINE s == i * BlockSize
               e == n * BlockSize
    <3>1. s \in Nat /\ e \in Nat /\ s + BlockSize <= e /\ e <= Len(plain)
      BY <2>1, <2>2
    <3>2. s <= Len(plain) => /\ Chunk(plain, i) \in Plaintexts
                             /\ Len(Chunk(plain, i)) = Least(BlockSize, Len(plain) - s)
      BY ChunkFacts
    <3> HIDE DEF s, e
    <3> QED
      BY <3>1, <3>2, <2>2, Layout DEF Least
  <2>3a. first + i \in Nat
    OBVIOUS
  <2>4. \A j \in 1..BlockSize + BLOCK_OVERHEAD :
          SealBlock(f.current, first + i, FALSE, Chunk(plain, i))[j] =
             BlockCell(f.current, first + i, FALSE, Chunk(plain, i), j)
    BY <1>0, <2>3, <2>3a, SealBlockFacts, Zenon
  <2>5. \A j \in 1..SealedBlockLen :
          BlockCell(f.current, first + i, FALSE, Chunk(plain, i), j) \in Cells
    <3> TAKE j \in 1..SealedBlockLen
    <3>1. j \in Nat
      BY Layout
    <3> QED
      BY <1>0, <2>3, <2>3a, <3>1, BlockCells, Zenon
  <2> QED
    BY <2>3, <2>4, <2>5, Layout
<1> DEFINE Q(c) == (c - 1) \div SealedBlockLen
           R(c) == ((c - 1) % SealedBlockLen) + 1
           B(c) == SealBlock(f.current, first + Q(c), FALSE, Chunk(plain, Q(c)))[R(c)]
<1>3. FullBlocks(f, first, plain, n) = [c \in 1..n * SealedBlockLen |-> B(c)]
  BY DEF FullBlocks
<1>4. ASSUME NEW c \in 1..n * SealedBlockLen
      PROVE  Q(c) \in Nat /\ Q(c) < n /\ R(c) \in 1..SealedBlockLen
  <2>1. c - 1 \in Nat
    BY <1>1
  <2>2. /\ Q(c) \in Nat /\ (c - 1) % SealedBlockLen \in 0..SealedBlockLen-1
        /\ c - 1 = Q(c) * SealedBlockLen + ((c - 1) % SealedBlockLen)
    BY <2>1, DivMod, Layout
  <2>3. Q(c) * SealedBlockLen \in Nat
    BY <2>2, Product, Layout
  <2>4. Q(c) * SealedBlockLen < n * SealedBlockLen
    BY <1>1, <2>2, <2>3
  <2>5. Q(c) < n
    BY <2>2, <2>4, Within, Layout
  <2> QED
    BY <2>2, <2>5, Layout
<1>5. \A c \in 1..n * SealedBlockLen : B(c) \in Cells
  <2> TAKE c \in 1..n * SealedBlockLen
  <2> HIDE DEF Q, R
  <2> QED
    BY <1>2, <1>4
<1>6. ASSUME NEW i \in 0..n-1, NEW j \in 1..SealedBlockLen
      PROVE  /\ i * SealedBlockLen + j \in 1..n * SealedBlockLen
             /\ B(i * SealedBlockLen + j) = BlockCell(f.current, first + i, FALSE, Chunk(plain, i), j)
  <2>1. i * SealedBlockLen \in Nat /\ i * SealedBlockLen + SealedBlockLen <= n * SealedBlockLen
    BY <1>6, Before, Layout
  <2>2. i * SealedBlockLen + j \in 1..n * SealedBlockLen
    BY <2>1, <1>1, Layout
  <2>3. (i * SealedBlockLen + j) - 1 = i * SealedBlockLen + (j - 1)
    BY <2>1, Layout
  <2>4. /\ (i * SealedBlockLen + (j - 1)) \div SealedBlockLen = i
        /\ (i * SealedBlockLen + (j - 1)) % SealedBlockLen = j - 1
    <3> DEFINE k == j - 1
    <3>1. k \in 0..SealedBlockLen - 1 /\ i \in Nat /\ SealedBlockLen \in Nat \ {0}
      BY Layout
    <3> HIDE DEF k
    <3>2. /\ (i * SealedBlockLen + k) \div SealedBlockLen = i
          /\ (i * SealedBlockLen + k) % SealedBlockLen = k
      BY <3>1, DivModUnique, Zenon
    <3> QED
      BY <3>2, Zenon DEF k
  <2>5. Q(i * SealedBlockLen + j) = i /\ R(i * SealedBlockLen + j) = j
    BY <2>3, <2>4, Layout
  <2> HIDE DEF Q, R
  <2>6. B(i * SealedBlockLen + j) = SealBlock(f.current, first + i, FALSE, Chunk(plain, i))[j]
    BY <2>5, Zenon
  <2>7. i \in Nat /\ i < n
    OBVIOUS
  <2> QED
    BY <1>2, <2>2, <2>6, <2>7, Zenon
<1> HIDE DEF B
<1>7. /\ [c \in 1..n * SealedBlockLen |-> B(c)] \in Seq(Cells)
      /\ Len([c \in 1..n * SealedBlockLen |-> B(c)]) = n * SealedBlockLen
  BY <1>1, <1>5
<1> QED
  BY <1>3, <1>6, <1>7 DEF Objects

\* Two pieces with the same bytes are the same piece.
LEMMA SameChunk ==
  ASSUME NEW a \in Plaintexts, NEW b \in Plaintexts, NEW i \in Nat, NEW k \in Nat,
         i * BlockSize <= Len(a), k * BlockSize <= Len(b),
         Len(Chunk(a, i)) = Len(Chunk(b, k)),
         \A j \in 1..Len(Chunk(a, i)) : a[i * BlockSize + j] = b[k * BlockSize + j]
  PROVE  Chunk(a, i) = Chunk(b, k)
<1>1. /\ Chunk(a, i) \in Plaintexts /\ Chunk(b, k) \in Plaintexts
      /\ \A j \in 1..Len(Chunk(a, i)) : Chunk(a, i)[j] = a[i * BlockSize + j]
      /\ \A j \in 1..Len(Chunk(b, k)) : Chunk(b, k)[j] = b[k * BlockSize + j]
  BY ChunkFacts
<1> DEFINE s == Chunk(a, i)
           t == Chunk(b, k)
<1>2. \A j \in 1..Len(s) : s[j] = t[j]
  BY <1>1
<1>3. s \in Seq(Bytes) /\ t \in Seq(Bytes) /\ Len(s) = Len(t)
  BY <1>1 DEF Plaintexts
<1> HIDE DEF s, t
<1>4. s = t
  BY <1>2, <1>3
<1> QED
  BY <1>4 DEF s, t

\* The pieces before the n-th are full when n full ones fit.
LEMMA FullChunk ==
  ASSUME NEW plain \in Plaintexts, NEW n \in Nat, NEW i \in Nat, i < n,
         n * BlockSize <= Len(plain)
  PROVE  /\ i * BlockSize <= Len(plain) /\ Chunk(plain, i) \in Plaintexts
         /\ Len(Chunk(plain, i)) = BlockSize
         /\ i * BlockSize \in Nat /\ i * BlockSize + BlockSize <= n * BlockSize
         /\ \A j \in 1..BlockSize : i * BlockSize + j \in 1..Len(plain)
<1>1. i * BlockSize \in Nat /\ i * BlockSize + BlockSize <= n * BlockSize /\ n * BlockSize \in Nat
  BY Layout, Before
<1>2. Len(plain) \in Nat
  BY DEF Plaintexts
<1> DEFINE s == i * BlockSize
           e == n * BlockSize
<1>3. s \in Nat /\ e \in Nat /\ s + BlockSize <= e /\ e <= Len(plain)
  BY <1>1, <1>2
<1>4. s <= Len(plain) => /\ Chunk(plain, i) \in Plaintexts
                         /\ Len(Chunk(plain, i)) = Least(BlockSize, Len(plain) - s)
  BY ChunkFacts
<1> HIDE DEF s, e
<1>5. /\ s <= Len(plain) /\ Chunk(plain, i) \in Plaintexts
      /\ Len(Chunk(plain, i)) = BlockSize
      /\ s \in Nat /\ s + BlockSize <= e
      /\ \A j \in 1..BlockSize : s + j \in 1..Len(plain)
  BY <1>3, <1>4, <1>2, Layout DEF Least
<1> QED
  BY <1>5 DEF s, e

\* A header alone leads any plaintext.
LEMMA LeadingHeader ==
  ASSUME NEW f \in Frames, NEW plain
  PROVE  Leading(Header(f), f.current, plain, 0)
<1>1. 0 * SealedBlockLen = 0
  BY Layout
<1>2. Len(Header(f)) = HEADER_LEN + 0 * SealedBlockLen
  BY <1>1, HeaderFacts, Layout
<1>3. 0..0-1 = {}
  OBVIOUS
<1> QED
  BY <1>2, <1>3, HeaderFacts DEF Leading

\* What leads a plaintext still leads it when more bytes follow.
LEMMA LeadingExtends ==
  ASSUME NEW o, NEW key, NEW given \in Plaintexts, NEW more \in Plaintexts, NEW n \in Nat,
         n * BlockSize <= Len(given), Len(given) <= Len(more),
         \A k \in 1..Len(given) : more[k] = given[k],
         Leading(o, key, given, n)
  PROVE  Leading(o, key, more, n)
<1>1. ASSUME NEW i \in 0..n-1
      PROVE  Chunk(given, i) = Chunk(more, i)
  <2>1. i \in Nat /\ i < n
    OBVIOUS
  <2>2. Len(given) \in Nat /\ Len(more) \in Nat /\ n * BlockSize \in Nat
    BY Product, Layout DEF Plaintexts
  <2>3. n * BlockSize <= Len(more)
    BY <2>2
  <2>4. /\ i * BlockSize <= Len(given) /\ Len(Chunk(given, i)) = BlockSize
        /\ i * BlockSize \in Nat /\ i * BlockSize + BlockSize <= n * BlockSize
    BY <2>1, FullChunk
  <2>5. i * BlockSize <= Len(more) /\ Len(Chunk(more, i)) = BlockSize
    BY <2>1, <2>3, FullChunk
  <2>6. \A j \in 1..BlockSize : i * BlockSize + j \in 1..Len(given)
    BY <2>1, FullChunk
  <2>7. \A j \in 1..BlockSize : given[i * BlockSize + j] = more[i * BlockSize + j]
    BY <2>6, Zenon
  <2> QED
    BY <2>1, <2>4, <2>5, <2>7, SameChunk
<1> QED
  BY <1>1 DEF Leading

\* Cells put after others.
LEMMA Joined ==
  ASSUME NEW s \in Objects, NEW t \in Objects
  PROVE  /\ s \o t \in Objects
         /\ Len(s) \in Nat /\ Len(t) \in Nat
         /\ Len(s \o t) = Len(s) + Len(t)
         /\ \A c \in 1..Len(s) : (s \o t)[c] = s[c]
         /\ \A c \in 1..Len(t) : (s \o t)[Len(s) + c] = t[c]
<1>1. s \in Seq(Cells) /\ t \in Seq(Cells)
  BY DEF Objects
<1>2. Len(s) \in Nat /\ Len(t) \in Nat /\ s \o t \in Seq(Cells) /\ Len(s \o t) = Len(s) + Len(t)
  BY <1>1
<1>3. \A c \in 1..Len(s) : (s \o t)[c] = s[c]
  BY <1>1
<1>4. \A c \in 1..Len(t) : (s \o t)[Len(s) + c] = t[c]
  BY <1>1
<1> QED
  BY <1>2, <1>3, <1>4 DEF Objects

\* drain_full_blocks: the blocks it seals are the next blocks of all that was
\* given, although it numbers and cuts only what was pending.
LEMMA LeadingGrows ==
  ASSUME NEW f \in Frames, NEW o \in Objects, NEW given \in Plaintexts,
         NEW pending \in Plaintexts, NEW n \in Nat, NEW m \in Nat,
         Leading(o, f.current, given, n), Rest(pending, given, n),
         m * BlockSize <= Len(pending)
  PROVE  /\ o \o FullBlocks(f, n, pending, m) \in Objects
         /\ Leading(o \o FullBlocks(f, n, pending, m), f.current, given, n + m)
<1> DEFINE b == FullBlocks(f, n, pending, m)
           S == SealedBlockLen
<1>1. /\ b \in Objects /\ Len(b) = m * S
      /\ \A i \in 0..m-1, j \in 1..S :
           b[i * S + j] = BlockCell(f.current, n + i, FALSE, Chunk(pending, i), j)
  BY FullBlocksFacts
<1>2. /\ Len(o) = HEADER_LEN + n * S
      /\ \A j \in 1..HEADER_LEN : o[j] = HeaderCell(f.current, j)
      /\ \A i \in 0..n-1, j \in 1..S :
           o[HEADER_LEN + i * S + j] = BlockCell(f.current, i, FALSE, Chunk(given, i), j)
  BY DEF Leading
<1> HIDE DEF b
<1>3. /\ o \o b \in Objects
      /\ Len(o) \in Nat /\ Len(b) \in Nat
      /\ Len(o \o b) = Len(o) + Len(b)
      /\ \A c \in 1..Len(o) : (o \o b)[c] = o[c]
      /\ \A c \in 1..Len(b) : (o \o b)[Len(o) + c] = b[c]
  BY <1>1, Joined
<1>4. n * S \in Nat /\ m * S \in Nat /\ (n + m) * S = n * S + m * S
  BY Layout, Product, Onward
<1>5. Len(o \o b) = HEADER_LEN + (n + m) * S
  BY <1>1, <1>2, <1>3, <1>4, Layout
<1>6. ASSUME NEW j \in 1..HEADER_LEN
      PROVE  (o \o b)[j] = HeaderCell(f.current, j)
  <2>1. j \in 1..Len(o)
    BY <1>2, <1>4, Layout
  <2> QED
    BY <1>2, <1>3, <2>1
<1>7. ASSUME NEW i \in 0..(n + m) - 1, NEW j \in 1..S
      PROVE  (o \o b)[HEADER_LEN + i * S + j] = BlockCell(f.current, i, FALSE, Chunk(given, i), j)
  <2>1. CASE i < n
    <3>1. i \in 0..n-1
      BY <2>1
    <3>2. i * S \in Nat /\ i * S + S <= n * S
      BY <3>1, Before, Layout
    <3>3. HEADER_LEN + i * S + j \in 1..Len(o)
      BY <1>2, <1>4, <3>2, Layout
    <3> QED
      BY <1>2, <1>3, <3>1, <3>3
  <2>2. CASE i >= n
    <3> DEFINE k == i - n
    <3>1. k \in 0..m-1 /\ k \in Nat /\ k < m /\ i = n + k
      BY <2>2
    <3> HIDE DEF k
    <3>2. i * S = n * S + k * S /\ k * S \in Nat /\ k * S + S <= m * S
      BY <3>1, Before, Onward, Layout
    <3>3. k * S + j \in 1..Len(b) /\ HEADER_LEN + i * S + j = Len(o) + (k * S + j)
      <4> DEFINE N == n * S
                 K == k * S
                 M == m * S
                 I == i * S
      <4>1. /\ N \in Nat /\ M \in Nat /\ K \in Nat /\ I = N + K /\ K + S <= M
            /\ Len(o) = HEADER_LEN + N /\ Len(b) = M
        BY <1>1, <1>2, <1>4, <3>2
      <4> HIDE DEF N, K, M, I
      <4>2. K + j \in 1..Len(b) /\ HEADER_LEN + I + j = Len(o) + (K + j)
        BY <4>1, Layout
      <4> QED
        BY <4>2 DEF N, K, M, I
    <3>4. (o \o b)[HEADER_LEN + i * S + j] = BlockCell(f.current, n + k, FALSE, Chunk(pending, k), j)
      BY <1>1, <1>3, <3>1, <3>3
    <3>5. Chunk(pending, k) = Chunk(given, n + k)
      <4>1. (n + m) * BlockSize = n * BlockSize + m * BlockSize /\ (n + k) * BlockSize = n * BlockSize + k * BlockSize
        BY Onward, Layout, <3>1
      <4>2. n * BlockSize \in Nat /\ m * BlockSize \in Nat /\ k * BlockSize \in Nat
        BY Product, Layout, <3>1
      <4>3. Len(given) \in Nat /\ Len(pending) \in Nat /\ Len(given) = n * BlockSize + Len(pending)
        BY DEF Rest, Plaintexts
      <4>4. (n + m) * BlockSize <= Len(given)
        BY <4>1, <4>2, <4>3
      <4>5. n + k \in Nat /\ n + m \in Nat /\ n + k < n + m
        BY <3>1
      <4>6. (n + k) * BlockSize <= Len(given) /\ Len(Chunk(given, n + k)) = BlockSize
        BY <4>4, <4>5, FullChunk
      <4>7. /\ k * BlockSize <= Len(pending) /\ Len(Chunk(pending, k)) = BlockSize
            /\ \A l \in 1..BlockSize : k * BlockSize + l \in 1..Len(pending)
        BY <3>1, FullChunk
      <4>8. ASSUME NEW l \in 1..BlockSize
            PROVE  pending[k * BlockSize + l] = given[(n + k) * BlockSize + l]
        <5>1. pending[k * BlockSize + l] = given[n * BlockSize + (k * BlockSize + l)]
          BY <4>7 DEF Rest
        <5>2. n * BlockSize + (k * BlockSize + l) = (n + k) * BlockSize + l
          BY <4>1, <4>2
        <5> QED
          BY <5>1, <5>2
      <4> QED
        BY <3>1, <4>5, <4>6, <4>7, <4>8, SameChunk
    <3> QED
      BY <3>1, <3>4, <3>5
  <2>3. i < n \/ i >= n
    OBVIOUS
  <2> QED
    BY <2>1, <2>2, <2>3, Zenon
<1> QED
  BY <1>3, <1>5, <1>6, <1>7 DEF Leading, b

\* The number of full blocks, and what is left for the final one.
LEMMA FullAndRest ==
  ASSUME NEW plain \in Plaintexts
  PROVE  LET full == Len(plain) \div BlockSize IN
         /\ full \in Nat /\ full * BlockSize \in Nat /\ full * BlockSize <= Len(plain)
         /\ Len(plain) - full * BlockSize = Len(plain) % BlockSize
         /\ Len(plain) % BlockSize \in 0..BlockSize-1
         /\ Chunk(plain, full) \in Plaintexts
         /\ Len(Chunk(plain, full)) = Len(plain) % BlockSize
         /\ full * SealedBlockLen \in Nat
         /\ CiphertextLen(Len(plain)) =
              HEADER_LEN + full * SealedBlockLen + (Len(plain) % BlockSize) + BLOCK_OVERHEAD
<1> DEFINE full == Len(plain) \div BlockSize
           s == full * BlockSize
           r == Len(plain) % BlockSize
<1>1. Len(plain) \in Nat
  BY DEF Plaintexts
<1>2. full \in Nat /\ r \in 0..BlockSize-1 /\ Len(plain) = s + r
  BY <1>1, DivMod, Layout
<1>3. s \in Nat /\ full * SealedBlockLen \in Nat
  BY <1>2, Product, Layout
<1>4. CiphertextLen(Len(plain)) = HEADER_LEN + full * SealedBlockLen + r + BLOCK_OVERHEAD
  BY DEF CiphertextLen
<1>5. s <= Len(plain) => /\ Chunk(plain, full) \in Plaintexts
                         /\ Len(Chunk(plain, full)) = Least(BlockSize, Len(plain) - s)
  BY <1>2, ChunkFacts
<1> HIDE DEF full, s, r
<1>6. /\ s <= Len(plain) /\ Len(plain) - s = r /\ Chunk(plain, full) \in Plaintexts
      /\ Len(Chunk(plain, full)) = r
  BY <1>1, <1>2, <1>3, <1>5, Layout DEF Least
<1> QED
  BY <1>2, <1>3, <1>4, <1>6 DEF full, s, r

\* complete and put end the same way: the leading blocks and the rest as the
\* final block are the whole object.
LEMMA LeadingSeals ==
  ASSUME NEW key \in Keys, NEW o \in Objects, NEW plain \in Plaintexts,
         Leading(o, key, plain, Len(plain) \div BlockSize)
  PROVE  LET full == Len(plain) \div BlockSize
             all == o \o SealBlock(key, full, TRUE, Chunk(plain, full))
         IN all \in Objects /\ IsSealed(all, key, plain)
<1> DEFINE full == Len(plain) \div BlockSize
           last == Chunk(plain, full)
           b == SealBlock(key, full, TRUE, last)
           r == Len(plain) % BlockSize
           S == SealedBlockLen
           F == full * S
<1>1. /\ full \in Nat /\ F \in Nat /\ r \in 0..BlockSize-1
      /\ last \in Plaintexts /\ Len(last) = r
      /\ CiphertextLen(Len(plain)) = HEADER_LEN + F + r + BLOCK_OVERHEAD
  BY FullAndRest
<1>2. /\ Len(o) = HEADER_LEN + F
      /\ \A j \in 1..HEADER_LEN : o[j] = HeaderCell(key, j)
      /\ \A i \in 0..full-1, j \in 1..S :
           o[HEADER_LEN + i * S + j] = BlockCell(key, i, FALSE, Chunk(plain, i), j)
  BY DEF Leading
<1> HIDE DEF full, last, r
<1>3. /\ b \in Objects /\ Len(b) = r + BLOCK_OVERHEAD
      /\ \A j \in 1..r + BLOCK_OVERHEAD : b[j] = BlockCell(key, full, TRUE, last, j)
  BY <1>1, SealBlockFacts
<1> HIDE DEF b
<1>4. /\ o \o b \in Objects
      /\ Len(o \o b) = Len(o) + Len(b)
      /\ \A c \in 1..Len(o) : (o \o b)[c] = o[c]
      /\ \A c \in 1..Len(b) : (o \o b)[Len(o) + c] = b[c]
  BY <1>3, Joined
<1>5. Len(o \o b) = CiphertextLen(Len(plain))
  <2> HIDE DEF F
  <2> QED
    BY <1>1, <1>2, <1>3, <1>4, Layout
<1>6. ASSUME NEW j \in 1..HEADER_LEN
      PROVE  (o \o b)[j] = HeaderCell(key, j)
  <2>1. j \in 1..Len(o)
    <3> HIDE DEF F
    <3> QED
      BY <1>1, <1>2, Layout
  <2> QED
    BY <1>2, <1>4, <2>1
<1>7. ASSUME NEW i \in 0..full, NEW j \in 1..S,
             HEADER_LEN + i * S + j <= Len(o \o b)
      PROVE  (o \o b)[HEADER_LEN + i * S + j] = BlockCell(key, i, i = full, Chunk(plain, i), j)
  <2>1. CASE i < full
    <3>1. i \in 0..full-1 /\ i \in Nat /\ (i = full) = FALSE
      BY <1>1, <2>1
    <3>2. i * S \in Nat /\ i * S + S <= F
      BY <1>1, <2>1, <3>1, Before, Layout
    <3>3. HEADER_LEN + i * S + j \in 1..Len(o)
      <4> DEFINE I == i * S
      <4>1. I \in Nat /\ I + S <= F
        BY <3>2
      <4> HIDE DEF I, F
      <4>2. HEADER_LEN + I + j \in 1..Len(o)
        BY <4>1, <1>1, <1>2, Layout
      <4> QED
        BY <4>2 DEF I
    <3>4. (o \o b)[HEADER_LEN + i * S + j] = BlockCell(key, i, FALSE, Chunk(plain, i), j)
      BY <1>2, <1>4, <3>1, <3>3
    <3> QED
      BY <3>1, <3>4, Zenon
  <2>2. CASE i = full
    <3>1. (o \o b)[HEADER_LEN + F + j] = BlockCell(key, full, TRUE, last, j)
      <4>1. HEADER_LEN + F + j <= Len(o \o b)
        BY <1>7, <2>2
      <4> HIDE DEF F
      <4>2. j \in 1..r + BLOCK_OVERHEAD /\ HEADER_LEN + F + j = Len(o) + j
        BY <1>1, <1>2, <1>3, <1>4, <4>1, Layout
      <4> QED
        BY <1>3, <1>4, <4>2
    <3>2. (i = full) = TRUE
      BY <2>2
    <3> QED
      BY <2>2, <3>1, <3>2, Zenon DEF last, F
  <2>3. i < full \/ i = full
    BY <1>1
  <2> QED
    BY <2>1, <2>2, <2>3, Zenon
<1>8. IsSealed(o \o b, key, plain)
  BY <1>5, <1>6, <1>7 DEF IsSealed, full
<1> QED
  BY <1>4, <1>8 DEF full, last, b

\* Every place of a sealed object is in its header or in a block.
LEMMA Located ==
  ASSUME NEW n \in Nat, NEW c \in Nat, HEADER_LEN < c, c <= CiphertextLen(n)
  PROVE  \E i \in 0..n \div BlockSize, j \in 1..SealedBlockLen :
           c = HEADER_LEN + i * SealedBlockLen + j
<1> DEFINE S == SealedBlockLen
           d == c - HEADER_LEN - 1
           i == d \div S
           full == n \div BlockSize
           F == full * S
<1>1. d \in Nat
  BY Layout
<1>2. i \in Nat /\ d % S \in 0..S-1 /\ d = i * S + (d % S)
  BY <1>1, DivMod, Layout
<1>3. /\ full \in Nat /\ n % BlockSize \in 0..BlockSize-1 /\ F \in Nat
      /\ CiphertextLen(n) = HEADER_LEN + F + (n % BlockSize) + BLOCK_OVERHEAD
  BY DivMod, Product, Layout DEF CiphertextLen
<1>4. (full + 1) * S = F + S
  BY <1>3, OneMore, Layout
<1>5. i * S < (full + 1) * S
  <2> DEFINE I == i * S
             q == d % S
             e == n % BlockSize
  <2>1. I \in Nat /\ q \in 0..S-1 /\ d = I + q /\ e \in 0..BlockSize-1
        /\ CiphertextLen(n) = HEADER_LEN + F + e + BLOCK_OVERHEAD
    BY <1>2, <1>3, Product, Layout
  <2> HIDE DEF I, q, e, F
  <2>2. I < F + S
    BY <2>1, <1>3, Layout
  <2> QED
    BY <2>2, <1>4 DEF I
<1>6. i < full + 1
  BY <1>2, <1>3, <1>5, Within, Layout
<1>7. i \in 0..full /\ (d % S) + 1 \in 1..S /\ c = HEADER_LEN + i * S + ((d % S) + 1)
  <2> DEFINE I == i * S
             q == d % S
  <2>1. I \in Nat /\ q \in 0..S-1 /\ d = I + q
    BY <1>2, Product, Layout
  <2>2. i \in 0..full
    BY <1>2, <1>3, <1>6
  <2> HIDE DEF I, q
  <2>3. q + 1 \in 1..S /\ c = HEADER_LEN + I + (q + 1)
    BY <2>1, Layout
  <2> QED
    BY <2>2, <2>3 DEF I, q
<1> QED
  BY <1>7

\* Sealing is determined by the key and the plaintext.
LEMMA SealedOnce ==
  ASSUME NEW key, NEW plain \in Plaintexts, NEW o \in Objects, NEW q \in Objects,
         IsSealed(o, key, plain), IsSealed(q, key, plain)
  PROVE  o = q
<1>1. Len(plain) \in Nat /\ Len(o) \in Nat /\ Len(o) = Len(q) /\ Len(o) = CiphertextLen(Len(plain))
  BY DEF IsSealed, Objects, Plaintexts
<1>2. ASSUME NEW c \in 1..Len(o)
      PROVE  o[c] = q[c]
  <2>1. CASE c <= HEADER_LEN
    <3>1. c \in 1..HEADER_LEN
      BY <2>1, Layout
    <3> QED
      BY <3>1 DEF IsSealed
  <2>2. CASE HEADER_LEN < c
    <3>1. c \in Nat /\ c <= CiphertextLen(Len(plain))
      BY <1>1
    <3>2. PICK i \in 0..Len(plain) \div BlockSize, j \in 1..SealedBlockLen :
                 c = HEADER_LEN + i * SealedBlockLen + j
      BY <1>1, <2>2, <3>1, Located
    <3>3. HEADER_LEN + i * SealedBlockLen + j <= Len(o) /\ HEADER_LEN + i * SealedBlockLen + j <= Len(q)
      BY <1>1, <3>1, <3>2
    <3> QED
      BY <3>2, <3>3, Zenon DEF IsSealed
  <2> QED
    BY <2>1, <2>2, Layout
<1>3. o \in Seq(Cells) /\ q \in Seq(Cells) /\ Len(o) = Len(q)
  BY <1>1 DEF Objects
<1>4. \A c \in 1..Len(o) : o[c] = q[c]
  BY <1>2
<1> QED
  BY ONLY <1>3, <1>4

\* encrypt produces an object of that shape.
LEMMA SealFacts ==
  ASSUME NEW f \in Frames, NEW plain \in Plaintexts
  PROVE  Seal(f, plain) \in Objects /\ IsSealed(Seal(f, plain), f.current, plain)
<1> DEFINE full == Len(plain) \div BlockSize
<1>0. f.current \in Keys
  BY DEF Frames
<1>1. full \in Nat /\ full * BlockSize <= Len(plain) /\ Len(plain) \in Nat
  BY FullAndRest DEF Plaintexts
<1>2. Header(f) \in Objects /\ Leading(Header(f), f.current, plain, 0)
  BY HeaderFacts, LeadingHeader
<1>3. Rest(plain, plain, 0)
  <2>1. 0 * BlockSize = 0
    BY Layout
  <2>2. \A k \in 1..Len(plain) : 0 + k = k
    OBVIOUS
  <2> QED
    BY <1>1, <2>1, <2>2 DEF Rest
<1> DEFINE o == Header(f) \o FullBlocks(f, 0, plain, full)
<1>4. o \in Objects /\ Leading(o, f.current, plain, 0 + full)
  BY <1>1, <1>2, <1>3, LeadingGrows
<1>5. 0 + full = full
  BY <1>1
<1>6. Seal(f, plain) = o \o SealBlock(f.current, full, TRUE, Chunk(plain, full))
  BY DEF Seal
<1> HIDE DEF o
<1>7. Leading(o, f.current, plain, Len(plain) \div BlockSize)
  BY <1>4, <1>5
<1> QED
  BY <1>0, <1>4, <1>6, <1>7, LeadingSeals

\* Every cell of a sealed object is a genuine one.
LEMMA SealedGenuine ==
  ASSUME NEW key, NEW plain \in Plaintexts, NEW o \in Objects, IsSealed(o, key, plain)
  PROVE  \A c \in 1..Len(o) : Genuine(o[c], plain)
<1> TAKE c \in 1..Len(o)
<1>1. Len(plain) \in Nat /\ Len(o) \in Nat /\ Len(o) = CiphertextLen(Len(plain))
  BY DEF IsSealed, Objects, Plaintexts
<1>2. CASE c <= HEADER_LEN
  <2>1. c \in 1..HEADER_LEN
    BY <1>2, Layout
  <2>2. o[c] = HeaderCell(key, c)
    BY <2>1 DEF IsSealed
  <2> QED
    BY <2>2 DEF HeaderCell, Genuine
<1>3. CASE HEADER_LEN < c
  <2>1. c \in Nat /\ c <= CiphertextLen(Len(plain))
    BY <1>1
  <2>2. PICK i \in 0..Len(plain) \div BlockSize, j \in 1..SealedBlockLen :
               c = HEADER_LEN + i * SealedBlockLen + j
    BY <1>1, <1>3, <2>1, Located
  <2>3. HEADER_LEN + i * SealedBlockLen + j <= Len(o)
    BY <1>1, <2>1, <2>2
  <2> DEFINE full == Len(plain) \div BlockSize
  <2>4. o[c] = BlockCell(key, i, i = full, Chunk(plain, i), j)
    BY <2>2, <2>3, Zenon DEF IsSealed
  <2>5. full \in Nat
    BY FullAndRest
  <2>6. i <= full
    BY <2>2, <2>5
  <2> HIDE DEF full
  <2>7. /\ o[c].aad[2] = i /\ o[c].aad[3] = (i = full)
        /\ o[c].plain = Chunk(plain, i)
    BY <2>4 DEF BlockCell
  <2> QED
    BY <2>6, <2>7 DEF Genuine, full
<1> QED
  BY <1>2, <1>3, Layout

-----------------------------------------------------------------------------
(* Uploads. *)

\* put_part appends what it is given to what is pending.
LEMMA Appended ==
  ASSUME NEW given \in Plaintexts, NEW pending \in Plaintexts, NEW part \in Plaintexts,
         NEW n \in Nat, Rest(pending, given, n)
  PROVE  /\ given \o part \in Plaintexts /\ pending \o part \in Plaintexts
         /\ n * BlockSize <= Len(given) /\ Len(given) <= Len(given \o part)
         /\ \A k \in 1..Len(given) : (given \o part)[k] = given[k]
         /\ Rest(pending \o part, given \o part, n)
<1> DEFINE s == n * BlockSize
<1>1. s \in Nat
  BY Product, Layout
<1>2. Len(given) = s + Len(pending) /\ \A k \in 1..Len(pending) : pending[k] = given[s + k]
  BY DEF Rest
<1> HIDE DEF s
<1>3. given \in Seq(Bytes) /\ pending \in Seq(Bytes) /\ part \in Seq(Bytes)
  BY DEF Plaintexts
<1>4. /\ given \o part \in Seq(Bytes) /\ pending \o part \in Seq(Bytes)
      /\ Len(given \o part) = Len(given) + Len(part)
      /\ Len(pending \o part) = Len(pending) + Len(part)
      /\ Len(given) \in Nat /\ Len(pending) \in Nat /\ Len(part) \in Nat
  BY <1>3
<1>5. \A k \in 1..Len(given) : (given \o part)[k] = given[k]
  BY <1>3
<1>6. ASSUME NEW k \in 1..Len(pending \o part)
      PROVE  (pending \o part)[k] = (given \o part)[s + k]
  <2>1. CASE k <= Len(pending)
    <3>1. k \in 1..Len(pending) /\ s + k \in 1..Len(given)
      BY <1>1, <1>2, <1>4, <2>1
    <3>2. (pending \o part)[k] = pending[k] /\ (given \o part)[s + k] = given[s + k]
      BY <1>3, <3>1
    <3> QED
      BY <1>2, <3>1, <3>2
  <2>2. CASE Len(pending) < k
    <3> DEFINE l == k - Len(pending)
    <3>1. l \in 1..Len(part) /\ k = Len(pending) + l /\ s + k = Len(given) + l
      BY <1>1, <1>2, <1>4, <2>2
    <3> HIDE DEF l
    <3>2. (pending \o part)[Len(pending) + l] = part[l] /\ (given \o part)[Len(given) + l] = part[l]
      BY <1>3, <3>1
    <3> QED
      BY <3>1, <3>2
  <2>3. k <= Len(pending) \/ Len(pending) < k
    BY <1>4
  <2> QED
    BY <2>1, <2>2, <2>3, Zenon
<1>7. /\ s <= Len(given) /\ Len(given) <= Len(given \o part)
      /\ Len(given \o part) = s + Len(pending \o part)
  BY <1>1, <1>2, <1>4
<1> QED
  BY <1>4, <1>5, <1>6, <1>7, Zenon DEF Rest, Plaintexts, s

\* What is left after the full blocks are taken out.
LEMMA Remainder ==
  ASSUME NEW given \in Plaintexts, NEW pending \in Plaintexts, NEW n \in Nat,
         Rest(pending, given, n)
  PROVE  LET m == Drainable(Len(pending))
             left == SubSeq(pending, m * BlockSize + 1, Len(pending))
         IN /\ m \in Nat /\ m * BlockSize <= Len(pending)
            /\ left \in Plaintexts /\ Len(left) < BlockSize
            /\ Rest(left, given, n + m)
<1> DEFINE m == Drainable(Len(pending))
           t == m * BlockSize
           s == n * BlockSize
           left == SubSeq(pending, t + 1, Len(pending))
<1>1. /\ m \in Nat /\ t \in Nat /\ t <= Len(pending) /\ Len(pending) - t \in 0..BlockSize-1
      /\ Len(pending) \in Nat
  BY FullAndRest DEF Drainable, Plaintexts
<1>2. s \in Nat /\ (n + m) * BlockSize = s + t
  BY <1>1, Product, Onward, Layout
<1>3. Len(given) = s + Len(pending) /\ \A k \in 1..Len(pending) : pending[k] = given[s + k]
  BY DEF Rest
<1> HIDE DEF m, s, t
<1>4. /\ left \in Seq(Bytes) /\ Len(left) = Len(pending) - t
      /\ \A k \in 1..Len(pending) - t : left[k] = pending[t + k]
  BY <1>1 DEF Plaintexts
<1> HIDE DEF left
<1>5. ASSUME NEW k \in 1..Len(left)
      PROVE  left[k] = given[(s + t) + k]
  <2>1. t + k \in 1..Len(pending) /\ s + (t + k) = (s + t) + k
    BY <1>1, <1>2, <1>4
  <2> QED
    BY <1>3, <1>4, <2>1
<1>6. Len(given) = (s + t) + Len(left) /\ Len(left) < BlockSize
  BY <1>1, <1>2, <1>3, <1>4, Layout
<1>7. Rest(left, given, n + m)
  BY <1>2, <1>5, <1>6 DEF Rest
<1> QED
  BY <1>1, <1>4, <1>6, <1>7 DEF Plaintexts, m, t, left

\* An upload with some fields replaced, field by field.
LEMMA WithGiven ==
  ASSUME NEW u \in Uploads, NEW a, NEW b, NEW q, q = [u EXCEPT !.pending = a, !.given = b]
  PROVE  q = [path |-> u.path, pending |-> a, next_index |-> u.next_index,
              header_sent |-> u.header_sent, sent |-> u.sent, failed |-> u.failed, given |-> b]
BY DEF Uploads

\* The fields of an upload that drain_full_blocks leaves.
LEMMA DrainedFields ==
  ASSUME NEW f, NEW u \in Uploads
  PROVE  LET m == Drainable(Len(u.pending))
             d == Drained(f, u)
         IN /\ d = [path |-> u.path,
                    pending |-> SubSeq(u.pending, m * BlockSize + 1, Len(u.pending)),
                    next_index |-> u.next_index + m, header_sent |-> TRUE,
                    sent |-> u.sent \o (IF u.header_sent THEN <<>> ELSE Header(f))
                               \o FullBlocks(f, u.next_index, u.pending, m),
                    failed |-> u.failed, given |-> u.given]
<1> DEFINE m == Drainable(Len(u.pending))
           a == u.sent \o (IF u.header_sent THEN <<>> ELSE Header(f))
                  \o FullBlocks(f, u.next_index, u.pending, m)
           b == SubSeq(u.pending, m * BlockSize + 1, Len(u.pending))
           c == u.next_index + m
           yes == TRUE
           d == [u EXCEPT !.sent = a, !.pending = b, !.next_index = c, !.header_sent = yes]
<1>1. Drained(f, u) = d
  BY DEF Drained
<1>a. d = [u EXCEPT !.sent = a, !.pending = b, !.next_index = c, !.header_sent = yes]
  BY Zenon
<1> HIDE DEF a, b, c, d, yes
<1>2. d = [path |-> u.path, pending |-> b, next_index |-> c, header_sent |-> yes,
           sent |-> a, failed |-> u.failed, given |-> u.given]
  BY ONLY <1>a, u \in Uploads DEF Uploads
<1> QED
  BY <1>1, <1>2, Zenon DEF a, b, c, yes

\* Draining keeps an upload well begun, with less than a block pending.
LEMMA DrainedFacts ==
  ASSUME NEW f \in Frames, NEW u \in Uploads, Begun(u, f.current)
  PROVE  LET d == Drained(f, u)
         IN /\ d \in Uploads /\ Begun(d, f.current) /\ d.header_sent
            /\ d.path = u.path /\ d.failed = u.failed /\ d.given = u.given
            /\ Len(d.pending) < BlockSize
<1> DEFINE m == Drainable(Len(u.pending))
           n == u.next_index
           o == u.sent \o (IF u.header_sent THEN <<>> ELSE Header(f))
           a == o \o FullBlocks(f, n, u.pending, m)
           b == SubSeq(u.pending, m * BlockSize + 1, Len(u.pending))
           d == Drained(f, u)
<1>1. d = [path |-> u.path, pending |-> b, next_index |-> n + m, header_sent |-> TRUE,
           sent |-> a, failed |-> u.failed, given |-> u.given]
  BY DrainedFields
<1>2. /\ u.given \in Plaintexts /\ u.pending \in Plaintexts /\ n \in Nat
      /\ u.sent \in Objects /\ u.path \in Paths /\ u.failed \in BOOLEAN
      /\ u.header_sent \in BOOLEAN
  BY DEF Uploads
<1>3. Rest(u.pending, u.given, n)
  BY DEF Begun
<1>4. m \in Nat /\ m * BlockSize <= Len(u.pending)
      /\ b \in Plaintexts /\ Len(b) < BlockSize /\ Rest(b, u.given, n + m)
  BY <1>2, <1>3, Remainder
<1>5. o \in Objects /\ Leading(o, f.current, u.given, n)
  <2>1. CASE u.header_sent
    <3>1. Leading(u.sent, f.current, u.given, n)
      BY <2>1 DEF Begun
    <3>2. o = u.sent
      BY <1>2, <2>1 DEF Objects
    <3> QED
      BY <1>2, <3>1, <3>2
  <2>2. CASE ~u.header_sent
    <3>1. u.sent = <<>> /\ n = 0
      BY <2>2 DEF Begun
    <3>2. o = Header(f)
      BY <2>2, <3>1, HeaderFacts DEF Objects
    <3> QED
      BY <3>1, <3>2, HeaderFacts, LeadingHeader
  <2> QED
    BY <2>1, <2>2
<1> HIDE DEF o
<1>6. a \in Objects /\ Leading(a, f.current, u.given, n + m)
  BY <1>2, <1>3, <1>4, <1>5, LeadingGrows
<1>7. n + m \in Nat
  BY <1>2, <1>4
<1> HIDE DEF a, b, m, n
<1>8. d \in Uploads
  <2> HIDE DEF d
  <2> QED
    BY <1>1, <1>2, <1>4, <1>6, <1>7 DEF Uploads
<1>9. /\ d.pending = b /\ d.given = u.given /\ d.next_index = n + m /\ d.sent = a
      /\ d.header_sent = TRUE /\ d.path = u.path /\ d.failed = u.failed
  <2> HIDE DEF d
  <2> QED
    BY <1>1
<1>10. Begun(d, f.current)
  <2> HIDE DEF d
  <2> QED
    BY <1>4, <1>6, <1>9 DEF Begun
<1> QED
  BY <1>4, <1>8, <1>9, <1>10

\* An upload with a part appended is well begun.
LEMMA GivenFacts ==
  ASSUME NEW key, NEW u \in Uploads, NEW part \in Plaintexts, Begun(u, key)
  PROVE  Given(u, part) \in Uploads /\ Begun(Given(u, part), key)
<1> DEFINE a == u.pending \o part
           b == u.given \o part
           v == [u EXCEPT !.pending = @ \o part, !.given = @ \o part]
<1>1. v = [path |-> u.path, pending |-> a, next_index |-> u.next_index,
           header_sent |-> u.header_sent, sent |-> u.sent, failed |-> u.failed, given |-> b]
  <2> HIDE DEF a, b
  <2>1. [u EXCEPT !.pending = a, !.given = b] =
          [path |-> u.path, pending |-> a, next_index |-> u.next_index,
           header_sent |-> u.header_sent, sent |-> u.sent, failed |-> u.failed, given |-> b]
    BY WithGiven, Zenon
  <2>2. v = [u EXCEPT !.pending = a, !.given = b]
    BY DEF a, b
  <2> QED
    BY <2>1, <2>2
<1>2. /\ u.given \in Plaintexts /\ u.pending \in Plaintexts /\ u.next_index \in Nat
      /\ u.sent \in Objects /\ u.path \in Paths /\ u.failed \in BOOLEAN
      /\ u.header_sent \in BOOLEAN
  BY DEF Uploads
<1>3. Rest(u.pending, u.given, u.next_index)
  BY DEF Begun
<1>4. /\ a \in Plaintexts /\ b \in Plaintexts
      /\ u.next_index * BlockSize <= Len(u.given) /\ Len(u.given) <= Len(b)
      /\ \A k \in 1..Len(u.given) : b[k] = u.given[k]
      /\ Rest(a, b, u.next_index)
  BY <1>2, <1>3, Appended
<1> HIDE DEF a, b, v
<1>5. v \in Uploads
  BY <1>1, <1>2, <1>4 DEF Uploads
<1>6. /\ v.pending = a /\ v.given = b /\ v.next_index = u.next_index /\ v.sent = u.sent
      /\ v.header_sent = u.header_sent
  BY <1>1
<1>7. u.header_sent => Leading(u.sent, key, b, u.next_index)
  <2>1. u.header_sent => Leading(u.sent, key, u.given, u.next_index)
    BY DEF Begun
  <2> QED
    BY <1>2, <1>4, <2>1, LeadingExtends
<1>8. Begun(v, key)
  BY <1>4, <1>6, <1>7 DEF Begun
<1> QED
  BY <1>5, <1>8, Zenon DEF v, Given

\* The object that complete leaves is what was given, sealed.
LEMMA CompletedFacts ==
  ASSUME NEW f \in Frames, NEW u \in Uploads, Begun(u, f.current), u.header_sent,
         Len(u.pending) < BlockSize
  PROVE  LET o == u.sent \o SealBlock(f.current, u.next_index, TRUE, u.pending)
         IN o \in Objects /\ IsSealed(o, f.current, u.given)
<1> DEFINE n == u.next_index
<1>1. /\ u.given \in Plaintexts /\ u.pending \in Plaintexts /\ n \in Nat
      /\ u.sent \in Objects /\ f.current \in Keys
  BY DEF Uploads, Frames
<1>2. Leading(u.sent, f.current, u.given, n) /\ Rest(u.pending, u.given, n)
  BY DEF Begun
<1>3. Len(u.given) = n * BlockSize + Len(u.pending) /\ Len(u.pending) \in 0..BlockSize-1
  BY <1>1, <1>2, Layout DEF Rest, Plaintexts
<1>4. Len(u.given) \div BlockSize = n /\ Len(u.given) % BlockSize = Len(u.pending)
  <2> DEFINE k == Len(u.pending)
  <2>1. k \in 0..BlockSize-1 /\ Len(u.given) = n * BlockSize + k
    BY <1>3
  <2> HIDE DEF k
  <2>2. (n * BlockSize + k) \div BlockSize = n /\ (n * BlockSize + k) % BlockSize = k
    BY <1>1, <2>1, DivModUnique, Layout
  <2> QED
    BY <2>1, <2>2, Zenon DEF k
<1>5. /\ n * BlockSize <= Len(u.given) /\ Chunk(u.given, n) \in Plaintexts
      /\ Len(Chunk(u.given, n)) = Len(u.pending)
  BY <1>1, <1>4, FullAndRest
<1>6. \A j \in 1..Len(Chunk(u.given, n)) : Chunk(u.given, n)[j] = u.given[n * BlockSize + j]
  BY <1>1, <1>5, ChunkFacts
<1>7. Chunk(u.given, n) = u.pending
  <2> DEFINE c == Chunk(u.given, n)
             s == u.pending
  <2>1. c \in Seq(Bytes) /\ s \in Seq(Bytes) /\ Len(c) = Len(s)
    BY <1>1, <1>5 DEF Plaintexts
  <2>2. \A j \in 1..Len(c) : c[j] = s[j]
    BY <1>2, <1>5, <1>6 DEF Rest
  <2> HIDE DEF c, s
  <2>3. c = s
    BY ONLY <2>1, <2>2
  <2> QED
    BY <2>3 DEF c, s
<1> QED
  BY <1>1, <1>2, <1>4, <1>7, LeadingSeals

-----------------------------------------------------------------------------
(* Range reads. *)

\* How many runs open_span cuts this many cells into.
RunCount(len) == (len + SealedBlockLen - 1) \div SealedBlockLen

\* A run that is not refused: it is long enough and authenticates as block i.
Passes(run, key, i) ==
  /\ ~(Len(run) < BLOCK_OVERHEAD)
  /\ Authentic(run, key, <<key, i, Len(run) < SealedBlockLen>>)

\* The plaintext of runs that pass.
Plain(cells) ==
  [i \in 1..Len(cells) - RunCount(Len(cells)) * BLOCK_OVERHEAD |->
     Run(cells, (i - 1) \div BlockSize)[1].plain[((i - 1) % BlockSize) + 1]]

\* open_span returns a slice of the plaintext exactly when every run passes.
LEMMA OpenSpanCases ==
  ASSUME NEW f, NEW cells, NEW start, NEW from, NEW to, NEW key
  PROVE  LET first == (start - HEADER_LEN) \div SealedBlockLen
             r == OpenSpan(f, cells, start, from, to, key)
             pass == \A p \in 0..RunCount(Len(cells)) - 1 : Passes(Run(cells, p), key, first + p)
         IN /\ pass => r = Slice(Plain(cells), from - first * BlockSize, to - first * BlockSize)
            /\ ~pass => r = Refused("authentication") \/ r = Refused("truncated")
<1> DEFINE first == (start - HEADER_LEN) \div SealedBlockLen
           n == RunCount(Len(cells))
           r == OpenSpan(f, cells, start, from, to, key)
           short == {p \in 0..n-1 : Len(Run(cells, p)) < BLOCK_OVERHEAD}
           bad == {p \in (0..n-1) \ short :
                     ~Authentic(Run(cells, p), key,
                                <<key, first + p, Len(Run(cells, p)) < SealedBlockLen>>)}
           slice == Slice(Plain(cells), from - first * BlockSize, to - first * BlockSize)
           pass == \A p \in 0..n-1 : Passes(Run(cells, p), key, first + p)
<1>1. r = CASE bad # {} -> Refused("authentication")
            [] bad = {} /\ short # {} -> Refused("truncated")
            [] OTHER -> slice
  BY Zenon DEF OpenSpan, OpeningKey, AssociatedData, Plain, RunCount
<1>2. pass <=> bad = {} /\ short = {}
  <2> DEFINE L(p) == Len(Run(cells, p)) < BLOCK_OVERHEAD
             A(p) == Authentic(Run(cells, p), key,
                               <<key, first + p, Len(Run(cells, p)) < SealedBlockLen>>)
  <2>1. pass <=> \A p \in 0..n-1 : ~L(p) /\ A(p)
    BY Zenon DEF Passes
  <2>2. short = {p \in 0..n-1 : L(p)} /\ bad = {p \in (0..n-1) \ short : ~A(p)}
    BY Zenon
  <2> HIDE DEF L, A, pass, short, bad, n
  <2> QED
    BY <2>1, <2>2
<1> HIDE DEF bad, short, slice, r, pass
<1>3. pass => r = slice
  BY <1>1, <1>2
<1>4. ~pass => r = Refused("authentication") \/ r = Refused("truncated")
  BY <1>1, <1>2
<1> QED
  BY <1>3, <1>4, Zenon DEF pass, r, slice

\* The cuts: all runs but the last are as long as a full block, and the last
\* is not empty.
LEMMA RunCountFacts ==
  ASSUME NEW len \in Nat \ {0}
  PROVE  \E m \in Nat, l \in 1..SealedBlockLen :
           RunCount(len) = m + 1 /\ len = m * SealedBlockLen + l /\ m * SealedBlockLen \in Nat
<1> DEFINE S == SealedBlockLen
           n == RunCount(len)
           d == len + S - 1
<1>1. d \in Nat
  BY Layout
<1>2. n \in Nat /\ d % S \in 0..S-1 /\ d = n * S + (d % S)
  BY <1>1, DivMod, Layout DEF RunCount
<1>3. n # 0
  <2>1. SUFFICES ASSUME n = 0 PROVE FALSE
    OBVIOUS
  <2>2. n * S = 0
    BY <2>1, Layout
  <2> DEFINE N == n * S
             q == d % S
  <2>3. N = 0 /\ q \in 0..S-1 /\ d = N + q
    BY <1>2, <2>2
  <2> HIDE DEF N, q
  <2> QED
    BY <2>3, Layout
<1> DEFINE m == n - 1
<1>4. m \in Nat /\ n = m + 1
  BY <1>2, <1>3
<1> HIDE DEF m
<1>5. n * S = m * S + S /\ m * S \in Nat
  BY <1>4, OneMore, Product, Layout
<1> DEFINE M == m * S
           q == d % S
<1>6. M \in Nat /\ q \in 0..S-1 /\ d = (M + S) + q
  BY <1>2, <1>5
<1> HIDE DEF M, q
<1>7. q + 0 \in Nat /\ len = M + (q + 1) /\ q + 1 \in 1..S
  BY <1>6, Layout
<1>8. q + 1 \in 1..S /\ len = m * S + (q + 1) /\ m * S \in Nat
  BY <1>6, <1>7 DEF M
<1> QED
  BY <1>4, <1>8

\* One run: a stretch of the cells, as long as a full block unless it is the last.
LEMMA RunFacts ==
  ASSUME NEW cells \in Objects, NEW m \in Nat, NEW l \in 1..SealedBlockLen,
         Len(cells) = m * SealedBlockLen + l, NEW p \in Nat, p <= m
  PROVE  /\ Run(cells, p) \in Objects
         /\ Len(Run(cells, p)) = IF p = m THEN l ELSE SealedBlockLen
         /\ \A j \in 1..Len(Run(cells, p)) :
              /\ p * SealedBlockLen + j \in 1..Len(cells)
              /\ Run(cells, p)[j] = cells[p * SealedBlockLen + j]
<1> DEFINE S == SealedBlockLen
           M == m * S
           P == p * S
           e == Least(P + S, Len(cells))
<1>1. M \in Nat /\ P \in Nat /\ (p + 1) * S = P + S
  BY Product, OneMore, Layout
<1>2. Run(cells, p) = SubSeq(cells, P + 1, e)
  BY <1>1 DEF Run
<1>3. IF p = m THEN P = M ELSE P + S <= M
  <2>1. CASE p = m
    BY <2>1
  <2>2. CASE p # m
    <3>1. p < m
      BY <2>2
    <3> QED
      BY <2>2, <3>1, Before, Layout
  <2> QED
    BY <2>1, <2>2
<1>4. cells \in Seq(Cells) /\ Len(cells) = M + l
  BY DEF Objects
<1> HIDE DEF M, P
<1>5. /\ P \in Nat /\ e \in Nat /\ P <= e /\ e <= Len(cells)
      /\ e - P = IF p = m THEN l ELSE S
  BY <1>1, <1>3, <1>4, Layout DEF Least
<1> HIDE DEF e
<1>6. /\ SubSeq(cells, P + 1, e) \in Seq(Cells)
      /\ Len(SubSeq(cells, P + 1, e)) = e - P
      /\ \A j \in 1..e-P : P + j \in 1..Len(cells) /\ SubSeq(cells, P + 1, e)[j] = cells[P + j]
  BY <1>4, <1>5
<1> QED
  BY <1>2, <1>5, <1>6 DEF P, Objects

\* A run of genuine cells that passes as block i is block i.
LEMMA PassedBlock ==
  ASSUME NEW run \in Objects, 1 <= Len(run), NEW plain \in Plaintexts,
         \A j \in 1..Len(run) : Genuine(run[j], plain),
         NEW key, NEW i \in Nat, Passes(run, key, i)
  PROVE  /\ i * BlockSize \in Nat /\ i * BlockSize <= Len(plain)
         /\ run[1].plain = Chunk(plain, i)
         /\ Len(run) = Len(Chunk(plain, i)) + BLOCK_OVERHEAD
<1> DEFINE full == Len(plain) \div BlockSize
<1>1. /\ run[1].kind = "block" /\ run[1].aad = <<key, i, Len(run) < SealedBlockLen>>
      /\ Len(run) = Len(run[1].plain) + BLOCK_OVERHEAD
  BY DEF Passes, Authentic
<1>2. run[1].aad[2] = i
  BY <1>1
<1>3. Len(run) \in Nat /\ 1 \in 1..Len(run)
  BY DEF Objects
<1>4. i <= full /\ run[1].plain = Chunk(plain, i)
  BY <1>1, <1>2, <1>3 DEF Genuine
<1>5. full \in Nat /\ full * BlockSize \in Nat /\ full * BlockSize <= Len(plain) /\ Len(plain) \in Nat
  BY FullAndRest DEF Plaintexts
<1>6. i * BlockSize \in Nat /\ i * BlockSize <= full * BlockSize
  BY <1>4, <1>5, Product, Monotone, Layout
<1>7. i * BlockSize <= Len(plain)
  BY <1>5, <1>6
<1> QED
  BY <1>1, <1>4, <1>6, <1>7

\* Runs that pass as consecutive blocks give the plaintext of those blocks.
LEMMA PlainFacts ==
  ASSUME NEW cells \in Objects, Len(cells) # 0, NEW plain \in Plaintexts,
         \A c \in 1..Len(cells) : Genuine(cells[c], plain),
         NEW key, NEW first \in Nat,
         \A p \in 0..RunCount(Len(cells)) - 1 : Passes(Run(cells, p), key, first + p)
  PROVE  /\ Plain(cells) \in Plaintexts
         /\ Len(Plain(cells)) = Len(cells) - RunCount(Len(cells)) * BLOCK_OVERHEAD
         /\ first * BlockSize \in Nat
         /\ first * BlockSize + Len(Plain(cells)) <= Len(plain)
         /\ \A i \in 1..Len(Plain(cells)) : Plain(cells)[i] = plain[first * BlockSize + i]
<1> DEFINE S == SealedBlockLen
           B == BlockSize
           O == BLOCK_OVERHEAD
<1>0. Len(cells) \in Nat \ {0} /\ Len(plain) \in Nat
  BY DEF Objects, Plaintexts
<1>1. PICK m \in Nat, l \in 1..S :
        RunCount(Len(cells)) = m + 1 /\ Len(cells) = m * S + l /\ m * S \in Nat
  BY <1>0, RunCountFacts
<1>2. ASSUME NEW p \in Nat, p <= m
      PROVE  /\ (first + p) * B \in Nat /\ (first + p) * B <= Len(plain)
             /\ Run(cells, p)[1].plain = Chunk(plain, first + p)
             /\ (IF p = m THEN l ELSE S) = Len(Chunk(plain, first + p)) + O
  <2> DEFINE run == Run(cells, p)
  <2>1. /\ run \in Objects /\ Len(run) = IF p = m THEN l ELSE S
        /\ \A j \in 1..Len(run) : p * S + j \in 1..Len(cells) /\ run[j] = cells[p * S + j]
    BY <1>1, <1>2, RunFacts
  <2>2. 1 <= Len(run)
    BY <2>1, Layout
  <2>3. \A j \in 1..Len(run) : Genuine(run[j], plain)
    BY <2>1
  <2>4. p \in 0..RunCount(Len(cells)) - 1 /\ first + p \in Nat
    BY <1>1, <1>2
  <2>5. Passes(run, key, first + p)
    BY <2>4
  <2> HIDE DEF run
  <2>6. /\ (first + p) * B \in Nat /\ (first + p) * B <= Len(plain)
        /\ run[1].plain = Chunk(plain, first + p)
        /\ Len(run) = Len(Chunk(plain, first + p)) + O
    <3> DEFINE i == first + p
    <3>1. /\ run \in Objects /\ 1 <= Len(run) /\ plain \in Plaintexts /\ i \in Nat
          /\ \A j \in 1..Len(run) : Genuine(run[j], plain)
          /\ Passes(run, key, i)
      BY <2>1, <2>2, <2>3, <2>4, <2>5, Zenon
    <3> HIDE DEF i
    <3>2. /\ i * B \in Nat /\ i * B <= Len(plain)
          /\ run[1].plain = Chunk(plain, i) /\ Len(run) = Len(Chunk(plain, i)) + O
      BY ONLY <3>1, PassedBlock
    <3> QED
      BY <3>2, Zenon DEF i
  <2> QED
    BY <2>1, <2>6 DEF run
<1> DEFINE C(p) == Chunk(plain, first + p)
           F == first * B
           M == m * B
           k == Len(C(m))
<1>3. ASSUME NEW p \in Nat, p <= m
      PROVE  /\ C(p) \in Plaintexts
             /\ Len(C(p)) = Least(B, Len(plain) - (F + p * B))
             /\ \A j \in 1..Len(C(p)) : C(p)[j] = plain[(F + p * B) + j]
             /\ F + p * B <= Len(plain) /\ p * B \in Nat
             /\ p < m => Len(C(p)) = B
  <2>1. (first + p) * B = F + p * B /\ p * B \in Nat
    BY Onward, Product, Layout
  <2>2. first + p \in Nat /\ (first + p) * B <= Len(plain)
    <3>1. first + p \in Nat
      OBVIOUS
    <3> QED
      BY <1>2, <1>3, <3>1, Zenon
  <2>3. /\ C(p) \in Plaintexts
        /\ Len(C(p)) = Least(B, Len(plain) - (first + p) * B)
        /\ \A j \in 1..Len(C(p)) : C(p)[j] = plain[(first + p) * B + j]
    BY <2>2, ChunkFacts
  <2>4. p < m => S = Len(C(p)) + O
    <3>1. (IF p = m THEN l ELSE S) = Len(C(p)) + O
      BY <1>2, <1>3, Zenon
    <3>2. p < m => p # m
      OBVIOUS
    <3> QED
      BY <3>1, <3>2, Zenon
  <2>5. Len(C(p)) \in Nat
    BY <2>3 DEF Plaintexts
  <2>6. p < m => Len(C(p)) = B
    BY <2>4, <2>5, Layout
  <2> QED
    BY <2>1, <2>2, <2>3, <2>6
<1>4. l = k + O /\ k \in Nat /\ k <= B /\ F \in Nat /\ M \in Nat /\ F + M + k <= Len(plain)
  <2>0. m <= m
    OBVIOUS
  <2>1. l = k + O
    <3>1. (IF m = m THEN l ELSE S) = k + O
      BY <1>2, <2>0, Zenon
    <3> QED
      BY <3>1, Zenon
  <2>2. k = Least(B, Len(plain) - (F + M)) /\ F + M <= Len(plain) /\ M \in Nat /\ C(m) \in Plaintexts
    BY <1>3, <2>0, Zenon
  <2>3. F \in Nat
    BY Product, Layout
  <2>4. k \in Nat
    BY <2>2 DEF Plaintexts
  <2> HIDE DEF k, F, M
  <2>5. B \in Nat /\ F + M \in Nat
    BY <2>2, <2>3, Layout
  <2>6. k <= B /\ k <= Len(plain) - (F + M)
    BY <2>2, <2>5, <1>0 DEF Least
  <2>7. F + M + k <= Len(plain)
    BY <2>2, <2>3, <2>4, <2>6, <1>0
  <2> QED
    BY <2>1, <2>2, <2>3, <2>4, <2>6, <2>7, Zenon
<1>5. Len(cells) - RunCount(Len(cells)) * O = M + k
  <2>1. (m + 1) * O = m * O + O /\ m * O \in Nat
    BY OneMore, Product, Layout
  <2>2. m * S = M + m * O
    BY Layout, Z3
  <2> DEFINE mo == m * O
             ms == m * S
  <2>3. (m + 1) * O = mo + O /\ ms = M + mo /\ mo \in Nat /\ Len(cells) = ms + l
    BY <1>1, <2>1, <2>2
  <2>4. RunCount(Len(cells)) * O = (m + 1) * O
    BY <1>1
  <2> HIDE DEF mo, ms, M, k
  <2>5. Len(cells) - (m + 1) * O = M + k
    BY <2>3, <1>4, Layout
  <2> QED
    BY <2>4, <2>5
<1> DEFINE V(i) == Run(cells, (i - 1) \div B)[1].plain[((i - 1) % B) + 1]
<1>6. Plain(cells) = [i \in 1..M + k |-> V(i)]
  BY <1>5, Zenon DEF Plain
<1>7. ASSUME NEW i \in 1..M + k
      PROVE  V(i) = plain[F + i] /\ F + i \in 1..Len(plain)
  <2> DEFINE p == (i - 1) \div B
             q == (i - 1) % B
  <2>1. i \in Nat /\ i - 1 \in Nat
    BY <1>4
  <2>2. p \in Nat /\ q \in 0..B-1 /\ i - 1 = p * B + q
    BY <2>1, DivMod, Layout
  <2>3. p * B \in Nat /\ (m + 1) * B = M + B
    BY <2>2, Product, OneMore, Layout
  <2> HIDE DEF p, q
  <2>4. p * B < (m + 1) * B
    <3> DEFINE P == p * B
    <3>1. P \in Nat /\ i - 1 = P + q
      BY <2>2, <2>3
    <3> HIDE DEF P, M, k
    <3>2. P < M + B
      BY <3>1, <1>4, <2>1, <2>2, Layout
    <3> QED
      BY <2>3, <3>2 DEF P
  <2>5. p <= m
    <3>1. p < m + 1
      BY <2>2, <2>4, Within, Layout
    <3> QED
      BY <2>2, <3>1
  <2>6. q + 1 \in 1..Len(C(p)) /\ (F + p * B) + (q + 1) = F + i
    <3>1. CASE p = m
      <4>1. p * B = M /\ Len(C(p)) = k
        BY <3>1
      <4>2. i - 1 = M + q
        BY <2>2, <4>1
      <4> HIDE DEF M, k, F
      <4>3. q + 1 \in 1..k /\ (F + M) + (q + 1) = F + i
        BY <1>4, <2>1, <2>2, <4>2, Layout
      <4> QED
        BY <4>1, <4>3
    <3>2. CASE p < m
      <4>1. Len(C(p)) = B
        BY <1>3, <2>2, <2>5, <3>2
      <4> DEFINE P == p * B
      <4>2. P \in Nat /\ i - 1 = P + q
        BY <2>2, <2>3
      <4> HIDE DEF P, F
      <4>3. q + 1 \in 1..B /\ (F + P) + (q + 1) = F + i
        BY <1>4, <2>1, <2>2, <4>2, Layout
      <4> QED
        BY <4>1, <4>3 DEF P
    <3> QED
      BY <2>2, <2>5, <3>1, <3>2
  <2>7. V(i) = C(p)[q + 1]
    <3>1. V(i) = Run(cells, p)[1].plain[q + 1]
      BY Zenon DEF p, q
    <3>2. Run(cells, p)[1].plain = C(p)
      BY <1>2, <2>2, <2>5
    <3> QED
      BY <3>1, <3>2, Zenon
  <2>8. V(i) = plain[(F + p * B) + (q + 1)]
    <3> HIDE DEF V, C, F
    <3> QED
      BY <1>3, <2>2, <2>5, <2>6, <2>7
  <2>9. F + i \in 1..Len(plain)
    <3> HIDE DEF F, M, k
    <3> QED
      BY <1>0, <1>4, <2>1
  <2> QED
    BY <2>6, <2>8, <2>9, Zenon
<1>8. M + k \in Nat
  BY <1>4
<1> HIDE DEF V, M, k, F
<1>9. \A i \in 1..M + k : V(i) \in Bytes
  <2>1. plain \in Seq(Bytes)
    BY DEF Plaintexts
  <2> QED
    BY <1>7, <2>1
<1>10. Plain(cells) \in Seq(Bytes) /\ Len(Plain(cells)) = M + k
  BY <1>6, <1>8, <1>9
<1>11. \A i \in 1..Len(Plain(cells)) : Plain(cells)[i] = plain[F + i]
  BY <1>6, <1>7, <1>10
<1>12. F \in Nat /\ F + Len(Plain(cells)) <= Len(plain)
  BY <1>0, <1>4, <1>8, <1>10
<1> QED
  BY <1>5, <1>10, <1>11, <1>12 DEF F, Plaintexts

\* A part of a sequence, element by element.
LEMMA Part ==
  ASSUME NEW A, NEW q \in Seq(A), NEW a \in Nat, NEW b \in Nat, a <= b, b <= Len(q)
  PROVE  /\ SubSeq(q, a + 1, b) \in Seq(A) /\ Len(SubSeq(q, a + 1, b)) = b - a
         /\ \A j \in 1..b-a : SubSeq(q, a + 1, b)[j] = q[a + j]
OBVIOUS

\* The slice that is returned is the range of the plaintext.
LEMMA SliceFacts ==
  ASSUME NEW part \in Plaintexts, NEW plain \in Plaintexts, NEW F \in Nat,
         F + Len(part) <= Len(plain),
         \A i \in 1..Len(part) : part[i] = plain[F + i],
         NEW from \in Nat, NEW to \in Nat, F <= from, from < to,
         NEW r, r = Slice(part, from - F, to - F)
  PROVE  IF to <= F + Len(part)
         THEN to <= Len(plain) /\ r = Opened(SubSeq(plain, from + 1, to))
         ELSE r = Refused("outside")
<1> DEFINE lo == from - F
           hi == to - F
<1>1. Len(part) \in Nat /\ Len(plain) \in Nat /\ part \in Seq(Bytes) /\ plain \in Seq(Bytes)
  BY DEF Plaintexts
<1>2. lo \in Nat /\ hi \in Nat /\ lo < hi /\ from = F + lo /\ to = F + hi
  OBVIOUS
<1> HIDE DEF lo, hi
<1>3. ASSUME hi <= Len(part)
      PROVE  to <= Len(plain) /\ SubSeq(part, lo + 1, hi) = SubSeq(plain, from + 1, to)
  <2> DEFINE s == SubSeq(part, lo + 1, hi)
             t == SubSeq(plain, from + 1, to)
  <2>1. to <= Len(plain)
    BY <1>1, <1>2, <1>3
  <2>2. /\ s \in Seq(Bytes) /\ Len(s) = hi - lo
        /\ \A j \in 1..hi-lo : s[j] = part[lo + j]
    BY ONLY <1>1, <1>2, <1>3, Part
  <2>3. /\ t \in Seq(Bytes) /\ Len(t) = hi - lo
        /\ \A j \in 1..hi-lo : t[j] = plain[from + j]
    <3>1. from <= to /\ to - from = hi - lo /\ from \in Nat /\ to \in Nat
      BY <1>2
    <3>2. /\ t \in Seq(Bytes) /\ Len(t) = to - from
          /\ \A j \in 1..to-from : t[j] = plain[from + j]
      BY ONLY <1>1, <2>1, <3>1, Part
    <3> HIDE DEF t
    <3> QED
      BY <3>1, <3>2, Zenon
  <2>4. ASSUME NEW j \in 1..hi-lo
        PROVE  s[j] = t[j]
    <3>1. lo + j \in 1..Len(part) /\ F + (lo + j) = from + j
      BY <1>1, <1>2, <1>3
    <3>2. part[lo + j] = plain[from + j]
      BY <3>1
    <3> QED
      BY <2>2, <2>3, <3>2
  <2> HIDE DEF s, t
  <2>5. \A j \in 1..Len(s) : s[j] = t[j]
    BY <2>2, <2>4
  <2>6. s = t
    BY ONLY <2>2, <2>3, <2>5
  <2> QED
    BY <2>1, <2>6 DEF s, t
<1>4. CASE hi > Len(part)
  <2>1. Slice(part, lo, hi) = Refused("outside")
    BY <1>4 DEF Slice
  <2>2. ~(to <= F + Len(part))
    BY <1>1, <1>2, <1>4
  <2> QED
    BY <2>1, <2>2 DEF lo, hi
<1>5. CASE ~(hi > Len(part))
  <2>1. hi <= Len(part)
    BY <1>1, <1>2, <1>5
  <2>2. Slice(part, lo, hi) = Opened(SubSeq(part, lo + 1, hi))
    BY <1>5 DEF Slice
  <2>3. to <= Len(plain) /\ Slice(part, lo, hi) = Opened(SubSeq(plain, from + 1, to))
    BY <1>3, <2>1, <2>2, Zenon
  <2>4. to <= F + Len(part)
    BY <1>1, <1>2, <2>1
  <2> QED
    BY <2>3, <2>4, Zenon DEF lo, hi
<1> QED
  BY <1>4, <1>5, Zenon

\* The first block of a range, as open_span computes it from where the span
\* starts.
LEMMA FirstFacts ==
  ASSUME NEW from \in Nat
  PROVE  /\ FirstBlock(from) \in Nat /\ FirstBlock(from) * BlockSize \in Nat
         /\ FirstBlock(from) * BlockSize <= from
         /\ FirstBlock(from) * SealedBlockLen \in Nat
         /\ SpanStart(from) = HEADER_LEN + FirstBlock(from) * SealedBlockLen
         /\ SpanStart(from) \in Nat
         /\ (SpanStart(from) - HEADER_LEN) \div SealedBlockLen = FirstBlock(from)
<1> DEFINE b == FirstBlock(from)
           S == SealedBlockLen
<1>1. b \in Nat /\ from % BlockSize \in 0..BlockSize-1 /\ from = b * BlockSize + (from % BlockSize)
  BY DivMod, Layout DEF FirstBlock
<1>2. b * BlockSize \in Nat /\ b * S \in Nat
  BY <1>1, Product, Layout
<1>3. b * BlockSize <= from
  BY <1>1, <1>2
<1>4. SpanStart(from) = HEADER_LEN + b * S
  BY DEF SpanStart
<1>5. SpanStart(from) \in Nat /\ SpanStart(from) - HEADER_LEN = b * S + 0
  BY <1>2, <1>4, Layout
<1>6. (b * S + 0) \div S = b
  <2>1. 0 \in 0..S-1
    BY Layout
  <2> HIDE DEF b
  <2> QED
    BY <1>1, <2>1, DivModUnique, Layout
<1>7. (SpanStart(from) - HEADER_LEN) \div S = b
  BY <1>5, <1>6, Zenon
<1> QED
  BY <1>1, <1>2, <1>3, <1>4, <1>5, <1>7, Zenon

\* The cells that are fetched.
LEMMA Fetched ==
  ASSUME NEW o \in Objects, NEW start \in Nat, NEW end \in Nat, start < end, start < Len(o)
  PROVE  LET cells == SubSeq(o, start + 1, Least(end, Len(o))) IN
         /\ cells \in Objects /\ Len(cells) # 0
         /\ Len(cells) = Least(end, Len(o)) - start
         /\ \A c \in 1..Len(cells) : start + c \in 1..Len(o) /\ cells[c] = o[start + c]
<1> DEFINE e == Least(end, Len(o))
<1>1. o \in Seq(Cells) /\ Len(o) \in Nat
  BY DEF Objects
<1>2. e \in Nat /\ start < e /\ e <= Len(o)
  BY <1>1 DEF Least
<1> HIDE DEF e
<1> DEFINE cells == SubSeq(o, start + 1, e)
<1>3. /\ cells \in Seq(Cells) /\ Len(cells) = e - start
      /\ \A c \in 1..e-start : start + c \in 1..Len(o) /\ cells[c] = o[start + c]
  BY <1>1, <1>2
<1>4. Len(cells) # 0
  BY <1>2, <1>3
<1> QED
  BY <1>3, <1>4 DEF Objects, e

\* open_span returns the bytes of the range or refuses, whatever has become of
\* the object: truncated, reordered, altered or replaced, as long as each cell
\* that still belongs to a block belongs to a block of this plaintext.
LEMMA OpenSpanSound ==
  ASSUME NEW o \in Objects, NEW plain \in Plaintexts,
         \A c \in 1..Len(o) : Genuine(o[c], plain),
         NEW from \in Nat, NEW to \in Nat, from < to,
         NEW end \in Nat, SpanStart(from) < end, SpanStart(from) < Len(o),
         NEW f, NEW key
  PROVE  LET cells == SubSeq(o, SpanStart(from) + 1, Least(end, Len(o)))
             r == OpenSpan(f, cells, SpanStart(from), from, to, key)
         IN \/ \E why \in Refusals : r = Refused(why)
            \/ to <= Len(plain) /\ r = Opened(SubSeq(plain, from + 1, to))
<1> DEFINE start == SpanStart(from)
           cells == SubSeq(o, start + 1, Least(end, Len(o)))
           r == OpenSpan(f, cells, start, from, to, key)
           first == FirstBlock(from)
           F == first * BlockSize
           pass == \A p \in 0..RunCount(Len(cells)) - 1 : Passes(Run(cells, p), key, first + p)
<1>1. /\ first \in Nat /\ F \in Nat /\ F <= from /\ start \in Nat
      /\ (start - HEADER_LEN) \div SealedBlockLen = first
  BY FirstFacts
<1>2. /\ cells \in Objects /\ Len(cells) # 0
      /\ \A c \in 1..Len(cells) : start + c \in 1..Len(o) /\ cells[c] = o[start + c]
  BY <1>1, Fetched
<1> HIDE DEF cells, start, first
<1>3. /\ pass => r = Slice(Plain(cells), from - F, to - F)
      /\ ~pass => r = Refused("authentication") \/ r = Refused("truncated")
  <2> DEFINE g == (start - HEADER_LEN) \div SealedBlockLen
             passes == \A p \in 0..RunCount(Len(cells)) - 1 : Passes(Run(cells, p), key, g + p)
  <2>1. /\ passes => r = Slice(Plain(cells), from - g * BlockSize, to - g * BlockSize)
        /\ ~passes => r = Refused("authentication") \/ r = Refused("truncated")
    BY OpenSpanCases, Zenon
  <2>2. g = first
    BY <1>1
  <2> HIDE DEF g
  <2> QED
    BY <2>1, <2>2, Zenon
<1>4. CASE ~pass
  <2> HIDE DEF r, pass
  <2>0. "authentication" \in Refusals /\ "truncated" \in Refusals
    BY DEF Refusals
  <2>1. \E why \in Refusals : r = Refused(why)
    BY <1>3, <1>4, <2>0, Zenon
  <2> QED
    BY <2>1, Zenon DEF r, cells, start
<1>5. CASE pass
  <2>1. \A c \in 1..Len(cells) : Genuine(cells[c], plain)
    BY <1>2
  <2>2. /\ Plain(cells) \in Plaintexts
        /\ F + Len(Plain(cells)) <= Len(plain)
        /\ \A i \in 1..Len(Plain(cells)) : Plain(cells)[i] = plain[F + i]
    <3>1. /\ cells \in Objects /\ Len(cells) # 0 /\ plain \in Plaintexts /\ first \in Nat
          /\ \A c \in 1..Len(cells) : Genuine(cells[c], plain)
          /\ \A p \in 0..RunCount(Len(cells)) - 1 : Passes(Run(cells, p), key, first + p)
      BY <1>1, <1>2, <1>5, <2>1, Zenon
    <3> QED
      BY ONLY <3>1, PlainFacts
  <2> HIDE DEF F, r
  <2>3. \/ r = Refused("outside")
        \/ to <= Len(plain) /\ r = Opened(SubSeq(plain, from + 1, to))
    <3> DEFINE part == Plain(cells)
    <3>1. /\ part \in Plaintexts /\ F + Len(part) <= Len(plain)
          /\ \A i \in 1..Len(part) : part[i] = plain[F + i]
      BY <2>2
    <3>2. r = Slice(part, from - F, to - F)
      BY <1>3, <1>5, Zenon
    <3> HIDE DEF part
    <3>3. IF to <= F + Len(part)
          THEN to <= Len(plain) /\ r = Opened(SubSeq(plain, from + 1, to))
          ELSE r = Refused("outside")
      <4>1. F \in Nat /\ F <= from /\ from \in Nat /\ to \in Nat /\ from < to /\ plain \in Plaintexts
        BY <1>1 DEF F
      <4>2. CASE to <= F + Len(part)
        BY ONLY <3>1, <3>2, <4>1, <4>2, SliceFacts
      <4>3. CASE ~(to <= F + Len(part))
        BY ONLY <3>1, <3>2, <4>1, <4>3, SliceFacts
      <4> QED
        BY <4>2, <4>3
    <3> QED
      BY <3>3, Zenon
  <2>4. \/ \E why \in Refusals : r = Refused(why)
        \/ to <= Len(plain) /\ r = Opened(SubSeq(plain, from + 1, to))
    <3>1. "outside" \in Refusals
      BY DEF Refusals
    <3> QED
      BY <2>3, <3>1, Zenon
  <2> QED
    BY <2>4, Zenon DEF r, cells, start
<1> QED
  BY <1>4, <1>5, Zenon

\* As many cells as m full runs and a last one are cut into m + 1 runs.
LEMMA RunCountOf ==
  ASSUME NEW m \in Nat, NEW l \in 1..SealedBlockLen
  PROVE  RunCount(m * SealedBlockLen + l) = m + 1
<1> DEFINE S == SealedBlockLen
<1>1. m * S \in Nat /\ (m + 1) * S = m * S + S /\ m + 1 \in Nat /\ l - 1 \in 0..S-1
  BY Product, OneMore, Layout
<1>2. m * S + l + S - 1 = (m + 1) * S + (l - 1)
  <2> DEFINE M == m * S
             N == (m + 1) * S
  <2>1. M \in Nat /\ N = M + S
    BY <1>1
  <2> HIDE DEF M, N
  <2>2. M + l + S - 1 = N + (l - 1)
    BY <2>1, Layout
  <2> QED
    BY <2>2 DEF M, N
<1>3. ((m + 1) * S + (l - 1)) \div S = m + 1
  BY <1>1, DivModUnique, Layout
<1> QED
  BY <1>2, <1>3, Zenon DEF RunCount

\* The span of a range is made of whole blocks: full ones, or full ones and
\* the final one.
LEMMA SpanShape ==
  ASSUME NEW total \in Nat, NEW from \in Nat, NEW to \in Nat, from < to, to <= total
  PROVE  LET first == FirstBlock(from)
             full == total \div BlockSize
             len == SpanEnd(from, to, total) - SpanStart(from)
         IN \E m \in Nat, l \in 1..SealedBlockLen :
              /\ len = m * SealedBlockLen + l
              /\ first + m <= full
              /\ to <= (first + m) * BlockSize + (l - BLOCK_OVERHEAD)
              /\ \/ l = SealedBlockLen /\ first + m < full
                 \/ l = (total % BlockSize) + BLOCK_OVERHEAD /\ first + m = full
<1> DEFINE S == SealedBlockLen
           B == BlockSize
           O == BLOCK_OVERHEAD
           first == FirstBlock(from)
           after == BlockAfter(from, to)
           full == total \div B
           rest == total % B
           len == SpanEnd(from, to, total) - SpanStart(from)
           FS == first * S
           AS == after * S
           US == full * S
<1>1. /\ first \in Nat /\ FS \in Nat /\ SpanStart(from) = HEADER_LEN + FS
  BY FirstFacts
<1>2. /\ full \in Nat /\ rest \in 0..B-1 /\ total = full * B + rest
      /\ US \in Nat /\ CiphertextLen(total) = HEADER_LEN + US + rest + O
      /\ (full + 1) * S = US + S
  BY DivMod, Product, OneMore, Layout DEF CiphertextLen
<1>3. /\ SpanStart(from) < SpanEnd(from, to, total)
      /\ SpanEnd(from, to, total) <= CiphertextLen(total)
      /\ to <= after * B
      /\ \/ SpanEnd(from, to, total) = HEADER_LEN + AS
         \/ SpanEnd(from, to, total) = CiphertextLen(total)
  BY SpanCovers
<1>4. after \in Nat /\ first + 1 <= after
  <2>1. to + B - 1 \in Nat
    BY Layout
  <2>2. (to + B - 1) \div B \in Nat
    BY <2>1, DivMod, Layout
  <2> QED
    BY <1>1, <2>2 DEF BlockAfter, Greatest
<1>5. AS \in Nat
  BY <1>4, Product, Layout
<1>6. CASE SpanEnd(from, to, total) = HEADER_LEN + AS
  <2> DEFINE m == after - first - 1
  <2>1. m \in Nat /\ after = first + (m + 1) /\ after = (first + m) + 1 /\ first + m \in Nat
    BY <1>1, <1>4
  <2> HIDE DEF m
  <2>2. /\ AS = FS + (m + 1) * S /\ (m + 1) * S = m * S + S /\ m * S \in Nat
        /\ after * B = (first + m) * B + B
    BY <1>1, <2>1, Onward, OneMore, Product, Layout
  <2>3. after < full + 1
    <3>1. AS < (full + 1) * S
      <4> HIDE DEF AS, US, rest
      <4> QED
        BY <1>2, <1>3, <1>5, <1>6, Layout
    <3> QED
      BY <1>2, <1>4, <3>1, Within, Layout
  <2>4. len = m * S + S
    <3> DEFINE M == m * S
               N == (m + 1) * S
    <3>1. AS = FS + N /\ N = M + S /\ M \in Nat
      BY <2>2
    <3> HIDE DEF M, N, AS, FS
    <3>2. len = M + S
      BY <1>1, <1>6, <3>1, Layout
    <3> QED
      BY <3>2 DEF M
  <2>5. S \in 1..S /\ S - O = B
    BY Layout
  <2>6. first + m < full /\ first + m <= full
    BY <1>2, <1>4, <2>1, <2>3
  <2>7. to <= (first + m) * B + (S - O)
    BY <1>3, <2>2, <2>5
  <2> QED
    BY <2>1, <2>4, <2>5, <2>6, <2>7
<1>7. CASE SpanEnd(from, to, total) = CiphertextLen(total)
  <2>1. first < full + 1
    <3>1. FS < (full + 1) * S
      <4> HIDE DEF FS, US, rest
      <4> QED
        BY <1>1, <1>2, <1>3, <1>7, Layout
    <3> QED
      BY <1>1, <1>2, <3>1, Within, Layout
  <2> DEFINE m == full - first
  <2>2. m \in Nat /\ full = first + m
    BY <1>1, <1>2, <2>1
  <2> HIDE DEF m
  <2>3. US = FS + m * S /\ m * S \in Nat /\ (first + m) * B = full * B
    BY <1>1, <2>2, Onward, Product, Layout
  <2>4. len = m * S + (rest + O) /\ rest + O \in 1..S
    <3> DEFINE M == m * S
    <3>1. US = FS + M /\ M \in Nat
      BY <2>3
    <3> HIDE DEF M, US, FS, rest
    <3>2. len = M + (rest + O) /\ rest + O \in 1..S
      BY <1>1, <1>2, <1>7, <3>1, Layout
    <3> QED
      BY <3>2 DEF M
  <2>5. to <= (first + m) * B + ((rest + O) - O)
    <3> DEFINE U == full * B
    <3>1. U \in Nat /\ total = U + rest /\ (first + m) * B = U
      BY <1>2, <2>3, Product, Layout
    <3> HIDE DEF U, rest
    <3> QED
      BY <1>2, <3>1, Layout
  <2>6. first + m <= full /\ first + m = full
    BY <1>2, <2>2
  <2> QED
    BY <2>2, <2>4, <2>5, <2>6
<1> QED
  BY <1>3, <1>6, <1>7, Zenon

\* A run that is one whole block of a sealed object passes as that block.
LEMMA WholePasses ==
  ASSUME NEW run \in Objects, NEW key, NEW i \in Nat, NEW final, NEW piece \in Plaintexts,
         Len(run) = Len(piece) + BLOCK_OVERHEAD,
         final = (Len(run) < SealedBlockLen),
         \A j \in 1..Len(run) : run[j] = BlockCell(key, i, final, piece, j)
  PROVE  Passes(run, key, i)
<1>1. Len(run) \in Nat /\ Len(piece) \in Nat
  BY DEF Objects, Plaintexts
<1>2. 1 \in 1..Len(run) /\ ~(Len(run) < BLOCK_OVERHEAD)
  BY <1>1, Layout
<1>3. run[1] = BlockCell(key, i, final, piece, 1)
  BY <1>2
<1>4. /\ run[1].kind = "block" /\ run[1].key = key /\ run[1].aad = <<key, i, final>>
      /\ run[1].plain = piece
  BY <1>3 DEF BlockCell
<1>5. ASSUME NEW j \in 1..Len(run)
      PROVE  run[j] = [run[1] EXCEPT !.at = j]
  <2> DEFINE a == <<key, i, final>>
             c == [kind |-> "block", key |-> key, at |-> 1, plain |-> piece, aad |-> a]
             d == [kind |-> "block", key |-> key, at |-> j, plain |-> piece, aad |-> a]
  <2>1. run[1] = c /\ run[j] = d
    BY <1>3, Zenon DEF BlockCell
  <2> HIDE DEF a
  <2>2. [c EXCEPT !.at = j] = d
    OBVIOUS
  <2> HIDE DEF c, d
  <2> QED
    BY <2>1, <2>2, Zenon
<1>6. run[1].aad = <<key, i, Len(run) < SealedBlockLen>>
  BY <1>4, Zenon
<1> QED
  BY <1>2, <1>4, <1>5, <1>6, Zenon DEF Passes, Authentic

\* A range within an intact object is returned, all of it, whatever its
\* bounds: open_span cuts what the span covers exactly at the blocks.
LEMMA OpenSpanWhole ==
  ASSUME NEW o \in Objects, NEW plain \in Plaintexts, NEW key, IsSealed(o, key, plain),
         NEW from \in Nat, NEW to \in Nat, from < to, to <= Len(plain), NEW f,
         NEW end, end = SpanEnd(from, to, Len(plain))
  PROVE  LET cells == SubSeq(o, SpanStart(from) + 1, Least(end, Len(o)))
             r == OpenSpan(f, cells, SpanStart(from), from, to, key)
         IN /\ SpanStart(from) < Len(o)
            /\ r = Opened(SubSeq(plain, from + 1, to))
<1> DEFINE S == SealedBlockLen
           B == BlockSize
           O == BLOCK_OVERHEAD
           start == SpanStart(from)
           cells == SubSeq(o, start + 1, Least(end, Len(o)))
           r == OpenSpan(f, cells, start, from, to, key)
           first == FirstBlock(from)
           full == Len(plain) \div B
           rest == Len(plain) % B
<1>1. Len(plain) \in Nat /\ Len(o) \in Nat /\ Len(o) = CiphertextLen(Len(plain))
  BY DEF IsSealed, Objects, Plaintexts
<1>2. /\ start \in Nat /\ end \in Nat /\ start < end /\ end <= Len(o)
  BY <1>1, SpanCovers
<1>3. /\ first \in Nat /\ first * B \in Nat /\ first * B <= from /\ first * S \in Nat
      /\ start = HEADER_LEN + first * S /\ (start - HEADER_LEN) \div S = first
  BY FirstFacts
<1>4. Least(end, Len(o)) = end /\ start < Len(o)
  BY <1>1, <1>2 DEF Least
<1>5. PICK m \in Nat, l \in 1..S :
        /\ end - start = m * S + l
        /\ first + m <= full
        /\ to <= (first + m) * B + (l - O)
        /\ \/ l = S /\ first + m < full
           \/ l = rest + O /\ first + m = full
  <2> DEFINE n == Len(plain)
  <2>1. n \in Nat /\ from \in Nat /\ to \in Nat /\ from < to /\ to <= n
    BY <1>1
  <2>2. full = n \div B /\ rest = n % B /\ end = SpanEnd(from, to, n)
    BY Zenon
  <2> HIDE DEF n
  <2>3. \E m \in Nat, l \in 1..S :
          /\ SpanEnd(from, to, n) - start = m * S + l
          /\ first + m <= n \div B
          /\ to <= (first + m) * B + (l - O)
          /\ \/ l = S /\ first + m < n \div B
             \/ l = (n % B) + O /\ first + m = n \div B
    BY ONLY <2>1, SpanShape
  <2> HIDE DEF full, rest, first, start
  <2> QED
    BY <2>2, <2>3, Zenon
<1>6. /\ full \in Nat /\ full * B <= Len(plain) /\ rest \in 0..B-1
      /\ Chunk(plain, full) \in Plaintexts /\ Len(Chunk(plain, full)) = rest
  BY FullAndRest
<1>7. /\ cells \in Objects /\ Len(cells) # 0 /\ Len(cells) = m * S + l
      /\ \A c \in 1..Len(cells) : start + c \in 1..Len(o) /\ cells[c] = o[start + c]
  <2>1. /\ cells \in Objects /\ Len(cells) # 0 /\ Len(cells) = Least(end, Len(o)) - start
        /\ \A c \in 1..Len(cells) : start + c \in 1..Len(o) /\ cells[c] = o[start + c]
    BY <1>2, <1>4, Fetched, Zenon
  <2> QED
    BY <1>4, <1>5, <2>1, Zenon
<1>8. RunCount(Len(cells)) = m + 1
  BY <1>5, <1>7, RunCountOf, Zenon
<1> HIDE DEF cells, start, first, full, rest
<1>9. ASSUME NEW p \in Nat, p <= m
      PROVE  Passes(Run(cells, p), key, first + p)
  <2> DEFINE run == Run(cells, p)
             i == first + p
  <2>1. /\ run \in Objects /\ Len(run) = IF p = m THEN l ELSE S
        /\ \A j \in 1..Len(run) : p * S + j \in 1..Len(cells) /\ run[j] = cells[p * S + j]
    <3>1. /\ cells \in Objects /\ m \in Nat /\ l \in 1..S /\ Len(cells) = m * S + l
          /\ p \in Nat /\ p <= m
      BY <1>5, <1>7, <1>9, Zenon
    <3> QED
      BY ONLY <3>1, RunFacts
  <2>2. i \in Nat /\ i <= full /\ Len(run) \in 1..S
    BY <1>3, <1>5, <1>6, <1>9, <2>1, Layout
  <2>3. p * S \in Nat /\ i * S = first * S + p * S
    BY <1>3, Product, Onward, Layout
  <2> HIDE DEF run
  <2>4. ASSUME NEW j \in 1..Len(run)
        PROVE  run[j] = BlockCell(key, i, i = full, Chunk(plain, i), j)
    <3>1. /\ p * S + j \in 1..Len(cells) /\ run[j] = cells[p * S + j]
      BY <2>1
    <3>2. start + (p * S + j) \in 1..Len(o) /\ run[j] = o[start + (p * S + j)]
      BY <1>7, <3>1
    <3>3. start + (p * S + j) = HEADER_LEN + i * S + j
      <4> DEFINE P == p * S
                 I == i * S
                 F == first * S
      <4>1. P \in Nat /\ F \in Nat /\ I = F + P /\ start = HEADER_LEN + F
        BY <1>3, <2>3
      <4> HIDE DEF P, I, F
      <4>2. start + (P + j) = HEADER_LEN + I + j
        BY <4>1, <2>2, Layout
      <4> QED
        BY <4>2 DEF P, I
    <3>4. j \in 1..S /\ i \in 0..full
      BY <1>6, <2>2, Layout
    <3>5. HEADER_LEN + i * S + j <= Len(o)
      <4>1. HEADER_LEN + i * S + j \in 1..Len(o)
        BY <3>2, <3>3, Zenon
      <4> DEFINE x == HEADER_LEN + i * S + j
      <4>2. x \in 1..Len(o)
        BY <4>1
      <4> HIDE DEF x
      <4>3. x <= Len(o)
        BY <4>2, <1>1
      <4> QED
        BY <4>3 DEF x
    <3>6. o[HEADER_LEN + i * S + j] = BlockCell(key, i, i = full, Chunk(plain, i), j)
      BY <3>4, <3>5, Zenon DEF IsSealed, full
    <3> QED
      BY <3>2, <3>3, <3>6, Zenon
  <2>5. /\ Chunk(plain, i) \in Plaintexts
        /\ Len(run) = Len(Chunk(plain, i)) + O
        /\ (i = full) = (Len(run) < S)
    <3>1. CASE i < full
      <4>1. Chunk(plain, i) \in Plaintexts /\ Len(Chunk(plain, i)) = B
        BY <1>6, <2>2, <3>1, FullChunk
      <4>2. Len(run) = S
        BY <1>3, <1>5, <1>6, <1>9, <2>1, <3>1
      <4>3. S = B + O /\ ~(S < S) /\ i # full
        BY <1>6, <2>2, <3>1, Layout
      <4>4. ~(Len(run) < S)
        BY <4>2, <4>3, Zenon
      <4>5. Len(run) = Len(Chunk(plain, i)) + O
        BY <4>1, <4>2, <4>3
      <4>6. (i = full) <=> (Len(run) < S)
        BY <4>3, <4>4, Zenon
      <4> QED
        BY <4>1, <4>5, <4>6
    <3>2. CASE i = full
      <4>1. p = m
        BY <1>3, <1>5, <1>6, <1>9, <3>2
      <4>2. l = rest + O
        BY <1>3, <1>5, <1>6, <3>2, <4>1
      <4>3. Len(run) = rest + O
        BY <2>1, <4>1, <4>2
      <4>4. rest + O < S
        BY <1>6, Layout
      <4>5. Chunk(plain, i) \in Plaintexts /\ Len(Chunk(plain, i)) = rest
        BY <1>6, <3>2, Zenon
      <4> QED
        BY <3>2, <4>3, <4>4, <4>5, Zenon
    <3>3. i < full \/ i = full
      BY <1>6, <2>2
    <3> QED
      BY <3>1, <3>2, <3>3, Zenon
  <2> DEFINE final == i = full
  <2>6. final = (Len(run) < S) /\ \A j \in 1..Len(run) : run[j] = BlockCell(key, i, final, Chunk(plain, i), j)
    BY <2>4, <2>5, Zenon
  <2> HIDE DEF final, i
  <2>7. Passes(run, key, i)
    BY <2>1, <2>2, <2>5, <2>6, WholePasses
  <2> QED
    BY <2>7, Zenon DEF run, i
<1> DEFINE F == first * B
           pass == \A p \in 0..RunCount(Len(cells)) - 1 : Passes(Run(cells, p), key, first + p)
<1>10. pass
  <2> TAKE p \in 0..RunCount(Len(cells)) - 1
  <2>1. p \in Nat /\ p <= m
    BY <1>8
  <2> QED
    BY <1>9, <2>1, Zenon
<1>11. \A c \in 1..Len(cells) : Genuine(cells[c], plain)
  BY <1>7, SealedGenuine
<1>12. /\ Plain(cells) \in Plaintexts
       /\ Len(Plain(cells)) = Len(cells) - RunCount(Len(cells)) * O
       /\ F + Len(Plain(cells)) <= Len(plain)
       /\ \A i \in 1..Len(Plain(cells)) : Plain(cells)[i] = plain[F + i]
  <2>1. /\ cells \in Objects /\ Len(cells) # 0 /\ plain \in Plaintexts /\ first \in Nat
        /\ \A c \in 1..Len(cells) : Genuine(cells[c], plain)
        /\ \A p \in 0..RunCount(Len(cells)) - 1 : Passes(Run(cells, p), key, first + p)
    BY <1>3, <1>7, <1>10, <1>11, Zenon
  <2> QED
    BY ONLY <2>1, PlainFacts
<1>13. to <= F + Len(Plain(cells))
  <2>1. /\ (m + 1) * O = m * O + O /\ m * O \in Nat /\ m * B \in Nat
        /\ (first + m) * B = F + m * B
    BY <1>3, OneMore, Product, Onward, Layout
  <2>2. m * S = m * B + m * O
    BY Layout, Z3
  <2> DEFINE mo == m * O
             mb == m * B
             ms == m * S
  <2>3. /\ mo \in Nat /\ mb \in Nat /\ ms = mb + mo /\ F \in Nat
        /\ to <= F + mb + (l - O) /\ Len(Plain(cells)) = (ms + l) - (mo + O)
    <3>1. RunCount(Len(cells)) * O = mo + O
      BY <1>8, <2>1
    <3>2. Len(cells) = ms + l
      BY <1>7
    <3>3. Len(Plain(cells)) = (ms + l) - (mo + O)
      BY <1>12, <3>1, <3>2, Zenon
    <3>4. to <= (F + mb) + (l - O)
      BY <1>5, <2>1, Zenon
    <3> HIDE DEF ms
    <3> QED
      BY <1>3, <2>1, <2>2, <3>3, <3>4 DEF ms
  <2> HIDE DEF mo, mb, ms, F
  <2> QED
    BY <2>3, Layout
<1>14. r = Slice(Plain(cells), from - F, to - F)
  <2> DEFINE g == (start - HEADER_LEN) \div SealedBlockLen
             passes == \A p \in 0..RunCount(Len(cells)) - 1 : Passes(Run(cells, p), key, g + p)
  <2>1. /\ passes => r = Slice(Plain(cells), from - g * BlockSize, to - g * BlockSize)
        /\ ~passes => r = Refused("authentication") \/ r = Refused("truncated")
    BY OpenSpanCases, Zenon
  <2>2. g = first
    BY <1>3
  <2> HIDE DEF g
  <2> QED
    BY <1>10, <2>1, <2>2, Zenon
<1>15. r = Opened(SubSeq(plain, from + 1, to))
  <2> DEFINE part == Plain(cells)
  <2>1. /\ part \in Plaintexts /\ F + Len(part) <= Len(plain) /\ to <= F + Len(part)
        /\ \A i \in 1..Len(part) : part[i] = plain[F + i]
    BY <1>12, <1>13
  <2>2. r = Slice(part, from - F, to - F)
    BY <1>14, Zenon
  <2>3. F \in Nat /\ F <= from
    BY <1>3
  <2> HIDE DEF part, F, r
  <2> QED
    BY <2>1, <2>2, <2>3, SliceFacts
<1> QED
  BY <1>4, <1>15, Zenon DEF cells, start

\* A whole object that is no longer than the sealed plaintext is never
\* reported as longer than the plaintext.
LEMMA NoLonger ==
  ASSUME NEW c \in Nat, NEW n \in Nat, WholeObject(c), c <= CiphertextLen(n)
  PROVE  PlaintextLen(c) \in Nat /\ PlaintextLen(c) <= n
<1> DEFINE S == SealedBlockLen
           B == BlockSize
           O == BLOCK_OVERHEAD
           d == c - HEADER_LEN
           q == d \div S
           r == d % S
           full == n \div B
           rest == n % B
           QS == q * S
           US == full * S
           QB == q * B
           UB == full * B
<1>1. d \in Nat /\ O <= r
  BY Layout DEF WholeObject
<1>2. q \in Nat /\ r \in 0..S-1 /\ d = QS + r /\ PlaintextLen(c) = QB + r - O
  BY <1>1, DivMod, Layout DEF PlaintextLen
<1>3. /\ full \in Nat /\ rest \in 0..B-1 /\ n = UB + rest
      /\ CiphertextLen(n) = HEADER_LEN + US + rest + O /\ (full + 1) * S = US + S
  BY DivMod, OneMore, Layout DEF CiphertextLen
<1>4. QS \in Nat /\ US \in Nat /\ QB \in Nat /\ UB \in Nat
  BY <1>2, <1>3, Product, Layout
<1>5. q < full + 1
  <2>1. QS < (full + 1) * S
    <3> HIDE DEF QS, US, rest, r
    <3> QED
      BY <1>1, <1>2, <1>3, <1>4, Layout
  <2> QED
    BY <1>2, <1>3, <2>1, Within, Layout
<1>6. PlaintextLen(c) \in Nat
  <2> HIDE DEF QB, r
  <2> QED
    BY <1>1, <1>2, <1>4, Layout
<1>7. CASE q = full
  <2>1. QS = US /\ QB = UB
    BY <1>7
  <2> HIDE DEF QS, US, QB, UB, r, rest
  <2> QED
    BY <1>1, <1>2, <1>3, <1>4, <1>6, <2>1, Layout
<1>8. CASE q < full
  <2>1. QB + B <= UB
    BY <1>2, <1>3, <1>8, Before, Layout
  <2> HIDE DEF QB, UB, r, rest, QS, US
  <2> QED
    BY <1>1, <1>2, <1>3, <1>4, <1>6, <2>1, Layout
<1> QED
  BY <1>2, <1>3, <1>5, <1>7, <1>8

\* wanted_range stays within the object.
LEMMA WantedFacts ==
  ASSUME NEW r \in Ranges, NEW n \in Nat
  PROVE  /\ WantedFrom(r, n) \in Nat /\ WantedFrom(r, n) <= n
         /\ WantedTo(r, n) \in Nat /\ WantedTo(r, n) <= n
<1>1. r.from \in Nat /\ r.to \in Nat /\ r.kind \in {"all", "bounded", "offset", "suffix"}
  BY RangesAssumption
<1>2. WantedFrom(r, n) \in Nat /\ WantedFrom(r, n) <= n
  BY <1>1 DEF WantedFrom, Greatest, Least
<1>3. WantedTo(r, n) \in Nat /\ WantedTo(r, n) <= n
  BY <1>1 DEF WantedTo, Least
<1> QED
  BY <1>2, <1>3

\* read_header accepts the header of an intact object or does not know its key.
LEMMA HeaderOfSealed ==
  ASSUME NEW o \in Objects, NEW plain \in Plaintexts, NEW key, IsSealed(o, key, plain), NEW f
  PROVE  /\ o[1].key = key
         /\ HeaderRefusal(f, o) = IF key \in f.keys THEN "none" ELSE "unknownkey"
<1>1. \A j \in 1..HEADER_LEN : o[j] = [kind |-> "header", key |-> key, at |-> j]
  BY DEF IsSealed, HeaderCell
<1>2. o[1].key = key
  <2>1. 1 \in 1..HEADER_LEN
    BY Layout
  <2>2. o[1] = [kind |-> "header", key |-> key, at |-> 1]
    BY <1>1, <2>1, Zenon
  <2> QED
    BY <2>2
<1>3. ~(Len(o) < HEADER_LEN)
  <2>1. /\ Len(o) = HEADER_LEN + (Len(plain) \div BlockSize) * SealedBlockLen
                       + (Len(plain) % BlockSize) + BLOCK_OVERHEAD
        /\ (Len(plain) \div BlockSize) * SealedBlockLen \in Nat
        /\ Len(plain) % BlockSize \in 0..BlockSize-1
    BY FullAndRest DEF IsSealed
  <2> DEFINE a == (Len(plain) \div BlockSize) * SealedBlockLen
             b == Len(plain) % BlockSize
  <2>2. Len(o) = HEADER_LEN + a + b + BLOCK_OVERHEAD /\ a \in Nat /\ b \in 0..BlockSize-1
    BY <2>1
  <2> HIDE DEF a, b
  <2> QED
    BY <2>2, Layout
<1> QED
  BY <1>1, <1>2, <1>3 DEF HeaderRefusal

\* Whatever it says of a header is a refusal or none.
LEMMA HeaderVerdict ==
  ASSUME NEW f, NEW o
  PROVE  HeaderRefusal(f, o) \in Refusals \cup {"none"}
BY DEF HeaderRefusal, Refusals

-----------------------------------------------------------------------------
(* What one result, and one read under way, must satisfy. *)

AuthenticResult(r) ==
  r.ok => r.to <= Len(r.content) /\ r.bytes = SubSeq(r.content, r.from + 1, r.to)

\* `behind': the handle's frame lacks a key of the keyring.
TrueResult(r, behind) ==
  r.steady /\ r.intact =>
    \/ /\ r.ok
       /\ LET n == Len(r.content) IN
            \/ r.from = WantedFrom(r.range, n) /\ r.to = WantedTo(r.range, n)
            \/ r.bytes = <<>> /\ WantedFrom(r.range, n) >= WantedTo(r.range, n)
    \/ r.why = "unknownkey" /\ behind

\* Results that are kept, dropped or right keep the two properties of reads.
LEMMA ResultsStay ==
  ASSUME ReadsAreAuthentic, ReadsSucceed,
         \A h \in Handles :
           \/ result'[h] = None
           \/ /\ result'[h] = result[h]
              /\ frame[h].keys # ring.keys => frame'[h].keys # ring'.keys
           \/ /\ AuthenticResult(result'[h])
              /\ TrueResult(result'[h], frame'[h].keys # ring'.keys)
  PROVE  ReadsAreAuthentic' /\ ReadsSucceed'
<1>1. ASSUME NEW h \in Handles
      PROVE  result'[h] # None /\ result'[h].ok =>
               /\ result'[h].to <= Len(result'[h].content)
               /\ result'[h].bytes = SubSeq(result'[h].content, result'[h].from + 1, result'[h].to)
  <2>1. result[h] # None => AuthenticResult(result[h])
    BY DEF ReadsAreAuthentic, AuthenticResult
  <2>2. result'[h] = None \/ AuthenticResult(result'[h])
    BY <2>1
  <2> QED
    BY <2>2 DEF AuthenticResult
<1>2. ASSUME NEW h \in Handles
      PROVE  result'[h] # None => TrueResult(result'[h], frame'[h].keys # ring'.keys)
  <2>1. result[h] # None => TrueResult(result[h], frame[h].keys # ring.keys)
    BY Zenon DEF ReadsSucceed, TrueResult
  <2>2. CASE result'[h] = result[h] /\ (frame[h].keys # ring.keys => frame'[h].keys # ring'.keys)
    BY <2>1, <2>2, Zenon DEF TrueResult
  <2> QED
    BY <2>2, Zenon
<1>3. ReadsAreAuthentic'
  BY <1>1 DEF ReadsAreAuthentic
<1>4. ReadsSucceed'
  BY <1>2, Zenon DEF ReadsSucceed, TrueResult
<1> QED
  BY <1>3, <1>4

\* A write marks the reads of its location and no others.
LEMMA DisturbFacts ==
  ASSUME NEW p \in Paths, read \in [Handles -> Reads \cup {None}], Disturb(p)
  PROVE  /\ read' \in [Handles -> Reads \cup {None}]
         /\ \A h \in Handles :
              /\ read'[h] = None <=> read[h] = None
              /\ read[h] # None =>
                   /\ read'[h].path = read[h].path /\ read'[h].range = read[h].range
                   /\ read'[h].from = read[h].from /\ read'[h].to = read[h].to
                   /\ read'[h].start = read[h].start /\ read'[h].end = read[h].end
                   /\ read[h].path = p => read'[h].steady = FALSE
                   /\ read[h].path # p => read'[h] = read[h]
<1>1. ASSUME NEW h \in Handles
      PROVE  /\ read'[h] \in Reads \cup {None}
             /\ read'[h] = None <=> read[h] = None
             /\ read[h] # None =>
                   /\ read'[h].path = read[h].path /\ read'[h].range = read[h].range
                   /\ read'[h].from = read[h].from /\ read'[h].to = read[h].to
                   /\ read'[h].start = read[h].start /\ read'[h].end = read[h].end
                   /\ read[h].path = p => read'[h].steady = FALSE
                   /\ read[h].path # p => read'[h] = read[h]
  <2> DEFINE g == read[h]
             k == read'[h]
  <2>1. k = IF g # None /\ g.path = p THEN [g EXCEPT !.steady = FALSE] ELSE g
    BY DEF Disturb
  <2>2. g \in Reads \cup {None}
    OBVIOUS
  <2> HIDE DEF g, k
  <2>3. CASE g # None /\ g.path = p
    <3>1. g \in Reads /\ k = [g EXCEPT !.steady = FALSE]
      BY <2>1, <2>2, <2>3
    <3>2. k = [path |-> g.path, range |-> g.range, from |-> g.from, to |-> g.to,
               start |-> g.start, end |-> g.end, steady |-> FALSE]
      BY ONLY <3>1 DEF Reads
    <3>3. /\ k \in Reads /\ k.path = g.path /\ k.range = g.range /\ k.from = g.from /\ k.to = g.to
          /\ k.start = g.start /\ k.end = g.end /\ k.steady = FALSE
      BY ONLY <3>1, <3>2 DEF Reads
    <3> QED
      BY <2>3, <3>3, NoneAssumption DEF g, k
  <2>4. CASE ~(g # None /\ g.path = p)
    <3>1. k = g
      BY <2>1, <2>4
    <3> QED
      BY <2>2, <2>4, <3>1 DEF g, k
  <2> QED
    BY <2>3, <2>4
<1>2. DOMAIN read' = Handles /\ read' = [h \in Handles |-> read'[h]]
  BY DEF Disturb
<1>3. read' \in [Handles -> Reads \cup {None}]
  BY <1>1, <1>2
<1> QED
  BY <1>1, <1>3

-----------------------------------------------------------------------------
(* The invariant is kept by every kind of step. *)

\* Every step that writes a location, or removes what is there.
LEMMA Written ==
  ASSUME StoreInv, NEW p \in Paths, NEW o, NEW c,
         objects' = [objects EXCEPT ![p] = o], content' = [content EXCEPT ![p] = c],
         \/ o = None /\ c = None
         \/ /\ o \in Objects /\ c \in Plaintexts /\ Len(o) <= CiphertextLen(Len(c))
            /\ \A x \in 1..Len(o) : Genuine(o[x], c),
         \/ intact' = intact \ {p}
         \/ intact' = intact \cup {p} /\ o \in Objects /\ \E key \in ring.keys : IsSealed(o, key, c),
         Disturb(p),
         upload' \in [Handles -> Uploads \cup {None}],
         \A h \in Handles : upload'[h] = None \/ upload'[h] = upload[h],
         result' \in [Handles -> Results \cup {None}],
         \A h \in Handles : result'[h] = None \/ result'[h] = result[h],
         damages' \in 0..MaxDamages, UNCHANGED <<ring, frame, faults>>
  PROVE  StoreInv'
<1>1. TypeOK
  BY DEF StoreInv
<1>2. /\ read' \in [Handles -> Reads \cup {None}]
      /\ \A h \in Handles :
              /\ read'[h] = None <=> read[h] = None
              /\ read[h] # None =>
                   /\ read'[h].path = read[h].path /\ read'[h].range = read[h].range
                   /\ read'[h].from = read[h].from /\ read'[h].to = read[h].to
                   /\ read'[h].start = read[h].start /\ read'[h].end = read[h].end
                   /\ read[h].path = p => read'[h].steady = FALSE
                   /\ read[h].path # p => read'[h] = read[h]
  BY <1>1, DisturbFacts DEF TypeOK
<1>3. /\ objects \in [Paths -> Objects \cup {None}] /\ content \in [Paths -> Plaintexts \cup {None}]
      /\ intact \subseteq {q \in Paths : objects[q] # None}
      /\ \A q \in Paths : objects[q] = None <=> content[q] = None
  BY <1>1 DEF TypeOK
<1>4. /\ objects'[p] = o /\ content'[p] = c
      /\ \A q \in Paths : q # p => objects'[q] = objects[q] /\ content'[q] = content[q]
      /\ \A q \in intact' : q # p => q \in intact
      /\ p \in intact' => o \in Objects /\ \E key \in ring.keys : IsSealed(o, key, c)
      /\ \A q \in Paths : q # p /\ q \in intact => q \in intact'
      /\ intact' \subseteq Paths
  BY <1>3
<1>5. o = None <=> c = None
  BY NoneAssumption
<1>6. o \in Objects \cup {None} /\ c \in Plaintexts \cup {None}
  OBVIOUS
<1>7. TypeOK'
  <2>1. objects' \in [Paths -> Objects \cup {None}] /\ content' \in [Paths -> Plaintexts \cup {None}]
    BY <1>3, <1>6
  <2>2. intact' \subseteq {q \in Paths : objects'[q] # None}
    BY <1>3, <1>4, NoneAssumption
  <2>3. \A q \in Paths : objects'[q] = None <=> content'[q] = None
    BY <1>3, <1>4, <1>5
  <2>4. ring' \in Frames /\ ring'.current \in ring'.keys /\ frame' \in [Handles -> Frames \cup {None}]
        /\ faults' \in 0..MaxFaults
    BY <1>1 DEF TypeOK
  <2>5. ASSUME NEW h \in Handles
        PROVE  /\ frame'[h] # None => frame'[h].current \in frame'[h].keys
               /\ upload'[h] # None =>
                    /\ frame'[h] # None
                    /\ Len(upload'[h].pending) < BlockSize
                    /\ Len(upload'[h].given) =
                         upload'[h].next_index * BlockSize + Len(upload'[h].pending)
               /\ read'[h] # None =>
                    /\ frame'[h] # None /\ read'[h].from < read'[h].to
                    /\ read'[h].start < read'[h].end
    <3>1. /\ frame[h] # None => frame[h].current \in frame[h].keys
          /\ upload[h] # None =>
               /\ frame[h] # None
               /\ Len(upload[h].pending) < BlockSize
               /\ Len(upload[h].given) = upload[h].next_index * BlockSize + Len(upload[h].pending)
          /\ read[h] # None =>
               /\ frame[h] # None /\ read[h].from < read[h].to /\ read[h].start < read[h].end
      BY <1>1 DEF TypeOK
    <3>2. frame'[h] = frame[h]
      OBVIOUS
    <3>3. upload'[h] = None \/ upload'[h] = upload[h]
      OBVIOUS
    <3>4. read'[h] # None =>
            /\ frame[h] # None /\ read'[h].from < read'[h].to /\ read'[h].start < read'[h].end
      BY <1>2, <3>1
    <3> QED
      BY <3>1, <3>2, <3>3, <3>4, Zenon
  <2> QED
    BY <1>2, <2>1, <2>2, <2>3, <2>4, <2>5, Zenon DEF TypeOK
<1>8. KeysGrow'
  BY DEF StoreInv, KeysGrow
<1>9. Whole'
  <2> SUFFICES ASSUME NEW q \in intact'
               PROVE  \E key \in ring.keys : IsSealed(objects'[q], key, content'[q])
    BY DEF Whole, IsSealed
  <2>1. CASE q = p
    BY <1>4, <2>1, Zenon
  <2>2. CASE q # p
    <3>1. q \in intact /\ q \in Paths
      BY <1>4, <2>2
    <3>2. \E key \in ring.keys : IsSealed(objects[q], key, content[q])
      BY <3>1, Zenon DEF StoreInv, Whole
    <3> QED
      BY <1>4, <2>2, <3>1, <3>2, Zenon
  <2> QED
    BY <2>1, <2>2
<1>10. Remains'
  <2> SUFFICES ASSUME NEW q \in Paths, objects'[q] # None
               PROVE  /\ Len(objects'[q]) <= CiphertextLen(Len(content'[q]))
                      /\ \A x \in 1..Len(objects'[q]) : Genuine(objects'[q][x], content'[q])
    BY Zenon DEF Remains
  <2>1. CASE q = p
    BY <1>4, <2>1, Zenon
  <2>2. CASE q # p
    <3>1. objects'[q] = objects[q] /\ content'[q] = content[q]
      BY <1>4, <2>2
    <3> QED
      BY <3>1, Zenon DEF StoreInv, Remains
  <2> QED
    BY <2>1, <2>2
<1>11. Uploading'
  <2> SUFFICES ASSUME NEW h \in Handles, upload'[h] # None
               PROVE  Begun(upload'[h], frame'[h].current)
    BY Zenon DEF Uploading
  <2>1. upload'[h] = upload[h] /\ frame'[h] = frame[h]
    OBVIOUS
  <2> QED
    BY <2>1, Zenon DEF StoreInv, Uploading
<1>12. Reading'
  <2> SUFFICES ASSUME NEW h \in Handles, read'[h] # None
               PROVE  LET g == read'[h]
                          n == Len(content'[g.path])
                      IN /\ g.start = SpanStart(g.from)
                         /\ g.steady => objects'[g.path] # None
                         /\ g.steady /\ g.path \in intact' =>
                              /\ g.from = WantedFrom(g.range, n) /\ g.to = WantedTo(g.range, n)
                              /\ g.end = SpanEnd(g.from, g.to, n)
    BY Zenon DEF Reading
  <2>1. read[h] # None
    BY <1>2
  <2>2. LET g == read[h]
            n == Len(content[g.path])
        IN /\ g.start = SpanStart(g.from)
           /\ g.steady => objects[g.path] # None
           /\ g.steady /\ g.path \in intact =>
                /\ g.from = WantedFrom(g.range, n) /\ g.to = WantedTo(g.range, n)
                /\ g.end = SpanEnd(g.from, g.to, n)
    BY <2>1, Zenon DEF StoreInv, Reading
  <2>3. CASE read[h].path = p
    <3>1. read'[h].steady = FALSE /\ read'[h].start = read[h].start /\ read'[h].from = read[h].from
      BY <1>2, <2>1, <2>3
    <3> QED
      BY <2>2, <3>1, Zenon
  <2>4. CASE read[h].path # p
    <3>1. read'[h] = read[h]
      BY <1>2, <2>1, <2>4
    <3>2. read[h].path \in Paths
      <4>1. read[h] \in Reads
        BY <1>1, <2>1 DEF TypeOK
      <4> QED
        BY <4>1 DEF Reads
    <3>3. /\ objects'[read[h].path] = objects[read[h].path]
          /\ content'[read[h].path] = content[read[h].path]
          /\ read[h].path \in intact' => read[h].path \in intact
      BY <1>4, <2>4, <3>2, Zenon
    <3> QED
      BY <2>2, <3>1, <3>3, Zenon
  <2> QED
    BY <2>3, <2>4
<1>13. ReadsAreAuthentic' /\ ReadsSucceed'
  <2>1. \A h \in Handles : frame[h].keys # ring.keys => frame'[h].keys # ring'.keys
    OBVIOUS
  <2> QED
    BY <2>1, ResultsStay, Zenon DEF StoreInv
<1> QED
  BY <1>7, <1>8, <1>9, <1>10, <1>11, <1>12, <1>13 DEF StoreInv

\* Every step of an upload before the object appears.
LEMMA UploadStep ==
  ASSUME StoreInv, NEW h \in Handles, NEW u,
         upload' = [upload EXCEPT ![h] = u],
         \/ u = None
         \/ /\ u \in Uploads /\ frame[h] # None /\ Begun(u, frame[h].current)
            /\ Len(u.pending) < BlockSize,
         result' = result \/ result' = [result EXCEPT ![h] = None],
         faults' \in 0..MaxFaults,
         UNCHANGED <<ring, frame, objects, content, intact, read, damages>>
  PROVE  StoreInv'
<1>1. TypeOK
  BY DEF StoreInv
<1>2. /\ upload \in [Handles -> Uploads \cup {None}] /\ result \in [Handles -> Results \cup {None}]
  BY <1>1 DEF TypeOK
<1>3. /\ upload'[h] = u /\ \A k \in Handles : k # h => upload'[k] = upload[k]
      /\ \A k \in Handles : result'[k] = None \/ result'[k] = result[k]
  BY <1>2
<1>4. TypeOK'
  <2>1. upload' \in [Handles -> Uploads \cup {None}] /\ result' \in [Handles -> Results \cup {None}]
    BY <1>2
  <2>2. ASSUME NEW k \in Handles
        PROVE  upload'[k] # None =>
                    /\ frame[k] # None
                    /\ Len(upload'[k].pending) < BlockSize
                    /\ Len(upload'[k].given) =
                         upload'[k].next_index * BlockSize + Len(upload'[k].pending)
    <3>1. CASE k = h
      BY <1>3, <3>1, Zenon DEF Begun, Rest
    <3>2. CASE k # h
      <4>1. upload'[k] = upload[k]
        BY <1>3, <3>2
      <4> QED
        BY <1>1, <4>1, Zenon DEF TypeOK
    <3> QED
      BY <3>1, <3>2
  <2>3. /\ ring' = ring /\ frame' = frame /\ objects' = objects /\ content' = content
        /\ read' = read /\ intact' = intact /\ damages' = damages
    OBVIOUS
  <2> QED
    BY <1>1, <2>1, <2>2, <2>3, Zenon DEF TypeOK
<1>5. KeysGrow'
  BY <1>3 DEF StoreInv, KeysGrow
<1>6. Whole' /\ Remains' /\ Reading'
  <2>1. /\ ring' = ring /\ objects' = objects /\ content' = content
        /\ read' = read /\ intact' = intact
    OBVIOUS
  <2> QED
    BY <2>1, Zenon DEF StoreInv, Whole, Remains, Reading
<1>7. Uploading'
  <2> SUFFICES ASSUME NEW k \in Handles, upload'[k] # None
               PROVE  Begun(upload'[k], frame[k].current)
    BY Zenon DEF Uploading
  <2>1. CASE k = h
    BY <1>3, <2>1, Zenon
  <2>2. CASE k # h
    <3>1. upload'[k] = upload[k]
      BY <1>3, <2>2
    <3> QED
      BY <3>1, Zenon DEF StoreInv, Uploading
  <2> QED
    BY <2>1, <2>2
<1>8. ReadsAreAuthentic' /\ ReadsSucceed'
  <2>1. \A k \in Handles : frame[k].keys # ring.keys => frame'[k].keys # ring'.keys
    OBVIOUS
  <2> QED
    BY <1>3, <2>1, ResultsStay, Zenon DEF StoreInv
<1> QED
  BY <1>4, <1>5, <1>6, <1>7, <1>8 DEF StoreInv

\* What a read under way must satisfy.
SoundRead(g) ==
  /\ g \in Reads /\ g.from < g.to /\ g.start < g.end
  /\ g.start = SpanStart(g.from)
  /\ g.steady => objects[g.path] # None
  /\ g.steady /\ g.path \in intact =>
       /\ g.from = WantedFrom(g.range, Len(content[g.path]))
       /\ g.to = WantedTo(g.range, Len(content[g.path]))
       /\ g.end = SpanEnd(g.from, g.to, Len(content[g.path]))

\* Every step of a read.
LEMMA ReadStep ==
  ASSUME StoreInv, NEW h \in Handles, frame[h] # None, NEW g, NEW r,
         read' = [read EXCEPT ![h] = g], result' = [result EXCEPT ![h] = r],
         g = None \/ SoundRead(g),
         \/ r = None \/ r = result[h]
         \/ r \in Results /\ AuthenticResult(r) /\ TrueResult(r, frame[h].keys # ring.keys),
         faults' \in 0..MaxFaults,
         UNCHANGED <<ring, frame, objects, content, intact, upload, damages>>
  PROVE  StoreInv'
<1>1. TypeOK
  BY DEF StoreInv
<1>2. /\ read \in [Handles -> Reads \cup {None}] /\ result \in [Handles -> Results \cup {None}]
  BY <1>1 DEF TypeOK
<1>3. /\ read'[h] = g /\ \A k \in Handles : k # h => read'[k] = read[k]
      /\ result'[h] = r /\ \A k \in Handles : k # h => result'[k] = result[k]
  BY <1>2
<1>4. TypeOK'
  <2>0. g \in Reads \cup {None} /\ r \in Results \cup {None}
    BY <1>2 DEF SoundRead
  <2>1. read' \in [Handles -> Reads \cup {None}] /\ result' \in [Handles -> Results \cup {None}]
    BY <1>2, <2>0
  <2>2. ASSUME NEW k \in Handles
        PROVE  read'[k] # None =>
                 /\ frame[k] # None /\ read'[k].from < read'[k].to /\ read'[k].start < read'[k].end
    <3>1. CASE k = h
      BY <1>3, <3>1, Zenon DEF SoundRead
    <3>2. CASE k # h
      <4>1. read'[k] = read[k]
        BY <1>3, <3>2
      <4> QED
        BY <1>1, <4>1, Zenon DEF TypeOK
    <3> QED
      BY <3>1, <3>2
  <2>3. /\ ring' = ring /\ frame' = frame /\ objects' = objects /\ content' = content
        /\ upload' = upload /\ intact' = intact /\ damages' = damages
    OBVIOUS
  <2> QED
    BY <1>1, <2>1, <2>2, <2>3, Zenon DEF TypeOK
<1>5. KeysGrow'
  BY <1>3 DEF StoreInv, KeysGrow
<1>6. Whole' /\ Remains' /\ Uploading'
  <2>1. /\ ring' = ring /\ objects' = objects /\ content' = content
        /\ upload' = upload /\ intact' = intact /\ frame' = frame
    OBVIOUS
  <2> QED
    BY <2>1, Zenon DEF StoreInv, Whole, Remains, Uploading
<1>7. Reading'
  <2>1. /\ objects' = objects /\ content' = content /\ intact' = intact
    OBVIOUS
  <2>2. ASSUME NEW k \in Handles, read'[k] # None
        PROVE  LET j == read'[k]
                   n == Len(content[j.path])
               IN /\ j.start = SpanStart(j.from)
                  /\ j.steady => objects[j.path] # None
                  /\ j.steady /\ j.path \in intact =>
                       /\ j.from = WantedFrom(j.range, n) /\ j.to = WantedTo(j.range, n)
                       /\ j.end = SpanEnd(j.from, j.to, n)
    <3>1. CASE k = h
      <4>1. read'[k] = g
        BY <1>3, <3>1
      <4> QED
        BY <2>2, <4>1, Zenon DEF SoundRead
    <3>2. CASE k # h
      <4>1. read'[k] = read[k]
        BY <1>3, <3>2
      <4> QED
        BY <2>2, <4>1, Zenon DEF StoreInv, Reading
    <3> QED
      BY <3>1, <3>2
  <2> QED
    BY <2>1, <2>2, Zenon DEF Reading
<1>8. ReadsAreAuthentic' /\ ReadsSucceed'
  <2>1. frame' = frame /\ ring' = ring
    OBVIOUS
  <2>2. \A k \in Handles :
           \/ result'[k] = None
           \/ /\ result'[k] = result[k]
              /\ frame[k].keys # ring.keys => frame'[k].keys # ring'.keys
           \/ /\ AuthenticResult(result'[k])
              /\ TrueResult(result'[k], frame'[k].keys # ring'.keys)
    <3> TAKE k \in Handles
    <3>1. CASE k = h
      BY <1>3, <2>1, <3>1, Zenon
    <3>2. CASE k # h
      BY <1>3, <2>1, <3>2, Zenon
    <3> QED
      BY <3>1, <3>2
  <2> QED
    BY <2>2, ResultsStay, Zenon DEF StoreInv
<1> QED
  BY <1>4, <1>5, <1>6, <1>7, <1>8 DEF StoreInv

-----------------------------------------------------------------------------
(* One lemma per action. *)

\* What is known of an object that is there.
LEMMA Stored ==
  ASSUME StoreInv, NEW p \in Paths, objects[p] # None
  PROVE  /\ objects[p] \in Objects /\ content[p] \in Plaintexts
         /\ Len(objects[p]) \in Nat /\ Len(content[p]) \in Nat
         /\ Len(objects[p]) <= CiphertextLen(Len(content[p]))
         /\ \A c \in 1..Len(objects[p]) : Genuine(objects[p][c], content[p])
         /\ p \in intact =>
              /\ \E key \in ring.keys : IsSealed(objects[p], key, content[p])
              /\ WholeObject(Len(objects[p])) /\ PlaintextLen(Len(objects[p])) = Len(content[p])
<1>1. objects[p] \in Objects /\ content[p] \in Plaintexts
  BY DEF StoreInv, TypeOK
<1>2. Len(objects[p]) \in Nat /\ Len(content[p]) \in Nat
  BY <1>1 DEF Objects, Plaintexts
<1>3. /\ Len(objects[p]) <= CiphertextLen(Len(content[p]))
      /\ \A c \in 1..Len(objects[p]) : Genuine(objects[p][c], content[p])
  BY Zenon DEF StoreInv, Remains
<1>4. ASSUME p \in intact
      PROVE  /\ \E key \in ring.keys : IsSealed(objects[p], key, content[p])
             /\ WholeObject(Len(objects[p])) /\ PlaintextLen(Len(objects[p])) = Len(content[p])
  <2>1. \E key \in ring.keys : IsSealed(objects[p], key, content[p])
    BY <1>4, Zenon DEF StoreInv, Whole
  <2>2. Len(objects[p]) = CiphertextLen(Len(content[p]))
    BY <2>1 DEF IsSealed
  <2> QED
    BY <1>2, <2>1, <2>2, LengthsInverse
<1> QED
  BY <1>1, <1>2, <1>3, <1>4

\* What is sealed under a kept key may be stored.
LEMMA StoreStep ==
  ASSUME StoreInv, NEW p \in Paths, NEW cells \in Objects, NEW plain \in Plaintexts,
         NEW key \in ring.keys, IsSealed(cells, key, plain), Store(p, cells, plain),
         upload' \in [Handles -> Uploads \cup {None}],
         \A h \in Handles : upload'[h] = None \/ upload'[h] = upload[h],
         result' \in [Handles -> Results \cup {None}],
         \A h \in Handles : result'[h] = None \/ result'[h] = result[h],
         UNCHANGED <<ring, frame, damages, faults>>
  PROVE  StoreInv'
<1>1. Len(cells) = CiphertextLen(Len(plain)) /\ Len(cells) \in Nat
  BY DEF IsSealed, Objects
<1>2. Len(cells) <= CiphertextLen(Len(plain)) /\ \A x \in 1..Len(cells) : Genuine(cells[x], plain)
  BY <1>1, SealedGenuine
<1>3. /\ objects' = [objects EXCEPT ![p] = cells] /\ content' = [content EXCEPT ![p] = plain]
      /\ intact' = intact \cup {p} /\ Disturb(p)
  BY DEF Store
<1>4. damages' \in 0..MaxDamages
  BY DEF StoreInv, TypeOK
<1>5. UNCHANGED <<ring, frame, faults>>
  OBVIOUS
<1> QED
  BY <1>2, <1>3, <1>4, <1>5, Written, Zenon

\* put_opts: the object appears sealed in one step.
LEMMA PutOptsStep ==
  ASSUME StoreInv, NEW h \in Handles, NEW p \in Paths, NEW plain \in Parts, PutOpts(h, p, plain)
  PROVE  StoreInv'
<1>1. frame[h] \in Frames /\ frame[h].current \in ring.keys /\ plain \in Plaintexts
  BY PartsAssumption DEF PutOpts, Free, StoreInv, TypeOK, KeysGrow
<1>2. /\ Store(p, Seal(frame[h], plain), plain) /\ result' = [result EXCEPT ![h] = None]
      /\ UNCHANGED <<ring, frame, upload, damages, faults>>
  BY DEF PutOpts
<1>3. Seal(frame[h], plain) \in Objects /\ IsSealed(Seal(frame[h], plain), frame[h].current, plain)
  BY <1>1, SealFacts
<1>4. /\ upload' \in [Handles -> Uploads \cup {None}] /\ upload' = upload
      /\ result' \in [Handles -> Results \cup {None}]
      /\ \A k \in Handles : result'[k] = None \/ result'[k] = result[k]
      /\ UNCHANGED <<ring, frame, damages, faults>>
  BY <1>2 DEF StoreInv, TypeOK
<1> QED
  BY <1>1, <1>2, <1>3, <1>4, StoreStep, Zenon

\* complete: the upload's object appears, sealed like one put.
LEMMA CompleteStep ==
  ASSUME StoreInv, NEW h \in Handles, Complete(h)
  PROVE  StoreInv'
<1> DEFINE f == frame[h]
           d == Drained(f, upload[h])
           o == d.sent \o SealBlock(f.current, d.next_index, TRUE, d.pending)
<1>1. /\ upload[h] # None /\ Store(d.path, o, d.given)
      /\ upload' = [upload EXCEPT ![h] = None]
      /\ UNCHANGED <<ring, frame, result, damages, faults>>
  BY DEF Complete
<1>2. upload[h] \in Uploads /\ f \in Frames /\ f.current \in ring.keys
  BY <1>1 DEF StoreInv, TypeOK, KeysGrow
<1>3. Begun(upload[h], f.current)
  BY <1>1, Zenon DEF StoreInv, Uploading
<1>4. /\ d \in Uploads /\ Begun(d, f.current) /\ d.header_sent /\ Len(d.pending) < BlockSize
  BY <1>2, <1>3, DrainedFacts
<1> HIDE DEF d
<1>5. o \in Objects /\ IsSealed(o, f.current, d.given)
  BY <1>2, <1>4, CompletedFacts
<1>6. d.path \in Paths /\ d.given \in Plaintexts
  BY <1>4 DEF Uploads
<1> HIDE DEF o, f
<1>7. /\ result' \in [Handles -> Results \cup {None}] /\ result' = result
      /\ upload' \in [Handles -> Uploads \cup {None}]
      /\ \A k \in Handles : upload'[k] = None \/ upload'[k] = upload[k]
      /\ UNCHANGED <<ring, frame, damages, faults>>
  BY <1>1 DEF StoreInv, TypeOK
<1> QED
  BY <1>1, <1>2, <1>5, <1>6, <1>7, StoreStep, Zenon

\* copy_opts: the copy is as whole, or as damaged, as what is copied.
LEMMA CopyOptsStep ==
  ASSUME StoreInv, NEW h \in Handles, NEW from \in Paths, NEW to \in Paths,
         CopyOpts(h, from, to)
  PROVE  StoreInv'
<1> DEFINE o == objects[from]
           c == content[from]
<1>1. /\ o # None
      /\ objects' = [objects EXCEPT ![to] = o] /\ content' = [content EXCEPT ![to] = c]
      /\ intact' = IF from \in intact THEN intact \cup {to} ELSE intact \ {to}
      /\ Disturb(to) /\ result' = [result EXCEPT ![h] = None]
      /\ UNCHANGED <<ring, frame, upload, damages, faults>>
  BY DEF CopyOpts
<1>2. /\ o \in Objects /\ c \in Plaintexts /\ Len(o) <= CiphertextLen(Len(c))
      /\ \A x \in 1..Len(o) : Genuine(o[x], c)
      /\ from \in intact => \E key \in ring.keys : IsSealed(o, key, c)
  BY <1>1, Stored, Zenon
<1> HIDE DEF o, c
<1>3. /\ upload' \in [Handles -> Uploads \cup {None}] /\ upload' = upload
      /\ result' \in [Handles -> Results \cup {None}]
      /\ \A k \in Handles : result'[k] = None \/ result'[k] = result[k]
      /\ damages' \in 0..MaxDamages /\ UNCHANGED <<ring, frame, faults>>
  BY <1>1 DEF StoreInv, TypeOK
<1>4. \/ intact' = intact \ {to}
      \/ intact' = intact \cup {to} /\ o \in Objects /\ \E key \in ring.keys : IsSealed(o, key, c)
  BY <1>1, <1>2, Zenon
<1> QED
  BY <1>1, <1>2, <1>3, <1>4, Written, Zenon

\* delete: nothing is left at the location.
LEMMA DeleteStep ==
  ASSUME StoreInv, NEW h \in Handles, NEW p \in Paths, Delete(h, p)
  PROVE  StoreInv'
<1>1. /\ objects' = [objects EXCEPT ![p] = None] /\ content' = [content EXCEPT ![p] = None]
      /\ intact' = intact \ {p}
      /\ Disturb(p) /\ result' = [result EXCEPT ![h] = None]
      /\ UNCHANGED <<ring, frame, upload, damages, faults>>
  BY DEF Delete
<1>2. /\ upload' \in [Handles -> Uploads \cup {None}] /\ upload' = upload
      /\ result' \in [Handles -> Results \cup {None}]
      /\ \A k \in Handles : result'[k] = None \/ result'[k] = result[k]
      /\ damages' \in 0..MaxDamages /\ UNCHANGED <<ring, frame, faults>>
  BY <1>1 DEF StoreInv, TypeOK
<1> QED
  BY <1>1, <1>2, Written, Zenon

\* put_multipart_opts: an upload that was given nothing is well begun.
LEMMA PutMultipartStep ==
  ASSUME StoreInv, NEW h \in Handles, NEW p \in Paths, PutMultipart(h, p)
  PROVE  StoreInv'
<1> DEFINE u == [path |-> p, pending |-> <<>>, next_index |-> 0, header_sent |-> FALSE,
                 sent |-> <<>>, failed |-> FALSE, given |-> <<>>]
<1>1. /\ frame[h] # None /\ upload' = [upload EXCEPT ![h] = u] /\ result' = [result EXCEPT ![h] = None]
      /\ UNCHANGED <<ring, frame, objects, content, intact, read, damages, faults>>
  BY DEF PutMultipart, Free, stored
<1>2. u \in Uploads
  <2> DEFINE e == <<>>
  <2>1. e \in Plaintexts /\ e \in Objects
    BY DEF Plaintexts, Objects
  <2> HIDE DEF e
  <2>2. [path |-> p, pending |-> e, next_index |-> 0, header_sent |-> FALSE,
         sent |-> e, failed |-> FALSE, given |-> e] \in Uploads
    BY <2>1 DEF Uploads
  <2> QED
    BY <2>2 DEF e
<1>3. /\ u.pending = <<>> /\ u.given = <<>> /\ u.next_index = 0 /\ u.sent = <<>>
      /\ u.header_sent = FALSE
  OBVIOUS
<1> HIDE DEF u
<1>4. Begun(u, frame[h].current) /\ Len(u.pending) < BlockSize
  <2>1. 0 * BlockSize = 0 /\ 0 < BlockSize
    BY Layout
  <2>2. Len(u.given) = u.next_index * BlockSize + Len(u.pending)
    BY <1>3, <2>1
  <2>3. 1..Len(u.pending) = {}
    BY <1>3
  <2> QED
    BY <1>3, <2>1, <2>2, <2>3 DEF Begun, Rest
<1>5. faults' \in 0..MaxFaults /\ UNCHANGED <<ring, frame, objects, content, intact, read, damages>>
  BY <1>1 DEF StoreInv, TypeOK
<1> QED
  BY <1>1, <1>2, <1>4, <1>5, UploadStep, Zenon

\* put_part: the part joins the buffer and the full blocks are sent.
LEMMA PutPartStep ==
  ASSUME StoreInv, NEW h \in Handles, NEW part \in Parts, PutPart(h, part)
  PROVE  StoreInv'
<1> DEFINE f == frame[h]
           v == Given(upload[h], part)
           d == Drained(f, v)
<1>1. /\ upload[h] # None /\ upload' = [upload EXCEPT ![h] = d]
      /\ UNCHANGED <<ring, frame, objects, content, intact, read, result, damages, faults>>
  BY DEF PutPart, stored
<1>2. upload[h] \in Uploads /\ f \in Frames /\ f # None /\ part \in Plaintexts
  BY <1>1, PartsAssumption DEF StoreInv, TypeOK
<1>3. Begun(upload[h], f.current)
  BY <1>1, Zenon DEF StoreInv, Uploading
<1>4. v \in Uploads /\ Begun(v, f.current)
  BY <1>2, <1>3, GivenFacts
<1> HIDE DEF v
<1>5. d \in Uploads /\ Begun(d, f.current) /\ Len(d.pending) < BlockSize
  BY <1>2, <1>4, DrainedFacts
<1>6. faults' \in 0..MaxFaults /\ UNCHANGED <<ring, frame, objects, content, intact, read, damages>>
  BY <1>1 DEF StoreInv, TypeOK
<1> HIDE DEF d
<1> QED
  BY <1>1, <1>2, <1>5, <1>6, UploadStep, Zenon DEF f

\* A failure changes neither what was sent nor what was kept.
LEMMA PartFailsStep ==
  ASSUME StoreInv, NEW h \in Handles, PartFails(h)
  PROVE  StoreInv'
<1> DEFINE w == upload[h]
           yes == TRUE
           u == [w EXCEPT !.failed = yes]
<1>1. /\ w # None /\ faults' = faults + 1 /\ faults < MaxFaults
      /\ upload' = [upload EXCEPT ![h] = u]
      /\ UNCHANGED <<ring, frame, objects, content, intact, read, result, damages>>
  BY DEF PartFails, stored
<1>2. w \in Uploads /\ frame[h] # None /\ Len(w.pending) < BlockSize
  BY <1>1 DEF StoreInv, TypeOK
<1>3. Begun(w, frame[h].current)
  BY <1>1, Zenon DEF StoreInv, Uploading
<1>4. faults' \in 0..MaxFaults
  BY <1>1, BoundsAssumption DEF StoreInv, TypeOK
<1>5. yes \in BOOLEAN
  OBVIOUS
<1>a. u = [w EXCEPT !.failed = yes]
  BY Zenon
<1> HIDE DEF w, yes, u
<1>6. u = [path |-> w.path, pending |-> w.pending, next_index |-> w.next_index,
           header_sent |-> w.header_sent, sent |-> w.sent, failed |-> yes, given |-> w.given]
  BY ONLY <1>a, <1>2 DEF Uploads
<1>7. /\ u \in Uploads /\ u.pending = w.pending /\ u.next_index = w.next_index
      /\ u.header_sent = w.header_sent /\ u.sent = w.sent /\ u.given = w.given
  BY ONLY <1>6, <1>5, <1>2 DEF Uploads
<1>8. Begun(u, frame[h].current) /\ Len(u.pending) < BlockSize
  BY <1>2, <1>3, <1>7, Zenon DEF Begun
<1>9. UNCHANGED <<ring, frame, objects, content, intact, read, damages>> /\ result' = result
  BY <1>1
<1> QED
  BY <1>1, <1>2, <1>4, <1>7, <1>8, <1>9, UploadStep, Zenon

\* abort: the upload is forgotten.
LEMMA AbortStep ==
  ASSUME StoreInv, NEW h \in Handles, Abort(h)
  PROVE  StoreInv'
<1>1. /\ upload' = [upload EXCEPT ![h] = None] /\ result' = result
      /\ UNCHANGED <<ring, frame, objects, content, intact, read, damages>> /\ faults' = faults
  BY DEF Abort, stored
<1>2. faults' \in 0..MaxFaults
  BY <1>1 DEF StoreInv, TypeOK
<1> QED
  BY <1>1, <1>2, UploadStep, Zenon

\* Bytes are missing at the end.
LEMMA TruncatedFacts ==
  ASSUME NEW o \in Objects, NEW plain, \A c \in 1..Len(o) : Genuine(o[c], plain),
         NEW n \in 0..Len(o) - 1
  PROVE  LET q == Truncated(o, n) IN
         q \in Objects /\ Len(q) <= Len(o) /\ \A c \in 1..Len(q) : Genuine(q[c], plain)
<1> DEFINE q == SubSeq(o, 1, n)
<1>1. o \in Seq(Cells) /\ Len(o) \in Nat /\ n \in Nat /\ n <= Len(o)
  BY DEF Objects
<1>2. q \in Seq(Cells) /\ Len(q) = n /\ \A c \in 1..n : c \in 1..Len(o) /\ q[c] = o[c]
  BY <1>1
<1> HIDE DEF q
<1>3. \A c \in 1..Len(q) : Genuine(q[c], plain)
  BY <1>2
<1> QED
  BY <1>1, <1>2, <1>3 DEF Truncated, Objects, q

\* A byte is altered.
LEMMA FlippedFacts ==
  ASSUME NEW o \in Objects, NEW plain, \A c \in 1..Len(o) : Genuine(o[c], plain),
         NEW c \in 1..Len(o)
  PROVE  LET q == Flipped(o, c) IN
         q \in Objects /\ Len(q) <= Len(o) /\ \A x \in 1..Len(q) : Genuine(q[x], plain)
<1> DEFINE junk == [kind |-> "junk", key |-> 0, at |-> 0]
           q == [o EXCEPT ![c] = junk]
<1>1. o \in Seq(Cells) /\ Len(o) \in Nat
  BY DEF Objects
<1>2. junk \in Cells /\ Genuine(junk, plain)
  BY BoundsAssumption DEF Cells, Genuine
<1> HIDE DEF junk
<1>3. q \in Seq(Cells) /\ Len(q) = Len(o) /\ \A x \in 1..Len(o) : q[x] = IF x = c THEN junk ELSE o[x]
  BY <1>1, <1>2
<1> HIDE DEF q
<1>4. \A x \in 1..Len(q) : Genuine(q[x], plain)
  BY <1>2, <1>3
<1> QED
  BY <1>1, <1>3, <1>4 DEF Flipped, Objects, q, junk

\* Another key is named.
LEMMA RenamedFacts ==
  ASSUME NEW o \in Objects, NEW plain \in Plaintexts, NEW key, IsSealed(o, key, plain),
         NEW name \in Keys
  PROVE  LET q == Renamed(o, name) IN
         q \in Objects /\ Len(q) <= Len(o) /\ \A x \in 1..Len(q) : Genuine(q[x], plain)
<1>1. o \in Seq(Cells) /\ Len(o) \in Nat
  BY DEF Objects
<1>2. \A x \in 1..Len(o) : Genuine(o[x], plain)
  BY SealedGenuine
<1> DEFINE E(x) == IF x <= HEADER_LEN THEN [o[x] EXCEPT !.key = name] ELSE o[x]
<1>3. ASSUME NEW x \in 1..Len(o)
      PROVE  E(x) \in Cells /\ Genuine(E(x), plain)
  <2>1. CASE x <= HEADER_LEN
    <3>1. x \in 1..HEADER_LEN
      BY <2>1, Layout
    <3>2. o[x] = [kind |-> "header", key |-> key, at |-> x]
      BY <3>1 DEF IsSealed, HeaderCell
    <3>3. E(x) = [kind |-> "header", key |-> name, at |-> x]
      BY <2>1, <3>2
    <3>4. name \in 0..MaxKeys /\ x \in Nat
      BY BoundsAssumption, <1>1 DEF Keys
    <3> HIDE DEF E
    <3> QED
      BY <3>3, <3>4 DEF Cells, Genuine
  <2>2. CASE ~(x <= HEADER_LEN)
    BY <1>1, <1>2, <2>2
  <2> QED
    BY <2>1, <2>2
<1>4. Renamed(o, name) = [x \in 1..Len(o) |-> E(x)]
  BY DEF Renamed
<1> HIDE DEF E
<1> DEFINE q == [x \in 1..Len(o) |-> E(x)]
<1>5. q \in Seq(Cells) /\ Len(q) = Len(o) /\ \A x \in 1..Len(o) : q[x] = E(x)
  BY <1>1, <1>3
<1> HIDE DEF q
<1>6. \A x \in 1..Len(q) : Genuine(q[x], plain)
  BY <1>3, <1>5
<1> QED
  BY <1>1, <1>4, <1>5, <1>6 DEF Objects, q

\* Two full blocks are exchanged.
LEMMA ExchangedFacts ==
  ASSUME NEW o \in Objects, NEW plain \in Plaintexts, NEW key, IsSealed(o, key, plain),
         NEW i \in 0..(Len(plain) \div BlockSize) - 1, NEW j \in 0..(Len(plain) \div BlockSize) - 1,
         i < j
  PROVE  LET q == Exchanged(o, i, j) IN
         q \in Objects /\ Len(q) <= Len(o) /\ \A x \in 1..Len(q) : Genuine(q[x], plain)
<1> DEFINE S == SealedBlockLen
           full == Len(plain) \div BlockSize
           shift == (j - i) * S
           b(c) == (c - HEADER_LEN - 1) \div S
           E(c) == CASE c > HEADER_LEN /\ b(c) = i -> o[c + shift]
                     [] c > HEADER_LEN /\ b(c) = j -> o[c - shift]
                     [] OTHER -> o[c]
<1>1. o \in Seq(Cells) /\ Len(o) \in Nat
  BY DEF Objects
<1>2. \A x \in 1..Len(o) : Genuine(o[x], plain)
  BY SealedGenuine
<1>3. full \in Nat /\ HEADER_LEN + full * S <= Len(o) /\ full * S \in Nat
  <2>1. /\ full \in Nat /\ full * S \in Nat /\ Len(plain) % BlockSize \in 0..BlockSize-1
        /\ Len(o) = HEADER_LEN + full * S + (Len(plain) % BlockSize) + BLOCK_OVERHEAD
    BY FullAndRest DEF IsSealed
  <2> DEFINE U == full * S
             r == Len(plain) % BlockSize
  <2>2. U \in Nat /\ r \in 0..BlockSize-1 /\ Len(o) = HEADER_LEN + U + r + BLOCK_OVERHEAD
    BY <2>1
  <2> HIDE DEF U, r
  <2>3. HEADER_LEN + U <= Len(o)
    BY <2>2, Layout
  <2> QED
    BY <2>1, <2>3 DEF U
<1>4. /\ i \in Nat /\ j \in Nat /\ j - i \in Nat /\ j < full /\ j = i + (j - i)
  BY <1>3
<1>5. /\ j * S = i * S + shift /\ shift \in Nat /\ i * S \in Nat /\ j * S \in Nat
      /\ j * S + S <= full * S
  <2> DEFINE k == j - i
  <2>1. k \in Nat /\ j = i + k
    BY <1>4
  <2> HIDE DEF k
  <2>2. j * S = i * S + k * S /\ k * S \in Nat
    BY <1>4, <2>1, Onward, Product, Layout
  <2> QED
    BY <1>3, <1>4, <2>2, Before, Product, Layout DEF k
<1> HIDE DEF shift
<1>6. ASSUME NEW c \in 1..Len(o), c > HEADER_LEN, NEW k \in Nat, b(c) = k
      PROVE  HEADER_LEN + k * S < c /\ c <= HEADER_LEN + k * S + S
  <2> DEFINE d == c - HEADER_LEN - 1
             r == d % S
             K == k * S
  <2>1. d \in Nat
    BY <1>1, <1>6, Layout
  <2>2. r \in 0..S-1 /\ d = K + r /\ K \in Nat
    BY <1>6, <2>1, DivMod, Product, Layout
  <2> HIDE DEF r, K
  <2>3. HEADER_LEN + K < c /\ c <= HEADER_LEN + K + S
    BY <2>1, <2>2, <1>1, Layout
  <2> QED
    BY <2>3 DEF K
<1>7. ASSUME NEW c \in 1..Len(o)
      PROVE  \E x \in 1..Len(o) : E(c) = o[x]
  <2> DEFINE I == i * S
             J == j * S
             U == full * S
  <2>0. /\ J = I + shift /\ shift \in Nat /\ I \in Nat /\ J \in Nat /\ U \in Nat /\ J + S <= U
        /\ HEADER_LEN + U <= Len(o)
    BY <1>3, <1>5
  <2>1. CASE c > HEADER_LEN /\ b(c) = i
    <3>1. E(c) = o[c + shift]
      <4>1. i # j
        OBVIOUS
      <4> HIDE DEF b
      <4> QED
        BY <2>1, <4>1
    <3>2. HEADER_LEN + I < c /\ c <= HEADER_LEN + I + S
      BY <1>4, <1>6, <2>1
    <3> HIDE DEF I, J, U, E
    <3>3. c + shift \in 1..Len(o)
      BY <2>0, <3>2, <1>1, Layout
    <3> QED
      BY <3>1, <3>3
  <2>2. CASE c > HEADER_LEN /\ b(c) = j
    <3>1. E(c) = o[c - shift]
      <4>1. i # j
        OBVIOUS
      <4> HIDE DEF b
      <4> QED
        BY <2>2, <4>1
    <3>2. HEADER_LEN + J < c /\ c <= HEADER_LEN + J + S
      BY <1>4, <1>6, <2>2
    <3> HIDE DEF I, J, U, E
    <3>3. c - shift \in 1..Len(o)
      BY <2>0, <3>2, <1>1, Layout
    <3> QED
      BY <3>1, <3>3
  <2>3. CASE ~(c > HEADER_LEN /\ b(c) = i) /\ ~(c > HEADER_LEN /\ b(c) = j)
    <3>1. E(c) = o[c]
      <4> HIDE DEF b
      <4> QED
        BY <2>3
    <3> QED
      BY <3>1, Zenon
  <2> QED
    BY <2>1, <2>2, <2>3, Zenon
<1>8. Exchanged(o, i, j) = [c \in 1..Len(o) |-> E(c)]
  BY Zenon DEF Exchanged, shift
<1> HIDE DEF E
<1> DEFINE q == [c \in 1..Len(o) |-> E(c)]
<1>9. ASSUME NEW c \in 1..Len(o)
      PROVE  E(c) \in Cells /\ Genuine(E(c), plain)
  <2>1. PICK x \in 1..Len(o) : E(c) = o[x]
    BY <1>7, Zenon
  <2>2. o[x] \in Cells
    BY <1>1
  <2> QED
    BY <1>2, <2>1, <2>2, Zenon
<1>10. q \in Seq(Cells) /\ Len(q) = Len(o) /\ \A c \in 1..Len(o) : q[c] = E(c)
  BY <1>1, <1>9
<1> HIDE DEF q
<1>11. \A c \in 1..Len(q) : Genuine(q[c], plain)
  BY <1>9, <1>10
<1> QED
  BY <1>1, <1>8, <1>10, <1>11 DEF Objects, q

\* Bytes missing, blocks exchanged, a byte altered or another key named leave
\* nothing but blocks of the content.
LEMMA DamageStep ==
  ASSUME StoreInv, NEW p \in Paths, Damage(p)
  PROVE  StoreInv'
<1> DEFINE o == objects[p]
           plain == content[p]
           Left(q) == /\ q \in Objects /\ Len(q) <= Len(o)
                      /\ \A x \in 1..Len(q) : Genuine(q[x], plain)
<1>1. /\ p \in intact /\ damages < MaxDamages /\ damages' = damages + 1
      /\ intact' = intact \ {p} /\ Disturb(p)
      /\ UNCHANGED <<ring, frame, content, upload, result, faults>>
  BY DEF Damage
<1>2. o # None
  BY <1>1 DEF StoreInv, TypeOK
<1>3. /\ o \in Objects /\ plain \in Plaintexts /\ Len(o) \in Nat
      /\ Len(o) <= CiphertextLen(Len(plain))
      /\ \A c \in 1..Len(o) : Genuine(o[c], plain)
      /\ \E key \in ring.keys : IsSealed(o, key, plain)
  BY <1>1, <1>2, Stored, Zenon
<1>4. PICK key \in ring.keys : IsSealed(o, key, plain)
  BY <1>3, Zenon
<1>5. ring.keys \subseteq Keys
  BY DEF StoreInv, TypeOK, Frames
<1>6. \E q : objects' = [objects EXCEPT ![p] = q] /\ Left(q)
  <2>1. ASSUME NEW n \in 0..Len(o) - 1, objects' = [objects EXCEPT ![p] = Truncated(o, n)]
        PROVE  \E q : objects' = [objects EXCEPT ![p] = q] /\ Left(q)
    <3>1. Left(Truncated(o, n))
      BY <1>3, TruncatedFacts
    <3> QED
      BY <2>1, <3>1, Zenon
  <2>2. ASSUME NEW i \in 0..(Len(plain) \div BlockSize) - 1,
               NEW j \in 0..(Len(plain) \div BlockSize) - 1,
               i < j, objects' = [objects EXCEPT ![p] = Exchanged(o, i, j)]
        PROVE  \E q : objects' = [objects EXCEPT ![p] = q] /\ Left(q)
    <3>1. Left(Exchanged(o, i, j))
      BY <1>3, <1>4, <2>2, ExchangedFacts
    <3> QED
      BY <2>2, <3>1, Zenon
  <2>3. ASSUME NEW c \in 1..Len(o), objects' = [objects EXCEPT ![p] = Flipped(o, c)]
        PROVE  \E q : objects' = [objects EXCEPT ![p] = q] /\ Left(q)
    <3>1. Left(Flipped(o, c))
      BY <1>3, FlippedFacts
    <3> QED
      BY <2>3, <3>1, Zenon
  <2>4. ASSUME NEW name \in ring.keys \ {o[1].key},
               objects' = [objects EXCEPT ![p] = Renamed(o, name)]
        PROVE  \E q : objects' = [objects EXCEPT ![p] = q] /\ Left(q)
    <3>1. name \in Keys
      BY <1>5
    <3>2. Left(Renamed(o, name))
      BY <1>3, <1>4, <3>1, RenamedFacts
    <3> QED
      BY <2>4, <3>2, Zenon
  <2> HIDE DEF Left
  <2> QED
    BY <2>1, <2>2, <2>3, <2>4, Zenon DEF Damage
<1>7. PICK q : objects' = [objects EXCEPT ![p] = q] /\ Left(q)
  BY <1>6, Zenon
<1>8. content' = [content EXCEPT ![p] = plain]
  BY <1>1 DEF StoreInv, TypeOK
<1>9. Len(q) <= CiphertextLen(Len(plain))
  <2>1. Len(q) \in Nat /\ Len(o) \in Nat /\ Len(plain) \in Nat /\ Len(q) <= Len(o)
    BY <1>3, <1>7 DEF Objects, Plaintexts
  <2>2. CiphertextLen(Len(plain)) \in Nat
    BY <1>4, <2>1 DEF IsSealed
  <2> QED
    BY <1>3, <2>1, <2>2
<1>10. /\ upload' \in [Handles -> Uploads \cup {None}] /\ upload' = upload
       /\ result' \in [Handles -> Results \cup {None}] /\ result' = result
       /\ damages' \in 0..MaxDamages /\ UNCHANGED <<ring, frame, faults>>
  BY <1>1, BoundsAssumption DEF StoreInv, TypeOK
<1> QED
  BY <1>1, <1>3, <1>7, <1>8, <1>9, <1>10, Written, Zenon

-----------------------------------------------------------------------------
(* Keys and handles. *)

\* rotate_data_key: a key is added and none is lost.
LEMMA RotateDataKeyStep ==
  ASSUME StoreInv, RotateDataKey
  PROVE  StoreInv'
<1>1. /\ ring.current < MaxKeys /\ ring' = Rotated(ring)
      /\ UNCHANGED <<frame, objects, content, intact, upload, read, result, damages, faults>>
  BY DEF RotateDataKey, stored
<1>2. /\ ring \in Frames /\ ring.keys = 1..ring.current /\ ring.current \in ring.keys
      /\ ring.current \in 1..MaxKeys
      /\ \A h \in Handles : frame[h] # None => frame[h].keys \subseteq ring.keys
  BY DEF StoreInv, TypeOK, KeysGrow, Frames, Keys
<1>3. /\ ring'.keys = ring.keys \cup {ring.current + 1} /\ ring'.current = ring.current + 1
      /\ ring' \in Frames
  BY <1>1, <1>2, BoundsAssumption DEF Rotated, Frames, Keys
<1>4. /\ ring'.keys = 1..ring'.current /\ ring.keys \subseteq ring'.keys
      /\ ring.current + 1 \notin ring.keys
  BY <1>2, <1>3
<1>5. TypeOK'
  <2>1. ring'.current \in ring'.keys
    BY <1>3
  <2>2. /\ frame' = frame /\ objects' = objects /\ content' = content /\ intact' = intact
        /\ upload' = upload /\ read' = read /\ result' = result
        /\ damages' = damages /\ faults' = faults
    BY <1>1
  <2>3. TypeOK
    BY DEF StoreInv
  <2> QED
    BY <1>3, <2>1, <2>2, <2>3, Zenon DEF TypeOK
<1>6. KeysGrow'
  <2>1. \A h \in Handles : frame'[h] # None => frame'[h].keys \subseteq ring'.keys
    BY <1>1, <1>2, <1>4
  <2>2. \A h \in Handles : frame'[h] = None => result'[h] = None
    BY <1>1 DEF StoreInv, KeysGrow
  <2> QED
    BY <1>4, <2>1, <2>2 DEF KeysGrow
<1>7. Whole'
  <2> SUFFICES ASSUME NEW q \in intact
               PROVE  \E key \in ring'.keys : IsSealed(objects[q], key, content[q])
    <3>1. intact' = intact /\ objects' = objects /\ content' = content
      BY <1>1
    <3> QED
      BY <3>1, Zenon DEF Whole
  <2>1. PICK key \in ring.keys : IsSealed(objects[q], key, content[q])
    BY Zenon DEF StoreInv, Whole
  <2>2. key \in ring'.keys
    BY <1>4
  <2> QED
    BY <2>1, <2>2, Zenon
<1>8. Remains' /\ Uploading' /\ Reading'
  <2>1. /\ objects' = objects /\ content' = content /\ intact' = intact
        /\ upload' = upload /\ read' = read /\ frame' = frame
    BY <1>1
  <2> QED
    BY <2>1, Zenon DEF StoreInv, Remains, Uploading, Reading
<1>9. ReadsAreAuthentic' /\ ReadsSucceed'
  <2>1. ASSUME NEW h \in Handles
        PROVE  result'[h] = None \/ /\ result'[h] = result[h]
                                    /\ frame[h].keys # ring.keys => frame'[h].keys # ring'.keys
    <3>1. result'[h] = result[h] /\ frame'[h] = frame[h]
      BY <1>1
    <3>2. CASE frame[h] # None
      <4>1. ring.current + 1 \in ring'.keys /\ ring.current + 1 \notin frame[h].keys
        BY <1>2, <1>3, <1>4, <3>2
      <4> QED
        BY <3>1, <4>1
    <3>3. CASE frame[h] = None
      BY <3>1, <3>3 DEF StoreInv, KeysGrow
    <3> QED
      BY <3>2, <3>3
  <2> QED
    BY <2>1, ResultsStay, Zenon DEF StoreInv
<1> QED
  BY <1>5, <1>6, <1>7, <1>8, <1>9 DEF StoreInv

\* A handle opened now has every key.
LEMMA OpenHandleStep ==
  ASSUME StoreInv, NEW h \in Handles, OpenHandle(h)
  PROVE  StoreInv'
<1>1. /\ upload[h] = None /\ read[h] = None
      /\ frame' = [frame EXCEPT ![h] = ring] /\ result' = [result EXCEPT ![h] = None]
      /\ UNCHANGED <<ring, objects, content, intact, upload, read, damages, faults>>
  BY DEF OpenHandle, stored
<1>2. TypeOK /\ ring \in Frames /\ ring # None /\ ring.current \in ring.keys
      /\ frame \in [Handles -> Frames \cup {None}] /\ result \in [Handles -> Results \cup {None}]
  BY NoneAssumption DEF StoreInv, TypeOK
<1>3. /\ frame'[h] = ring /\ result'[h] = None
      /\ \A k \in Handles : k # h => frame'[k] = frame[k] /\ result'[k] = result[k]
      /\ frame' \in [Handles -> Frames \cup {None}] /\ result' \in [Handles -> Results \cup {None}]
  BY <1>1, <1>2
<1>4. /\ ring' = ring /\ objects' = objects /\ content' = content /\ intact' = intact
      /\ upload' = upload /\ read' = read /\ damages' = damages /\ faults' = faults
  BY <1>1
<1>5. TypeOK'
  <2>1. ASSUME NEW k \in Handles
        PROVE  /\ frame'[k] # None => frame'[k].current \in frame'[k].keys
               /\ upload[k] # None =>
                    /\ frame'[k] # None
                    /\ Len(upload[k].pending) < BlockSize
                    /\ Len(upload[k].given) = upload[k].next_index * BlockSize + Len(upload[k].pending)
               /\ read[k] # None =>
                    /\ frame'[k] # None /\ read[k].from < read[k].to /\ read[k].start < read[k].end
    <3>1. CASE k = h
      BY <1>1, <1>2, <1>3, <3>1, Zenon
    <3>2. CASE k # h
      <4>1. frame'[k] = frame[k]
        BY <1>3, <3>2
      <4> QED
        BY <1>2, <4>1, Zenon DEF TypeOK
    <3> QED
      BY <3>1, <3>2
  <2> QED
    BY <1>2, <1>3, <1>4, <2>1, Zenon DEF TypeOK
<1>6. KeysGrow'
  <2>1. ASSUME NEW k \in Handles
        PROVE  /\ frame'[k] # None => frame'[k].keys \subseteq ring.keys
               /\ frame'[k] = None => result'[k] = None
    <3>1. CASE k = h
      BY <1>2, <1>3, <3>1
    <3>2. CASE k # h
      <4>1. frame'[k] = frame[k] /\ result'[k] = result[k]
        BY <1>3, <3>2
      <4> QED
        BY <4>1, Zenon DEF StoreInv, KeysGrow
    <3> QED
      BY <3>1, <3>2
  <2> QED
    BY <1>4, <2>1 DEF StoreInv, KeysGrow
<1>7. Whole' /\ Remains' /\ Reading'
  BY <1>4, Zenon DEF StoreInv, Whole, Remains, Reading
<1>8. Uploading'
  <2> SUFFICES ASSUME NEW k \in Handles, upload[k] # None
               PROVE  Begun(upload[k], frame'[k].current)
    BY <1>4, Zenon DEF Uploading
  <2>1. frame'[k] = frame[k]
    BY <1>1, <1>3
  <2> QED
    BY <2>1, Zenon DEF StoreInv, Uploading
<1>9. ReadsAreAuthentic' /\ ReadsSucceed'
  <2>1. ASSUME NEW k \in Handles
        PROVE  result'[k] = None \/ /\ result'[k] = result[k]
                                    /\ frame[k].keys # ring.keys => frame'[k].keys # ring'.keys
    <3>1. CASE k = h
      BY <1>3, <3>1
    <3>2. CASE k # h
      BY <1>3, <1>4, <3>2, Zenon
    <3> QED
      BY <3>1, <3>2
  <2> QED
    BY <2>1, ResultsStay, Zenon DEF StoreInv
<1> QED
  BY <1>5, <1>6, <1>7, <1>8, <1>9 DEF StoreInv

-----------------------------------------------------------------------------
(* Reading. *)

\* A refusal is a result; it says something wrong only of a read that nothing
\* disturbed, of an object nothing altered.
LEMMA RefusedOutcome ==
  ASSUME NEW p \in Paths, NEW r \in Ranges, NEW from \in Nat, NEW to \in Nat,
         NEW why \in Refusals, NEW steady \in BOOLEAN, NEW plain \in Plaintexts \cup {None},
         NEW behind, steady /\ p \in intact => why = "unknownkey" /\ behind,
         NEW out, out = Outcome(p, r, from, to, Refused(why), steady, plain)
  PROVE  out \in Results /\ AuthenticResult(out) /\ TrueResult(out, behind)
<1> DEFINE e == <<>>
           no == FALSE
           at == p \in intact
<1>1. e \in Plaintexts /\ no \in BOOLEAN /\ at \in BOOLEAN
  BY DEF Plaintexts
<1>2. out = [path |-> p, range |-> r, from |-> from, to |-> to, ok |-> no,
             bytes |-> e, why |-> why, steady |-> steady, intact |-> at, content |-> plain]
  <2> DEFINE x == Refused(why)
  <2>1. x.ok = no /\ x.bytes = e /\ x.why = why
    BY DEF Refused
  <2>2. out = Outcome(p, r, from, to, x, steady, plain)
    OBVIOUS
  <2> HIDE DEF x
  <2> QED
    BY <2>1, <2>2, Zenon DEF Outcome
<1> HIDE DEF e, no, at
<1>3. out \in Results
  BY ONLY <1>1, <1>2, p \in Paths, r \in Ranges, from \in Nat, to \in Nat, why \in Refusals,
          steady \in BOOLEAN, plain \in Plaintexts \cup {None} DEF Results
<1>4. /\ out.ok = no /\ out.why = why /\ out.steady = steady /\ out.intact = at
  BY ONLY <1>2
<1>5. AuthenticResult(out)
  BY <1>4 DEF AuthenticResult, no
<1>6. TrueResult(out, behind)
  BY <1>4, Zenon DEF TrueResult, at
<1> QED
  BY <1>3, <1>5, <1>6

\* So are the bytes of the content that the result says it holds.
LEMMA OpenedOutcome ==
  ASSUME NEW p \in Paths, NEW r \in Ranges, NEW from \in Nat, NEW to \in Nat,
         NEW steady \in BOOLEAN, NEW plain \in Plaintexts, NEW behind,
         NEW bytes, bytes = SubSeq(plain, from + 1, to), to <= Len(plain),
         steady /\ p \in intact =>
           \/ from = WantedFrom(r, Len(plain)) /\ to = WantedTo(r, Len(plain))
           \/ bytes = <<>> /\ WantedFrom(r, Len(plain)) >= WantedTo(r, Len(plain)),
         NEW out, out = Outcome(p, r, from, to, Opened(bytes), steady, plain)
  PROVE  out \in Results /\ AuthenticResult(out) /\ TrueResult(out, behind)
<1> DEFINE yes == TRUE
           at == p \in intact
           why == "none"
<1>1. /\ bytes \in Plaintexts /\ yes \in BOOLEAN /\ at \in BOOLEAN
      /\ why \in Refusals \cup {"none"} /\ plain \in Plaintexts \cup {None}
  BY DEF Plaintexts
<1>2. out = [path |-> p, range |-> r, from |-> from, to |-> to, ok |-> yes,
             bytes |-> bytes, why |-> why, steady |-> steady, intact |-> at, content |-> plain]
  <2> DEFINE x == Opened(bytes)
  <2>1. x.ok = yes /\ x.bytes = bytes /\ x.why = why
    BY DEF Opened
  <2>2. out = Outcome(p, r, from, to, x, steady, plain)
    OBVIOUS
  <2> HIDE DEF x
  <2> QED
    BY <2>1, <2>2, Zenon DEF Outcome
<1> HIDE DEF yes, at, why
<1>3. out \in Results
  BY ONLY <1>1, <1>2, p \in Paths, r \in Ranges, from \in Nat, to \in Nat,
          steady \in BOOLEAN DEF Results
<1>4. /\ out.ok = yes /\ out.steady = steady /\ out.intact = at /\ out.bytes = bytes
      /\ out.from = from /\ out.to = to /\ out.content = plain /\ out.range = r
  BY ONLY <1>2
<1>5. AuthenticResult(out)
  BY <1>4, Zenon DEF AuthenticResult
<1>6. TrueResult(out, behind)
  <2>1. out.ok
    BY <1>4 DEF yes
  <2> QED
    BY <1>4, <2>1, Zenon DEF TrueResult, at
<1> QED
  BY <1>3, <1>5, <1>6

\* The first request: a length that no object has, an empty range, or the span
\* of blocks to ask for.
LEMMA GetHeadStep ==
  ASSUME StoreInv, NEW h \in Handles, NEW p \in Paths, NEW r \in Ranges, GetHead(h, p, r)
  PROVE  StoreInv'
<1> DEFINE o == objects[p]
           plain == content[p]
           n == PlaintextLen(Len(o))
           from == WantedFrom(r, n)
           to == WantedTo(r, n)
           behind == frame[h].keys # ring.keys
           T == TRUE
           refusal == Outcome(p, r, 0, 0, Refused("truncated"), T, plain)
           empty == Outcome(p, r, from, from, Opened(<<>>), T, plain)
           g == [path |-> p, range |-> r, from |-> from, to |-> to,
                 start |-> SpanStart(from), end |-> SpanEnd(from, to, n), steady |-> T]
<1>1. /\ frame[h] # None /\ read[h] = None /\ o # None
      /\ UNCHANGED <<ring, frame, objects, content, intact, upload, damages>> /\ faults' = faults
      /\ \/ /\ ~WholeObject(Len(o))
            /\ result' = [result EXCEPT ![h] = refusal] /\ read' = read
         \/ /\ WholeObject(Len(o)) /\ from >= to
            /\ result' = [result EXCEPT ![h] = empty] /\ read' = read
         \/ /\ WholeObject(Len(o)) /\ from < to
            /\ read' = [read EXCEPT ![h] = g] /\ result' = [result EXCEPT ![h] = None]
  BY DEF GetHead, Free, stored
<1>2. /\ plain \in Plaintexts /\ Len(o) \in Nat /\ Len(plain) \in Nat
      /\ Len(o) <= CiphertextLen(Len(plain))
      /\ p \in intact => WholeObject(Len(o)) /\ n = Len(plain)
  BY <1>1, Stored, Zenon
<1>3. WholeObject(Len(o)) => n \in Nat /\ n <= Len(plain)
  BY <1>2, NoLonger
<1>4. WholeObject(Len(o)) => from \in Nat /\ from <= n /\ to \in Nat /\ to <= n
  BY <1>3, WantedFacts
<1>5. faults' \in 0..MaxFaults /\ T \in BOOLEAN
  BY <1>1 DEF StoreInv, TypeOK
<1>6. read = [read EXCEPT ![h] = None]
  BY <1>1 DEF StoreInv, TypeOK
<1> HIDE DEF o, plain, n, from, to, T
<1>7. CASE ~WholeObject(Len(o)) /\ result' = [result EXCEPT ![h] = refusal] /\ read' = read
  <2>1. refusal \in Results /\ AuthenticResult(refusal) /\ TrueResult(refusal, behind)
    <3>1. "truncated" \in Refusals /\ 0 \in Nat /\ plain \in Plaintexts \cup {None}
      BY <1>2 DEF Refusals
    <3>2. T /\ p \in intact => "truncated" = "unknownkey" /\ behind
      BY <1>2, <1>7
    <3> HIDE DEF behind
    <3> QED
      BY <1>5, <3>1, <3>2, RefusedOutcome, Zenon
  <2> HIDE DEF refusal
  <2> QED
    BY <1>1, <1>5, <1>6, <1>7, <2>1, ReadStep, Zenon
<1>8. CASE /\ WholeObject(Len(o)) /\ from >= to
           /\ result' = [result EXCEPT ![h] = empty] /\ read' = read
  <2>1. empty \in Results /\ AuthenticResult(empty) /\ TrueResult(empty, behind)
    <3>1. <<>> = SubSeq(plain, from + 1, from) /\ from <= Len(plain) /\ from \in Nat
      BY <1>2, <1>3, <1>4, <1>8 DEF Plaintexts
    <3>2. T /\ p \in intact =>
            WantedFrom(r, Len(plain)) >= WantedTo(r, Len(plain))
      BY <1>2, <1>8 DEF from, to
    <3> HIDE DEF behind
    <3> DEFINE e == <<>>
    <3>3. e = SubSeq(plain, from + 1, from) /\ e = <<>>
      BY <3>1
    <3> HIDE DEF e
    <3>4. empty = Outcome(p, r, from, from, Opened(e), T, plain)
      BY <3>3
    <3> HIDE DEF empty
    <3> QED
      BY <1>2, <1>5, <3>1, <3>2, <3>3, <3>4, OpenedOutcome, Zenon
  <2> HIDE DEF empty
  <2> QED
    BY <1>1, <1>5, <1>6, <1>8, <2>1, ReadStep, Zenon
<1>9. CASE /\ WholeObject(Len(o)) /\ from < to
           /\ read' = [read EXCEPT ![h] = g] /\ result' = [result EXCEPT ![h] = None]
  <2>1. /\ SpanStart(from) \in Nat /\ SpanEnd(from, to, n) \in Nat
        /\ SpanStart(from) < SpanEnd(from, to, n)
    BY <1>3, <1>4, <1>9, SpanCovers
  <2>2. /\ g.path = p /\ g.range = r /\ g.from = from /\ g.to = to /\ g.start = SpanStart(from)
        /\ g.end = SpanEnd(from, to, n) /\ g.steady = T
    OBVIOUS
  <2>3. g \in Reads
    <3> DEFINE a == SpanStart(from)
               b == SpanEnd(from, to, n)
    <3>1. /\ g = [path |-> p, range |-> r, from |-> from, to |-> to, start |-> a, end |-> b, steady |-> T]
          /\ a \in Nat /\ b \in Nat
      BY <2>1
    <3> HIDE DEF a, b, g
    <3> QED
      BY <1>4, <1>5, <1>9, <3>1 DEF Reads
  <2> HIDE DEF g
  <2>4. objects[g.path] # None
    BY <1>1, <2>2 DEF o
  <2>5. g.path \in intact =>
          /\ g.from = WantedFrom(g.range, Len(content[g.path]))
          /\ g.to = WantedTo(g.range, Len(content[g.path]))
          /\ g.end = SpanEnd(g.from, g.to, Len(content[g.path]))
    BY <1>2, <2>2, Zenon DEF plain, from, to
  <2>6. SoundRead(g)
    BY <1>9, <2>1, <2>2, <2>3, <2>4, <2>5, Zenon DEF SoundRead
  <2> QED
    BY <1>1, <1>5, <1>9, <2>6, ReadStep, Zenon
<1> QED
  BY <1>1, <1>7, <1>8, <1>9, Zenon

\* The second request: whatever has become of the object since the first, the
\* bytes returned are bytes of its content; and if nothing has, all of them.
LEMMA GetRangesStep ==
  ASSUME StoreInv, NEW h \in Handles, GetRanges(h)
  PROVE  StoreInv'
<1> DEFINE g == read[h]
           f == frame[h]
           o == objects[g.path]
           plain == content[g.path]
           behind == f.keys # ring.keys
           refusal == HeaderRefusal(f, o)
           cells == SubSeq(o, g.start + 1, Least(g.end, Len(o)))
           span == OpenSpan(f, cells, g.start, g.from, g.to, o[1].key)
           outcome ==
             CASE o = None -> Refused("unavailable")
               [] o # None /\ g.start >= Len(o) -> Refused("unavailable")
               [] OTHER -> IF refusal # "none" THEN Refused(refusal) ELSE span
           out == Outcome(g.path, g.range, g.from, g.to, outcome, g.steady, plain)
<1>1. /\ g # None /\ result' = [result EXCEPT ![h] = out] /\ read' = [read EXCEPT ![h] = None]
      /\ UNCHANGED <<ring, frame, objects, content, intact, upload, damages>> /\ faults' = faults
  BY Zenon DEF GetRanges, stored
<1>2. g \in Reads /\ f # None /\ g.from < g.to /\ g.start < g.end /\ f \in Frames
  BY <1>1 DEF StoreInv, TypeOK
<1>3. /\ g.path \in Paths /\ g.range \in Ranges /\ g.from \in Nat /\ g.to \in Nat
      /\ g.start \in Nat /\ g.end \in Nat /\ g.steady \in BOOLEAN
  BY <1>2 DEF Reads
<1>4. /\ g.start = SpanStart(g.from)
      /\ g.steady => o # None
      /\ g.steady /\ g.path \in intact =>
           /\ g.from = WantedFrom(g.range, Len(plain)) /\ g.to = WantedTo(g.range, Len(plain))
           /\ g.end = SpanEnd(g.from, g.to, Len(plain))
  BY <1>1, Zenon DEF StoreInv, Reading
<1>5. plain \in Plaintexts \cup {None}
  BY <1>3 DEF StoreInv, TypeOK
<1>6. o # None =>
         /\ o \in Objects /\ plain \in Plaintexts /\ Len(o) \in Nat /\ Len(plain) \in Nat
         /\ \A c \in 1..Len(o) : Genuine(o[c], plain)
         /\ g.path \in intact => \E key \in ring.keys : IsSealed(o, key, plain)
  BY <1>3, Stored, Zenon
<1>7. f.keys \subseteq ring.keys
  BY <1>2 DEF StoreInv, KeysGrow
<1>8. refusal \in Refusals \cup {"none"}
  BY HeaderVerdict
<1>9. faults' \in 0..MaxFaults
  BY <1>1 DEF StoreInv, TypeOK
<1>10. ASSUME NEW why \in Refusals, outcome = Refused(why),
              g.steady /\ g.path \in intact => why = "unknownkey" /\ behind
       PROVE  out \in Results /\ AuthenticResult(out) /\ TrueResult(out, behind)
  <2> HIDE DEF g, plain, behind, outcome
  <2>1. out = Outcome(g.path, g.range, g.from, g.to, Refused(why), g.steady, plain)
    BY <1>10
  <2> HIDE DEF out
  <2> QED
    BY <1>3, <1>5, <1>10, <2>1, RefusedOutcome, Zenon
<1>11. ASSUME o # None, g.steady /\ g.path \in intact
       PROVE  /\ ~(g.start >= Len(o))
              /\ refusal = "none" => span = Opened(SubSeq(plain, g.from + 1, g.to))
              /\ refusal # "none" => refusal = "unknownkey" /\ behind
  <2>1. PICK key \in ring.keys : IsSealed(o, key, plain)
    BY <1>6, <1>11, Zenon
  <2>2. o[1].key = key /\ refusal = IF key \in f.keys THEN "none" ELSE "unknownkey"
    <3> HIDE DEF o, plain, f, g
    <3> QED
      BY <1>6, <1>11, <2>1, HeaderOfSealed, Zenon
  <2>3. g.to <= Len(plain)
    BY <1>3, <1>4, <1>6, <1>11, WantedFacts
  <2>4. /\ SpanStart(g.from) < Len(o)
        /\ OpenSpan(f, SubSeq(o, SpanStart(g.from) + 1, Least(g.end, Len(o))), SpanStart(g.from),
                    g.from, g.to, key) = Opened(SubSeq(plain, g.from + 1, g.to))
    <3> DEFINE a == g.from
               b == g.to
               e == g.end
    <3>1. /\ o \in Objects /\ plain \in Plaintexts /\ IsSealed(o, key, plain)
          /\ a \in Nat /\ b \in Nat /\ a < b /\ b <= Len(plain) /\ e = SpanEnd(a, b, Len(plain))
      BY <1>2, <1>3, <1>4, <1>6, <1>11, <2>1, <2>3, Zenon
    <3> HIDE DEF o, plain, f, g, a, b, e
    <3>2. /\ SpanStart(a) < Len(o)
          /\ OpenSpan(f, SubSeq(o, SpanStart(a) + 1, Least(e, Len(o))), SpanStart(a), a, b, key)
               = Opened(SubSeq(plain, a + 1, b))
      BY ONLY <3>1, OpenSpanWhole
    <3> QED
      BY <3>2, Zenon DEF a, b, e
  <2>5. span = Opened(SubSeq(plain, g.from + 1, g.to))
    BY <1>4, <2>2, <2>4, Zenon
  <2>6. ~(g.start >= Len(o))
    BY <1>3, <1>4, <1>6, <1>11, <2>4
  <2>7. refusal # "none" => refusal = "unknownkey" /\ behind
    BY <2>1, <2>2
  <2> QED
    BY <2>5, <2>6, <2>7
<1>12. out \in Results /\ AuthenticResult(out) /\ TrueResult(out, behind)
  <2>1. CASE o = None
    <3>1. outcome = Refused("unavailable")
      BY <2>1
    <3> QED
      BY <1>4, <1>10, <2>1, <3>1 DEF Refusals
  <2>2. CASE o # None /\ g.start >= Len(o)
    <3>1. outcome = Refused("unavailable")
      BY <2>2
    <3> QED
      BY <1>10, <1>11, <2>2, <3>1 DEF Refusals
  <2>3. CASE o # None /\ ~(g.start >= Len(o)) /\ refusal # "none"
    <3>1. outcome = Refused(refusal)
      BY <2>3
    <3>2. refusal \in Refusals
      BY <1>8, <2>3
    <3> QED
      BY <1>10, <1>11, <2>3, <3>1, <3>2
  <2>4. CASE o # None /\ ~(g.start >= Len(o)) /\ refusal = "none"
    <3>1. outcome = span
      <4> HIDE DEF span, refusal
      <4> QED
        BY <2>4
    <3>2. \/ \E why \in Refusals : span = Refused(why)
          \/ g.to <= Len(plain) /\ span = Opened(SubSeq(plain, g.from + 1, g.to))
      <4> DEFINE key == o[1].key
      <4>1. /\ SpanStart(g.from) < g.end /\ SpanStart(g.from) < Len(o)
        BY <1>2, <1>3, <1>4, <1>6, <2>4
      <4> DEFINE a == g.from
                 b == g.to
                 e == g.end
      <4>2. /\ o \in Objects /\ plain \in Plaintexts
            /\ \A c \in 1..Len(o) : Genuine(o[c], plain)
            /\ a \in Nat /\ b \in Nat /\ a < b /\ e \in Nat
            /\ SpanStart(a) < e /\ SpanStart(a) < Len(o)
        BY <1>2, <1>3, <1>6, <2>4, <4>1, Zenon
      <4> HIDE DEF o, plain, f, g, key, a, b, e
      <4>3. \/ \E why \in Refusals :
                 OpenSpan(f, SubSeq(o, SpanStart(a) + 1, Least(e, Len(o))),
                          SpanStart(a), a, b, key) = Refused(why)
            \/ /\ b <= Len(plain)
               /\ OpenSpan(f, SubSeq(o, SpanStart(a) + 1, Least(e, Len(o))),
                           SpanStart(a), a, b, key) = Opened(SubSeq(plain, a + 1, b))
        BY ONLY <4>2, OpenSpanSound
      <4> QED
        BY <1>4, <4>3, Zenon DEF key, a, b, e
    <3>3. CASE g.to <= Len(plain) /\ span = Opened(SubSeq(plain, g.from + 1, g.to))
      <4> DEFINE bytes == SubSeq(plain, g.from + 1, g.to)
      <4>1. out = Outcome(g.path, g.range, g.from, g.to, Opened(bytes), g.steady, plain)
        BY <3>1, <3>3, Zenon
      <4>2. bytes = SubSeq(plain, g.from + 1, g.to) /\ plain \in Plaintexts
        BY <1>6, <2>4
      <4>3. g.steady /\ g.path \in intact =>
              g.from = WantedFrom(g.range, Len(plain)) /\ g.to = WantedTo(g.range, Len(plain))
        BY <1>4
      <4> HIDE DEF out, bytes, plain, g, behind
      <4>4. g.to <= Len(plain)
        BY <3>3
      <4> QED
        BY ONLY <1>3, <4>1, <4>2, <4>3, <4>4, OpenedOutcome, ZenonT(30)
    <3>4. CASE /\ ~(g.to <= Len(plain) /\ span = Opened(SubSeq(plain, g.from + 1, g.to)))
               /\ \E why \in Refusals : span = Refused(why)
      <4>1. PICK why \in Refusals : span = Refused(why)
        BY <3>4, Zenon
      <4>2. ~(g.steady /\ g.path \in intact)
        <5>1. Opened(SubSeq(plain, g.from + 1, g.to)) # Refused(why)
          BY DEF Opened, Refused
        <5> QED
          BY <1>11, <2>4, <4>1, <5>1, Zenon
      <4> QED
        BY <1>10, <3>1, <4>1, <4>2, Zenon
    <3> QED
      BY <3>2, <3>3, <3>4, Zenon
  <2> QED
    BY <2>1, <2>2, <2>3, <2>4
<1> HIDE DEF out
<1> QED
  BY <1>1, <1>2, <1>9, <1>12, ReadStep, Zenon DEF behind, f

\* A read that fails leaves no result behind.
LEMMA GetFailsStep ==
  ASSUME StoreInv, NEW h \in Handles, GetFails(h)
  PROVE  StoreInv'
<1>1. /\ read[h] # None /\ faults < MaxFaults /\ faults' = faults + 1 /\ result' = result
      /\ read' = [read EXCEPT ![h] = None]
      /\ UNCHANGED <<ring, frame, objects, content, intact, upload, damages>>
  BY DEF GetFails, stored
<1>2. frame[h] # None /\ result' = [result EXCEPT ![h] = result[h]]
  BY <1>1 DEF StoreInv, TypeOK
<1>3. faults' \in 0..MaxFaults
  BY <1>1, BoundsAssumption DEF StoreInv, TypeOK
<1> QED
  BY <1>1, <1>2, <1>3, ReadStep, Zenon

-----------------------------------------------------------------------------
(* The theorems. *)

\* An empty store with one key.
LEMMA Initially ==
  ASSUME Init
  PROVE  StoreInv
<1>1. /\ ring.keys = {1} /\ ring.current = 1 /\ ring \in Frames
  BY BoundsAssumption DEF Init, Frames, Keys
<1>2. TypeOK
  BY <1>1, BoundsAssumption DEF Init, TypeOK
<1>3. KeysGrow
  BY <1>1 DEF Init, KeysGrow
<1>4. Whole /\ Remains /\ Uploading /\ Reading
  BY DEF Init, Whole, Remains, Uploading, Reading
<1>5. ReadsAreAuthentic /\ ReadsSucceed
  BY DEF Init, ReadsAreAuthentic, ReadsSucceed
<1> QED
  BY <1>2, <1>3, <1>4, <1>5 DEF StoreInv

\* Steps of other components.
LEMMA Stuttering ==
  ASSUME StoreInv, UNCHANGED vars
  PROVE  StoreInv'
<1>1. /\ ring' = ring /\ frame' = frame /\ objects' = objects /\ content' = content
      /\ intact' = intact /\ upload' = upload /\ read' = read /\ result' = result
      /\ damages' = damages /\ faults' = faults
  BY DEF vars
<1>2. TypeOK' /\ KeysGrow' /\ Whole' /\ Remains'
  BY <1>1, Zenon DEF StoreInv, TypeOK, KeysGrow, Whole, Remains
<1>3. Uploading' /\ Reading' /\ ReadsAreAuthentic' /\ ReadsSucceed'
  BY <1>1, Zenon DEF StoreInv, Uploading, Reading, ReadsAreAuthentic, ReadsSucceed
<1> QED
  BY <1>2, <1>3 DEF StoreInv

\* Through every interleaving of puts, uploads, copies, removals, rotations,
\* reads in two requests, faults and damage, an intact object is its content
\* sealed under a kept key, a damaged one holds nothing but blocks of its
\* content, and uploads and reads under way agree with what they work on.
THEOREM StoreInvariant == Spec => []StoreInv
<1>1. Init => StoreInv
  BY Initially
<1>2. StoreInv /\ [Next]_vars => StoreInv'
  <2> SUFFICES ASSUME StoreInv, [Next]_vars
               PROVE  StoreInv'
    OBVIOUS
  <2>1. CASE RotateDataKey
    BY <2>1, RotateDataKeyStep
  <2>2. ASSUME NEW h \in Handles, OpenHandle(h)
        PROVE  StoreInv'
    BY <2>2, OpenHandleStep
  <2>3. ASSUME NEW h \in Handles, NEW p \in Paths, NEW part \in Parts, PutOpts(h, p, part)
        PROVE  StoreInv'
    BY <2>3, PutOptsStep
  <2>4. ASSUME NEW h \in Handles, NEW p \in Paths, PutMultipart(h, p)
        PROVE  StoreInv'
    BY <2>4, PutMultipartStep
  <2>5. ASSUME NEW h \in Handles, NEW p \in Paths, Delete(h, p)
        PROVE  StoreInv'
    BY <2>5, DeleteStep
  <2>6. ASSUME NEW h \in Handles, NEW part \in Parts, PutPart(h, part)
        PROVE  StoreInv'
    BY <2>6, PutPartStep
  <2>7. ASSUME NEW h \in Handles, Complete(h)
        PROVE  StoreInv'
    BY <2>7, CompleteStep
  <2>8. ASSUME NEW h \in Handles, PartFails(h)
        PROVE  StoreInv'
    BY <2>8, PartFailsStep
  <2>9. ASSUME NEW h \in Handles, Abort(h)
        PROVE  StoreInv'
    BY <2>9, AbortStep
  <2>10. ASSUME NEW h \in Handles, NEW from \in Paths, NEW to \in Paths, CopyOpts(h, from, to)
         PROVE  StoreInv'
    BY <2>10, CopyOptsStep
  <2>11. ASSUME NEW h \in Handles, NEW p \in Paths, NEW r \in Ranges, GetHead(h, p, r)
         PROVE  StoreInv'
    BY <2>11, GetHeadStep
  <2>12. ASSUME NEW h \in Handles, GetRanges(h)
         PROVE  StoreInv'
    BY <2>12, GetRangesStep
  <2>13. ASSUME NEW h \in Handles, GetFails(h)
         PROVE  StoreInv'
    BY <2>13, GetFailsStep
  <2>14. ASSUME NEW p \in Paths, Damage(p)
         PROVE  StoreInv'
    BY <2>14, DamageStep
  <2>15. CASE UNCHANGED vars
    BY <2>15, Stuttering
  <2> QED
    BY <2>1, <2>2, <2>3, <2>4, <2>5, <2>6, <2>7, <2>8, <2>9, <2>10, <2>11, <2>12, <2>13,
       <2>14, <2>15, Zenon DEF Next
<1> QED
  BY <1>1, <1>2, PTL DEF Spec

\* Every variable of the store keeps its kind; in particular an upload never
\* holds back as much as a full block, whatever parts it is given.
THEOREM TypeCorrect == Spec => []TypeOK
<1>1. StoreInv => TypeOK
  BY DEF StoreInv
<1> QED
  BY <1>1, StoreInvariant, PTL

\* The bytes that drain_full_blocks and complete leave behind, part after part,
\* are the bytes that seal computes at once, for every way of cutting the
\* object into parts.
THEOREM UploadsSealTheSame == Spec => []StreamedIsSealed
<1>1. StoreInv => StreamedIsSealed
  <2> SUFFICES ASSUME StoreInv, NEW p \in intact
               PROVE  objects[p] = Seal([ring EXCEPT !.current = objects[p][1].key], content[p])
    BY DEF StreamedIsSealed
  <2>1. p \in Paths /\ objects[p] # None /\ ring \in Frames
    BY DEF StoreInv, TypeOK
  <2>2. /\ objects[p] \in Objects /\ content[p] \in Plaintexts
        /\ \E key \in ring.keys : IsSealed(objects[p], key, content[p])
    BY <2>1, Stored, Zenon
  <2>3. PICK key \in ring.keys : IsSealed(objects[p], key, content[p])
    BY <2>2, Zenon
  <2>4. objects[p][1].key = key
    BY <2>2, <2>3, HeaderOfSealed
  <2> DEFINE f == [ring EXCEPT !.current = key]
  <2>5. f \in Frames /\ f.current = key
    BY <2>1 DEF Frames
  <2>6. Seal(f, content[p]) \in Objects /\ IsSealed(Seal(f, content[p]), key, content[p])
    <3> HIDE DEF f
    <3>1. IsSealed(Seal(f, content[p]), f.current, content[p]) /\ Seal(f, content[p]) \in Objects
      BY <2>2, <2>5, SealFacts
    <3> QED
      BY <2>5, <3>1
  <2>7. objects[p] = Seal(f, content[p])
    <3> DEFINE o == objects[p]
               q == Seal(f, content[p])
               c == content[p]
    <3>1. /\ o \in Objects /\ q \in Objects /\ c \in Plaintexts
          /\ IsSealed(o, key, c) /\ IsSealed(q, key, c)
      BY <2>2, <2>3, <2>6
    <3> HIDE DEF o, q, c
    <3>2. o = q
      BY <3>1, SealedOnce
    <3> QED
      BY <3>2 DEF o, q
  <2> QED
    BY <2>4, <2>7
<1> QED
  BY <1>1, StoreInvariant, PTL

\* head and list, which turn the length on disk into the length of the
\* plaintext, are right about every object nothing has altered.
THEOREM SizesReported == Spec => []SizesAreTrue
<1>1. StoreInv => SizesAreTrue
  <2> SUFFICES ASSUME StoreInv, NEW p \in intact
               PROVE  /\ WholeObject(Len(objects[p]))
                      /\ PlaintextLen(Len(objects[p])) = Len(content[p])
    BY DEF SizesAreTrue
  <2>1. p \in Paths /\ objects[p] # None
    BY DEF StoreInv, TypeOK
  <2> QED
    BY <2>1, Stored, Zenon
<1> QED
  BY <1>1, StoreInvariant, PTL

\* rotate_data_key retires no key that something stored still needs, though
\* handles with older frames go on sealing under theirs.
THEOREM KeysStayKept == Spec => []KeysKept
<1>1. StoreInv => KeysKept
  <2> SUFFICES ASSUME StoreInv, NEW p \in intact
               PROVE  objects[p][1].key \in ring.keys
    BY DEF KeysKept
  <2>1. p \in Paths /\ objects[p] # None
    BY DEF StoreInv, TypeOK
  <2>2. /\ objects[p] \in Objects /\ content[p] \in Plaintexts
        /\ \E key \in ring.keys : IsSealed(objects[p], key, content[p])
    BY <2>1, Stored, Zenon
  <2>3. PICK key \in ring.keys : IsSealed(objects[p], key, content[p])
    BY <2>2, Zenon
  <2>4. objects[p][1].key = key
    BY <2>2, <2>3, HeaderOfSealed
  <2> QED
    BY <2>4
<1> QED
  BY <1>1, StoreInvariant, PTL

\* What get_opts and get_ranges return was stored where they say it was, even
\* when the object is damaged, replaced, copied over or removed before the
\* read or between its two requests.
THEOREM ReadBytesAuthentic == Spec => []ReadsAreAuthentic
<1>1. StoreInv => ReadsAreAuthentic
  BY DEF StoreInv
<1> QED
  BY <1>1, StoreInvariant, PTL

\* A read of an intact object that nothing replaces meanwhile is not refused,
\* whatever its range, unless the handle is older than the key it needs.
THEOREM IntactReadsSucceed == Spec => []ReadsSucceed
<1>1. StoreInv => ReadsSucceed
  BY DEF StoreInv
<1> QED
  BY <1>1, StoreInvariant, PTL
=============================================================================
