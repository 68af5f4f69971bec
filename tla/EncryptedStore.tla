--------------------------- MODULE EncryptedStore ---------------------------
(***************************************************************************)
(* The encrypting object store (crypto/store.rs) over the block frame      *)
(* (frame.rs): objects are sealed block by block on the way down, in one   *)
(* put or in the parts of an upload, and opened in ranges on the way up.   *)
(* Handles take their frame from the keyring when they are opened and keep *)
(* it while the keyring rotates its data key.                              *)
(*                                                                         *)
(* A sealed byte is a cell: it belongs to the header or to a sealed block  *)
(* and has a place there, so a run of cells authenticates exactly when it  *)
(* is one whole block that was sealed under that key with that associated  *)
(* data (AES-GCM, external).  The store underneath replaces an object in   *)
(* one step (external).                                                    *)
(***************************************************************************)
EXTENDS FrameLayout, Sequences, FiniteSets

CONSTANTS
  Handles,      \* stores opened with encrypted()
  Paths,        \* locations of objects
  Parts,        \* what an upload is given at a time, or a put at once
  Ranges,       \* ranges that are asked for
  None,         \* no object, frame, upload or read
  MaxLen,       \* bytes of the longest object
  MaxKeys,      \* data keys in the keyring
  MaxDamages,   \* how often a sealed object is altered from outside
  MaxFaults     \* how often the random source or the store underneath fails

ASSUME BoundsAssumption ==
  MaxLen \in Nat /\ MaxKeys \in Nat \ {0} /\ MaxDamages \in Nat /\ MaxFaults \in Nat

VARIABLES
  ring,      \* the keyring: ids of its data keys and the current one
  frame,     \* the frame of each handle, a copy of the keyring as it was
  objects,   \* the sealed bytes at each location
  content,   \* history: the plaintext that was stored there
  intact,    \* history: locations whose sealed bytes nothing has altered
  upload,    \* the multipart upload a handle has under way
  read,      \* the read it has begun
  result,    \* what its last read returned
  damages,   \* outside alterations so far
  faults     \* faults so far

-----------------------------------------------------------------------------
(* What the variables hold. *)

Keys == 1..MaxKeys
Bytes == UNION {{part[i] : i \in 1..Len(part)} : part \in Parts}
Plaintexts == Seq(Bytes)

\* A keyring, and the frame that was made from it.
Frames == [keys : SUBSET Keys, current : Keys]

\* A sealed byte: of a header, of a block, or one that is neither any more.
Cells ==
  [kind : {"header", "junk"}, key : 0..MaxKeys, at : Nat]
    \cup [kind : {"block"}, key : Keys, at : Nat, plain : Plaintexts,
          aad : Keys \X Nat \X BOOLEAN]
Objects == Seq(Cells)

Uploads ==
  [path : Paths, pending : Plaintexts, next_index : Nat, header_sent : BOOLEAN,
   sent : Objects, failed : BOOLEAN, given : Plaintexts]

Reads ==
  [path : Paths, range : Ranges, from : Nat, to : Nat, start : Nat, end : Nat,
   steady : BOOLEAN]

Refusals ==
  {"truncated", "notframed", "unknownkey", "authentication", "outside", "unavailable"}

Results ==
  [path : Paths, range : Ranges, from : Nat, to : Nat, ok : BOOLEAN,
   bytes : Plaintexts, why : Refusals \cup {"none"}, steady : BOOLEAN, intact : BOOLEAN,
   content : Plaintexts \cup {None}]

ASSUME PartsAssumption == Parts \subseteq Plaintexts
ASSUME RangesAssumption ==
  Ranges \subseteq [kind : {"all", "bounded", "offset", "suffix"}, from : Nat, to : Nat]
ASSUME NoneAssumption ==
  /\ None \notin Frames /\ None \notin Plaintexts /\ None \notin Objects
  /\ None \notin Uploads /\ None \notin Reads /\ None \notin Results

vars == <<ring, frame, objects, content, intact, upload, read, result,
          damages, faults>>
stored == <<objects, content, intact>>

-----------------------------------------------------------------------------
(* Sealing. *)

\* Mutant: a block is not bound to its place.
AssociatedDataWithoutIndex(key, index, final) == <<key, 0, final>>

\* What the tag covers besides the plaintext.
AssociatedData(key, index, final) == <<key, index, final>>

SealBlock(key, index, final, plain) ==
  [j \in 1..Len(plain) + BLOCK_OVERHEAD |->
     [kind |-> "block", key |-> key, at |-> j, plain |-> plain,
      aad |-> AssociatedData(key, index, final)]]

Header(f) ==
  [j \in 1..HEADER_LEN |-> [kind |-> "header", key |-> f.current, at |-> j]]

\* The bytes of block i (from 0) of a plaintext.
Chunk(plain, i) ==
  SubSeq(plain, i * BlockSize + 1, Least((i + 1) * BlockSize, Len(plain)))

\* The first n blocks of a plaintext, all of them full, numbered from `first'.
FullBlocks(f, first, plain, n) ==
  [c \in 1..n * SealedBlockLen |->
     LET i == (c - 1) \div SealedBlockLen IN
       SealBlock(f.current, first + i, FALSE, Chunk(plain, i))
         [((c - 1) % SealedBlockLen) + 1]]

\* A whole object: it ends with a block shorter than a full one, empty when
\* the length is a multiple of the block size.
Seal(f, plain) ==
  LET full == Len(plain) \div BlockSize IN
    Header(f) \o FullBlocks(f, 0, plain, full)
      \o SealBlock(f.current, full, TRUE, Chunk(plain, full))

-----------------------------------------------------------------------------
(* Opening. *)

Opened(bytes) == [ok |-> TRUE, bytes |-> bytes, why |-> "none"]
Refused(why) == [ok |-> FALSE, bytes |-> <<>>, why |-> why]

\* Why read_header refuses these cells, or "none".
HeaderRefusal(f, cells) ==
  IF Len(cells) < HEADER_LEN THEN "truncated"
  ELSE IF \E j \in 1..HEADER_LEN :
            cells[j] # [kind |-> "header", key |-> cells[1].key, at |-> j] THEN "notframed"
  ELSE IF cells[1].key \notin f.keys THEN "unknownkey"
  ELSE "none"

\* A run of cells is what SealBlock made under this key with this data.
Authentic(cells, key, aad) ==
  /\ cells[1].kind = "block" /\ cells[1].key = key /\ cells[1].aad = aad
  /\ Len(cells) = Len(cells[1].plain) + BLOCK_OVERHEAD
  /\ \A j \in 1..Len(cells) : cells[j] = [cells[1] EXCEPT !.at = j]

\* The p-th run (from 0) that open_span cuts the fetched cells into.
Run(cells, p) ==
  SubSeq(cells, p * SealedBlockLen + 1, Least((p + 1) * SealedBlockLen, Len(cells)))

\* Mutant: the frame's own key is used, not the one the object names.
OpeningKeyOfFrame(f, named) == f.current

OpeningKey(f, named) == named

\* Mutant: what is missing at the end of a range goes unnoticed.
SliceClipped(plain, lo, hi) == Opened(SubSeq(plain, lo + 1, Least(hi, Len(plain))))

\* The part of the opened blocks that was asked for, all of it or nothing.
Slice(plain, lo, hi) ==
  IF hi > Len(plain) THEN Refused("outside") ELSE Opened(SubSeq(plain, lo + 1, hi))

\* open_span on the cells fetched from `start' on, for the bytes from..to-1.
OpenSpan(f, cells, start, from, to, named) ==
  LET key == OpeningKey(f, named)
      first == (start - HEADER_LEN) \div SealedBlockLen
      n == (Len(cells) + SealedBlockLen - 1) \div SealedBlockLen
      short == {p \in 0..n-1 : Len(Run(cells, p)) < BLOCK_OVERHEAD}
      bad == {p \in (0..n-1) \ short :
                ~Authentic(Run(cells, p), key,
                           AssociatedData(key, first + p, Len(Run(cells, p)) < SealedBlockLen))}
      plain == [i \in 1..Len(cells) - n * BLOCK_OVERHEAD |->
                  Run(cells, (i - 1) \div BlockSize)[1].plain[((i - 1) % BlockSize) + 1]]
  IN CASE bad # {} -> Refused("authentication")
       [] bad = {} /\ short # {} -> Refused("truncated")
       [] OTHER -> Slice(plain, from - first * BlockSize, to - first * BlockSize)

\* wanted_range: the range that was asked for, within an object of n bytes.
WantedFrom(r, n) ==
  CASE r.kind = "all" -> 0
    [] r.kind = "suffix" -> Greatest(n - r.from, 0)
    [] OTHER -> Least(r.from, n)

WantedTo(r, n) == IF r.kind = "bounded" THEN Least(r.to, n) ELSE n

-----------------------------------------------------------------------------
(* Keys and handles. *)

Init ==
  /\ ring = [keys |-> {1}, current |-> 1]
  /\ frame = [h \in Handles |-> None]
  /\ objects = [p \in Paths |-> None]
  /\ content = [p \in Paths |-> None]
  /\ intact = {}
  /\ upload = [h \in Handles |-> None]
  /\ read = [h \in Handles |-> None]
  /\ result = [h \in Handles |-> None]
  /\ damages = 0
  /\ faults = 0

\* Mutant: the retired key is discarded.
RotatedAlone(r) == [keys |-> {r.current + 1}, current |-> r.current + 1]

Rotated(r) == [keys |-> r.keys \cup {r.current + 1}, current |-> r.current + 1]

RotateDataKey ==
  /\ ring.current < MaxKeys
  /\ ring' = Rotated(ring)
  /\ UNCHANGED <<frame, stored, upload, read, result, damages, faults>>

\* A store is opened, or an open one rebuilt, with the keyring as it is now.
OpenHandle(h) ==
  /\ frame[h] # ring
  /\ upload[h] = None /\ read[h] = None
  /\ frame' = [frame EXCEPT ![h] = ring]
  /\ result' = [result EXCEPT ![h] = None]
  /\ UNCHANGED <<ring, stored, upload, read, damages, faults>>

-----------------------------------------------------------------------------
(* Writing. *)

\* A read that has begun on this location no longer sees one version of it.
Disturb(p) ==
  read' = [h \in Handles |->
             IF read[h] # None /\ read[h].path = p
             THEN [read[h] EXCEPT !.steady = FALSE] ELSE read[h]]

\* The store underneath holds these cells, sealed from this plaintext.
Store(p, cells, plain) ==
  /\ objects' = [objects EXCEPT ![p] = cells]
  /\ content' = [content EXCEPT ![p] = plain]
  /\ intact' = intact \cup {p}
  /\ Disturb(p)

Free(h) == frame[h] # None /\ upload[h] = None /\ read[h] = None

PutOpts(h, p, plain) ==
  /\ Free(h)
  /\ Store(p, Seal(frame[h], plain), plain)
  /\ result' = [result EXCEPT ![h] = None]
  /\ UNCHANGED <<ring, frame, upload, damages, faults>>

PutMultipart(h, p) ==
  /\ Free(h)
  /\ upload' = [upload EXCEPT ![h] =
                  [path |-> p, pending |-> <<>>, next_index |-> 0,
                   header_sent |-> FALSE, sent |-> <<>>, failed |-> FALSE,
                   given |-> <<>>]]
  /\ result' = [result EXCEPT ![h] = None]
  /\ UNCHANGED <<ring, frame, stored, read, damages, faults>>

\* Mutant: the last full block is kept back as well.
DrainableButOne(n) == IF n = 0 THEN 0 ELSE (n - 1) \div BlockSize

\* How many of n pending bytes' blocks can be sealed: full ones are never last.
Drainable(n) == n \div BlockSize

\* Mutant: every part numbers its blocks from 0.
DrainedSameIndex(f, u) ==
  LET n == Drainable(Len(u.pending)) IN
    [u EXCEPT
       !.sent = @ \o (IF u.header_sent THEN <<>> ELSE Header(f))
                  \o FullBlocks(f, 0, u.pending, n),
       !.pending = SubSeq(@, n * BlockSize + 1, Len(@)),
       !.next_index = @ + n,
       !.header_sent = TRUE]

\* drain_full_blocks: the upload with its full blocks sealed and sent.
Drained(f, u) ==
  LET n == Drainable(Len(u.pending)) IN
    [u EXCEPT
       !.sent = @ \o (IF u.header_sent THEN <<>> ELSE Header(f))
                  \o FullBlocks(f, u.next_index, u.pending, n),
       !.pending = SubSeq(@, n * BlockSize + 1, Len(@)),
       !.next_index = @ + n,
       !.header_sent = TRUE]

\* The upload with the bytes of another part in its buffer.
Given(u, part) == [u EXCEPT !.pending = @ \o part, !.given = @ \o part]

PutPart(h, part) ==
  /\ upload[h] # None /\ ~upload[h].failed
  /\ Len(upload[h].given) + Len(part) <= MaxLen
  /\ upload' = [upload EXCEPT ![h] = Drained(frame[h], Given(upload[h], part))]
  /\ UNCHANGED <<ring, frame, stored, read, result, damages, faults>>

\* complete: the rest is sealed as the final block, and the object appears.
Complete(h) ==
  /\ upload[h] # None /\ ~upload[h].failed
  /\ LET u == Drained(frame[h], upload[h]) IN
       Store(u.path,
             u.sent \o SealBlock(frame[h].current, u.next_index, TRUE, u.pending),
             u.given)
  /\ upload' = [upload EXCEPT ![h] = None]
  /\ UNCHANGED <<ring, frame, result, damages, faults>>

\* A part or the completion fails; the format gives the upload up (external).
PartFails(h) ==
  /\ upload[h] # None /\ ~upload[h].failed
  /\ faults < MaxFaults
  /\ faults' = faults + 1
  /\ upload' = [upload EXCEPT ![h].failed = TRUE]
  /\ UNCHANGED <<ring, frame, stored, read, result, damages>>

Abort(h) ==
  /\ upload[h] # None
  /\ upload' = [upload EXCEPT ![h] = None]
  /\ UNCHANGED <<ring, frame, stored, read, result, damages, faults>>

\* Sealed bytes are copied as they are.
CopyOpts(h, from, to) ==
  /\ Free(h) /\ from # to /\ objects[from] # None
  /\ objects' = [objects EXCEPT ![to] = objects[from]]
  /\ content' = [content EXCEPT ![to] = content[from]]
  /\ intact' = IF from \in intact THEN intact \cup {to} ELSE intact \ {to}
  /\ Disturb(to)
  /\ result' = [result EXCEPT ![h] = None]
  /\ UNCHANGED <<ring, frame, upload, damages, faults>>

Delete(h, p) ==
  /\ Free(h) /\ objects[p] # None
  /\ objects' = [objects EXCEPT ![p] = None]
  /\ content' = [content EXCEPT ![p] = None]
  /\ intact' = intact \ {p}
  /\ Disturb(p)
  /\ result' = [result EXCEPT ![h] = None]
  /\ UNCHANGED <<ring, frame, upload, damages, faults>>

-----------------------------------------------------------------------------
(* Reading: get_opts asks for the size first and then, in a second request *)
(* to the store underneath, for the header and the span of blocks.         *)

\* A read of range r at p ends with outcome o, the object holding `plain'.
Outcome(p, r, from, to, o, steady, plain) ==
  [path |-> p, range |-> r, from |-> from, to |-> to, ok |-> o.ok,
   bytes |-> o.bytes, why |-> o.why, steady |-> steady,
   intact |-> p \in intact, content |-> plain]

GetHead(h, p, r) ==
  /\ Free(h) /\ objects[p] # None
  /\ LET len == Len(objects[p])
         n == PlaintextLen(len)
         from == WantedFrom(r, n)
         to == WantedTo(r, n)
     IN \/ /\ ~WholeObject(len)
           /\ result' = [result EXCEPT ![h] =
                           Outcome(p, r, 0, 0, Refused("truncated"), TRUE, content[p])]
           /\ UNCHANGED read
        \/ /\ WholeObject(len) /\ from >= to
           /\ result' = [result EXCEPT ![h] =
                           Outcome(p, r, from, from, Opened(<<>>), TRUE, content[p])]
           /\ UNCHANGED read
        \/ /\ WholeObject(len) /\ from < to
           /\ read' = [read EXCEPT ![h] =
                         [path |-> p, range |-> r, from |-> from, to |-> to,
                          start |-> SpanStart(from), end |-> SpanEnd(from, to, n),
                          steady |-> TRUE]]
           /\ result' = [result EXCEPT ![h] = None]
  /\ UNCHANGED <<ring, frame, stored, upload, damages, faults>>

GetRanges(h) ==
  /\ read[h] # None
  /\ LET g == read[h]
         o == objects[g.path]
         refusal == HeaderRefusal(frame[h], o)
         cells == SubSeq(o, g.start + 1, Least(g.end, Len(o)))
         outcome ==
           CASE o = None -> Refused("unavailable")
             [] o # None /\ g.start >= Len(o) -> Refused("unavailable")
             [] OTHER ->
                  IF refusal # "none" THEN Refused(refusal)
                  ELSE OpenSpan(frame[h], cells, g.start, g.from, g.to, o[1].key)
     IN result' = [result EXCEPT ![h] =
                     Outcome(g.path, g.range, g.from, g.to, outcome, g.steady, content[g.path])]
  /\ read' = [read EXCEPT ![h] = None]
  /\ UNCHANGED <<ring, frame, stored, upload, damages, faults>>

\* The store underneath fails a read that has begun.
GetFails(h) ==
  /\ read[h] # None
  /\ faults < MaxFaults
  /\ faults' = faults + 1
  /\ read' = [read EXCEPT ![h] = None]
  /\ UNCHANGED <<ring, frame, stored, upload, result, damages>>

-----------------------------------------------------------------------------
(* The damage the framing is there to notice: bytes missing at the end,    *)
(* two full blocks exchanged, a byte altered, another key named.           *)

Truncated(o, n) == SubSeq(o, 1, n)

Exchanged(o, i, j) ==
  [c \in 1..Len(o) |->
     LET b == (c - HEADER_LEN - 1) \div SealedBlockLen
         shift == (j - i) * SealedBlockLen
     IN CASE c > HEADER_LEN /\ b = i -> o[c + shift]
          [] c > HEADER_LEN /\ b = j -> o[c - shift]
          [] OTHER -> o[c]]

Flipped(o, c) == [o EXCEPT ![c] = [kind |-> "junk", key |-> 0, at |-> 0]]

Renamed(o, key) ==
  [c \in 1..Len(o) |-> IF c <= HEADER_LEN THEN [o[c] EXCEPT !.key = key] ELSE o[c]]

Damage(p) ==
  /\ p \in intact
  /\ damages < MaxDamages
  /\ damages' = damages + 1
  /\ LET o == objects[p]
         full == Len(content[p]) \div BlockSize
     IN \/ \E n \in 0..Len(o) - 1 : objects' = [objects EXCEPT ![p] = Truncated(o, n)]
        \/ \E i, j \in 0..full - 1 :
             i < j /\ objects' = [objects EXCEPT ![p] = Exchanged(o, i, j)]
        \/ \E c \in 1..Len(o) : objects' = [objects EXCEPT ![p] = Flipped(o, c)]
        \/ \E key \in ring.keys \ {o[1].key} :
             objects' = [objects EXCEPT ![p] = Renamed(o, key)]
  /\ intact' = intact \ {p}
  /\ Disturb(p)
  /\ UNCHANGED <<ring, frame, content, upload, result, faults>>

Next ==
  \/ RotateDataKey
  \/ \E h \in Handles :
       \/ OpenHandle(h)
       \/ \E p \in Paths, part \in Parts : PutOpts(h, p, part)
       \/ \E p \in Paths : PutMultipart(h, p) \/ Delete(h, p)
       \/ \E part \in Parts : PutPart(h, part)
       \/ Complete(h) \/ PartFails(h) \/ Abort(h)
       \/ \E from, to \in Paths : CopyOpts(h, from, to)
       \/ \E p \in Paths, r \in Ranges : GetHead(h, p, r)
       \/ GetRanges(h) \/ GetFails(h)
  \/ \E p \in Paths : Damage(p)

Spec == Init /\ [][Next]_vars

-----------------------------------------------------------------------------
(* Properties. *)

\* Every variable holds a value of its kind; the current key is one the
\* keyring and every frame holds, and an upload keeps back less than a block.
TypeOK ==
  /\ ring \in Frames /\ ring.current \in ring.keys
  /\ frame \in [Handles -> Frames \cup {None}]
  /\ objects \in [Paths -> Objects \cup {None}]
  /\ content \in [Paths -> Plaintexts \cup {None}]
  /\ upload \in [Handles -> Uploads \cup {None}]
  /\ read \in [Handles -> Reads \cup {None}]
  /\ result \in [Handles -> Results \cup {None}]
  /\ \A h \in Handles :
       /\ frame[h] # None => frame[h].current \in frame[h].keys
       /\ upload[h] # None =>
            /\ frame[h] # None
            /\ Len(upload[h].pending) < BlockSize
            /\ Len(upload[h].given) = upload[h].next_index * BlockSize + Len(upload[h].pending)
       /\ read[h] # None =>
            /\ frame[h] # None /\ read[h].from < read[h].to
            /\ read[h].start < read[h].end
  /\ \A p \in Paths : objects[p] = None <=> content[p] = None
  /\ intact \subseteq {p \in Paths : objects[p] # None}
  /\ damages \in 0..MaxDamages
  /\ faults \in 0..MaxFaults

\* However an upload was cut into parts, the object it leaves is the one a
\* single put of the same bytes under the same key would have left: same
\* header, same blocks, same final block.
StreamedIsSealed ==
  \A p \in intact :
    objects[p] = Seal([ring EXCEPT !.current = objects[p][1].key], content[p])

\* head and list report the length of the plaintext, at every length.
SizesAreTrue ==
  \A p \in intact :
    /\ WholeObject(Len(objects[p]))
    /\ PlaintextLen(Len(objects[p])) = Len(content[p])

\* Rotation keeps the key of everything that is stored, whichever handle
\* sealed it and however old that handle's frame is.
KeysKept == \A p \in intact : objects[p][1].key \in ring.keys

\* An object that was cut short, had two blocks exchanged, a byte altered or its
\* key renamed (once), or was replaced or deleted, before the read or between
\* its two requests: the bytes a read returns are bytes that were stored, at the
\* places it says they come from.
ReadsAreAuthentic ==
  \A h \in Handles :
    result[h] # None /\ result[h].ok =>
      /\ result[h].to <= Len(result[h].content)
      /\ result[h].bytes = SubSeq(result[h].content, result[h].from + 1, result[h].to)

\* A read of an intact object that is not replaced meanwhile returns the range
\* it was asked for; only a handle older than the last rotation may be told
\* that it does not know the key.
ReadsSucceed ==
  \A h \in Handles :
    LET r == result[h] IN
    r # None /\ r.steady /\ r.intact =>
      \/ /\ r.ok
         /\ LET n == Len(r.content) IN
              \/ r.from = WantedFrom(r.range, n) /\ r.to = WantedTo(r.range, n)
              \/ r.bytes = <<>> /\ WantedFrom(r.range, n) >= WantedTo(r.range, n)
      \/ r.why = "unknownkey" /\ frame[h].keys # ring.keys

\* Missing bytes are noticed: a read of a whole object that succeeds returns
\* everything that was stored.
TruncationNoticed ==
  \A h \in Handles :
    result[h] # None /\ result[h].ok /\ result[h].steady /\ result[h].range.kind = "all"
      => result[h].bytes = result[h].content
=============================================================================
