--------------------------- MODULE FusionProofs ---------------------------
(***************************************************************************)
(* Proofs about rank fusion, for any two lists of rows, any k, any size of *)
(* the corpus and any limit.                                               *)
(*                                                                         *)
(* The recursive functions of Fusion are reached by counting: a statement  *)
(* that holds at 0, and at each number if it holds at the one before, has  *)
(* no least number at which it fails.                                      *)
(***************************************************************************)
EXTENDS Fusion, WellFoundedInduction, FiniteSetTheorems, TLAPS

-----------------------------------------------------------------------------
(* Counting. *)

\* A set that holds 0, and with each number the next one up to n, holds them all.
LEMMA Counting ==
  ASSUME NEW n \in Nat, NEW G, 0 \in G, \A m \in 1..n : m - 1 \in G => m \in G
  PROVE  \A m \in 0..n : m \in G
<1> DEFINE R == OpToRel(<, Nat)
           S == {m \in 0..n : m \notin G}
<1>1. \A x, y \in Nat : <<y, x>> \in R <=> y < x
  BY DEF OpToRel
<1>2. IsWellFoundedOn(R, Nat)
  BY NatLessThanWellFounded
<1> HIDE DEF R
<1>3. SUFFICES ASSUME S # {} PROVE FALSE
  OBVIOUS
<1>4. S \subseteq Nat
  OBVIOUS
<1>5. PICK x \in S : \A y \in S : ~(<<y, x>> \in R)
  <2> HIDE DEF S
  <2> QED BY <1>2, <1>3, <1>4, WFMin
<1>6. x \in 0..n /\ x \notin G /\ x # 0
  BY <1>5
<1>7. x - 1 \in 0..n /\ x \in 1..n /\ x \in Nat /\ x - 1 \in Nat /\ x - 1 < x
  BY <1>6
<1>8. x - 1 \notin S
  <2>1. <<x - 1, x>> \in R
    BY <1>1, <1>7
  <2> QED BY <1>5, <2>1
<1>9. x - 1 \in G
  BY <1>7, <1>8
<1> QED
  BY <1>6, <1>7, <1>9

\* What Denominator multiplies: each number in turn.
LEMMA Products ==
  ASSUME NEW k \in Nat, NEW n \in Nat
  PROVE  \E p : /\ p = [r \in 0..n |-> IF r = 0 THEN 1 ELSE p[r - 1] * (k + r)]
                /\ Denominator(k, n) = p[n]
<1> DEFINE Is(f, m) == f = [r \in 0..m |-> IF r = 0 THEN 1 ELSE f[r - 1] * (k + r)]
           G == {m \in 0..n : \E f : Is(f, m)}
           product[r \in 0..n] == IF r = 0 THEN 1 ELSE product[r - 1] * (k + r)
<1>1. 0 \in G
  <2>1. Is([r \in 0..0 |-> 1], 0)
    OBVIOUS
  <2> HIDE DEF Is
  <2> QED BY <2>1
<1>2. ASSUME NEW m \in 1..n, m - 1 \in G PROVE m \in G
  <2>1. PICK f : Is(f, m - 1)
    BY <1>2
  <2> DEFINE g == [r \in 0..m |-> IF r = m THEN f[m - 1] * (k + m) ELSE f[r]]
  <2>2. m \in Nat /\ m - 1 \in Nat /\ m \in 0..n /\ m # 0
    BY <1>2
  <2>3. ASSUME NEW r \in 0..m
        PROVE  g[r] = IF r = 0 THEN 1 ELSE g[r - 1] * (k + r)
    <3>1. CASE r = m
      <4>1. g[m] = f[m - 1] * (k + m) /\ g[m - 1] = f[m - 1]
        BY <2>2
      <4> QED BY <2>2, <3>1, <4>1
    <3>2. CASE r # m
      <4>1. r \in 0..(m - 1) /\ (r # 0 => r - 1 \in 0..(m - 1))
        BY <2>2, <3>2
      <4>2. g[r] = f[r] /\ (r # 0 => g[r - 1] = f[r - 1])
        BY <2>2, <3>2, <4>1
      <4>3. f[r] = IF r = 0 THEN 1 ELSE f[r - 1] * (k + r)
        BY <2>1, <4>1
      <4> QED BY <4>2, <4>3
    <3> QED BY <3>1, <3>2
  <2>4. Is(g, m)
    BY <2>3
  <2> HIDE DEF Is, g
  <2> QED BY <2>2, <2>4
<1>3. \E f : Is(f, n)
  <2> HIDE DEF Is
  <2>1. \A m \in 0..n : m \in G
    <3> HIDE DEF G
    <3> QED BY <1>1, <1>2, Counting
  <2> QED BY <2>1
<1>4. Is(product, n)
  BY <1>3 DEF product
<1>5. Denominator(k, n) = product[n]
  BY DEF Denominator
<1> QED
  BY <1>4, <1>5

\* Division undoes multiplication.
LEMMA Quotient ==
  ASSUME NEW q \in Nat, NEW d \in Nat, d > 0
  PROVE  (q * d) \div d = q
BY Z3

\* The denominator is a multiple of every k + rank, so a share is exact.
LEMMA ShareExact ==
  ASSUME NEW k \in Nat, NEW n \in Nat
  PROVE  /\ Denominator(k, n) \in Nat /\ Denominator(k, n) > 0
         /\ \A r \in 1..n : /\ Share(k, r, n) \in Nat
                            /\ Share(k, r, n) * (k + r) = Denominator(k, n)
<1>1. PICK p : /\ p = [r \in 0..n |-> IF r = 0 THEN 1 ELSE p[r - 1] * (k + r)]
               /\ Denominator(k, n) = p[n]
  BY Products
<1> DEFINE Multiple(x, m) == \A r \in 1..m : \E q \in Nat : x = q * (k + r)
           G == {m \in 0..n : p[m] \in Nat /\ p[m] > 0 /\ Multiple(p[m], m)}
<1>2. 0 \in G
  <2>1. p[0] = 1
    BY <1>1
  <2> QED BY <2>1
<1>3. ASSUME NEW m \in 1..n, m - 1 \in G PROVE m \in G
  <2> DEFINE x == p[m - 1]
  <2>1. x \in Nat /\ x > 0 /\ Multiple(x, m - 1) /\ m \in Nat /\ m > 0
    BY <1>3
  <2>2. p[m] = x * (k + m)
    <3>1. m \in 0..n /\ m # 0
      BY <1>3
    <3> QED BY <1>1, <3>1
  <2> HIDE DEF x
  <2>3. x * (k + m) \in Nat /\ x * (k + m) > 0
    BY <2>1, Z3
  <2>4. ASSUME NEW r \in 1..m PROVE \E q \in Nat : x * (k + m) = q * (k + r)
    <3>1. CASE r = m
      BY <2>1, <3>1
    <3>2. CASE r # m
      <4>1. r \in 1..(m - 1) /\ r \in Nat
        BY <2>1, <3>2
      <4>2. PICK q \in Nat : x = q * (k + r)
        BY <2>1, <4>1
      <4>3. q * (k + m) \in Nat /\ x * (k + m) = (q * (k + m)) * (k + r)
        BY <2>1, <4>1, <4>2, Z3
      <4> QED BY <4>3
    <3> QED BY <3>1, <3>2
  <2>5. m \in 0..n
    BY <1>3
  <2> QED BY <2>2, <2>3, <2>4, <2>5
<1>4. n \in G
  <2> HIDE DEF G
  <2>1. \A m \in 0..n : m \in G
    BY <1>2, <1>3, Counting
  <2> QED BY <2>1
<1> DEFINE D == Denominator(k, n)
<1>5. D \in Nat /\ D > 0 /\ Multiple(D, n)
  BY <1>1, <1>4
<1>6. ASSUME NEW r \in 1..n
      PROVE  Share(k, r, n) \in Nat /\ Share(k, r, n) * (k + r) = D
  <2> HIDE DEF D
  <2>1. PICK q \in Nat : D = q * (k + r)
    BY <1>5
  <2>2. k + r \in Nat /\ k + r > 0
    OBVIOUS
  <2>3. D \div (k + r) = q
    BY <2>1, <2>2, Quotient
  <2>4. Share(k, r, n) = q
    BY <2>3 DEF Share, D
  <2> QED BY <2>1, <2>4
<1> QED
  BY <1>5, <1>6

-----------------------------------------------------------------------------
(* What one list adds. *)

\* A row's hit as far as there is one.
Hit(hits, row) == IF row \in DOMAIN hits THEN hits[row] ELSE Unplaced

\* A score and two ranks.
IsHit(h) ==
  /\ h = [x \in {"score", "vector_rank", "lexical_rank"} |-> h[x]]
  /\ h.score \in Nat /\ h.vector_rank \in Nat /\ h.lexical_rank \in Nat

\* contribute, position by position.
LEMMA Contributions ==
  ASSUME NEW hits, NEW list, Len(list) \in Nat, NEW side, NEW k, NEW n
  PROVE  \E a : /\ a = [i \in 0..Len(list) |->
                          IF i = 0 THEN hits
                          ELSE Placed(a[i - 1], list[i], side, i, Share(k, i, n))]
                /\ Contribute(hits, list, side, k, n) = a[Len(list)]
<1> DEFINE Is(f, m) ==
             f = [i \in 0..m |-> IF i = 0 THEN hits
                                 ELSE Placed(f[i - 1], list[i], side, i, Share(k, i, n))]
           G == {m \in 0..Len(list) : \E f : Is(f, m)}
           after[i \in 0..Len(list)] ==
             IF i = 0 THEN hits ELSE Placed(after[i - 1], list[i], side, i, Share(k, i, n))
<1>1. 0 \in G
  <2>1. Is([i \in 0..0 |-> hits], 0)
    OBVIOUS
  <2> HIDE DEF Is
  <2> QED BY <2>1
<1>2. ASSUME NEW m \in 1..Len(list), m - 1 \in G PROVE m \in G
  <2>1. PICK f : Is(f, m - 1)
    BY <1>2
  <2> DEFINE new == Placed(f[m - 1], list[m], side, m, Share(k, m, n))
             g == [i \in 0..m |-> IF i = m THEN new ELSE f[i]]
  <2>2. m \in Nat /\ m - 1 \in Nat /\ m \in 0..Len(list) /\ m # 0
    BY <1>2
  <2>3. ASSUME NEW i \in 0..m
        PROVE  g[i] = IF i = 0 THEN hits
                      ELSE Placed(g[i - 1], list[i], side, i, Share(k, i, n))
    <3>1. CASE i = m
      <4>1. g[m] = new /\ g[m - 1] = f[m - 1]
        BY <2>2
      <4> QED BY <2>2, <3>1, <4>1
    <3>2. CASE i # m
      <4>1. i \in 0..(m - 1) /\ (i # 0 => i - 1 \in 0..(m - 1))
        BY <2>2, <3>2
      <4>2. g[i] = f[i] /\ (i # 0 => g[i - 1] = f[i - 1])
        BY <2>2, <3>2, <4>1
      <4>3. f[i] = IF i = 0 THEN hits
                   ELSE Placed(f[i - 1], list[i], side, i, Share(k, i, n))
        BY <2>1, <4>1
      <4> QED BY <4>2, <4>3
    <3> QED BY <3>1, <3>2
  <2>4. Is(g, m)
    <3>1. g = [i \in 0..m |-> g[i]]
      OBVIOUS
    <3> HIDE DEF g
    <3> QED BY <2>3, <3>1
  <2> HIDE DEF Is, g
  <2> QED BY <2>2, <2>4
<1>3. \E f : Is(f, Len(list))
  <2> HIDE DEF Is
  <2>1. \A m \in 0..Len(list) : m \in G
    <3> HIDE DEF G
    <3> QED BY <1>1, <1>2, Counting
  <2> QED BY <2>1
<1>4. Is(after, Len(list))
  BY <1>3 DEF after
<1>5. Contribute(hits, list, side, k, n) = after[Len(list)]
  BY DEF Contribute
<1> QED
  BY <1>4, <1>5

\* The lists that place a row.
Sides == {"vector_rank", "lexical_rank"}

\* One place: the row's hit has that rank on that side and the share on top of
\* its score, and nothing else changes.
PlacedIn(hits, row, side, rank, share, out) ==
  /\ DOMAIN out = DOMAIN hits \cup {row}
  /\ \A x \in DOMAIN out : IsHit(out[x])
  /\ \A x \in DOMAIN out : x # row => x \in DOMAIN hits /\ out[x] = hits[x]
  /\ out[row].score = Hit(hits, row).score + share
  /\ out[row][side] = rank
  /\ \A other \in Sides \ {side} : out[row][other] = Hit(hits, row)[other]

\* Placed does this, where the hits are hits.
LEMMA PlacedFacts ==
  ASSUME NEW hits, \A x \in DOMAIN hits : IsHit(hits[x]),
         NEW row, NEW side \in Sides, NEW rank \in Nat, NEW share \in Nat
  PROVE  PlacedIn(hits, row, side, rank, share, Placed(hits, row, side, rank, share))
<1> DEFINE out == Placed(hits, row, side, rank, share)
           h == Hit(hits, row)
           e == [h EXCEPT !.score = @ + share, ![side] = rank]
<1>1. IsHit(h)
  BY DEF IsHit, Hit, Unplaced
<1>2. DOMAIN out = DOMAIN hits \cup {row} /\ out[row] = e
  BY DEF Placed, Hit
<1>3. \A x \in DOMAIN out : x # row => x \in DOMAIN hits /\ out[x] = hits[x]
  BY DEF Placed
<1> HIDE DEF out, h
<1>4. /\ IsHit(e) /\ e.score = h.score + share
      /\ e[side] = rank /\ \A other \in Sides \ {side} : e[other] = h[other]
  <2>1. e = [x \in {"score", "vector_rank", "lexical_rank"} |->
               IF x = side THEN rank ELSE IF x = "score" THEN h.score + share ELSE h[x]]
    BY <1>1 DEF IsHit, Sides
  <2> HIDE DEF e
  <2> QED BY <1>1, <2>1 DEF IsHit, Sides
<1> HIDE DEF e
<1>5. \A x \in DOMAIN out : IsHit(out[x])
  BY <1>2, <1>3, <1>4
<1> QED
  BY <1>2, <1>3, <1>4, <1>5 DEF out, h, PlacedIn

\* What the first m places of a list have made of a row's hit: it keeps its
\* rank on the other side; without a place it is what it was; otherwise the
\* rank is one of its places and the score has grown by the share of each, and
\* by no more if there is one place only.
Grown(before, list, m, side, k, n, row, h) ==
  LET places == {i \in 1..m : list[i] = row} IN
  /\ \A other \in Sides \ {side} : h[other] = before[other]
  /\ places = {} => h = before
  /\ places # {} => h[side] \in places
  /\ h.score >= before.score
  /\ \A i \in places : h.score >= before.score + Share(k, i, n)
  /\ \A i \in places : places = {i} => h.score = before.score + Share(k, i, n)

\* The same of every row, the first m places of the list done.
GrownAll(hits, list, m, side, k, n, out) ==
  /\ DOMAIN out = DOMAIN hits \cup {list[i] : i \in 1..m}
  /\ \A row \in DOMAIN out :
       IsHit(out[row]) /\ Grown(Hit(hits, row), list, m, side, k, n, row, out[row])

\* Before the first place nothing has been added.
LEMMA GrownFirst ==
  ASSUME NEW hits, \A x \in DOMAIN hits : IsHit(hits[x]), NEW list, NEW side, NEW k, NEW n
  PROVE  GrownAll(hits, list, 0, side, k, n, hits)
<1>1. 1..0 = {}
  OBVIOUS
<1>2. ASSUME NEW row \in DOMAIN hits
      PROVE  Grown(Hit(hits, row), list, 0, side, k, n, row, hits[row])
  BY <1>1, <1>2 DEF Grown, Hit, IsHit
<1> QED
  BY <1>1, <1>2 DEF GrownAll

\* The next place.
LEMMA GrownNext ==
  ASSUME NEW hits, \A x \in DOMAIN hits : IsHit(hits[x]),
         NEW list, NEW m \in Nat, m > 0, NEW side \in Sides, NEW k, NEW n,
         \A i \in 1..m : Share(k, i, n) \in Nat,
         NEW out, GrownAll(hits, list, m - 1, side, k, n, out)
  PROVE  GrownAll(hits, list, m, side, k, n,
                  Placed(out, list[m], side, m, Share(k, m, n)))
<1> DEFINE s == Share(k, m, n)
           row == list[m]
           new == Placed(out, row, side, m, s)
           Places(x, i) == {j \in 1..i : list[j] = x}
<1>1. \A x \in DOMAIN out : IsHit(out[x])
  BY DEF GrownAll
<1>2. s \in Nat /\ 1..m = 1..(m - 1) \cup {m} /\ m \notin 1..(m - 1)
  OBVIOUS
<1>3. /\ DOMAIN new = DOMAIN out \cup {row}
      /\ \A x \in DOMAIN new : IsHit(new[x])
      /\ \A x \in DOMAIN new : x # row => x \in DOMAIN out /\ new[x] = out[x]
      /\ new[row].score = Hit(out, row).score + s
      /\ new[row][side] = m
      /\ \A other \in Sides \ {side} : new[row][other] = Hit(out, row)[other]
  <2>1. PlacedIn(out, row, side, m, s, new)
    <3> HIDE DEF s, row
    <3> QED BY <1>1, <1>2, PlacedFacts
  <2> QED BY <2>1 DEF PlacedIn
<1>4. DOMAIN new = DOMAIN hits \cup {list[i] : i \in 1..m}
  <2>1. DOMAIN out = DOMAIN hits \cup {list[i] : i \in 1..(m - 1)}
    BY DEF GrownAll
  <2> HIDE DEF new
  <2> QED BY <1>2, <1>3, <2>1
<1>5. /\ Places(row, m) = Places(row, m - 1) \cup {m} /\ m \notin Places(row, m - 1)
      /\ \A x : x # row => Places(x, m) = Places(x, m - 1)
  BY <1>2
<1>6. ASSUME NEW x \in DOMAIN new, x # row
      PROVE  Grown(Hit(hits, x), list, m, side, k, n, x, new[x])
  <2>1. Grown(Hit(hits, x), list, m - 1, side, k, n, x, out[x]) /\ new[x] = out[x]
    BY <1>3, <1>6 DEF GrownAll
  <2> HIDE DEF new
  <2> QED BY <1>5, <1>6, <2>1 DEF Grown
<1>7. Grown(Hit(hits, row), list, m, side, k, n, row, new[row])
  <2> DEFINE b == Hit(hits, row)
             h == Hit(out, row)
             e == new[row]
             P == Places(row, m - 1)
  <2>1. /\ \A other \in Sides \ {side} : h[other] = b[other]
        /\ P = {} => h = b
        /\ h.score >= b.score
        /\ \A i \in P : h.score >= b.score + Share(k, i, n)
        /\ IsHit(h) /\ IsHit(b)
    <3>1. CASE row \in DOMAIN out
      <4>1. Grown(b, list, m - 1, side, k, n, row, h) /\ IsHit(h)
        BY <3>1 DEF GrownAll, Hit
      <4>2. IsHit(b)
        BY DEF Hit, IsHit, Unplaced
      <4> QED BY <4>1, <4>2 DEF Grown
    <3>2. CASE row \notin DOMAIN out
      <4>1. row \notin DOMAIN hits /\ P = {}
        BY <3>2 DEF GrownAll
      <4>2. h = Unplaced /\ b = Unplaced
        BY <3>2, <4>1 DEF Hit
      <4> QED BY <4>1, <4>2 DEF IsHit, Unplaced
    <3> QED BY <3>1, <3>2
  <2>2. /\ e.score = h.score + s /\ e[side] = m
        /\ \A other \in Sides \ {side} : e[other] = h[other]
    BY <1>3
  <2>3. \A i \in P : i \in 1..m /\ Share(k, i, n) \in Nat
    BY <1>2
  <2> HIDE DEF b, h, e, P, s
  <2>4. h.score \in Nat /\ b.score \in Nat
    BY <2>1 DEF IsHit
  <2>5. /\ e.score >= b.score
        /\ \A i \in P : e.score >= b.score + Share(k, i, n)
        /\ e.score >= b.score + s
        /\ P = {} => e.score = b.score + s
    BY <1>2, <2>1, <2>2, <2>3, <2>4
  <2>6. \A i \in P \cup {m} : P \cup {m} = {i} => i = m /\ P = {}
    BY <1>5 DEF P
  <2>7. Places(row, m) = P \cup {m}
    BY <1>5 DEF P
  <2>8. Share(k, m, n) = s
    BY DEF s
  <2>9. Grown(b, list, m, side, k, n, row, e)
    <3> DEFINE Q == Places(row, m)
    <3>1. /\ Q # {} /\ e[side] \in Q /\ \A i \in Q : e.score >= b.score + Share(k, i, n)
          /\ \A i \in Q : Q = {i} => e.score = b.score + Share(k, i, n)
          /\ \A other \in Sides \ {side} : e[other] = b[other]
          /\ e.score >= b.score
      <4> HIDE DEF Places
      <4> QED BY <2>1, <2>2, <2>5, <2>6, <2>7, <2>8
    <3> QED BY <3>1 DEF Grown
  <2> QED BY <2>9 DEF b, e
<1> QED
  BY <1>3, <1>4, <1>6, <1>7 DEF GrownAll

\* contribute, as a whole.
LEMMA Contributed ==
  ASSUME NEW hits, \A x \in DOMAIN hits : IsHit(hits[x]),
         NEW list, Len(list) \in Nat, NEW side \in Sides, NEW k \in Nat,
         NEW n \in Nat, Len(list) <= n
  PROVE  GrownAll(hits, list, Len(list), side, k, n, Contribute(hits, list, side, k, n))
<1>1. PICK a : /\ a = [i \in 0..Len(list) |->
                          IF i = 0 THEN hits
                          ELSE Placed(a[i - 1], list[i], side, i, Share(k, i, n))]
               /\ Contribute(hits, list, side, k, n) = a[Len(list)]
  BY Contributions
<1>2. \A i \in 1..Len(list) : Share(k, i, n) \in Nat
  <2>1. \A i \in 1..Len(list) : i \in 1..n
    OBVIOUS
  <2> QED BY <2>1, ShareExact
<1> DEFINE G == {m \in 0..Len(list) : GrownAll(hits, list, m, side, k, n, a[m])}
<1>3. 0 \in G
  <2>1. a[0] = hits
    BY <1>1
  <2> QED BY <2>1, GrownFirst
<1>4. ASSUME NEW m \in 1..Len(list), m - 1 \in G PROVE m \in G
  <2>1. m \in 0..Len(list) /\ m \in Nat /\ m > 0 /\ m # 0
    BY <1>4
  <2>2. a[m] = Placed(a[m - 1], list[m], side, m, Share(k, m, n))
    BY <1>1, <2>1
  <2>3. \A i \in 1..m : Share(k, i, n) \in Nat
    BY <1>2, <2>1
  <2>4. GrownAll(hits, list, m - 1, side, k, n, a[m - 1])
    BY <1>4
  <2>5. GrownAll(hits, list, m, side, k, n, a[m])
    BY <2>1, <2>2, <2>3, <2>4, GrownNext
  <2> QED BY <2>1, <2>5
<1> HIDE DEF G
<1>5. \A m \in 0..Len(list) : m \in G
  BY <1>3, <1>4, Counting
<1>6. Len(list) \in G
  BY <1>5
<1> QED
  BY <1>1, <1>6 DEF G

-----------------------------------------------------------------------------
(* What both lists add up to. *)

\* The places of a row in a list.
Places(list, row) == {i \in 1..Len(list) : list[i] = row}

\* The hit of a row that has places in either list or in both.
AddsUp(v, l, k, n, row, h) ==
  /\ IsHit(h)
  /\ h.vector_rank > 0 => h.vector_rank \in Places(v, row)
  /\ h.lexical_rank > 0 => h.lexical_rank \in Places(l, row)
  /\ \A i \in Places(v, row), j \in Places(l, row) :
       /\ h.score >= Share(k, i, n) + Share(k, j, n)
       /\ Places(v, row) = {i} /\ Places(l, row) = {j} =>
            h.score = Share(k, i, n) + Share(k, j, n)
  /\ \A i \in Places(v, row) :
       Places(v, row) = {i} /\ Places(l, row) = {} => h.score = Share(k, i, n)
  /\ \A j \in Places(l, row) :
       Places(v, row) = {} /\ Places(l, row) = {j} => h.score = Share(k, j, n)

\* No list is longer than the longest.
LEMMA LongestFacts ==
  ASSUME NEW v, NEW l, Len(v) \in Nat, Len(l) \in Nat
  PROVE  Longest(v, l) \in Nat /\ Len(v) <= Longest(v, l) /\ Len(l) <= Longest(v, l)
BY DEF Longest

\* The hits of two lists are their members, each with its places added up.
LEMMA HitsFacts ==
  ASSUME NEW v, NEW l, Len(v) \in Nat, Len(l) \in Nat, NEW k \in Nat
  PROVE  LET hits == Hits(v, l, k) IN
         /\ DOMAIN hits = Members(v) \cup Members(l)
         /\ \A row \in DOMAIN hits : AddsUp(v, l, k, Longest(v, l), row, hits[row])
<1> DEFINE n == Longest(v, l)
           one == Contribute(NoHits, v, "vector_rank", k, n)
           both == Contribute(one, l, "lexical_rank", k, n)
           V == "vector_rank"
           L == "lexical_rank"
<1>1. n \in Nat /\ Len(v) <= n /\ Len(l) <= n
  BY LongestFacts
<1>2. DOMAIN NoHits = {} /\ \A x \in DOMAIN NoHits : IsHit(NoHits[x])
  BY DEF NoHits
<1>s. V \in Sides /\ L \in Sides /\ L \in Sides \ {V} /\ V \in Sides \ {L}
  BY DEF Sides
<1>3. GrownAll(NoHits, v, Len(v), V, k, n, one)
  <2> HIDE DEF n
  <2> QED BY <1>1, <1>2, <1>s, Contributed
<1>4. \A x \in DOMAIN one : IsHit(one[x])
  BY <1>3 DEF GrownAll
<1>5. GrownAll(one, l, Len(l), L, k, n, both)
  <2> HIDE DEF n, one
  <2> QED BY <1>1, <1>4, <1>s, Contributed
<1>6. both = Hits(v, l, k)
  BY DEF Hits
<1>7. \A r \in 1..n : Share(k, r, n) \in Nat
  BY <1>1, ShareExact
<1> HIDE DEF n, one, both
<1>8. DOMAIN one = Members(v) /\ DOMAIN both = Members(v) \cup Members(l)
  BY <1>2, <1>3, <1>5 DEF GrownAll, Members
<1>9. ASSUME NEW row \in DOMAIN both PROVE AddsUp(v, l, k, n, row, both[row])
  <2> DEFINE a == Hit(one, row)
             h == both[row]
             Pv == Places(v, row)
             Pl == Places(l, row)
  <2>1. IsHit(h) /\ Grown(a, l, Len(l), L, k, n, row, h)
    BY <1>5, <1>9 DEF GrownAll
  <2>2. IsHit(a) /\ a.lexical_rank = 0 /\ (Pv = {} => a.vector_rank = 0 /\ a.score = 0)
        /\ (Pv # {} => a.vector_rank \in Pv)
        /\ \A i \in Pv : /\ a.score >= Share(k, i, n)
                         /\ Pv = {i} => a.score = Share(k, i, n)
    <3>1. Hit(NoHits, row) = Unplaced /\ IsHit(Unplaced)
      BY <1>2 DEF Hit, Unplaced, IsHit
    <3>2. CASE row \in DOMAIN one
      <4>1. IsHit(a) /\ Grown(Unplaced, v, Len(v), V, k, n, row, a)
        BY <1>3, <3>1, <3>2 DEF GrownAll, Hit
      <4>2. Unplaced.score = 0 /\ Unplaced.vector_rank = 0 /\ Unplaced.lexical_rank = 0
        BY DEF Unplaced
      <4>3. \A i \in Pv : Share(k, i, n) \in Nat
        BY <1>1, <1>7 DEF Places
      <4> HIDE DEF a
      <4> QED BY <1>s, <4>1, <4>2, <4>3 DEF Grown, Places
    <3>3. CASE row \notin DOMAIN one
      <4>1. Pv = {}
        BY <1>8, <3>3 DEF Places, Members
      <4>2. a = Unplaced
        BY <3>3 DEF Hit
      <4> QED BY <3>1, <4>1, <4>2 DEF Unplaced
    <3> QED BY <3>2, <3>3
  <2>3. \A i \in Pv \cup Pl : Share(k, i, n) \in Nat
    BY <1>1, <1>7 DEF Places
  <2> HIDE DEF a, h, Pv, Pl
  <2>4. /\ h.vector_rank = a.vector_rank
        /\ Pl = {} => h = a
        /\ Pl # {} => h.lexical_rank \in Pl
        /\ \A j \in Pl : /\ h.score >= a.score + Share(k, j, n)
                         /\ Pl = {j} => h.score = a.score + Share(k, j, n)
    BY <1>s, <2>1 DEF Grown, Pl, Places
  <2>5. a.score \in Nat /\ h.score \in Nat
    BY <2>1, <2>2 DEF IsHit
  <2>6. \A i \in Pv, j \in Pl :
          /\ h.score >= Share(k, i, n) + Share(k, j, n)
          /\ Pv = {i} /\ Pl = {j} => h.score = Share(k, i, n) + Share(k, j, n)
    BY <2>2, <2>3, <2>4, <2>5
  <2>7. \A i \in Pv : Pv = {i} /\ Pl = {} => h.score = Share(k, i, n)
    BY <2>2, <2>4
  <2>8. \A j \in Pl : Pv = {} /\ Pl = {j} => h.score = Share(k, j, n)
    BY <2>2, <2>3, <2>4, <2>5
  <2>9. /\ h.vector_rank > 0 => h.vector_rank \in Pv
        /\ h.lexical_rank > 0 => h.lexical_rank \in Pl
    <3>1. Pv = {} => ~(h.vector_rank > 0)
      BY <2>2, <2>4
    <3>2. Pl = {} => ~(h.lexical_rank > 0)
      BY <2>2, <2>4
    <3> QED BY <2>2, <2>4, <3>1, <3>2
  <2> QED BY <2>1, <2>6, <2>7, <2>8, <2>9 DEF AddsUp, Pv, Pl, h
<1> QED
  BY <1>6, <1>8, <1>9 DEF n

-----------------------------------------------------------------------------
(* The order. *)

\* Scored rows, of which there are finitely many.
Scored(hits) ==
  /\ IsFiniteSet(DOMAIN hits) /\ DOMAIN hits \subseteq Nat
  /\ \A row \in DOMAIN hits : hits[row].score \in Nat

\* A ranking holds rows of the hits, and each comes before all that are not
\* above it.
LEMMA RankingFacts ==
  ASSUME NEW hits, Scored(hits)
  PROVE  LET c == Cardinality(DOMAIN hits)
             rows == Ranking(hits) IN
         /\ c \in Nat /\ DOMAIN rows = 1..c
         /\ \A p \in 1..c : rows[p] \in DOMAIN hits
         /\ \A p \in 1..c : \A o \in DOMAIN hits :
              (\A i \in 1..p : rows[i] # o) => Ahead(hits, rows[p], o)
<1> DEFINE D == DOMAIN hits
           c == Cardinality(D)
           rows == Ranking(hits)
           Above(x) == {o \in D \ {x} : Ahead(hits, o, x)}
           count == [x \in D |-> Cardinality(Above(x))]
<1>1. IsFiniteSet(D) /\ c \in Nat
  BY FS_CardinalityType DEF Scored
<1>2. ASSUME NEW x \in D
      PROVE  IsFiniteSet(Above(x)) /\ count[x] \in 0..(c - 1)
  <2>1. IsFiniteSet(D \ {x}) /\ Cardinality(D \ {x}) = c - 1
    BY <1>1, FS_RemoveElement
  <2>2. Above(x) \in SUBSET (D \ {x})
    OBVIOUS
  <2>3. IsFiniteSet(Above(x)) /\ Cardinality(Above(x)) <= c - 1
    BY <2>1, <2>2, FS_Subset
  <2>4. Cardinality(Above(x)) \in Nat
    BY <2>3, FS_CardinalityType
  <2> QED BY <1>1, <2>3, <2>4
<1>3. ASSUME NEW x \in D, NEW y \in D, x # y
      PROVE  Ahead(hits, x, y) \/ Ahead(hits, y, x)
  BY <1>3 DEF Ahead, Scored
<1>4. ASSUME NEW x \in D, NEW y \in D, x # y, Ahead(hits, x, y)
      PROVE  count[x] < count[y]
  <2>1. Above(x) \cup {x} \subseteq Above(y)
    <3>1. ASSUME NEW o \in D, o # x, Ahead(hits, o, x)
          PROVE  o # y /\ Ahead(hits, o, y)
      BY <1>4, <3>1 DEF Ahead, Scored
    <3> QED BY <1>4, <3>1
  <2>2. Cardinality(Above(x) \cup {x}) = Cardinality(Above(x)) + 1
    BY <1>2, FS_AddElement
  <2>3. Cardinality(Above(x) \cup {x}) <= Cardinality(Above(y))
    <3>1. IsFiniteSet(Above(y))
      BY <1>2
    <3> HIDE DEF Above
    <3> QED BY <2>1, <3>1, FS_Subset
  <2>4. count[x] = Cardinality(Above(x)) /\ count[y] = Cardinality(Above(y))
    OBVIOUS
  <2>5. count[x] \in Nat /\ count[y] \in Nat
    <3>1. count[x] \in 0..(c - 1) /\ count[y] \in 0..(c - 1)
      BY <1>2
    <3> HIDE DEF count, c
    <3> QED BY <3>1
  <2> HIDE DEF count, Above
  <2> QED BY <2>2, <2>3, <2>4, <2>5
<1> HIDE DEF D, c
<1>5. \A x, y \in D : count[x] = count[y] => x = y
  <2> SUFFICES ASSUME NEW x \in D, NEW y \in D, count[x] = count[y], x # y PROVE FALSE
    OBVIOUS
  <2>1. count[x] \in Int /\ count[y] \in Int
    <3>1. count[x] \in 0..(c - 1) /\ count[y] \in 0..(c - 1)
      BY <1>2
    <3> HIDE DEF count
    <3> QED BY <3>1
  <2>2. count[x] < count[y] \/ count[y] < count[x]
    BY <1>3, <1>4
  <2> HIDE DEF count
  <2> QED BY <2>1, <2>2
<1>6. \A p \in 1..c : \E x \in D : count[x] = p - 1
  <2>1. count \in Injection(D, 0..(c - 1))
    <3>1. \A x \in D : count[x] \in 0..(c - 1)
      BY <1>2
    <3>2. count = [x \in D |-> count[x]]
      OBVIOUS
    <3> HIDE DEF count
    <3> QED BY <1>5, <3>1, <3>2 DEF Injection, IsInjective
  <2>2. IsFiniteSet(0..(c - 1)) /\ Cardinality(0..(c - 1)) = c
    <3>1. c - 1 \in Int /\ 0 \in Int
      BY <1>1
    <3>2. IsFiniteSet(0..(c - 1))
          /\ Cardinality(0..(c - 1)) = IF 0 > c - 1 THEN 0 ELSE (c - 1) - 0 + 1
      BY <3>1, FS_Interval
    <3> QED BY <1>1, <3>2
  <2>3. count \in Surjection(D, 0..(c - 1))
    <3> HIDE DEF count
    <3>1. Cardinality(D) = c
      BY DEF c
    <3> QED BY <2>1, <2>2, <3>1, FS_Injection
  <2> HIDE DEF count
  <2>4. \A p \in 1..c : p - 1 \in 0..(c - 1)
    BY <1>1
  <2> QED BY <2>3, <2>4 DEF Surjection
<1>7. ASSUME NEW p \in 1..c PROVE rows[p] \in D /\ count[rows[p]] = p - 1
  <2>1. PICK x \in D : count[x] = p - 1
    BY <1>6
  <2>2. x \in D /\ Cardinality(Above(x)) = p - 1
    BY <2>1
  <2>3. rows[p] = CHOOSE row \in D : Cardinality(Above(row)) = p - 1
    BY DEF Ranking, D, c
  <2>4. rows[p] \in D /\ Cardinality(Above(rows[p])) = p - 1
    <3> HIDE DEF rows, Above
    <3> QED BY <2>2, <2>3
  <2> QED BY <2>4
<1>8. ASSUME NEW p \in 1..c, NEW o \in D, \A i \in 1..p : rows[i] # o
      PROVE  Ahead(hits, rows[p], o)
  <2>1. count[o] \in 0..(c - 1)
    BY <1>2
  <2>2. rows[p] \in D /\ count[rows[p]] = p - 1 /\ rows[p] # o
    <3>1. p \in 1..p
      BY <1>1
    <3> QED BY <1>7, <1>8, <3>1
  <2> HIDE DEF count, rows
  <2>3. count[o] + 1 \in 1..c /\ count[rows[count[o] + 1]] = count[o]
    <3>1. count[o] + 1 \in 1..c /\ (count[o] + 1) - 1 = count[o]
      BY <1>1, <2>1
    <3>2. count[rows[count[o] + 1]] = (count[o] + 1) - 1
      BY <1>7, <3>1
    <3> QED BY <3>1, <3>2
  <2>4. rows[count[o] + 1] = o
    BY <1>5, <1>7, <2>3
  <2>5. ~(count[o] + 1 \in 1..p)
    BY <1>8, <2>4
  <2>6. ~(count[o] < p - 1)
    BY <1>1, <2>1, <2>5
  <2> QED BY <1>3, <1>4, <2>2, <2>6
<1>9. DOMAIN rows = 1..c
  BY DEF Ranking, c, D
<1> QED
  BY <1>1, <1>7, <1>8, <1>9 DEF D, c

-----------------------------------------------------------------------------
(* fuse. *)

\* A list has finitely many members.
LEMMA MembersFinite ==
  ASSUME NEW s, Len(s) \in Nat
  PROVE  IsFiniteSet(Members(s))
<1> DEFINE f == [i \in 1..Len(s) |-> s[i]]
<1>1. f \in Surjection(1..Len(s), Members(s))
  BY DEF Surjection, Members
<1>2. IsFiniteSet(1..Len(s))
  BY FS_Interval
<1> HIDE DEF f
<1> QED
  BY <1>1, <1>2, FS_Surjection

\* k is a number.
LEMMA EffectiveKType ==
  ASSUME NEW documents
  PROVE  EffectiveK(documents) \in Nat
BY FusionAssumption DEF EffectiveK

\* A fused ranking is the best of the scored rows in their order, with the hit
\* of each.
IsFused(v, l, hits, limit, f) ==
  /\ f.rows \in Seq(Nat) /\ Len(f.rows) <= limit /\ DOMAIN f.rows = 1..Len(f.rows)
  /\ \A p \in 1..Len(f.rows) :
       /\ f.rows[p] \in Members(v) \cup Members(l)
       /\ f.hits[p] = hits[f.rows[p]]
       /\ \A o \in Members(v) \cup Members(l) :
            (\A i \in 1..p : f.rows[i] # o) => Ahead(hits, f.rows[p], o)

\* What fuse returns, for any two lists of row ids.
LEMMA FuseFacts ==
  ASSUME NEW v \in Seq(Nat), NEW l \in Seq(Nat), NEW documents, NEW limit \in Nat
  PROVE  LET f == Fuse(v, l, documents, limit)
             k == EffectiveK(documents)
             hits == Hits(v, l, k) IN
         /\ f.effective_k = k /\ k \in Nat
         /\ DOMAIN hits = Members(v) \cup Members(l)
         /\ \A row \in DOMAIN hits : AddsUp(v, l, k, Longest(v, l), row, hits[row])
         /\ IsFused(v, l, hits, limit, f)
<1> DEFINE f == Fuse(v, l, documents, limit)
           k == EffectiveK(documents)
           hits == Hits(v, l, k)
           D == DOMAIN hits
           c == Cardinality(D)
           ranked == Ranking(hits)
           size == IF limit < c THEN limit ELSE c
<1>1. k \in Nat /\ Len(v) \in Nat /\ Len(l) \in Nat
  BY EffectiveKType
<1>2. /\ D = Members(v) \cup Members(l)
      /\ \A row \in D : AddsUp(v, l, k, Longest(v, l), row, hits[row])
  <2> HIDE DEF k
  <2> QED BY <1>1, HitsFacts
<1> HIDE DEF hits, k
<1>3. Scored(hits)
  <2>1. IsFiniteSet(D)
    <3>1. IsFiniteSet(Members(v)) /\ IsFiniteSet(Members(l))
      BY <1>1, MembersFinite
    <3> HIDE DEF D
    <3> QED BY <1>2, <3>1, FS_Union
  <2>2. D \subseteq Nat
    BY <1>2 DEF Members
  <2>3. \A row \in D : hits[row].score \in Nat
    BY <1>2 DEF AddsUp, IsHit
  <2> QED BY <2>1, <2>2, <2>3 DEF Scored
<1>4. /\ c \in Nat /\ DOMAIN ranked = 1..c
      /\ \A p \in 1..c : ranked[p] \in D
      /\ \A p \in 1..c : \A o \in D :
           (\A i \in 1..p : ranked[i] # o) => Ahead(hits, ranked[p], o)
  BY <1>3, RankingFacts
<1>5. D \subseteq Nat
  BY <1>3 DEF Scored
<1>6. f = [rows |-> Truncated(ranked, limit),
           hits |-> [p \in 1..Len(Truncated(ranked, limit)) |-> hits[Truncated(ranked, limit)[p]]],
           effective_k |-> k]
  BY DEF Fuse, hits, k
<1> HIDE DEF D, c, ranked, f
<1>7. ranked \in Seq(Nat) /\ Len(ranked) = c
  <2>1. ranked = [p \in 1..c |-> ranked[p]]
    <3> DEFINE At(p) == CHOOSE row \in D :
                 Cardinality({o \in D \ {row} : Ahead(hits, o, row)}) = p - 1
    <3>1. ranked = [p \in 1..c |-> At(p)]
      BY DEF ranked, Ranking, c, D
    <3> HIDE DEF At
    <3> QED BY <3>1
  <2>2. ranked \in [1..c -> Nat]
    BY <1>4, <1>5, <2>1
  <2> QED BY <1>4, <2>2
<1>8. size \in Nat /\ size <= c /\ size <= limit
  BY <1>4
<1>9. Truncated(ranked, limit) = SubSeq(ranked, 1, size)
  BY <1>7 DEF Truncated
<1> HIDE DEF size
<1>10. /\ f.rows \in Seq(Nat) /\ Len(f.rows) = size /\ DOMAIN f.rows = 1..size
       /\ \A p \in 1..size : f.rows[p] = ranked[p]
  <2>1. f.rows = SubSeq(ranked, 1, size)
    BY <1>6, <1>9
  <2>2. \A i \in 1..size : i \in 1..Len(ranked)
    BY <1>4, <1>7, <1>8
  <2>3. SubSeq(ranked, 1, size) = [i \in 1..size |-> ranked[i]]
    BY <1>7, <1>8
  <2>4. \A i \in 1..size : ranked[i] \in Nat
    BY <1>7, <2>2
  <2>5. f.rows = [i \in 1..size |-> ranked[i]]
    BY <2>1, <2>3
  <2> DEFINE rows == f.rows
  <2>6. size \in Nat /\ rows = [i \in 1..size |-> ranked[i]]
    BY <1>8, <2>5
  <2> HIDE DEF rows
  <2>7. DOMAIN rows = 1..size /\ (\A p \in 1..size : rows[p] = ranked[p])
        /\ rows \in [1..size -> Nat]
    BY <2>4, <2>6
  <2>8. rows \in Seq(Nat) /\ Len(rows) = size
    BY <2>6, <2>7
  <2> QED BY <2>7, <2>8 DEF rows
<1>11. f.effective_k = k /\ \A p \in 1..size : f.hits[p] = hits[f.rows[p]]
  BY <1>6, <1>10
<1>12. IsFused(v, l, hits, limit, f)
  <2>1. \A p \in 1..size : p \in 1..c /\ \A i \in 1..p : i \in 1..size
    BY <1>4, <1>8
  <2> QED BY <1>2, <1>4, <1>8, <1>10, <1>11, <2>1 DEF IsFused
<1> QED
  BY <1>1, <1>2, <1>11, <1>12 DEF f, D, hits, k

\* Where a list names no row twice, a row has the place Position says or none.
LEMMA OnePlace ==
  ASSUME NEW s, Distinct(s), NEW row
  PROVE  IF row \in Members(s)
         THEN Position(s, row) \in Places(s, row) /\ Places(s, row) = {Position(s, row)}
         ELSE Places(s, row) = {}
<1>1. CASE row \in Members(s)
  <2>1. \E i \in 1..Len(s) : s[i] = row
    BY <1>1 DEF Members
  <2>2. Position(s, row) \in 1..Len(s) /\ s[Position(s, row)] = row
    BY <2>1 DEF Position
  <2> QED BY <1>1, <2>2 DEF Places, Distinct
<1>2. CASE row \notin Members(s)
  BY <1>2 DEF Members, Places
<1> QED
  BY <1>1, <1>2

\* For any two rankings that name no row twice, any size of the corpus and any
\* limit: fuse scores every row by the formula, reports its places and orders
\* the rows by score and id.
THEOREM FuseByFormula ==
  ASSUME NEW v \in Seq(Nat), NEW l \in Seq(Nat), NEW documents, NEW limit \in Nat,
         Distinct(v), Distinct(l)
  PROVE  ByFormula(v, l, Fuse(v, l, documents, limit))
<1> DEFINE f == Fuse(v, l, documents, limit)
           k == EffectiveK(documents)
           n == Longest(v, l)
           hits == Hits(v, l, k)
           score(row) == FormulaScore(v, l, f.effective_k, row)
           All == Members(v) \cup Members(l)
<1>1. /\ f.effective_k = k /\ k \in Nat /\ DOMAIN hits = All
      /\ \A row \in DOMAIN hits : AddsUp(v, l, k, n, row, hits[row])
      /\ IsFused(v, l, hits, limit, f)
  BY FuseFacts
<1>2. \A r \in 1..n : Share(k, r, n) \in Nat
  <2>1. n \in Nat
    BY LongestFacts
  <2> HIDE DEF n, k
  <2> QED BY <1>1, <2>1, ShareExact
<1>3. \A row : /\ \A i \in Places(v, row) : i \in 1..n
               /\ \A i \in Places(l, row) : i \in 1..n
  <2>1. n \in Nat /\ Len(v) <= n /\ Len(l) <= n
    BY LongestFacts
  <2> HIDE DEF n
  <2> QED BY <2>1 DEF Places
<1> HIDE DEF f, k, hits
<1>4. ASSUME NEW row \in All PROVE hits[row].score = score(row)
  <2> DEFINE a == Position(v, row)
             b == Position(l, row)
             x == IF row \in Members(v) THEN Share(k, a, n) ELSE 0
             y == IF row \in Members(l) THEN Share(k, b, n) ELSE 0
  <2>1. score(row) = x + y
    BY <1>1 DEF FormulaScore, Share
  <2>2. AddsUp(v, l, k, n, row, hits[row])
    BY <1>1
  <2>3. /\ row \in Members(v) => a \in Places(v, row) /\ Places(v, row) = {a}
        /\ row \notin Members(v) => Places(v, row) = {}
        /\ row \in Members(l) => b \in Places(l, row) /\ Places(l, row) = {b}
        /\ row \notin Members(l) => Places(l, row) = {}
    BY OnePlace
  <2> HIDE DEF a, b, n, score
  <2>4. /\ row \in Members(v) => Share(k, a, n) \in Nat
        /\ row \in Members(l) => Share(k, b, n) \in Nat
    BY <1>2, <1>3, <2>3
  <2>5. hits[row].score = x + y
    <3> DEFINE h == hits[row]
               P == Places(v, row)
               Q == Places(l, row)
    <3>1. /\ \A i \in P, j \in Q :
               P = {i} /\ Q = {j} => h.score = Share(k, i, n) + Share(k, j, n)
          /\ \A i \in P : P = {i} /\ Q = {} => h.score = Share(k, i, n)
          /\ \A j \in Q : P = {} /\ Q = {j} => h.score = Share(k, j, n)
      BY <2>2 DEF AddsUp
    <3> HIDE DEF h, P, Q
    <3>2. /\ row \in Members(v) => a \in P /\ P = {a}
          /\ row \notin Members(v) => P = {}
          /\ row \in Members(l) => b \in Q /\ Q = {b}
          /\ row \notin Members(l) => Q = {}
      BY <2>3 DEF P, Q
    <3>3. CASE row \in Members(v) /\ row \in Members(l)
      BY <3>1, <3>2, <3>3 DEF h
    <3>4. CASE row \in Members(v) /\ row \notin Members(l)
      BY <2>4, <3>1, <3>2, <3>4 DEF h
    <3>5. CASE row \notin Members(v) /\ row \in Members(l)
      BY <2>4, <3>1, <3>2, <3>5 DEF h
    <3> QED BY <1>4, <3>3, <3>4, <3>5
  <2> QED BY <2>1, <2>5
<1>5. ASSUME NEW p \in DOMAIN f.rows
      PROVE  /\ f.hits[p].score = score(f.rows[p])
             /\ f.hits[p].vector_rank > 0 => v[f.hits[p].vector_rank] = f.rows[p]
             /\ f.hits[p].lexical_rank > 0 => l[f.hits[p].lexical_rank] = f.rows[p]
  <2>1. f.rows[p] \in All /\ f.hits[p] = hits[f.rows[p]]
    BY <1>1 DEF IsFused
  <2>2. AddsUp(v, l, k, n, f.rows[p], f.hits[p])
    BY <1>1, <2>1
  <2> QED BY <1>4, <2>1, <2>2 DEF AddsUp, Places
<1>6. ASSUME NEW p \in DOMAIN f.rows, NEW other \in All \ {f.rows[i] : i \in 1..p}
      PROVE  \/ score(f.rows[p]) > score(other)
             \/ score(f.rows[p]) = score(other) /\ f.rows[p] < other
  <2>1. f.rows[p] \in All /\ Ahead(hits, f.rows[p], other)
    BY <1>1, <1>6 DEF IsFused
  <2>2. hits[f.rows[p]].score = score(f.rows[p]) /\ hits[other].score = score(other)
    BY <1>4, <1>6, <2>1
  <2> HIDE DEF score
  <2> QED BY <2>1, <2>2 DEF Ahead
<1> QED
  BY <1>5, <1>6 DEF ByFormula, f

\* A place in both lists no lower than k + 1 outweighs any one place.
LEMMA TwoOutweighOne ==
  ASSUME NEW k \in Nat, NEW n \in Nat, NEW i \in 1..n, NEW j \in 1..n, NEW r \in 1..n,
         i <= k + 1, j <= k + 1
  PROVE  /\ Share(k, i, n) \in Nat /\ Share(k, j, n) \in Nat /\ Share(k, r, n) \in Nat
         /\ Share(k, i, n) + Share(k, j, n) > Share(k, r, n)
<1> DEFINE D == Denominator(k, n)
           a == Share(k, i, n)
           b == Share(k, j, n)
           x == Share(k, r, n)
<1>1. /\ D \in Nat /\ D > 0 /\ a \in Nat /\ b \in Nat /\ x \in Nat
      /\ a * (k + i) = D /\ b * (k + j) = D /\ x * (k + r) = D
  BY ShareExact
<1>2. i \in Nat /\ j \in Nat /\ r \in Nat /\ r >= 1 /\ i <= k + 1 /\ j <= k + 1
  OBVIOUS
<1> HIDE DEF D, a, b, x
<1>3. a * (2 * k + 1) >= D
  BY <1>1, <1>2, Z3
<1>4. b * (2 * k + 1) >= D
  BY <1>1, <1>2, Z3
<1>5. x * (k + 1) <= D /\ x > 0
  BY <1>1, <1>2, Z3
<1>6. (a + b) * (2 * k + 1) >= x * (2 * k + 2)
  BY <1>1, <1>3, <1>4, <1>5, Z3
<1>7. a + b > x
  BY <1>1, <1>5, <1>6, Z3
<1> QED
  BY <1>1, <1>7 DEF a, b, x

\* For any two rankings, also such as name a row twice, and any corpus and
\* limit: a row that both sides rank no lower than k + 1 comes before every row
\* with one place in one of them.
THEOREM FusePrefersBoth ==
  ASSUME NEW v \in Seq(Nat), NEW l \in Seq(Nat), NEW documents, NEW limit \in Nat
  PROVE  BothFirst(v, l, Fuse(v, l, documents, limit))
<1> DEFINE f == Fuse(v, l, documents, limit)
           k == EffectiveK(documents)
           n == Longest(v, l)
           hits == Hits(v, l, k)
           All == Members(v) \cup Members(l)
           places(row) == {<<1, i>> : i \in {m \in DOMAIN v : v[m] = row}} \cup
                          {<<2, i>> : i \in {m \in DOMAIN l : l[m] = row}}
           high(s, row) == row \in Members(s) /\ Position(s, row) <= f.effective_k + 1
<1>1. /\ f.effective_k = k /\ k \in Nat /\ DOMAIN hits = All
      /\ \A row \in DOMAIN hits : AddsUp(v, l, k, n, row, hits[row])
      /\ IsFused(v, l, hits, limit, f)
  BY FuseFacts
<1>2. n \in Nat /\ Len(v) <= n /\ Len(l) <= n
  BY LongestFacts
<1> HIDE DEF f, k, hits, n
<1>3. \A row : /\ \A i \in Places(v, row) : i \in 1..n
               /\ \A i \in Places(l, row) : i \in 1..n
  BY <1>2 DEF Places
<1> SUFFICES ASSUME NEW p \in DOMAIN f.rows, Cardinality(places(f.rows[p])) = 1,
                    NEW both \in Members(v), high(v, both), high(l, both)
             PROVE  \E i \in 1..p : f.rows[i] = both
  BY DEF BothFirst, f
<1> DEFINE row == f.rows[p]
<1>4. row \in All /\ both \in All
  BY <1>1 DEF IsFused
<1>5. \/ \E i \in 1..n : hits[row].score = Share(k, i, n)
  <2>1. PICK x : places(row) = {x}
    <3>1. IsFiniteSet(places(row))
      <4> DEFINE A == {<<1, i>> : i \in {m \in DOMAIN v : v[m] = row}}
                 B == {<<2, i>> : i \in {m \in DOMAIN l : l[m] = row}}
                 U == {1, 2} \X (1..n)
      <4>1. IsFiniteSet(1..n) /\ IsFiniteSet({1, 2})
        <5>1. IsFiniteSet({1} \cup {2})
          BY FS_AddElement, FS_Singleton
        <5>2. {1, 2} = {1} \cup {2}
          OBVIOUS
        <5>3. IsFiniteSet(1..n)
          <6>1. 1 \in Int /\ n \in Int
            BY <1>2
          <6> QED BY ONLY <6>1, FS_Interval
        <5> QED BY <5>1, <5>2, <5>3
      <4>2. IsFiniteSet(U)
        BY <4>1, FS_Product
      <4>3. DOMAIN v = 1..Len(v) /\ DOMAIN l = 1..Len(l)
        OBVIOUS
      <4>4. places(row) \in SUBSET U
        BY <1>2, <4>3
      <4> QED BY <4>2, <4>4, FS_Subset
    <3> HIDE DEF places
    <3> QED BY <3>1, FS_Singleton
  <2>2. DOMAIN v = 1..Len(v) /\ DOMAIN l = 1..Len(l)
    OBVIOUS
  <2>3. CASE \E i \in Places(v, row) : TRUE
    <3>1. PICK i \in Places(v, row) : TRUE
      BY <2>3
    <3>2. <<1, i>> = x
      BY <2>1, <2>2, <3>1 DEF Places
    <3>3. Places(v, row) = {i}
      <4>1. ASSUME NEW j \in Places(v, row) PROVE j = i
        <5>1. <<1, j>> = x
          BY <2>1, <2>2, <4>1 DEF Places
        <5> QED BY <3>2, <5>1
      <4> QED BY <3>1, <4>1
    <3>4. Places(l, row) = {}
      <4>1. ASSUME NEW j \in Places(l, row) PROVE FALSE
        <5>1. <<2, j>> = x
          BY <2>1, <2>2, <4>1 DEF Places
        <5> QED BY <3>2, <5>1
      <4> QED BY <4>1
    <3>5. hits[row].score = Share(k, i, n)
      BY <1>1, <1>4, <3>1, <3>3, <3>4 DEF AddsUp
    <3> QED BY <1>3, <3>1, <3>5
  <2>4. CASE Places(v, row) = {}
    <3>1. PICK j \in Places(l, row) : TRUE
      BY <1>4, <2>4 DEF Members, Places
    <3>2. <<2, j>> = x
      BY <2>1, <2>2, <3>1 DEF Places
    <3>3. Places(l, row) = {j}
      <4>1. ASSUME NEW i \in Places(l, row) PROVE i = j
        <5>1. <<2, i>> = x
          BY <2>1, <2>2, <4>1 DEF Places
        <5> QED BY <3>2, <5>1
      <4> QED BY <3>1, <4>1
    <3>4. hits[row].score = Share(k, j, n)
      BY <1>1, <1>4, <2>4, <3>1, <3>3 DEF AddsUp
    <3> QED BY <1>3, <3>1, <3>4
  <2> QED BY <2>3, <2>4
<1>6. PICK i \in Places(v, both), j \in Places(l, both) : i <= k + 1 /\ j <= k + 1
  <2>1. ASSUME NEW s, high(s, both) PROVE Position(s, both) \in Places(s, both)
    <3>1. \E m \in 1..Len(s) : s[m] = both
      BY <2>1 DEF Members
    <3> QED BY <3>1 DEF Position, Places
  <2> QED BY <1>1, <2>1
<1>7. hits[both].score >= Share(k, i, n) + Share(k, j, n) /\ hits[both].score \in Nat
  BY <1>1, <1>4, <1>6 DEF AddsUp, IsHit
<1>8. PICK r \in 1..n : hits[row].score = Share(k, r, n)
  BY <1>5
<1>9. /\ Share(k, i, n) \in Nat /\ Share(k, j, n) \in Nat /\ Share(k, r, n) \in Nat
      /\ Share(k, i, n) + Share(k, j, n) > Share(k, r, n)
  <2>1. i \in 1..n /\ j \in 1..n
    BY <1>3, <1>6
  <2> QED BY <1>1, <1>2, <1>6, <1>8, <2>1, TwoOutweighOne
<1>10. ~Ahead(hits, row, both)
  <2> HIDE DEF row
  <2> QED BY <1>7, <1>8, <1>9 DEF Ahead
<1> QED
  BY <1>1, <1>4, <1>10 DEF IsFused
============================================================================
