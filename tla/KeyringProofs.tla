--------------------------- MODULE KeyringProofs ---------------------------
(***************************************************************************)
(* Proofs about the keyring, for any set of owners and passphrases, any    *)
(* largest key id and any number of random values, failures and damages.   *)
(***************************************************************************)
EXTENDS Keyring, FiniteSetTheorems, TLAPS

-----------------------------------------------------------------------------
(* Key sets and what the operations make of a keyring. *)

\* The largest number of an interval is its end.
LEMMA MaxOfInterval ==
  ASSUME NEW n \in Nat \ {0}
  PROVE  Max(1..n) = n
<1>1. n \in 1..n /\ \A y \in 1..n : n >= y
  OBVIOUS
<1>2. \A x \in 1..n : (\A y \in 1..n : x >= y) => x = n
  OBVIOUS
<1>3. QED BY <1>1, <1>2 DEF Max

\* A key set has its ids from 1 to the newest, and drawn values as keys.
LEMMA KeySetFacts ==
  ASSUME NEW k
  PROVE  k \in KeySets <=> \E n \in 1..LastId : k \in [1..n -> 1..MaxRandom]
BY DEF KeySets

\* The declared number of keys is a number the format can hold, and it is the
\* number of keys exactly while that fits.
LEMMA DeclaredFacts ==
  ASSUME NEW k, NEW n \in Nat \ {0}, DOMAIN k = 1..n
  PROVE  /\ Declared(k) \in 1..LastCount
         /\ Cardinality(DOMAIN k) = n
         /\ n <= LastCount <=> Declared(k) = n
<1>1. Cardinality(1..n) = n
  BY FS_Interval
<1>2. QED BY <1>1, KeyringAssumption DEF Declared

\* A rotation adds one key under the next id and leaves the rest alone.
LEMMA WithNewKeyFacts ==
  ASSUME NEW r \in Keyrings, DOMAIN r.keys = 1..r.current, r.current < LastId,
         NEW key \in 1..MaxRandom
  PROVE  LET q == WithNewKey(r, key) IN
           /\ q \in Keyrings
           /\ q.current = r.current + 1
           /\ DOMAIN q.keys = 1..q.current
           /\ \A i \in 1..r.current : q.keys[i] = r.keys[i]
           /\ q.kek = r.kek /\ q.salt = r.salt /\ q.nonce = r.nonce /\ q.sealed = r.sealed
<1> DEFINE n == r.current
<1> DEFINE k == [i \in DOMAIN r.keys \cup {n + 1} |-> IF i = n + 1 THEN key ELSE r.keys[i]]
<1>1. n \in 1..LastId /\ n + 1 \in 1..LastId /\ n \in Nat \ {0}
  BY KeyringAssumption DEF Keyrings
<1>2. Max(DOMAIN r.keys) = n
  BY <1>1, MaxOfInterval
<1>3. DOMAIN r.keys \cup {n + 1} = 1..(n + 1)
  BY <1>1
<1>4. r.keys \in [1..n -> 1..MaxRandom]
  BY KeySetFacts DEF Keyrings
<1>5. k \in [1..(n + 1) -> 1..MaxRandom]
  BY <1>1, <1>3, <1>4
<1>6. k \in KeySets
  BY <1>1, <1>5, KeySetFacts
<1>7. \A i \in 1..n : k[i] = r.keys[i]
  BY <1>1
<1>8. WithNewKey(r, key) = [r EXCEPT !.keys = k, !.current = n + 1]
  BY <1>2 DEF WithNewKey
<1> HIDE DEF k
<1>9. WithNewKey(r, key) = [keys |-> k, current |-> n + 1, kek |-> r.kek, salt |-> r.salt,
                            nonce |-> r.nonce, sealed |-> r.sealed]
  BY <1>8 DEF Keyrings
<1>10. QED BY <1>1, <1>5, <1>6, <1>7, <1>9 DEF Keyrings

\* A wrapped set is a value of its kind and holds what was wrapped.
LEMMA WrappedFacts ==
  ASSUME NEW kek \in Keks, NEW nonce \in 1..MaxRandom, NEW n \in 1..LastId,
         NEW k \in KeySets, DOMAIN k = 1..n
  PROVE  /\ Wrapped(kek, nonce, n, k) \in WrappedSets
         /\ Wrapped(kek, nonce, n, k).nonce = nonce
<1>1. n \in Nat \ {0}
  BY KeyringAssumption
<1>2. Declared(k) \in 1..LastCount
  BY <1>1, DeclaredFacts
<1>3. QED BY <1>2 DEF Wrapped, WrappedSets

\* Wrapping again changes the nonce and the wrapped set and nothing else.
LEMMA ResealedFacts ==
  ASSUME NEW r \in Keyrings, DOMAIN r.keys = 1..r.current, NEW nonce \in 1..MaxRandom
  PROVE  LET q == Resealed(r, nonce) IN
           /\ q \in Keyrings
           /\ q.current = r.current /\ q.keys = r.keys
           /\ q.kek = r.kek /\ q.salt = r.salt /\ q.nonce = nonce
           /\ q.sealed = Wrapped(r.kek, nonce, r.current, r.keys)
           /\ q.sealed \in WrappedSets /\ q.sealed.nonce = nonce
<1> DEFINE w == Wrapped(r.kek, nonce, r.current, r.keys)
<1>1. w \in WrappedSets /\ w.nonce = nonce
  BY WrappedFacts DEF Keyrings
<1>2. Resealed(r, nonce) = [r EXCEPT !.nonce = nonce, !.sealed = w]
  BY DEF Resealed
<1> HIDE DEF w
<1>3. Resealed(r, nonce) = [keys |-> r.keys, current |-> r.current, kek |-> r.kek,
                            salt |-> r.salt, nonce |-> nonce, sealed |-> w]
  BY <1>2 DEF Keyrings
<1>4. QED BY <1>1, <1>3 DEF Keyrings, w

\* A change of passphrase changes the salt and the key and nothing else.
LEMMA RekeyedFacts ==
  ASSUME NEW r \in Keyrings, NEW p \in Passphrases, NEW salt \in 1..MaxRandom
  PROVE  LET q == Rekeyed(r, p, salt) IN
           /\ q \in Keyrings
           /\ q.current = r.current /\ q.keys = r.keys /\ q.nonce = r.nonce
           /\ q.sealed = r.sealed /\ q.salt = salt
           /\ q.kek = Derive(p, salt) /\ q.kek \in Keks /\ q.kek[2] = salt
<1> DEFINE kek == Derive(p, salt)
<1>1. kek \in Keks /\ kek[2] = salt
  BY DEF Derive, Keks
<1>2. Rekeyed(r, p, salt) = [r EXCEPT !.salt = salt, !.kek = kek]
  BY DEF Rekeyed
<1> HIDE DEF kek
<1>3. Rekeyed(r, p, salt) = [keys |-> r.keys, current |-> r.current, kek |-> kek,
                             salt |-> salt, nonce |-> r.nonce, sealed |-> r.sealed]
  BY <1>2 DEF Keyrings
<1>4. QED BY <1>1, <1>3 DEF Keyrings, kek

\* A new keyring has one key, and is wrapped under the key of its passphrase.
LEMMA CreatedFacts ==
  ASSUME NEW p \in Passphrases, NEW d \in Nat, d + 3 <= MaxRandom
  PROVE  LET q == Resealed([keys |-> [i \in {FIRST} |-> d + 1], current |-> FIRST,
                            kek |-> Derive(p, d + 2), salt |-> d + 2,
                            nonce |-> 0, sealed |-> None], d + 3)
         IN  /\ q \in Keyrings
             /\ DOMAIN q.keys = 1..q.current
             /\ q.salt = d + 2 /\ q.kek = Derive(p, d + 2) /\ q.kek[2] = d + 2
             /\ q.sealed = Wrapped(q.kek, q.nonce, q.current, q.keys)
             /\ q.sealed.nonce = d + 3
<1> DEFINE k == [i \in {FIRST} |-> d + 1]
<1> DEFINE kek == Derive(p, d + 2)
<1> DEFINE w == Wrapped(kek, d + 3, FIRST, k)
<1>1. {FIRST} = 1..1 /\ FIRST \in 1..LastId
  BY KeyringAssumption DEF FIRST
<1>2. d + 1 \in 1..MaxRandom /\ d + 2 \in 1..MaxRandom /\ d + 3 \in 1..MaxRandom
  BY KeyringAssumption
<1>3. k \in [1..1 -> 1..MaxRandom]
  BY <1>1, <1>2
<1>4. k \in KeySets /\ DOMAIN k = 1..FIRST
  BY <1>1, <1>3, KeySetFacts DEF FIRST
<1>5. kek \in Keks /\ kek[2] = d + 2
  BY <1>2 DEF Derive, Keks
<1>6. w \in WrappedSets /\ w.nonce = d + 3
  BY <1>1, <1>2, <1>4, <1>5, WrappedFacts
<1> DEFINE base == [keys |-> k, current |-> FIRST, kek |-> kek, salt |-> d + 2,
                    nonce |-> 0, sealed |-> None]
<1> DEFINE q == Resealed(base, d + 3)
<1>7. q = [keys |-> k, current |-> FIRST, kek |-> kek, salt |-> d + 2,
           nonce |-> d + 3, sealed |-> w]
  <2> HIDE DEF k, kek
  <2>1. base.keys = k /\ base.current = FIRST /\ base.kek = kek
    OBVIOUS
  <2>2. q = [base EXCEPT !.nonce = d + 3, !.sealed = w]
    <3> HIDE DEF base
    <3>1. QED BY <2>1 DEF Resealed
  <2> HIDE DEF w
  <2>3. QED BY <2>2
<1> HIDE DEF k, kek, w, q
<1>8. q \in Keyrings /\ DOMAIN q.keys = 1..q.current /\ q.salt = d + 2 /\ q.kek = kek
      /\ q.sealed.nonce = d + 3 /\ q.sealed = w /\ q.nonce = d + 3 /\ q.keys = k
      /\ q.current = FIRST
  BY <1>1, <1>2, <1>4, <1>5, <1>6, <1>7 DEF Keyrings
<1>9. q.sealed = Wrapped(q.kek, q.nonce, q.current, q.keys)
  BY <1>8 DEF w
<1>10. QED BY <1>5, <1>8, <1>9 DEF k, kek, q, base

-----------------------------------------------------------------------------
(* The inductive invariant. *)

\* No salt, nonce, key or tag is ahead of the random source.
Drawn ==
  /\ \A o \in Owners : ring[o] # None => ring[o].kek[2] <= drawn /\ ring[o].salt <= drawn
  /\ keyfile # None => keyfile.salt <= drawn
  /\ \A w \in wrapped : w.nonce <= drawn
  /\ \A o \in Owners : \A t \in tokens[o] \cup revoked[o] : t[2] <= drawn

\* A keyring none of whose changes failed holds its own set, wrapped under the
\* key of its passphrase; so did the keyring the keyfile was saved from.
Sealed ==
  /\ \A o \in Owners \ spoiled : ring[o] # None =>
       /\ ring[o].kek = Derive(phrase[o], ring[o].salt)
       /\ ring[o].sealed = Wrapped(ring[o].kek, ring[o].nonce, ring[o].current, ring[o].keys)
  /\ keyfile # None =>
       /\ DOMAIN keyfile.sealed.keys = 1..keyfile.sealed.current
       /\ keyfile.sealed.count = Declared(keyfile.sealed.keys)

\* The tags of a keyring, while no change of it failed.
Granted ==
  \A o \in Owners :
    /\ ring[o] = None => tokens[o] = {} /\ revoked[o] = {}
    /\ ring[o] # None /\ o \notin spoiled =>
         /\ tokens[o] \subseteq {ring[o].kek}
         /\ ring[o].kek \notin revoked[o]

KeyringInv == TypeOK /\ Drawn /\ Sealed /\ Granted /\ NonceNeverReused

\* A set wrapped under a nonce drawn just now is unlike all earlier ones.
LEMMA FreshNonce ==
  ASSUME TypeOK, Drawn, NonceNeverReused, NEW w,
         w.nonce > drawn, wrapped' = wrapped \cup {w}
  PROVE  NonceNeverReused'
<1>1. \A v \in wrapped : v.nonce \in Nat /\ v.nonce <= drawn /\ drawn \in Nat
  BY KeyringAssumption DEF TypeOK, Drawn, WrappedSets
<1>2. \A v \in wrapped : v.nonce # w.nonce
  BY <1>1
<1>3. QED BY <1>2 DEF NonceNeverReused

\* What a step that replaces one keyring keeps of the types.
LEMMA RingType ==
  ASSUME TypeOK, NEW o \in Owners, NEW q \in Keyrings, DOMAIN q.keys = 1..q.current,
         NEW p \in Passphrases, ring' = [ring EXCEPT ![o] = q],
         phrase' = [phrase EXCEPT ![o] = p]
  PROVE  /\ ring' \in [Owners -> Keyrings \cup {None}]
         /\ phrase' \in [Owners -> Passphrases \cup {None}]
         /\ \A c \in Owners :
              /\ ring'[c] # None =>
                   DOMAIN ring'[c].keys = 1..ring'[c].current /\ phrase'[c] \in Passphrases
              /\ ring'[c] = None => phrase'[c] = None
<1>1. q # None
  BY NoneAssumption
<1>2. ring \in [Owners -> Keyrings \cup {None}] /\ phrase \in [Owners -> Passphrases \cup {None}]
  BY DEF TypeOK
<1>3. ring'[o] = q /\ phrase'[o] = p
  BY <1>2
<1>4. \A c \in Owners : c # o => ring'[c] = ring[c] /\ phrase'[c] = phrase[c]
  BY <1>2
<1>5. QED BY <1>1, <1>2, <1>3, <1>4 DEF TypeOK

\* What a step that replaces one keyring, and that does not draw less, keeps
\* of the bounds on what has been drawn.
LEMMA RingDrawn ==
  ASSUME TypeOK, Drawn, NEW o \in Owners, NEW q \in Keyrings, NEW d \in Nat,
         drawn' = drawn + d, ring' = [ring EXCEPT ![o] = q],
         q.kek[2] <= drawn', q.salt <= drawn', UNCHANGED keyfile,
         \A w \in wrapped' : w \in wrapped \/ w.nonce <= drawn',
         \A c \in Owners : tokens'[c] \cup revoked'[c] \subseteq tokens[c] \cup revoked[c]
  PROVE  Drawn'
<1>0. drawn \in Nat
  BY DEF TypeOK
<1>1. \A c \in Owners : ring'[c] = IF c = o THEN q ELSE ring[c]
  BY DEF TypeOK
<1>2. \A c \in Owners :
        ring[c] # None => ring[c].kek[2] \in Nat /\ ring[c].salt \in Nat
  BY DEF TypeOK, Keyrings, Keks
<1>3. ASSUME NEW c \in Owners, ring'[c] # None
      PROVE  ring'[c].kek[2] <= drawn' /\ ring'[c].salt <= drawn'
  BY <1>0, <1>1, <1>2, <1>3 DEF Drawn
<1>4. keyfile' # None => keyfile'.salt <= drawn'
  BY <1>0 DEF Drawn, TypeOK, Keyfiles
<1>5. \A w \in wrapped' : w.nonce <= drawn'
  BY <1>0 DEF Drawn, TypeOK, WrappedSets
<1>6. ASSUME NEW c \in Owners, NEW t \in tokens'[c] \cup revoked'[c]
      PROVE  t[2] <= drawn'
  <2>1. t \in tokens[c] \cup revoked[c]
    BY <1>6
  <2>2. t[2] \in Nat /\ t[2] <= drawn
    BY <2>1 DEF TypeOK, Keks, Drawn
  <2>3. QED BY <1>0, <2>2
<1>7. QED BY <1>3, <1>4, <1>5, <1>6 DEF Drawn

\* A keyring is created.
LEMMA CreateStep ==
  ASSUME KeyringInv, NEW o \in Owners, NEW p \in Passphrases, Create(o, p)
  PROVE  KeyringInv'
<1> DEFINE q == Resealed([keys |-> [i \in {FIRST} |-> drawn + 1], current |-> FIRST,
                          kek |-> Derive(p, drawn + 2), salt |-> drawn + 2,
                          nonce |-> 0, sealed |-> None], drawn + 3)
<1> USE DEF KeyringInv
<1>1. drawn \in Nat /\ drawn + 3 <= MaxRandom /\ drawn' = drawn + 3
  BY DEF Create, Draw, TypeOK
<1>2. /\ q \in Keyrings
      /\ DOMAIN q.keys = 1..q.current
      /\ q.salt = drawn + 2 /\ q.kek = Derive(p, drawn + 2) /\ q.kek[2] = drawn + 2
      /\ q.sealed = Wrapped(q.kek, q.nonce, q.current, q.keys)
      /\ q.sealed.nonce = drawn + 3
  BY <1>1, CreatedFacts
<1>3. ring' = [ring EXCEPT ![o] = q] /\ wrapped' = wrapped \cup {q.sealed}
  BY DEF Create, Keep
<1> HIDE DEF q
<1>4. /\ phrase' = [phrase EXCEPT ![o] = p] /\ saved' = FALSE
      /\ outcome' = [outcome EXCEPT ![o] = "ok"] /\ ring[o] = None
      /\ UNCHANGED <<keyfile, sealing, tokens, revoked, spoiled, failures, damages>>
  BY DEF Create, Returns, granted, faults
<1>5. TypeOK'
  <2>1. q.sealed \in WrappedSets
    BY <1>2 DEF Keyrings
  <2>2. drawn' \in 0..MaxRandom
    BY <1>1
  <2>3. QED BY <1>2, <1>3, <1>4, <2>1, <2>2, RingType DEF TypeOK
<1>6. Drawn'
  <2>1. q.kek[2] <= drawn' /\ q.salt <= drawn'
    BY <1>1, <1>2
  <2>2. \A w \in wrapped' : w \in wrapped \/ w.nonce <= drawn'
    BY <1>1, <1>2, <1>3
  <2>3. \A c \in Owners : tokens'[c] \cup revoked'[c] \subseteq tokens[c] \cup revoked[c]
    BY <1>4
  <2>4. QED BY <1>1, <1>2, <1>3, <1>4, <2>1, <2>2, <2>3, RingDrawn
<1>7. Sealed'
  BY <1>2, <1>3, <1>4 DEF Sealed, TypeOK
<1>8. Granted'
  BY <1>2, <1>3, <1>4 DEF Granted, TypeOK
<1>9. NonceNeverReused'
  BY <1>1, <1>2, <1>3, FreshNonce
<1>10. QED BY <1>5, <1>6, <1>7, <1>8, <1>9

\* A keyring is opened.
LEMMA OpenStep ==
  ASSUME KeyringInv, NEW o \in Owners, NEW p \in Passphrases, Open(o, p)
  PROVE  KeyringInv'
<1> USE DEF KeyringInv
<1>1. ring[o] = None /\ keyfile \in Keyfiles /\ keyfile # None
  BY DEF Open, TypeOK
<1>2. /\ outcome' = [outcome EXCEPT ![o] = Opening(keyfile, p)]
      /\ UNCHANGED <<keyfile, drawn, saved, sealing, tokens, revoked, spoiled, wrapped,
                     failures, damages>>
  BY DEF Open, Returns, granted, faults
<1>3. Opening(keyfile, p) \in {"ok", "malformed", "wrongpassphrase"}
  BY DEF Opening
<1>4. outcome' \in [Owners -> {"none", "ok", "failed", "exhausted", "malformed",
                               "wrongpassphrase"}]
  BY <1>2, <1>3 DEF TypeOK
<1>5. CASE Opening(keyfile, p) # "ok"
  <2>1. UNCHANGED <<ring, phrase>>
    BY <1>5 DEF Open
  <2>2. QED
    BY <1>2, <1>4, <2>1 DEF TypeOK, Drawn, Sealed, Granted, NonceNeverReused
<1>6. CASE Opening(keyfile, p) = "ok"
  <2> DEFINE q == Loaded(keyfile, p)
  <2>1. ring' = [ring EXCEPT ![o] = q] /\ phrase' = [phrase EXCEPT ![o] = p]
    BY <1>6 DEF Open
  <2>2. /\ keyfile.sealed.kek = Derive(p, keyfile.salt)
        /\ keyfile.sealed.nonce = keyfile.nonce
    BY <1>1, <1>6 DEF Opening, Keyfiles
  <2>3. /\ DOMAIN keyfile.sealed.keys = 1..keyfile.sealed.current
        /\ keyfile.sealed.count = Declared(keyfile.sealed.keys)
    BY <1>1 DEF Sealed
  <2>4. Derive(p, keyfile.salt) \in Keks /\ Derive(p, keyfile.salt)[2] = keyfile.salt
    BY <1>1 DEF Derive, Keks, Keyfiles
  <2>5. /\ q.keys = keyfile.sealed.keys /\ q.current = keyfile.sealed.current
        /\ q.kek = Derive(p, keyfile.salt) /\ q.salt = keyfile.salt
        /\ q.nonce = keyfile.nonce /\ q.sealed = keyfile.sealed
    BY DEF Loaded
  <2>6. q \in Keyrings
    BY <1>1, <2>4 DEF Keyfiles, WrappedSets, Keyrings, Loaded
  <2>7. q.sealed = Wrapped(q.kek, q.nonce, q.current, q.keys)
    BY <1>1, <2>2, <2>3, <2>5 DEF Keyfiles, WrappedSets, Wrapped
  <2> HIDE DEF q
  <2>8. TypeOK'
    BY <1>2, <1>4, <2>1, <2>3, <2>5, <2>6, RingType DEF TypeOK
  <2>9. Drawn'
    <3>1. drawn' = drawn + 0 /\ q.kek[2] <= drawn' /\ q.salt <= drawn'
      BY <1>1, <1>2, <2>4, <2>5 DEF Drawn, TypeOK
    <3>2. QED BY <1>2, <2>1, <2>6, <3>1, RingDrawn
  <2>10. Sealed'
    BY <1>2, <2>1, <2>3, <2>5, <2>7 DEF Sealed, TypeOK
  <2>11. Granted'
    BY <1>1, <1>2, <2>1, <2>6, NoneAssumption DEF Granted, TypeOK
  <2>12. NonceNeverReused'
    BY <1>2 DEF NonceNeverReused
  <2>13. QED BY <2>8, <2>9, <2>10, <2>11, <2>12
<1>7. QED BY <1>5, <1>6

\* The data key is rotated, or there is no id left for another one.
LEMMA RotateStep ==
  ASSUME KeyringInv, NEW o \in Owners, RotateDataKey(o)
  PROVE  KeyringInv'
<1> USE DEF KeyringInv
<1>1. /\ ring[o] \in Keyrings /\ ring[o] # None /\ phrase[o] \in Passphrases
      /\ DOMAIN ring[o].keys = 1..ring[o].current
  BY DEF RotateDataKey, TypeOK
<1>2. ring[o].current \in Nat \ {0}
  BY <1>1, KeyringAssumption DEF Keyrings
<1>3. Max(DOMAIN ring[o].keys) = ring[o].current
  BY <1>1, <1>2, MaxOfInterval
<1>4. UNCHANGED <<keyfile, phrase, sealing, tokens, revoked, spoiled, failures, damages>>
  BY DEF RotateDataKey, granted, faults
<1>5. CASE /\ outcome' = [outcome EXCEPT ![o] = "exhausted"]
           /\ UNCHANGED <<ring, wrapped, drawn, saved>>
  BY <1>4, <1>5 DEF TypeOK, Drawn, Sealed, Granted, NonceNeverReused
<1>6. CASE /\ ring[o].current < LastId
           /\ Draw(2)
           /\ Keep(o, Resealed(WithNewKey(ring[o], drawn + 1), drawn + 2))
           /\ saved' = FALSE
           /\ outcome' = [outcome EXCEPT ![o] = "ok"]
  <2> DEFINE r == WithNewKey(ring[o], drawn + 1)
             q == Resealed(r, drawn + 2)
  <2>1. /\ drawn \in Nat /\ drawn' = drawn + 2 /\ drawn + 2 <= MaxRandom
        /\ drawn + 1 \in 1..MaxRandom /\ drawn + 2 \in 1..MaxRandom
    BY <1>6, KeyringAssumption DEF Draw, TypeOK
  <2>2. /\ r \in Keyrings /\ DOMAIN r.keys = 1..r.current
        /\ r.kek = ring[o].kek /\ r.salt = ring[o].salt
    BY <1>1, <1>6, <2>1, WithNewKeyFacts
  <2> HIDE DEF r
  <2>3. /\ q \in Keyrings /\ DOMAIN q.keys = 1..q.current
        /\ q.kek = ring[o].kek /\ q.salt = ring[o].salt
        /\ q.sealed = Wrapped(q.kek, q.nonce, q.current, q.keys)
        /\ q.sealed \in WrappedSets /\ q.sealed.nonce = drawn + 2
    BY <2>1, <2>2, ResealedFacts
  <2>4. ring' = [ring EXCEPT ![o] = q] /\ wrapped' = wrapped \cup {q.sealed}
    BY <1>6 DEF Keep, r
  <2>5. phrase' = [phrase EXCEPT ![o] = phrase[o]]
    BY <1>4 DEF TypeOK
  <2> HIDE DEF q
  <2>6. TypeOK'
    <3>1. drawn' \in 0..MaxRandom
      BY <2>1
    <3>2. QED BY <1>1, <1>4, <1>6, <2>3, <2>4, <2>5, <3>1, RingType DEF TypeOK
  <2>7. Drawn'
    <3>1. q.kek[2] <= drawn' /\ q.salt <= drawn'
      BY <1>1, <2>1, <2>3 DEF Drawn, Keyrings, Keks
    <3>2. \A w \in wrapped' : w \in wrapped \/ w.nonce <= drawn'
      BY <2>1, <2>3, <2>4
    <3>3. QED BY <1>4, <2>1, <2>3, <2>4, <3>1, <3>2, RingDrawn
  <2>8. Sealed'
    BY <1>1, <1>4, <2>3, <2>4 DEF Sealed, TypeOK
  <2>9. Granted'
    BY <1>1, <1>4, <2>3, <2>4, NoneAssumption DEF Granted, TypeOK
  <2>10. NonceNeverReused'
    BY <2>1, <2>3, <2>4, FreshNonce
  <2>11. QED BY <2>6, <2>7, <2>8, <2>9, <2>10
<1>7. QED BY <1>3, <1>5, <1>6 DEF RotateDataKey, Returns

\* The passphrase is changed.
LEMMA ChangeStep ==
  ASSUME KeyringInv, NEW o \in Owners, NEW p \in Passphrases, ChangePassphrase(o, p)
  PROVE  KeyringInv'
<1> USE DEF KeyringInv
<1> DEFINE r == Rekeyed(ring[o], p, drawn + 1)
           q == Resealed(r, drawn + 2)
<1>1. /\ ring[o] \in Keyrings /\ ring[o] # None
      /\ DOMAIN ring[o].keys = 1..ring[o].current
  BY DEF ChangePassphrase, TypeOK
<1>2. /\ drawn \in Nat /\ drawn' = drawn + 2 /\ drawn + 2 <= MaxRandom
      /\ drawn + 1 \in 1..MaxRandom /\ drawn + 2 \in 1..MaxRandom
  BY KeyringAssumption DEF ChangePassphrase, Draw, TypeOK
<1>3. /\ r \in Keyrings /\ DOMAIN r.keys = 1..r.current
      /\ r.kek = Derive(p, drawn + 1) /\ r.salt = drawn + 1 /\ r.kek[2] = drawn + 1
  BY <1>1, <1>2, RekeyedFacts
<1>4. /\ ring' = [ring EXCEPT ![o] = q] /\ wrapped' = wrapped \cup {q.sealed}
      /\ phrase' = [phrase EXCEPT ![o] = p]
      /\ tokens' = [tokens EXCEPT ![o] = {}]
      /\ revoked' = [revoked EXCEPT ![o] = @ \cup tokens[o]]
      /\ saved' = FALSE /\ outcome' = [outcome EXCEPT ![o] = "ok"]
      /\ UNCHANGED <<keyfile, sealing, spoiled, failures, damages>>
  BY DEF ChangePassphrase, Keep, Returns, faults
<1> HIDE DEF r
<1>5. /\ q \in Keyrings /\ DOMAIN q.keys = 1..q.current
      /\ q.kek = Derive(p, drawn + 1) /\ q.salt = drawn + 1 /\ q.kek[2] = drawn + 1
      /\ q.sealed = Wrapped(q.kek, q.nonce, q.current, q.keys)
      /\ q.sealed \in WrappedSets /\ q.sealed.nonce = drawn + 2
  BY <1>2, <1>3, ResealedFacts
<1> HIDE DEF q
<1>6. \A c \in Owners :
        /\ tokens'[c] = (IF c = o THEN {} ELSE tokens[c])
        /\ revoked'[c] = (IF c = o THEN revoked[o] \cup tokens[o] ELSE revoked[c])
  BY <1>4 DEF TypeOK
<1>7. TypeOK'
  <2>1. drawn' \in 0..MaxRandom
    BY <1>2
  <2>2. tokens' \in [Owners -> SUBSET Keks] /\ revoked' \in [Owners -> SUBSET Keks]
    BY <1>4 DEF TypeOK
  <2>3. QED BY <1>4, <1>5, <2>1, <2>2, RingType DEF TypeOK
<1>8. Drawn'
  <2>1. q.kek[2] <= drawn' /\ q.salt <= drawn'
    BY <1>2, <1>5
  <2>2. \A w \in wrapped' : w \in wrapped \/ w.nonce <= drawn'
    BY <1>2, <1>4, <1>5
  <2>3. \A c \in Owners : tokens'[c] \cup revoked'[c] \subseteq tokens[c] \cup revoked[c]
    BY <1>6
  <2>4. QED BY <1>2, <1>4, <1>5, <2>1, <2>2, <2>3, RingDrawn
<1>9. Sealed'
  BY <1>4, <1>5 DEF Sealed, TypeOK
<1>10. Granted'
  <2>1. \A t \in tokens[o] \cup revoked[o] : t[2] \in Nat /\ t[2] <= drawn
    BY DEF Drawn, TypeOK, Keks
  <2>2. q.kek \notin tokens[o] \cup revoked[o]
    BY <1>2, <1>5, <2>1
  <2>3. \A c \in Owners : ring'[c] = IF c = o THEN q ELSE ring[c]
    BY <1>4 DEF TypeOK
  <2>4. QED BY <1>4, <1>5, <1>6, <2>2, <2>3, NoneAssumption DEF Granted
<1>11. NonceNeverReused'
  BY <1>2, <1>4, <1>5, FreshNonce
<1>12. QED BY <1>7, <1>8, <1>9, <1>10, <1>11

\* A change that fails leaves some keyring behind, which is marked.
LEMMA FailedStep ==
  ASSUME KeyringInv, NEW o \in Rotators, NEW q \in Keyrings, ring[o] # None,
         DOMAIN q.keys = 1..q.current, ring' = [ring EXCEPT ![o] = q],
         drawn' = drawn + 2, drawn + 2 <= MaxRandom,
         q.kek[2] <= drawn', q.salt <= drawn',
         outcome' = [outcome EXCEPT ![o] = "failed"],
         failures < MaxFailures, failures' = failures + 1, spoiled' = spoiled \cup {o},
         UNCHANGED <<keyfile, phrase, saved, sealing, tokens, revoked, wrapped, damages>>
  PROVE  KeyringInv'
<1> USE DEF KeyringInv
<1>1. o \in Owners
  BY KeyringAssumption
<1>2. drawn' \in 0..MaxRandom /\ failures' \in 0..MaxFailures
  BY KeyringAssumption DEF TypeOK
<1>3. phrase[o] \in Passphrases /\ phrase' = [phrase EXCEPT ![o] = phrase[o]]
  BY <1>1 DEF TypeOK
<1>4. TypeOK'
  BY <1>1, <1>2, <1>3, RingType DEF TypeOK
<1>5. Drawn'
  <2>1. UNCHANGED keyfile /\ wrapped' = wrapped /\ tokens' = tokens /\ revoked' = revoked
    OBVIOUS
  <2>2. QED BY <1>1, <2>1, RingDrawn
<1>6. Sealed'
  <2>1. \A c \in Owners \ spoiled' : c \notin spoiled /\ ring'[c] = ring[c]
    BY <1>1 DEF TypeOK
  <2>2. QED BY <2>1 DEF Sealed
<1>7. Granted'
  <2>1. \A c \in Owners : ring'[c] = IF c = o THEN q ELSE ring[c]
    BY <1>1 DEF TypeOK
  <2>2. QED BY <2>1, NoneAssumption DEF Granted
<1>8. NonceNeverReused'
  BY DEF NonceNeverReused
<1>9. QED BY <1>4, <1>5, <1>6, <1>7, <1>8

\* A rotation fails.
LEMMA RotateFailsStep ==
  ASSUME KeyringInv, NEW o \in Owners, RotateFails(o)
  PROVE  KeyringInv'
<1> USE DEF KeyringInv
<1>1. /\ o \in Rotators /\ ring[o] \in Keyrings /\ ring[o] # None
      /\ DOMAIN ring[o].keys = 1..ring[o].current
  BY DEF RotateFails, TypeOK
<1>2. ring[o].current \in Nat \ {0}
  BY <1>1, KeyringAssumption DEF Keyrings
<1>3. ring[o].current < LastId
  BY <1>1, <1>2, MaxOfInterval DEF RotateFails
<1>4. /\ drawn \in Nat /\ drawn' = drawn + 2 /\ drawn + 2 <= MaxRandom
      /\ drawn + 1 \in 1..MaxRandom /\ drawn + 2 \in 1..MaxRandom
  BY KeyringAssumption DEF RotateFails, Draw, TypeOK
<1>5. /\ outcome' = [outcome EXCEPT ![o] = "failed"]
      /\ failures < MaxFailures /\ failures' = failures + 1 /\ spoiled' = spoiled \cup {o}
      /\ UNCHANGED <<keyfile, phrase, saved, sealing, tokens, revoked, wrapped, damages>>
  BY DEF RotateFails, Returns
<1>6. ring[o].kek[2] <= drawn' /\ ring[o].salt <= drawn'
  BY <1>1, <1>4 DEF Drawn, Keyrings, Keks
<1>7. CASE UNCHANGED ring
  <2>1. ring' = [ring EXCEPT ![o] = ring[o]]
    BY <1>7 DEF TypeOK
  <2>2. QED BY <1>1, <1>4, <1>5, <1>6, <2>1, FailedStep
<1>8. CASE \E nonce \in MaybeFilled(ring[o].nonce) :
             ring' = [ring EXCEPT ![o] =
                        [WithNewKey(ring[o], drawn + 2) EXCEPT !.nonce = nonce]]
  <2> DEFINE r == WithNewKey(ring[o], drawn + 2)
  <2>1. PICK nonce \in MaybeFilled(ring[o].nonce) :
          ring' = [ring EXCEPT ![o] = [r EXCEPT !.nonce = nonce]]
    BY <1>8
  <2>2. /\ r \in Keyrings /\ DOMAIN r.keys = 1..r.current
        /\ r.kek = ring[o].kek /\ r.salt = ring[o].salt
    BY <1>1, <1>3, <1>4, WithNewKeyFacts
  <2>3. nonce \in 1..MaxRandom
    BY <1>1, <1>4 DEF MaybeFilled, Keyrings
  <2> DEFINE q == [r EXCEPT !.nonce = nonce]
  <2> HIDE DEF r
  <2>4. /\ q \in Keyrings /\ DOMAIN q.keys = 1..q.current
        /\ q.kek = ring[o].kek /\ q.salt = ring[o].salt
    BY <2>2, <2>3 DEF Keyrings
  <2> HIDE DEF q
  <2>5. ring' = [ring EXCEPT ![o] = q]
    BY <2>1 DEF q
  <2>6. QED BY <1>1, <1>4, <1>5, <1>6, <2>4, <2>5, FailedStep
<1>9. QED BY <1>7, <1>8 DEF RotateFails

\* A change of passphrase fails.
LEMMA ChangeFailsStep ==
  ASSUME KeyringInv, NEW o \in Owners, NEW p \in Passphrases, ChangeFails(o, p)
  PROVE  KeyringInv'
<1> USE DEF KeyringInv
<1>1. /\ o \in Rotators /\ ring[o] \in Keyrings /\ ring[o] # None
      /\ DOMAIN ring[o].keys = 1..ring[o].current
  BY DEF ChangeFails, TypeOK
<1>2. /\ drawn \in Nat /\ drawn' = drawn + 2 /\ drawn + 2 <= MaxRandom
      /\ drawn + 1 \in 1..MaxRandom /\ drawn + 2 \in 1..MaxRandom
  BY KeyringAssumption DEF ChangeFails, Draw, TypeOK
<1>3. /\ outcome' = [outcome EXCEPT ![o] = "failed"]
      /\ failures < MaxFailures /\ failures' = failures + 1 /\ spoiled' = spoiled \cup {o}
      /\ UNCHANGED <<keyfile, phrase, saved, sealing, tokens, revoked, wrapped, damages>>
  BY DEF ChangeFails, Returns
<1>4. ring[o].kek[2] <= drawn' /\ ring[o].salt <= drawn'
  BY <1>1, <1>2 DEF Drawn, Keyrings, Keks
<1>5. CASE \E salt \in MaybeFilled(ring[o].salt) : ring' = [ring EXCEPT ![o].salt = salt]
  <2>1. PICK salt \in MaybeFilled(ring[o].salt) : ring' = [ring EXCEPT ![o].salt = salt]
    BY <1>5
  <2>2. salt \in 1..MaxRandom /\ salt <= drawn'
    BY <1>1, <1>2, <1>4 DEF MaybeFilled, Keyrings
  <2> DEFINE r == ring[o]
             q == [r EXCEPT !.salt = salt]
  <2>3. ring' = [ring EXCEPT ![o] = q]
    BY <2>1
  <2> HIDE DEF r
  <2>4. r \in Keyrings /\ DOMAIN r.keys = 1..r.current /\ r.kek[2] <= drawn'
    BY <1>1, <1>4 DEF r
  <2>5. /\ q \in Keyrings /\ DOMAIN q.keys = 1..q.current
        /\ q.kek[2] <= drawn' /\ q.salt = salt
    BY <2>2, <2>4 DEF Keyrings
  <2> HIDE DEF q
  <2>6. QED BY <1>1, <1>2, <1>3, <2>2, <2>3, <2>5, FailedStep
<1>6. CASE \E nonce \in MaybeFilled(ring[o].nonce) :
             ring' = [ring EXCEPT ![o] =
                        [Rekeyed(ring[o], p, drawn + 2) EXCEPT !.nonce = nonce]]
  <2> DEFINE r == Rekeyed(ring[o], p, drawn + 2)
  <2>1. PICK nonce \in MaybeFilled(ring[o].nonce) :
          ring' = [ring EXCEPT ![o] = [r EXCEPT !.nonce = nonce]]
    BY <1>6
  <2>2. /\ r \in Keyrings /\ DOMAIN r.keys = 1..r.current
        /\ r.kek[2] = drawn + 2 /\ r.salt = drawn + 2
    BY <1>1, <1>2, RekeyedFacts
  <2>3. nonce \in 1..MaxRandom
    BY <1>1, <1>2 DEF MaybeFilled, Keyrings
  <2> DEFINE q == [r EXCEPT !.nonce = nonce]
  <2> HIDE DEF r
  <2>4. /\ q \in Keyrings /\ DOMAIN q.keys = 1..q.current
        /\ q.kek[2] = drawn + 2 /\ q.salt = drawn + 2
    BY <2>2, <2>3 DEF Keyrings
  <2> HIDE DEF q
  <2>5. ring' = [ring EXCEPT ![o] = q] /\ q.kek[2] <= drawn' /\ q.salt <= drawn'
    BY <1>2, <2>1, <2>4 DEF q
  <2>6. QED BY <1>1, <1>2, <1>3, <2>4, <2>5, FailedStep
<1>7. QED BY <1>5, <1>6 DEF ChangeFails

\* An object is sealed with the current key.
LEMMA SealStep ==
  ASSUME KeyringInv, NEW o \in Owners, SealObject(o)
  PROVE  KeyringInv'
<1> USE DEF KeyringInv
<1>1. /\ outcome' = [outcome EXCEPT ![o] = "ok"]
      /\ sealing' = sealing \cup {<<ring[o].current, ring[o].keys[ring[o].current]>>}
      /\ UNCHANGED <<ring, keyfile, drawn, phrase, saved, wrapped, tokens, revoked, spoiled,
                     failures, damages>>
  BY DEF SealObject, Returns, granted, faults
<1>2. /\ ring[o] \in Keyrings /\ DOMAIN ring[o].keys = 1..ring[o].current
  BY DEF SealObject, TypeOK
<1>3. ring[o].current \in 1..LastId /\ ring[o].current \in DOMAIN ring[o].keys
  BY <1>2, KeyringAssumption DEF Keyrings
<1>4. ring[o].keys[ring[o].current] \in 1..MaxRandom
  BY <1>2, <1>3, KeySetFacts DEF Keyrings
<1>5. sealing' \subseteq (1..LastId) \X (1..MaxRandom)
  BY <1>1, <1>3, <1>4 DEF TypeOK
<1>6. QED BY <1>1, <1>5 DEF TypeOK, Drawn, Sealed, Granted, NonceNeverReused

\* A token is granted.
LEMMA GrantStep ==
  ASSUME KeyringInv, NEW o \in Owners, Grant(o)
  PROVE  KeyringInv'
<1> USE DEF KeyringInv
<1>1. /\ tokens' = [tokens EXCEPT ![o] = @ \cup {ring[o].kek}]
      /\ outcome' = [outcome EXCEPT ![o] = "ok"]
      /\ UNCHANGED <<ring, keyfile, drawn, phrase, saved, sealing, wrapped, revoked, spoiled,
                     failures, damages>>
  BY DEF Grant, TokenKey, Returns, faults
<1>2. ring[o] \in Keyrings /\ ring[o].kek \in Keks /\ ring[o] # None
  BY DEF Grant, TypeOK, Keyrings
<1>3. \A c \in Owners : tokens'[c] = tokens[c] \cup (IF c = o THEN {ring[o].kek} ELSE {})
  BY <1>1 DEF TypeOK
<1>4. tokens' \in [Owners -> SUBSET Keks]
  BY <1>1, <1>2 DEF TypeOK
<1>5. TypeOK'
  BY <1>1, <1>4 DEF TypeOK
<1>6. Drawn'
  <2>1. ring[o].kek[2] <= drawn
    BY <1>2 DEF Drawn
  <2>2. ASSUME NEW c \in Owners, NEW t \in tokens'[c] \cup revoked'[c]
        PROVE  t[2] <= drawn
    <3>1. t \in tokens[c] \cup revoked[c] \/ t = ring[o].kek
      BY <1>1, <1>3, <2>2
    <3>2. QED BY <2>1, <3>1 DEF Drawn
  <2>3. QED BY <1>1, <2>2 DEF Drawn
<1>7. Granted'
  BY <1>1, <1>2, <1>3 DEF Granted
<1>8. Sealed' /\ NonceNeverReused'
  BY <1>1 DEF Sealed, NonceNeverReused
<1>9. QED BY <1>5, <1>6, <1>7, <1>8

\* The keyfile is saved.
LEMMA SaveStep ==
  ASSUME KeyringInv, NEW o \in Owners, Save(o)
  PROVE  KeyringInv'
<1> USE DEF KeyringInv
<1>1. /\ keyfile' = ToKeyfile(ring[o]) /\ saved' = TRUE
      /\ outcome' = [outcome EXCEPT ![o] = "ok"]
      /\ UNCHANGED <<ring, drawn, phrase, sealing, wrapped, tokens, revoked, spoiled,
                     failures, damages>>
  BY DEF Save, Returns, granted, faults
<1>2. /\ ring[o] \in Keyrings /\ ring[o] # None /\ o \notin spoiled
      /\ DOMAIN ring[o].keys = 1..ring[o].current
  BY DEF Save, TypeOK
<1>3. ring[o].sealed = Wrapped(ring[o].kek, ring[o].nonce, ring[o].current, ring[o].keys)
  BY <1>2 DEF Sealed
<1>4. keyfile' \in Keyfiles
  BY <1>1, <1>2 DEF ToKeyfile, Keyfiles, Keyrings
<1>5. TypeOK'
  BY <1>1, <1>4 DEF TypeOK
<1>6. Drawn'
  BY <1>1, <1>2 DEF Drawn, ToKeyfile
<1>7. /\ keyfile'.sealed.keys = ring[o].keys /\ keyfile'.sealed.current = ring[o].current
      /\ keyfile'.sealed.count = Declared(ring[o].keys)
  BY <1>1, <1>3 DEF ToKeyfile, Wrapped
<1>8. Sealed'
  BY <1>1, <1>2, <1>7 DEF Sealed
<1>9. Granted' /\ NonceNeverReused'
  BY <1>1 DEF Granted, NonceNeverReused
<1>10. QED BY <1>5, <1>6, <1>8, <1>9

\* A keyring is dropped.
LEMMA DropStep ==
  ASSUME KeyringInv, NEW o \in Owners, Drop(o)
  PROVE  KeyringInv'
<1> USE DEF KeyringInv
<1>1. /\ ring' = [ring EXCEPT ![o] = None] /\ phrase' = [phrase EXCEPT ![o] = None]
      /\ tokens' = [tokens EXCEPT ![o] = {}] /\ revoked' = [revoked EXCEPT ![o] = {}]
      /\ spoiled' = spoiled \ {o} /\ outcome' = [outcome EXCEPT ![o] = "none"]
      /\ UNCHANGED <<keyfile, drawn, saved, sealing, wrapped, failures, damages>>
  BY DEF Drop, Returns, faults
<1>2. \A c \in Owners :
        /\ ring'[c] = (IF c = o THEN None ELSE ring[c])
        /\ phrase'[c] = (IF c = o THEN None ELSE phrase[c])
        /\ tokens'[c] = (IF c = o THEN {} ELSE tokens[c])
        /\ revoked'[c] = (IF c = o THEN {} ELSE revoked[c])
  BY <1>1 DEF TypeOK
<1>3. TypeOK'
  <2>1. /\ ring' \in [Owners -> Keyrings \cup {None}]
        /\ phrase' \in [Owners -> Passphrases \cup {None}]
        /\ tokens' \in [Owners -> SUBSET Keks] /\ revoked' \in [Owners -> SUBSET Keks]
    BY <1>1 DEF TypeOK
  <2>2. QED BY <1>1, <1>2, <2>1 DEF TypeOK
<1>4. Drawn'
  BY <1>1, <1>2 DEF Drawn
<1>5. Sealed'
  BY <1>1, <1>2 DEF Sealed
<1>6. Granted'
  BY <1>1, <1>2 DEF Granted
<1>7. NonceNeverReused'
  BY <1>1 DEF NonceNeverReused
<1>8. QED BY <1>3, <1>4, <1>5, <1>6, <1>7

\* The keyfile is damaged; what was saved in it is not changed by that.
LEMMA DamageStep ==
  ASSUME KeyringInv, DamageFile
  PROVE  KeyringInv'
<1> USE DEF KeyringInv
<1>1. PICK s \in {"cut", "altered"} : keyfile' = [keyfile EXCEPT !.state = s]
  BY DEF DamageFile
<1>2. /\ UNCHANGED <<ring, drawn, outcome, phrase, saved, sealing, wrapped, tokens, revoked,
                     spoiled, failures>>
      /\ damages < MaxDamages /\ damages' = damages + 1
  BY DEF DamageFile, granted
<1>3. keyfile \in Keyfiles /\ keyfile # None
  BY DEF DamageFile, TypeOK
<1>4. keyfile' \in Keyfiles /\ keyfile'.salt = keyfile.salt /\ keyfile'.sealed = keyfile.sealed
  BY <1>1, <1>3 DEF Keyfiles
<1>5. damages' \in 0..MaxDamages
  BY <1>2, KeyringAssumption DEF TypeOK
<1>6. TypeOK'
  BY <1>2, <1>4, <1>5 DEF TypeOK
<1>7. Drawn' /\ Sealed'
  BY <1>2, <1>3, <1>4 DEF Drawn, Sealed
<1>8. Granted' /\ NonceNeverReused'
  BY <1>2 DEF Granted, NonceNeverReused
<1>9. QED BY <1>6, <1>7, <1>8

\* The invariant holds at the start and every step keeps it.
THEOREM KeyringInvariant == Spec => []KeyringInv
<1>1. Init => KeyringInv
  <2> SUFFICES ASSUME Init PROVE KeyringInv
    OBVIOUS
  <2>1. TypeOK
    <3>1. 0 \in 0..MaxRandom /\ 0 \in 0..MaxFailures /\ 0 \in 0..MaxDamages
      BY KeyringAssumption
    <3>2. /\ ring \in [Owners -> Keyrings \cup {None}]
          /\ phrase \in [Owners -> Passphrases \cup {None}]
          /\ tokens \in [Owners -> SUBSET Keks] /\ revoked \in [Owners -> SUBSET Keks]
          /\ outcome \in [Owners -> {"none", "ok", "failed", "exhausted", "malformed",
                                    "wrongpassphrase"}]
      BY DEF Init
    <3>3. \A o \in Owners : ring[o] = None /\ phrase[o] = None
      BY DEF Init
    <3>4. QED BY <3>1, <3>2, <3>3 DEF Init, TypeOK
  <2>2. Drawn /\ Sealed
    BY DEF Init, Drawn, Sealed
  <2>3. Granted /\ NonceNeverReused
    BY DEF Init, Granted, NonceNeverReused
  <2>4. QED BY <2>1, <2>2, <2>3 DEF KeyringInv
<1>2. KeyringInv /\ [Next]_vars => KeyringInv'
  <2> SUFFICES ASSUME KeyringInv, [Next]_vars PROVE KeyringInv'
    OBVIOUS
  <2>1. ASSUME NEW o \in Owners, NEW p \in Passphrases,
               Create(o, p) \/ Open(o, p) \/ ChangePassphrase(o, p) \/ ChangeFails(o, p)
        PROVE  KeyringInv'
    BY <2>1, CreateStep, OpenStep, ChangeStep, ChangeFailsStep
  <2>2. ASSUME NEW o \in Owners,
               \/ RotateDataKey(o) \/ RotateFails(o)
               \/ SealObject(o) \/ Grant(o) \/ Save(o) \/ Drop(o)
        PROVE  KeyringInv'
    BY <2>2, RotateStep, RotateFailsStep, SealStep, GrantStep, SaveStep, DropStep
  <2>3. CASE DamageFile
    BY <2>3, DamageStep
  <2>4. CASE UNCHANGED vars
    BY <2>4 DEF vars, KeyringInv, TypeOK, Drawn, Sealed, Granted, NonceNeverReused
  <2>5. QED BY <2>1, <2>2, <2>3, <2>4 DEF Next
<1>3. QED BY <1>1, <1>2, PTL DEF Spec

\* Every variable holds a value of its kind, and the ids of a keyring's keys
\* run from 1 to the current one without a gap.
THEOREM TypeCorrect == Spec => []TypeOK
BY KeyringInvariant, PTL DEF KeyringInv

\* reseal draws a nonce each time, so no two wrapped sets share key and nonce,
\* whatever failed in between.
THEOREM NoncesAreFresh == Spec => []NonceNeverReused
BY KeyringInvariant, PTL DEF KeyringInv

\* grant and verify: a keyring honours the tokens granted since its passphrase
\* last changed and none from before.
THEOREM TokensFollow == Spec => []TokensFollowPassphrase
<1>1. KeyringInv => TokensFollowPassphrase
  BY DEF KeyringInv, Granted, TokensFollowPassphrase, Verifies, TokenKey
<1>2. QED BY <1>1, KeyringInvariant, PTL

-----------------------------------------------------------------------------
(* Keyfiles open again. *)

\* to_keyfile and open: the keyfile of a keyring opens with its passphrase and
\* no other and gives the same keyring back, up to the largest number of keys
\* that the set's count can say; with more keys it is refused.
THEOREM OpensAgain == Spec => []Reopens
<1>1. ASSUME KeyringInv PROVE Reopens
  <2> SUFFICES ASSUME NEW o \in Owners \ spoiled, ring[o] # None, NEW p \in Passphrases
               PROVE  LET file == ToKeyfile(ring[o]) IN
                        IF p # phrase[o] THEN Opening(file, p) = "wrongpassphrase"
                        ELSE IF ring[o].current <= LastCount
                        THEN Opening(file, p) = "ok" /\ Loaded(file, p) = ring[o]
                        ELSE Opening(file, p) = "malformed"
    BY DEF Reopens
  <2> DEFINE r == ring[o]
             file == ToKeyfile(r)
  <2>1. r \in Keyrings /\ DOMAIN r.keys = 1..r.current
    BY <1>1 DEF KeyringInv, TypeOK
  <2>2. r.current \in Nat \ {0} /\ r.current \in DOMAIN r.keys
    BY <2>1, KeyringAssumption DEF Keyrings
  <2>3. /\ r.kek = Derive(phrase[o], r.salt)
        /\ r.sealed = Wrapped(r.kek, r.nonce, r.current, r.keys)
    BY <1>1 DEF KeyringInv, Sealed
  <2>4. /\ r.current <= LastCount <=> Declared(r.keys) = r.current
        /\ Cardinality(DOMAIN r.keys) = r.current
    BY <2>1, <2>2, DeclaredFacts
  <2> HIDE DEF r
  <2>5. /\ file.state = "whole" /\ file.salt = r.salt /\ file.nonce = r.nonce
        /\ file.sealed = r.sealed
    BY DEF ToKeyfile
  <2>6. /\ file.sealed.kek = r.kek /\ file.sealed.nonce = r.nonce
        /\ file.sealed.keys = r.keys /\ file.sealed.current = r.current
        /\ file.sealed.count = Declared(r.keys)
    BY <2>3, <2>5 DEF Wrapped
  <2> HIDE DEF file
  <2>7. CASE p = phrase[o] /\ r.current <= LastCount
    <3>1. Opening(file, p) = "ok"
      BY <2>2, <2>3, <2>4, <2>5, <2>6, <2>7 DEF Opening
    <3>2. Loaded(file, p) = r
      BY <2>1, <2>3, <2>5, <2>6, <2>7 DEF Loaded, Keyrings
    <3>3. QED BY <2>7, <3>1, <3>2 DEF file, r
  <2>8. CASE p = phrase[o] /\ ~(r.current <= LastCount)
    <3>1. Opening(file, p) = "malformed"
      BY <2>3, <2>4, <2>5, <2>6, <2>8 DEF Opening
    <3>2. QED BY <2>8, <3>1 DEF file, r
  <2>9. CASE p # phrase[o]
    <3>1. file.sealed.kek # Derive(p, file.salt)
      BY <2>3, <2>5, <2>6, <2>9 DEF Derive
    <3>2. Opening(file, p) = "wrongpassphrase"
      BY <2>5, <3>1 DEF Opening
    <3>3. QED BY <2>9, <3>2 DEF file, r
  <2>10. QED BY <2>7, <2>8, <2>9
<1>2. QED BY <1>1, KeyringInvariant, PTL

-----------------------------------------------------------------------------
(* No key is lost while one owner rotates. *)

\* The application has one place that changes the keyring.
OneRotator == \A a, b \in Rotators : a = b

\* The second set has the keys of the first, under the same ids.
Extends(f, g) == \A i \in DOMAIN f : i \in DOMAIN g /\ g[i] = f[i]

\* The keyrings that are only read are older than the keyfile, the one that is
\* rotated is newer, the two are equal while the last change is saved, and the
\* keyfile has every key that something was sealed with.
Lineage ==
  /\ \A o \in Owners \ Rotators : ring[o] # None =>
       keyfile # None /\ Extends(ring[o].keys, keyfile.sealed.keys)
  /\ \A o \in Rotators : ring[o] # None /\ keyfile # None =>
       Extends(keyfile.sealed.keys, ring[o].keys)
  /\ saved =>
       /\ keyfile # None
       /\ \A o \in Rotators \ spoiled : ring[o] # None =>
            Extends(ring[o].keys, keyfile.sealed.keys)
  /\ \A s \in sealing :
       /\ keyfile # None
       /\ s[1] \in DOMAIN keyfile.sealed.keys /\ keyfile.sealed.keys[s[1]] = s[2]

\* A rotator's keyring gets more keys, or a change of it fails.
LEMMA RotatorGrows ==
  ASSUME KeyringInv, Lineage, NEW o \in Rotators, NEW q, ring[o] # None,
         ring' = [ring EXCEPT ![o] = q], Extends(ring[o].keys, q.keys),
         UNCHANGED <<keyfile, sealing>>,
         \/ saved' = FALSE
         \/ UNCHANGED saved /\ spoiled' = spoiled \cup {o}
  PROVE  Lineage'
<1>1. \A c \in Owners : ring'[c] = IF c = o THEN q ELSE ring[c]
  BY DEF KeyringInv, TypeOK
<1>2. Rotators \subseteq Owners
  BY KeyringAssumption
<1>3. \A c \in Owners \ Rotators : ring'[c] # None =>
        keyfile # None /\ Extends(ring'[c].keys, keyfile.sealed.keys)
  BY <1>1 DEF Lineage
<1>4. ASSUME NEW c \in Rotators, ring'[c] # None, keyfile # None
      PROVE  Extends(keyfile.sealed.keys, ring'[c].keys)
  <2>1. Extends(keyfile.sealed.keys, ring[c].keys) \/ ring[c] = None
    BY <1>4 DEF Lineage
  <2>2. QED BY <1>1, <1>2, <1>4, <2>1 DEF Extends
<1>5. saved' => /\ keyfile # None
                /\ \A c \in Rotators \ spoiled' : ring'[c] # None =>
                     Extends(ring'[c].keys, keyfile.sealed.keys)
  BY <1>1, <1>2 DEF Lineage
<1>6. QED BY <1>3, <1>4, <1>5 DEF Lineage

\* A keyring is opened: it is the keyfile's.
LEMMA OpenLineage ==
  ASSUME KeyringInv, Lineage, NEW o \in Owners, NEW p \in Passphrases, Open(o, p)
  PROVE  Lineage'
<1>1. UNCHANGED <<keyfile, saved, sealing, spoiled>> /\ keyfile # None
  BY DEF Open, granted
<1>2. CASE UNCHANGED ring
  BY <1>1, <1>2 DEF Lineage
<1>3. CASE ring' = [ring EXCEPT ![o] = Loaded(keyfile, p)]
  <2>1. \A c \in Owners : ring'[c] = IF c = o THEN Loaded(keyfile, p) ELSE ring[c]
    BY <1>3 DEF KeyringInv, TypeOK
  <2>2. Loaded(keyfile, p).keys = keyfile.sealed.keys
    BY DEF Loaded
  <2>3. \A c \in Owners : ring'[c].keys = IF c = o THEN keyfile.sealed.keys ELSE ring[c].keys
    BY <2>1, <2>2
  <2>4. Extends(keyfile.sealed.keys, keyfile.sealed.keys)
    BY DEF Extends
  <2>5. QED BY <1>1, <2>1, <2>3, <2>4, KeyringAssumption DEF Lineage
<1>4. QED BY <1>2, <1>3 DEF Open

\* The one rotator saves its keyring.
LEMMA SaveLineage ==
  ASSUME OneRotator, KeyringInv, Lineage, NEW o \in Owners, Save(o)
  PROVE  Lineage'
<1>1. /\ o \in Rotators /\ ring[o] # None /\ o \notin spoiled
      /\ keyfile' = ToKeyfile(ring[o])
      /\ UNCHANGED <<ring, sealing, spoiled>>
  BY DEF Save, granted
<1>2. ring[o] \in Keyrings
  BY <1>1 DEF KeyringInv, TypeOK
<1>3. ring[o].sealed = Wrapped(ring[o].kek, ring[o].nonce, ring[o].current, ring[o].keys)
  BY <1>1 DEF KeyringInv, Sealed
<1>4. keyfile'.sealed.keys = ring[o].keys
  BY <1>1, <1>3 DEF ToKeyfile, Wrapped
<1>5. keyfile' # None
  BY <1>1, <1>2, NoneAssumption DEF ToKeyfile, Keyfiles, Keyrings
<1>6. keyfile # None => Extends(keyfile.sealed.keys, ring[o].keys)
  BY <1>1 DEF Lineage
<1>7. \A c \in Owners \ Rotators : ring[c] # None => Extends(ring[c].keys, ring[o].keys)
  BY <1>6 DEF Lineage, Extends
<1>8. \A s \in sealing : s[1] \in DOMAIN ring[o].keys /\ ring[o].keys[s[1]] = s[2]
  BY <1>6 DEF Lineage, Extends
<1>9. \A c \in Rotators : c = o
  BY <1>1 DEF OneRotator
<1>10. Extends(ring[o].keys, ring[o].keys)
  BY DEF Extends
<1>11. QED BY <1>1, <1>4, <1>5, <1>7, <1>8, <1>9, <1>10 DEF Lineage

\* An object is sealed with a key the keyfile has.
LEMMA SealLineage ==
  ASSUME KeyringInv, Lineage, NEW o \in Owners, SealObject(o)
  PROVE  Lineage'
<1> DEFINE k == ring[o].keys
           n == ring[o].current
<1>1. /\ ring[o] # None /\ saved /\ o \notin spoiled
      /\ sealing' = sealing \cup {<<n, k[n]>>}
      /\ UNCHANGED <<ring, keyfile, saved, spoiled>>
  BY DEF SealObject, granted
<1>2. n \in DOMAIN k
  BY <1>1, KeyringAssumption DEF KeyringInv, TypeOK, Keyrings
<1>3. keyfile # None /\ Extends(k, keyfile.sealed.keys)
  BY <1>1 DEF Lineage
<1>4. n \in DOMAIN keyfile.sealed.keys /\ keyfile.sealed.keys[n] = k[n]
  BY <1>2, <1>3 DEF Extends
<1> HIDE DEF k, n
<1>5. QED BY <1>1, <1>3, <1>4 DEF Lineage

\* A rotation, whether it fails or not, keeps the keys that were there.
LEMMA RotateLineage ==
  ASSUME KeyringInv, Lineage, NEW o \in Owners, RotateDataKey(o) \/ RotateFails(o)
  PROVE  Lineage'
<1>1. /\ o \in Rotators /\ ring[o] \in Keyrings /\ ring[o] # None
      /\ DOMAIN ring[o].keys = 1..ring[o].current
      /\ UNCHANGED <<keyfile, sealing>>
  BY DEF RotateDataKey, RotateFails, KeyringInv, TypeOK
<1>2. ring[o].current \in Nat \ {0} /\ Max(DOMAIN ring[o].keys) = ring[o].current
  BY <1>1, KeyringAssumption, MaxOfInterval DEF Keyrings
<1>3. ASSUME UNCHANGED ring, UNCHANGED saved, spoiled \subseteq spoiled'
      PROVE  Lineage'
  BY <1>1, <1>3 DEF Lineage
<1>4. CASE RotateDataKey(o)
  <2>1. UNCHANGED spoiled
    BY <1>4 DEF RotateDataKey, granted
  <2>2. CASE UNCHANGED <<ring, wrapped, drawn, saved>>
    BY <1>3, <2>1, <2>2
  <2>3. CASE /\ ring[o].current < LastId
             /\ Draw(2)
             /\ Keep(o, Resealed(WithNewKey(ring[o], drawn + 1), drawn + 2))
             /\ saved' = FALSE
    <3> DEFINE r == WithNewKey(ring[o], drawn + 1)
               q == Resealed(r, drawn + 2)
    <3>1. drawn + 1 \in 1..MaxRandom /\ drawn + 2 \in 1..MaxRandom
      BY <2>3, KeyringAssumption DEF Draw, KeyringInv, TypeOK
    <3>2. /\ r \in Keyrings /\ DOMAIN r.keys = 1..r.current /\ r.current = ring[o].current + 1
          /\ \A i \in 1..ring[o].current : r.keys[i] = ring[o].keys[i]
      BY <1>1, <2>3, <3>1, WithNewKeyFacts
    <3> HIDE DEF r
    <3>3. q.keys = r.keys
      BY <3>1, <3>2, ResealedFacts
    <3>4. Extends(ring[o].keys, q.keys)
      BY <1>1, <1>2, <3>2, <3>3 DEF Extends
    <3>5. ring' = [ring EXCEPT ![o] = q]
      BY <2>3 DEF Keep, r
    <3> HIDE DEF q
    <3>6. QED BY <1>1, <2>3, <3>4, <3>5, RotatorGrows
  <2>4. QED BY <1>2, <1>4, <2>2, <2>3 DEF RotateDataKey
<1>5. CASE RotateFails(o)
  <2>1. UNCHANGED saved /\ spoiled' = spoiled \cup {o}
    BY <1>5 DEF RotateFails
  <2>2. CASE UNCHANGED ring
    BY <1>3, <2>1, <2>2
  <2>3. CASE \E nonce \in MaybeFilled(ring[o].nonce) :
               ring' = [ring EXCEPT ![o] =
                          [WithNewKey(ring[o], drawn + 2) EXCEPT !.nonce = nonce]]
    <3> DEFINE r == WithNewKey(ring[o], drawn + 2)
    <3>1. PICK nonce \in MaybeFilled(ring[o].nonce) :
            ring' = [ring EXCEPT ![o] = [r EXCEPT !.nonce = nonce]]
      BY <2>3
    <3>2. drawn + 2 \in 1..MaxRandom /\ ring[o].current < LastId
      BY <1>2, <1>5, KeyringAssumption DEF RotateFails, Draw, KeyringInv, TypeOK
    <3>3. /\ r \in Keyrings /\ DOMAIN r.keys = 1..r.current /\ r.current = ring[o].current + 1
          /\ \A i \in 1..ring[o].current : r.keys[i] = ring[o].keys[i]
      BY <1>1, <3>2, WithNewKeyFacts
    <3> DEFINE q == [r EXCEPT !.nonce = nonce]
    <3> HIDE DEF r
    <3>4. q.keys = r.keys
      BY <3>3 DEF Keyrings
    <3>5. Extends(ring[o].keys, q.keys)
      BY <1>1, <1>2, <3>3, <3>4 DEF Extends
    <3>6. ring' = [ring EXCEPT ![o] = q]
      BY <3>1 DEF r
    <3> HIDE DEF q
    <3>7. QED BY <1>1, <2>1, <3>5, <3>6, RotatorGrows
  <2>4. QED BY <1>5, <2>2, <2>3 DEF RotateFails
<1>6. QED BY <1>4, <1>5

\* A change of passphrase, whether it fails or not, keeps the keys.
LEMMA ChangeLineage ==
  ASSUME KeyringInv, Lineage, NEW o \in Owners, NEW p \in Passphrases,
         ChangePassphrase(o, p) \/ ChangeFails(o, p)
  PROVE  Lineage'
<1>1. /\ o \in Rotators /\ ring[o] \in Keyrings /\ ring[o] # None
      /\ DOMAIN ring[o].keys = 1..ring[o].current
      /\ UNCHANGED <<keyfile, sealing>>
  BY DEF ChangePassphrase, ChangeFails, KeyringInv, TypeOK
<1>2. drawn + 1 \in 1..MaxRandom /\ drawn + 2 \in 1..MaxRandom
  BY KeyringAssumption DEF ChangePassphrase, ChangeFails, Draw, KeyringInv, TypeOK
<1>3. \/ saved' = FALSE
      \/ UNCHANGED saved /\ spoiled' = spoiled \cup {o}
  BY DEF ChangePassphrase, ChangeFails
<1>4. ASSUME NEW q, ring' = [ring EXCEPT ![o] = q], q.keys = ring[o].keys
      PROVE  Lineage'
  <2>1. Extends(ring[o].keys, q.keys)
    BY <1>4 DEF Extends
  <2>2. QED BY <1>1, <1>3, <1>4, <2>1, RotatorGrows
<1>5. CASE ChangePassphrase(o, p)
  <2> DEFINE r == Rekeyed(ring[o], p, drawn + 1)
             q == Resealed(r, drawn + 2)
  <2>1. r \in Keyrings /\ DOMAIN r.keys = 1..r.current /\ r.keys = ring[o].keys
    BY <1>1, <1>2, RekeyedFacts
  <2> HIDE DEF r
  <2>2. q.keys = r.keys
    BY <1>2, <2>1, ResealedFacts
  <2>3. ring' = [ring EXCEPT ![o] = q]
    BY <1>5 DEF ChangePassphrase, Keep, r
  <2> HIDE DEF q
  <2>4. QED BY <1>4, <2>1, <2>2, <2>3
<1>6. CASE ChangeFails(o, p)
  <2>1. CASE \E salt \in MaybeFilled(ring[o].salt) : ring' = [ring EXCEPT ![o].salt = salt]
    <3>1. PICK salt \in MaybeFilled(ring[o].salt) : ring' = [ring EXCEPT ![o].salt = salt]
      BY <2>1
    <3> DEFINE r == ring[o]
               q == [r EXCEPT !.salt = salt]
    <3>2. ring' = [ring EXCEPT ![o] = q]
      BY <3>1
    <3>3. r \in Keyrings
      BY <1>1
    <3> HIDE DEF r
    <3>4. q.keys = r.keys
      BY <3>3 DEF Keyrings
    <3> HIDE DEF q
    <3>5. QED BY <1>4, <3>2, <3>4 DEF r
  <2>2. CASE \E nonce \in MaybeFilled(ring[o].nonce) :
               ring' = [ring EXCEPT ![o] =
                          [Rekeyed(ring[o], p, drawn + 2) EXCEPT !.nonce = nonce]]
    <3> DEFINE r == Rekeyed(ring[o], p, drawn + 2)
    <3>1. PICK nonce \in MaybeFilled(ring[o].nonce) :
            ring' = [ring EXCEPT ![o] = [r EXCEPT !.nonce = nonce]]
      BY <2>2
    <3>2. r \in Keyrings /\ r.keys = ring[o].keys
      BY <1>1, <1>2, RekeyedFacts
    <3> DEFINE q == [r EXCEPT !.nonce = nonce]
    <3> HIDE DEF r
    <3>3. q.keys = r.keys
      BY <3>2 DEF Keyrings
    <3>4. ring' = [ring EXCEPT ![o] = q]
      BY <3>1 DEF r
    <3> HIDE DEF q
    <3>5. QED BY <1>4, <3>2, <3>3, <3>4
  <2>3. QED BY <1>6, <2>1, <2>2 DEF ChangeFails
<1>7. QED BY <1>5, <1>6

\* With one rotator the lineage of the keyfile holds throughout.
THEOREM LineageInvariant ==
  ASSUME OneRotator
  PROVE  Spec => []Lineage
<1>1. Init => Lineage
  BY KeyringAssumption DEF Init, Lineage
<1>2. KeyringInv /\ Lineage /\ [Next]_vars => Lineage'
  <2> SUFFICES ASSUME KeyringInv, Lineage, [Next]_vars PROVE Lineage'
    OBVIOUS
  <2>1. ASSUME NEW o \in Owners, NEW p \in Passphrases, Create(o, p) PROVE Lineage'
    <3>1. /\ o \in Rotators /\ keyfile = None /\ saved' = FALSE
          /\ \A c \in Owners : ring[c] = None
          /\ UNCHANGED <<keyfile, sealing>>
      BY <2>1 DEF Create
    <3>2. PICK q : ring' = [ring EXCEPT ![o] = q]
      BY <2>1 DEF Create, Keep
    <3>3. \A c \in Owners \ Rotators : ring'[c] = None
      BY <3>1, <3>2 DEF KeyringInv, TypeOK
    <3>4. QED BY <3>1, <3>3 DEF Lineage
  <2>2. ASSUME NEW o \in Owners, Drop(o) PROVE Lineage'
    <3>1. /\ UNCHANGED <<keyfile, saved, sealing>> /\ spoiled' = spoiled \ {o}
          /\ ring' = [ring EXCEPT ![o] = None]
      BY <2>2 DEF Drop
    <3>2. \A c \in Owners : ring'[c] = IF c = o THEN None ELSE ring[c]
      BY <3>1 DEF KeyringInv, TypeOK
    <3>3. QED BY <3>1, <3>2, KeyringAssumption DEF Lineage
  <2>3. ASSUME NEW o \in Owners, Grant(o) PROVE Lineage'
    BY <2>3 DEF Grant, Lineage
  <2>4. CASE DamageFile
    <3>1. UNCHANGED <<ring, saved, sealing, spoiled>>
      BY <2>4 DEF DamageFile, granted
    <3>2. keyfile \in Keyfiles /\ keyfile # None
      BY <2>4 DEF DamageFile, KeyringInv, TypeOK
    <3>3. keyfile' \in Keyfiles /\ keyfile'.sealed = keyfile.sealed
      BY <2>4, <3>2 DEF DamageFile, Keyfiles
    <3>4. QED BY <3>1, <3>2, <3>3, NoneAssumption DEF Lineage
  <2>5. CASE UNCHANGED vars
    BY <2>5 DEF vars, Lineage
  <2>6. QED
    BY <2>1, <2>2, <2>3, <2>4, <2>5, OpenLineage, SaveLineage, SealLineage, RotateLineage,
       ChangeLineage DEF Next
<1>3. QED BY <1>1, <1>2, KeyringInvariant, PTL DEF Spec

\* While one owner rotates, every object that was ever sealed has its key in
\* that owner's keyring and in the keyfile, under the id its header names.
THEOREM NoKeyIsLost ==
  ASSUME OneRotator
  PROVE  Spec => []SealedStayReadable
<1>1. Lineage => SealedStayReadable
  BY DEF Lineage, SealedStayReadable, Extends
<1>2. QED BY <1>1, LineageInvariant, PTL

=============================================================================
