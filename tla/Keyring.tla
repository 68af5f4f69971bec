------------------------------ MODULE Keyring ------------------------------
(***************************************************************************)
(* The keyring (keyring.rs) and what depends on it: data keys under ids    *)
(* that are written into every sealed object, wrapped as a set under a key *)
(* derived from a passphrase, persisted as a keyfile the application saves *)
(* and loads, and the capability tokens (capability.rs) that are signed    *)
(* under the derived key.  Several owners hold keyrings loaded from the    *)
(* one keyfile.                                                            *)
(*                                                                         *)
(* Random values (keys, salts, nonces) are numbers that have not been used *)
(* before.  Key derivation and AES-GCM (external) are taken to be sound: a *)
(* derived key is its passphrase and salt, and a wrapped set opens under   *)
(* exactly the key and the nonce that wrapped it.                          *)
(***************************************************************************)
EXTENDS Integers, FiniteSets, FiniteSetsExt

CONSTANTS
  Owners,       \* who holds a keyring in memory
  Rotators,     \* those among them that change theirs
  Passphrases,  \* what keyrings are opened with
  None,         \* no keyring, no keyfile
  LastId,       \* the largest data key id, u32::MAX
  LastCount,    \* the largest number of keys the set can declare, u16::MAX
  MaxRandom,    \* how many random values are drawn
  MaxFailures,  \* how often the random source, derivation or wrapping fails
  MaxDamages    \* how often the keyfile is altered on disk

ASSUME KeyringAssumption ==
  /\ Rotators \subseteq Owners
  /\ LastId \in Nat \ {0} /\ LastCount \in Nat \ {0}
  /\ MaxRandom \in Nat /\ MaxFailures \in Nat /\ MaxDamages \in Nat

\* What keyrings and keyfiles are made of.
Keks == Passphrases \X (1..MaxRandom)
KeySets == UNION {[1..n -> 1..MaxRandom] : n \in 1..LastId}
WrappedSets ==
  [kek : Keks, nonce : 1..MaxRandom, current : 1..LastId, keys : KeySets,
   count : 1..LastCount]
Keyrings ==
  [keys : KeySets, current : 1..LastId, kek : Keks, salt : 1..MaxRandom,
   nonce : 1..MaxRandom, sealed : WrappedSets]
Keyfiles ==
  [salt : 1..MaxRandom, nonce : 1..MaxRandom, sealed : WrappedSets,
   state : {"whole", "cut", "altered"}]

ASSUME NoneAssumption == None \notin Keyrings /\ None \notin Keyfiles

VARIABLES
  ring,      \* the keyring of each owner
  keyfile,   \* the file the application last saved, and whether it is whole
  drawn,     \* random values drawn so far
  outcome,   \* what an owner's last call returned
  phrase,    \* history: the passphrase an owner's keyring was last given
  saved,     \* history: the last change that returned Ok is in the keyfile
  sealing,   \* history: the id and key of every object that was sealed
  wrapped,   \* history: every key set that was wrapped, with key and nonce
  tokens,    \* history: tags granted since an owner's passphrase last changed
  revoked,   \* history: tags granted before that
  spoiled,   \* history: owners whose keyring has failed to change
  failures,  \* failed changes so far
  damages    \* alterations of the keyfile so far

vars == <<ring, keyfile, drawn, outcome, phrase, saved, sealing, wrapped,
          tokens, revoked, spoiled, failures, damages>>
granted == <<tokens, revoked, spoiled>>
faults == <<failures, damages>>

-----------------------------------------------------------------------------
(* Key sets, wrapping and keyfiles. *)

FIRST == 1

Derive(passphrase, salt) == <<passphrase, salt>>

\* The number of keys as the set declares it.
Declared(keys) ==
  LET n == Cardinality(DOMAIN keys) IN IF n <= LastCount THEN n ELSE LastCount

\* encode_key_set, encrypted under this key and nonce.
Wrapped(kek, nonce, current, keys) ==
  [kek |-> kek, nonce |-> nonce, current |-> current, keys |-> keys,
   count |-> Declared(keys)]

ToKeyfile(r) ==
  [salt |-> r.salt, nonce |-> r.nonce, sealed |-> r.sealed, state |-> "whole"]

\* What opening a keyfile with a passphrase ends with: it is checked for its
\* shape, unwrapped, and the set for the number of keys it declares.
Opening(file, passphrase) ==
  IF file.state = "cut" THEN "malformed"
  ELSE IF \/ file.state = "altered"
          \/ file.sealed.kek # Derive(passphrase, file.salt)
          \/ file.sealed.nonce # file.nonce
       THEN "wrongpassphrase"
  ELSE IF \/ Cardinality(DOMAIN file.sealed.keys) # file.sealed.count
          \/ file.sealed.current \notin DOMAIN file.sealed.keys
       THEN "malformed"
  ELSE "ok"

Loaded(file, passphrase) ==
  [keys |-> file.sealed.keys, current |-> file.sealed.current,
   kek |-> Derive(passphrase, file.salt), salt |-> file.salt,
   nonce |-> file.nonce, sealed |-> file.sealed]

-----------------------------------------------------------------------------
(* Calls. *)

Init ==
  /\ ring = [o \in Owners |-> None]
  /\ keyfile = None
  /\ drawn = 0
  /\ outcome = [o \in Owners |-> "none"]
  /\ phrase = [o \in Owners |-> None]
  /\ saved = FALSE
  /\ sealing = {}
  /\ wrapped = {}
  /\ tokens = [o \in Owners |-> {}]
  /\ revoked = [o \in Owners |-> {}]
  /\ spoiled = {}
  /\ failures = 0
  /\ damages = 0

Draw(n) == drawn + n <= MaxRandom /\ drawn' = drawn + n

Returns(o, r) == outcome' = [outcome EXCEPT ![o] = r]

\* Mutant: the set is wrapped again under the nonce it had.
ResealedSameNonce(r, nonce) ==
  [r EXCEPT !.sealed = Wrapped(r.kek, r.nonce, r.current, r.keys)]

\* reseal: the current set is wrapped under the held key with a fresh nonce.
Resealed(r, nonce) ==
  [r EXCEPT !.nonce = nonce, !.sealed = Wrapped(r.kek, nonce, r.current, r.keys)]

\* The keyring of owner o is r, freshly wrapped.
Keep(o, r) ==
  /\ ring' = [ring EXCEPT ![o] = r]
  /\ wrapped' = wrapped \cup {r.sealed}

\* A new database: no keyfile yet, and no other keyring.
Create(o, p) ==
  /\ o \in Rotators /\ keyfile = None
  /\ \A other \in Owners : ring[other] = None
  /\ Draw(3)
  /\ Keep(o, Resealed([keys |-> [i \in {FIRST} |-> drawn + 1], current |-> FIRST,
                       kek |-> Derive(p, drawn + 2), salt |-> drawn + 2,
                       nonce |-> 0, sealed |-> None], drawn + 3))
  /\ phrase' = [phrase EXCEPT ![o] = p]
  /\ saved' = FALSE
  /\ Returns(o, "ok")
  /\ UNCHANGED <<keyfile, sealing, granted, faults>>

Open(o, p) ==
  /\ ring[o] = None /\ keyfile # None
  /\ LET r == Opening(keyfile, p) IN
       /\ Returns(o, r)
       /\ \/ r # "ok" /\ UNCHANGED <<ring, phrase>>
          \/ /\ r = "ok"
             /\ ring' = [ring EXCEPT ![o] = Loaded(keyfile, p)]
             /\ phrase' = [phrase EXCEPT ![o] = p]
  /\ UNCHANGED <<keyfile, drawn, saved, sealing, granted, wrapped, faults>>

\* Mutant: the retired key is replaced by the new one.
WithNewKeyOnly(r, key) ==
  LET next == Max(DOMAIN r.keys) + 1 IN
    [r EXCEPT !.keys = [i \in {next} |-> key], !.current = next]

\* The set with a fresh key, which new objects are sealed under.
WithNewKey(r, key) ==
  LET next == Max(DOMAIN r.keys) + 1 IN
    [r EXCEPT !.keys = [i \in DOMAIN r.keys \cup {next} |->
                          IF i = next THEN key ELSE r.keys[i]],
              !.current = next]

RotateDataKey(o) ==
  /\ o \in Rotators /\ ring[o] # None
  /\ \/ /\ Max(DOMAIN ring[o].keys) = LastId
        /\ Returns(o, "exhausted")
        /\ UNCHANGED <<ring, wrapped, drawn, saved>>
     \/ /\ Max(DOMAIN ring[o].keys) < LastId
        /\ Draw(2)
        /\ Keep(o, Resealed(WithNewKey(ring[o], drawn + 1), drawn + 2))
        /\ saved' = FALSE
        /\ Returns(o, "ok")
  /\ UNCHANGED <<keyfile, phrase, sealing, granted, faults>>

\* Mutant: only the salt is new, the key is still the old passphrase's.
RekeyedInName(r, p, salt) == [r EXCEPT !.salt = salt, !.kek = Derive(r.kek[1], salt)]

Rekeyed(r, p, salt) == [r EXCEPT !.salt = salt, !.kek = Derive(p, salt)]

ChangePassphrase(o, p) ==
  /\ o \in Rotators /\ ring[o] # None
  /\ Draw(2)
  /\ Keep(o, Resealed(Rekeyed(ring[o], p, drawn + 1), drawn + 2))
  /\ phrase' = [phrase EXCEPT ![o] = p]
  /\ tokens' = [tokens EXCEPT ![o] = {}]
  /\ revoked' = [revoked EXCEPT ![o] = @ \cup tokens[o]]
  /\ saved' = FALSE
  /\ Returns(o, "ok")
  /\ UNCHANGED <<keyfile, sealing, spoiled, faults>>

\* A failing random source may leave something in the buffer it was to fill.
MaybeFilled(old) == {old, drawn + 1}

\* A rotation fails: before the set has changed, or when it is to be wrapped.
RotateFails(o) ==
  /\ o \in Rotators /\ ring[o] # None
  /\ Max(DOMAIN ring[o].keys) < LastId
  /\ failures < MaxFailures
  /\ failures' = failures + 1
  /\ Draw(2)
  /\ Returns(o, "failed")
  /\ \/ UNCHANGED ring
     \/ \E nonce \in MaybeFilled(ring[o].nonce) :
          ring' = [ring EXCEPT ![o] =
                     [WithNewKey(ring[o], drawn + 2) EXCEPT !.nonce = nonce]]
  /\ spoiled' = spoiled \cup {o}
  /\ UNCHANGED <<keyfile, phrase, saved, sealing, tokens, revoked, wrapped, damages>>

\* A change of passphrase fails: when the salt is drawn, when the key is
\* derived, or when the set is to be wrapped.
ChangeFails(o, p) ==
  /\ o \in Rotators /\ ring[o] # None
  /\ failures < MaxFailures
  /\ failures' = failures + 1
  /\ Draw(2)
  /\ Returns(o, "failed")
  /\ \/ \E salt \in MaybeFilled(ring[o].salt) : ring' = [ring EXCEPT ![o].salt = salt]
     \/ \E nonce \in MaybeFilled(ring[o].nonce) :
          ring' = [ring EXCEPT ![o] = [Rekeyed(ring[o], p, drawn + 2) EXCEPT !.nonce = nonce]]
  /\ spoiled' = spoiled \cup {o}
  /\ UNCHANGED <<keyfile, phrase, saved, sealing, tokens, revoked, wrapped, damages>>

\* An object is sealed, and its header names the current id.  The application
\* saves the keyfile after a change before it writes on, and neither saves nor
\* writes with a keyring whose change failed (external).
SealObject(o) ==
  /\ ring[o] # None
  /\ saved /\ o \notin spoiled
  /\ sealing' = sealing \cup {<<ring[o].current, ring[o].keys[ring[o].current]>>}
  /\ Returns(o, "ok")
  /\ UNCHANGED <<ring, keyfile, drawn, phrase, saved, wrapped, granted, faults>>

\* Mutant: tokens are signed under the current data key.
TokenKeyOfData(r) == r.keys[r.current]

TokenKey(r) == r.kek

\* grant: a tag under the token key (one table and scope stand for all).
Grant(o) ==
  /\ ring[o] # None
  /\ tokens' = [tokens EXCEPT ![o] = @ \cup {TokenKey(ring[o])}]
  /\ Returns(o, "ok")
  /\ UNCHANGED <<ring, keyfile, drawn, phrase, saved, sealing, wrapped, revoked, spoiled, faults>>

\* A gate built from this keyring honours the tag.
Verifies(r, tag) == tag = TokenKey(r)

\* The application writes the keyfile (external), replacing the one before.
Save(o) ==
  /\ o \in Rotators /\ ring[o] # None /\ o \notin spoiled
  /\ keyfile' = ToKeyfile(ring[o])
  /\ saved' = TRUE
  /\ Returns(o, "ok")
  /\ UNCHANGED <<ring, drawn, phrase, sealing, granted, wrapped, faults>>

\* The keyring is dropped; its key material is wiped.
Drop(o) ==
  /\ ring[o] # None
  /\ ring' = [ring EXCEPT ![o] = None]
  /\ phrase' = [phrase EXCEPT ![o] = None]
  /\ tokens' = [tokens EXCEPT ![o] = {}]
  /\ revoked' = [revoked EXCEPT ![o] = {}]
  /\ spoiled' = spoiled \ {o}
  /\ Returns(o, "none")
  /\ UNCHANGED <<keyfile, drawn, saved, sealing, wrapped, faults>>

\* The file on disk loses its end or has a byte altered.
DamageFile ==
  /\ keyfile # None /\ keyfile.state = "whole"
  /\ damages < MaxDamages
  /\ damages' = damages + 1
  /\ \E s \in {"cut", "altered"} : keyfile' = [keyfile EXCEPT !.state = s]
  /\ UNCHANGED <<ring, drawn, outcome, phrase, saved, sealing, granted, wrapped, failures>>

Next ==
  \/ \E o \in Owners :
       \/ \E p \in Passphrases :
            Create(o, p) \/ Open(o, p) \/ ChangePassphrase(o, p) \/ ChangeFails(o, p)
       \/ RotateDataKey(o) \/ RotateFails(o)
       \/ SealObject(o) \/ Grant(o) \/ Save(o) \/ Drop(o)
  \/ DamageFile

Spec == Init /\ [][Next]_vars

-----------------------------------------------------------------------------
(* Properties. *)

\* Every variable holds a value of its kind; the current key of a keyring is
\* the newest one of a set whose ids run from 1 without a gap.
TypeOK ==
  /\ ring \in [Owners -> Keyrings \cup {None}]
  /\ \A o \in Owners :
       /\ ring[o] # None =>
            DOMAIN ring[o].keys = 1..ring[o].current /\ phrase[o] \in Passphrases
       /\ ring[o] = None => phrase[o] = None
  /\ keyfile \in Keyfiles \cup {None}
  /\ drawn \in 0..MaxRandom
  /\ outcome \in [Owners -> {"none", "ok", "failed", "exhausted", "malformed",
                            "wrongpassphrase"}]
  /\ phrase \in [Owners -> Passphrases \cup {None}]
  /\ saved \in BOOLEAN
  /\ sealing \subseteq (1..LastId) \X (1..MaxRandom)
  /\ wrapped \subseteq WrappedSets
  /\ tokens \in [Owners -> SUBSET Keks] /\ revoked \in [Owners -> SUBSET Keks]
  /\ spoiled \subseteq Rotators
  /\ failures \in 0..MaxFailures
  /\ damages \in 0..MaxDamages

\* A keyring's keyfile opens with the passphrase the keyring was last given
\* and with no other one, and gives the same keyring back, after any number of
\* rotations and changes of passphrase none of which failed, as long as the set
\* can declare the number of its keys; from then on the file is refused as a
\* whole, and never opens with a part of the keys.
Reopens ==
  \A o \in Owners \ spoiled : ring[o] # None =>
    LET file == ToKeyfile(ring[o]) IN
      \A p \in Passphrases :
        IF p # phrase[o] THEN Opening(file, p) = "wrongpassphrase"
        ELSE IF ring[o].current <= LastCount
        THEN Opening(file, p) = "ok" /\ Loaded(file, p) = ring[o]
        ELSE Opening(file, p) = "malformed"

\* The key of everything that was ever sealed is kept: the keyring that is being
\* rotated and the keyfile on disk hold it, under the id the object's header
\* names, also after changes that failed and were given up.  (Whether that file
\* opens is Reopens.)
SealedStayReadable ==
  \A s \in sealing :
    /\ \A o \in Rotators :
         ring[o] # None => s[1] \in DOMAIN ring[o].keys /\ ring[o].keys[s[1]] = s[2]
    /\ s[1] \in DOMAIN keyfile.sealed.keys /\ keyfile.sealed.keys[s[1]] = s[2]

\* No nonce is used twice under one key for different key sets, also where a
\* rotation or a change of passphrase failed in between.
NonceNeverReused ==
  \A a, b \in wrapped : a.kek = b.kek /\ a.nonce = b.nonce => a = b

\* A token outlives every rotation of the data key, and none outlives a change
\* of passphrase: gates built from the keyring honour the tokens it granted
\* since, and refuse those it granted before.
TokensFollowPassphrase ==
  \A o \in Owners \ spoiled : ring[o] # None =>
    /\ \A t \in tokens[o] : Verifies(ring[o], t)
    /\ \A t \in revoked[o] : ~Verifies(ring[o], t)
=============================================================================
