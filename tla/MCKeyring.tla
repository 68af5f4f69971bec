----------------------------- MODULE MCKeyring -----------------------------
(* Small instances of the keyring. *)
EXTENDS Keyring

TwoOwners == {"o1", "o2"}
OneOwner == {"o1"}
TwoPassphrases == {"old", "new"}
=============================================================================
