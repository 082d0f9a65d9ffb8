------------------------------ MODULE Ratchet ------------------------------
(***************************************************************************)
(* Keys and key derivation (ratchet.c, curve.c, hkdf.c), symbolically.     *)
(*                                                                         *)
(* A key pair is named by what it is, who made it, in which installation   *)
(* and a number; its public and private halves share the name.  A key      *)
(* agreement is the unordered pair of the two key pairs, because either    *)
(* side computes the same secret.  A derived key is named by the inputs it *)
(* was derived from: `path' is the sequence of agreements fed into the     *)
(* root key so far, and since one HKDF call yields a root key and a chain  *)
(* key together, the same path names both.                                 *)
(***************************************************************************)
EXTENDS Integers, Sequences

Key(kind, owner, installation, n) == <<kind, owner, installation, n>>
NoKey == <<"none", "none", 0, 0>>

(* curve_calculate_agreement *)
Agreement(theirs, ours) == {theirs, ours}

(* ratcheting_session_calculate_derived_keys: root and chain of a secret.  *)
DerivedKeys(secret) == <<secret>>

(* ratchet_root_key_create_chain: the next root and its chain.             *)
CreateChain(root, theirRatchet, ourRatchet) ==
  Append(root, Agreement(theirRatchet, ourRatchet))

(* The agreements of ratcheting_session_alice_initialize, in order.  The   *)
(* last one is there when the bundle has a one-time pre key.               *)
AliceSecret(ourIdentity, ourBase, theirIdentity, theirSigned, theirOneTime) ==
  << Agreement(theirSigned, ourIdentity),
     Agreement(theirIdentity, ourBase),
     Agreement(theirSigned, ourBase) >>
  \o IF theirOneTime = NoKey THEN <<>> ELSE <<Agreement(theirOneTime, ourBase)>>

(* The agreements of ratcheting_session_bob_initialize, in order.          *)
BobSecret(ourIdentity, ourSigned, ourOneTime, theirIdentity, theirBase) ==
  << Agreement(theirIdentity, ourSigned),
     Agreement(theirBase, ourIdentity),
     Agreement(theirBase, ourSigned) >>
  \o IF ourOneTime = NoKey THEN <<>> ELSE <<Agreement(theirBase, ourOneTime)>>
=============================================================================
