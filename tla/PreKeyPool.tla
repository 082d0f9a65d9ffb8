----------------------------- MODULE PreKeyPool -----------------------------
(***************************************************************************)
(* The one-time pre keys of one installation: key_helper generates them in *)
(* batches with ids that wrap around, the application stores and uploads   *)
(* them, the server hands each of them out once, and a session that was    *)
(* begun with one removes it from the store.  A key is a serial number, in *)
(* the order of generation; 0 is none and 1 the last-resort key.           *)
(***************************************************************************)
EXTENDS Naturals, FiniteSetsExt

CONSTANTS
  MediumMax,    \* PRE_KEY_MEDIUM_MAX_VALUE, 0xFFFFFF
  Word,         \* 2^32: start_index is an unsigned int
  Starts,       \* the ids the first batch may start with
  BatchSizes,   \* how many keys a call may ask for
  MaxSerial     \* bound: keys generated

ASSUME PreKeyAssumption ==
  /\ MediumMax \in Nat /\ MediumMax > 2
  /\ Word \in Nat /\ Word > MediumMax
  /\ Starts \subseteq 0..(MediumMax - 1)
  /\ BatchSizes \subseteq Nat \ {0}
  /\ MaxSerial \in Nat

VARIABLES
  store,      \* store[i]: the key in the pre-key store under id i
  next,       \* the id the application starts its next batch with
  serial,     \* the last key generated
  server,     \* ids of keys uploaded and not handed out
  out         \* keys handed out whose session has not begun: <<id, key>>

poolVars == <<store, next, serial, server, out>>

PoolInit ==
  /\ store = [i \in 1..MediumMax |-> IF i = MediumMax THEN 1 ELSE 0]
  /\ next \in Starts
  /\ serial = 1
  /\ server = {}
  /\ out = {}

(* start_index + i, where start_index is start - 1.                        *)
Index(start, i) == (start + Word - 1 + i) % Word

(* Mutant: the ids reach PRE_KEY_MEDIUM_MAX_VALUE itself.                  *)
PreKeyIdTooFar(start, i) == (Index(start, i) % MediumMax) + 1

(* Mutant: the ids wrap one too early.                                     *)
PreKeyIdTooNear(start, i) == (Index(start, i) % (MediumMax - 2)) + 1

(* The id of key i, from 0, of a batch that begins at start.               *)
PreKeyId(start, i) == (Index(start, i) % (MediumMax - 1)) + 1

(* The positions of id among the first k keys of a batch.                  *)
Positions(id, k) == {i \in 0..(k - 1) : PreKeyId(next, i) = id}

(* The store after the first k keys of a batch were put into it.           *)
Stored(k) ==
  [id \in 1..MediumMax |->
     IF Positions(id, k) = {} THEN store[id] ELSE serial + 1 + Max(Positions(id, k))]

(* signal_protocol_key_helper_generate_pre_keys, and the application that  *)
(* stores and uploads the keys; it may be stopped after k of them, and     *)
(* starts the next batch after the last key it has stored.                 *)
GeneratePreKeys(n, k) ==
  /\ serial + k <= MaxSerial
  /\ k \in 1..n
  /\ store' = Stored(k)
  /\ server' = server \cup {PreKeyId(next, i) : i \in 0..(k - 1)}
  /\ next' = PreKeyId(next, k - 1) + 1
  /\ serial' = serial + k
  /\ UNCHANGED out

(* The server puts a key in a bundle, once.                                *)
HandOut(i) ==
  /\ i \in server
  /\ server' = server \ {i}
  /\ out' = out \cup {<<i, store[i]>>}
  /\ UNCHANGED <<store, next, serial>>

(* Mutant: whatever key is under the id is removed.                        *)
BeginSessionAnyKey(o) ==
  /\ o \in out
  /\ out' = out \ {o}
  /\ store' = [store EXCEPT ![o[1]] = 0]
  /\ UNCHANGED <<next, serial, server>>

(* The first message of a session arrives: the key under its id is used    *)
(* and removed, if it is the one the sender used; otherwise there is none, *)
(* or the MAC is wrong, and the store is left alone.                       *)
BeginSession(o) ==
  /\ o \in out
  /\ out' = out \ {o}
  /\ store' = [store EXCEPT ![o[1]] = IF @ = o[2] THEN 0 ELSE @]
  /\ UNCHANGED <<next, serial, server>>

PoolNext ==
  \/ \E n \in BatchSizes : \E k \in 1..n : GeneratePreKeys(n, k)
  \/ \E i \in server : HandOut(i)
  \/ \E o \in out : BeginSession(o)

PoolSpec == PoolInit /\ [][PoolNext]_poolVars

(* The last-resort key, which is stored under PRE_KEY_MEDIUM_MAX_VALUE and *)
(* never removed, is never replaced by a generated key, at whatever id the *)
(* batches begin and end.                                                  *)
LastResortKept == store[MediumMax] = 1

(* key_helper.h: ids are repeated as infrequently as possible.  A key that *)
(* was handed out stays usable until every other id was given to a later   *)
(* key.                                                                    *)
RarelyRepeated ==
  \A o \in out : store[o[1]] # o[2] => serial - o[2] >= MediumMax - 1

(* A key the server still offers is in the store under that id: no session *)
(* begun with an older key of the same id has removed it.                  *)
OfferedIsStored == \A i \in server : store[i] > 1

=============================================================================
