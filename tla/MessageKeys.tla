---------------------------- MODULE MessageKeys ----------------------------
(***************************************************************************)
(* The skipped-message-key store of one receiver chain (session_state.c)   *)
(* and the rule that turns the counter of an arriving message into a       *)
(* message key (session_cipher_get_or_create_message_keys).                *)
(*                                                                         *)
(* A message key is named by the counter it belongs to: the chain it comes *)
(* from is fixed by the receiver chain it is kept in.  `mks' is the list   *)
(* message_keys_head, oldest entry first.                                  *)
(***************************************************************************)
EXTENDS Integers, SequencesExt

CONSTANTS
  MaxMessageKeys,   \* MAX_MESSAGE_KEYS: 2000 in the code
  MaxFuture         \* how far ahead of the chain a counter may be: 2000

ASSUME KeyBounds == MaxMessageKeys \in Nat /\ MaxFuture \in Nat

(* What get_or_create_message_keys answers. *)
Success   == "SG_SUCCESS"
Duplicate == "SG_ERR_DUPLICATE_MESSAGE"
Invalid   == "SG_ERR_INVALID_MESSAGE"

(* The counters from..to-1, in order: the keys the while loop of           *)
(* get_or_create_message_keys derives and stores on its way to a message.  *)
Run(from, to) == [i \in 1..(to - from) |-> from + i - 1]

(* Mutants: the store keeps its oldest entries, or one entry too few; a    *)
(* key stays after its use.                                                *)
KeepOldest(mks) ==
  IF Len(mks) > MaxMessageKeys THEN SubSeq(mks, 1, MaxMessageKeys) ELSE mks
KeepTooFew(mks) ==
  IF Len(mks) >= MaxMessageKeys /\ mks # <<>> THEN Tail(mks) ELSE mks
LeaveKey(mks, counter) == mks

(* The eviction loop: while the list is too long its head is deleted.      *)
KeepNewest(mks) ==
  IF Len(mks) > MaxMessageKeys
  THEN SubSeq(mks, Len(mks) - MaxMessageKeys + 1, Len(mks))
  ELSE mks

(* Mutant: the eviction loop is missing.                                   *)
AppendMessageKeys(mks, counter) == Append(mks, counter)

(* session_state_set_message_keys: append, then evict from the head.       *)
SetMessageKeys(mks, counter) == KeepNewest(Append(mks, counter))

HasMessageKeys(mks, counter) == \E i \in 1..Len(mks) : mks[i] = counter

(* session_state_remove_message_keys: unlink the entry with this counter.  *)
(* The list holds no counter twice (ReceiverChain!StoreBounded), so the    *)
(* entry the code meets first is the only one.                             *)
RemoveMessageKeys(mks, counter) ==
  RemoveAt(mks, CHOOSE i \in 1..Len(mks) : mks[i] = counter)

(* The answer of session_cipher_get_or_create_message_keys for a counter.  *)
Answer(index, mks, counter) ==
  IF index > counter
  THEN IF HasMessageKeys(mks, counter) THEN Success ELSE Duplicate
  ELSE IF counter - index > MaxFuture THEN Invalid ELSE Success

(* Mutant: the chain key of the message itself is kept.                    *)
IndexAtMessage(index, counter) == IF index > counter THEN index ELSE counter

(* The chain after the key of an acceptable counter has been taken.        *)
IndexAfter(index, counter) == IF index > counter THEN index ELSE counter + 1

KeysAfter(index, mks, counter) ==
  IF index > counter
  THEN RemoveMessageKeys(mks, counter)
  ELSE KeepNewest(mks \o Run(index, counter))
=============================================================================
