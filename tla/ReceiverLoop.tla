---------------------------- MODULE ReceiverLoop ----------------------------
(***************************************************************************)
(* The same receiver chain with the while loop of                          *)
(* session_cipher_get_or_create_message_keys written out: one step per     *)
(* iteration, each storing one skipped key and evicting as it goes, on the *)
(* working copy that session_state_copy made.  Any iteration may fail (an  *)
(* allocation or a crypto provider error), and the copy is then dropped.   *)
(* ReceiverLoop implements ReceiverChain: the loop computes KeysAfter.     *)
(***************************************************************************)
EXTENDS ReceiverChain

VARIABLES
  pc,      \* "idle", or "loop" inside get_or_create_message_keys
  want,    \* the counter of the message being decrypted
  cur,     \* cur_chain_key->index
  copy     \* the message key list of the working copy

work == <<pc, want, cur, copy>>
loopVars == <<index, mks, log, reply, pc, want, cur, copy>>

LoopInit ==
  /\ Init
  /\ pc = "idle"
  /\ want = 0
  /\ cur = 0
  /\ copy = <<>>

(* A counter at or after the chain's index and inside the future window:   *)
(* the loop starts on a copy of the state.                                 *)
Begin(c) ==
  /\ pc = "idle"
  /\ c >= index
  /\ Answer(index, mks, c) = Success
  /\ pc' = "loop"
  /\ want' = c
  /\ cur' = index
  /\ copy' = mks
  /\ UNCHANGED vars

(* One iteration: store the key of cur_chain_key, move to the next key.    *)
Skip ==
  /\ pc = "loop"
  /\ cur < want
  /\ copy' = SetMessageKeys(copy, cur)
  /\ cur' = cur + 1
  /\ UNCHANGED <<index, mks, log, reply, pc, want>>

(* The loop has reached the message, the MAC verifies, the copy is kept.   *)
Keep ==
  /\ pc = "loop"
  /\ cur = want
  /\ index' = cur + 1
  /\ mks' = copy
  /\ log' = Append(log, want)
  /\ reply' = [counter |-> want, code |-> Success]
  /\ pc' = "idle"
  /\ UNCHANGED <<want, cur, copy>>

(* The MAC does not verify: the copy is dropped.                           *)
Drop ==
  /\ pc = "loop"
  /\ cur = want
  /\ reply' = [counter |-> want, code |-> Invalid]
  /\ pc' = "idle"
  /\ UNCHANGED <<index, mks, log, want, cur, copy>>

(* Mutant: the loop works on the session state itself.                     *)
FailInPlace ==
  /\ pc = "loop"
  /\ cur < want
  /\ index' = cur
  /\ mks' = copy
  /\ pc' = "idle"
  /\ UNCHANGED <<log, reply, want, cur, copy>>

(* An iteration fails part of the way: the copy is dropped, the error is   *)
(* one the caller does not take for a verdict on the message.              *)
Fail ==
  /\ pc = "loop"
  /\ cur < want
  /\ pc' = "idle"
  /\ UNCHANGED <<index, mks, log, reply, want, cur, copy>>

(* A counter behind the chain's index: its stored key is taken, no loop.   *)
TakeStored(c) ==
  /\ pc = "idle"
  /\ c < index
  /\ Accept(c) \/ RejectMac(c)
  /\ UNCHANGED work

RefuseIdle(c) ==
  /\ pc = "idle"
  /\ Refuse(c)
  /\ UNCHANGED work

LoopNext ==
  \/ \E c \in Counters : Begin(c) \/ TakeStored(c) \/ RefuseIdle(c)
  \/ Skip \/ Keep \/ Drop \/ Fail

LoopSpec == LoopInit /\ [][LoopNext]_loopVars

LoopTypeOK ==
  /\ TypeOK
  /\ pc \in {"idle", "loop"}
  /\ want \in Nat
  /\ cur \in Nat
  /\ copy \in Seq(Nat)

(* The loop invariant: after some iterations the working copy holds what   *)
(* storing all the passed counters at once and then trimming would give.   *)
LoopInvariant ==
  /\ Len(mks) <= MaxMessageKeys
  /\ pc = "loop" =>
    /\ want \in Counters
    /\ index <= cur
    /\ cur <= want
    /\ Answer(index, mks, want) = Success
    /\ copy = KeepNewest(mks \o Run(index, cur))

(* The chain driven one key at a time is a ReceiverChain: every failed     *)
(* decryption leaves the stored chain as it was, every successful one is   *)
(* a single Accept.                                                        *)
Refinement == Spec
=============================================================================
