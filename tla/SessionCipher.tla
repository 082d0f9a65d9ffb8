--------------------------- MODULE SessionCipher ---------------------------
(***************************************************************************)
(* What session_cipher.c and session_builder.c compute from a record and a *)
(* message, as operators: the state machine Sessions loads, calls and      *)
(* stores.  Decryption works on copies, so an operator returns a result    *)
(* code with the record to keep.                                           *)
(*                                                                         *)
(* A message is [to, id, base, oneTime, from, remote, ratchet, counter,    *)
(* chain]: `id' names the plaintext; base # NoKey makes it a               *)
(* pre_key_signal_message with that base key, the id of a one-time pre key *)
(* (0: none) and the sender's identity key `from'; chain, counter and the  *)
(* identities from and remote are what its MAC was computed with.          *)
(***************************************************************************)
EXTENDS SessionRecord

(* ratcheting_session_alice_initialize on an empty state, and the fields   *)
(* session_builder_process_pre_key_bundle sets after it.                   *)
AliceState(identity, base, ratchet, theirIdentity, theirSigned, theirOneTime, oneTimeId) ==
  LET derived == DerivedKeys(AliceSecret(identity, base, theirIdentity,
                                         theirSigned, theirOneTime))
      sending == CreateChain(derived, theirSigned, ratchet)
  IN [base    |-> base,
      local   |-> identity,
      remote  |-> theirIdentity,
      root    |-> sending,
      ratchet |-> ratchet,
      chain   |-> sending,
      index   |-> 0,
      recv    |-> AddReceiverChain(<<>>, theirSigned, derived),
      pending |-> [base |-> base, oneTime |-> oneTimeId]]

(* ratcheting_session_bob_initialize on an empty state: the signed pre key *)
(* is the first ratchet key.                                               *)
BobState(identity, signed, oneTime, theirIdentity, theirBase) ==
  LET derived == DerivedKeys(BobSecret(identity, signed, oneTime,
                                       theirIdentity, theirBase))
  IN [EmptyState EXCEPT !.base = theirBase, !.local = identity,
        !.remote = theirIdentity, !.root = derived,
        !.ratchet = signed, !.chain = derived]

(* Mutant: the root key is left at the receiver's half of the step.        *)
RatchetHalfRoot(state, theirs, new) ==
  IF FindReceiverChain(state.recv, theirs) # 0 THEN state
  ELSE LET receiving == CreateChain(state.root, theirs, state.ratchet)
           sending == CreateChain(receiving, theirs, new)
       IN [state EXCEPT !.root = receiving, !.ratchet = new, !.chain = sending,
             !.index = 0, !.recv = AddReceiverChain(@, theirs, receiving)]

(* session_cipher_get_or_create_chain_key: a ratchet key not seen before   *)
(* turns the ratchet, with a new key pair for our own sender chain.        *)
GetOrCreateChainKey(state, theirs, new) ==
  IF FindReceiverChain(state.recv, theirs) # 0 THEN state
  ELSE LET receiving == CreateChain(state.root, theirs, state.ratchet)
           sending == CreateChain(receiving, theirs, new)
       IN [state EXCEPT !.root = sending, !.ratchet = new, !.chain = sending,
             !.index = 0, !.recv = AddReceiverChain(@, theirs, receiving)]

(* signal_message_verify_mac with the keys and identities of this state.   *)
VerifyMac(state, chain, m) ==
  m.chain = chain /\ m.from = state.remote /\ m.remote = state.local

(* session_cipher_decrypt_from_state_and_signal_message on a copy.         *)
DecryptFromState(state, m, new) ==
  IF ~HasSenderChain(state) THEN [code |-> Invalid, state |-> state]
  ELSE
    LET turned == GetOrCreateChainKey(state, m.ratchet, new)
        at     == FindReceiverChain(turned.recv, m.ratchet)
        link   == turned.recv[at]
        answer == Answer(link.index, link.mks, m.counter)
        after  == [link EXCEPT !.index = IndexAfter(link.index, m.counter),
                               !.mks = KeysAfter(link.index, link.mks, m.counter)]
    IN IF answer # Success THEN [code |-> answer, state |-> state]
       ELSE IF ~VerifyMac(state, link.chain, m)
            THEN [code |-> Invalid, state |-> state]
            ELSE [code |-> Success,
                  state |-> [turned EXCEPT !.recv[at] = after, !.pending = NoPending]]

(* Mutant: archived states are not tried.                                  *)
DecryptCurrentOnly(record, m, new) ==
  LET d == DecryptFromState(record.cur, m, new)
  IN [code |-> d.code, record |-> [record EXCEPT !.cur = d.state]]

(* session_cipher_decrypt_from_record_and_signal_message: the current      *)
(* state, then the archived ones from the newest.  "Invalid" moves on to   *)
(* the next state, any other answer ends the search; an archived state     *)
(* that decrypts becomes the current one.                                  *)
DecryptFromRecord(record, m, new) ==
  LET try(i) == DecryptFromState(IF i = 0 THEN record.cur ELSE record.prev[i], m, new)
      hits == {i \in 0..Len(record.prev) : try(i).code # Invalid}
      first == CHOOSE i \in hits : \A j \in hits : i <= j
      d == try(first)
      without == [record EXCEPT !.prev = RemoveAt(record.prev, first)]
  IN IF hits = {} THEN [code |-> Invalid, record |-> record]
     ELSE IF d.code # Success THEN [code |-> d.code, record |-> record]
     ELSE [code |-> Success,
           record |-> IF first = 0 THEN [record EXCEPT !.cur = d.state]
                      ELSE PromoteState(without, d.state)]
=============================================================================
