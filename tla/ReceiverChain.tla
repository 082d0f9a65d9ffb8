--------------------------- MODULE ReceiverChain ---------------------------
(***************************************************************************)
(* One receiver chain of a session as its owner uses it: messages of the   *)
(* sender's chain arrive in any order, any number of times, some of them   *)
(* corrupted, and each is answered with its plaintext, with "duplicate" or *)
(* with "invalid".  The three functions involved run under the context     *)
(* lock and on a copy of the session state that is kept only on success,   *)
(* so an arrival is one atomic step here; ReceiverLoop opens it up.        *)
(***************************************************************************)
EXTENDS MessageKeys

CONSTANT Counters     \* the message counters that may arrive

ASSUME CountersAreNaturals == Counters \subseteq Nat

VARIABLES
  index,   \* chain_key->index: the next counter the chain can derive
  mks,     \* message_keys_head: counters of the stored skipped keys
  log,     \* history: the counters of the accepted messages, in order
  reply    \* the last arrival: its counter and the result code

vars == <<index, mks, log, reply>>

Codes == {Success, Duplicate, Invalid, "none"}

TypeOK ==
  /\ index \in Nat
  /\ mks \in Seq(Nat)
  /\ log \in Seq(Nat)
  /\ reply \in [counter : Nat, code : Codes]

(* session_state_add_receiver_chain: a chain starts at index 0, no keys.   *)
Init ==
  /\ index = 0
  /\ mks = <<>>
  /\ log = <<>>
  /\ reply = [counter |-> 0, code |-> "none"]

Replied(c, code) == reply' = [counter |-> c, code |-> code]

(* The counter is acceptable and the MAC verifies: the copy of the state   *)
(* becomes the state.                                                      *)
Accept(c) ==
  /\ Answer(index, mks, c) = Success
  /\ index' = IndexAfter(index, c)
  /\ mks' = KeysAfter(index, mks, c)
  /\ log' = Append(log, c)
  /\ Replied(c, Success)

(* The counter is acceptable and the MAC does not verify: the copy, with   *)
(* the keys derived or taken from the store, is thrown away.               *)
RejectMac(c) ==
  /\ Answer(index, mks, c) = Success
  /\ Replied(c, Invalid)
  /\ UNCHANGED <<index, mks, log>>

(* The counter itself is refused. *)
Refuse(c) ==
  /\ Answer(index, mks, c) # Success
  /\ Replied(c, Answer(index, mks, c))
  /\ UNCHANGED <<index, mks, log>>

Next == \E c \in Counters : Accept(c) \/ RejectMac(c) \/ Refuse(c)

Spec == Init /\ [][Next]_vars

-----------------------------------------------------------------------------
Accepted == {log[i] : i \in 1..Len(log)}
Stored == {mks[i] : i \in 1..Len(mks)}

(* No message is accepted twice, whatever the order and the number of its  *)
(* copies: get_or_create_message_keys hands out each key once.             *)
AcceptedOnce == \A i, j \in 1..Len(log) : log[i] = log[j] => i = j

(* The window promise of MAX_MESSAGE_KEYS: a message that was skipped is   *)
(* still acceptable as long as the chain is at most MaxMessageKeys + 1     *)
(* counters ahead of it.                                                   *)
WindowKept ==
  \A c \in 0..(index - 1) :
    (c \notin Accepted /\ index - c <= MaxMessageKeys + 1) => c \in Stored

(* "Duplicate" is never said of a message that could still be accepted:    *)
(* it was accepted, or it fell out of the window.                          *)
DuplicateIsOld ==
  reply.code = Duplicate =>
     \/ reply.counter \in Accepted
     \/ index - reply.counter > MaxMessageKeys + 1

(* Forward secrecy of the store: the key of an accepted message is not     *)
(* kept, neither as a stored key nor below the chain's own index.          *)
UsedKeysErased == \A c \in Accepted : c \notin Stored /\ c < index

(* The store is bounded whatever arrives, holds no counter twice and only  *)
(* counters the chain has passed.                                          *)
StoreBounded ==
  /\ Len(mks) <= MaxMessageKeys
  /\ \A i \in 1..Len(mks) : mks[i] < index
  /\ \A i, j \in 1..Len(mks) : i < j => mks[i] < mks[j]

(* What the three answers rest on: the named parts together are inductive. *)
Inv ==
  /\ TypeOK
  /\ StoreBounded
  /\ \A i, j \in 1..Len(mks) : i < j => mks[j] - mks[i] >= j - i
  /\ UsedKeysErased
  /\ AcceptedOnce
  /\ WindowKept
  /\ DuplicateIsOld

(* The header's promise for SG_ERR_DUPLICATE_MESSAGE: "if the input is a   *)
(* message that has already been received".                                *)
DuplicateMeansReceived ==
  reply.code = Duplicate => reply.counter \in Accepted
=============================================================================
