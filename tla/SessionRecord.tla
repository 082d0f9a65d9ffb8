--------------------------- MODULE SessionRecord ---------------------------
(***************************************************************************)
(* A session state (session_state.c) and the record that holds the current *)
(* state and the archived ones (session_record.c), as values.              *)
(*                                                                         *)
(* Left out of a state: the session version (one version is supported, and *)
(* only a state without a sender chain has another), registration ids, the *)
(* previous counter (sent, never read by the receiver) and the pending key *)
(* exchange (no caller).                                                   *)
(***************************************************************************)
EXTENDS Ratchet, MessageKeys

CONSTANTS
  MaxReceiverChains,    \* 5 in session_state_add_receiver_chain
  MaxArchivedStates     \* ARCHIVED_STATES_MAX_LENGTH: 40

ASSUME RecordBounds ==
  MaxReceiverChains \in Nat \ {0} /\ MaxArchivedStates \in Nat

(* pending_pre_key: ids of the pre keys used and the base key.  Id 0 means *)
(* that there was no one-time pre key.                                     *)
NoPending == [base |-> NoKey, oneTime |-> 0]

(* session_state_create *)
EmptyState ==
  [base     |-> NoKey,      \* alice_base_key
   local    |-> NoKey,      \* local_identity_public
   remote   |-> NoKey,      \* remote_identity_public
   root     |-> <<>>,       \* root_key
   ratchet  |-> NoKey,      \* sender_chain.sender_ratchet_key_pair
   chain    |-> <<>>,       \* sender_chain.chain_key, its secret
   index    |-> 0,          \* sender_chain.chain_key, its index
   recv     |-> <<>>,       \* receiver_chain_head, oldest first
   pending  |-> NoPending]

HasSenderChain(state) == state.ratchet # NoKey

(* session_state_add_receiver_chain: append, drop the oldest beyond 5.     *)
AddReceiverChain(recv, ratchet, chain) ==
  LET all == Append(recv, [ratchet |-> ratchet, chain |-> chain,
                           index |-> 0, mks |-> <<>>])
  IN IF Len(all) > MaxReceiverChains THEN Tail(all) ELSE all

(* session_state_find_receiver_chain: position of the first chain with     *)
(* this ratchet key, 0 when there is none.                                 *)
FindReceiverChain(recv, ratchet) ==
  LET at == {i \in 1..Len(recv) : recv[i].ratchet = ratchet}
  IN IF at = {} THEN 0 ELSE Min(at)

-----------------------------------------------------------------------------
(* A record.  Loading an address without a stored session gives            *)
(* FreshRecord, and no record is ever stored before its current state has  *)
(* a sender chain, so FreshRecord also stands for "nothing stored".        *)
FreshRecord == [cur |-> EmptyState, prev |-> <<>>]

States(record) == {record.cur} \union {record.prev[i] : i \in DOMAIN record.prev}

(* session_record_has_session_state *)
HasSessionState(record, base) == \E s \in States(record) : s.base = base

(* Mutant: the archive is not cut.                                         *)
PromoteUncut(record, state) == [cur |-> state, prev |-> <<record.cur>> \o record.prev]

(* session_record_promote_state: the current state goes to the head of the *)
(* archive, whose tail is cut.                                             *)
PromoteState(record, state) ==
  LET all == <<record.cur>> \o record.prev
  IN [cur  |-> state,
      prev |-> SubSeq(all, 1, IF Len(all) > MaxArchivedStates
                              THEN MaxArchivedStates ELSE Len(all))]

(* Called by both builders on the record: what was current is archived and *)
(* an empty state takes its place; a fresh record already is one.          *)
ArchiveCurrentState(record) ==
  IF record = FreshRecord THEN record ELSE PromoteState(record, EmptyState)
=============================================================================
