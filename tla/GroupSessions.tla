--------------------------- MODULE GroupSessions ---------------------------
(***************************************************************************)
(* Group messaging with sender keys (group_session_builder.c,              *)
(* group_cipher.c, sender_key_record.c, sender_key_state.c): one sender,   *)
(* the members that listen to it, and a network that may lose, delay,      *)
(* reorder and repeat distribution messages and group messages.            *)
(*                                                                         *)
(* A sender key is named by its id: its seed, its signing key and all its  *)
(* chain keys follow from it.  Sender key ids are random numbers of 31     *)
(* bits; two keys with the same id are not modelled.  The rule that turns  *)
(* an iteration into a message key is the one of MessageKeys:              *)
(* group_cipher_get_sender_key has the same branches, loop and limits.     *)
(***************************************************************************)
EXTENDS MessageKeys, FiniteSets

CONSTANTS
  Member,           \* the receivers
  MaxStates,        \* MAX_STATES of sender_key_record.c: 5
  MaxSenderKeys,    \* bounds: sender keys made,
  MaxGroupMsgs,     \*   messages encrypted,
  MaxProcessed,     \*   distribution messages each member processes,
  MaxGroupFaults    \*   failed or crashed calls

ASSUME GroupBounds ==
  /\ MaxStates \in Nat \ {0}
  /\ {MaxSenderKeys, MaxGroupMsgs, MaxProcessed, MaxGroupFaults} \subseteq Nat

VARIABLES
  own,       \* the sender's stored key state: id and iteration, id 0 when none
  made,      \* sender keys generated
  dists,     \* distribution messages ever sent: id, iteration, and the value of count
  group,     \* group messages ever sent: id, iteration, and a number
  count,     \* messages encrypted, sent or not
  grec,      \* grec[r]: the sender_key_record of member r, newest state first
  gop,       \* gop[r]: the decrypt call of r whose callback is running
  heard,     \* history: distribution messages in the record's past, newest first
  got,       \* history: got[r][n], how often r committed message n (2: more)
  gfaults

groupVars == <<own, made, dists, group, count, grec, gop, heard, got, gfaults>>

NoOwn == [id |-> 0, iter |-> 0]
NoGroupOp == [busy |-> FALSE, record |-> <<>>, past |-> <<>>, n |-> 0]

GroupInit ==
  /\ own = NoOwn
  /\ made = 0
  /\ dists = {}
  /\ group = {}
  /\ count = 0
  /\ grec = [r \in Member |-> <<>>]
  /\ gop = [r \in Member |-> NoGroupOp]
  /\ heard = [r \in Member |-> <<>>]
  /\ got = [r \in Member |-> [n \in 1..MaxGroupMsgs |-> 0]]
  /\ gfaults = 0

-----------------------------------------------------------------------------
(* The sender                                                              *)

(* Mutant: the key is announced as it was when it was made.                *)
CreateSessionFromStart ==
  /\ IF own.id # 0
     THEN UNCHANGED <<own, made>>
     ELSE /\ made < MaxSenderKeys
          /\ made' = made + 1
          /\ own' = [id |-> made + 1, iter |-> 0]
  /\ dists' = dists \union {[id |-> own'.id, iter |-> 0, at |-> count]}
  /\ UNCHANGED <<group, count, grec, gop, heard, got, gfaults>>

(* group_session_builder_create_session: a key is made when there is none; *)
(* either way the current state of the chain is what is announced.         *)
CreateSession ==
  /\ IF own.id # 0
     THEN UNCHANGED <<own, made>>
     ELSE /\ made < MaxSenderKeys
          /\ made' = made + 1
          /\ own' = [id |-> made + 1, iter |-> 0]
  /\ dists' = dists \union {[id |-> own'.id, iter |-> own'.iter, at |-> count]}
  /\ UNCHANGED <<group, count, grec, gop, heard, got, gfaults>>

(* Mutant: the message is released before the chain is stored.             *)
EncryptBeforeStore ==
  /\ own.id # 0
  /\ count < MaxGroupMsgs
  /\ count' = count + 1
  /\ group' = group \union {[id |-> own.id, iter |-> own.iter, n |-> count + 1]}
  /\ \/ /\ own' = [own EXCEPT !.iter = @ + 1]
        /\ UNCHANGED gfaults
     \/ /\ gfaults < MaxGroupFaults
        /\ gfaults' = gfaults + 1
        /\ UNCHANGED own
  /\ UNCHANGED <<made, dists, grec, gop, heard, got>>

(* group_cipher_encrypt: the advanced chain is stored, then the message is *)
(* released.  A crash may come in between.                                 *)
GroupEncrypt ==
  /\ own.id # 0
  /\ count < MaxGroupMsgs
  /\ count' = count + 1
  /\ own' = [own EXCEPT !.iter = @ + 1]
  /\ \/ /\ group' = group \union {[id |-> own.id, iter |-> own.iter, n |-> count + 1]}
        /\ UNCHANGED gfaults
     \/ /\ gfaults < MaxGroupFaults
        /\ gfaults' = gfaults + 1
        /\ UNCHANGED group
  /\ UNCHANGED <<made, dists, grec, gop, heard, got>>

(* The application erases the sender's record to change keys (a member has *)
(* left): the library only loads and stores sender keys.                   *)
DropSenderKey ==
  /\ own.id # 0
  /\ own' = NoOwn
  /\ UNCHANGED <<made, dists, group, count, grec, gop, heard, got, gfaults>>

-----------------------------------------------------------------------------
(* The members                                                             *)

(* Mutant: a full record is not cut.                                       *)
AddStateUncut(record, d) == <<[id |-> d.id, iter |-> d.iter, mks |-> <<>>]>> \o record

(* sender_key_record_add_sender_key_state: prepend, whether or not the id  *)
(* is there already, and cut the tail.                                     *)
AddSenderKeyState(record, d) ==
  LET all == <<[id |-> d.id, iter |-> d.iter, mks |-> <<>>]>> \o record
  IN SubSeq(all, 1, IF Len(all) > MaxStates THEN MaxStates ELSE Len(all))

(* sender_key_record_get_sender_key_state_by_id: position of the first     *)
(* state with this id, 0 when there is none.                               *)
StateById(record, id) == SelectInSeq(record, LAMBDA s : s.id = id)

(* group_session_builder_process_session: callable from the decryption     *)
(* callback too.                                                           *)
ProcessSession(r, d) ==
  /\ Len(heard[r]) < MaxProcessed
  /\ grec' = [grec EXCEPT ![r] = AddSenderKeyState(@, d)]
  /\ heard' = [heard EXCEPT ![r] = <<d>> \o @]
  /\ UNCHANGED <<own, made, dists, group, count, gop, got, gfaults>>

(* What group_cipher_decrypt answers for a message now.                    *)
GroupAnswer(r, m) ==
  LET k == StateById(grec[r], m.id)
  IN IF k = 0 THEN Invalid ELSE Answer(grec[r][k].iter, grec[r][k].mks, m.iter)

(* group_cipher_decrypt up to the callback, on the record it has loaded.   *)
GroupDecrypt(r, m) ==
  LET k == StateById(grec[r], m.id)
      s == grec[r][k]
      after == [s EXCEPT !.iter = IndexAfter(s.iter, m.iter),
                         !.mks = KeysAfter(s.iter, s.mks, m.iter)]
  IN /\ ~gop[r].busy
     /\ GroupAnswer(r, m) = Success
     /\ gop' = [gop EXCEPT ![r] = [busy |-> TRUE, record |-> [grec[r] EXCEPT ![k] = after],
                                   past |-> heard[r], n |-> m.n]]
     /\ UNCHANGED <<own, made, dists, group, count, grec, heard, got, gfaults>>

(* The callback returned success and sender_key_store succeeded: the       *)
(* record loaded at the start replaces what is stored.                     *)
GroupStore(r) ==
  /\ gop[r].busy
  /\ grec' = [grec EXCEPT ![r] = gop[r].record]
  /\ heard' = [heard EXCEPT ![r] = gop[r].past]
  /\ got' = [got EXCEPT ![r][gop[r].n] = IF @ = 0 THEN 1 ELSE 2]
  /\ gop' = [gop EXCEPT ![r] = NoGroupOp]
  /\ UNCHANGED <<own, made, dists, group, count, gfaults>>

(* Mutant: the record is stored before the callback has its say.           *)
GroupAbortAfterStore(r) ==
  /\ gop[r].busy
  /\ gfaults < MaxGroupFaults
  /\ gfaults' = gfaults + 1
  /\ grec' = [grec EXCEPT ![r] = gop[r].record]
  /\ gop' = [gop EXCEPT ![r] = NoGroupOp]
  /\ UNCHANGED <<own, made, dists, group, count, heard, got>>

(* The callback or the store failed, or the process died.                  *)
GroupAbort(r) ==
  /\ gop[r].busy
  /\ gfaults < MaxGroupFaults
  /\ gfaults' = gfaults + 1
  /\ gop' = [gop EXCEPT ![r] = NoGroupOp]
  /\ UNCHANGED <<own, made, dists, group, count, grec, heard, got>>

GroupNext ==
  \/ CreateSession \/ GroupEncrypt \/ DropSenderKey
  \/ \E r \in Member :
       \/ \E d \in dists : ProcessSession(r, d)
       \/ \E m \in group : GroupDecrypt(r, m)
       \/ GroupStore(r) \/ GroupAbort(r)

GroupSpec == GroupInit /\ [][GroupNext]_groupVars

-----------------------------------------------------------------------------
(* Types, and the limits the code sets: MAX_STATES states in a record and  *)
(* MAX_MESSAGE_KEYS keys in each.                                          *)
GroupTypeOK ==
  /\ own \in [id : 0..MaxSenderKeys, iter : 0..MaxGroupMsgs]
  /\ dists \subseteq [id : 1..made, iter : 0..MaxGroupMsgs, at : 0..count]
  /\ group \subseteq [id : 1..made, iter : 0..MaxGroupMsgs, n : 1..count]
  /\ \A r \in Member :
       /\ Len(grec[r]) <= MaxStates
       /\ \A k \in 1..Len(grec[r]) : Len(grec[r][k].mks) <= MaxMessageKeys
       /\ got[r] \in [1..MaxGroupMsgs -> 0..2]

(* No two group messages are encrypted with the same key, over crashes and *)
(* changes of the sender key.                                              *)
GroupNoKeyReuse ==
  \A m, n \in group : m.id = n.id /\ m.iter = n.iter => m = n

(* The positions in a member's past of the announcements of a sender key.  *)
Announced(r, id) == {k \in 1..Len(heard[r]) : heard[r][k].id = id}

(* A member that processed one announcement of a sender key commits each   *)
(* of its messages at most once.  (A second announcement starts the chain  *)
(* again from where it points.)                                            *)
GroupAtMostOnce ==
  \A r \in Member, m \in group :
    Cardinality(Announced(r, m.id)) = 1 => got[r][m.n] <= 1

(* A member that joined late reads nothing encrypted before the            *)
(* announcement it was given was made: create_session exports the chain at *)
(* its current iteration, and a chain cannot be run backwards.             *)
NothingBeforeJoining ==
  \A r \in Member, m \in group :
    got[r][m.n] > 0 => \E k \in Announced(r, m.id) : heard[r][k].at < m.n

(* Once a message is committed, neither the member's record nor the        *)
(* sender's yields its key.                                                *)
GroupKeyErasure ==
  \A r \in Member, m \in group :
    got[r][m.n] > 0 =>
      /\ own.id = m.id => own.iter > m.iter
      /\ Cardinality(Announced(r, m.id)) = 1 =>
           \A k \in 1..Len(grec[r]) :
             grec[r][k].id = m.id =>
               grec[r][k].iter > m.iter /\ ~HasMessageKeys(grec[r][k].mks, m.iter)

(* Message m lies inside the window that group_cipher_get_sender_key keeps *)
(* around the iteration of state s: a key that was skipped is still among  *)
(* the newest MaxMessageKeys, a later one is not too far ahead.            *)
InWindow(s, m) == s.iter - m.iter <= MaxMessageKeys /\ m.iter - s.iter <= MaxFuture

(* A message that a member was told about and has not committed can be, as *)
(* long as it is in the window and fewer than MaxStates announcements came *)
(* after the one of its key: whatever the member received before, and      *)
(* after any failed or crashed call.                                       *)
GroupDeliverable ==
  \A r \in Member, m \in group :
    \A k \in Announced(r, m.id) :
      /\ Announced(r, m.id) = {k}
      /\ k <= MaxStates
      /\ heard[r][k].iter <= m.iter
      /\ got[r][m.n] = 0
      /\ InWindow(grec[r][StateById(grec[r], m.id)], m)
      => GroupAnswer(r, m) = Success
=============================================================================
