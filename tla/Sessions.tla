------------------------------ MODULE Sessions ------------------------------
(***************************************************************************)
(* Two parties that hold sessions with each other through session_builder  *)
(* and session_cipher, the stores they keep them in, a server that hands   *)
(* out pre-key bundles, and a network that may lose, delay, reorder and    *)
(* repeat messages.                                                        *)
(*                                                                         *)
(* Each public function takes the context lock, so a call is atomic except *)
(* where it hands control or durable state to the application: a decrypt   *)
(* call is three steps, up to the decryption callback (Decrypt...), the    *)
(* callback's return and session_store (StoreSession), and                 *)
(* pre_key_remove (RemovePreKey).  A failure or a crash may come between   *)
(* them.  A call that changes nothing (an error before any store) is a     *)
(* stuttering step.                                                        *)
(***************************************************************************)
EXTENDS SessionCipher, FiniteSets

CONSTANTS
  Party,          \* the two parties
  NumOneTime,     \* one-time pre keys each installation generates
  LastResort,     \* id of the last-resort pre key (PRE_KEY_MEDIUM_MAX_VALUE), 0: none
  MaxMsgs,        \* bounds: encryptions,
  MaxBundles,     \*   bundles processed,
  MaxKeys,        \*   ephemeral key pairs each party generates,
  MaxFaults,      \*   failed or crashed calls,
  MaxResets       \*   deleted sessions and reinstallations

ASSUME SessionBounds ==
  /\ IsFiniteSet(Party) /\ Cardinality(Party) = 2
  /\ {NumOneTime, LastResort, MaxMsgs, MaxBundles, MaxKeys, MaxFaults, MaxResets} \subseteq Nat
  /\ LastResort \notin 1..NumOneTime

VARIABLES
  rec,        \* rec[p]: the session record p has stored for its peer
  opks,       \* opks[p]: ids of the pre keys in p's store
  trusted,    \* trusted[p]: the identity key p has saved for its peer
  gen,        \* gen[p]: the current installation of p
  server,     \* server[p]: ids of p's pre keys not handed out yet
  op,         \* op[p]: the decrypt call of p that is under way
  nk,         \* nk[p]: ephemeral key pairs p has generated
  sent,       \* the messages ever released to the network
  used,       \* messages encrypted, released or not
  accepted,   \* history: accepted[id], how often it was committed (2: more than once)
  leaked,     \* history: pre keys whose removal failed
  bundles, faults, resets      \* how much of the bounds is used

vars == <<rec, opks, trusted, gen, server, op, nk, sent, used, accepted, leaked,
          bundles, faults, resets>>

-----------------------------------------------------------------------------
Peer(p) == CHOOSE q \in Party : q # p

Identity(p) == Key("identity", p, gen[p], 0)
Signed(p) == Key("signed", p, gen[p], 0)
OneTime(p, i) == IF i = 0 THEN NoKey ELSE Key("onetime", p, gen[p], i)
Ephemeral(p, n) == Key("ephemeral", p, 0, n)

PreKeyIds == (1..NumOneTime \union {LastResort}) \ {0}

(* identity_key_store.is_trusted_identity: trust on first use.             *)
Trusts(p, identity) == trusted[p] \in {NoKey, identity}

NoOp == [stage |-> "idle", record |-> FreshRecord, id |-> 0, remove |-> 0]

Init ==
  /\ rec = [p \in Party |-> FreshRecord]
  /\ opks = [p \in Party |-> PreKeyIds]
  /\ trusted = [p \in Party |-> NoKey]
  /\ gen = [p \in Party |-> 1]
  /\ server = [p \in Party |-> 1..NumOneTime]
  /\ op = [p \in Party |-> NoOp]
  /\ nk = [p \in Party |-> 0]
  /\ sent = {}
  /\ used = 0
  /\ accepted = [i \in 1..MaxMsgs |-> 0]
  /\ leaked = {}
  /\ bundles = 0 /\ faults = 0 /\ resets = 0

-----------------------------------------------------------------------------
(* Building a session from the peer's bundle                               *)

(* The server gives each one-time pre key out once, then the last-resort   *)
(* key or none.                                                            *)
Bundles(q) == IF server[q] # {} THEN server[q] ELSE {0, LastResort}

(* The record session_builder_process_pre_key_bundle stores.               *)
BundleRecord(p, i) ==
  [ArchiveCurrentState(rec[p]) EXCEPT
     !.cur = AliceState(Identity(p), Ephemeral(p, nk[p] + 1), Ephemeral(p, nk[p] + 2),
                        Identity(Peer(p)), Signed(Peer(p)), OneTime(Peer(p), i), i)]

(* session_builder_process_pre_key_bundle with the bundle just fetched.    *)
(* The builder has no inside_callback check: the decryption callback may   *)
(* call it.  The record is stored before the identity is saved, and saving *)
(* the identity may fail.                                                  *)
ProcessPreKeyBundle(p, i) ==
  /\ op[p].stage \in {"idle", "callback"}
  /\ bundles < MaxBundles /\ nk[p] + 2 <= MaxKeys
  /\ Trusts(p, Identity(Peer(p)))
  /\ rec' = [rec EXCEPT ![p] = BundleRecord(p, i)]
  /\ nk' = [nk EXCEPT ![p] = @ + 2]
  /\ server' = [server EXCEPT ![Peer(p)] = @ \ {i}]
  /\ bundles' = bundles + 1
  /\ \/ /\ trusted' = [trusted EXCEPT ![p] = Identity(Peer(p))]
        /\ UNCHANGED faults
     \/ /\ faults < MaxFaults
        /\ faults' = faults + 1
        /\ UNCHANGED trusted
  /\ UNCHANGED <<opks, gen, op, sent, used, accepted, leaked, resets>>

-----------------------------------------------------------------------------
(* Encryption                                                              *)

(* The message the sender chain of state s gives next; a pending pre key   *)
(* makes it a pre-key message.                                             *)
MessageOf(p, s) ==
  [to |-> Peer(p), id |-> used + 1, base |-> s.pending.base, oneTime |-> s.pending.oneTime,
   from |-> s.local, remote |-> s.remote,
   ratchet |-> s.ratchet, counter |-> s.index, chain |-> s.chain]

(* Mutant: encryption is allowed inside the decryption callback.           *)
EncryptAnytime(p) ==
  /\ op[p].stage \in {"idle", "callback"}
  /\ used < MaxMsgs
  /\ HasSenderChain(rec[p].cur)
  /\ rec' = [rec EXCEPT ![p].cur.index = @ + 1]
  /\ used' = used + 1
  /\ sent' = sent \union {MessageOf(p, rec[p].cur)}
  /\ UNCHANGED faults
  /\ UNCHANGED <<opks, trusted, gen, server, op, nk, accepted, leaked, bundles, resets>>

(* session_cipher_encrypt: refused inside the callback; the advanced chain *)
(* is stored, then the message is released.  A crash may come in between.  *)
Encrypt(p) ==
  /\ op[p].stage = "idle"
  /\ used < MaxMsgs
  /\ HasSenderChain(rec[p].cur)
  /\ rec' = [rec EXCEPT ![p].cur.index = @ + 1]
  /\ used' = used + 1
  /\ \/ /\ sent' = sent \union {MessageOf(p, rec[p].cur)}
        /\ UNCHANGED faults
     \/ /\ faults < MaxFaults
        /\ faults' = faults + 1
        /\ UNCHANGED sent
  /\ UNCHANGED <<opks, trusted, gen, server, op, nk, accepted, leaked, bundles, resets>>

-----------------------------------------------------------------------------
(* Decryption, up to the callback                                          *)

(* session_builder_process_pre_key_signal_message: when it goes through,   *)
(* the record it leaves, and the id of the pre key to remove in the end    *)
(* (0: none, the session was known or the last-resort key was used).       *)
BuilderAccepts(p, m) ==
  /\ Trusts(p, m.from)
  /\ HasSessionState(rec[p], m.base) \/ m.oneTime \in opks[p] \union {0}

BuiltRecord(p, m) ==
  IF HasSessionState(rec[p], m.base) THEN rec[p]
  ELSE [ArchiveCurrentState(rec[p]) EXCEPT
          !.cur = BobState(Identity(p), Signed(p), OneTime(p, m.oneTime), m.from, m.base)]

(* Mutant: the test for a known session is the wrong way round.            *)
ToRemoveWhenKnown(p, m) ==
  IF HasSessionState(rec[p], m.base) THEN m.oneTime ELSE 0

ToRemove(p, m) ==
  IF HasSessionState(rec[p], m.base) \/ m.oneTime = LastResort THEN 0 ELSE m.oneTime

NewKey(p) == Ephemeral(p, nk[p] + 1)

(* The ratchet key pair is only used up when the ratchet turned.           *)
KeysAfterDecrypt(p, record) ==
  [nk EXCEPT ![p] = IF record.cur.ratchet = NewKey(p) THEN @ + 1 ELSE @]

(* session_cipher_decrypt_pre_key_signal_message up to the callback.  The  *)
(* identity is saved by the builder, before the message is decrypted.      *)
DecryptPreKeySignalMessage(p, m) ==
  /\ op[p].stage = "idle"
  /\ m.to = p /\ m.base # NoKey
  /\ nk[p] < MaxKeys
  /\ BuilderAccepts(p, m)
  /\ LET d == DecryptFromRecord(BuiltRecord(p, m), m, NewKey(p))
     IN \/ /\ d.code = Success
           /\ op' = [op EXCEPT ![p] = [stage |-> "callback", record |-> d.record,
                                       id |-> m.id, remove |-> ToRemove(p, m)]]
           /\ nk' = KeysAfterDecrypt(p, d.record)
        \/ /\ d.code # Success
           /\ UNCHANGED <<op, nk>>
  /\ trusted' = [trusted EXCEPT ![p] = m.from]
  /\ UNCHANGED <<rec, opks, gen, server, sent, used, accepted, leaked,
                 bundles, faults, resets>>

(* session_cipher_decrypt_signal_message up to the callback: there has to  *)
(* be a session.                                                           *)
DecryptSignalMessage(p, m) ==
  /\ op[p].stage = "idle"
  /\ m.to = p /\ m.base = NoKey
  /\ nk[p] < MaxKeys
  /\ rec[p] # FreshRecord
  /\ LET d == DecryptFromRecord(rec[p], m, NewKey(p))
     IN /\ d.code = Success
        /\ op' = [op EXCEPT ![p] = [stage |-> "callback", record |-> d.record,
                                    id |-> m.id, remove |-> 0]]
        /\ nk' = KeysAfterDecrypt(p, d.record)
  /\ UNCHANGED <<rec, opks, trusted, gen, server, sent, used, accepted, leaked,
                 bundles, faults, resets>>

-----------------------------------------------------------------------------
(* Decryption, from the callback's return                                  *)

(* Mutant: the pre key is forgotten about.                                 *)
StoreSessionOnly(p) ==
  /\ op[p].stage = "callback"
  /\ rec' = [rec EXCEPT ![p] = op[p].record]
  /\ accepted' = [accepted EXCEPT ![op[p].id] = IF @ = 0 THEN 1 ELSE 2]
  /\ op' = [op EXCEPT ![p] = NoOp]
  /\ UNCHANGED <<opks, trusted, gen, server, nk, sent, used, leaked, bundles, faults, resets>>

(* The callback returned success and session_store succeeded.              *)
StoreSession(p) ==
  /\ op[p].stage = "callback"
  /\ rec' = [rec EXCEPT ![p] = op[p].record]
  /\ accepted' = [accepted EXCEPT ![op[p].id] = IF @ = 0 THEN 1 ELSE 2]
  /\ op' = [op EXCEPT ![p] = IF op[p].remove = 0 THEN NoOp ELSE [@ EXCEPT !.stage = "remove"]]
  /\ UNCHANGED <<opks, trusted, gen, server, nk, sent, used, leaked, bundles, faults, resets>>

(* Mutant: the session is stored before the callback has its say.          *)
AbortAfterStore(p) ==
  /\ op[p].stage = "callback"
  /\ faults < MaxFaults
  /\ faults' = faults + 1
  /\ rec' = [rec EXCEPT ![p] = op[p].record]
  /\ op' = [op EXCEPT ![p] = NoOp]
  /\ UNCHANGED <<opks, trusted, gen, server, nk, sent, used, accepted, leaked,
                 bundles, resets>>

(* The callback or session_store failed, or the process died before the    *)
(* store: nothing is kept of the call but the saved identity.              *)
AbortDecrypt(p) ==
  /\ op[p].stage = "callback"
  /\ faults < MaxFaults
  /\ faults' = faults + 1
  /\ op' = [op EXCEPT ![p] = NoOp]
  /\ UNCHANGED <<rec, opks, trusted, gen, server, nk, sent, used, accepted, leaked,
                 bundles, resets>>

(* signal_protocol_pre_key_remove_key succeeds, or it fails or the process *)
(* dies first: the session is stored and the pre key stays.                *)
RemovePreKey(p) ==
  /\ op[p].stage = "remove"
  /\ \/ /\ opks' = [opks EXCEPT ![p] = @ \ {op[p].remove}]
        /\ UNCHANGED <<leaked, faults>>
     \/ /\ faults < MaxFaults
        /\ faults' = faults + 1
        /\ leaked' = leaked \union {OneTime(p, op[p].remove)}
        /\ UNCHANGED opks
  /\ op' = [op EXCEPT ![p] = NoOp]
  /\ UNCHANGED <<rec, trusted, gen, server, nk, sent, used, accepted, bundles, resets>>

-----------------------------------------------------------------------------
(* The application                                                         *)

(* signal_protocol_session_delete_session: takes no lock, so it may run    *)
(* between the steps of a decrypt call.                                    *)
DeleteSession(p) ==
  /\ resets < MaxResets
  /\ rec[p] # FreshRecord
  /\ resets' = resets + 1
  /\ rec' = [rec EXCEPT ![p] = FreshRecord]
  /\ UNCHANGED <<opks, trusted, gen, server, op, nk, sent, used, accepted, leaked,
                 bundles, faults>>

(* A new installation: new identity and pre keys, empty stores.            *)
Reinstall(p) ==
  /\ resets < MaxResets
  /\ resets' = resets + 1
  /\ gen' = [gen EXCEPT ![p] = @ + 1]
  /\ rec' = [rec EXCEPT ![p] = FreshRecord]
  /\ opks' = [opks EXCEPT ![p] = PreKeyIds]
  /\ server' = [server EXCEPT ![p] = 1..NumOneTime]
  /\ trusted' = [trusted EXCEPT ![p] = NoKey]
  /\ op' = [op EXCEPT ![p] = NoOp]
  /\ UNCHANGED <<nk, sent, used, accepted, leaked, bundles, faults>>

(* The user approves the peer's new identity key.                          *)
TrustIdentity(p) ==
  /\ trusted[p] # NoKey
  /\ trusted' = [trusted EXCEPT ![p] = Identity(Peer(p))]
  /\ UNCHANGED <<rec, opks, gen, server, op, nk, sent, used, accepted, leaked,
                 bundles, faults, resets>>

Call(p) ==
  \/ \E i \in Bundles(Peer(p)) : ProcessPreKeyBundle(p, i)
  \/ Encrypt(p)
  \/ \E m \in sent : DecryptPreKeySignalMessage(p, m) \/ DecryptSignalMessage(p, m)
  \/ StoreSession(p) \/ AbortDecrypt(p) \/ RemovePreKey(p)

Application(p) == DeleteSession(p) \/ Reinstall(p) \/ TrustIdentity(p)

Next == \E p \in Party : Call(p) \/ Application(p)

Spec == Init /\ [][Next]_vars

(* What a decrypt call would answer for m now.                             *)
Decryptable(p, m) ==
  IF m.base = NoKey
  THEN rec[p] # FreshRecord /\ DecryptFromRecord(rec[p], m, NewKey(p)).code = Success
  ELSE /\ BuilderAccepts(p, m)
       /\ DecryptFromRecord(BuiltRecord(p, m), m, NewKey(p)).code = Success

CanDecrypt(p) ==
  /\ op[p].stage = "idle" /\ nk[p] < MaxKeys
  /\ \E m \in sent : m.to = p /\ Decryptable(p, m)

Decrypt(p) ==
  \E m \in sent : DecryptPreKeySignalMessage(p, m) \/ DecryptSignalMessage(p, m)

(* A call that has begun is run to its end, and an application that holds  *)
(* a message it can decrypt goes on giving messages to the cipher.  The    *)
(* second part is weak fairness of Decrypt(p) with its enabling condition  *)
(* written out: TLC evaluates ENABLED of so deep a definition too slowly.  *)
Fairness ==
  \A p \in Party :
    /\ WF_vars(StoreSession(p) \/ RemovePreKey(p))
    /\ []<>~CanDecrypt(p) \/ []<><<Decrypt(p)>>_vars

FairSpec == Spec /\ Fairness

-----------------------------------------------------------------------------
(* Every record stays inside the limits the code sets: five receiver       *)
(* chains, 2000 message keys per chain, 40 archived states.                *)
TypeOK ==
  /\ \A p \in Party :
       /\ opks[p] \subseteq PreKeyIds
       /\ server[p] \subseteq 1..NumOneTime
       /\ gen[p] \in 1..(1 + MaxResets)
       /\ nk[p] \in 0..MaxKeys
       /\ op[p].stage \in {"idle", "callback", "remove"}
       /\ Len(rec[p].prev) <= MaxArchivedStates
       /\ \A s \in States(rec[p]) :
            /\ Len(s.recv) <= MaxReceiverChains
            /\ \A k \in 1..Len(s.recv) : Len(s.recv[k].mks) <= MaxMessageKeys
  /\ \A m \in sent : m.id \in 1..used
  /\ accepted \in [1..MaxMsgs -> 0..2]

(* No two messages are ever encrypted with the same message key, although  *)
(* the record that holds the sender chain is also rewritten by decryptions *)
(* and by the builder, with an application callback in between.            *)
NoMessageKeyReuse ==
  \A m, n \in sent : m.chain = n.chain /\ m.counter = n.counter => m = n

(* The agreement with a one-time pre key that a session began with: the    *)
(* fourth one.                                                             *)
OneTimeAgreement(m) == IF Len(m.chain[1]) = 4 THEN m.chain[1][4] ELSE {}

(* A session whose first message the receiver could set up once more: no   *)
(* pre key was consumed by it for good.                                    *)
Renewable(m) ==
  \/ OneTimeAgreement(m) = {}
  \/ OneTimeAgreement(m) \intersect leaked # {}
  \/ \E k \in OneTimeAgreement(m) : k[1] = "onetime" /\ k[4] = LastResort

(* A message is committed at most once, however often it arrives, across   *)
(* archived sessions, deleted sessions and crashed calls, as long as its   *)
(* session consumed a one-time pre key.                                    *)
AtMostOnce == \A m \in sent : accepted[m.id] > 1 => Renewable(m)

(* The key of message m can be computed from what a state holds: a stored  *)
(* key, a chain that is not past it, or the root key one step before.      *)
Computes(s, m) ==
  \/ s.chain = m.chain /\ s.index <= m.counter
  \/ s.ratchet # NoKey /\ CreateChain(s.root, m.ratchet, s.ratchet) = m.chain
  \/ \E k \in 1..Len(s.recv) :
       /\ s.recv[k].chain = m.chain
       /\ s.recv[k].index <= m.counter \/ HasMessageKeys(s.recv[k].mks, m.counter)

(* Forward secrecy: once a message is committed, neither party's stored    *)
(* record, current or archived, still yields its key.                      *)
KeyErasure ==
  \A m \in sent : accepted[m.id] > 0 /\ ~Renewable(m) =>
    \A p \in Party : \A s \in States(rec[p]) : ~Computes(s, m)

(* State t has seen the ratchet key s sends with and turned once more, so  *)
(* that its root key is one agreement ahead.                               *)
OneTurnAhead(t, s) == t.root = CreateChain(s.root, s.ratchet, t.ratchet)

(* As long as no session is deleted or pushed out of the archive, the two  *)
(* ends of a session are exactly one turn of the ratchet apart, by the     *)
(* ratchet keys both hold now: lost, late and repeated messages, failed    *)
(* calls and evicted chains never let get_or_create_chain_key drive them   *)
(* further apart.                                                          *)
RatchetsInStep ==
  \A p \in Party : \A s \in States(rec[p]), t \in States(rec[Peer(p)]) :
    s.base # NoKey /\ s.base = t.base => OneTurnAhead(s, t) \/ OneTurnAhead(t, s)

(* Once a message of a session is committed, the one-time pre key of the   *)
(* session is out of its owner's store, unless removing it failed, or is   *)
(* the next step of the call.                                              *)
SpentPreKeyRemoved ==
  \A m \in sent : accepted[m.id] > 0 =>
    \A p \in Party : \A i \in opks[p] :
      OneTime(p, i) \in OneTimeAgreement(m) =>
        Renewable(m) \/ (op[p].stage = "remove" /\ op[p].remove = i)

(* With no session deleted and inside the limits, a message that was not   *)
(* committed yet can be, whatever was received before it, whoever else has *)
(* begun a session meanwhile, and after any failed or crashed call.        *)
Deliverable ==
  \A p \in Party, m \in sent :
    m.to = p /\ accepted[m.id] = 0 /\ op[p].stage = "idle" => Decryptable(p, m)

(* The pair of sessions implements a channel that delivers each plaintext  *)
(* once.                                                                   *)
Channel == INSTANCE SecureChannel WITH
  Ids <- 1..MaxMsgs, outbox <- {m.id : m \in sent}, got <- accepted

IsChannel == Channel!ChannelSpec

(* Under Fairness every released message is committed in the end.          *)
EventuallyDelivered == Channel!AllDelivered

=============================================================================
