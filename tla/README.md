# A TLA+ verification of libsignal-protocol-c and pppd, as kept in wolfSSL's `osp`

The repository collects wolfSSL ports of open-source projects. Most directories
hold patches against programs that are not here, or vendored copies of servers
whose local change is TLS glue. Two complete programs consist of protocol logic
that a model can carry, and this project models them:

* `libsignal-protocol-c`: the Signal protocol in C, with its tests;
* `pppd` (`ppp/ppp-2.4.5+eaptls-mppe-0.992/pppd`): the PPP daemon, its option
  negotiation automaton, LCP, CHAP and the phases of a link.

The two share nothing; they are two groups of modules side by side.

## 1. The system

### Components, their state and their operations

| Component | Source (`libsignal-protocol-c/src`) | State | Operations |
|---|---|---|---|
| Receiver chain, message keys | `session_cipher.c`, `session_state.c` | chain index, list of skipped message keys | derive, store, take, evict a key |
| Session state, session record | `session_state.c`, `session_record.c` | sender chain, at most 5 receiver chains, root key, pending pre key; a current state and at most 40 archived ones | add chain, archive, promote, look up by base key |
| Ratchet | `ratchet.c`, `curve.c`, `hkdf.c` | none | key agreement, root and chain derivation, initialization of both sides |
| Session builder | `session_builder.c` | in the stores | process a pre-key bundle, process a pre-key message |
| Session cipher | `session_cipher.c` | `inside_callback`; the rest in the stores | encrypt, decrypt both kinds of message, decryption callback |
| Stores, context | `signal_protocol.c` | callbacks of the application: sessions, pre keys, signed pre keys, identities, sender keys; a recursive lock | load, store, remove, is-trusted |
| Group messaging | `group_cipher.c`, `group_session_builder.c`, `sender_key*.c` | a record of at most 5 sender key states, each with a chain and skipped keys | create and process a distribution message, encrypt, decrypt |
| Message formats | `protocol.c` | none | encode, parse, compute and verify MAC and signature |
| Key helper, pre-key records | `key_helper.c`, `session_pre_key.c` | none | generate keys, allocate pre-key ids |
| Fingerprints, device consistency | `fingerprint.c`, `device_consistency.c` | none | numeric and scannable fingerprints, device commitments |

and, of `pppd`:

| Component | Source (`pppd/`) | State | Operations |
|---|---|---|---|
| Option negotiation automaton | `fsm.c` | ten states, ids, retry counters, one callout | open, close, lowerup, lowerdown, timeout, every packet code, protocol reject |
| LCP | `lcp.c` | wanted, allowed, asked and accepted options; echo timer; `DELAYED_UP` | the option callbacks of the automaton, echo, protocol rejects, delayed start |
| Phases and authentication control | `auth.c` | `phase`, `auth_pending`, counts of open and up network protocols, limits | link established, down, terminated; verdicts; network phase |
| CHAP | `chap-new.c` | flags of the server and of the client, challenge, transmissions, one callout | challenge, response, verdict, rechallenge |
| Main loop | `main.c` | the callout list, `hungup`, signals | read a packet, fire callouts, signals, redial |
| IPCP and the other network protocols | `ipcp.c`, `ipv6cp.c`, `ccp.c`, `ecp.c` | automata of their own | the same automaton with other options |
| PAP, EAP, EAP-TLS | `upap.c`, `eap.c`, `eap-tls.c` | automata of their own | alternatives to CHAP |

The builder and the cipher load a session record from the store, change it in
memory and store it. Every public call takes the context lock, so calls of two
threads do not interleave. The application is entered while a call is half
done: in the decryption callback, and in each store operation. Stores are
durable and separate, so a crash or an error can fall between two of them.

`pppd` has one thread: a packet, a callout or a signal is handled to its end
before the next. A handler of the automaton calls up into LCP (`up`, `down`,
`finished`), which calls `auth.c`, which opens and closes CHAP and IPCP and may
close LCP again from inside. The callout list, the phase and the flags of each
protocol are the shared state; the peer runs the same program at the other end
of a line that keeps order and loses packets.

### What is hard

* Messages are lost, repeated and reordered by the network; keys of skipped
  messages are kept, in bounded lists that evict.
* Both parties may begin sessions at once, again, or after a reinstallation; a
  message may belong to an archived session.
* The callback runs between the load and the store of a record. Encryption and
  decryption refuse to run in it, the builders do not.
* A decrypt call saves the identity, stores the session and removes the
  one-time pre key, in that order, and may stop after any of these.

* In `pppd` every handler sets and cancels its callouts by hand, every way out
  of an open link has to undo the same things, a packet may come in any state,
  requests and answers of the two ends cross and get lost, and what is left of
  one link (a flag, a callout) meets the next, since the daemon redials.

`PROJECT.json` lists these hazards line by line.

### What makes the components correct

* Receiver chain: a message is accepted once; a skipped message stays acceptable
  inside the window; a used key is gone.
* Sessions: no message key encrypts twice; a message is committed once; both
  ratchets agree; keys of committed messages cannot be computed from what is
  stored; nothing is lost inside the limits; what can be delivered is.
* Groups: the same, and a member reads nothing older than its announcement.
* Pre keys: ids wrap around without ever meeting the last-resort key, and are
  repeated as late as possible.
* Automaton: a callout is pending exactly in the states that wait; the layer is
  reported up exactly while it is open; a close ends.
* Daemon: no network protocol without the authentication required, on this
  link, but for the addresses allow-ip opens to all; phases, callouts and flags agree; a dead link leaves nothing behind.
* Link: the two ends agree on what they negotiated, nobody waits for ever, and
  after finitely many losses the link is up.

## 2. Modules

| Module | Models |
|---|---|
| `MessageKeys` | the skipped-key list and the rule of `session_cipher_get_or_create_message_keys`, as operators |
| `ReceiverChain` | one receiver chain; an arrival is one atomic step |
| `ReceiverLoop` | the same with the derivation loop written out, one key at a time on a working copy, any iteration of which may fail; implements `ReceiverChain` |
| `MessageKeys_proofs`, `ReceiverLoop_proofs` | theorems about these three |
| `Ratchet` | keys and derivations, symbolically |
| `SessionRecord` | session state and session record as values |
| `SessionCipher` | what the builder and the cipher compute from a record and a message |
| `Sessions` | two parties, their stores, the server, the network, failures and crashes |
| `SecureChannel` | the abstract specification `Sessions` implements |
| `Sessions_proofs` | the invariant of the sessions, what follows from it, the refinement, the two ends in step, and that every message can be delivered |
| `GroupSessions` | a sender, a member and sender keys |
| `GroupSessions_proofs` | the same for groups |
| `MCSessions`, `MCGroup` | the sets TLC needs |
| `PreKeyPool` | the pre-key ids of `key_helper.c`, the store under these ids, handing out and use of keys |
| `PreKeyPool_proofs` | the last-resort key is safe, offered keys are stored, ids repeat late |
| `LcpOptions` | the authentication option in `lcp_addci`, `ackci`, `nakci`, `rejci`, `reqci`, as operators |
| `Fsm` | every function of `fsm.c`, as an operator on the automaton's record |
| `FsmEnv` | one automaton against any peer, user and lower layer |
| `Layer` | the abstract specification `FsmEnv` implements |
| `FsmEnv_proofs` | theorems about these |
| `Pppd` | LCP, phases, CHAP, echo and main loop of one daemon, as operators over `Fsm` |
| `PppdEnv` | one daemon against any peer and user, over several links |
| `PppdEnv_proofs` | the invariant of the daemon and what follows from it |
| `PppLink` | two daemons at the ends of a lossy line |
| `PppLink_proofs` | the invariant of the line; the two ends agree |

Operators whose comment begins with "Mutant" are plausible bugs, kept beside the
definition they corrupt; no specification uses them.

### How the models correspond to the code

**Keys are symbols.** A key pair is named by kind, owner, installation and
number. A key agreement is the set of its two key pairs, which is what makes
both sides compute the same value. A root key and the chain key derived with it
are named by the sequence of agreements that went into them. A message carries
the chain name and counter its MAC was computed with, so `VerifyMac` succeeds
exactly when both sides derived the same keys and have the same identities in
mind. Encryption itself needs nothing more.

**A call is one step**, except for `session_cipher_decrypt_*`: `Decrypt...` runs
up to the callback, `StoreSession` is the callback's success and the store, and
`RemovePreKey` takes the one-time pre key out. In between `AbortDecrypt` (error
or crash), the failing branch of `RemovePreKey`, `ProcessPreKeyBundle` (in the
callback) and `DeleteSession` (takes no lock) may happen. `op[p]` is the call
under way with the record it has loaded and changed. `Encrypt` and
`ProcessPreKeyBundle` have a failing branch each: the crash after the store, and
the identity that could not be saved. A call that returns an error before it has
stored anything changes nothing and is a stuttering step. One call fails and
still has an effect: a pre-key message that the builder takes and the cipher
cannot decrypt leaves the identity saved.

**The network** is the set of messages ever released: any of them may be
delivered at any time, again, or never.

**The record** is `FreshRecord` when nothing is stored. No code path stores a
record whose current state has no sender chain, so the two do not get mixed up.

**Trust** is the rule the repository's test store uses: the first identity is
trusted, then only that one, until the user approves another.

**Group messaging** has the same shape with one store. `heard` records the
announcements that shaped a member's record; a decrypt call puts both back to
what they were when it began, which is how the model shows that an announcement
processed inside the callback is lost.

Left out of a session state: the protocol version (there is one), registration
ids, the previous counter (sent, never read) and the pending key exchange (set
by no caller). Corrupted messages are in `ReceiverChain` only. The signed pre
key is not rotated, and bundles are genuine and up to date.

**`PreKeyPool`** numbers the keys in the order they were made. `Word` is the
modulus of the unsigned arithmetic (2^32 in the code), `MediumMax` is
`PRE_KEY_MEDIUM_MAX_VALUE`. The application stores and uploads a batch, perhaps
not all of it, and begins the next after the last key it has.

**`Fsm`** has one operator per function of `fsm.c`, from the automaton's record
to the record after the call. Packets sent are appended to `out`. A callout is a
count, so that one set twice, or left behind, can be seen; `Untimeout` takes one
away. `up` counts calls of the up callback less those of the down callback, and
`finished` says that the finished callback was called. The callbacks of LCP on
options are called where the code calls them (`LcpOptions`).

**`Pppd`** runs the callbacks when the automaton's handler has returned
(`Lowered`, `Ended`, `Settle`): the code calls `up` and `finished` when the new
state is set, as the last thing but for a reset of `nakloops`, and after `down` it
only sends requests and sets the state, which the down callback of LCP neither
reads nor changes. A callback that closes LCP again does so on the state the
handler has left. CHAP has its two state words as sets of flags. IPCP is reduced
to its outcome (open, up, down, finished). `dice` is what `drand48` returns, for
the id of a first challenge. `proven` is a history variable: a right response
came in since LCP was last opened. `noauth` is the option allow-ip
(`noauth_addrs`), and `addrs` says where the addresses the peer may use come from
(`set_allowed_addrs`): from nowhere yet, from allow-ip alone, or from the secret
looked up for a response, which is what remains of the secrets file.
`lcp_lowerup` may fail (`LcpLowerup`): the code returns without an error, and LCP
stays in STARTING.

**`PppdEnv`** gives the daemon a peer that sends any packet at any time, and lets
connecting and configuring the device fail. `killed` remembers when the signal
came: while lcp_delayed_up was pending, after a configuration that failed, or
with the lower layer up. **`PppLink`** joins two daemons without allow-ip, whose
device can be configured: what one
sends is queued for the other, in order, up to `MaxLine` packets, while the other
is there; `MaxLosses` packets may be lost. The two ends are in the same call: one
dials when the other is free, the other answers, and the carrier drops when one
end has left the call.

## 3. Runs

| Run | Shows | Bounds |
|---|---|---|
| `receiver_loop` | once, window, duplicate, erasure, the loop invariant and `Refinement` | 6 counters, 2 stored keys, 3 ahead: eviction, refusal and every order occur |
| `sessions_safety` | limits, at most once, erasure, spent pre keys | 3 messages, 3 bundles, limits of 1, one fault, one reset: an archived state and a receiver chain are evicted, pre-key messages are replayed after deletion |
| `sessions_delivery` | `Deliverable`, no key reuse, `RatchetsInStep`, `IsChannel`, `EventuallyDelivered` | 4 messages, 2 sessions, by one party or crossing, limits out of reach, one fault, a last-resort pre key |
| `group_safety` | the group counterparts, `GroupDeliverable` included | 3 messages, 2 sender keys, 3 announcements, 2 states, 1 skipped key, one fault |
| `prekey_pool` | last-resort key, late repetition, offered keys are stored | ids 1 to 5, batches of 1, 3 and 5, 8 keys: more than one turn of the ids, batches that cross the wrap |
| `fsm` | timers, callbacks, status, `ImplementsLayer`, `LeavingEnds` | 3 ids, retry limits of 2, two options to fall back between, with and without the restart, passive and silent flags |
| `pppd_safety` | authentication before networks, phases, callouts, dead links, `LateKillCompletes` | 2 ids, retry limits of 1, with and without authentication, passive and silent, or allow-ip, or neither, echo, limits, rechallenge and listen_time on; any number of links (317,278 states) |
| `link_safety` | `Agreement` | one call, one loss, 2 packets per direction, one-sided and mutual CHAP with options that differ, kills, echo |
| `link_rechallenge` | `NobodyWaits`, `LinkComesUp` | two losses anywhere, three calls, chap-interval set, one-sided and mutual CHAP |
| `duplicate_doc`, `pppd_kill_doc`, `pppd_proof_doc` | *violated*: see Findings | as `receiver_loop` and `pppd_safety` |

The two parties are interchangeable, and `PartySymmetry` is used in
`sessions_safety`; `sessions_delivery` checks liveness and cannot. Members of a group share nothing but what the sender
published, so one is enough. The session and group runs stop when the bounds on
messages and calls are used up, and so do the pre-key run (keys) and the link
runs (calls): these do not check for deadlock. `receiver_loop`, `fsm` and
`pppd_safety` do.

`AtMostOnce`, `KeyErasure` and `SpentPreKeyRemoved` speak of sessions that used
up a one-time pre key. A session without one, with the last-resort key, or whose
key could not be removed may be set up again by its first message once it has
left the archive (`Renewable`); the protocol has nothing else to tell a repeated
first message by. `GroupAtMostOnce` likewise speaks of a member that processed
one announcement of the key.

**Fairness.** `sessions_delivery` assumes that a call that has begun is run to
its end (`WF` of `StoreSession` and `RemovePreKey`: straight-line code under a
lock), and that an application that can decrypt something goes on giving
messages to the cipher. The second is weak fairness of `Decrypt(p)`, with the
enabling condition written as the predicate `CanDecrypt`: it is for the
application to fulfil, the library has no queue. Faults are bounded.

In `fsm` and `pppd_safety` the only fairness is that callouts fire (`WF` of
`EnvTimeout`, of `FsmTimer` and `DelayTimer`): `calltimeout` runs every callout
that is due on each turn of the main loop. Nothing is assumed of the peer. In
`link_rechallenge` packets that have arrived are read, carrier loss is noticed,
free ends dial and IPCP comes to its outcome (`WF`), and callouts fire (`SF`,
since `Ready` may come and go). The guards stand for `ENABLED`, as above. `Patient`
there says that the line is faster than the timers (three seconds against a
round trip): without it two ends may time out in step for ever, which the code
does not prevent. Losses are bounded.

### Findings

`session_cipher.h` says of both decrypt functions that
`SG_ERR_DUPLICATE_MESSAGE` is returned "if the input is a message that has
already been received". The code returns it for every counter behind the chain
without a stored key, so also for a message that arrives for the first time
after `MAX_MESSAGE_KEYS` newer keys have pushed its own out. `duplicate_doc`
gives the short example. What does hold is `DuplicateIsOld`, which is proved.

`pppd.8` says that `SIGINT`, `SIGTERM` and `SIGHUP` "cause pppd to terminate the
link". `pppd_kill_doc`: when the signal comes while `lcp_delayed_up` is pending
(listen_time, after a connect script), `lcp_close` finds the automaton in
STARTING, `fsm_close` takes it to INITIAL without calling `finished`, the delayed
`fsm_lowerup` takes it to CLOSED, and the phase stays TERMINATE, for later signals
too, until the line hangs up. The same end awaits a signal on a link whose device
could not be configured: `lcp_lowerup` has returned early, LCP is in STARTING and
goes to INITIAL. `KillCompletes` leaves that case out, and `LateKillCompletes` shows
that there is no third: a signal ends every link whose LCP has its lower layer.

`auth.c` says of a success that "If there is no more authentication still to be
done, proceed to the network (or callback) phase". `pppd_proof_doc`: after a wrong
response `auth_peer_fail` takes LCP and CHAP down, and then
`chap_handle_response` sets `AUTH_DONE` in the flags `chap_lowerdown` has just
cleared. On the next link of the same process a right response is answered
with a Success packet, but the flag keeps `auth_peer_success` from being called.

Three observations have no run of their own:

* `signal_protocol_key_helper_generate_pre_keys` with `start` 0 computes
  `start - 1` in an unsigned int: the first id of the batch is 512 and the second
  is 1, so that 512 comes again after 511 keys. `prekey_pool` begins at 1 or later.
* `lcp_nakci` gives up `CHAP_MDTYPE`, the lowest bit of the digests, where
  `lcp_addci` asked for `CHAP_DIGEST`, which prefers MD5: after a Nak with a
  digest we cannot do, the one given up is not the one that was refused.
* Without chap-interval, mutual CHAP whose two Success packets are both lost
  leaves both ends in the authenticate phase: a client has no timer. This is why
  `link_rechallenge` sets it for two losses.

## 4. Proofs

**Receiver chain.** These theorems hold for every `MaxMessageKeys` and `MaxFuture`
in `Nat` and every set of natural `Counters` (`KeyBounds`, the only assumption).

* `ChainInvariant`: `Spec => []Inv`. The interesting part is `WindowKept`:
  eviction counts entries, the window counts counters. The link is the conjunct
  of `Inv` that says that entries `i < j` of the list are at least `j - i` apart,
  so that more than `MaxMessageKeys` entries span more than `MaxMessageKeys`
  counters, and whatever is evicted is out of the window. Without it the
  invariant is not inductive. The lemmas `RunShape`, `KeepNewestShape`,
  `ConcatRunShape`, `RemoveShape`, `UnlinkSpread`, `ExtendSpread` and `EvictSpread` of
  `MessageKeys_proofs` say what the list operators do to such lists.
* `ChainAcceptsOnce`, `ChainKeepsWindow`, `ChainDuplicateIsOld`,
  `ChainErasesUsedKeys` follow.
* `LoopCorrect`: `LoopSpec => []LoopInvariant`. Trimming after each append gives
  what trimming once at the end gives.
* `LoopRefinesChain`: `LoopSpec => Refinement`. `Keep` is an `Accept`, `Drop` a
  `RejectMac`, and beginning, iterating and failing are stuttering steps.

**Sessions.** For every pair of parties, every number of messages, bundles, keys,
faults and resets, every set of pre keys and every limit of the record
(`SessionBounds`, `RecordBounds`, `KeyBounds`):

* `SessionInvariant`: `Spec => []SessInv`. None of the properties is inductive
  alone, and `SessInv` ties four things together.
  - *Paths.* A root or chain key is named by its path of agreements. The party
    that began a session only ever sends on paths of even length, the other one
    on odd ones (`Parity`), and every receiver chain of a state is of the other
    parity than its sender chain. The first agreement of a path names the base
    key (`BaseOfSecret`). So no chain of one party is a chain of the other.
  - *Freshness.* The ratchet key of a state is in no path but the state's own:
    not in a receiver chain of the record (`Alone`), not in another state of it
    (`Beside`), and none of the counters `nk`, `gen` has passed a key that
    is in use (`KnownIn`, `IssuedIn`). A turned ratchet therefore never derives
    a chain that messages were sent on.
  - *Erasure.* For every message that was committed and cannot be set up again
    (`DoneWith`), no state of the receiver's record yields the key or holds the
    ratchet key to derive the chain again (`Gone`), and every sender chain is
    past the messages sent on it (`StateSound`).
  - *Pre keys.* No session, and no message that was committed or sent by its
    owner, began with a pre key that is in the store and not excused (`Live`,
    `Excused`: the last-resort key, one whose removal failed, the one being
    removed). This is what makes a replay after the session was deleted fail.

  The delicate case is a decrypt call that waits for its callback: its record is
  a copy of the past, since a bundle may be processed and the stored session
  deleted meanwhile. `CallOK` says that what the call would store is sound now
  (`Outcome`), less the pre key it is going to remove; the proof of
  each other action shows that it stays so. `DecryptSound` (a session that is
  known, whichever state of the record it is), `BobSound` (a session the message
  begins) and `AliceSound` (a bundle) show what the three ways to change a record
  do to it.
* `SessionTypes`, `NoKeyReuse`, `CommittedOnce`, `KeysErased` and `PreKeysSpent`
  follow.
* `SessionsAreChannel`: `Spec /\ []NoneRenewable => IsChannel`. Releasing a message is
  a `Send`, storing the session a `Deliver`, everything else stutters. The
  hypothesis says that every session consumes a one-time pre key for good: with
  a session that can be set up again by its first message, and an archive that
  evicts, the channel may deliver twice, so the theorem would be false without.
* `StayInStep`: `Spec /\ []Remembered => []RatchetsInStep`. A second inductive
  invariant, `StepInv`, is about pairs of ends. An end is what a state holds of
  the ratchet: its root key and its ratchet key. `InStep` says that the ends of a
  session are one turn apart, for every end in the two records *and* the ones
  that waiting calls are going to store; `NotPast`, that no message on its way is
  of a chain past the end of its sender; `Answered` and `Replies`, that the party
  that did not begin a session has an end of it only once it answered, so that
  a session is set up once; `OneSecret`, that the base key determines the secret.
  `TurnInStep` and `BegunInStep` show that turning the ratchet, and setting up a
  session, lead from one turn apart to one turn apart. The hypothesis says that
  the receiver of a committed message whose session could be set up again
  still knows that session. It is needed: such a session, deleted or pushed out
  of the archive and then set up again by its first message, starts a second
  ratchet beside the one its peer went on with. Sessions that consumed a
  one-time pre key for good may be deleted and evicted at will. TLC finds
  `Remembered` and `StepInv` true in all reachable states of the bounds of
  `sessions_delivery`, and `StepInv` and `RatchetsInStep` true of all states of
  `sessions_safety` (limits of 1, deletion, eviction) that are reached while
  `Remembered` holds.
* `StaysDeliverable`: `Spec /\ []WithinLimits => []Deliverable`. The hypothesis says
  that nothing was deleted and that nothing is at a limit of the code: five
  receiver chains, 2000 message keys, 40 archived states, 2000 messages into the
  future. Beyond a limit the code drops keys by design, and the statement is
  false. A third inductive invariant, `DeliverInv`, relates what is on the network
  to what the receiver can still open. `Good`: every state, stored or about to be
  stored by a waiting call, opens each uncommitted message of its session, by a
  receiver chain that has its key or by one turn of the ratchet (`Opens`), has the
  chain from which it last turned, and has no receiver chain that a message did
  not bring (`Brought`). `Letters`: what a message says of identities, base key and
  pre key is what its chain was derived from, so that the receiver derives the
  same secret. `Keeps`: a party has a state of every session it sent or committed
  a message of. `Supply`: a one-time pre key is given out for one session only, and
  is in the store until its owner has a state of that session; the last-resort
  key stays. `StepInv` is needed beside it: that a message just sent is
  opened by every state the peer has, stored or waiting (`FreshOpens`), and that
  all messages that could still turn a state's ratchet are on one chain
  (`TurnedBy`), holds because the ends are one turn apart. `InvDeliverable` then
  shows that no state tried earlier ends the search with another error than
  "invalid", so that the state of the session gets its turn. `DeliverInv` implies
  `Remembered` (`DeliverRemembers`), so the theorem needs no further hypothesis. TLC finds `WithinLimits` and `DeliverInv` true in all 56,475 states of
  the bounds of `sessions_delivery`, up to symmetry, and `DeliverInv` true of all
  states reached while `WithinLimits` holds in a variant of `sessions_safety` with
  larger limits (83,416 states with those just past a limit), where it does not
  always hold.

**Groups.** For every number of members, messages, keys and announcements and
every limit (`GroupBounds`, `KeyBounds`): `GroupInvariant`, and from it
`GroupTypesKept`, `GroupKeysNeverReused`, `GroupCommitsOnce`,
`NothingReadBeforeJoining`, `GroupKeysErased` and `GroupStaysDeliverable`. `GroupInv`
aligns a member's record with the announcements that shaped it: one state for
each of the newest ones, each a chain that began where it was announced
(`Aligned`), not ahead of the sender (`Behind`), in which the key of a committed
message is gone and a skipped one inside the window is still there (`KeyRight`).
As in `Sessions` it says this of the stored record and of the one a waiting call
would store.

**Pre keys.** `LastResortSafe`: `PoolSpec => []LastResortKept`, for every
`MediumMax > 2`, word size above it, start, batch size and number of keys
(`PreKeyAssumption`). The invariant adds the types of `store`, `next` and `out`:
a session takes away the key under the id it was handed, so no such id may be
the last-resort one. `OfferedAlwaysStored` says that an offered id is in the
store. `IdsRarelyRepeated` needs that no start is 0 and that no batch makes the
unsigned word wrap (`WithinWord`; see the first observation above for why). Its
invariant `RoundInv` says that all keys there are were numbered in turn, so that
two keys with one id are whole rounds apart.

**Automaton.** For every id space, every retry limit, all option sets and flags,
and any peer (`FsmAssumption`, `EnvAssumption`):

* `EnvInvariant`: `EnvSafety => []EnvInv`, where `EnvInv` is the conjunction of
  `EnvTypeOK`, `TimerDiscipline`, `UpIffOpened` and `AdminStatus`. None of the parts
  is inductive alone: how many callouts are left after an untimeout depends on
  how many there were, hence on the state; whether `down` is called depends on
  the state and not on `up`. The proof looks at each function of `fsm.c` once: a
  lemma per operator says which fields it changes, and a lemma per handler that
  it keeps the callout count and `up` in step with the state it moves to, and
  the administrative status as the caller left it.
* `TimerAlwaysDisciplined`, `UpOnlyWhenOpened`, `StatusNeverLost` follow.
* `FsmImplementsLayer`: `EnvSafety => ImplementsLayer`. Each call is the step of
  `Layer` with its name; a packet or a callout is a report or a stutter.

**Daemon.** For every id space, retry limit, option set, flag and timer setting,
and any peer, user and number of links (`PppdAssumption`, `PppdEnvAssumption`):
`PppdInvariant`, and from it `PppdTypesKept`, `NoNetworkUnproven`,
`PhaseAlwaysInStep`, `CalloutsNeverStray`, `DeadAlwaysDead` and `AuthNeverWaitsBare`.
The invariant distinguishes LCP not open and LCP open. While it is not
(`DownPart`), nothing of the last link is left but, possibly, the `AUTH_DONE` that
a failed verdict sets too late (see Findings): leaving that out is not
inductive. While it is (`UpPhase`, `UpChap`), the flags of CHAP, `auth_pending` and
what the peer has shown agree: a server that has started and is not done is
pending, a pending one without proof has a valid challenge and a callout to send
it again, and whoever had to authenticate is pending, or proven and held to the
addresses of its secret, or let in by allow-ip and held to those (`Admitted`). The
last needs that what we asked for does not change while LCP stays open (`Moves`):
a peer let in without authentication has not been asked for one since. Since a
callback of LCP may close LCP again, the lemmas go through a third condition,
the daemon in the middle of a handler (`Sound`), which holds at every call.

**Link.** `EndsAgree`: `LinkSafety /\ []NextIdFree => []Agreement`, for every pair
of option sets, every line length and any number of losses, dials, kills and
retries (`LinkAssumption`, with `~Listen`; neither end is passive or has allow-ip,
and the device can be configured).
`LinkInv` says of each daemon that a dead or hung-up one has its LCP in INITIAL or
STARTING (`Grounded`), and of each direction of the line (`InStep`): a Configure-Request
on its way that carries the id the sender waits for asks for what the sender now
wants, and no older one comes after it; once the request was acknowledged, or
from when the Ack of it is on its way back, nothing but this request is on the
line to the peer, and if the peer still stands by an Ack it gave, that is an Ack
of this request. It is about the line and not only about the two ends, since
between a request and the Ack either end may renegotiate or hang up. The
hypothesis says that no id comes round while a request or an Ack with it is on its
way: `fsm_rconfack` compares nothing but the id, which is one byte, so an Ack that
is 256 requests late would be taken for the answer to another question. With
`IdMod` = 12 TLC finds `NextIdFree` and `LinkInv` true in all reachable states of
two instances (one without losses, one with a loss and one-sided CHAP); in
`link_safety` ids wrap at 3, and there `Agreement` is only model-checked.

**Only model-checked.** Liveness under fairness (`EventuallyDelivered`,
`LeavingEnds`, `LateKillCompletes`, `NobodyWaits`, `LinkComesUp`) is out of the
prover's reach. `IsChannel` is checked with a last-resort key and one fault, which
the theorem's hypothesis excludes. Every invariant that a run checks is also
proved, some under a hypothesis named with the theorem. Before it was proved,
each inductive invariant was checked with TLC on small instances.

## 5. Not modelled, and the plan

Not modelled, of libsignal: protobuf encoding, curve arithmetic and hashing,
buffers and reference counts, fingerprints and device consistency, the generated
code. Of pppd: the LCP options other than authentication (with them magic
numbers and loopback detection, MRU, multilink, callback); `rnakloops`; PAP (with
the empty login of a peer that refused), EAP and EAP-TLS; the session check of a
system account after CHAP; `auth_reset`, which stops asking for what there is no
secret for; option negotiation of IPCP and the other network protocols; demand
dialling, holdoff and maxfail; secrets files, scripts, plugins, devices. The
other ports are vendored servers and libraries, or patches to programs that are
not here (see `PROJECT.json` for each): they make up nearly all of the lines of
the repository, and none of their logic belongs to it.

Done: `MessageKeys`, `ReceiverChain`, `ReceiverLoop` with proofs; `Ratchet`,
`SessionRecord`, `SessionCipher`, `Sessions`, `SecureChannel` with proofs;
`GroupSessions` with proofs; `PreKeyPool` with proofs; `LcpOptions`, `Fsm`, `Layer`
with proofs; `Pppd`, `PppdEnv` with proofs; `PppLink` with proofs.

Left, in this order:

1. `DeviceSessions`: several devices and two cipher objects for an address, where
   `inside_callback` does not protect.
2. EAP beside CHAP in `Pppd`; IPCP as a second instance of `Fsm` in place of its
   outcome.
3. `MessageFormat`, `Fingerprint`, `DeviceConsistency`: parsing and ordering as
   pure operators against reference definitions.
