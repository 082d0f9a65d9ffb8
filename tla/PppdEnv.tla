------------------------------- MODULE PppdEnv ------------------------------
(***************************************************************************)
(* One pppd against everything outside it: a peer that may send any        *)
(* packet, hang up and answer challenges rightly or wrongly; its user, who *)
(* may ask it to end the link; its callouts; IPCP.                         *)
(***************************************************************************)
EXTENDS Pppd

CONSTANTS
  Wants,    \* the digests we may be configured to require of the peer
  Allows,   \* the digests we may be configured to authenticate with
  Options,  \* the sets of further options: "passive", "silent", "allow-ip"
  PeerOpts  \* the authentication options the peer may name

ASSUME PppdEnvAssumption ==
  /\ Wants \subseteq SUBSET Digests
  /\ Allows \subseteq SUBSET Digests
  /\ Options \subseteq SUBSET {"passive", "silent", "allow-ip"}
  /\ PeerOpts \subseteq Digests

VARIABLES
  d,        \* the daemon
  killed    \* when the user asked for the end of this link: "no" (not yet),
            \*   "listening" (during listen_time), "unconfigured" (lcp_lowerup
            \*   had failed) or "later" (LCP had its lower layer)

pppdVars == <<d, killed>>

Packets ==
  [code : {"CONFREQ", "CONFACK", "CONFNAK", "CONFREJ"}, id : Ids, opt : PeerOpts \cup {None}]
  \cup [code : {"TERMREQ", "TERMACK", "CODEREJ", "UNKNOWN", "ECHOREQ", "ECHOREP",
                "CHALLENGE", "SUCCESS", "FAILURE"}, id : Ids, opt : {None}]
  \cup [code : {"RESPONSE"}, id : Ids, opt : {"right", "wrong", "nobody"}]
  \cup [code : {"PROTREJ"}, id : {0}, opt : {"chap", "lcp", "other"}]
  \cup [code : {"STRANGE"}, id : {0}, opt : {"other"}]

(* The packets of a handler are on their way, and drand48 moves on.        *)
Rest(e) == [e EXCEPT !.lcp.out = <<>>, !.dice = 0]

(* The daemon at the start of a handler, with what drand48 will return.    *)
Rolled == {[d EXCEPT !.dice = r] : r \in Ids}

PppdEnvInit ==
  /\ \E want \in Wants, allow \in Allows, options \in Options :
       d = PppdInit(want, allow, options)
  /\ killed = "no"

Receive(p) ==
  /\ d.line
  /\ \E e \in Rolled : d' = Rest(GetInput(e, p, "right"))
  /\ UNCHANGED killed

FsmTimer ==
  /\ d.lcp.timers > 0
  /\ \E e \in Rolled : d' = Rest(Settle(e, FsmTimeout(e.lcp)))
  /\ UNCHANGED killed

ChapTimer ==
  /\ d.challenges > 0
  /\ \E e \in Rolled : d' = Rest(ChapTimeout([e EXCEPT !.challenges = Less(@)]))
  /\ UNCHANGED killed

EchoTimer ==
  /\ d.echos > 0
  /\ \E e \in Rolled : d' = Rest(LcpEchoTimeout(e))
  /\ UNCHANGED killed

DelayTimer ==
  /\ d.delays > 0
  /\ \E e \in Rolled : d' = Rest(LcpDelayedUp(e))
  /\ UNCHANGED killed

LimitTimer ==
  /\ d.limits > 0
  /\ \E e \in Rolled, expired \in BOOLEAN : d' = Rest(LimitReached(e, expired))
  /\ UNCHANGED killed

(* SIGHUP or SIGTERM while the main loop waits for the link to end.        *)
Kill ==
  /\ d.phase # "DEAD"
  /\ killed' = CASE killed # "no" -> killed
                 [] killed = "no" /\ d.delayed -> "listening"
                 [] killed = "no" /\ ~d.delayed /\ d.lcp.state = "STARTING" -> "unconfigured"
                 [] OTHER -> "later"
  /\ \E e \in Rolled : d' = Rest(LcpClose(e))

LineHangup ==
  /\ d.line
  /\ \E e \in Rolled : d' = Rest(Hangup(e))
  /\ UNCHANGED killed

(* persist: the main loop starts over; the delay callouts of links that    *)
(* are gone stay in the list, at most one in the model.                    *)
Dial ==
  /\ d.phase = "DEAD"
  /\ d.delays < 2
  /\ killed' = "no"
  /\ \E e \in Rolled, connected, configured \in BOOLEAN :
       d' = Rest(Redial(e, connected, configured))

IpcpUp ==
  /\ d.np = "open"
  /\ \E e \in Rolled : d' = Rest(NpUp(e))
  /\ UNCHANGED killed

IpcpDown ==
  /\ d.np = "up"
  /\ \E e \in Rolled : d' = Rest(NpDown(e))
  /\ UNCHANGED killed

IpcpFinished ==
  /\ d.np = "open"
  /\ \E e \in Rolled : d' = Rest(NpFinished(e))
  /\ UNCHANGED killed

Timers == FsmTimer \/ ChapTimer \/ EchoTimer \/ DelayTimer \/ LimitTimer

PppdEnvNext ==
  \/ \E p \in Packets : Receive(p)
  \/ Timers
  \/ Kill \/ LineHangup \/ Dial
  \/ IpcpUp \/ IpcpDown \/ IpcpFinished

PppdEnvSafety == PppdEnvInit /\ [][PppdEnvNext]_pppdVars

(* calltimeout runs every callout that is due.                             *)
PppdEnvSpec ==
  /\ PppdEnvSafety
  /\ WF_pppdVars(FsmTimer) /\ WF_pppdVars(DelayTimer)

(* The types of the daemon's fields: no callout is ever in the list twice, *)
(* but for the delay callouts no one cancels.                              *)
PppdTypeOK ==
  /\ d.lcp.state \in States /\ d.lcp.timers \in 0..1 /\ d.lcp.up \in 0..1
  /\ d.phase \in Phases
  /\ {d.hungup, d.line, d.delayed, d.running, d.noauth, d.proven} \subseteq BOOLEAN
  /\ d.addrs \in {"none", "noauth", "secret"}
  /\ {d.echos, d.challenges, d.limits} \subseteq 0..1 /\ d.delays \in 0..2
  /\ d.unanswered \in 0..(EchoFails + 1)
  /\ d.pending \subseteq {"peer", "withpeer"}
  /\ d.ss \subseteq ChapFlags /\ d.cs \subseteq ChapFlags
  /\ d.chal \in Ids /\ d.xmits \in 0..ChapMaxTransmits
  /\ d.np \in {"closed", "open", "up"}
  /\ killed \in {"no", "listening", "unconfigured", "later"}

(* A peer we require to authenticate gets no network protocol before it    *)
(* gave a right response on this very link: not after a renegotiation, a   *)
(* reject, an Ack of something else, or the success of the other side.     *)
(* Only with allow-ip does a peer that refused get one, and then it is     *)
(* held to these addresses, whoever was granted others on a link before.   *)
NetworksNeedProof ==
  d.np # "closed" /\ d.lcp.wo # {} =>
    /\ Opened(d)
    /\ \/ d.proven /\ d.addrs = "secret"
       \/ d.noauth /\ d.lcp.go = {} /\ d.addrs = "noauth"

(* The phase follows the automaton: in the phases of an open link LCP is   *)
(* open and in no other, authentication is pending in AUTHENTICATE and in  *)
(* no later one, and the network protocols are open from NETWORK on.       *)
PhaseInStep ==
  /\ Opened(d) <=> d.phase \in {"AUTHENTICATE", "NETWORK", "RUNNING"}
  /\ d.phase = "AUTHENTICATE" => d.pending # {}
  /\ d.phase \in {"NETWORK", "RUNNING"} => d.pending = {}
  /\ d.phase = "NETWORK" <=> d.np = "open"
  /\ d.phase = "RUNNING" <=> d.np = "up"

(* Every flag that says a callout is pending is right, and no callout of   *)
(* a link outlives it: a challenge, an echo or a time limit that fired on  *)
(* the next link would close it.                                           *)
CalloutsInStep ==
  /\ d.challenges = IF "TIMEOUT_PENDING" \in d.ss THEN 1 ELSE 0
  /\ d.echos = IF d.running THEN 1 ELSE 0
  /\ d.running => Opened(d)
  /\ d.challenges > 0 => Opened(d)
  /\ d.limits > 0 => d.np = "up"
  /\ Opened(d) /\ EchoFails > 0 => d.running
  /\ d.delayed => d.delays > 0

(* A dead link is gone in every part: LCP has no lower layer and no timer, *)
(* so that the next lcp_open and lcp_lowerup really start a negotiation.   *)
DeadIsDead ==
  d.phase = "DEAD" =>
    /\ d.lcp.state \in {"INITIAL", "STARTING"}
    /\ d.lcp.timers = 0
    /\ ~d.line /\ ~d.delayed /\ ~d.running

(* While we wait for the peer to authenticate there is a callout that will *)
(* end the wait, one way or the other.                                     *)
AuthWaitsEnd ==
  d.phase = "AUTHENTICATE" /\ "peer" \in d.pending /\ ~d.proven => d.challenges = 1

(* A signal that comes when LCP has its lower layer ends the link,         *)
(* whatever state LCP is in and whatever the peer sends: it may not even   *)
(* answer the Terminate-Request.                                           *)
LateKillCompletes == killed = "later" ~> (d.phase = "DEAD")

(* pppd.8: a signal terminates the link, whenever it comes.  (This leaves  *)
(* out a device that could not be configured.)                             *)
KillCompletes == killed \in {"listening", "later"} ~> (d.phase = "DEAD")

(* auth_peer_success: once the peer was told that it succeeded, its        *)
(* authentication is no longer pending.                                    *)
ProofCounts == d.phase = "AUTHENTICATE" /\ d.proven => "peer" \notin d.pending

=============================================================================
