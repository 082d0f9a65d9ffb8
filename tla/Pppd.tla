-------------------------------- MODULE Pppd --------------------------------
(***************************************************************************)
(* One pppd: LCP over the automaton of Fsm, the phases of auth.c, CHAP of  *)
(* chap-new.c in both roles, the echo timer of lcp.c, and the part of      *)
(* main.c that starts and ends a link.  CHAP is the only authentication    *)
(* protocol in use and IPCP the only network protocol, without multilink,  *)
(* demand dialling or callback.  A function of the source is an operator   *)
(* from the daemon's record d to the record after it:                      *)
(*   lcp      the automaton of LCP, with every packet sent in lcp.out      *)
(*   phase, hungup, line    phase, hungup, and whether fd_ppp is there     *)
(*   delayed, delays        DELAYED_UP, and pending lcp_delayed_up calls   *)
(*   running, echos, unanswered   lcp_echo_timer_running, pending          *)
(*            LcpEchoTimeout calls, lcp_echos_pending                      *)
(*   pending  auth_pending: "peer" is CHAP_PEER, "withpeer" CHAP_WITHPEER  *)
(*   ss, cs   flags of chap_server_state and of chap_client_state          *)
(*   chal, xmits, challenges   id in the challenge packet, transmissions,  *)
(*            pending chap_timeout calls                                   *)
(*   np       IPCP: "closed", "open" or "up", for num_np_open, num_np_up   *)
(*   limits   pending check_idle or connect_time_expired calls             *)
(*   noauth   whether noauth_addrs has addresses (the option allow-ip)     *)
(*   addrs    addresses: "none", "noauth" (those of allow-ip alone) or     *)
(*            "secret" (those of the peer's line in the secrets file too)  *)
(*   dice     what drand48 returns next                                    *)
(*   proven   the peer gave a right response on this link (history)        *)
(***************************************************************************)
EXTENDS Fsm

CONSTANTS
  ChapMaxTransmits,   \* chap_max_transmits
  Rechallenge,        \* chap_rechallenge_time # 0
  EchoFails,          \* lcp_echo_fails; lcp_echo_interval is set iff it is
  Listen,             \* listen_time # 0: a connect script was run
  LimitOn             \* an idle or connect time limit is set

ASSUME PppdAssumption ==
  /\ ChapMaxTransmits \in Nat \ {0}
  /\ EchoFails \in Nat
  /\ {Rechallenge, Listen, LimitOn} \subseteq BOOLEAN

Phases == {"DEAD", "ESTABLISH", "AUTHENTICATE", "NETWORK", "RUNNING", "TERMINATE"}
ChapFlags == {"LOWERUP", "AUTH_STARTED", "AUTH_DONE", "AUTH_FAILED",
              "TIMEOUT_PENDING", "CHALLENGE_VALID"}
ChapCodes == {"CHALLENGE", "RESPONSE", "SUCCESS", "FAILURE"}
ExtCodes == {"ECHOREQ", "ECHOREP", "PROTREJ", "DISCREQ"}

(* `options' may have "passive", "silent" and "allow-ip".                  *)
PppdInit(want, allow, options) ==
  [lcp |-> FsmInit(want, allow, options \ {"allow-ip"}), phase |-> "DEAD", hungup |-> FALSE,
   line |-> FALSE, delayed |-> FALSE, delays |-> 0,
   running |-> FALSE, echos |-> 0, unanswered |-> 0,
   pending |-> {}, ss |-> {}, cs |-> {}, chal |-> 0, xmits |-> 0, challenges |-> 0,
   np |-> "closed", limits |-> 0, noauth |-> "allow-ip" \in options, addrs |-> "none",
   dice |-> 0, proven |-> FALSE]

Less(n) == IF n > 0 THEN n - 1 ELSE 0
Opened(d) == d.lcp.state = "OPENED"
Output(d, code, id, opt) == [d EXCEPT !.lcp = Sdata(@, code, id, opt)]

(* ------------------------- going down and ending ----------------------- *)

LcpEchoLowerdown(d) ==
  IF d.running THEN [d EXCEPT !.echos = Less(@), !.running = FALSE] ELSE d

(* Mutant: the challenge timer outlives the link. *)
ChapLowerdownKeepsTimer(d) == [d EXCEPT !.cs = {}, !.ss = {}]

ChapLowerdown(d) ==
  [d EXCEPT !.cs = {}, !.ss = {},
            !.challenges = IF "TIMEOUT_PENDING" \in d.ss THEN Less(@) ELSE @]

NpDown(d) ==
  [d EXCEPT !.np = "open", !.limits = Less(@), !.phase = "NETWORK"]

(* upper_layers_down: every protocol above LCP loses its lower layer, and  *)
(* the network protocols are closed.                                       *)
UpperLayersDown(d) ==
  LET e == ChapLowerdown(d)
  IN [IF e.np = "up" THEN NpDown(e) ELSE e EXCEPT !.np = "closed"]

(* Mutant: the phase stays that of the link that went down.                *)
LinkDownKeepsPhase(d) == [UpperLayersDown(d) EXCEPT !.proven = FALSE]

LinkDown(d) ==
  LET e == UpperLayersDown(d)
  IN [e EXCEPT !.phase = IF @ = "DEAD" THEN @ ELSE "ESTABLISH", !.proven = FALSE]

LcpDown(d) == LinkDown(LcpEchoLowerdown(d))

(* The automaton moved to g; run its down callback if it was called.       *)
Lowered(d, g) ==
  LET e == [d EXCEPT !.lcp = g]
  IN IF g.up < d.lcp.up THEN LcpDown(e) ELSE e

LcpLowerdown(d) ==
  IF d.delayed THEN [d EXCEPT !.delayed = FALSE]
  ELSE Lowered(d, FsmLowerdown(d.lcp))

(* link_terminated: the device goes away, and with it LCP's lower layer,   *)
(* unless a hangup took that already.                                      *)
LinkTerminated(d) ==
  IF d.phase = "DEAD" THEN d
  ELSE LET e == IF d.hungup THEN d ELSE LcpLowerdown(d)
       IN [e EXCEPT !.phase = "DEAD", !.line = FALSE]

(* The same for a move that may call the finished callback as well.        *)
Ended(d, g) ==
  LET e == Lowered(d, [g EXCEPT !.finished = FALSE])
  IN IF g.finished THEN LinkTerminated(e) ELSE e

(* Mutant: lcp_close in passive mode leaves a link that was never up.      *)
LcpClosePassive(d) ==
  LET e == [d EXCEPT !.phase = IF @ = "DEAD" THEN @ ELSE "TERMINATE"]
  IN Ended(e, FsmClose(e.lcp))

LcpClose(d) ==
  LET e == [d EXCEPT !.phase = IF @ = "DEAD" THEN @ ELSE "TERMINATE"]
  IN IF e.lcp.state = "STOPPED" /\ e.lcp.flags \cap {"passive", "silent"} # {}
     THEN LinkTerminated([e EXCEPT !.lcp = To(@, "CLOSED")])
     ELSE Ended(e, FsmClose(e.lcp))

(* ------------------------- authentication ------------------------------ *)

(* network_phase, start_networks and continue_networks: IPCP is opened.    *)
NetworkPhase(d) == [d EXCEPT !.phase = "NETWORK", !.np = "open"]

(* auth_peer_fail and auth_withpeer_fail.                                  *)
AuthFail(d) == LcpClose(d)

(* auth_peer_success and auth_withpeer_success.                            *)
AuthSuccess(d, bit) ==
  LET e == [d EXCEPT !.pending = @ \ {bit}]
  IN IF e.pending = {} THEN NetworkPhase(e) ELSE e

(* Mutant: a challenge is sent once and never again.                       *)
SendChallengeNoTimer(d) ==
  [Output(d, "CHALLENGE", d.chal, None) EXCEPT !.xmits = @ + 1]

SendChallenge(d) ==
  [Output(d, "CHALLENGE", d.chal, None)
     EXCEPT !.xmits = @ + 1, !.ss = @ \cup {"TIMEOUT_PENDING"}, !.challenges = @ + 1]

(* Mutant: a challenge is repeated without end.                            *)
ChapTimeoutForever(d) ==
  LET e == [d EXCEPT !.ss = @ \ {"TIMEOUT_PENDING"}]
  IN IF "CHALLENGE_VALID" \in e.ss THEN SendChallenge(e)
     ELSE SendChallenge([e EXCEPT !.xmits = 0, !.chal = (@ + 1) % IdMod,
                                  !.ss = @ \cup {"CHALLENGE_VALID"}])

(* chap_timeout: a new challenge, the same again, or the end of patience.  *)
ChapTimeout(d) ==
  LET e == [d EXCEPT !.ss = @ \ {"TIMEOUT_PENDING"}]
  IN CASE "CHALLENGE_VALID" \notin e.ss ->
            SendChallenge([e EXCEPT !.xmits = 0, !.chal = (@ + 1) % IdMod,
                                    !.ss = @ \cup {"CHALLENGE_VALID"}])
       [] "CHALLENGE_VALID" \in e.ss /\ e.xmits >= ChapMaxTransmits ->
            AuthFail([e EXCEPT !.ss = (@ \ {"CHALLENGE_VALID"})
                                        \cup {"AUTH_DONE", "AUTH_FAILED"}])
       [] OTHER -> SendChallenge(e)

ChapLowerup(d) ==
  LET e == [d EXCEPT !.cs = @ \cup {"LOWERUP"}, !.ss = @ \cup {"LOWERUP"}]
  IN IF "AUTH_STARTED" \in e.ss THEN ChapTimeout(e) ELSE e

ChapAuthPeer(d) ==
  LET e == [d EXCEPT !.ss = @ \cup {"AUTH_STARTED"}, !.chal = d.dice]
  IN IF "AUTH_STARTED" \in d.ss THEN d
     ELSE IF "LOWERUP" \in e.ss THEN ChapTimeout(e) ELSE e

ChapAuthWithPeer(d) == [d EXCEPT !.cs = @ \cup {"AUTH_STARTED"}]

(* Mutant: a peer that refuses to authenticate is let in.                  *)
LinkEstablishedLax(d) ==
  LET peer == d.lcp.go # {}
      with == d.lcp.ho # None
      auth == (IF peer THEN {"peer"} ELSE {}) \cup (IF with THEN {"withpeer"} ELSE {})
      a == [ChapLowerup(d) EXCEPT !.phase = "AUTHENTICATE"]
      b == IF peer THEN ChapAuthPeer(a) ELSE a
      c == [IF with THEN ChapAuthWithPeer(b) ELSE b EXCEPT !.pending = auth]
  IN IF auth = {} THEN NetworkPhase(c) ELSE c

(* link_established: who authenticates to whom, or at once the network     *)
(* phase.  A peer that refused what we require is turned away, unless      *)
(* allow-ip has addresses it can use without: then it is held to those, as *)
(* is one of which nothing is required.                                    *)
LinkEstablished(d) ==
  LET peer == d.lcp.go # {}
      with == d.lcp.ho # None
      auth == (IF peer THEN {"peer"} ELSE {}) \cup (IF with THEN {"withpeer"} ELSE {})
      held == d.noauth /\ (d.lcp.wo = {} \/ ~peer)
      up == ChapLowerup(d)
      a == [up EXCEPT !.phase = "AUTHENTICATE", !.addrs = IF held THEN "noauth" ELSE @]
      b == IF peer THEN ChapAuthPeer(a) ELSE a
      c == [IF with THEN ChapAuthWithPeer(b) ELSE b EXCEPT !.pending = auth]
  IN IF d.lcp.wo # {} /\ ~peer /\ ~d.noauth THEN LcpClose(up)
     ELSE IF auth = {} THEN NetworkPhase(c) ELSE c

(* ------------------------------- LCP ----------------------------------- *)

(* LcpLinkFailure and LcpSendEchoRequest: too many echos unanswered close  *)
(* the link.                                                               *)
LcpSendEchoRequest(d) ==
  LET lost == d.unanswered >= EchoFails
      e == IF lost THEN [(IF Opened(d) THEN LcpClose(d) ELSE d) EXCEPT !.unanswered = 0]
           ELSE d
  IN IF Opened(e) THEN [Output(e, "ECHOREQ", 0, None) EXCEPT !.unanswered = @ + 1] ELSE e

LcpEchoCheck(d) ==
  LET e == LcpSendEchoRequest(d)
  IN IF Opened(e) THEN [e EXCEPT !.echos = @ + 1, !.running = TRUE] ELSE e

(* LcpEchoTimeout, its callout off the list.                               *)
LcpEchoTimeout(d) ==
  LET e == [d EXCEPT !.echos = Less(@)]
  IN IF e.running THEN LcpEchoCheck([e EXCEPT !.running = FALSE]) ELSE e

LcpEchoLowerup(d) ==
  LET e == [d EXCEPT !.unanswered = 0, !.running = FALSE]
  IN IF EchoFails > 0 THEN LcpEchoCheck(e) ELSE e

LcpUp(d) == LinkEstablished(LcpEchoLowerup(d))

(* The automaton moved to g: run the callbacks it called.                  *)
Settle(d, g) ==
  IF g.up > d.lcp.up THEN LcpUp([d EXCEPT !.lcp = g]) ELSE Ended(d, g)

(* lcp_lowerup: if ppp_send_config or ppp_recv_config fails, LCP is left   *)
(* without its lower layer.                                                *)
LcpLowerup(d, configured) ==
  CASE ~configured -> d
    [] configured /\ Listen -> [d EXCEPT !.delayed = TRUE, !.delays = @ + 1]
    [] configured /\ ~Listen -> Settle(d, FsmLowerup(d.lcp))

(* lcp_delayed_up, its callout off the list.                               *)
LcpDelayedUp(d) ==
  LET e == [d EXCEPT !.delays = Less(@)]
  IN IF e.delayed THEN Settle([e EXCEPT !.delayed = FALSE], FsmLowerup(e.lcp)) ELSE e

(* chap_protrej. *)
ChapProtrej(d) ==
  LET a == [d EXCEPT !.ss = @ \ {"TIMEOUT_PENDING"},
                     !.challenges = IF "TIMEOUT_PENDING" \in d.ss THEN Less(@) ELSE @]
      b == IF "AUTH_STARTED" \in a.ss THEN AuthFail([a EXCEPT !.ss = {}]) ELSE a
  IN IF "AUTH_STARTED" \in b.cs /\ "AUTH_DONE" \notin b.cs
     THEN AuthFail([b EXCEPT !.cs = @ \ {"AUTH_STARTED"}])
     ELSE b

(* lcp_extcode: echos, and a Protocol-Reject of CHAP or of LCP itself.     *)
LcpExtcode(d, p) ==
  CASE p.code = "ECHOREQ" /\ Opened(d) -> Output(d, "ECHOREP", p.id, None)
    [] p.code = "ECHOREP" -> [d EXCEPT !.unanswered = 0]
    [] p.code = "PROTREJ" /\ Opened(d) /\ p.opt = "chap" -> ChapProtrej(d)
    [] p.code = "PROTREJ" /\ Opened(d) /\ p.opt = "lcp" ->
         Settle(d, FsmProtreject(d.lcp))
    [] OTHER -> d

(* lcp_input: a packet ends the wait of DELAYED_UP.                        *)
LcpInput(d, p) ==
  LET e == IF d.delayed THEN Settle([d EXCEPT !.delayed = FALSE], FsmLowerup(d.lcp))
           ELSE d
  IN CASE p.code \in ExtCodes /\ e.lcp.state \notin {"INITIAL", "STARTING"} -> LcpExtcode(e, p)
       [] p.code \in ExtCodes /\ e.lcp.state \in {"INITIAL", "STARTING"} -> e
       [] OTHER -> Settle(e, FsmInput(e.lcp, p))

(* ------------------------------- CHAP ---------------------------------- *)

(* Mutant: no further challenge after the first verdict.                   *)
VerdictNoRechallenge(d) ==
  LET e == [d EXCEPT !.ss = @ \ {"CHALLENGE_VALID"}]
      done == IF "AUTH_FAILED" \in e.ss THEN AuthFail(e)
              ELSE IF "AUTH_DONE" \in e.ss THEN e ELSE AuthSuccess(e, "peer")
  IN [done EXCEPT !.ss = @ \cup {"AUTH_DONE"}]

(* chap_handle_response, its end: the verdict is reported once.            *)
Verdict(d) ==
  LET e == [d EXCEPT !.ss = @ \ {"CHALLENGE_VALID"}]
      done == IF "AUTH_FAILED" \in e.ss THEN AuthFail(e)
              ELSE LET s == IF "AUTH_DONE" \in e.ss THEN e ELSE AuthSuccess(e, "peer")
                   IN IF Rechallenge
                      THEN [s EXCEPT !.ss = @ \cup {"TIMEOUT_PENDING"}, !.challenges = @ + 1]
                      ELSE s
  IN [done EXCEPT !.ss = @ \cup {"AUTH_DONE"}]

(* chap_handle_response: a response is judged once; repeated, it gets the  *)
(* same verdict again.  chap_verify_response finds a secret, and with it   *)
(* the peer's addresses, unless the response is that of "nobody" we know.  *)
ChapHandleResponse(d, id, answer) ==
  LET judging == "CHALLENGE_VALID" \in d.ss
      a == IF judging
           THEN [d EXCEPT !.ss = (@ \ {"TIMEOUT_PENDING"})
                                   \cup (IF answer = "right" THEN {} ELSE {"AUTH_FAILED"}),
                          !.challenges = IF "TIMEOUT_PENDING" \in d.ss THEN Less(@) ELSE @,
                          !.addrs = IF answer = "nobody" THEN @ ELSE "secret",
                          !.proven = @ \/ answer = "right"]
           ELSE d
      b == Output(a, IF "AUTH_FAILED" \in a.ss THEN "FAILURE" ELSE "SUCCESS", id, None)
  IN CASE "LOWERUP" \notin d.ss \/ id # d.chal -> d
       [] "LOWERUP" \in d.ss /\ id = d.chal /\ ~judging /\ "AUTH_DONE" \notin d.ss -> d
       [] OTHER -> IF judging THEN Verdict(b) ELSE b

(* chap_respond. *)
ChapRespond(d, id, secret) ==
  IF {"LOWERUP", "AUTH_STARTED"} \subseteq d.cs
  THEN Output(d, "RESPONSE", id, secret) ELSE d

(* chap_handle_status. *)
ChapHandleStatus(d, code) ==
  LET e == [d EXCEPT !.cs = @ \cup {"AUTH_DONE"}]
  IN CASE ~({"LOWERUP", "AUTH_STARTED"} \subseteq d.cs /\ "AUTH_DONE" \notin d.cs) -> d
       [] OTHER -> IF code = "SUCCESS" THEN AuthSuccess(e, "withpeer")
                   ELSE AuthFail([e EXCEPT !.cs = @ \cup {"AUTH_FAILED"}])

(* chap_input; `secret' is what the other side can tell from our response. *)
ChapInput(d, p, secret) ==
  CASE p.code = "CHALLENGE" -> ChapRespond(d, p.id, secret)
    [] p.code = "RESPONSE" -> ChapHandleResponse(d, p.id, p.opt)
    [] OTHER -> ChapHandleStatus(d, p.code)

(* ------------------------------ main.c --------------------------------- *)

(* get_input: everything but LCP is tossed unless LCP is open, and a       *)
(* protocol nobody handles is rejected.                                    *)
GetInput(d, p, secret) ==
  CASE p.code \in Codes \cup ExtCodes -> LcpInput(d, p)
    [] p.code \in ChapCodes /\ Opened(d) -> ChapInput(d, p, secret)
    [] p.code = "STRANGE" /\ Opened(d) /\ d.phase \notin {"DEAD", "ESTABLISH", "AUTHENTICATE"} ->
         Output([d EXCEPT !.lcp.id = NextId(d.lcp)], "PROTREJ", NextId(d.lcp), p.opt)
    [] OTHER -> d

(* Mutant: LCP is not told that the line is gone.                          *)
HangupForgetsLcp(d) == LinkTerminated([d EXCEPT !.hungup = TRUE])

(* get_input of an end of file: the modem hung up.                         *)
Hangup(d) == LinkTerminated(LcpLowerdown([d EXCEPT !.hungup = TRUE]))

(* The main loop once the link is dead: close what is left, open LCP, and  *)
(* start the link again, which may fail, as may the configuration of the   *)
(* device by lcp_lowerup.                                                  *)
Redial(d, connected, configured) ==
  LET e == [LcpClose(d) EXCEPT !.hungup = FALSE]
      o == Settle(e, FsmOpen(e.lcp))
  IN IF connected
     THEN LcpLowerup([o EXCEPT !.phase = "ESTABLISH", !.line = TRUE], configured)
     ELSE o

(* np_up and np_finished: IPCP agreed with its peer, or is done.           *)
NpUp(d) ==
  [d EXCEPT !.np = "up", !.phase = "RUNNING", !.limits = IF LimitOn THEN @ + 1 ELSE @]
NpFinished(d) == LcpClose([d EXCEPT !.np = "closed"])

(* check_idle and connect_time_expired, the callout off the list.          *)
LimitReached(d, expired) ==
  LET e == [d EXCEPT !.limits = Less(@)]
  IN IF expired THEN LcpClose(e) ELSE [e EXCEPT !.limits = @ + 1]

=============================================================================
