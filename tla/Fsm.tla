-------------------------------- MODULE Fsm ---------------------------------
(***************************************************************************)
(* pppd, fsm.c: the option negotiation automaton every control protocol    *)
(* runs, with the callbacks of LCP for the options.  A handler of fsm.c is *)
(* an operator from the automaton's record f to the record after it:       *)
(*   state, id, reqid, seenAck, retransmits, nakloops  as in struct fsm    *)
(*   flags     "passive", "silent", "restart"                              *)
(*   wo, ao    options we want, options we allow the peer                  *)
(*   go, ho    options negotiated for us, for the peer                     *)
(*   timers    fsm_timeout callouts pending in main.c's list               *)
(*   up        calls of callbacks->up minus calls of callbacks->down       *)
(*   finished  whether callbacks->finished was called                      *)
(*   out       packets sent, in order                                      *)
(* The up and finished callbacks are the last thing a handler does, and    *)
(* down touches nothing of the automaton, so they are run after it.        *)
(* rnakloops is left out: LCP asks it about other options only, as is the  *)
(* negative result of nakci and rejci, which only CCP returns.             *)
(***************************************************************************)
EXTENDS LcpOptions, Integers

CONSTANTS
  IdMod,            \* packet ids are unsigned chars: 256
  MaxConfReqs,      \* f->maxconfreqtransmits, DEFMAXCONFREQS
  MaxTermReqs,      \* f->maxtermtransmits, DEFMAXTERMREQS
  MaxNakLoops       \* f->maxnakloops, DEFMAXNAKLOOPS

ASSUME FsmAssumption ==
  /\ IdMod \in Nat \ {0}
  /\ MaxConfReqs \in Nat \ {0}
  /\ MaxTermReqs \in Nat
  /\ MaxNakLoops \in Nat \ {0}

States == {"INITIAL", "STARTING", "CLOSED", "STOPPED", "CLOSING", "STOPPING",
           "REQSENT", "ACKRCVD", "ACKSENT", "OPENED"}
Negotiating == {"REQSENT", "ACKRCVD", "ACKSENT"}
Timed == Negotiating \cup {"CLOSING", "STOPPING"}
Codes == {"CONFREQ", "CONFACK", "CONFNAK", "CONFREJ", "TERMREQ", "TERMACK",
          "CODEREJ", "UNKNOWN"}
Ids == 0..(IdMod - 1)

(* fsm_init, and lcp_open's flags. *)
FsmInit(want, allow, flags) ==
  [state |-> "INITIAL", id |-> 0, reqid |-> 0, seenAck |-> FALSE,
   retransmits |-> 0, nakloops |-> 0, flags |-> flags,
   wo |-> want, ao |-> allow, go |-> {}, ho |-> None,
   timers |-> 0, up |-> 0, finished |-> FALSE, out |-> <<>>]

NextId(f) == (f.id + 1) % IdMod

(* TIMEOUT adds a callout, UNTIMEOUT removes the first that matches.       *)
Timeout(f) == [f EXCEPT !.timers = @ + 1]
Untimeout(f) == [f EXCEPT !.timers = IF @ > 0 THEN @ - 1 ELSE 0]

Up(f) == [f EXCEPT !.up = @ + 1]
Down(f) == [f EXCEPT !.up = @ - 1]
Finished(f) == [f EXCEPT !.finished = TRUE]
To(f, s) == [f EXCEPT !.state = s]

Sdata(f, code, id, opt) ==
  [f EXCEPT !.out = Append(@, [code |-> code, id |-> id, opt |-> opt])]

(* lcp_resetci, for a request that starts a negotiation.                   *)
ResetCi(f) ==
  IF f.state \in Negotiating THEN f ELSE [f EXCEPT !.go = f.wo, !.nakloops = 0]

(* A new request takes a new id and a full retry counter.                  *)
NewRequest(f) ==
  [f EXCEPT !.retransmits = MaxConfReqs, !.id = NextId(f), !.reqid = NextId(f)]

Sent(f) == [f EXCEPT !.retransmits = @ - 1, !.seenAck = FALSE]

(* fsm_sconfreq: ask for our options, again or anew, and start the timer.  *)
Sconfreq(f, retransmit) ==
  LET sent == Sent(IF retransmit THEN ResetCi(f) ELSE NewRequest(ResetCi(f)))
  IN Timeout(Sdata(sent, "CONFREQ", sent.reqid, AddCi(sent.go)))

(* A first Configure-Request, as every caller but fsm_timeout sends it.    *)
Request(f) == To(Sconfreq(f, FALSE), "REQSENT")

FsmLowerup(f) ==
  CASE f.state = "INITIAL" -> To(f, "CLOSED")
    [] f.state = "STARTING" ->
         IF "silent" \in f.flags THEN To(f, "STOPPED") ELSE Request(f)
    [] OTHER -> f

FsmLowerdown(f) ==
  CASE f.state = "CLOSED" -> To(f, "INITIAL")
    [] f.state = "STOPPED" -> To(f, "STARTING")
    [] f.state = "CLOSING" -> Untimeout(To(f, "INITIAL"))
    [] f.state \in Negotiating \cup {"STOPPING"} -> Untimeout(To(f, "STARTING"))
    [] f.state = "OPENED" -> To(Down(f), "STARTING")
    [] OTHER -> f

(* fsm_open's OPT_RESTART: a layer that is there already starts afresh.    *)
Restart(f) ==
  IF "restart" \in f.flags THEN FsmLowerup(FsmLowerdown(f)) ELSE f

FsmOpen(f) ==
  CASE f.state = "INITIAL" -> To(f, "STARTING")
    [] f.state = "CLOSED" ->
         IF "silent" \in f.flags THEN To(f, "STOPPED") ELSE Request(f)
    [] f.state = "CLOSING" -> Restart(To(f, "STOPPING"))
    [] f.state \in {"STOPPED", "OPENED"} -> Restart(f)
    [] OTHER -> f

(* terminate_layer: one Terminate-Request at once, more after timeouts.    *)
TerminateLayer(f, next) ==
  LET quiet == IF f.state = "OPENED" THEN Down(f) ELSE Untimeout(f)
      sent == Sdata([quiet EXCEPT !.id = NextId(f), !.reqid = NextId(f)],
                    "TERMREQ", NextId(f), None)
  IN IF MaxTermReqs = 0
     THEN Finished(To([sent EXCEPT !.retransmits = 0],
                      IF next = "CLOSING" THEN "CLOSED" ELSE "STOPPED"))
     ELSE To(Timeout([sent EXCEPT !.retransmits = MaxTermReqs - 1]), next)

(* Mutant: a close while we are stopping is forgotten.                     *)
FsmCloseForgetful(f) ==
  CASE f.state = "STARTING" -> To(f, "INITIAL")
    [] f.state = "STOPPED" -> To(f, "CLOSED")
    [] f.state \in Negotiating \cup {"OPENED"} -> TerminateLayer(f, "CLOSING")
    [] OTHER -> f

FsmClose(f) ==
  CASE f.state = "STARTING" -> To(f, "INITIAL")
    [] f.state = "STOPPED" -> To(f, "CLOSED")
    [] f.state = "STOPPING" -> To(f, "CLOSING")
    [] f.state \in Negotiating \cup {"OPENED"} -> TerminateLayer(f, "CLOSING")
    [] OTHER -> f

(* Mutant: a Terminate-Request is repeated for ever.                       *)
TermreqTimeoutForever(f) ==
  Timeout(Sdata([f EXCEPT !.id = NextId(f), !.reqid = NextId(f)],
                "TERMREQ", NextId(f), None))

(* fsm_timeout while leaving: send the Terminate-Request again, or give up.*)
TermreqTimeout(f) ==
  IF f.retransmits <= 0
  THEN Finished(To(f, IF f.state = "CLOSING" THEN "CLOSED" ELSE "STOPPED"))
  ELSE Timeout(Sdata([f EXCEPT !.id = NextId(f),
                               !.reqid = NextId(f),
                               !.retransmits = @ - 1],
                     "TERMREQ", NextId(f), None))

(* Mutant: one Configure-Request too many.                                 *)
ConfreqTimeoutOffByOne(f) ==
  IF f.retransmits < 0 THEN Finished(To(f, "STOPPED"))
  ELSE IF f.state = "ACKRCVD" THEN To(Sconfreq(f, TRUE), "REQSENT") ELSE Sconfreq(f, TRUE)

(* fsm_timeout while asking: send the Configure-Request again, or give up. *)
ConfreqTimeout(f) ==
  IF f.retransmits <= 0
  THEN IF "passive" \in f.flags THEN To(f, "STOPPED") ELSE Finished(To(f, "STOPPED"))
  ELSE IF f.state = "ACKRCVD" THEN To(Sconfreq(f, TRUE), "REQSENT") ELSE Sconfreq(f, TRUE)

(* fsm_timeout, the callout that fired already taken off the list.         *)
TimedOut(f) ==
  CASE f.state \in {"CLOSING", "STOPPING"} -> TermreqTimeout(f)
    [] f.state \in Negotiating -> ConfreqTimeout(f)
    [] OTHER -> f

FsmTimeout(f) == TimedOut(Untimeout(f))

(* fsm_rconfreq, the end: the answer is sent, and an Ack brings us up when *)
(* our own request was acknowledged before.                                *)
Answered(f, code) ==
  CASE code = "CONFACK" /\ f.state = "ACKRCVD" ->
         [Up(To(Untimeout(f), "OPENED")) EXCEPT !.nakloops = 0]
    [] code = "CONFACK" /\ f.state # "ACKRCVD" ->
         [To(f, "ACKSENT") EXCEPT !.nakloops = 0]
    [] OTHER ->
         [To(f, IF f.state = "ACKRCVD" THEN "ACKRCVD" ELSE "REQSENT")
            EXCEPT !.nakloops = IF code = "CONFNAK" THEN @ + 1 ELSE @]

(* fsm_rconfreq, the options: check the request and answer it.             *)
AnswerConfreq(f, id, opt) ==
  LET answer == ReqCi(f.ao, opt, f.nakloops >= MaxNakLoops)
      his == [f EXCEPT !.ho = IF answer.code = "CONFACK" THEN opt ELSE None]
  IN Answered(Sdata(his, answer.code, id, answer.opt), answer.code)

(* Mutant: a request while we are open is answered without going down.     *)
RconfreqStaysUp(f, id, opt) ==
  CASE f.state = "CLOSED" -> Sdata(f, "TERMACK", id, None)
    [] f.state \in {"CLOSING", "STOPPING"} -> f
    [] f.state \in {"OPENED", "STOPPED"} -> AnswerConfreq(Request(f), id, opt)
    [] OTHER -> AnswerConfreq(f, id, opt)

(* fsm_rconfreq: a request finds us closed, leaving, or ready; when open   *)
(* we go down first and negotiate again.                                   *)
Rconfreq(f, id, opt) ==
  CASE f.state = "CLOSED" -> Sdata(f, "TERMACK", id, None)
    [] f.state \in {"CLOSING", "STOPPING"} -> f
    [] f.state = "OPENED" -> AnswerConfreq(Request(Down(f)), id, opt)
    [] f.state = "STOPPED" -> AnswerConfreq(Request(f), id, opt)
    [] OTHER -> AnswerConfreq(f, id, opt)

(* The test both fsm_rconfack and fsm_rconfnakrej start with.              *)
Expected(f, id) == id = f.reqid /\ ~f.seenAck

(* fsm_rconfack, after the Ack was noted.                                  *)
Acked(f, id) ==
  CASE f.state \in {"CLOSED", "STOPPED"} -> Sdata(f, "TERMACK", id, None)
    [] f.state = "REQSENT" -> [To(f, "ACKRCVD") EXCEPT !.retransmits = MaxConfReqs]
    [] f.state = "ACKRCVD" -> Request(Untimeout(f))
    [] f.state = "ACKSENT" ->
         Up([To(Untimeout(f), "OPENED") EXCEPT !.retransmits = MaxConfReqs])
    [] f.state = "OPENED" -> Request(Down(f))
    [] OTHER -> f

(* Mutant: an Ack is taken whichever request it answers.                   *)
RconfackAny(f, id, opt) == Acked([f EXCEPT !.seenAck = TRUE], id)

Rconfack(f, id, opt) ==
  IF Expected(f, id) /\ AckCi(f.go, opt)
  THEN Acked([f EXCEPT !.seenAck = TRUE], id)
  ELSE f

(* fsm_rconfnakrej, after the Nak or Reject was noted.                     *)
Refused(f, id) ==
  CASE f.state \in {"CLOSED", "STOPPED"} -> Sdata(f, "TERMACK", id, None)
    [] f.state \in {"REQSENT", "ACKSENT"} -> Sconfreq(Untimeout(f), FALSE)
    [] f.state = "ACKRCVD" -> Request(Untimeout(f))
    [] f.state = "OPENED" -> Request(Down(f))
    [] OTHER -> f

(* fsm_rconfnakrej: nakci and rejci leave the options of an open layer.    *)
Rconfnakrej(f, code, id, opt) ==
  LET good == IF code = "CONFNAK" THEN NakIsGood(f.go, opt) ELSE RejIsGood(f.go, opt)
      less == IF code = "CONFNAK" THEN NakCi(f.go, opt) ELSE RejCi(f.go, opt)
      left == IF f.state = "OPENED" THEN f.go ELSE less
  IN IF Expected(f, id) /\ good
     THEN Refused([f EXCEPT !.seenAck = TRUE, !.go = left], id)
     ELSE f

(* Mutant: no timer runs after a Terminate-Request took us down.           *)
TermreqSeenNoTimer(f) ==
  CASE f.state \in {"ACKRCVD", "ACKSENT"} -> To(f, "REQSENT")
    [] f.state = "OPENED" -> Down(To([f EXCEPT !.retransmits = 0], "STOPPING"))
    [] OTHER -> f

(* fsm_rtermreq, before it acknowledges.                                   *)
TermreqSeen(f) ==
  CASE f.state \in {"ACKRCVD", "ACKSENT"} -> To(f, "REQSENT")
    [] f.state = "OPENED" ->
         Timeout(Down(To([f EXCEPT !.retransmits = 0], "STOPPING")))
    [] OTHER -> f

Rtermreq(f, id) == Sdata(TermreqSeen(f), "TERMACK", id, None)

Rtermack(f) ==
  CASE f.state = "CLOSING" -> Finished(To(Untimeout(f), "CLOSED"))
    [] f.state = "STOPPING" -> Finished(To(Untimeout(f), "STOPPED"))
    [] f.state = "ACKRCVD" -> To(f, "REQSENT")
    [] f.state = "OPENED" -> Request(Down(f))
    [] OTHER -> f

Rcoderej(f) == IF f.state = "ACKRCVD" THEN To(f, "REQSENT") ELSE f

FsmProtreject(f) ==
  CASE f.state = "CLOSING" -> Finished(To(Untimeout(f), "CLOSED"))
    [] f.state = "CLOSED" -> Finished(f)
    [] f.state \in Negotiating \cup {"STOPPING"} -> Finished(To(Untimeout(f), "STOPPED"))
    [] f.state = "STOPPED" -> Finished(f)
    [] f.state = "OPENED" -> TerminateLayer(f, "STOPPING")
    [] OTHER -> f

(* fsm_input: packets are dropped while the lower layer is down.           *)
FsmInput(f, p) ==
  CASE f.state \in {"INITIAL", "STARTING"} -> f
    [] OTHER ->
        CASE p.code = "CONFREQ" -> Rconfreq(f, p.id, p.opt)
          [] p.code = "CONFACK" -> Rconfack(f, p.id, p.opt)
          [] p.code \in {"CONFNAK", "CONFREJ"} -> Rconfnakrej(f, p.code, p.id, p.opt)
          [] p.code = "TERMREQ" -> Rtermreq(f, p.id)
          [] p.code = "TERMACK" -> Rtermack(f)
          [] p.code = "CODEREJ" -> Rcoderej(f)
          [] OTHER -> Sdata([f EXCEPT !.id = NextId(f)], "CODEREJ", NextId(f), None)

=============================================================================
