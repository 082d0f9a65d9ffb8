--------------------------- MODULE PppdEnv_proofs ---------------------------
(***************************************************************************)
(* One pppd against everything outside it, for every retry limit, every    *)
(* set of options and every configuration of its timers: the phases, the   *)
(* callouts, the flags of CHAP and the network protocols are always in     *)
(* step with LCP, and no network protocol opens to an unproven peer.       *)
(***************************************************************************)
EXTENDS PppdEnv, TLAPS

(* ------------------------- the automaton of LCP ------------------------ *)

LcpFields == {"state", "id", "reqid", "seenAck", "retransmits", "nakloops",
              "flags", "wo", "ao", "go", "ho", "timers", "up", "finished", "out"}

(* The automaton as the daemon sees it: its state, its callouts, its       *)
(* callbacks and the options it wants.                                     *)
View(g, s, t, u, w) ==
  /\ DOMAIN g = LcpFields
  /\ g.state = s /\ g.timers = t /\ g.up = u /\ g.wo = w

(* Between two handlers of fsm.c.                                          *)
LcpOk(g) ==
  /\ DOMAIN g = LcpFields
  /\ g.state \in States
  /\ g.timers = IF g.state \in Timed THEN 1 ELSE 0
  /\ g.up = IF g.state = "OPENED" THEN 1 ELSE 0

(* What every handler of fsm.c promises the daemon: it keeps the options   *)
(* we want, and while it stays open those it got.                          *)
Moves(g, h) ==
  /\ LcpOk(h) /\ h.wo = g.wo
  /\ g.state = "OPENED" /\ h.state = "OPENED" => h.go = g.go

(* The states without a lower layer.                                       *)
Bare == {"INITIAL", "STARTING"}

LEMMA ViewOk ==
  ASSUME NEW g, LcpOk(g)
  PROVE  View(g, g.state, IF g.state \in Timed THEN 1 ELSE 0,
              IF g.state = "OPENED" THEN 1 ELSE 0, g.wo)
BY DEF LcpOk, View

LEMMA LowerdownMoves ==
  ASSUME NEW g, LcpOk(g)
  PROVE  Moves(g, FsmLowerdown(g)) /\ FsmLowerdown(g).state \in Bare
BY DEF LcpOk, Moves, LcpFields, Bare, FsmLowerdown, To, Untimeout, Down, States, Timed, Negotiating

LEMMA SconfreqView ==
  ASSUME NEW g, NEW r \in BOOLEAN, NEW s, NEW t \in Int, NEW u \in Int, NEW w,
         View(g, s, t, u, w)
  PROVE  View(Sconfreq(g, r), s, t + 1, u, w)
BY DEF View, LcpFields, Sconfreq, Sent, ResetCi, NewRequest, Timeout, Sdata

LEMMA RequestView ==
  ASSUME NEW g, NEW s, NEW t \in Int, NEW u \in Int, NEW w, View(g, s, t, u, w)
  PROVE  View(Request(g), "REQSENT", t + 1, u, w)
<1>1. View(Sconfreq(g, FALSE), s, t + 1, u, w)
  BY SconfreqView
<1> DEFINE q == Sconfreq(g, FALSE)
<1> HIDE DEF q
<1>2. View(To(q, "REQSENT"), "REQSENT", t + 1, u, w)
  BY <1>1 DEF View, LcpFields, To, q
<1> QED
  BY <1>2 DEF Request, q

LEMMA LowerupMoves ==
  ASSUME NEW g, LcpOk(g)
  PROVE  /\ Moves(g, FsmLowerup(g))
         /\ FsmLowerup(g).state = "OPENED" <=> g.state = "OPENED"
<1>1. g.state = "STARTING" => View(Request(g), "REQSENT", 1, 0, g.wo)
  BY ViewOk, RequestView DEF Timed, Negotiating
<1>2. \A x : g.state \in Bare => View(To(g, x), x, 0, 0, g.wo)
  BY DEF LcpOk, LcpFields, View, To, Timed, Negotiating, Bare
<1> QED
  BY <1>1, <1>2 DEF FsmLowerup, Moves, LcpOk, View, States, Timed, Negotiating, Bare

(* lcp_open finds LCP closed before a link is started.                     *)
LEMMA OpenMoves ==
  ASSUME NEW g, LcpOk(g), g.state = "INITIAL"
  PROVE  Moves(g, FsmOpen(g)) /\ FsmOpen(g).state = "STARTING"
BY DEF LcpOk, Moves, LcpFields, FsmOpen, To, States, Timed, Negotiating

LEMMA TerminateView ==
  ASSUME NEW g, LcpOk(g), g.state \in Negotiating \cup {"OPENED"},
         NEW next \in {"CLOSING", "STOPPING"}
  PROVE  Moves(g, TerminateLayer(g, next)) /\ TerminateLayer(g, next).state # "OPENED"
BY DEF LcpOk, Moves, LcpFields, TerminateLayer, To, Timeout, Untimeout, Down, Finished,
       Sdata, States, Timed, Negotiating

LEMMA CloseMoves ==
  ASSUME NEW g, LcpOk(g)
  PROVE  /\ Moves(g, FsmClose(g)) /\ FsmClose(g).state # "OPENED"
         /\ g.state \in Bare => FsmClose(g).state = "INITIAL"
<1>1. g.state \in Negotiating \cup {"OPENED"} =>
        Moves(g, TerminateLayer(g, "CLOSING")) /\ TerminateLayer(g, "CLOSING").state # "OPENED"
  BY TerminateView
<1>2. \A x \in States : DOMAIN To(g, x) = LcpFields /\ To(g, x).state = x
                        /\ To(g, x).timers = g.timers /\ To(g, x).up = g.up /\ To(g, x).wo = g.wo
  BY DEF LcpOk, LcpFields, To
<1> QED
  BY <1>1, <1>2 DEF FsmClose, Moves, LcpOk, States, Timed, Negotiating, Bare

LEMMA ProtrejectMoves ==
  ASSUME NEW g, LcpOk(g)
  PROVE  Moves(g, FsmProtreject(g)) /\ FsmProtreject(g).state # "OPENED"
<1>1. g.state = "OPENED" =>
        Moves(g, TerminateLayer(g, "STOPPING")) /\ TerminateLayer(g, "STOPPING").state # "OPENED"
  BY TerminateView
<1>2. g.state # "OPENED" =>
        Moves(g, FsmProtreject(g)) /\ FsmProtreject(g).state # "OPENED"
  BY DEF LcpOk, Moves, LcpFields, FsmProtreject, To, Untimeout, Finished, States, Timed, Negotiating
<1> QED
  BY <1>1, <1>2 DEF FsmProtreject, Negotiating

LEMMA TermreqTimeoutMoves ==
  ASSUME NEW g, NEW h, LcpOk(h), View(g, h.state, 0, 0, h.wo),
         h.state \in {"CLOSING", "STOPPING"}
  PROVE  Moves(h, TermreqTimeout(g)) /\ TermreqTimeout(g).state # "OPENED"
BY DEF View, LcpOk, Moves, LcpFields, TermreqTimeout, To, Timeout, Finished, Sdata,
       States, Timed, Negotiating

LEMMA ConfreqTimeoutMoves ==
  ASSUME NEW g, NEW h, LcpOk(h), View(g, h.state, 0, 0, h.wo), h.state \in Negotiating
  PROVE  Moves(h, ConfreqTimeout(g)) /\ ConfreqTimeout(g).state # "OPENED"
<1>1. View(Sconfreq(g, TRUE), h.state, 1, 0, h.wo)
  <2>1. \A t, u \in Int : View(g, h.state, t, u, h.wo) =>
                           View(Sconfreq(g, TRUE), h.state, t + 1, u, h.wo)
    BY SconfreqView
  <2>2. 0 \in Int /\ 0 + 1 = 1
    OBVIOUS
  <2>3. View(Sconfreq(g, TRUE), h.state, 0 + 1, 0, h.wo)
    BY <2>1, <2>2, Zenon
  <2> QED
    BY <2>2, <2>3, Zenon
<1>2. View(To(Sconfreq(g, TRUE), "REQSENT"), "REQSENT", 1, 0, h.wo)
  BY <1>1 DEF View, LcpFields, To
<1>3. View(To(g, "STOPPED"), "STOPPED", 0, 0, h.wo)
  BY DEF View, LcpFields, To
<1>4. View(Finished(To(g, "STOPPED")), "STOPPED", 0, 0, h.wo)
  BY <1>3 DEF View, LcpFields, Finished
<1> QED
  BY <1>1, <1>2, <1>3, <1>4
  DEF ConfreqTimeout, View, LcpOk, Moves, States, Timed, Negotiating

LEMMA TimeoutMoves ==
  ASSUME NEW g, LcpOk(g)
  PROVE  /\ Moves(g, FsmTimeout(g))
         /\ FsmTimeout(g).state = "OPENED" <=> g.state = "OPENED"
<1> DEFINE h == Untimeout(g)
<1>1. /\ View(h, g.state, 0, IF g.state = "OPENED" THEN 1 ELSE 0, g.wo)
      /\ h.go = g.go
  BY DEF LcpOk, LcpFields, View, Untimeout, Timed, Negotiating
<1> HIDE DEF h
<1>2. CASE g.state \in {"CLOSING", "STOPPING"}
  <2>1. Moves(g, TermreqTimeout(h)) /\ TermreqTimeout(h).state # "OPENED"
    BY <1>1, <1>2, TermreqTimeoutMoves
  <2> QED
    BY <1>1, <1>2, <2>1 DEF FsmTimeout, TimedOut, View, h, Negotiating
<1>3. CASE g.state \in Negotiating
  <2>1. Moves(g, ConfreqTimeout(h)) /\ ConfreqTimeout(h).state # "OPENED"
    BY <1>1, <1>3, ConfreqTimeoutMoves DEF Negotiating
  <2> QED
    BY <1>1, <1>3, <2>1 DEF FsmTimeout, TimedOut, View, h, Negotiating
<1>4. CASE g.state \notin Timed
  BY <1>1, <1>4 DEF FsmTimeout, TimedOut, View, h, Negotiating, Timed, Moves, LcpOk
<1> QED
  BY <1>2, <1>3, <1>4 DEF Timed

(* Both ways into the open state stop the callout and count up.            *)
LEMMA OpenedViews ==
  ASSUME NEW g, NEW s, NEW w, View(g, s, 1, 0, w), NEW n
  PROVE  /\ View([Up(To(Untimeout(g), "OPENED")) EXCEPT !.nakloops = n], "OPENED", 0, 1, w)
         /\ View(Up([To(Untimeout(g), "OPENED") EXCEPT !.retransmits = n]), "OPENED", 0, 1, w)
<1> DEFINE a == Untimeout(g)
           b == To(a, "OPENED")
           c == Up(b)
           e == [b EXCEPT !.retransmits = n]
<1>1. View(a, s, 0, 0, w)
  BY DEF View, LcpFields, Untimeout
<1> HIDE DEF a
<1>2. View(b, "OPENED", 0, 0, w)
  BY <1>1 DEF View, LcpFields, To
<1> HIDE DEF b
<1>3. View(c, "OPENED", 0, 1, w) /\ View(e, "OPENED", 0, 0, w)
  BY <1>2 DEF View, LcpFields, Up
<1> HIDE DEF c, e
<1>4. View([c EXCEPT !.nakloops = n], "OPENED", 0, 1, w) /\ View(Up(e), "OPENED", 0, 1, w)
  BY <1>3 DEF View, LcpFields, Up
<1> QED
  BY <1>4 DEF a, b, c, e

(* The end of every handler that negotiates, from an automaton with its    *)
(* callout pending.                                                        *)
LEMMA AnsweredMoves ==
  ASSUME NEW g, NEW s \in Negotiating, NEW w, View(g, s, 1, 0, w), NEW code
  PROVE  /\ LcpOk(Answered(g, code)) /\ Answered(g, code).wo = w
         /\ Answered(g, code).state = "OPENED" => s = "ACKRCVD"
<1>1. CASE code = "CONFACK" /\ s = "ACKRCVD"
  <2>1. Answered(g, code) = [Up(To(Untimeout(g), "OPENED")) EXCEPT !.nakloops = 0]
    BY <1>1 DEF View, Answered
  <2>2. View([Up(To(Untimeout(g), "OPENED")) EXCEPT !.nakloops = 0], "OPENED", 0, 1, w)
    BY OpenedViews
  <2>3. View(Answered(g, code), "OPENED", 0, 1, w)
    BY <2>1, <2>2
  <2> QED
    BY <1>1, <2>3 DEF View, LcpOk, States, Timed, Negotiating
<1>2. CASE ~(code = "CONFACK" /\ s = "ACKRCVD")
  BY <1>2 DEF View, LcpOk, LcpFields, Answered, To, States, Timed, Negotiating
<1> QED
  BY <1>1, <1>2

LEMMA AnswerMoves ==
  ASSUME NEW g, NEW s \in Negotiating, NEW w, View(g, s, 1, 0, w), NEW id, NEW opt
  PROVE  /\ LcpOk(AnswerConfreq(g, id, opt)) /\ AnswerConfreq(g, id, opt).wo = w
         /\ AnswerConfreq(g, id, opt).state = "OPENED" => s = "ACKRCVD"
<1> DEFINE answer == ReqCi(g.ao, opt, g.nakloops >= MaxNakLoops)
           his == [g EXCEPT !.ho = IF answer.code = "CONFACK" THEN opt ELSE None]
           sent == Sdata(his, answer.code, id, answer.opt)
<1>1. View(his, s, 1, 0, w)
  <2> HIDE DEF answer
  <2> QED
    BY DEF View, LcpFields
<1>2. View(sent, s, 1, 0, w)
  <2> HIDE DEF answer, his
  <2> QED
    BY <1>1 DEF View, LcpFields, Sdata
<1>3. AnswerConfreq(g, id, opt) = Answered(sent, answer.code)
  BY DEF AnswerConfreq
<1> HIDE DEF sent
<1> QED
  BY <1>2, <1>3, AnsweredMoves

(* A layer that is open or stopped asks anew.                              *)
LEMMA AfreshViews ==
  ASSUME NEW g, LcpOk(g)
  PROVE  /\ g.state = "OPENED" => View(Request(Down(g)), "REQSENT", 1, 0, g.wo)
         /\ g.state \in {"STOPPED", "STARTING"} => View(Request(g), "REQSENT", 1, 0, g.wo)
         /\ g.state \in Negotiating => View(Request(Untimeout(g)), "REQSENT", 1, 0, g.wo)
<1>1. \A h, t, u : View(h, g.state, t, u, g.wo) /\ t = 0 /\ u = 0 =>
                     View(Request(h), "REQSENT", 1, 0, g.wo)
  <2> SUFFICES ASSUME NEW h, NEW t \in Int, NEW u \in Int,
                      View(h, g.state, t, u, g.wo), t = 0, u = 0
               PROVE  View(Request(h), "REQSENT", 1, 0, g.wo)
    OBVIOUS
  <2>1. View(Request(h), "REQSENT", t + 1, u, g.wo)
    BY RequestView
  <2> QED
    BY <2>1
<1>2. g.state = "OPENED" => View(Down(g), g.state, 0, 0, g.wo)
  BY DEF LcpOk, LcpFields, View, Down, Timed, Negotiating
<1>3. g.state \in {"STOPPED", "STARTING"} => View(g, g.state, 0, 0, g.wo)
  BY DEF LcpOk, View, Timed, Negotiating
<1>4. g.state \in Negotiating => View(Untimeout(g), g.state, 0, 0, g.wo)
  BY DEF LcpOk, LcpFields, View, Untimeout, Timed, Negotiating
<1> QED
  BY <1>1, <1>2, <1>3, <1>4

LEMMA SdataMoves ==
  ASSUME NEW g, LcpOk(g), NEW code, NEW id, NEW opt
  PROVE  Moves(g, Sdata(g, code, id, opt)) /\ Sdata(g, code, id, opt).state = g.state
BY DEF LcpOk, LcpFields, Moves, Sdata

LEMMA RconfreqMoves ==
  ASSUME NEW g, LcpOk(g), g.state \notin Bare, NEW id, NEW opt
  PROVE  Moves(g, Rconfreq(g, id, opt))
<1>1. CASE g.state = "CLOSED"
  BY <1>1, SdataMoves DEF Rconfreq
<1>2. CASE g.state \in {"CLOSING", "STOPPING"}
  BY <1>2 DEF Rconfreq, Moves
<1>3. CASE g.state = "OPENED"
  <2>1. Moves(g, AnswerConfreq(Request(Down(g)), id, opt))
    BY <1>3, AfreshViews, AnswerMoves DEF Negotiating, Moves
  <2> QED
    BY <1>3, <2>1 DEF Rconfreq
<1>4. CASE g.state = "STOPPED"
  <2>1. Moves(g, AnswerConfreq(Request(g), id, opt))
    BY <1>4, AfreshViews, AnswerMoves DEF Negotiating, Moves
  <2> QED
    BY <1>4, <2>1 DEF Rconfreq
<1>5. CASE g.state \in Negotiating
  <2>1. View(g, g.state, 1, 0, g.wo)
    BY <1>5 DEF LcpOk, View, Timed, Negotiating
  <2>2. Moves(g, AnswerConfreq(g, id, opt))
    BY <1>5, <2>1, AnswerMoves DEF Moves, Negotiating
  <2> QED
    BY <1>5, <2>2 DEF Rconfreq, Negotiating
<1> QED
  BY <1>1, <1>2, <1>3, <1>4, <1>5 DEF LcpOk, States, Bare, Negotiating

LEMMA AckedMoves ==
  ASSUME NEW g, LcpOk(g), NEW id
  PROVE  Moves(g, Acked(g, id))
<1>1. \A h : View(h, "REQSENT", 1, 0, g.wo) => Moves(g, h)
  BY DEF View, Moves, LcpOk, States, Timed, Negotiating
<1>2. CASE g.state \in {"CLOSED", "STOPPED"}
  BY <1>2, SdataMoves DEF Acked
<1>3. CASE g.state = "REQSENT"
  BY <1>3 DEF Acked, LcpOk, LcpFields, Moves, To, States, Timed, Negotiating
<1>4. CASE g.state = "ACKRCVD"
  BY <1>4, <1>1, AfreshViews DEF Acked, Negotiating
<1>5. CASE g.state = "ACKSENT"
  <2>1. View(g, g.state, 1, 0, g.wo)
    BY <1>5 DEF LcpOk, View, Timed, Negotiating
  <2>2. Acked(g, id) = Up([To(Untimeout(g), "OPENED") EXCEPT !.retransmits = MaxConfReqs])
    BY <1>5 DEF Acked
  <2>3. View(Acked(g, id), "OPENED", 0, 1, g.wo)
    BY <2>1, <2>2, OpenedViews
  <2> QED
    BY <1>5, <2>3 DEF View, Moves, LcpOk, States, Timed, Negotiating
<1>6. CASE g.state = "OPENED"
  BY <1>6, <1>1, AfreshViews DEF Acked
<1>7. CASE g.state \in {"CLOSING", "STOPPING"} \cup Bare
  BY <1>7 DEF Acked, Moves, Bare
<1> QED
  BY <1>2, <1>3, <1>4, <1>5, <1>6, <1>7 DEF LcpOk, States, Bare

LEMMA RefusedMoves ==
  ASSUME NEW g, LcpOk(g), NEW id
  PROVE  Moves(g, Refused(g, id))
<1>1. \A h : View(h, "REQSENT", 1, 0, g.wo) => Moves(g, h)
  BY DEF View, Moves, LcpOk, States, Timed, Negotiating
<1>2. CASE g.state \in {"CLOSED", "STOPPED"}
  BY <1>2, SdataMoves DEF Refused
<1>3. CASE g.state \in {"REQSENT", "ACKSENT"}
  <2> DEFINE q == Untimeout(g)
  <2>1. View(q, g.state, 0, 0, g.wo)
    BY <1>3 DEF LcpOk, LcpFields, View, Untimeout, Timed, Negotiating
  <2> HIDE DEF q
  <2>2. \A t, u \in Int : View(q, g.state, t, u, g.wo) =>
                          View(Sconfreq(q, FALSE), g.state, t + 1, u, g.wo)
    BY SconfreqView
  <2>3. 0 \in Int /\ 0 + 1 = 1
    OBVIOUS
  <2>4. View(Sconfreq(q, FALSE), g.state, 0 + 1, 0, g.wo)
    BY <2>1, <2>2, <2>3, Zenon
  <2>5. View(Sconfreq(q, FALSE), g.state, 1, 0, g.wo)
    BY <2>3, <2>4, Zenon
  <2>6. \A h : View(h, g.state, 1, 0, g.wo) => Moves(g, h)
    BY <1>3 DEF View, Moves, LcpOk, States, Timed, Negotiating
  <2>7. Refused(g, id) = Sconfreq(q, FALSE)
    BY <1>3 DEF Refused, q
  <2> QED
    BY <2>5, <2>6, <2>7, Zenon
<1>4. CASE g.state = "ACKRCVD"
  BY <1>4, <1>1, AfreshViews DEF Refused, Negotiating
<1>5. CASE g.state = "OPENED"
  BY <1>5, <1>1, AfreshViews DEF Refused
<1>6. CASE g.state \in {"CLOSING", "STOPPING"} \cup Bare
  BY <1>6 DEF Refused, Moves, Bare
<1> QED
  BY <1>2, <1>3, <1>4, <1>5, <1>6 DEF LcpOk, States, Bare

(* The handlers of Ack, Nak and Reject note the packet first.              *)
LEMMA NotedMoves ==
  ASSUME NEW g, LcpOk(g), NEW b, NEW s, g.state = "OPENED" => s = g.go
  PROVE  /\ Moves(g, [g EXCEPT !.seenAck = b]) /\ [g EXCEPT !.seenAck = b].state = g.state
         /\ Moves(g, [g EXCEPT !.seenAck = b, !.go = s])
         /\ [g EXCEPT !.seenAck = b, !.go = s].state = g.state
BY DEF LcpOk, LcpFields, Moves

LEMMA RconfackMoves ==
  ASSUME NEW g, LcpOk(g), NEW id, NEW opt
  PROVE  Moves(g, Rconfack(g, id, opt))
<1> DEFINE h == [g EXCEPT !.seenAck = TRUE]
<1>1. Moves(g, h) /\ h.state = g.state
  BY NotedMoves
<1> HIDE DEF h
<1>2. Moves(h, Acked(h, id))
  BY <1>1, AckedMoves DEF Moves
<1>3. Rconfack(g, id, opt) \in {g, Acked(h, id)}
  BY DEF Rconfack, h
<1> QED
  BY <1>1, <1>2, <1>3 DEF Moves

LEMMA RconfnakrejMoves ==
  ASSUME NEW g, LcpOk(g), NEW code, NEW id, NEW opt
  PROVE  Moves(g, Rconfnakrej(g, code, id, opt))
<1> DEFINE less == IF code = "CONFNAK" THEN NakCi(g.go, opt) ELSE RejCi(g.go, opt)
           left == IF g.state = "OPENED" THEN g.go ELSE less
           h == [g EXCEPT !.seenAck = TRUE, !.go = left]
<1>1. Moves(g, h) /\ h.state = g.state
  <2>1. g.state = "OPENED" => left = g.go
    OBVIOUS
  <2> HIDE DEF left
  <2> QED
    BY <2>1, NotedMoves
<1>2. Rconfnakrej(g, code, id, opt) \in {g, Refused(h, id)}
  BY DEF Rconfnakrej
<1> HIDE DEF h
<1>3. Moves(h, Refused(h, id))
  BY <1>1, RefusedMoves DEF Moves
<1> QED
  BY <1>1, <1>2, <1>3 DEF Moves

LEMMA TermMoves ==
  ASSUME NEW g, LcpOk(g), NEW id
  PROVE  Moves(g, Rtermreq(g, id)) /\ Moves(g, Rtermack(g)) /\ Moves(g, Rcoderej(g))
<1>1. Moves(g, TermreqSeen(g))
  BY DEF TermreqSeen, LcpOk, LcpFields, Moves, To, Timeout, Down, States, Timed, Negotiating
<1>2. Moves(g, Rtermreq(g, id))
  BY <1>1, SdataMoves DEF Rtermreq, Moves
<1>3. CASE g.state # "OPENED"
  <2>1. Moves(g, Rtermack(g))
    BY <1>3 DEF Rtermack, LcpOk, LcpFields, Moves, To, Untimeout, Finished, States, Timed, Negotiating
  <2>2. Moves(g, Rcoderej(g))
    BY <1>3 DEF Rcoderej, LcpOk, LcpFields, Moves, To, States, Timed, Negotiating
  <2> QED
    BY <1>2, <2>1, <2>2
<1>4. CASE g.state = "OPENED"
  <2>1. \A h : View(h, "REQSENT", 1, 0, g.wo) => Moves(g, h)
    BY DEF View, Moves, LcpOk, States, Timed, Negotiating
  <2>2. Moves(g, Rtermack(g))
    BY <1>4, <2>1, AfreshViews DEF Rtermack
  <2>3. Moves(g, Rcoderej(g))
    BY <1>4 DEF Rcoderej, Moves
  <2> QED
    BY <1>2, <2>2, <2>3
<1> QED
  BY <1>3, <1>4

LEMMA InputMoves ==
  ASSUME NEW g, LcpOk(g), NEW p
  PROVE  Moves(g, FsmInput(g, p))
<1>1. CASE g.state \in Bare
  BY <1>1 DEF FsmInput, Moves, Bare
<1>2. CASE g.state \notin Bare
  <2> DEFINE h == [g EXCEPT !.id = NextId(g)]
  <2>1. Moves(g, h)
    <3> DEFINE n == NextId(g)
    <3> HIDE DEF n
    <3> QED
      BY DEF LcpOk, LcpFields, Moves
  <2>2. FsmInput(g, p) \in {Rconfreq(g, p.id, p.opt), Rconfack(g, p.id, p.opt),
                           Rconfnakrej(g, p.code, p.id, p.opt), Rtermreq(g, p.id),
                           Rtermack(g), Rcoderej(g), Sdata(h, "CODEREJ", NextId(g), None)}
    BY <1>2 DEF FsmInput, Bare
  <2> HIDE DEF h
  <2>3. Moves(g, Sdata(h, "CODEREJ", NextId(g), None))
    BY <2>1, SdataMoves DEF Moves
  <2> QED
    BY <1>2, <2>2, <2>3, RconfreqMoves, RconfackMoves, RconfnakrejMoves, TermMoves
<1> QED
  BY <1>1, <1>2

(* ------------------------------ the daemon ----------------------------- *)

PppdFields == {"lcp", "phase", "hungup", "line", "delayed", "delays", "running",
               "echos", "unanswered", "pending", "ss", "cs", "chal", "xmits",
               "challenges", "np", "limits", "noauth", "addrs", "dice", "proven"}

(* What holds of the daemon at every call of a handler's parts, whatever   *)
(* the phase: the types, ...                                               *)
Typed(e) ==
  /\ DOMAIN e = PppdFields
  /\ LcpOk(e.lcp)
  /\ e.phase \in Phases
  /\ e.hungup \in BOOLEAN /\ e.line \in BOOLEAN /\ e.delayed \in BOOLEAN
  /\ e.running \in BOOLEAN /\ e.proven \in BOOLEAN
  /\ e.noauth \in BOOLEAN /\ e.addrs \in {"none", "noauth", "secret"}
  /\ e.delays \in 0..2
  /\ e.unanswered \in 0..EchoFails
  /\ e.pending \subseteq {"peer", "withpeer"}
  /\ e.ss \subseteq ChapFlags /\ e.cs \subseteq ChapFlags
  /\ e.chal \in Ids /\ e.dice \in Ids /\ e.xmits \in 0..ChapMaxTransmits
  /\ e.np \in {"closed", "open", "up"}

(* ... the callouts that are pending, ...                                  *)
Counted(e) ==
  /\ e.limits \in 0..1
  /\ e.limits > 0 => e.np = "up"
  /\ e.challenges = IF "TIMEOUT_PENDING" \in e.ss THEN 1 ELSE 0
  /\ e.echos = IF e.running THEN 1 ELSE 0

(* ... and the line under LCP.                                             *)
Linked(e) ==
  /\ e.line <=> e.phase # "DEAD"
  /\ e.phase = "DEAD" => e.lcp.state \in Bare /\ ~e.delayed
  /\ e.delayed => e.delays > 0 /\ e.lcp.state \in Bare

Sound(e) == Typed(e) /\ Counted(e) /\ Linked(e)

(* The daemon while LCP is not open: nothing of the last link is left but  *)
(* the AUTH_DONE a failed verdict sets after it took the link down.        *)
DownPart(e) ==
  /\ e.phase \in {"DEAD", "ESTABLISH", "TERMINATE"}
  /\ e.ss \subseteq {"AUTH_DONE"} /\ e.cs = {}
  /\ ~e.running /\ e.np = "closed" /\ ~e.proven

(* The daemon while LCP is open: the phases, ...                           *)
UpPhase(e) ==
  /\ e.phase \in {"AUTHENTICATE", "NETWORK", "RUNNING"}
  /\ e.phase = "AUTHENTICATE" <=> e.pending # {}
  /\ e.phase = "AUTHENTICATE" => e.np = "closed"
  /\ e.phase = "NETWORK" => e.np = "open"
  /\ e.phase = "RUNNING" => e.np = "up"
  /\ EchoFails > 0 => e.running

(* The peer may have a network protocol: it gave proof and has the         *)
(* addresses of its secret, or refused and is held to those of allow-ip.   *)
Admitted(e) ==
  \/ e.proven /\ e.addrs = "secret"
  \/ e.noauth /\ e.lcp.go = {} /\ e.addrs = "noauth"

(* ... and who still has to authenticate: what the flags of CHAP say, what *)
(* auth_pending says, and what the peer has shown.                         *)
UpChap(e) ==
  /\ "LOWERUP" \in e.ss /\ "LOWERUP" \in e.cs /\ "AUTH_FAILED" \notin e.ss
  /\ "AUTH_STARTED" \in e.ss /\ "AUTH_DONE" \notin e.ss => "peer" \in e.pending
  /\ "AUTH_STARTED" \in e.cs /\ "AUTH_DONE" \notin e.cs => "withpeer" \in e.pending
  /\ "CHALLENGE_VALID" \in e.ss => "TIMEOUT_PENDING" \in e.ss
  /\ "TIMEOUT_PENDING" \in e.ss => "AUTH_STARTED" \in e.ss
  /\ "peer" \in e.pending => "AUTH_STARTED" \in e.ss
  /\ "peer" \in e.pending /\ ~e.proven => "CHALLENGE_VALID" \in e.ss
  /\ e.lcp.wo # {} => "peer" \in e.pending \/ Admitted(e)

(* Where lcp_close may be called, what it leaves, and what holds between   *)
(* two handlers.                                                           *)
Falling(e) == Sound(e) /\ (Opened(e) \/ DownPart(e))
Fallen(e) == Sound(e) /\ ~Opened(e) /\ DownPart(e)
Standing(e) == Sound(e) /\ Opened(e) /\ UpPhase(e) /\ UpChap(e)
Carrier(e) == e.hungup => e.phase = "DEAD"
Resting(e) == Carrier(e) /\ (Fallen(e) \/ Standing(e))

(* r is e but for some of its fields.                                      *)
Same(e, r, changed) ==
  DOMAIN r = PppdFields /\ \A x \in PppdFields \ changed : r[x] = e[x]

LEMMA LessOf == Less(1) = 0 /\ Less(0) = 0
BY DEF Less

LEMMA EchoDown ==
  ASSUME NEW e, Typed(e), Counted(e)
  PROVE  LET r == LcpEchoLowerdown(e) IN
         Same(e, r, {"echos", "running"}) /\ r.running = FALSE /\ r.echos = 0
<1>0. DOMAIN e = PppdFields /\ e.running \in BOOLEAN
      /\ e.echos = IF e.running THEN 1 ELSE 0
  BY DEF Typed, Counted
<1>1. CASE e.running
  <2>1. LcpEchoLowerdown(e) = [e EXCEPT !.echos = 0, !.running = FALSE]
    BY <1>0, <1>1, LessOf DEF LcpEchoLowerdown
  <2> QED
    BY <1>0, <2>1 DEF Same, PppdFields
<1>2. CASE ~e.running
  BY <1>0, <1>2 DEF Same, PppdFields, LcpEchoLowerdown
<1> QED
  BY <1>1, <1>2

LEMMA ChapDown ==
  ASSUME NEW e, Typed(e), Counted(e)
  PROVE  LET r == ChapLowerdown(e) IN
         Same(e, r, {"ss", "cs", "challenges"}) /\ r.ss = {} /\ r.cs = {} /\ r.challenges = 0
<1>0. DOMAIN e = PppdFields /\ e.challenges = IF "TIMEOUT_PENDING" \in e.ss THEN 1 ELSE 0
  BY DEF Typed, Counted
<1>1. ChapLowerdown(e) = [e EXCEPT !.cs = {}, !.ss = {}, !.challenges = 0]
  BY <1>0, LessOf DEF ChapLowerdown, PppdFields
<1> QED
  BY <1>0, <1>1 DEF Same, PppdFields

LEMMA NetDown ==
  ASSUME NEW e, Typed(e), Counted(e)
  PROVE  LET r == [IF e.np = "up" THEN NpDown(e) ELSE e EXCEPT !.np = "closed"] IN
         /\ Same(e, r, {"np", "limits", "phase"}) /\ r.np = "closed" /\ r.limits = 0
         /\ r.phase \in {e.phase, "NETWORK"}
<1>0. DOMAIN e = PppdFields /\ e.limits \in {0, 1} /\ (e.np # "up" => e.limits = 0)
  BY DEF Typed, Counted
<1>1. CASE e.np = "up"
  <2> DEFINE n == NpDown(e)
  <2>1. n = [e EXCEPT !.np = "open", !.limits = 0, !.phase = "NETWORK"]
    BY <1>0, LessOf DEF NpDown, PppdFields
  <2>2. Same(e, n, {"np", "limits", "phase"}) /\ n.limits = 0 /\ n.phase = "NETWORK"
    BY <1>0, <2>1 DEF Same, PppdFields
  <2> HIDE DEF n
  <2> QED
    BY <1>1, <2>2 DEF Same, PppdFields, n
<1>2. CASE e.np # "up"
  BY <1>0, <1>2 DEF Same, PppdFields
<1> QED
  BY <1>1, <1>2

(* The down callback: from an open LCP it leaves the daemon as a link that *)
(* was never up would, in the phase that comes before.                     *)
LEMMA DownFalls ==
  ASSUME NEW e, Sound(e), Opened(e), NEW g, Moves(e.lcp, g), g.state # "OPENED"
  PROVE  LET r == LcpDown([e EXCEPT !.lcp = g]) IN
         /\ Fallen(r)
         /\ r.lcp = g /\ r.hungup = e.hungup
         /\ r.phase = "ESTABLISH" /\ e.phase # "DEAD" /\ ~r.delayed
         /\ r.delays = e.delays
<1> DEFINE a == [e EXCEPT !.lcp = g]
           b == LcpEchoLowerdown(a)
           c == ChapLowerdown(b)
           n == [IF c.np = "up" THEN NpDown(c) ELSE c EXCEPT !.np = "closed"]
           r == LcpDown(a)
<1>0. e.phase # "DEAD" /\ e.delayed = FALSE /\ e.line = TRUE
  BY DEF Sound, Linked, Opened, Bare, Typed
<1>1. Same(e, a, {"lcp"}) /\ a.lcp = g
  BY DEF Same, PppdFields, Sound, Typed
<1>2. Typed(a) /\ Counted(a)
  <2> HIDE DEF a
  <2> QED
    BY <1>1 DEF Same, PppdFields, Sound, Typed, Counted, Moves
<1>3. Same(a, b, {"echos", "running"}) /\ b.running = FALSE /\ b.echos = 0
  BY <1>2, EchoDown
<1>4. Typed(b) /\ Counted(b)
  <2> HIDE DEF a, b
  <2> QED
    BY <1>2, <1>3 DEF Same, PppdFields, Typed, Counted
<1>5. Same(b, c, {"ss", "cs", "challenges"}) /\ c.ss = {} /\ c.cs = {} /\ c.challenges = 0
  BY <1>4, ChapDown
<1>6. Typed(c) /\ Counted(c)
  <2> HIDE DEF a, b, c
  <2> QED
    BY <1>4, <1>5 DEF Same, PppdFields, Typed, Counted
<1>7. Same(c, n, {"np", "limits", "phase"}) /\ n.np = "closed" /\ n.limits = 0
      /\ n.phase \in {c.phase, "NETWORK"}
  BY <1>6, NetDown
<1>8. r = [n EXCEPT !.phase = IF n.phase = "DEAD" THEN n.phase ELSE "ESTABLISH", !.proven = FALSE]
  BY DEF LcpDown, LinkDown, UpperLayersDown
<1> HIDE DEF a, b, c, n, r
<1>9. n.phase # "DEAD"
  BY <1>0, <1>1, <1>3, <1>5, <1>7 DEF Same, PppdFields
<1>10. Same(n, r, {"phase", "proven"}) /\ r.phase = "ESTABLISH" /\ r.proven = FALSE
  BY <1>7, <1>8, <1>9 DEF Same, PppdFields
<1>11. Same(c, r, {"np", "limits", "phase", "proven"}) /\ r.np = "closed" /\ r.limits = 0
  BY <1>7, <1>10 DEF Same, PppdFields
<1>12. Same(e, r, {"lcp", "echos", "running", "ss", "cs", "challenges", "np", "limits",
                   "phase", "proven"})
  BY <1>1, <1>3, <1>5, <1>11 DEF Same
<1>13. r.lcp = g /\ r.running = FALSE /\ r.echos = 0 /\ r.ss = {} /\ r.cs = {} /\ r.challenges = 0
  BY <1>1, <1>3, <1>5, <1>11 DEF Same, PppdFields
<1>14. Typed(r)
  BY <1>6, <1>10, <1>11 DEF Same, PppdFields, Typed, Phases
<1>15. Counted(r) /\ DownPart(r) /\ ~Opened(r)
  BY <1>10, <1>11, <1>13 DEF Counted, DownPart, Opened
<1>16. r.delayed = FALSE /\ r.line = TRUE /\ r.hungup = e.hungup /\ r.delays = e.delays
  BY <1>0, <1>12 DEF Same, PppdFields
<1>17. Linked(r)
  BY <1>10, <1>16 DEF Linked
<1> QED
  BY <1>0, <1>10, <1>13, <1>14, <1>15, <1>16, <1>17 DEF Fallen, Sound, a, r

(* LCP moves and stays on its side of the open state.                      *)
LEMMA LcpReplaced ==
  ASSUME NEW e, NEW g, Moves(e.lcp, g), Sound(e),
         (e.phase = "DEAD" \/ e.delayed) => g.state \in Bare
  PROVE  LET r == [e EXCEPT !.lcp = g] IN
         /\ Sound(r) /\ Same(e, r, {"lcp"}) /\ r.lcp = g
         /\ DownPart(e) => DownPart(r)
         /\ UpPhase(e) => UpPhase(r)
         /\ e.lcp.state = "OPENED" /\ g.state = "OPENED" /\ UpChap(e) => UpChap(r)
<1> DEFINE r == [e EXCEPT !.lcp = g]
<1>1. Same(e, r, {"lcp"}) /\ r.lcp = g
  BY DEF Same, PppdFields, Sound, Typed
<1> HIDE DEF r
<1>2. Sound(r)
  BY <1>1 DEF Same, PppdFields, Sound, Typed, Counted, Linked, Moves
<1>3. DownPart(e) => DownPart(r)
  BY <1>1 DEF Same, PppdFields, DownPart
<1>4. UpPhase(e) => UpPhase(r)
  BY <1>1 DEF Same, PppdFields, UpPhase
<1>5. e.lcp.state = "OPENED" /\ g.state = "OPENED" /\ UpChap(e) => UpChap(r)
  BY <1>1 DEF Same, PppdFields, UpChap, Admitted, Moves
<1> QED
  BY <1>1, <1>2, <1>3, <1>4, <1>5 DEF r

LEMMA LoweredFalls ==
  ASSUME NEW e, Falling(e), NEW g, Moves(e.lcp, g), g.state # "OPENED",
         (e.phase = "DEAD" \/ e.delayed) => g.state \in Bare
  PROVE  LET r == Lowered(e, g) IN
         /\ Fallen(r)
         /\ r.lcp = g /\ r.hungup = e.hungup /\ r.delays = e.delays
         /\ r.phase = "DEAD" <=> e.phase = "DEAD"
         /\ r.delayed => e.delayed
<1>1. g.up = 0
  BY DEF Moves, LcpOk
<1>2. CASE Opened(e)
  <2>1. e.lcp.up = 1
    BY <1>2 DEF Falling, Sound, Typed, LcpOk, Opened
  <2>2. Lowered(e, g) = LcpDown([e EXCEPT !.lcp = g])
    BY <1>1, <2>1 DEF Lowered
  <2> QED
    BY <1>2, <2>2, DownFalls DEF Falling
<1>3. CASE ~Opened(e)
  <2>1. e.lcp.up = 0
    BY <1>3 DEF Falling, Sound, Typed, LcpOk, Opened
  <2>2. Lowered(e, g) = [e EXCEPT !.lcp = g]
    BY <1>1, <2>1 DEF Lowered
  <2> DEFINE r == [e EXCEPT !.lcp = g]
  <2>3. Sound(r) /\ Same(e, r, {"lcp"}) /\ r.lcp = g /\ DownPart(r)
    BY <1>3, LcpReplaced DEF Falling
  <2> HIDE DEF r
  <2>4. Fallen(r) /\ r.lcp = g /\ r.hungup = e.hungup /\ r.phase = e.phase
        /\ r.delayed = e.delayed /\ r.delays = e.delays
    BY <2>3 DEF Fallen, Opened, Same, PppdFields
  <2> QED
    BY <2>2, <2>4 DEF r
<1> QED
  BY <1>2, <1>3

(* lcp_lowerdown. *)
LEMMA LowerdownFalls ==
  ASSUME NEW e, Falling(e)
  PROVE  LET r == LcpLowerdown(e) IN
         /\ Fallen(r) /\ r.lcp.state \in Bare /\ r.delayed = FALSE /\ r.hungup = e.hungup
         /\ r.phase = "DEAD" <=> e.phase = "DEAD"
<1>1. CASE e.delayed
  <2> DEFINE r == [e EXCEPT !.delayed = FALSE]
  <2>1. Same(e, r, {"delayed"}) /\ r.delayed = FALSE
    BY DEF Same, PppdFields, Falling, Sound, Typed
  <2> HIDE DEF r
  <2>2. e.lcp.state \in Bare /\ ~Opened(e)
    BY <1>1 DEF Falling, Sound, Linked, Bare, Opened
  <2>3. Sound(r)
    BY <2>1, <2>2 DEF Falling, Same, PppdFields, Sound, Typed, Counted, Linked
  <2>4. DownPart(r) /\ r.lcp = e.lcp /\ r.hungup = e.hungup /\ r.phase = e.phase
    BY <2>1, <2>2 DEF Falling, Same, PppdFields, DownPart
  <2> QED
    BY <1>1, <2>1, <2>2, <2>3, <2>4 DEF Fallen, Opened, LcpLowerdown, r
<1>2. CASE ~e.delayed
  <2> DEFINE g == FsmLowerdown(e.lcp)
             r == Lowered(e, g)
  <2>1. Moves(e.lcp, g) /\ g.state \in Bare
    BY LowerdownMoves DEF Falling, Sound, Typed
  <2> HIDE DEF g
  <2>2. Fallen(r) /\ r.lcp = g /\ r.hungup = e.hungup
        /\ (r.phase = "DEAD" <=> e.phase = "DEAD") /\ (r.delayed => e.delayed)
    BY <2>1, LoweredFalls DEF Bare
  <2> HIDE DEF r
  <2>3. r.delayed = FALSE
    BY <1>2, <2>2 DEF Fallen, Sound, Typed
  <2> QED
    BY <1>2, <2>1, <2>2, <2>3 DEF LcpLowerdown, r, g
<1> QED
  BY <1>1, <1>2

(* The end of link_terminated: the line goes away.                         *)
LEMMA Dies ==
  ASSUME NEW e, Fallen(e), e.lcp.state \in Bare, e.delayed = FALSE
  PROVE  LET r == [e EXCEPT !.phase = "DEAD", !.line = FALSE] IN
         Fallen(r) /\ Carrier(r) /\ r.phase = "DEAD"
<1> DEFINE r == [e EXCEPT !.phase = "DEAD", !.line = FALSE]
<1>1. Same(e, r, {"phase", "line"}) /\ r.phase = "DEAD" /\ r.line = FALSE
  BY DEF Same, PppdFields, Fallen, Sound, Typed
<1> HIDE DEF r
<1>2. Sound(r)
  BY <1>1, ZenonT(45) DEF Fallen, Same, PppdFields, Sound, Typed, Counted, Linked, Phases
<1>3. DownPart(r) /\ ~Opened(r)
  BY <1>1 DEF Fallen, Same, PppdFields, DownPart, Opened
<1> QED
  BY <1>1, <1>2, <1>3 DEF Fallen, Carrier, r

(* link_terminated. *)
LEMMA TerminatedFalls ==
  ASSUME NEW e, Falling(e),
         e.hungup /\ e.phase # "DEAD" => Fallen(e) /\ e.lcp.state \in Bare /\ e.delayed = FALSE
  PROVE  LET r == LinkTerminated(e) IN Fallen(r) /\ Carrier(r) /\ r.phase = "DEAD"
<1>1. CASE e.phase = "DEAD"
  <2>1. ~Opened(e)
    BY <1>1 DEF Falling, Sound, Linked, Opened, Bare
  <2> QED
    BY <1>1, <2>1 DEF LinkTerminated, Falling, Fallen, Carrier
<1>2. CASE e.phase # "DEAD" /\ e.hungup
  BY <1>2, Dies DEF LinkTerminated
<1>3. CASE e.phase # "DEAD" /\ ~e.hungup
  <2>1. LET x == LcpLowerdown(e) IN Fallen(x) /\ x.lcp.state \in Bare /\ x.delayed = FALSE
    BY LowerdownFalls
  <2> QED
    BY <1>3, <2>1, Dies DEF LinkTerminated
<1> QED
  BY <1>1, <1>2, <1>3

(* The down and finished callbacks of a move that leaves LCP not open.     *)
LEMMA EndedFalls ==
  ASSUME NEW e, Falling(e), Carrier(e), NEW g, Moves(e.lcp, g), g.state # "OPENED",
         (e.phase = "DEAD" \/ e.delayed) => g.state \in Bare
  PROVE  LET r == Ended(e, g) IN
         /\ Fallen(r) /\ Carrier(r)
         /\ e.phase = "DEAD" => /\ r.phase = "DEAD" /\ r.lcp.state = g.state
                               /\ r.delays = e.delays /\ r.hungup = e.hungup
<1> DEFINE h == [g EXCEPT !.finished = FALSE]
           x == Lowered(e, h)
<1>1. Moves(e.lcp, h) /\ h.state = g.state
  BY DEF Moves, LcpOk, LcpFields
<1>2. Ended(e, g) = IF g.finished THEN LinkTerminated(x) ELSE x
  BY DEF Ended
<1> HIDE DEF h
<1>3. Fallen(x) /\ x.lcp = h /\ x.hungup = e.hungup /\ (x.phase = "DEAD" <=> e.phase = "DEAD")
      /\ x.delays = e.delays
  BY <1>1, LoweredFalls
<1> HIDE DEF x
<1>4. Carrier(x)
  BY <1>3 DEF Carrier
<1>5. LET r == LinkTerminated(x) IN Fallen(r) /\ Carrier(r) /\ r.phase = "DEAD"
  BY <1>3, <1>4, TerminatedFalls DEF Falling, Fallen, Carrier
<1>6. x.phase = "DEAD" => LinkTerminated(x) = x
  BY DEF LinkTerminated
<1> QED
  BY <1>1, <1>2, <1>3, <1>4, <1>5, <1>6

(* lcp_close, from any phase, open or not.                                 *)
LEMMA CloseFalls ==
  ASSUME NEW e, Falling(e), Carrier(e)
  PROVE  LET r == LcpClose(e) IN
         /\ Fallen(r) /\ Carrier(r)
         /\ e.phase = "DEAD" =>
              r.phase = "DEAD" /\ r.lcp.state = "INITIAL" /\ r.delays = e.delays
<1> DEFINE a == [e EXCEPT !.phase = IF e.phase = "DEAD" THEN e.phase ELSE "TERMINATE"]
<1>1. Same(e, a, {"phase"}) /\ a.phase = IF e.phase = "DEAD" THEN e.phase ELSE "TERMINATE"
  BY DEF Same, PppdFields, Falling, Sound, Typed
<1>2. LcpClose(e) = IF a.lcp.state = "STOPPED" /\ a.lcp.flags \cap {"passive", "silent"} # {}
                    THEN LinkTerminated([a EXCEPT !.lcp = To(a.lcp, "CLOSED")])
                    ELSE Ended(a, FsmClose(a.lcp))
  BY DEF LcpClose
<1> HIDE DEF a
<1>3. Sound(a)
  BY <1>1 DEF Falling, Same, PppdFields, Sound, Typed, Counted, Linked, Phases
<1>4. Falling(a) /\ Carrier(a) /\ (a.phase = "DEAD" <=> e.phase = "DEAD") /\ a.delays = e.delays
  BY <1>1, <1>3 DEF Falling, Same, PppdFields, Opened, DownPart, Carrier
<1>5. CASE a.lcp.state = "STOPPED" /\ a.lcp.flags \cap {"passive", "silent"} # {}
  <2> DEFINE g == To(a.lcp, "CLOSED")
             b == [a EXCEPT !.lcp = g]
  <2>1. Moves(a.lcp, g) /\ g.state = "CLOSED"
    BY <1>3, <1>5 DEF Sound, Typed, Moves, LcpOk, LcpFields, To, States, Timed, Negotiating
  <2> HIDE DEF g
  <2>2. a.phase # "DEAD" /\ ~a.delayed /\ ~Opened(a)
    BY <1>3, <1>5 DEF Sound, Linked, Bare, Opened
  <2>3. Sound(b) /\ Same(a, b, {"lcp"}) /\ b.lcp = g /\ DownPart(b)
    BY <1>3, <1>4, <2>1, <2>2, LcpReplaced DEF Falling
  <2> HIDE DEF b
  <2>4. Falling(b) /\ Carrier(b)
    BY <1>4, <2>2, <2>3 DEF Falling, Carrier, Same, PppdFields
  <2>5. LET r == LinkTerminated(b) IN Fallen(r) /\ Carrier(r)
    BY <2>4, TerminatedFalls DEF Carrier
  <2> QED
    BY <1>2, <1>4, <1>5, <2>2, <2>5 DEF b, g
<1>6. CASE ~(a.lcp.state = "STOPPED" /\ a.lcp.flags \cap {"passive", "silent"} # {})
  <2> DEFINE g == FsmClose(a.lcp)
  <2>1. Moves(a.lcp, g) /\ g.state # "OPENED" /\ (a.lcp.state \in Bare => g.state = "INITIAL")
    BY <1>3, CloseMoves DEF Sound, Typed
  <2> HIDE DEF g
  <2>2. (a.phase = "DEAD" \/ a.delayed) => g.state = "INITIAL"
    BY <1>3, <2>1 DEF Sound, Linked
  <2>3. LET r == Ended(a, g) IN
        /\ Fallen(r) /\ Carrier(r)
        /\ a.phase = "DEAD" => r.phase = "DEAD" /\ r.lcp.state = g.state /\ r.delays = a.delays
    BY <1>4, <2>1, <2>2, EndedFalls DEF Bare
  <2> QED
    BY <1>2, <1>4, <1>6, <2>2, <2>3 DEF g
<1> QED
  BY <1>5, <1>6

(* A packet sent changes nothing the daemon looks at.                      *)
LEMMA OutputSame ==
  ASSUME NEW e, Sound(e), NEW code, NEW id, NEW opt
  PROVE  LET r == Output(e, code, id, opt) IN
         /\ Same(e, r, {"lcp"})
         /\ Moves(e.lcp, r.lcp) /\ r.lcp.state = e.lcp.state
<1> DEFINE g == Sdata(e.lcp, code, id, opt)
<1>1. Moves(e.lcp, g) /\ g.state = e.lcp.state
  BY SdataMoves DEF Sound, Typed
<1>2. Output(e, code, id, opt) = [e EXCEPT !.lcp = g]
  BY DEF Output
<1> HIDE DEF g
<1> QED
  BY <1>1, <1>2 DEF Same, PppdFields, Sound, Typed

(* LcpSendEchoRequest with echos to spare, and the callout of the next.    *)
LEMMA EchoSent ==
  ASSUME NEW e, Sound(e), Opened(e), e.unanswered < EchoFails, e.running = FALSE
  PROVE  LET r == LcpEchoCheck(e) IN
         /\ Sound(r) /\ Opened(r) /\ r.running = TRUE /\ r.lcp.wo = e.lcp.wo /\ r.lcp.go = e.lcp.go
         /\ Same(e, r, {"lcp", "unanswered", "echos", "running"})
<1> DEFINE a == Output(e, "ECHOREQ", 0, None)
           b == [a EXCEPT !.unanswered = a.unanswered + 1]
           r == [b EXCEPT !.echos = b.echos + 1, !.running = TRUE]
<1>0. e.unanswered \in 0..EchoFails /\ EchoFails \in Nat /\ e.echos = 0
  BY PppdAssumption DEF Sound, Typed, Counted
<1>1. Same(e, a, {"lcp"}) /\ Moves(e.lcp, a.lcp) /\ a.lcp.state = "OPENED"
  BY OutputSame DEF Opened
<1>2. LcpSendEchoRequest(e) = b
  <2>1. ~(e.unanswered >= EchoFails)
    BY <1>0
  <2> QED
    BY <2>1 DEF LcpSendEchoRequest, Opened
<1> HIDE DEF a
<1>3. Same(e, b, {"lcp", "unanswered"}) /\ b.lcp = a.lcp /\ b.unanswered = e.unanswered + 1
  BY <1>1 DEF Same, PppdFields
<1>4. LcpEchoCheck(e) = r
  BY <1>1, <1>2, <1>3 DEF LcpEchoCheck, Opened
<1> HIDE DEF b
<1>5. Same(e, r, {"lcp", "unanswered", "echos", "running"}) /\ r.lcp = a.lcp
      /\ r.unanswered = e.unanswered + 1 /\ r.echos = 1 /\ r.running = TRUE
  <2>1. b.echos + 1 = 1
    BY <1>0, <1>3 DEF Same, PppdFields
  <2>2. r = [b EXCEPT !.echos = 1, !.running = TRUE]
    BY <2>1
  <2> HIDE DEF r
  <2> QED
    BY <1>3, <2>2 DEF Same, PppdFields
<1> HIDE DEF r
<1>6. Sound(r)
  <2>1. r.unanswered \in 0..EchoFails
    BY <1>0, <1>5
  <2>2. Typed(r)
    BY <1>1, <1>5, <2>1, ZenonT(45) DEF Same, PppdFields, Sound, Typed, Moves
  <2>3. Counted(r)
    BY <1>5 DEF Same, PppdFields, Sound, Counted
  <2>4. Linked(r)
    BY <1>1, <1>5 DEF Same, PppdFields, Sound, Linked, Opened
  <2> QED
    BY <2>2, <2>3, <2>4 DEF Sound
<1> QED
  BY <1>1, <1>4, <1>5, <1>6 DEF Opened, Moves

(* LCP has just come up and its echos have started.                        *)
Fresh(e) ==
  /\ Sound(e) /\ Opened(e) /\ Carrier(e)
  /\ e.ss \subseteq {"AUTH_DONE"} /\ e.cs = {}
  /\ e.np = "closed" /\ e.proven = FALSE
  /\ EchoFails > 0 => e.running

LEMMA EchoUp ==
  ASSUME NEW e, Sound(e), Opened(e), Carrier(e), DownPart(e)
  PROVE  Fresh(LcpEchoLowerup(e))
<1> DEFINE a == [e EXCEPT !.unanswered = 0, !.running = FALSE]
<1>1. Same(e, a, {"unanswered", "running"}) /\ a.unanswered = 0 /\ a.running = FALSE
  BY DEF Same, PppdFields, Sound, Typed
<1> HIDE DEF a
<1>2. e.running = FALSE /\ e.proven = FALSE
  BY DEF DownPart, Sound, Typed
<1>3. Sound(a)
  <2>1. 0 \in 0..EchoFails
    BY PppdAssumption
  <2>2. Typed(a)
    BY <1>1, <2>1 DEF Same, PppdFields, Sound, Typed
  <2> QED
    BY <1>1, <1>2, <2>2 DEF Same, PppdFields, Sound, Counted, Linked
<1>4. Opened(a) /\ Carrier(a) /\ a.ss = e.ss /\ a.cs = e.cs /\ a.np = e.np /\ a.proven = e.proven
  BY <1>1 DEF Same, PppdFields, Opened, Carrier
<1>5. CASE EchoFails > 0
  <2> DEFINE r == LcpEchoCheck(a)
  <2>1. Sound(r) /\ Opened(r) /\ r.running = TRUE
        /\ Same(a, r, {"lcp", "unanswered", "echos", "running"})
    BY <1>1, <1>3, <1>4, <1>5, EchoSent
  <2>2. LcpEchoLowerup(e) = r
    BY <1>5 DEF LcpEchoLowerup, a
  <2> HIDE DEF r
  <2> QED
    BY <1>2, <1>4, <2>1, <2>2 DEF Same, PppdFields, Fresh, Carrier, DownPart
<1>6. CASE ~(EchoFails > 0)
  BY <1>2, <1>3, <1>4, <1>6 DEF Fresh, DownPart, LcpEchoLowerup, a
<1> QED
  BY <1>5, <1>6

(* chap_send_challenge: the challenge has its callout.                     *)
LEMMA ChallengeSent ==
  ASSUME NEW e, Sound(e), Opened(e), "TIMEOUT_PENDING" \notin e.ss, e.xmits < ChapMaxTransmits
  PROVE  LET r == SendChallenge(e) IN
         /\ Sound(r) /\ Opened(r) /\ r.lcp.wo = e.lcp.wo /\ r.lcp.go = e.lcp.go
         /\ Same(e, r, {"lcp", "xmits", "ss", "challenges"})
         /\ r.ss = e.ss \cup {"TIMEOUT_PENDING"}
<1> DEFINE a == Output(e, "CHALLENGE", e.chal, None)
           r == SendChallenge(e)
<1>1. Same(e, a, {"lcp"}) /\ Moves(e.lcp, a.lcp) /\ a.lcp.state = "OPENED"
  BY OutputSame DEF Opened
<1>2. r = [a EXCEPT !.xmits = a.xmits + 1, !.ss = a.ss \cup {"TIMEOUT_PENDING"},
                    !.challenges = a.challenges + 1]
  BY DEF SendChallenge
<1> HIDE DEF a, r
<1>3. a.xmits = e.xmits /\ a.ss = e.ss /\ a.challenges + 1 = 1
  BY <1>1 DEF Same, PppdFields, Sound, Counted
<1>4. r = [a EXCEPT !.xmits = e.xmits + 1, !.ss = e.ss \cup {"TIMEOUT_PENDING"}, !.challenges = 1]
  BY <1>2, <1>3
<1>5. Same(a, r, {"xmits", "ss", "challenges"}) /\ r.xmits = e.xmits + 1
      /\ r.ss = e.ss \cup {"TIMEOUT_PENDING"} /\ r.challenges = 1
  BY <1>1, <1>4 DEF Same, PppdFields
<1>6. Same(e, r, {"lcp", "xmits", "ss", "challenges"}) /\ r.lcp = a.lcp
  BY <1>1, <1>5 DEF Same, PppdFields
<1>7. Typed(r)
  <2>1. r.xmits \in 0..ChapMaxTransmits
    BY <1>5, PppdAssumption DEF Sound, Typed
  <2>2. r.ss \subseteq ChapFlags
    BY <1>5 DEF Sound, Typed, ChapFlags
  <2> QED
    BY <1>1, <1>6, <2>1, <2>2 DEF Same, PppdFields, Sound, Typed, Moves
<1>8. Counted(r)
  BY <1>5, <1>6 DEF Same, PppdFields, Sound, Counted
<1>9. Linked(r)
  BY <1>1, <1>6 DEF Same, PppdFields, Sound, Linked, Opened
<1> QED
  BY <1>1, <1>5, <1>6, <1>7, <1>8, <1>9 DEF Sound, Opened, Moves, r

(* chap_timeout starts by noting that its callout is off the list.         *)
Noted(e) == [e EXCEPT !.ss = e.ss \ {"TIMEOUT_PENDING"}]

LEMMA NotedSound ==
  ASSUME NEW e, Typed(e), Linked(e), Opened(e), e.challenges = 0,
         e.limits \in 0..1, e.limits > 0 => e.np = "up", e.echos = IF e.running THEN 1 ELSE 0
  PROVE  LET r == Noted(e) IN
         /\ Sound(r) /\ Opened(r) /\ Same(e, r, {"ss"})
         /\ r.ss = e.ss \ {"TIMEOUT_PENDING"}
<1> DEFINE r == Noted(e)
<1>1. Same(e, r, {"ss"}) /\ r.ss = e.ss \ {"TIMEOUT_PENDING"}
  BY DEF Same, PppdFields, Typed, Noted
<1> HIDE DEF r
<1>2. Typed(r)
  BY <1>1 DEF Same, PppdFields, Typed
<1>3. Counted(r) /\ Linked(r) /\ Opened(r)
  BY <1>1 DEF Same, PppdFields, Counted, Linked, Opened
<1> QED
  BY <1>1, <1>2, <1>3 DEF Sound, r

(* chap_timeout without a challenge pending makes a new one.               *)
LEMMA ChallengeMade ==
  ASSUME NEW e, Sound(Noted(e)), Opened(Noted(e)), Same(e, Noted(e), {"ss"}),
         "CHALLENGE_VALID" \notin e.ss, Noted(e).ss = e.ss \ {"TIMEOUT_PENDING"}
  PROVE  LET r == ChapTimeout(e) IN
         /\ Sound(r) /\ Opened(r) /\ r.lcp.wo = e.lcp.wo /\ r.lcp.go = e.lcp.go
         /\ Same(e, r, {"lcp", "xmits", "ss", "challenges", "chal"})
         /\ r.ss = e.ss \cup {"CHALLENGE_VALID", "TIMEOUT_PENDING"}
<1> DEFINE y == Noted(e)
           n == (y.chal + 1) % IdMod
           a == [y EXCEPT !.xmits = 0, !.chal = n, !.ss = y.ss \cup {"CHALLENGE_VALID"}]
<1>1. ChapTimeout(e) = SendChallenge(a)
  BY DEF ChapTimeout, Noted
<1>2. Sound(y) /\ Opened(y) /\ Same(e, y, {"ss"}) /\ y.ss = e.ss \ {"TIMEOUT_PENDING"}
  OBVIOUS
<1> HIDE DEF y
<1>3. n \in Ids
  BY <1>2, FsmAssumption DEF Sound, Typed, Ids
<1> HIDE DEF n
<1>4. Same(y, a, {"xmits", "chal", "ss"}) /\ a.xmits = 0 /\ a.chal = n
      /\ a.ss = y.ss \cup {"CHALLENGE_VALID"}
  BY <1>2 DEF Same, PppdFields, Sound, Typed
<1> HIDE DEF a
<1>5. a.xmits \in 0..ChapMaxTransmits /\ a.xmits < ChapMaxTransmits
  BY <1>4, PppdAssumption
<1>6. a.ss \subseteq ChapFlags /\ "TIMEOUT_PENDING" \notin a.ss
  BY <1>2, <1>4 DEF Sound, Typed, ChapFlags
<1>7. Typed(a)
  BY <1>2, <1>3, <1>4, <1>5, <1>6 DEF Same, PppdFields, Sound, Typed
<1>8. Sound(a) /\ Opened(a) /\ a.lcp = y.lcp
  BY <1>2, <1>4, <1>6, <1>7 DEF Same, PppdFields, Sound, Counted, Linked, Opened
<1> DEFINE r == SendChallenge(a)
<1>9. /\ Sound(r) /\ Opened(r) /\ r.lcp.wo = a.lcp.wo /\ r.lcp.go = a.lcp.go
      /\ Same(a, r, {"lcp", "xmits", "ss", "challenges"})
      /\ r.ss = a.ss \cup {"TIMEOUT_PENDING"}
  BY <1>5, <1>6, <1>8, ChallengeSent
<1> HIDE DEF r
<1>10. Same(e, r, {"lcp", "xmits", "ss", "challenges", "chal"})
  BY <1>2, <1>4, <1>9 DEF Same
<1>11. y.lcp = e.lcp
  BY <1>2 DEF Same, PppdFields
<1>12. r.ss = e.ss \cup {"CHALLENGE_VALID", "TIMEOUT_PENDING"}
  BY <1>2, <1>4, <1>9
<1> QED
  BY <1>1, <1>8, <1>9, <1>10, <1>11, <1>12 DEF r

(* link_established: the flags of CHAP and auth_pending start together,    *)
(* unless a peer that refused to authenticate is turned away; one that is  *)
(* let in without is held to the addresses of allow-ip.                    *)
LEMMA EstablishedRests ==
  ASSUME NEW e, Fresh(e)
  PROVE  Resting(LinkEstablished(e))
<1> DEFINE peer == e.lcp.go # {}
           with == e.lcp.ho # None
           auth == (IF peer THEN {"peer"} ELSE {}) \cup (IF with THEN {"withpeer"} ELSE {})
           held == e.noauth /\ (e.lcp.wo = {} \/ ~peer)
           up == ChapLowerup(e)
           a == [up EXCEPT !.phase = "AUTHENTICATE",
                           !.addrs = IF held THEN "noauth" ELSE up.addrs]
           b == IF peer THEN ChapAuthPeer(a) ELSE a
           w == IF with THEN ChapAuthWithPeer(b) ELSE b
           c == [w EXCEPT !.pending = auth]
<1>0. Sound(e) /\ Opened(e) /\ DOMAIN e = PppdFields /\ e.hungup = FALSE /\ e.phase # "DEAD"
  BY DEF Fresh, Sound, Typed, Carrier, Linked, Opened, Bare
<1>1. up = [e EXCEPT !.cs = e.cs \cup {"LOWERUP"}, !.ss = e.ss \cup {"LOWERUP"}]
  BY <1>0 DEF ChapLowerup, Fresh, PppdFields
<1>2. LinkEstablished(e) = IF e.lcp.wo # {} /\ ~peer /\ ~e.noauth THEN LcpClose(up)
                           ELSE IF auth = {} THEN NetworkPhase(c) ELSE c
  BY DEF LinkEstablished
<1> HIDE DEF up
<1>3. Same(e, up, {"cs", "ss"}) /\ up.cs = {"LOWERUP"} /\ up.ss = e.ss \cup {"LOWERUP"}
  BY <1>0, <1>1 DEF Same, PppdFields, Fresh
<1>4. Sound(up) /\ Opened(up) /\ Carrier(up)
  <2>1. Typed(up)
    BY <1>0, <1>3 DEF Same, PppdFields, Fresh, Sound, Typed, ChapFlags
  <2>2. Counted(up) /\ Linked(up)
    BY <1>0, <1>3 DEF Same, PppdFields, Fresh, Sound, Counted, Linked
  <2> QED
    BY <1>0, <1>3, <2>1, <2>2 DEF Same, PppdFields, Sound, Opened, Carrier
<1>5. CASE e.lcp.wo # {} /\ ~peer /\ ~e.noauth
  BY <1>2, <1>4, <1>5, CloseFalls DEF Falling, Resting
<1>6. CASE ~(e.lcp.wo # {} /\ ~peer /\ ~e.noauth)
  <2>1. Same(e, a, {"cs", "ss", "phase", "addrs"}) /\ a.phase = "AUTHENTICATE"
        /\ a.addrs = (IF held THEN "noauth" ELSE e.addrs)
        /\ a.cs = {"LOWERUP"} /\ a.ss = e.ss \cup {"LOWERUP"}
    BY <1>3 DEF Same, PppdFields
  <2> HIDE DEF a
  <2>2. Sound(a) /\ Opened(a)
    <3>1. Typed(a)
      BY <1>0, <2>1 DEF Same, PppdFields, Fresh, Sound, Typed, ChapFlags, Phases
    <3>2. Counted(a) /\ Linked(a)
      BY <1>0, <2>1 DEF Same, PppdFields, Fresh, Sound, Counted, Linked
    <3> QED
      BY <1>0, <2>1, <3>1, <3>2 DEF Same, PppdFields, Sound, Opened
  <2>3. /\ Sound(b) /\ Opened(b) /\ b.lcp.wo = e.lcp.wo /\ b.lcp.go = e.lcp.go
        /\ Same(e, b, {"cs", "ss", "phase", "addrs", "lcp", "xmits", "challenges", "chal"})
        /\ b.addrs = a.addrs
        /\ b.phase = "AUTHENTICATE" /\ b.cs = {"LOWERUP"}
        /\ b.ss = e.ss \cup (IF peer THEN {"LOWERUP", "AUTH_STARTED", "CHALLENGE_VALID", "TIMEOUT_PENDING"}
                             ELSE {"LOWERUP"})
    <3>1. CASE ~peer
      BY <2>1, <2>2, <3>1 DEF Same, PppdFields
    <3>2. CASE peer
      <4> DEFINE x == [a EXCEPT !.ss = a.ss \cup {"AUTH_STARTED"}, !.chal = a.dice]
                 r == ChapTimeout(x)
      <4>1. Same(e, x, {"cs", "ss", "phase", "addrs", "chal"}) /\ x.phase = "AUTHENTICATE"
            /\ x.addrs = a.addrs
            /\ x.cs = {"LOWERUP"} /\ x.ss = e.ss \cup {"LOWERUP", "AUTH_STARTED"}
            /\ x.chal = e.dice
        BY <2>1 DEF Same, PppdFields
      <4>2. ChapAuthPeer(a) = ChapTimeout(x)
        BY <2>1, <4>1 DEF ChapAuthPeer, Fresh
      <4> HIDE DEF x
      <4>3. Typed(x)
        BY <1>0, <2>1, <4>1 DEF Same, PppdFields, Fresh, Sound, Typed, ChapFlags, Phases
      <4>4. Counted(x) /\ Linked(x)
        BY <1>0, <4>1 DEF Same, PppdFields, Fresh, Sound, Counted, Linked
      <4>5. Sound(x) /\ Opened(x) /\ x.lcp = e.lcp
        BY <1>0, <4>1, <4>3, <4>4 DEF Same, PppdFields, Sound, Opened
      <4>6. Sound(r) /\ Opened(r) /\ r.lcp.wo = x.lcp.wo /\ r.lcp.go = x.lcp.go
            /\ Same(x, r, {"lcp", "xmits", "ss", "challenges", "chal"})
            /\ r.ss = x.ss \cup {"CHALLENGE_VALID", "TIMEOUT_PENDING"}
        <5>1. x.challenges = 0
          BY <4>1, <4>4 DEF Counted, Fresh
        <5>2. Sound(Noted(x)) /\ Opened(Noted(x)) /\ Same(x, Noted(x), {"ss"})
              /\ Noted(x).ss = x.ss \ {"TIMEOUT_PENDING"}
          BY <4>3, <4>4, <4>5, <5>1, NotedSound DEF Counted
        <5>3. "CHALLENGE_VALID" \notin x.ss
          BY <4>1 DEF Fresh
        <5> QED
          BY <5>2, <5>3, ChallengeMade
      <4>7. b = r
        BY <3>2, <4>2
      <4> HIDE DEF r
      <4>8. Same(e, r, {"cs", "ss", "phase", "addrs", "lcp", "xmits", "challenges", "chal"})
        BY <4>1, <4>6 DEF Same
      <4>9. r.phase = "AUTHENTICATE" /\ r.cs = {"LOWERUP"} /\ r.addrs = a.addrs
        BY <4>1, <4>6 DEF Same, PppdFields
      <4>10. r.ss = e.ss \cup {"LOWERUP", "AUTH_STARTED", "CHALLENGE_VALID", "TIMEOUT_PENDING"}
        BY <4>1, <4>6
      <4> QED
        BY <3>2, <4>5, <4>6, <4>7, <4>8, <4>9, <4>10
    <3> QED
      BY <3>1, <3>2
  <2> HIDE DEF b
  <2>4. Same(b, c, {"cs", "pending"}) /\ c.pending = auth
        /\ c.cs = b.cs \cup (IF with THEN {"AUTH_STARTED"} ELSE {})
    <3> HIDE DEF auth
    <3> QED
      BY <2>3 DEF Same, PppdFields, ChapAuthWithPeer
  <2> HIDE DEF c
  <2>5. Sound(c) /\ Opened(c) /\ c.hungup = FALSE /\ c.phase = "AUTHENTICATE" /\ c.lcp = b.lcp
        /\ c.np = "closed" /\ c.proven = FALSE /\ (EchoFails > 0 => c.running)
    <3>1. Typed(c)
      BY <2>3, <2>4 DEF Same, PppdFields, Sound, Typed, ChapFlags
    <3>2. Counted(c) /\ Linked(c)
      BY <2>3, <2>4 DEF Same, PppdFields, Sound, Counted, Linked
    <3>3. c.hungup = FALSE /\ c.phase = "AUTHENTICATE" /\ c.lcp = b.lcp
      BY <1>0, <2>3, <2>4 DEF Same, PppdFields
    <3>4. c.np = "closed" /\ c.proven = FALSE /\ (EchoFails > 0 => c.running)
      BY <2>3, <2>4 DEF Same, PppdFields, Fresh
    <3> QED
      BY <2>3, <3>1, <3>2, <3>3, <3>4 DEF Sound, Opened
  <2>6. UpChap(c)
    <3>1. c.ss = e.ss \cup (IF peer THEN {"LOWERUP", "AUTH_STARTED", "CHALLENGE_VALID", "TIMEOUT_PENDING"}
                             ELSE {"LOWERUP"})
      BY <2>3, <2>4 DEF Same, PppdFields
    <3>2. c.cs = {"LOWERUP"} \cup (IF with THEN {"AUTH_STARTED"} ELSE {})
      BY <2>3, <2>4
    <3>3. c.lcp.wo = e.lcp.wo /\ e.ss \subseteq {"AUTH_DONE"}
      BY <2>3, <2>5 DEF Fresh
    <3>6. c.lcp.wo # {} /\ ~peer => Admitted(c)
      <4>1. c.lcp.go = e.lcp.go /\ c.noauth = e.noauth /\ c.addrs = a.addrs
        BY <2>3, <2>4, <2>5 DEF Same, PppdFields
      <4> QED
        BY <1>6, <2>1, <3>3, <4>1 DEF Admitted
    <3> HIDE DEF peer, with
    <3>4. /\ "LOWERUP" \in c.ss /\ "LOWERUP" \in c.cs /\ "AUTH_FAILED" \notin c.ss
          /\ "AUTH_STARTED" \in c.ss <=> peer
          /\ "CHALLENGE_VALID" \in c.ss <=> peer
          /\ "TIMEOUT_PENDING" \in c.ss <=> peer
          /\ "AUTH_STARTED" \in c.cs <=> with
      BY <3>1, <3>2, <3>3
    <3>5. ("peer" \in c.pending <=> peer) /\ ("withpeer" \in c.pending <=> with)
      BY <2>4
    <3> QED
      BY <3>3, <3>4, <3>5, <3>6 DEF UpChap
  <2>7. CASE auth # {}
    BY <1>2, <1>6, <2>4, <2>5, <2>6, <2>7 DEF Resting, Standing, UpPhase, Carrier
  <2>8. CASE auth = {}
    <3> DEFINE r == NetworkPhase(c)
    <3>1. Same(c, r, {"phase", "np"}) /\ r.phase = "NETWORK" /\ r.np = "open"
      BY <2>4 DEF Same, PppdFields, NetworkPhase
    <3> HIDE DEF r
    <3>2. Sound(r) /\ Opened(r) /\ Carrier(r)
      <4>1. Typed(r)
        BY <2>5, <3>1 DEF Same, PppdFields, Sound, Typed, Phases
      <4>2. Counted(r) /\ Linked(r)
        BY <2>5, <3>1 DEF Same, PppdFields, Sound, Counted, Linked
      <4> QED
        BY <2>5, <3>1, <4>1, <4>2 DEF Same, PppdFields, Sound, Opened, Carrier
    <3>3. UpPhase(r)
      BY <2>4, <2>5, <2>8, <3>1 DEF Same, PppdFields, UpPhase
    <3>4. UpChap(r)
      BY <2>6, <3>1 DEF Same, PppdFields, UpChap, Admitted
    <3> QED
      BY <1>2, <1>6, <2>8, <3>2, <3>3, <3>4 DEF Resting, Standing, r
  <2> QED
    BY <2>7, <2>8
<1> QED
  BY <1>5, <1>6

(* The automaton moved: its callbacks leave the daemon in order.           *)
LEMMA SettleRests ==
  ASSUME NEW e, Resting(e), NEW g, Moves(e.lcp, g),
         (e.phase = "DEAD" \/ e.delayed) => g.state \in Bare
  PROVE  Resting(Settle(e, g))
<1>0. Sound(e) /\ Carrier(e) /\ Falling(e) /\ LcpOk(e.lcp) /\ LcpOk(g)
  BY DEF Resting, Fallen, Standing, Falling, Sound, Typed, Moves
<1>1. CASE g.state # "OPENED"
  <2>1. Settle(e, g) = Ended(e, g)
    BY <1>0, <1>1 DEF Settle, LcpOk
  <2> QED
    BY <1>0, <1>1, <2>1, EndedFalls DEF Resting
<1>2. CASE g.state = "OPENED" /\ Opened(e)
  <2> DEFINE h == [g EXCEPT !.finished = FALSE]
             x == [e EXCEPT !.lcp = h]
  <2>1. Moves(e.lcp, h) /\ h.state = g.state /\ h.up = g.up
    BY DEF Moves, LcpOk, LcpFields
  <2>2. Settle(e, g) = IF g.finished THEN LinkTerminated(x) ELSE x
    <3>1. g.up = 1 /\ e.lcp.up = 1
      BY <1>0, <1>2 DEF LcpOk, Opened
    <3> HIDE DEF h
    <3> QED
      BY <2>1, <3>1 DEF Settle, Ended, Lowered, h
  <2> HIDE DEF h
  <2>3. Standing(e)
    BY <1>2 DEF Resting, Fallen
  <2>4. Sound(x) /\ Same(e, x, {"lcp"}) /\ x.lcp = h /\ UpPhase(x) /\ UpChap(x)
    BY <1>2, <2>1, <2>3, LcpReplaced DEF Standing, Opened
  <2> HIDE DEF x
  <2>5. Standing(x) /\ Carrier(x)
    BY <1>0, <1>2, <2>1, <2>4 DEF Standing, Carrier, Opened, Same, PppdFields
  <2>6. LET r == LinkTerminated(x) IN Fallen(r) /\ Carrier(r)
    BY <2>5, TerminatedFalls DEF Standing, Falling, Carrier
  <2> QED
    BY <2>2, <2>5, <2>6 DEF Resting
<1>3. CASE g.state = "OPENED" /\ ~Opened(e)
  <2> DEFINE x == [e EXCEPT !.lcp = g]
  <2>1. Settle(e, g) = LcpUp(x)
    BY <1>0, <1>3 DEF Settle, LcpOk, Opened
  <2>2. Sound(x) /\ Same(e, x, {"lcp"}) /\ x.lcp = g /\ DownPart(x)
    BY <1>0, <1>3, LcpReplaced DEF Falling
  <2> HIDE DEF x
  <2>3. Opened(x) /\ Carrier(x)
    BY <1>0, <1>3, <2>2 DEF Opened, Carrier, Same, PppdFields
  <2>4. Fresh(LcpEchoLowerup(x))
    BY <2>2, <2>3, EchoUp
  <2> QED
    BY <2>1, <2>4, EstablishedRests DEF LcpUp
<1> QED
  BY <1>1, <1>2, <1>3

(* auth_peer_success and auth_withpeer_success.                            *)
LEMMA SuccessRests ==
  ASSUME NEW e, Sound(e), Opened(e), Carrier(e), UpPhase(e), NEW bit, bit \in e.pending
  PROVE  LET r == AuthSuccess(e, bit) IN
         /\ Sound(r) /\ Opened(r) /\ Carrier(r) /\ UpPhase(r)
         /\ Same(e, r, {"pending", "phase", "np"})
         /\ r.pending = e.pending \ {bit}
<1> DEFINE x == [e EXCEPT !.pending = e.pending \ {bit}]
           n == NetworkPhase(x)
           r == AuthSuccess(e, bit)
<1>1. Same(e, x, {"pending"}) /\ x.pending = e.pending \ {bit}
  BY DEF Same, PppdFields, Sound, Typed
<1>2. e.phase = "AUTHENTICATE" /\ e.np = "closed"
  BY DEF UpPhase
<1>3. r = IF x.pending = {} THEN n ELSE x
  BY DEF AuthSuccess
<1> HIDE DEF x
<1>4. x.pending \subseteq {"peer", "withpeer"}
  BY <1>1 DEF Sound, Typed
<1>5. CASE x.pending # {}
  <2>1. Typed(x)
    BY <1>1, <1>4 DEF Same, PppdFields, Sound, Typed
  <2>2. Counted(x) /\ Linked(x)
    BY <1>1 DEF Same, PppdFields, Sound, Counted, Linked
  <2>3. Opened(x) /\ Carrier(x)
    BY <1>1 DEF Same, PppdFields, Opened, Carrier
  <2>4. UpPhase(x)
    BY <1>1, <1>2, <1>5 DEF Same, PppdFields, UpPhase
  <2>5. Same(e, x, {"pending", "phase", "np"})
    BY <1>1 DEF Same
  <2> QED
    BY <1>1, <1>3, <1>5, <2>1, <2>2, <2>3, <2>4, <2>5 DEF Sound, r
<1>6. CASE x.pending = {}
  <2>1. Same(e, n, {"pending", "phase", "np"}) /\ n.phase = "NETWORK" /\ n.np = "open"
        /\ n.pending = e.pending \ {bit} /\ n.pending = {}
    BY <1>1, <1>6 DEF Same, PppdFields, NetworkPhase
  <2> HIDE DEF n
  <2>2. Typed(n)
    BY <2>1 DEF Same, PppdFields, Sound, Typed, Phases
  <2>3. Counted(n) /\ Linked(n)
    BY <1>2, <2>1 DEF Same, PppdFields, Sound, Counted, Linked
  <2>4. Opened(n) /\ Carrier(n)
    BY <1>2, <2>1 DEF Same, PppdFields, Opened, Carrier
  <2>5. UpPhase(n)
    BY <2>1 DEF Same, PppdFields, UpPhase
  <2> QED
    BY <1>3, <1>6, <2>1, <2>2, <2>3, <2>4, <2>5 DEF Sound, r
<1> QED
  BY <1>5, <1>6

(* A packet sent while LCP is open.                                        *)
LEMMA OutputStands ==
  ASSUME NEW e, Standing(e), NEW code, NEW id, NEW opt
  PROVE  LET r == Output(e, code, id, opt) IN
         Standing(r) /\ Same(e, r, {"lcp"}) /\ r.lcp.wo = e.lcp.wo
<1> DEFINE r == Output(e, code, id, opt)
<1>1. Same(e, r, {"lcp"}) /\ Moves(e.lcp, r.lcp) /\ r.lcp.state = e.lcp.state
  BY OutputSame DEF Standing
<1> HIDE DEF r
<1>2. Typed(r) /\ Counted(r)
  BY <1>1 DEF Same, PppdFields, Standing, Sound, Typed, Counted, Moves
<1>3. Linked(r) /\ Opened(r)
  BY <1>1 DEF Same, PppdFields, Standing, Sound, Linked, Opened
<1>4. UpPhase(r) /\ UpChap(r)
  BY <1>1 DEF Same, PppdFields, Standing, Opened, UpPhase, UpChap, Admitted, Moves
<1> QED
  BY <1>1, <1>2, <1>3, <1>4 DEF Standing, Sound, Moves, r

(* chap_timeout, when its callout fires: a challenge, or the end.          *)
LEMMA ChapTimeoutRests ==
  ASSUME NEW e, Resting(e), e.challenges > 0
  PROVE  Resting(ChapTimeout([e EXCEPT !.challenges = Less(e.challenges)]))
<1>1. Standing(e) /\ Carrier(e) /\ "TIMEOUT_PENDING" \in e.ss /\ e.challenges = 1
  BY DEF Resting, Fallen, Standing, Sound, Counted, DownPart
<1> DEFINE x == [e EXCEPT !.challenges = Less(e.challenges)]
           y == Noted(x)
<1>2. Same(e, x, {"challenges"}) /\ x.challenges = 0
  BY <1>1, LessOf DEF Same, PppdFields, Standing, Sound, Typed
<1> HIDE DEF x
<1>3. Typed(x) /\ Linked(x) /\ Opened(x)
  BY <1>1, <1>2 DEF Same, PppdFields, Standing, Sound, Typed, Linked, Opened
<1>4. Sound(y) /\ Opened(y) /\ Same(x, y, {"ss"}) /\ y.ss = x.ss \ {"TIMEOUT_PENDING"}
  <2>1. x.limits \in 0..1 /\ (x.limits > 0 => x.np = "up")
        /\ x.echos = IF x.running THEN 1 ELSE 0
    BY <1>1, <1>2 DEF Same, PppdFields, Standing, Sound, Counted
  <2> QED
    BY <1>2, <1>3, <2>1, NotedSound
<1>5. Same(e, y, {"challenges", "ss"}) /\ y.ss = e.ss \ {"TIMEOUT_PENDING"} /\ x.ss = e.ss
  BY <1>2, <1>4 DEF Same, PppdFields
<1> DEFINE r == ChapTimeout(x)
<1>6. ASSUME Sound(r), Opened(r), r.lcp.wo = e.lcp.wo, r.lcp.go = e.lcp.go,
             "TIMEOUT_PENDING" \in r.ss,
             Same(e, r, {"lcp", "xmits", "ss", "challenges", "chal"}),
             r.ss \in {e.ss, e.ss \cup {"CHALLENGE_VALID"}}
      PROVE  Resting(r)
  <2> HIDE DEF r
  <2>1. UpPhase(r) /\ Carrier(r)
    BY <1>1, <1>6 DEF Same, PppdFields, Standing, UpPhase, Carrier
  <2>2. UpChap(r)
    BY <1>1, <1>6 DEF Same, PppdFields, Standing, UpChap, Admitted
  <2> QED
    BY <1>6, <2>1, <2>2 DEF Resting, Standing
<1>7. CASE "CHALLENGE_VALID" \notin e.ss
  <2>1. /\ Sound(r) /\ Opened(r) /\ r.lcp.wo = x.lcp.wo /\ r.lcp.go = x.lcp.go
        /\ Same(x, r, {"lcp", "xmits", "ss", "challenges", "chal"})
        /\ r.ss = x.ss \cup {"CHALLENGE_VALID", "TIMEOUT_PENDING"}
    BY <1>4, <1>5, <1>7, ChallengeMade
  <2> HIDE DEF r
  <2>2. Same(e, r, {"lcp", "xmits", "ss", "challenges", "chal"})
    BY <1>2, <2>1 DEF Same
  <2>3. r.lcp.wo = e.lcp.wo /\ r.lcp.go = e.lcp.go
    BY <1>2, <2>1 DEF Same, PppdFields
  <2>4. r.ss = e.ss \cup {"CHALLENGE_VALID"}
    BY <1>1, <1>5, <2>1
  <2>5. Resting(r)
    BY <1>1, <1>6, <2>1, <2>2, <2>3, <2>4
  <2> QED
    BY <2>5 DEF r, x
<1>8. CASE "CHALLENGE_VALID" \in e.ss /\ e.xmits >= ChapMaxTransmits
  <2> DEFINE z == [y EXCEPT !.ss = (y.ss \ {"CHALLENGE_VALID"}) \cup {"AUTH_DONE", "AUTH_FAILED"}]
  <2>1. r = LcpClose(z)
    <3>1. y.xmits = e.xmits
      BY <1>5 DEF Same, PppdFields
    <3> QED
      BY <1>5, <1>8, <3>1 DEF ChapTimeout, Noted, AuthFail
  <2>2. Same(y, z, {"ss"}) /\ z.ss = (y.ss \ {"CHALLENGE_VALID"}) \cup {"AUTH_DONE", "AUTH_FAILED"}
    BY <1>4 DEF Same, PppdFields
  <2> HIDE DEF z, y
  <2>3. z.ss \subseteq ChapFlags /\ "TIMEOUT_PENDING" \notin z.ss /\ "TIMEOUT_PENDING" \notin y.ss
    BY <1>4, <2>2 DEF Sound, Typed, ChapFlags
  <2>4. Typed(z)
    BY <1>4, <2>2, <2>3 DEF Same, PppdFields, Sound, Typed
  <2>5. Counted(z) /\ Linked(z) /\ Opened(z)
    BY <1>4, <2>2, <2>3 DEF Same, PppdFields, Sound, Counted, Linked, Opened
  <2>6. Carrier(z)
    BY <1>1, <1>5, <2>2 DEF Same, PppdFields, Carrier
  <2>7. Resting(LcpClose(z))
    BY <2>4, <2>5, <2>6, CloseFalls DEF Falling, Sound, Resting
  <2> QED
    BY <2>1, <2>7 DEF x
<1>9. CASE "CHALLENGE_VALID" \in e.ss /\ ~(e.xmits >= ChapMaxTransmits)
  <2>0. y.xmits = e.xmits
    BY <1>5 DEF Same, PppdFields
  <2>1. r = SendChallenge(y)
    BY <1>5, <1>9, <2>0 DEF ChapTimeout, Noted
  <2>2. y.xmits < ChapMaxTransmits
    BY <1>4, <1>9, <2>0, PppdAssumption DEF Sound, Typed
  <2>3. /\ Sound(r) /\ Opened(r) /\ r.lcp.wo = y.lcp.wo /\ r.lcp.go = y.lcp.go
        /\ Same(y, r, {"lcp", "xmits", "ss", "challenges"})
        /\ r.ss = y.ss \cup {"TIMEOUT_PENDING"}
    BY <1>4, <2>1, <2>2, ChallengeSent
  <2> HIDE DEF r, y
  <2>4. Same(e, r, {"lcp", "xmits", "ss", "challenges", "chal"})
    BY <1>5, <2>3 DEF Same
  <2>5. r.lcp.wo = e.lcp.wo /\ r.lcp.go = e.lcp.go
    BY <1>5, <2>3 DEF Same, PppdFields
  <2>6. r.ss = e.ss
    BY <1>1, <1>5, <2>3
  <2>7. Resting(r)
    BY <1>1, <1>6, <2>3, <2>4, <2>5, <2>6
  <2> QED
    BY <2>7 DEF r, x
<1> QED
  BY <1>7, <1>8, <1>9

(* chap_handle_response with a challenge pending: the verdict.  A wrong    *)
(* response closes the link and AUTH_DONE is set after that; a right one   *)
(* is what the network phase waits for.                                    *)
LEMMA JudgedRests ==
  ASSUME NEW e, Standing(e), Carrier(e), "CHALLENGE_VALID" \in e.ss, NEW id, NEW answer,
         id = e.chal
  PROVE  Resting(ChapHandleResponse(e, id, answer))
<1> DEFINE ok == answer = "right"
           addrs == IF answer = "nobody" THEN e.addrs ELSE "secret"
           bad == IF ok THEN {} ELSE {"AUTH_FAILED"}
           a == [e EXCEPT !.ss = (e.ss \ {"TIMEOUT_PENDING"}) \cup bad,
                          !.challenges = IF "TIMEOUT_PENDING" \in e.ss THEN Less(e.challenges)
                                         ELSE e.challenges,
                          !.addrs = addrs,
                          !.proven = e.proven \/ ok]
           b == Output(a, IF "AUTH_FAILED" \in a.ss THEN "FAILURE" ELSE "SUCCESS", id, None)
           v == [b EXCEPT !.ss = b.ss \ {"CHALLENGE_VALID"}]
<1>0. /\ Sound(e) /\ Opened(e) /\ DOMAIN e = PppdFields /\ "TIMEOUT_PENDING" \in e.ss
      /\ "AUTH_STARTED" \in e.ss /\ "AUTH_FAILED" \notin e.ss /\ e.challenges = 1
      /\ e.proven \in BOOLEAN /\ e.ss \subseteq ChapFlags /\ "LOWERUP" \in e.ss
      /\ addrs \in {"none", "noauth", "secret"} /\ (ok => addrs = "secret")
  BY DEF Standing, Sound, Typed, Counted, UpChap
<1>1. Same(e, a, {"ss", "challenges", "addrs", "proven"}) /\ a.addrs = addrs /\ a.ss = (e.ss \ {"TIMEOUT_PENDING"}) \cup bad
      /\ a.challenges = 0 /\ a.proven = (e.proven \/ ok)
  <2> HIDE DEF bad, addrs, ok
  <2> QED
    BY <1>0, LessOf DEF Same, PppdFields
<1>2. ChapHandleResponse(e, id, answer) = Verdict(b)
  BY <1>0 DEF ChapHandleResponse
<1> HIDE DEF a, addrs, ok
<1>3. Typed(a) /\ Counted(a) /\ Linked(a)
  <2>1. a.ss \subseteq ChapFlags /\ "TIMEOUT_PENDING" \notin a.ss /\ a.proven \in BOOLEAN
    BY <1>0, <1>1 DEF ChapFlags
  <2>2. Typed(a)
    BY <1>0, <1>1, <2>1 DEF Same, PppdFields, Sound, Typed
  <2> QED
    BY <1>0, <1>1, <2>1, <2>2 DEF Same, PppdFields, Sound, Counted, Linked
<1>4. Same(a, b, {"lcp"}) /\ Moves(a.lcp, b.lcp) /\ b.lcp.state = a.lcp.state
  BY <1>3, OutputSame DEF Sound
<1> HIDE DEF b
<1>5. Same(e, v, {"ss", "challenges", "addrs", "proven", "lcp"}) /\ v.addrs = addrs
      /\ v.ss = ((e.ss \ {"TIMEOUT_PENDING"}) \cup bad) \ {"CHALLENGE_VALID"}
      /\ v.challenges = 0 /\ v.proven = (e.proven \/ ok) /\ v.lcp = b.lcp
  <2> HIDE DEF bad
  <2> QED
    BY <1>1, <1>4 DEF Same, PppdFields
<1>6. v.lcp.wo = e.lcp.wo /\ LcpOk(v.lcp) /\ v.lcp.state = "OPENED"
  BY <1>0, <1>1, <1>4, <1>5 DEF Same, PppdFields, Moves, Opened
<1> DEFINE s == IF "AUTH_DONE" \in v.ss THEN v ELSE AuthSuccess(v, "peer")
           t == IF Rechallenge
                THEN [s EXCEPT !.ss = s.ss \cup {"TIMEOUT_PENDING"}, !.challenges = s.challenges + 1]
                ELSE s
           done == IF "AUTH_FAILED" \in v.ss THEN AuthFail(v) ELSE t
           r == [done EXCEPT !.ss = done.ss \cup {"AUTH_DONE"}]
<1>7. Verdict(b) = r
  BY DEF Verdict
<1> HIDE DEF v
<1>8. v.ss \subseteq ChapFlags /\ "TIMEOUT_PENDING" \notin v.ss /\ v.proven \in BOOLEAN
  BY <1>0, <1>5 DEF ChapFlags
<1>9. Sound(v) /\ Opened(v) /\ Carrier(v)
  <2>1. Typed(v)
    BY <1>0, <1>5, <1>6, <1>8 DEF Same, PppdFields, Sound, Typed
  <2>2. Counted(v)
    BY <1>0, <1>5, <1>8 DEF Same, PppdFields, Sound, Counted
  <2>3. Linked(v)
    BY <1>0, <1>5, <1>6 DEF Same, PppdFields, Sound, Linked, Opened
  <2> QED
    BY <1>5, <1>6, <2>1, <2>2, <2>3 DEF Same, PppdFields, Sound, Opened, Carrier
<1>10. CASE ~ok
  <2>1. done = LcpClose(v)
    BY <1>5, <1>10 DEF AuthFail
  <2>2. Fallen(done) /\ Carrier(done)
    BY <1>9, <2>1, CloseFalls DEF Falling
  <2> HIDE DEF done
  <2>3. Same(done, r, {"ss"}) /\ r.ss = done.ss \cup {"AUTH_DONE"}
    BY <2>2 DEF Same, PppdFields, Fallen, Sound, Typed
  <2> HIDE DEF r
  <2>4. Typed(r)
    BY <2>2, <2>3 DEF Same, PppdFields, Fallen, Sound, Typed, ChapFlags
  <2>5. Counted(r) /\ Linked(r)
    BY <2>2, <2>3 DEF Same, PppdFields, Fallen, DownPart, Sound, Counted, Linked
  <2>6. DownPart(r) /\ ~Opened(r) /\ Carrier(r)
    BY <2>2, <2>3 DEF Same, PppdFields, Fallen, DownPart, Opened, Carrier
  <2>7. Resting(r)
    BY <2>4, <2>5, <2>6 DEF Resting, Fallen, Sound
  <2> QED
    BY <1>2, <1>7, <2>7 DEF r, done
<1>11. CASE ok
  <2>1. v.ss = e.ss \ {"TIMEOUT_PENDING", "CHALLENGE_VALID"} /\ v.proven = TRUE
        /\ v.addrs = "secret"
    BY <1>0, <1>5, <1>11
  <2>2. UpPhase(v)
    BY <1>5 DEF Same, PppdFields, Standing, UpPhase
  <2>3. /\ Sound(s) /\ Opened(s) /\ Carrier(s) /\ UpPhase(s)
        /\ Same(v, s, {"pending", "phase", "np"})
        /\ s.pending = IF "AUTH_DONE" \in v.ss THEN v.pending ELSE v.pending \ {"peer"}
    <3>1. CASE "AUTH_DONE" \in v.ss
      BY <1>9, <2>2, <3>1 DEF Same, Sound, Typed
    <3>2. CASE "AUTH_DONE" \notin v.ss
      <4>1. "peer" \in v.pending
        BY <1>0, <1>5, <2>1, <3>2 DEF Standing, UpChap, Same, PppdFields
      <4> QED
        BY <1>9, <2>2, <3>2, <4>1, SuccessRests
    <3> QED
      BY <3>1, <3>2
  <2>4. done = t
    BY <1>0, <2>1
  <2> HIDE DEF s
  <2>5. s.ss = e.ss \ {"TIMEOUT_PENDING", "CHALLENGE_VALID"} /\ s.proven = TRUE
        /\ s.addrs = "secret" /\ s.challenges + 1 = 1 /\ s.challenges = 0 /\ DOMAIN s = PppdFields
    BY <1>5, <2>1, <2>3 DEF Same, PppdFields
  <2>6. Same(s, t, {"ss", "challenges"})
        /\ t.ss = s.ss \cup (IF Rechallenge THEN {"TIMEOUT_PENDING"} ELSE {})
        /\ t.challenges = IF Rechallenge THEN 1 ELSE 0
    <3>1. CASE Rechallenge
      <4>1. t = [s EXCEPT !.ss = s.ss \cup {"TIMEOUT_PENDING"}, !.challenges = 1]
        BY <2>5, <3>1
      <4> HIDE DEF t
      <4> QED
        BY <2>5, <3>1, <4>1 DEF Same, PppdFields
    <3>2. CASE ~Rechallenge
      BY <2>5, <3>2 DEF Same, PppdFields
    <3> QED
      BY <3>1, <3>2
  <2> HIDE DEF t, done
  <2>7. Same(s, r, {"ss", "challenges"}) /\ r.challenges = (IF Rechallenge THEN 1 ELSE 0)
        /\ r.ss = t.ss \cup {"AUTH_DONE"}
    BY <2>4, <2>6 DEF Same, PppdFields
  <2>8. r.ss = (e.ss \ {"TIMEOUT_PENDING", "CHALLENGE_VALID"}) \cup {"AUTH_DONE"}
                 \cup (IF Rechallenge THEN {"TIMEOUT_PENDING"} ELSE {})
    BY <2>5, <2>6, <2>7
  <2> HIDE DEF r
  <2>9. r.ss \subseteq ChapFlags /\ ("TIMEOUT_PENDING" \in r.ss <=> Rechallenge)
        /\ "LOWERUP" \in r.ss /\ "AUTH_STARTED" \in r.ss /\ "AUTH_DONE" \in r.ss
        /\ "AUTH_FAILED" \notin r.ss /\ "CHALLENGE_VALID" \notin r.ss
    BY <1>0, <2>8 DEF ChapFlags
  <2>10. Typed(r)
    BY <2>3, <2>7, <2>9 DEF Same, PppdFields, Sound, Typed
  <2>11. Counted(r) /\ Linked(r)
    BY <2>3, <2>7, <2>9 DEF Same, PppdFields, Sound, Counted, Linked
  <2>12. Opened(r) /\ Carrier(r) /\ UpPhase(r)
    BY <2>3, <2>7 DEF Same, PppdFields, Opened, Carrier, UpPhase
  <2>13. UpChap(r)
    <3>1. r.proven = TRUE /\ r.addrs = "secret"
      BY <2>5, <2>7 DEF Same, PppdFields
    <3>2. r.cs = e.cs
      BY <1>5, <2>3, <2>7 DEF Same, PppdFields
    <3>3. r.pending \in {e.pending, e.pending \ {"peer"}}
      BY <1>5, <2>3, <2>7 DEF Same, PppdFields
    <3> QED
      BY <2>9, <3>1, <3>2, <3>3 DEF UpChap, Admitted, Standing
  <2>14. Resting(r)
    BY <2>10, <2>11, <2>12, <2>13 DEF Resting, Standing, Sound
  <2> QED
    BY <1>2, <1>7, <2>14
<1> QED
  BY <1>10, <1>11

LEMMA ResponseRests ==
  ASSUME NEW e, Standing(e), Carrier(e), NEW id, NEW answer
  PROVE  Resting(ChapHandleResponse(e, id, answer))
<1> DEFINE code == IF "AUTH_FAILED" \in e.ss THEN "FAILURE" ELSE "SUCCESS"
           b == Output(e, code, id, None)
<1>0. Resting(e)
  BY DEF Resting
<1>1. CASE id = e.chal /\ "CHALLENGE_VALID" \in e.ss
  BY <1>1, JudgedRests
<1>2. CASE ~(id = e.chal /\ "CHALLENGE_VALID" \in e.ss)
  <2>1. ChapHandleResponse(e, id, answer) \in {e, b}
    BY <1>2 DEF ChapHandleResponse
  <2> HIDE DEF code
  <2>2. Standing(b) /\ Same(e, b, {"lcp"})
    BY OutputStands
  <2> HIDE DEF b
  <2>3. Resting(b)
    BY <2>2 DEF Resting, Carrier, Same, PppdFields
  <2> QED
    BY <1>0, <2>1, <2>3
<1> QED
  BY <1>1, <1>2

(* chap_handle_status: the peer's verdict on us.                           *)
LEMMA StatusRests ==
  ASSUME NEW e, Standing(e), Carrier(e), NEW code
  PROVE  Resting(ChapHandleStatus(e, code))
<1> DEFINE x == [e EXCEPT !.cs = e.cs \cup {"AUTH_DONE"}]
           y == [x EXCEPT !.cs = x.cs \cup {"AUTH_FAILED"}]
<1>0. Sound(e) /\ Opened(e) /\ DOMAIN e = PppdFields /\ e.cs \subseteq ChapFlags
  BY DEF Standing, Sound, Typed
<1>1. Same(e, x, {"cs"}) /\ x.cs = e.cs \cup {"AUTH_DONE"}
  BY <1>0 DEF Same, PppdFields
<1>2. CASE ~({"LOWERUP", "AUTH_STARTED"} \subseteq e.cs /\ "AUTH_DONE" \notin e.cs)
  BY <1>2 DEF ChapHandleStatus, Resting
<1>3. CASE {"LOWERUP", "AUTH_STARTED"} \subseteq e.cs /\ "AUTH_DONE" \notin e.cs /\ code = "SUCCESS"
  <2> DEFINE r == AuthSuccess(x, "withpeer")
  <2>1. ChapHandleStatus(e, code) = r
    BY <1>3 DEF ChapHandleStatus
  <2> HIDE DEF x
  <2>2. Sound(x) /\ Opened(x) /\ Carrier(x) /\ UpPhase(x)
    <3>1. Typed(x)
      BY <1>0, <1>1 DEF Same, PppdFields, Sound, Typed, ChapFlags
    <3>2. Counted(x) /\ Linked(x)
      BY <1>0, <1>1 DEF Same, PppdFields, Sound, Counted, Linked
    <3> QED
      BY <1>0, <1>1, <3>1, <3>2 DEF Same, PppdFields, Sound, Opened, Carrier, UpPhase, Standing
  <2>3. "withpeer" \in x.pending
    BY <1>1, <1>3 DEF Same, PppdFields, Standing, UpChap
  <2>4. /\ Sound(r) /\ Opened(r) /\ Carrier(r) /\ UpPhase(r)
        /\ Same(x, r, {"pending", "phase", "np"})
        /\ r.pending = x.pending \ {"withpeer"}
    BY <2>2, <2>3, SuccessRests
  <2> HIDE DEF r
  <2>5. UpChap(r)
    <3>1. r.ss = e.ss /\ r.cs = e.cs \cup {"AUTH_DONE"} /\ r.proven = e.proven /\ r.lcp = e.lcp
          /\ r.pending = e.pending \ {"withpeer"} /\ r.addrs = e.addrs /\ r.noauth = e.noauth
      BY <1>1, <2>4 DEF Same, PppdFields
    <3> QED
      BY <3>1 DEF UpChap, Admitted, Standing
  <2> QED
    BY <2>1, <2>4, <2>5 DEF Resting, Standing
<1>4. CASE {"LOWERUP", "AUTH_STARTED"} \subseteq e.cs /\ "AUTH_DONE" \notin e.cs /\ code # "SUCCESS"
  <2>1. ChapHandleStatus(e, code) = LcpClose(y)
    BY <1>4 DEF ChapHandleStatus, AuthFail
  <2> HIDE DEF x
  <2>2. Same(e, y, {"cs"}) /\ y.cs = e.cs \cup {"AUTH_DONE", "AUTH_FAILED"}
    BY <1>1 DEF Same, PppdFields
  <2> HIDE DEF y
  <2>3. Typed(y)
    BY <1>0, <2>2 DEF Same, PppdFields, Sound, Typed, ChapFlags
  <2>4. Counted(y) /\ Linked(y) /\ Opened(y) /\ Carrier(y)
    BY <1>0, <2>2 DEF Same, PppdFields, Sound, Counted, Linked, Opened, Carrier
  <2> QED
    BY <2>1, <2>3, <2>4, CloseFalls DEF Falling, Sound, Resting
<1> QED
  BY <1>2, <1>3, <1>4

(* chap_protrej: whichever role CHAP was in, the link ends.                *)
LEMMA ChapProtrejRests ==
  ASSUME NEW e, Standing(e), Carrier(e)
  PROVE  Resting(ChapProtrej(e))
<1> DEFINE a == [e EXCEPT !.ss = e.ss \ {"TIMEOUT_PENDING"},
                          !.challenges = IF "TIMEOUT_PENDING" \in e.ss THEN Less(e.challenges)
                                         ELSE e.challenges]
           z == [a EXCEPT !.ss = {}]
           b == IF "AUTH_STARTED" \in a.ss THEN AuthFail(z) ELSE a
           y == [b EXCEPT !.cs = b.cs \ {"AUTH_STARTED"}]
<1>0. Sound(e) /\ Opened(e) /\ DOMAIN e = PppdFields
      /\ e.challenges = IF "TIMEOUT_PENDING" \in e.ss THEN 1 ELSE 0
  BY DEF Standing, Sound, Typed, Counted
<1>1. ChapProtrej(e) = IF "AUTH_STARTED" \in b.cs /\ "AUTH_DONE" \notin b.cs THEN AuthFail(y) ELSE b
  BY DEF ChapProtrej
<1>2. Same(e, a, {"ss", "challenges"}) /\ a.ss = e.ss \ {"TIMEOUT_PENDING"} /\ a.challenges = 0
  <2>1. a = [e EXCEPT !.ss = e.ss \ {"TIMEOUT_PENDING"}, !.challenges = 0]
    BY <1>0, LessOf
  <2> HIDE DEF a
  <2> QED
    BY <1>0, <2>1 DEF Same, PppdFields
<1> HIDE DEF a
<1>3. Sound(a) /\ Opened(a) /\ Carrier(a)
  <2>1. Typed(a)
    BY <1>0, <1>2 DEF Same, PppdFields, Sound, Typed
  <2>2. Counted(a) /\ Linked(a)
    BY <1>0, <1>2 DEF Same, PppdFields, Sound, Counted, Linked
  <2> QED
    BY <1>0, <1>2, <2>1, <2>2 DEF Same, PppdFields, Sound, Opened, Carrier
<1>4. CASE "AUTH_STARTED" \in a.ss
  <2>1. Same(a, z, {"ss"}) /\ z.ss = {}
    BY <1>2 DEF Same, PppdFields
  <2> HIDE DEF z
  <2>2. Typed(z)
    BY <1>3, <2>1 DEF Same, PppdFields, Sound, Typed
  <2>3. a.challenges = 0 /\ Counted(z) /\ Linked(z) /\ Opened(z) /\ Carrier(z)
    BY <1>2, <1>3, <2>1 DEF Same, PppdFields, Sound, Counted, Linked, Opened, Carrier
  <2>4. b = LcpClose(z)
    BY <1>4 DEF AuthFail
  <2>5. Fallen(b) /\ Carrier(b)
    BY <2>2, <2>3, <2>4, CloseFalls DEF Falling, Sound
  <2>6. b.cs = {}
    BY <2>5 DEF Fallen, DownPart
  <2> HIDE DEF b
  <2> QED
    BY <1>1, <2>5, <2>6 DEF Resting
<1>5. CASE "AUTH_STARTED" \notin a.ss
  <2>1. b = a
    BY <1>5
  <2> HIDE DEF b
  <2>2. Standing(a)
    <3>1. UpPhase(a)
      BY <1>2 DEF Same, PppdFields, Standing, UpPhase
    <3>2. "AUTH_STARTED" \notin e.ss
      BY <1>2, <1>5
    <3>3. a.ss = e.ss
      BY <1>2, <3>2 DEF Standing, UpChap
    <3>4. UpChap(a)
      BY <1>2, <3>3 DEF Same, PppdFields, Standing, UpChap, Admitted
    <3> QED
      BY <1>3, <3>1, <3>4 DEF Standing
  <2>3. Resting(a)
    BY <1>3, <2>2 DEF Resting
  <2>4. Same(a, y, {"cs"}) /\ y.cs = a.cs \ {"AUTH_STARTED"}
    BY <1>2, <2>1 DEF Same, PppdFields
  <2> HIDE DEF y
  <2>5. Typed(y)
    BY <1>3, <2>4 DEF Same, PppdFields, Sound, Typed
  <2>6. Counted(y) /\ Linked(y) /\ Opened(y) /\ Carrier(y)
    BY <1>3, <2>4 DEF Same, PppdFields, Sound, Counted, Linked, Opened, Carrier
  <2>7. Resting(LcpClose(y))
    BY <2>5, <2>6, CloseFalls DEF Falling, Sound, Resting
  <2> QED
    BY <1>1, <2>1, <2>3, <2>7 DEF AuthFail
<1> QED
  BY <1>4, <1>5

(* An assignment to unanswered.                                            *)
LEMMA AnsweredRests ==
  ASSUME NEW e, Resting(e)
  PROVE  Resting([e EXCEPT !.unanswered = 0])
<1> DEFINE r == [e EXCEPT !.unanswered = 0]
<1>0. Sound(e)
  BY DEF Resting, Fallen, Standing
<1>1. Same(e, r, {"unanswered"}) /\ r.unanswered = 0
  BY <1>0 DEF Same, PppdFields, Sound, Typed
<1> HIDE DEF r
<1>2. r.unanswered \in 0..EchoFails
  BY <1>1, PppdAssumption
<1>3. Typed(r)
  BY <1>0, <1>1, <1>2 DEF Same, PppdFields, Sound, Typed
<1>4. Counted(r) /\ Linked(r) /\ (Carrier(e) => Carrier(r)) /\ (Opened(r) <=> Opened(e))
  BY <1>0, <1>1 DEF Same, PppdFields, Sound, Counted, Linked, Carrier, Opened
<1>5. (DownPart(e) => DownPart(r)) /\ (UpPhase(e) => UpPhase(r)) /\ (UpChap(e) => UpChap(r))
  BY <1>1 DEF Same, PppdFields, DownPart, UpPhase, UpChap, Admitted
<1>6. Resting(r)
  BY <1>3, <1>4, <1>5 DEF Resting, Fallen, Standing, Sound
<1> QED
  BY <1>6 DEF r

LEMMA StandingIs ==
  ASSUME NEW e, Resting(e)
  PROVE  /\ Sound(e) /\ Carrier(e) /\ LcpOk(e.lcp) /\ Falling(e)
         /\ Opened(e) <=> Standing(e)
         /\ ~Opened(e) <=> Fallen(e)
BY DEF Resting, Fallen, Standing, Falling, Sound, Typed

LEMMA ExtcodeRests ==
  ASSUME NEW e, Resting(e), NEW p
  PROVE  Resting(LcpExtcode(e, p))
<1> DEFINE b == Output(e, "ECHOREP", p.id, None)
<1>1. LcpExtcode(e, p) \in {e, [e EXCEPT !.unanswered = 0]}
      \/ (Opened(e) /\ LcpExtcode(e, p) \in {b, ChapProtrej(e), Settle(e, FsmProtreject(e.lcp))})
  BY DEF LcpExtcode
<1>2. CASE Opened(e)
  <2>1. Standing(e) /\ Carrier(e)
    BY <1>2, StandingIs
  <2>2. Standing(b) /\ Same(e, b, {"lcp"})
    BY <2>1, OutputStands
  <2>3. Resting(b)
    BY <2>1, <2>2 DEF Resting, Carrier, Same, PppdFields
  <2>4. Resting(ChapProtrej(e))
    BY <2>1, ChapProtrejRests
  <2>5. Resting(Settle(e, FsmProtreject(e.lcp)))
    <3>1. Moves(e.lcp, FsmProtreject(e.lcp))
      BY StandingIs, ProtrejectMoves
    <3>2. e.phase # "DEAD" /\ ~e.delayed
      BY <2>1 DEF Standing, Sound, Linked, Opened, Bare
    <3> QED
      BY <3>1, <3>2, SettleRests
  <2> QED
    BY <1>1, <2>3, <2>4, <2>5, AnsweredRests
<1>3. CASE ~Opened(e)
  BY <1>1, <1>3, AnsweredRests
<1> QED
  BY <1>2, <1>3

(* The wait of DELAYED_UP ends: LCP is told that the line is there.        *)
LEMMA DelayOver ==
  ASSUME NEW e, Resting(e), e.delayed
  PROVE  Resting(Settle([e EXCEPT !.delayed = FALSE], FsmLowerup(e.lcp)))
<1> DEFINE x == [e EXCEPT !.delayed = FALSE]
<1>0. Fallen(e) /\ Carrier(e) /\ e.phase # "DEAD"
  BY DEF Resting, Fallen, Standing, Sound, Linked, Bare, Opened
<1>1. Same(e, x, {"delayed"}) /\ x.delayed = FALSE
  BY <1>0 DEF Same, PppdFields, Fallen, Sound, Typed
<1> HIDE DEF x
<1>2. Typed(x) /\ Counted(x) /\ Linked(x)
  <2>1. Typed(x)
    BY <1>0, <1>1 DEF Same, PppdFields, Fallen, Sound, Typed
  <2>2. Counted(x) /\ Linked(x)
    BY <1>0, <1>1 DEF Same, PppdFields, Fallen, Sound, Counted, Linked
  <2> QED
    BY <2>1, <2>2
<1>3. DownPart(x) /\ ~Opened(x) /\ Carrier(x) /\ x.lcp = e.lcp /\ x.phase # "DEAD"
  BY <1>0, <1>1 DEF Same, PppdFields, Fallen, DownPart, Opened, Carrier
<1>4. Resting(x)
  BY <1>2, <1>3 DEF Resting, Fallen, Sound
<1>5. Moves(x.lcp, FsmLowerup(e.lcp))
  BY <1>3, <1>4, StandingIs, LowerupMoves
<1>6. Resting(Settle(x, FsmLowerup(e.lcp)))
  BY <1>1, <1>3, <1>4, <1>5, SettleRests
<1> QED
  BY <1>6 DEF x

LEMMA LcpInputRests ==
  ASSUME NEW e, Resting(e), NEW p
  PROVE  Resting(LcpInput(e, p))
<1> DEFINE x == IF e.delayed THEN Settle([e EXCEPT !.delayed = FALSE], FsmLowerup(e.lcp)) ELSE e
<1>1. Resting(x)
  BY DelayOver
<1>2. LcpInput(e, p) \in {x, LcpExtcode(x, p), Settle(x, FsmInput(x.lcp, p))}
  BY DEF LcpInput
<1> HIDE DEF x
<1>3. Resting(LcpExtcode(x, p))
  BY <1>1, ExtcodeRests
<1>4. Moves(x.lcp, FsmInput(x.lcp, p))
  BY <1>1, StandingIs, InputMoves
<1>5. (x.phase = "DEAD" \/ x.delayed) => FsmInput(x.lcp, p).state \in Bare
  BY <1>1, StandingIs DEF Sound, Linked, FsmInput, Bare
<1>6. Resting(Settle(x, FsmInput(x.lcp, p)))
  BY <1>1, <1>4, <1>5, SettleRests
<1> QED
  BY <1>1, <1>2, <1>3, <1>6

LEMMA GetInputRests ==
  ASSUME NEW e, Resting(e), NEW p, NEW secret
  PROVE  Resting(GetInput(e, p, secret))
<1> DEFINE g == [e.lcp EXCEPT !.id = NextId(e.lcp)]
           x == [e EXCEPT !.lcp.id = NextId(e.lcp)]
           o == Output(x, "PROTREJ", NextId(e.lcp), p.opt)
           q == Output(e, "RESPONSE", p.id, secret)
<1>1. CASE Opened(e)
  <2>0. Standing(e) /\ Carrier(e)
    BY <1>1, StandingIs
  <2>1. GetInput(e, p, secret) \in
          {e, LcpInput(e, p), q, ChapHandleResponse(e, p.id, p.opt), ChapHandleStatus(e, p.code), o}
    BY DEF GetInput, ChapInput, ChapRespond
  <2>2. Resting(q)
    <3>1. Standing(q) /\ Same(e, q, {"lcp"})
      BY <2>0, OutputStands
    <3> QED
      BY <2>0, <3>1 DEF Resting, Carrier, Same, PppdFields
  <2>3. Resting(ChapHandleResponse(e, p.id, p.opt))
    BY <2>0, ResponseRests
  <2>4. Resting(ChapHandleStatus(e, p.code))
    BY <2>0, StatusRests
  <2>5. Resting(o)
    <3> DEFINE n == NextId(e.lcp)
    <3> HIDE DEF n
    <3>1. Moves(e.lcp, [e.lcp EXCEPT !.id = n]) /\ [e.lcp EXCEPT !.id = n].state = "OPENED"
      BY <1>1, StandingIs DEF Moves, LcpOk, LcpFields, Opened
    <3> DEFINE h == [e.lcp EXCEPT !.id = n]
    <3>2. x = [e EXCEPT !.lcp = h]
      BY DEF n
    <3> HIDE DEF h, x
    <3>3. e.phase # "DEAD" /\ ~e.delayed
      BY <2>0 DEF Standing, Sound, Linked, Opened, Bare
    <3>4. Moves(e.lcp, h) /\ h.state = "OPENED"
      BY <3>1 DEF h
    <3>5. Sound(x) /\ Same(e, x, {"lcp"}) /\ x.lcp = h /\ UpPhase(x) /\ UpChap(x)
      BY <2>0, <3>2, <3>3, <3>4, LcpReplaced DEF Standing, Opened
    <3>6. Standing(x) /\ Carrier(x)
      BY <2>0, <3>4, <3>5 DEF Standing, Opened, Carrier, Same, PppdFields
    <3>7. Standing(o) /\ Same(x, o, {"lcp"})
      BY <3>6, OutputStands
    <3> QED
      BY <3>6, <3>7 DEF Resting, Carrier, Same, PppdFields
  <2> QED
    BY <2>1, <2>2, <2>3, <2>4, <2>5, LcpInputRests
<1>2. CASE ~Opened(e)
  <2>1. GetInput(e, p, secret) \in {e, LcpInput(e, p)}
    BY <1>2 DEF GetInput
  <2> QED
    BY <2>1, LcpInputRests
<1> QED
  BY <1>1, <1>2

(* LcpEchoTimeout: an echo more, or the end of a link that is silent.      *)
LEMMA EchoTimeoutRests ==
  ASSUME NEW e, Resting(e), e.echos > 0
  PROVE  Resting(LcpEchoTimeout(e))
<1>0. Standing(e) /\ Carrier(e) /\ e.running = TRUE /\ e.echos = 1
  BY DEF Resting, Fallen, Standing, Sound, Counted, DownPart, Typed
<1> DEFINE x == [e EXCEPT !.echos = Less(e.echos)]
           y == [x EXCEPT !.running = FALSE]
<1>1. Same(e, x, {"echos"}) /\ x.echos = 0
  BY <1>0, LessOf DEF Same, PppdFields, Standing, Sound, Typed
<1>2. LcpEchoTimeout(e) = LcpEchoCheck(y)
  <2>1. x.running = TRUE
    BY <1>0, <1>1 DEF Same, PppdFields
  <2> QED
    BY <2>1 DEF LcpEchoTimeout
<1> HIDE DEF x
<1>3. Same(e, y, {"echos", "running"}) /\ y.echos = 0 /\ y.running = FALSE
  BY <1>1 DEF Same, PppdFields
<1> HIDE DEF y
<1>4. Sound(y) /\ Opened(y) /\ Carrier(y)
  <2>1. Typed(y)
    BY <1>0, <1>3 DEF Same, PppdFields, Standing, Sound, Typed
  <2>2. Counted(y) /\ Linked(y)
    BY <1>0, <1>3 DEF Same, PppdFields, Standing, Sound, Counted, Linked
  <2> QED
    BY <1>0, <1>3, <2>1, <2>2 DEF Same, PppdFields, Standing, Sound, Opened, Carrier
<1>5. CASE y.unanswered >= EchoFails
  <2> DEFINE c == LcpClose(y)
             r == [c EXCEPT !.unanswered = 0]
  <2>1. Fallen(c) /\ Carrier(c)
    BY <1>4, CloseFalls DEF Falling
  <2>2. Resting(c)
    BY <2>1 DEF Resting
  <2> HIDE DEF c
  <2>3. Resting(r)
    BY <2>2, AnsweredRests
  <2>4. ~Opened(r)
    BY <2>1 DEF Opened, Fallen, Sound, Typed, PppdFields
  <2>5. LcpSendEchoRequest(y) = r
    BY <1>4, <1>5, <2>4 DEF LcpSendEchoRequest, c
  <2>6. LcpEchoCheck(y) = r
    BY <2>4, <2>5 DEF LcpEchoCheck
  <2> QED
    BY <1>2, <2>3, <2>6
<1>6. CASE ~(y.unanswered >= EchoFails)
  <2> DEFINE r == LcpEchoCheck(y)
  <2>1. y.unanswered < EchoFails
    BY <1>4, <1>6, PppdAssumption DEF Sound, Typed
  <2>2. /\ Sound(r) /\ Opened(r) /\ r.running = TRUE /\ r.lcp.wo = y.lcp.wo /\ r.lcp.go = y.lcp.go
        /\ Same(y, r, {"lcp", "unanswered", "echos", "running"})
    BY <1>3, <1>4, <2>1, EchoSent
  <2> HIDE DEF r
  <2>3. Same(e, r, {"lcp", "unanswered", "echos", "running"}) /\ r.lcp.wo = e.lcp.wo /\ r.lcp.go = e.lcp.go
    BY <1>3, <2>2 DEF Same, PppdFields
  <2>4. UpPhase(r)
    BY <1>0, <2>2, <2>3 DEF Same, PppdFields, Standing, UpPhase
  <2>5. UpChap(r) /\ Carrier(r)
    BY <1>0, <2>3 DEF Same, PppdFields, Standing, UpChap, Admitted, Carrier
  <2>6. Resting(r)
    BY <2>2, <2>4, <2>5 DEF Resting, Standing
  <2> QED
    BY <1>2, <2>6 DEF r
<1> QED
  BY <1>5, <1>6

LEMMA DelayedUpRests ==
  ASSUME NEW e, Resting(e), e.delays > 0
  PROVE  Resting(LcpDelayedUp(e))
<1> DEFINE x == [e EXCEPT !.delays = Less(e.delays)]
           y == [x EXCEPT !.delayed = FALSE]
<1>0. Sound(e) /\ Carrier(e) /\ e.delays \in 1..2
  BY StandingIs DEF Sound, Typed
<1>1. Same(e, x, {"delays"}) /\ x.delays \in 0..2
  <2>1. Less(e.delays) \in 0..2
    BY <1>0 DEF Less
  <2> QED
    BY <1>0, <2>1 DEF Same, PppdFields, Sound, Typed
<1>2. LcpDelayedUp(e) = IF x.delayed THEN Settle(y, FsmLowerup(x.lcp)) ELSE x
  BY DEF LcpDelayedUp
<1> HIDE DEF x
<1>3. CASE ~x.delayed
  <2>1. Typed(x)
    BY <1>0, <1>1 DEF Same, PppdFields, Sound, Typed
  <2>2. Counted(x) /\ Linked(x) /\ Carrier(x) /\ (Opened(x) <=> Opened(e))
    BY <1>0, <1>1, <1>3 DEF Same, PppdFields, Sound, Counted, Linked, Carrier, Opened
  <2>3. (DownPart(e) => DownPart(x)) /\ (UpPhase(e) => UpPhase(x)) /\ (UpChap(e) => UpChap(x))
    BY <1>1 DEF Same, PppdFields, DownPart, UpPhase, UpChap, Admitted
  <2>4. Resting(x)
    BY <2>1, <2>2, <2>3 DEF Resting, Fallen, Standing, Sound
  <2> QED
    BY <1>2, <1>3, <2>4
<1>4. CASE x.delayed
  <2>1. Fallen(e) /\ e.phase # "DEAD"
    BY <1>1, <1>4 DEF Same, PppdFields, Resting, Fallen, Standing, Sound, Linked, Bare, Opened
  <2>2. Same(e, y, {"delays", "delayed"}) /\ y.delays \in 0..2 /\ y.delayed = FALSE
    BY <1>1 DEF Same, PppdFields
  <2> HIDE DEF y
  <2>3. Typed(y)
    BY <1>0, <2>2 DEF Same, PppdFields, Sound, Typed
  <2>4. Counted(y) /\ Linked(y) /\ Carrier(y) /\ ~Opened(y) /\ y.phase # "DEAD"
    BY <1>0, <2>1, <2>2 DEF Same, PppdFields, Fallen, Sound, Counted, Linked, Carrier, Opened
  <2>5. DownPart(y) /\ y.lcp = x.lcp
    BY <1>1, <2>1, <2>2 DEF Same, PppdFields, Fallen, DownPart
  <2>6. Resting(y)
    BY <2>3, <2>4, <2>5 DEF Resting, Fallen, Sound
  <2>7. Moves(y.lcp, FsmLowerup(x.lcp))
    BY <2>5, <2>6, StandingIs, LowerupMoves
  <2> QED
    BY <1>2, <1>4, <2>2, <2>4, <2>6, <2>7, SettleRests
<1> QED
  BY <1>3, <1>4

LEMMA LimitRests ==
  ASSUME NEW e, Resting(e), e.limits > 0, NEW expired \in BOOLEAN
  PROVE  Resting(LimitReached(e, expired))
<1> DEFINE x == [e EXCEPT !.limits = Less(e.limits)]
           r == [x EXCEPT !.limits = x.limits + 1]
<1>0. Standing(e) /\ Carrier(e) /\ e.limits = 1 /\ e.np = "up"
  BY DEF Resting, Fallen, Standing, Sound, Counted, DownPart
<1>1. Same(e, x, {"limits"}) /\ x.limits = 0
  BY <1>0, LessOf DEF Same, PppdFields, Standing, Sound, Typed
<1>2. LimitReached(e, expired) = IF expired THEN LcpClose(x) ELSE r
  BY DEF LimitReached
<1> HIDE DEF x
<1>3. Typed(x)
  BY <1>0, <1>1 DEF Same, PppdFields, Standing, Sound, Typed
<1>4. Counted(x) /\ Linked(x) /\ Opened(x) /\ Carrier(x)
  BY <1>0, <1>1 DEF Same, PppdFields, Standing, Sound, Counted, Linked, Opened, Carrier
<1>5. Resting(LcpClose(x))
  BY <1>3, <1>4, CloseFalls DEF Falling, Sound, Resting
<1>6. Resting(r)
  <2>1. r = [x EXCEPT !.limits = 1]
    BY <1>1
  <2> HIDE DEF r
  <2>2. Same(e, r, {"limits"}) /\ r.limits = 1
    BY <1>1, <2>1 DEF Same, PppdFields
  <2>3. Typed(r)
    BY <1>0, <2>2 DEF Same, PppdFields, Standing, Sound, Typed
  <2>4. Counted(r) /\ Linked(r) /\ Opened(r) /\ Carrier(r)
    BY <1>0, <2>2 DEF Same, PppdFields, Standing, Sound, Counted, Linked, Opened, Carrier
  <2>5. UpPhase(r) /\ UpChap(r)
    BY <1>0, <2>2 DEF Same, PppdFields, Standing, UpPhase, UpChap, Admitted
  <2> QED
    BY <2>3, <2>4, <2>5 DEF Resting, Standing, Sound
<1> QED
  BY <1>2, <1>5, <1>6

LEMMA HangupRests ==
  ASSUME NEW e, Resting(e), e.line
  PROVE  Resting(Hangup(e))
<1> DEFINE x == [e EXCEPT !.hungup = TRUE]
           y == LcpLowerdown(x)
<1>0. Sound(e) /\ Falling(e)
  BY StandingIs
<1>1. Same(e, x, {"hungup"}) /\ x.hungup = TRUE
  BY <1>0 DEF Same, PppdFields, Sound, Typed
<1>2. Hangup(e) = LinkTerminated(y)
  BY DEF Hangup
<1> HIDE DEF x
<1>3. Typed(x)
  BY <1>0, <1>1 DEF Same, PppdFields, Sound, Typed
<1>4. Counted(x) /\ Linked(x)
  BY <1>0, <1>1 DEF Same, PppdFields, Sound, Counted, Linked
<1>5. Opened(x) \/ DownPart(x)
  BY <1>0, <1>1 DEF Same, PppdFields, Falling, Opened, DownPart
<1>6. Fallen(y) /\ y.lcp.state \in Bare /\ y.delayed = FALSE
  BY <1>3, <1>4, <1>5, LowerdownFalls DEF Falling, Sound
<1> HIDE DEF y
<1> QED
  BY <1>2, <1>6, TerminatedFalls DEF Falling, Fallen, Resting

LEMMA RedialRests ==
  ASSUME NEW e, Resting(e), e.phase = "DEAD", e.delays < 2, NEW connected \in BOOLEAN,
         NEW configured \in BOOLEAN
  PROVE  Resting(Redial(e, connected, configured))
<1> DEFINE c == LcpClose(e)
           x == [c EXCEPT !.hungup = FALSE]
           g == FsmOpen(x.lcp)
           o == Settle(x, g)
           y == [o EXCEPT !.phase = "ESTABLISH", !.line = TRUE]
<1>1. Fallen(c) /\ c.phase = "DEAD" /\ c.lcp.state = "INITIAL" /\ c.delays = e.delays
  BY StandingIs, CloseFalls
<1>2. Redial(e, connected, configured) = IF connected THEN LcpLowerup(y, configured) ELSE o
  BY DEF Redial
<1> HIDE DEF c
<1>3. Same(c, x, {"hungup"}) /\ x.hungup = FALSE
  BY <1>1 DEF Same, PppdFields, Fallen, Sound, Typed
<1> HIDE DEF x
<1>4. Fallen(x) /\ Carrier(x) /\ x.phase = "DEAD" /\ x.lcp.state = "INITIAL" /\ x.delays = e.delays
  <2>1. Typed(x)
    BY <1>1, <1>3 DEF Same, PppdFields, Fallen, Sound, Typed
  <2>2. Counted(x) /\ Linked(x)
    BY <1>1, <1>3 DEF Same, PppdFields, Fallen, Sound, Counted, Linked
  <2>3. DownPart(x) /\ ~Opened(x) /\ x.phase = "DEAD" /\ x.lcp = c.lcp /\ x.delays = c.delays
    BY <1>1, <1>3 DEF Same, PppdFields, Fallen, DownPart, Opened
  <2> QED
    BY <1>1, <1>3, <2>1, <2>2, <2>3 DEF Fallen, Sound, Carrier
<1>5. Moves(x.lcp, g) /\ g.state = "STARTING"
  BY <1>4, OpenMoves DEF Fallen, Sound, Typed
<1> HIDE DEF g
<1>6. o = Ended(x, g)
  BY <1>4, <1>5 DEF Settle, Fallen, Sound, Typed, LcpOk, Moves
<1>7. /\ Fallen(o) /\ Carrier(o) /\ o.phase = "DEAD" /\ o.lcp.state = "STARTING"
      /\ o.delays = e.delays /\ o.hungup = FALSE
  BY <1>3, <1>4, <1>5, <1>6, EndedFalls DEF Falling, Fallen, Bare
<1> HIDE DEF o
<1>8. CASE ~connected
  BY <1>2, <1>7, <1>8 DEF Resting
<1>9. CASE connected
  <2>1. Same(o, y, {"phase", "line"}) /\ y.phase = "ESTABLISH" /\ y.line = TRUE
    BY <1>7 DEF Same, PppdFields, Fallen, Sound, Typed
  <2> HIDE DEF y
  <2>2. o.delayed = FALSE
    BY <1>7 DEF Fallen, Sound, Typed, Linked
  <2>3. Typed(y)
    BY <1>7, <2>1 DEF Same, PppdFields, Fallen, Sound, Typed, Phases
  <2>4. Counted(y) /\ Linked(y) /\ Carrier(y) /\ ~Opened(y) /\ y.delayed = FALSE
    BY <1>7, <2>1, <2>2 DEF Same, PppdFields, Fallen, Sound, Counted, Linked, Carrier, Opened
  <2>5. DownPart(y) /\ y.delays = e.delays /\ y.lcp = o.lcp
    BY <1>7, <2>1 DEF Same, PppdFields, Fallen, DownPart
  <2>6. Resting(y)
    BY <2>3, <2>4, <2>5 DEF Resting, Fallen, Sound
  <2>7. CASE configured /\ ~Listen
    <3>1. Moves(y.lcp, FsmLowerup(y.lcp))
      BY <2>6, StandingIs, LowerupMoves
    <3> QED
      BY <1>2, <1>9, <2>1, <2>4, <2>6, <2>7, <3>1, SettleRests DEF LcpLowerup
  <2>8. CASE configured /\ Listen
    <3> DEFINE r == [y EXCEPT !.delayed = TRUE, !.delays = y.delays + 1]
    <3>0. y.delays + 1 \in 0..2 /\ y.delays + 1 > 0
      BY <2>3, <2>5 DEF Typed
    <3>1. Same(y, r, {"delayed", "delays"}) /\ r.delayed = TRUE /\ r.delays \in 0..2 /\ r.delays > 0
      BY <2>3, <3>0 DEF Same, PppdFields, Typed
    <3> HIDE DEF r
    <3>2. Typed(r)
      BY <2>3, <3>1 DEF Same, PppdFields, Typed
    <3>3. Counted(r) /\ Linked(r) /\ Carrier(r) /\ ~Opened(r)
      BY <1>7, <2>1, <2>4, <2>5, <3>1
      DEF Same, PppdFields, Counted, Linked, Carrier, Opened, Bare
    <3>4. DownPart(r)
      BY <2>5, <3>1 DEF Same, PppdFields, DownPart
    <3>5. Resting(r)
      BY <3>2, <3>3, <3>4 DEF Resting, Fallen, Sound
    <3> QED
      BY <1>2, <1>9, <2>8, <3>5 DEF LcpLowerup, r
  <2>9. CASE ~configured
    BY <1>2, <1>9, <2>6, <2>9 DEF LcpLowerup
  <2> QED
    BY <2>7, <2>8, <2>9, PppdAssumption
<1> QED
  BY <1>8, <1>9

(* np_up, np_down and np_finished.                                         *)
LEMMA NetworkRests ==
  ASSUME NEW e, Resting(e)
  PROVE  /\ e.np = "open" => Resting(NpUp(e))
         /\ e.np = "up" => Resting(NpDown(e))
         /\ e.np = "open" => Resting(NpFinished(e))
<1>0. e.np # "closed" => Standing(e) /\ Carrier(e)
  BY DEF Resting, Fallen, DownPart
<1>1. ASSUME e.np = "open" PROVE Resting(NpUp(e))
  <2> DEFINE n == IF LimitOn THEN e.limits + 1 ELSE e.limits
             r == [e EXCEPT !.np = "up", !.phase = "RUNNING", !.limits = n]
  <2>0. Standing(e) /\ Carrier(e) /\ e.phase = "NETWORK" /\ e.pending = {} /\ n \in 0..1
    BY <1>0, <1>1 DEF Standing, UpPhase, Sound, Counted
  <2> HIDE DEF n
  <2>1. Same(e, r, {"np", "phase", "limits"}) /\ r.np = "up" /\ r.phase = "RUNNING" /\ r.limits = n
    BY <2>0 DEF Same, PppdFields, Standing, Sound, Typed
  <2> HIDE DEF r
  <2>2. Typed(r)
    BY <2>0, <2>1 DEF Same, PppdFields, Standing, Sound, Typed, Phases
  <2>3. Counted(r) /\ Linked(r) /\ Opened(r) /\ Carrier(r)
    BY <2>0, <2>1 DEF Same, PppdFields, Standing, Sound, Counted, Linked, Opened, Carrier
  <2>4. UpPhase(r) /\ UpChap(r)
    BY <2>0, <2>1 DEF Same, PppdFields, Standing, UpPhase, UpChap, Admitted
  <2>5. Resting(r)
    BY <2>2, <2>3, <2>4 DEF Resting, Standing, Sound
  <2> QED
    BY <2>5 DEF NpUp, r, n
<1>2. ASSUME e.np = "up" PROVE Resting(NpDown(e))
  <2> DEFINE n == Less(e.limits)
             r == [e EXCEPT !.np = "open", !.limits = n, !.phase = "NETWORK"]
  <2>0. Standing(e) /\ Carrier(e) /\ e.phase = "RUNNING" /\ e.pending = {} /\ e.limits \in {0, 1}
    BY <1>0, <1>2 DEF Standing, UpPhase, Sound, Counted
  <2>1. n = 0
    BY <2>0, LessOf
  <2> HIDE DEF n
  <2>2. Same(e, r, {"np", "phase", "limits"}) /\ r.np = "open" /\ r.phase = "NETWORK" /\ r.limits = 0
    BY <2>0, <2>1 DEF Same, PppdFields, Standing, Sound, Typed
  <2> HIDE DEF r
  <2>3. Typed(r)
    BY <2>0, <2>2 DEF Same, PppdFields, Standing, Sound, Typed, Phases
  <2>4. Counted(r) /\ Linked(r) /\ Opened(r) /\ Carrier(r)
    BY <2>0, <2>2 DEF Same, PppdFields, Standing, Sound, Counted, Linked, Opened, Carrier
  <2>5. UpPhase(r) /\ UpChap(r)
    BY <2>0, <2>2 DEF Same, PppdFields, Standing, UpPhase, UpChap, Admitted
  <2>6. Resting(r)
    BY <2>3, <2>4, <2>5 DEF Resting, Standing, Sound
  <2> QED
    BY <2>6 DEF NpDown, r, n
<1>3. ASSUME e.np = "open" PROVE Resting(NpFinished(e))
  <2> DEFINE x == [e EXCEPT !.np = "closed"]
  <2>0. Standing(e) /\ Carrier(e)
    BY <1>0, <1>3
  <2>1. Same(e, x, {"np"}) /\ x.np = "closed"
    BY <2>0 DEF Same, PppdFields, Standing, Sound, Typed
  <2> HIDE DEF x
  <2>2. Typed(x)
    BY <2>0, <2>1 DEF Same, PppdFields, Standing, Sound, Typed
  <2>3. Counted(x) /\ Linked(x) /\ Opened(x) /\ Carrier(x)
    BY <1>3, <2>0, <2>1 DEF Same, PppdFields, Standing, Sound, Counted, Linked, Opened, Carrier
  <2>4. Resting(LcpClose(x))
    BY <2>2, <2>3, CloseFalls DEF Falling, Sound, Resting
  <2> QED
    BY <2>4 DEF NpFinished, x
<1> QED
  BY <1>1, <1>2, <1>3

(* --------------------------- the specification ------------------------- *)

(* The inductive invariant.                                                *)
PppdInv == Resting(d) /\ killed \in {"no", "listening", "unconfigured", "later"}

(* What drand48 will return, and what has been sent, do not matter.        *)
LEMMA DiceRests ==
  ASSUME NEW e, Resting(e), NEW n \in Ids
  PROVE  LET r == [e EXCEPT !.dice = n] IN Resting(r) /\ Same(e, r, {"dice"})
<1> DEFINE r == [e EXCEPT !.dice = n]
<1>0. Sound(e) /\ Carrier(e)
  BY StandingIs
<1>1. Same(e, r, {"dice"}) /\ r.dice = n
  BY <1>0 DEF Same, PppdFields, Sound, Typed
<1> HIDE DEF r
<1>2. Typed(r)
  BY <1>0, <1>1 DEF Same, PppdFields, Sound, Typed
<1>3. Counted(r) /\ Linked(r) /\ Carrier(r) /\ (Opened(r) <=> Opened(e))
  BY <1>0, <1>1 DEF Same, PppdFields, Sound, Counted, Linked, Carrier, Opened
<1>4. (DownPart(e) => DownPart(r)) /\ (UpPhase(e) => UpPhase(r)) /\ (UpChap(e) => UpChap(r))
  BY <1>1 DEF Same, PppdFields, DownPart, UpPhase, UpChap, Admitted
<1>5. Resting(r)
  BY <1>2, <1>3, <1>4 DEF Resting, Fallen, Standing, Sound
<1> QED
  BY <1>1, <1>5 DEF r

LEMMA RestRests ==
  ASSUME NEW e, Resting(e)
  PROVE  Resting(Rest(e))
<1> DEFINE g == [e.lcp EXCEPT !.out = <<>>]
           x == [e EXCEPT !.lcp = g]
<1>0. Sound(e) /\ Carrier(e) /\ LcpOk(e.lcp)
  BY StandingIs
<1>1. Moves(e.lcp, g) /\ g.state = e.lcp.state
  BY <1>0 DEF Moves, LcpOk, LcpFields
<1>2. Rest(e) = [x EXCEPT !.dice = 0]
  BY DEF Rest
<1> HIDE DEF g
<1>3. (e.phase = "DEAD" \/ e.delayed) => g.state \in Bare
  BY <1>0, <1>1 DEF Sound, Linked
<1>4. /\ Sound(x) /\ Same(e, x, {"lcp"}) /\ x.lcp = g
      /\ DownPart(e) => DownPart(x)
      /\ UpPhase(e) => UpPhase(x)
      /\ Opened(e) /\ UpChap(e) => UpChap(x)
  BY <1>0, <1>1, <1>3, LcpReplaced DEF Opened
<1> HIDE DEF x
<1>5. Carrier(x) /\ (Opened(x) <=> Opened(e))
  BY <1>0, <1>1, <1>4 DEF Same, PppdFields, Carrier, Opened
<1>6. Resting(x)
  BY <1>4, <1>5 DEF Resting, Fallen, Standing
<1>7. 0 \in Ids
  BY FsmAssumption DEF Ids
<1> QED
  BY <1>2, <1>6, <1>7, DiceRests

(* The daemon at the start of a handler is the daemon, but for the dice.   *)
LEMMA RolledRests ==
  ASSUME Resting(d), NEW e \in Rolled
  PROVE  Resting(e) /\ Same(d, e, {"dice"})
<1>1. PICK n \in Ids : e = [d EXCEPT !.dice = n]
  BY DEF Rolled
<1> QED
  BY <1>1, DiceRests

LEMMA PppdInvInit == PppdEnvInit => PppdInv
<1> SUFFICES ASSUME PppdEnvInit PROVE PppdInv
  OBVIOUS
<1>1. PICK want, allow, options : d = PppdInit(want, allow, options)
  BY DEF PppdEnvInit
<1> DEFINE g == FsmInit(want, allow, options \ {"allow-ip"})
<1>2. LcpOk(g) /\ g.state = "INITIAL"
  BY DEF FsmInit, LcpOk, LcpFields, States, Timed, Negotiating
<1> HIDE DEF g
<1>3. d = [lcp |-> g, phase |-> "DEAD", hungup |-> FALSE,
           line |-> FALSE, delayed |-> FALSE, delays |-> 0,
           running |-> FALSE, echos |-> 0, unanswered |-> 0,
           pending |-> {}, ss |-> {}, cs |-> {}, chal |-> 0, xmits |-> 0, challenges |-> 0,
           np |-> "closed", limits |-> 0, noauth |-> "allow-ip" \in options,
           addrs |-> "none", dice |-> 0, proven |-> FALSE]
  BY <1>1 DEF PppdInit, g
<1>4. 0 \in Ids /\ 0 \in 0..EchoFails /\ 0 \in 0..ChapMaxTransmits /\ 0 \in 0..2 /\ 0 \in 0..1
  BY FsmAssumption, PppdAssumption DEF Ids
<1>5. DOMAIN d = PppdFields
  BY <1>3 DEF PppdFields
<1>6. Typed(d)
  BY <1>2, <1>3, <1>4, <1>5 DEF Typed, Phases, ChapFlags
<1>7. Counted(d) /\ Linked(d) /\ DownPart(d) /\ ~Opened(d) /\ Carrier(d)
  BY <1>2, <1>3, <1>4 DEF Counted, Linked, DownPart, Opened, Carrier, Bare
<1>8. killed = "no"
  BY DEF PppdEnvInit
<1> QED
  BY <1>6, <1>7, <1>8 DEF PppdInv, Resting, Fallen, Sound

LEMMA PppdInvNext == PppdInv /\ [PppdEnvNext]_pppdVars => PppdInv'
<1> SUFFICES ASSUME PppdInv, [PppdEnvNext]_pppdVars PROVE PppdInv'
  OBVIOUS
<1>0. Resting(d) /\ killed \in {"no", "listening", "unconfigured", "later"}
  BY DEF PppdInv
<1>a. \A e \in Rolled : Resting(e) /\ Same(d, e, {"dice"})
  BY <1>0, RolledRests
<1>b. \A e \in Rolled : /\ e.line = d.line /\ e.phase = d.phase /\ e.delays = d.delays
                        /\ e.lcp = d.lcp /\ e.challenges = d.challenges /\ e.echos = d.echos
                        /\ e.limits = d.limits /\ e.np = d.np
  BY <1>a DEF Same, PppdFields
<1>c. ASSUME NEW x, Resting(x), d' = Rest(x) PROVE Resting(d')
  BY <1>c, RestRests
<1>1. ASSUME NEW p \in Packets, Receive(p) PROVE PppdInv'
  <2>1. PICK e \in Rolled : d' = Rest(GetInput(e, p, "right"))
    BY <1>1 DEF Receive
  <2>2. Resting(GetInput(e, p, "right"))
    BY <1>a, GetInputRests
  <2> QED
    BY <1>0, <1>1, <1>c, <2>1, <2>2 DEF PppdInv, Receive
<1>2. ASSUME FsmTimer PROVE PppdInv'
  <2>1. PICK e \in Rolled : d' = Rest(Settle(e, FsmTimeout(e.lcp)))
    BY <1>2 DEF FsmTimer
  <2>2. Resting(e) /\ LcpOk(e.lcp) /\ Sound(e)
    BY <1>a, StandingIs
  <2>3. e.phase # "DEAD" /\ ~e.delayed
    BY <1>2, <1>b, <2>2 DEF FsmTimer, LcpOk, Sound, Linked, Bare, Timed, Negotiating
  <2>4. Resting(Settle(e, FsmTimeout(e.lcp)))
    BY <2>2, <2>3, TimeoutMoves, SettleRests
  <2> QED
    BY <1>0, <1>2, <1>c, <2>1, <2>4 DEF PppdInv, FsmTimer
<1>3. ASSUME ChapTimer PROVE PppdInv'
  <2>1. PICK e \in Rolled : d' = Rest(ChapTimeout([e EXCEPT !.challenges = Less(e.challenges)]))
    BY <1>3 DEF ChapTimer
  <2>2. Resting(ChapTimeout([e EXCEPT !.challenges = Less(e.challenges)]))
    BY <1>3, <1>a, <1>b, ChapTimeoutRests DEF ChapTimer
  <2> QED
    BY <1>0, <1>3, <1>c, <2>1, <2>2 DEF PppdInv, ChapTimer
<1>4. ASSUME EchoTimer PROVE PppdInv'
  <2>1. PICK e \in Rolled : d' = Rest(LcpEchoTimeout(e))
    BY <1>4 DEF EchoTimer
  <2>2. Resting(LcpEchoTimeout(e))
    BY <1>4, <1>a, <1>b, EchoTimeoutRests DEF EchoTimer
  <2> QED
    BY <1>0, <1>4, <1>c, <2>1, <2>2 DEF PppdInv, EchoTimer
<1>5. ASSUME DelayTimer PROVE PppdInv'
  <2>1. PICK e \in Rolled : d' = Rest(LcpDelayedUp(e))
    BY <1>5 DEF DelayTimer
  <2>2. Resting(LcpDelayedUp(e))
    BY <1>5, <1>a, <1>b, DelayedUpRests DEF DelayTimer
  <2> QED
    BY <1>0, <1>5, <1>c, <2>1, <2>2 DEF PppdInv, DelayTimer
<1>6. ASSUME LimitTimer PROVE PppdInv'
  <2>1. PICK e \in Rolled, expired \in BOOLEAN : d' = Rest(LimitReached(e, expired))
    BY <1>6 DEF LimitTimer
  <2>2. Resting(LimitReached(e, expired))
    BY <1>6, <1>a, <1>b, LimitRests DEF LimitTimer
  <2> QED
    BY <1>0, <1>6, <1>c, <2>1, <2>2 DEF PppdInv, LimitTimer
<1>7. ASSUME Kill PROVE PppdInv'
  <2>1. PICK e \in Rolled : d' = Rest(LcpClose(e))
    BY <1>7 DEF Kill
  <2>2. Falling(e) /\ Carrier(e)
    BY <1>a, StandingIs
  <2>3. Resting(LcpClose(e))
    BY <2>2, CloseFalls DEF Resting
  <2>4. killed' \in {"no", "listening", "unconfigured", "later"}
    BY <1>0, <1>7 DEF Kill
  <2> QED
    BY <1>c, <2>1, <2>3, <2>4 DEF PppdInv
<1>8. ASSUME LineHangup PROVE PppdInv'
  <2>1. PICK e \in Rolled : d' = Rest(Hangup(e))
    BY <1>8 DEF LineHangup
  <2>2. Resting(Hangup(e))
    BY <1>8, <1>a, <1>b, HangupRests DEF LineHangup
  <2> QED
    BY <1>0, <1>8, <1>c, <2>1, <2>2 DEF PppdInv, LineHangup
<1>9. ASSUME Dial PROVE PppdInv'
  <2>1. PICK e \in Rolled, connected \in BOOLEAN, configured \in BOOLEAN :
          d' = Rest(Redial(e, connected, configured))
    BY <1>9 DEF Dial
  <2>2. Resting(Redial(e, connected, configured))
    BY <1>9, <1>a, <1>b, RedialRests DEF Dial
  <2> QED
    BY <1>9, <1>c, <2>1, <2>2 DEF PppdInv, Dial
<1>10. ASSUME IpcpUp PROVE PppdInv'
  <2>1. PICK e \in Rolled : d' = Rest(NpUp(e))
    BY <1>10 DEF IpcpUp
  <2>2. Resting(NpUp(e))
    BY <1>10, <1>a, <1>b, NetworkRests DEF IpcpUp
  <2> QED
    BY <1>0, <1>10, <1>c, <2>1, <2>2 DEF PppdInv, IpcpUp
<1>11. ASSUME IpcpDown PROVE PppdInv'
  <2>1. PICK e \in Rolled : d' = Rest(NpDown(e))
    BY <1>11 DEF IpcpDown
  <2>2. Resting(NpDown(e))
    BY <1>11, <1>a, <1>b, NetworkRests DEF IpcpDown
  <2> QED
    BY <1>0, <1>11, <1>c, <2>1, <2>2 DEF PppdInv, IpcpDown
<1>12. ASSUME IpcpFinished PROVE PppdInv'
  <2>1. PICK e \in Rolled : d' = Rest(NpFinished(e))
    BY <1>12 DEF IpcpFinished
  <2>2. Resting(NpFinished(e))
    BY <1>12, <1>a, <1>b, NetworkRests DEF IpcpFinished
  <2> QED
    BY <1>0, <1>12, <1>c, <2>1, <2>2 DEF PppdInv, IpcpFinished
<1>13. CASE UNCHANGED pppdVars
  BY <1>0, <1>13 DEF PppdInv, pppdVars
<1> QED
  BY <1>1, <1>2, <1>3, <1>4, <1>5, <1>6, <1>7, <1>8, <1>9, <1>10, <1>11, <1>12, <1>13
  DEF PppdEnvNext, Timers

(* Whatever the peer, the user, the modem and the callouts do, the daemon  *)
(* is in order between two handlers: it is down, with nothing of the last  *)
(* link left, or up, with phase, callouts, CHAP and network in step.       *)
THEOREM PppdInvariant == PppdEnvSafety => []PppdInv
<1> QED
  BY PppdInvInit, PppdInvNext, PTL DEF PppdEnvSafety

(* auth.c, chap-new.c, lcp.c: every field keeps its type, and no callout   *)
(* but lcp_delayed_up is ever in the list twice.                           *)
THEOREM PppdTypesKept == PppdEnvSafety => []PppdTypeOK
<1>1. PppdInv => PppdTypeOK
  <2> SUFFICES ASSUME PppdInv PROVE PppdTypeOK
    OBVIOUS
  <2>1. Typed(d) /\ Counted(d) /\ LcpOk(d.lcp) /\ killed \in {"no", "listening", "unconfigured", "later"}
    BY StandingIs DEF PppdInv, Sound
  <2>2. d.lcp.state \in States /\ d.lcp.timers \in 0..1 /\ d.lcp.up \in 0..1
    BY <2>1 DEF LcpOk
  <2>3. {d.hungup, d.line, d.delayed, d.running, d.noauth, d.proven} \subseteq BOOLEAN
    BY <2>1 DEF Typed
  <2>4. {d.echos, d.challenges, d.limits} \subseteq 0..1
    BY <2>1 DEF Counted
  <2>5. d.unanswered \in 0..(EchoFails + 1)
    BY <2>1, PppdAssumption DEF Typed
  <2> QED
    BY <2>1, <2>2, <2>3, <2>4, <2>5 DEF PppdTypeOK, Typed
<1> QED
  BY <1>1, PppdInvariant, PTL

(* auth.c, network_phase: a peer we require to authenticate gets no        *)
(* network protocol before it gave a right response on this very link,     *)
(* unless it refused and is held to the addresses of allow-ip.             *)
THEOREM NoNetworkUnproven == PppdEnvSafety => []NetworksNeedProof
<1>1. PppdInv => NetworksNeedProof
  BY StandingIs DEF PppdInv, NetworksNeedProof, Fallen, Standing, DownPart, UpPhase, UpChap,
                    Admitted
<1> QED
  BY <1>1, PppdInvariant, PTL

(* auth.c, new_phase: the phase follows the automaton, auth_pending and    *)
(* the network protocols.                                                  *)
THEOREM PhaseAlwaysInStep == PppdEnvSafety => []PhaseInStep
<1>1. PppdInv => PhaseInStep
  <2> SUFFICES ASSUME PppdInv PROVE PhaseInStep
    OBVIOUS
  <2>1. CASE Opened(d)
    <3>1. Standing(d)
      BY <2>1, StandingIs DEF PppdInv
    <3> QED
      BY <2>1, <3>1 DEF PhaseInStep, Standing, UpPhase
  <2>2. CASE ~Opened(d)
    <3>1. Fallen(d)
      BY <2>2, StandingIs DEF PppdInv
    <3> QED
      BY <2>2, <3>1 DEF PhaseInStep, Fallen, DownPart
  <2> QED
    BY <2>1, <2>2
<1> QED
  BY <1>1, PppdInvariant, PTL

(* main.c, timeout and untimeout: every flag that says a callout is        *)
(* pending is right, and no callout of a link outlives it.                 *)
THEOREM CalloutsNeverStray == PppdEnvSafety => []CalloutsInStep
<1>1. PppdInv => CalloutsInStep
  <2> SUFFICES ASSUME PppdInv PROVE CalloutsInStep
    OBVIOUS
  <2>0. Counted(d) /\ Linked(d) /\ Typed(d)
    BY StandingIs DEF PppdInv, Sound
  <2>1. CASE Opened(d)
    <3>1. Standing(d)
      BY <2>1, StandingIs DEF PppdInv
    <3> QED
      BY <2>0, <2>1, <3>1 DEF CalloutsInStep, Standing, UpPhase, Counted, Linked, Typed
  <2>2. CASE ~Opened(d)
    <3>1. Fallen(d)
      BY <2>2, StandingIs DEF PppdInv
    <3> QED
      BY <2>0, <2>2, <3>1 DEF CalloutsInStep, Fallen, DownPart, Counted, Linked, Typed
  <2> QED
    BY <2>1, <2>2
<1> QED
  BY <1>1, PppdInvariant, PTL

(* auth.c, link_terminated: a dead link is gone in every part, so that the *)
(* next one really starts.                                                 *)
THEOREM DeadAlwaysDead == PppdEnvSafety => []DeadIsDead
<1>1. PppdInv => DeadIsDead
  <2> SUFFICES ASSUME PppdInv, d.phase = "DEAD" PROVE DeadIsDead
    BY DEF DeadIsDead
  <2>0. LcpOk(d.lcp) /\ Linked(d) /\ d.lcp.state \in Bare
    BY StandingIs DEF PppdInv, Sound, Linked
  <2>1. ~d.running
    BY <2>0, StandingIs DEF PppdInv, Fallen, DownPart, Opened, Bare
  <2> QED
    BY <2>0, <2>1 DEF DeadIsDead, LcpOk, Linked, Bare, Timed, Negotiating
<1> QED
  BY <1>1, PppdInvariant, PTL

(* chap-new.c, chap_timeout: while we wait for the peer to authenticate    *)
(* there is a callout that will end the wait.                              *)
THEOREM AuthNeverWaitsBare == PppdEnvSafety => []AuthWaitsEnd
<1>1. PppdInv => AuthWaitsEnd
  <2> SUFFICES ASSUME PppdInv, d.phase = "AUTHENTICATE", "peer" \in d.pending, ~d.proven
               PROVE  AuthWaitsEnd
    BY DEF AuthWaitsEnd
  <2>1. Opened(d)
    BY StandingIs DEF PppdInv, Fallen, DownPart
  <2>2. Standing(d)
    BY <2>1, StandingIs DEF PppdInv
  <2> QED
    BY <2>2 DEF AuthWaitsEnd, Standing, UpChap, Sound, Counted
<1> QED
  BY <1>1, PppdInvariant, PTL

=============================================================================
