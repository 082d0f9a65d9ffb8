--------------------------- MODULE PppLink_proofs ---------------------------
(***************************************************************************)
(* Two pppds that are open agree on what they negotiated, for every line,  *)
(* every number of losses, dials and retries and every set of options.     *)
(***************************************************************************)
EXTENDS PppLink, TLAPS

(* --------------------------- sequences of packets ---------------------- *)

IsSeq(s) == \E S : s \in Seq(S)

(* The packets of a sequence that an agreement is made of.                 *)
Talk(s) == {s[i] : i \in {j \in 1..Len(s) : s[j].code \in {"CONFREQ", "CONFACK"}}}

LEMMA EmptyTalk == IsSeq(<<>>) /\ Talk(<<>>) = {}
<1>1. <<>> \in Seq({}) /\ Len(<<>>) = 0
  OBVIOUS
<1> QED
  BY <1>1 DEF IsSeq, Talk

(* What is in a sequence is in every larger set's sequences.               *)
LEMMA WiderSeq ==
  ASSUME NEW S, NEW T, S \subseteq T, NEW s \in Seq(S)
  PROVE  s \in Seq(T)
OBVIOUS

LEMMA AppendIs ==
  ASSUME NEW s, NEW e, IsSeq(s)
  PROVE  /\ IsSeq(Append(s, e))
         /\ Len(s) \in Nat
         /\ Len(Append(s, e)) = Len(s) + 1
         /\ \A i \in 1..Len(s) : Append(s, e)[i] = s[i]
         /\ Append(s, e)[Len(s) + 1] = e
<1>1. PICK S : s \in Seq(S)
  BY DEF IsSeq
<1> DEFINE T == S \cup {e}
<1>2. s \in Seq(T)
  BY <1>1, WiderSeq
<1> HIDE DEF T
<1>3. e \in T
  BY DEF T
<1>4. /\ Append(s, e) \in Seq(T)
      /\ Len(s) \in Nat
      /\ Len(Append(s, e)) = Len(s) + 1
      /\ \A i \in 1..Len(s) : Append(s, e)[i] = s[i]
      /\ Append(s, e)[Len(s) + 1] = e
  BY <1>2, <1>3
<1> QED
  BY <1>4 DEF IsSeq

LEMMA AppendTalk ==
  ASSUME NEW s, NEW e, IsSeq(s)
  PROVE  /\ IsSeq(Append(s, e))
         /\ Talk(Append(s, e)) \subseteq Talk(s) \cup {e}
         /\ e.code \notin {"CONFREQ", "CONFACK"} => Talk(Append(s, e)) \subseteq Talk(s)
<1> DEFINE t == Append(s, e)
<1>1. /\ IsSeq(t) /\ Len(s) \in Nat /\ Len(t) = Len(s) + 1
      /\ \A i \in 1..Len(s) : t[i] = s[i]
      /\ t[Len(s) + 1] = e
  BY AppendIs
<1> HIDE DEF t
<1>2. ASSUME NEW q \in Talk(t)
      PROVE  q \in Talk(s) \/ (q = e /\ e.code \in {"CONFREQ", "CONFACK"})
  <2>1. PICK i \in 1..Len(t) : q = t[i] /\ t[i].code \in {"CONFREQ", "CONFACK"}
    BY <1>2 DEF Talk
  <2>2. i \in 1..Len(s) \/ i = Len(s) + 1
    BY <1>1, <2>1
  <2> QED
    BY <1>1, <2>1, <2>2 DEF Talk
<1> QED
  BY <1>1, <1>2 DEF t

(* ------------------------- the automaton of LCP ------------------------ *)

LcpFields == {"state", "id", "reqid", "seenAck", "retransmits", "nakloops",
              "flags", "wo", "ao", "go", "ho", "timers", "up", "finished", "out"}

Shape(g) ==
  /\ DOMAIN g = LcpFields
  /\ g.state \in States
  /\ g.up \in Int
  /\ IsSeq(g.out)

(* The states without a lower layer, the states in which our request is    *)
(* out, and those in which it was acknowledged or we acknowledged one.     *)
Bare == {"INITIAL", "STARTING"}
Live == Negotiating \cup {"OPENED"}
AckIn == {"ACKRCVD", "OPENED"}
AckOut == {"ACKSENT", "OPENED"}

(* What a handler that took the packets P may do to our own request: it    *)
(* stays, and only its Ack counts, or it is a new one under the next id.   *)
OurSide(f, g, P) ==
  g.state \in Live =>
    \/ g.reqid = NextId(f) /\ g.state \notin AckIn
    \/ /\ f.state \in Live /\ g.reqid = f.reqid /\ g.go = f.go
       /\ g.state \in AckIn =>
            f.state \in AckIn \/ \E p \in P : p.code = "CONFACK" /\ p.id = f.reqid

(* Whatever we send while our request is out is that request.              *)
Requests(g) ==
  g.state \in Live =>
    \A q \in Talk(g.out) : q.code = "CONFREQ" => q.id = g.reqid /\ q.opt = AddCi(g.go)

(* We acknowledge what we are asked, and take note of it.                  *)
Acks(g, P) ==
  \A q \in Talk(g.out) : q.code = "CONFACK" =>
    \E p \in P : /\ p.code = "CONFREQ" /\ p.id = q.id
                 /\ g.state \in AckOut => g.ho = p.opt

HisSide(f, g, P) ==
  g.state \in AckOut =>
    \/ f.state \in AckOut /\ g.ho = f.ho
    \/ \E p \in P : p.code = "CONFREQ" /\ g.ho = p.opt

(* A handler of fsm.c takes f to g.                                        *)
Step(f, g, P) ==
  /\ Shape(g)
  /\ OurSide(f, g, P) /\ Requests(g) /\ Acks(g, P) /\ HisSide(f, g, P)

(* Nothing of the negotiation is sent, and the automaton stays or leaves.  *)
Hush(g, h) ==
  /\ Shape(h)
  /\ Talk(h.out) \subseteq Talk(g.out)
  /\ h.state \in Live =>
       h.state = g.state /\ h.reqid = g.reqid /\ h.go = g.go /\ h.ho = g.ho

LEMMA HushIsTransitive ==
  ASSUME NEW f, NEW g, NEW h, Hush(f, g), Hush(g, h)
  PROVE  Hush(f, h)
BY DEF Hush

LEMMA StepThenHush ==
  ASSUME NEW f, NEW g, NEW h, NEW P, Step(f, g, P), Hush(g, h)
  PROVE  Step(f, h, P)
<1>1. OurSide(f, h, P)
  BY DEF Step, Hush, OurSide
<1>2. Requests(h)
  BY DEF Step, Hush, Requests
<1>3. Acks(h, P)
  <2>1. AckOut \subseteq Live
    BY DEF AckOut, Live, Negotiating
  <2> QED
    BY <2>1 DEF Step, Hush, Acks
<1>4. HisSide(f, h, P)
  BY DEF Step, Hush, HisSide, AckOut, Live, Negotiating
<1> QED
  BY <1>1, <1>2, <1>3, <1>4 DEF Step, Hush

(* A handler that says nothing of the negotiation and leaves it, or goes   *)
(* back in it.                                                             *)
LEMMA Retreat ==
  ASSUME NEW f, NEW g, NEW P, Shape(g), Talk(g.out) = {},
         g.state \in Live =>
           /\ f.state \in Live /\ g.reqid = f.reqid /\ g.go = f.go
           /\ g.state \in AckIn => f.state \in AckIn
           /\ g.state \in AckOut => f.state \in AckOut /\ g.ho = f.ho
  PROVE  Step(f, g, P)
BY DEF Step, OurSide, Requests, Acks, HisSide, AckOut, Live, Negotiating

(* fsm_sconfreq, by what it leaves behind.                                 *)
LEMMA SconfreqNew ==
  ASSUME NEW g, Shape(g)
  PROVE  LET q == Sconfreq(g, FALSE) IN
         /\ DOMAIN q = LcpFields
         /\ q.state = g.state /\ q.up = g.up /\ q.ho = g.ho
         /\ q.reqid = NextId(g)
         /\ q.out = Append(g.out, [code |-> "CONFREQ", id |-> q.reqid, opt |-> AddCi(q.go)])
BY DEF Shape, LcpFields, Sconfreq, Sent, ResetCi, NewRequest, Timeout, Sdata, NextId

LEMMA SconfreqAgain ==
  ASSUME NEW g, Shape(g), g.state \in Negotiating
  PROVE  LET q == Sconfreq(g, TRUE) IN
         /\ DOMAIN q = LcpFields
         /\ q.state = g.state /\ q.up = g.up /\ q.ho = g.ho /\ q.go = g.go
         /\ q.reqid = g.reqid
         /\ q.out = Append(g.out, [code |-> "CONFREQ", id |-> q.reqid, opt |-> AddCi(q.go)])
BY DEF Shape, LcpFields, Sconfreq, Sent, ResetCi, Timeout, Sdata

(* Asking anew in a handler that has not said anything yet.                *)
LEMMA AsksAnew ==
  ASSUME NEW f, NEW g, NEW h, NEW P, Shape(g), Talk(g.out) = {}, g.id = f.id,
         DOMAIN h = LcpFields, h.state \in {"REQSENT", "ACKSENT"},
         h.state = "ACKSENT" => f.state = "ACKSENT" /\ h.ho = f.ho,
         h.up = g.up, h.reqid = NextId(g),
         h.out = Append(g.out, [code |-> "CONFREQ", id |-> h.reqid, opt |-> AddCi(h.go)])
  PROVE  Step(f, h, P) /\ (\A q \in Talk(h.out) : q.code # "CONFACK")
<1> DEFINE e == [code |-> "CONFREQ", id |-> h.reqid, opt |-> AddCi(h.go)]
<1>1. h.out = Append(g.out, e)
  OBVIOUS
<1>2. e.code = "CONFREQ" /\ e.id = h.reqid /\ e.opt = AddCi(h.go)
  OBVIOUS
<1> HIDE DEF e
<1>3. IsSeq(h.out) /\ Talk(h.out) \subseteq {e}
  BY <1>1, AppendTalk DEF Shape
<1>4. Shape(h)
  BY <1>3 DEF Shape, States
<1>5. OurSide(f, h, P)
  BY DEF OurSide, AckIn, NextId
<1>6. Requests(h)
  BY <1>2, <1>3 DEF Requests
<1>7. \A x \in Talk(h.out) : x.code # "CONFACK"
  BY <1>2, <1>3
<1>8. Acks(h, P) /\ HisSide(f, h, P)
  BY <1>7 DEF Acks, HisSide, AckOut
<1> QED
  BY <1>4, <1>5, <1>6, <1>7, <1>8 DEF Step

LEMMA RequestAnew ==
  ASSUME NEW f, NEW g, NEW P, Shape(g), Talk(g.out) = {}, g.id = f.id
  PROVE  LET h == Request(g) IN
         Step(f, h, P) /\ h.state = "REQSENT" /\ (\A q \in Talk(h.out) : q.code # "CONFACK")
<1> DEFINE q == Sconfreq(g, FALSE)
           h == To(q, "REQSENT")
<1>1. /\ DOMAIN q = LcpFields /\ q.up = g.up /\ q.reqid = NextId(g)
      /\ q.out = Append(g.out, [code |-> "CONFREQ", id |-> q.reqid, opt |-> AddCi(q.go)])
  BY SconfreqNew
<1> HIDE DEF q
<1>2. /\ DOMAIN h = LcpFields /\ h.state = "REQSENT" /\ h.up = g.up
      /\ h.reqid = q.reqid /\ h.go = q.go /\ h.out = q.out
  BY <1>1 DEF To, LcpFields
<1> HIDE DEF h
<1>3. Step(f, h, P) /\ (\A x \in Talk(h.out) : x.code # "CONFACK")
  BY <1>1, <1>2, AsksAnew
<1> QED
  BY <1>2, <1>3 DEF Request, h, q

(* A packet that belongs to no agreement is sent.                          *)
LEMMA OtherSent ==
  ASSUME NEW g, NEW code, NEW id, NEW opt, Shape(g), code \notin {"CONFREQ", "CONFACK"}
  PROVE  LET h == Sdata(g, code, id, opt) IN
         /\ Shape(h) /\ Talk(h.out) \subseteq Talk(g.out)
         /\ h.state = g.state /\ h.reqid = g.reqid /\ h.go = g.go /\ h.ho = g.ho
         /\ Hush(g, h)
<1> DEFINE e == [code |-> code, id |-> id, opt |-> opt]
           h == Sdata(g, code, id, opt)
<1>1. /\ DOMAIN h = LcpFields /\ h.state = g.state /\ h.up = g.up /\ h.ho = g.ho
      /\ h.reqid = g.reqid /\ h.go = g.go /\ h.out = Append(g.out, e)
  BY DEF Shape, LcpFields, Sdata
<1>2. e.code \notin {"CONFREQ", "CONFACK"}
  OBVIOUS
<1> HIDE DEF e, h
<1>3. IsSeq(h.out) /\ Talk(h.out) \subseteq Talk(g.out)
  BY <1>1, <1>2, AppendTalk DEF Shape
<1>4. Shape(h)
  BY <1>1, <1>3 DEF Shape
<1> QED
  BY <1>1, <1>3, <1>4 DEF Hush, h

(* The bookkeeping of a handler: timers, callbacks and the like.           *)
Ticks(f, g) ==
  /\ DOMAIN g = LcpFields /\ g.up \in Int
  /\ g.state = f.state /\ g.id = f.id /\ g.reqid = f.reqid
  /\ g.go = f.go /\ g.ho = f.ho /\ g.out = f.out

LEMMA Ticking ==
  ASSUME NEW f, Shape(f)
  PROVE  /\ Ticks(f, Untimeout(f)) /\ Ticks(f, Down(f))
         /\ Ticks(f, [f EXCEPT !.seenAck = TRUE]) /\ Ticks(f, [f EXCEPT !.finished = FALSE])
BY DEF Shape, LcpFields, Ticks, Untimeout, Down

LEMMA TicksShape ==
  ASSUME NEW f, NEW g, Shape(f), Ticks(f, g)
  PROVE  Shape(g) /\ NextId(g) = NextId(f)
BY DEF Shape, Ticks, NextId

LEMMA LowerdownSteps ==
  ASSUME NEW f, NEW P, Shape(f)
  PROVE  LET g == FsmLowerdown(f) IN g.state \in Bare /\ Hush(f, g)
<1> DEFINE g == FsmLowerdown(f)
<1>1. DOMAIN g = LcpFields /\ g.state \in Bare /\ g.up \in Int /\ g.out = f.out
  BY DEF Shape, LcpFields, FsmLowerdown, To, Untimeout, Down, States, Negotiating, Bare
<1> HIDE DEF g
<1>2. Bare \subseteq States /\ g.state \notin Live
  BY <1>1 DEF Bare, States, Live, Negotiating
<1> QED
  BY <1>1, <1>2 DEF Hush, Shape, g

LEMMA LowerupSteps ==
  ASSUME NEW f, NEW P, Shape(f), f.out = <<>>, f.state = "STARTING"
  PROVE  Step(f, FsmLowerup(f), P)
<1>0. Talk(f.out) = {}
  BY EmptyTalk
<1>1. Step(f, Request(f), P)
  BY <1>0, RequestAnew
<1> DEFINE h == To(f, "STOPPED")
<1>2. Shape(h) /\ h.state = "STOPPED" /\ h.out = f.out
  BY DEF Shape, LcpFields, To, States
<1> HIDE DEF h
<1>3. Step(f, h, P)
  BY <1>0, <1>2, Retreat DEF Live, Negotiating
<1> QED
  BY <1>1, <1>3 DEF FsmLowerup, h

LEMMA TerminateSteps ==
  ASSUME NEW f, NEW next \in {"CLOSING", "STOPPING"}, Shape(f)
  PROVE  LET g == TerminateLayer(f, next) IN
         g.state \in {"CLOSING", "STOPPING", "CLOSED", "STOPPED"} /\ Hush(f, g)
<1> DEFINE quiet == IF f.state = "OPENED" THEN Down(f) ELSE Untimeout(f)
           r == [quiet EXCEPT !.id = NextId(f), !.reqid = NextId(f)]
           sent == Sdata(r, "TERMREQ", NextId(f), None)
           g == TerminateLayer(f, next)
<1>1. Ticks(f, quiet)
  BY Ticking
<1> HIDE DEF quiet
<1>2. DOMAIN r = LcpFields /\ r.state = f.state /\ r.up \in Int /\ r.out = f.out
  BY <1>1 DEF Ticks, LcpFields
<1> HIDE DEF r
<1>3. Shape(sent) /\ Talk(sent.out) \subseteq Talk(f.out)
  BY <1>2, OtherSent DEF Shape
<1> HIDE DEF sent
<1>4. g = IF MaxTermReqs = 0
          THEN Finished(To([sent EXCEPT !.retransmits = 0],
                           IF next = "CLOSING" THEN "CLOSED" ELSE "STOPPED"))
          ELSE To(Timeout([sent EXCEPT !.retransmits = MaxTermReqs - 1]), next)
  BY DEF TerminateLayer, sent, r, quiet
<1>5. /\ DOMAIN g = LcpFields /\ g.up = sent.up /\ g.out = sent.out
      /\ g.state \in {"CLOSING", "STOPPING", "CLOSED", "STOPPED"}
  BY <1>3, <1>4 DEF Shape, LcpFields, Finished, To, Timeout
<1> HIDE DEF g
<1>6. g.state \in States /\ g.state \notin Live
  BY <1>5 DEF States, Live, Negotiating
<1> QED
  BY <1>3, <1>5, <1>6 DEF Hush, Shape, g

LEMMA CloseSteps ==
  ASSUME NEW f, Shape(f)
  PROVE  /\ Hush(f, FsmClose(f))
         /\ f.state \in Bare => FsmClose(f).state = "INITIAL" /\ FsmClose(f).id = f.id
                                /\ FsmClose(f).up = f.up /\ FsmClose(f).out = f.out
<1>1. f.state \in Live => Hush(f, FsmClose(f))
  <2>1. f.state \in Live => FsmClose(f) = TerminateLayer(f, "CLOSING")
    BY DEF FsmClose, Live, Negotiating
  <2> QED
    BY <2>1, TerminateSteps
<1>2. ASSUME f.state \notin Live
      PROVE  Hush(f, FsmClose(f))
             /\ (f.state \in Bare => FsmClose(f).state = "INITIAL" /\ FsmClose(f).id = f.id
                                     /\ FsmClose(f).up = f.up /\ FsmClose(f).out = f.out)
  <2> DEFINE g == FsmClose(f)
  <2>1. /\ DOMAIN g = LcpFields /\ g.state \in {"INITIAL", "CLOSED", "CLOSING"}
        /\ g.up = f.up /\ g.out = f.out /\ g.id = f.id
        /\ f.state \in Bare => g.state = "INITIAL"
    BY <1>2 DEF Shape, LcpFields, FsmClose, To, States, Live, Negotiating, Bare
  <2> HIDE DEF g
  <2>2. g.state \in States /\ g.state \notin Live
    BY <2>1 DEF States, Live, Negotiating
  <2> QED
    BY <2>1, <2>2 DEF Hush, Shape, g
<1> QED
  BY <1>1, <1>2 DEF Live, Negotiating, Bare

LEMMA ProtrejectSteps ==
  ASSUME NEW f, Shape(f), f.state = "OPENED"
  PROVE  Hush(f, FsmProtreject(f))
BY TerminateSteps DEF FsmProtreject, Negotiating

LEMMA TermreqTimeoutSteps ==
  ASSUME NEW g, Shape(g), g.state \in {"CLOSING", "STOPPING"}
  PROVE  Hush(g, TermreqTimeout(g))
<1> DEFINE r == [g EXCEPT !.id = NextId(g), !.reqid = NextId(g), !.retransmits = @ - 1]
           sent == Sdata(r, "TERMREQ", NextId(g), None)
           h == TermreqTimeout(g)
<1>1. Shape(r) /\ r.state = g.state /\ r.out = g.out
  BY DEF Shape, LcpFields
<1> HIDE DEF r
<1>2. Shape(sent) /\ Talk(sent.out) \subseteq Talk(g.out) /\ sent.state = g.state
  BY <1>1, OtherSent
<1> HIDE DEF sent
<1>3. h = IF g.retransmits <= 0
          THEN Finished(To(g, IF g.state = "CLOSING" THEN "CLOSED" ELSE "STOPPED"))
          ELSE Timeout(sent)
  BY DEF TermreqTimeout, sent, r
<1>4. /\ DOMAIN h = LcpFields /\ h.up \in Int
      /\ h.out = g.out \/ h.out = sent.out
      /\ h.state \in {"CLOSING", "STOPPING", "CLOSED", "STOPPED"}
  BY <1>2, <1>3 DEF Shape, LcpFields, Finished, To, Timeout
<1> HIDE DEF h
<1>5. h.state \in States /\ h.state \notin Live
  BY <1>4 DEF States, Live, Negotiating
<1> QED
  BY <1>2, <1>4, <1>5 DEF Hush, Shape, h

LEMMA ConfreqTimeoutSteps ==
  ASSUME NEW f, NEW g, NEW P, Shape(f), Ticks(f, g), f.out = <<>>, f.state \in Negotiating
  PROVE  Step(f, ConfreqTimeout(g), P)
<1>0. Shape(g) /\ Talk(g.out) = {} /\ g.state = f.state
  BY TicksShape, EmptyTalk DEF Ticks
<1>1. ASSUME NEW h, h \in {To(g, "STOPPED"), Finished(To(g, "STOPPED"))}
      PROVE  Step(f, h, P)
  <2>1. DOMAIN h = LcpFields /\ h.state = "STOPPED" /\ h.up = g.up /\ h.out = g.out
    BY <1>0, <1>1 DEF Shape, LcpFields, To, Finished
  <2>2. Shape(h) /\ Talk(h.out) = {}
    BY <1>0, <2>1 DEF Shape, States
  <2> QED
    BY <2>1, <2>2, Retreat DEF Live, Negotiating
<1>2. ASSUME NEW h,
             h = IF g.state = "ACKRCVD" THEN To(Sconfreq(g, TRUE), "REQSENT") ELSE Sconfreq(g, TRUE)
      PROVE  Step(f, h, P)
  <2> DEFINE q == Sconfreq(g, TRUE)
             e == [code |-> "CONFREQ", id |-> h.reqid, opt |-> AddCi(h.go)]
  <2>1. /\ DOMAIN q = LcpFields
        /\ q.state = g.state /\ q.up = g.up /\ q.ho = g.ho /\ q.go = g.go
        /\ q.reqid = g.reqid
        /\ q.out = Append(g.out, [code |-> "CONFREQ", id |-> q.reqid, opt |-> AddCi(q.go)])
    BY <1>0, SconfreqAgain
  <2> HIDE DEF q
  <2>2. h = IF g.state = "ACKRCVD" THEN To(q, "REQSENT") ELSE q
    BY <1>2 DEF q
  <2>3. /\ DOMAIN h = LcpFields
        /\ h.state = (IF g.state = "ACKRCVD" THEN "REQSENT" ELSE g.state)
        /\ h.up = g.up /\ h.ho = g.ho /\ h.go = g.go /\ h.reqid = g.reqid /\ h.out = q.out
    BY <2>1, <2>2 DEF To, LcpFields
  <2>4. h.out = Append(g.out, e) /\ e.code = "CONFREQ" /\ e.id = h.reqid /\ e.opt = AddCi(h.go)
    BY <2>1, <2>3
  <2> HIDE DEF e
  <2>5. IsSeq(h.out) /\ Talk(h.out) \subseteq {e}
    BY <1>0, <2>4, AppendTalk DEF Shape
  <2>6. Shape(h) /\ h.state \in {"REQSENT", "ACKSENT"}
    BY <1>0, <2>3, <2>5 DEF Shape, States, Negotiating
  <2>7. OurSide(f, h, P)
    BY <2>3, <2>6 DEF OurSide, AckIn, Live, Ticks
  <2>8. Requests(h) /\ Acks(h, P)
    BY <2>4, <2>5 DEF Requests, Acks
  <2>9. HisSide(f, h, P)
    BY <1>0, <2>3 DEF HisSide, AckOut, Ticks, Negotiating
  <2> QED
    BY <2>6, <2>7, <2>8, <2>9 DEF Step
<1> QED
  BY <1>1, <1>2 DEF ConfreqTimeout

LEMMA TimeoutSteps ==
  ASSUME NEW f, NEW P, Shape(f), f.out = <<>>
  PROVE  /\ Step(f, FsmTimeout(f), P)
         /\ f.state \in Bare => FsmTimeout(f).state \in Bare
<1> DEFINE g == Untimeout(f)
<1>1. Ticks(f, g)
  BY Ticking
<1> HIDE DEF g
<1>2. Shape(g) /\ Talk(g.out) = {} /\ g.state = f.state
  BY <1>1, TicksShape, EmptyTalk DEF Ticks
<1>3. Step(f, g, P)
  BY <1>1, <1>2, Retreat DEF Ticks
<1>4. CASE f.state \in {"CLOSING", "STOPPING"}
  <2>1. Hush(g, TermreqTimeout(g))
    BY <1>2, <1>4, TermreqTimeoutSteps
  <2>2. Step(f, TermreqTimeout(g), P)
    BY <1>3, <2>1, StepThenHush
  <2>3. FsmTimeout(f) = TermreqTimeout(g) /\ f.state \notin Bare
    BY <1>2, <1>4 DEF FsmTimeout, TimedOut, g, Bare, Negotiating
  <2> QED
    BY <2>2, <2>3
<1>5. CASE f.state \in Negotiating
  <2>1. Step(f, ConfreqTimeout(g), P)
    BY <1>1, <1>5, ConfreqTimeoutSteps
  <2> QED
    BY <1>2, <1>5, <2>1 DEF FsmTimeout, TimedOut, g, Bare, Negotiating
<1>6. CASE f.state \notin Negotiating \cup {"CLOSING", "STOPPING"}
  BY <1>2, <1>3, <1>6 DEF FsmTimeout, TimedOut, g
<1> QED
  BY <1>4, <1>5, <1>6

(* fsm_rconfreq, from a negotiation in which nothing was acknowledged yet. *)
LEMMA AnswerSteps ==
  ASSUME NEW f, NEW r, NEW p, Step(f, r, {p}), r.state \in Negotiating,
         \A q \in Talk(r.out) : q.code # "CONFACK", p.code = "CONFREQ"
  PROVE  Step(f, AnswerConfreq(r, p.id, p.opt), {p})
<1> DEFINE answer == ReqCi(r.ao, p.opt, r.nakloops >= MaxNakLoops)
           e == [code |-> answer.code, id |-> p.id, opt |-> answer.opt]
           his == [r EXCEPT !.ho = IF answer.code = "CONFACK" THEN p.opt ELSE None]
           s == Sdata(his, answer.code, p.id, answer.opt)
           h == Answered(s, answer.code)
<1>1. answer.code \in {"CONFACK", "CONFNAK", "CONFREJ"}
  BY DEF ReqCi
<1> HIDE DEF answer
<1>2. /\ DOMAIN s = LcpFields /\ s.state = r.state /\ s.up = r.up
      /\ s.ho = (IF answer.code = "CONFACK" THEN p.opt ELSE None)
      /\ s.go = r.go /\ s.reqid = r.reqid /\ s.out = Append(r.out, e)
  BY DEF Step, Shape, LcpFields, Sdata
<1> HIDE DEF s
<1>3. /\ DOMAIN h = LcpFields /\ h.up \in Int /\ h.ho = s.ho
      /\ h.go = s.go /\ h.reqid = s.reqid /\ h.out = s.out
      /\ h.state \in Live
      /\ h.state \in AckIn <=> r.state \in AckIn
      /\ h.state \in AckOut <=> answer.code = "CONFACK"
  BY <1>1, <1>2 DEF Step, Shape, LcpFields, Answered, Up, To, Untimeout, Live, AckIn, AckOut,
                    Negotiating
<1> HIDE DEF h
<1>4. e.code = answer.code /\ e.id = p.id
  OBVIOUS
<1> HIDE DEF e
<1>5. IsSeq(h.out) /\ Talk(h.out) \subseteq Talk(r.out) \cup {e}
  BY <1>2, <1>3, AppendTalk DEF Step, Shape
<1>6. Shape(h) /\ r.state \in Live
  BY <1>3, <1>5 DEF Shape, States, Live, Negotiating
<1>7. OurSide(f, h, {p})
  BY <1>2, <1>3, <1>6 DEF Step, OurSide
<1>8. Requests(h)
  BY <1>1, <1>2, <1>3, <1>4, <1>5, <1>6 DEF Step, Requests
<1>9. Acks(h, {p})
  BY <1>2, <1>3, <1>4, <1>5 DEF Acks
<1>10. HisSide(f, h, {p})
  BY <1>2, <1>3 DEF HisSide
<1> QED
  BY <1>6, <1>7, <1>8, <1>9, <1>10 DEF Step, AnswerConfreq, h, s, answer

LEMMA RconfreqSteps ==
  ASSUME NEW f, NEW p, Shape(f), f.out = <<>>, f.state \notin Bare, p.code = "CONFREQ"
  PROVE  Step(f, Rconfreq(f, p.id, p.opt), {p})
<1>0. Talk(f.out) = {}
  BY EmptyTalk
<1>1. Step(f, f, {p})
  BY <1>0, Retreat
<1>2. CASE f.state = "CLOSED"
  <2>1. Hush(f, Sdata(f, "TERMACK", p.id, None))
    BY OtherSent
  <2>2. Step(f, Sdata(f, "TERMACK", p.id, None), {p})
    BY <1>1, <2>1, StepThenHush
  <2> QED
    BY <1>2, <2>2 DEF Rconfreq
<1>3. CASE f.state \in {"CLOSING", "STOPPING"}
  BY <1>1, <1>3 DEF Rconfreq
<1>4. CASE f.state = "OPENED"
  <2>1. Ticks(f, Down(f))
    BY Ticking
  <2> DEFINE g == Down(f)
             r == Request(g)
  <2> HIDE DEF g
  <2>2. Shape(g) /\ Talk(g.out) = {} /\ g.id = f.id
    BY <1>0, <2>1, TicksShape DEF Ticks, g
  <2>3. Step(f, r, {p}) /\ r.state = "REQSENT" /\ (\A q \in Talk(r.out) : q.code # "CONFACK")
    BY <2>2, RequestAnew
  <2> HIDE DEF r
  <2>4. Step(f, AnswerConfreq(r, p.id, p.opt), {p})
    BY <2>3, AnswerSteps DEF Negotiating
  <2> QED
    BY <1>4, <2>4 DEF Rconfreq, r, g
<1>5. CASE f.state = "STOPPED"
  <2> DEFINE r == Request(f)
  <2>1. Step(f, r, {p}) /\ r.state = "REQSENT" /\ (\A q \in Talk(r.out) : q.code # "CONFACK")
    BY <1>0, RequestAnew
  <2> HIDE DEF r
  <2>2. Step(f, AnswerConfreq(r, p.id, p.opt), {p})
    BY <2>1, AnswerSteps DEF Negotiating
  <2> QED
    BY <1>5, <2>2 DEF Rconfreq, r
<1>6. CASE f.state \in Negotiating
  <2>1. Step(f, AnswerConfreq(f, p.id, p.opt), {p})
    BY <1>0, <1>1, <1>6, AnswerSteps
  <2> QED
    BY <1>6, <2>1 DEF Rconfreq, Negotiating
<1> QED
  BY <1>2, <1>3, <1>4, <1>5, <1>6 DEF Shape, States, Bare, Negotiating

(* What fsm_rconfack and fsm_rconfnakrej do first: the answer is noted.    *)
LEMMA AckedSteps ==
  ASSUME NEW f, NEW p, Shape(f), f.out = <<>>, p.code = "CONFACK", p.id = f.reqid
  PROVE  Step(f, Acked([f EXCEPT !.seenAck = TRUE], p.id), {p})
<1> DEFINE n == [f EXCEPT !.seenAck = TRUE]
<1>1. Ticks(f, n)
  BY Ticking
<1> HIDE DEF n
<1>2. Shape(n) /\ Talk(n.out) = {} /\ n.state = f.state
  BY <1>1, TicksShape, EmptyTalk DEF Ticks
<1>3. Step(f, n, {p})
  BY <1>1, <1>2, Retreat DEF Ticks
<1>4. CASE f.state \in {"CLOSED", "STOPPED"}
  <2>1. Hush(n, Sdata(n, "TERMACK", p.id, None))
    BY <1>2, OtherSent
  <2>2. Step(f, Sdata(n, "TERMACK", p.id, None), {p})
    BY <1>3, <2>1, StepThenHush
  <2>3. Acked(n, p.id) = Sdata(n, "TERMACK", p.id, None)
    BY <1>2, <1>4 DEF Acked
  <2> QED
    BY <2>2, <2>3 DEF n
<1>5. CASE f.state \in {"REQSENT", "ACKSENT"}
  <2> DEFINE h == Acked(n, p.id)
  <2>1. /\ DOMAIN h = LcpFields /\ h.up \in Int
        /\ h.state = (IF f.state = "REQSENT" THEN "ACKRCVD" ELSE "OPENED")
        /\ h.reqid = n.reqid /\ h.go = n.go /\ h.ho = n.ho /\ h.out = n.out
    BY <1>2, <1>5 DEF Shape, LcpFields, Acked, To, Up, Untimeout
  <2> HIDE DEF h
  <2>2. Shape(h) /\ Talk(h.out) = {}
    BY <1>2, <2>1 DEF Shape, States
  <2>3. OurSide(f, h, {p})
    BY <1>1, <1>5, <2>1 DEF OurSide, Ticks, Live, Negotiating
  <2>4. HisSide(f, h, {p})
    BY <1>1, <1>5, <2>1 DEF HisSide, Ticks, AckOut
  <2>5. Requests(h) /\ Acks(h, {p})
    BY <2>2 DEF Requests, Acks
  <2> QED
    BY <2>2, <2>3, <2>4, <2>5 DEF Step, h, n
<1>6. CASE f.state \in {"ACKRCVD", "OPENED"}
  <2> DEFINE g == IF f.state = "ACKRCVD" THEN Untimeout(n) ELSE Down(n)
  <2>1. Ticks(n, g)
    BY <1>2, Ticking
  <2>2. Acked(n, p.id) = Request(g)
    BY <1>2, <1>6 DEF Acked
  <2> HIDE DEF g
  <2>3. Shape(g) /\ Talk(g.out) = {} /\ g.id = f.id
    BY <1>1, <1>2, <2>1, TicksShape DEF Ticks
  <2>4. Step(f, Request(g), {p})
    BY <2>3, RequestAnew
  <2> QED
    BY <2>2, <2>4 DEF n
<1>7. CASE f.state \in {"INITIAL", "STARTING", "CLOSING", "STOPPING"}
  <2>1. Acked(n, p.id) = n
    BY <1>2, <1>7 DEF Acked
  <2> QED
    BY <1>3, <2>1 DEF n
<1> QED
  BY <1>4, <1>5, <1>6, <1>7 DEF Shape, States

LEMMA RconfackSteps ==
  ASSUME NEW f, NEW p, Shape(f), f.out = <<>>, p.code = "CONFACK"
  PROVE  Step(f, Rconfack(f, p.id, p.opt), {p})
<1>1. Step(f, f, {p})
  BY EmptyTalk, Retreat
<1>2. p.id = f.reqid => Step(f, Acked([f EXCEPT !.seenAck = TRUE], p.id), {p})
  BY AckedSteps
<1> QED
  BY <1>1, <1>2 DEF Rconfack, Expected

LEMMA RefusedSteps ==
  ASSUME NEW f, NEW n, NEW p, Shape(f), f.out = <<>>, Shape(n), n.state = f.state,
         n.id = f.id, n.out = f.out, n.ho = f.ho
  PROVE  Step(f, Refused(n, p.id), {p})
<1>0. Talk(n.out) = {}
  BY EmptyTalk
<1>1. f.state \notin Live => Step(f, n, {p})
  BY <1>0, Retreat
<1>2. CASE f.state \in {"CLOSED", "STOPPED"}
  <2>1. Hush(n, Sdata(n, "TERMACK", p.id, None))
    BY OtherSent
  <2>2. Step(f, Sdata(n, "TERMACK", p.id, None), {p})
    BY <1>1, <1>2, <2>1, StepThenHush DEF Live, Negotiating
  <2> QED
    BY <1>2, <2>2 DEF Refused
<1>3. CASE f.state \in {"REQSENT", "ACKSENT"}
  <2> DEFINE g == Untimeout(n)
             h == Sconfreq(g, FALSE)
  <2>1. Ticks(n, g)
    BY Ticking
  <2>2. Refused(n, p.id) = h
    BY <1>3 DEF Refused
  <2> HIDE DEF g
  <2>3. Shape(g) /\ Talk(g.out) = {} /\ g.id = f.id /\ g.state = f.state /\ g.ho = f.ho
    BY <1>0, <2>1, TicksShape DEF Ticks
  <2>4. /\ DOMAIN h = LcpFields /\ h.state = g.state /\ h.up = g.up /\ h.ho = g.ho
        /\ h.reqid = NextId(g)
        /\ h.out = Append(g.out, [code |-> "CONFREQ", id |-> h.reqid, opt |-> AddCi(h.go)])
    BY <2>3, SconfreqNew
  <2> HIDE DEF h
  <2>5. Step(f, h, {p})
    BY <1>3, <2>3, <2>4, AsksAnew
  <2> QED
    BY <2>2, <2>5
<1>4. CASE f.state \in {"ACKRCVD", "OPENED"}
  <2> DEFINE g == IF f.state = "ACKRCVD" THEN Untimeout(n) ELSE Down(n)
  <2>1. Ticks(n, g)
    BY Ticking
  <2>2. Refused(n, p.id) = Request(g)
    BY <1>4 DEF Refused
  <2> HIDE DEF g
  <2>3. Shape(g) /\ Talk(g.out) = {} /\ g.id = f.id
    BY <1>0, <2>1, TicksShape DEF Ticks
  <2>4. Step(f, Request(g), {p})
    BY <2>3, RequestAnew
  <2> QED
    BY <2>2, <2>4
<1>5. CASE f.state \in {"INITIAL", "STARTING", "CLOSING", "STOPPING"}
  BY <1>1, <1>5 DEF Refused, Live, Negotiating
<1> QED
  BY <1>2, <1>3, <1>4, <1>5 DEF Shape, States

LEMMA RconfnakrejSteps ==
  ASSUME NEW f, NEW p, Shape(f), f.out = <<>>
  PROVE  Step(f, Rconfnakrej(f, p.code, p.id, p.opt), {p})
<1>1. Step(f, f, {p})
  BY EmptyTalk, Retreat
<1>2. ASSUME NEW left
      PROVE  Step(f, Refused([f EXCEPT !.seenAck = TRUE, !.go = left], p.id), {p})
  <2> DEFINE n == [f EXCEPT !.seenAck = TRUE, !.go = left]
  <2>1. Shape(n) /\ n.state = f.state /\ n.id = f.id /\ n.out = f.out /\ n.ho = f.ho
    BY DEF Shape, LcpFields
  <2> HIDE DEF n
  <2>2. Step(f, Refused(n, p.id), {p})
    BY <2>1, RefusedSteps
  <2> QED
    BY <2>2 DEF n
<1> QED
  BY <1>1, <1>2 DEF Rconfnakrej

(* The states a handler leaves without a word.                             *)
LEMMA Returns ==
  ASSUME NEW f, NEW h, NEW P, Shape(f), f.out = <<>>, DOMAIN h = LcpFields, h.up \in Int,
         h.out = f.out, h.state \in States,
         h.state \in Live => /\ f.state \in Live /\ h.state \in {"REQSENT", f.state}
                             /\ h.reqid = f.reqid /\ h.go = f.go /\ h.ho = f.ho
  PROVE  Step(f, h, P) /\ Shape(h) /\ Talk(h.out) = {}
<1>1. Shape(h) /\ Talk(h.out) = {}
  BY EmptyTalk DEF Shape
<1> QED
  BY <1>1, Retreat DEF AckIn, AckOut

LEMMA RtermSteps ==
  ASSUME NEW f, NEW p, Shape(f), f.out = <<>>
  PROVE  Step(f, Rtermreq(f, p.id), {p}) /\ Step(f, Rtermack(f), {p}) /\ Step(f, Rcoderej(f), {p})
<1>1. Step(f, Rtermreq(f, p.id), {p})
  <2> DEFINE h == TermreqSeen(f)
  <2>1. /\ DOMAIN h = LcpFields /\ h.up \in Int /\ h.out = f.out
        /\ h.state \in {f.state, "REQSENT", "STOPPING"}
        /\ h.state \in Live => /\ f.state \in Live /\ h.state \in {"REQSENT", f.state}
                               /\ h.reqid = f.reqid /\ h.go = f.go /\ h.ho = f.ho
    BY DEF Shape, LcpFields, TermreqSeen, To, Timeout, Down, Live, Negotiating, States
  <2> HIDE DEF h
  <2>2. h.state \in States
    BY <2>1 DEF Shape, States
  <2>3. Step(f, h, {p}) /\ Shape(h)
    BY <2>1, <2>2, Returns
  <2>4. Hush(h, Sdata(h, "TERMACK", p.id, None))
    BY <2>3, OtherSent
  <2>5. Step(f, Sdata(h, "TERMACK", p.id, None), {p})
    BY <2>3, <2>4, StepThenHush
  <2> QED
    BY <2>5 DEF Rtermreq, h
<1>2. Step(f, Rtermack(f), {p})
  <2>1. CASE f.state = "OPENED"
    <3> DEFINE g == Down(f)
    <3>1. Ticks(f, g)
      BY Ticking
    <3> HIDE DEF g
    <3>2. Shape(g) /\ Talk(g.out) = {} /\ g.id = f.id
      BY <3>1, TicksShape, EmptyTalk DEF Ticks
    <3>3. Step(f, Request(g), {p})
      BY <3>2, RequestAnew
    <3> QED
      BY <2>1, <3>3 DEF Rtermack, g
  <2>2. CASE f.state # "OPENED"
    <3> DEFINE h == Rtermack(f)
    <3>1. /\ DOMAIN h = LcpFields /\ h.up \in Int /\ h.out = f.out
          /\ h.state \in {f.state, "REQSENT", "STOPPED", "CLOSED"}
          /\ h.state \in Live => /\ f.state \in Live /\ h.state \in {"REQSENT", f.state}
                                 /\ h.reqid = f.reqid /\ h.go = f.go /\ h.ho = f.ho
      BY <2>2 DEF Shape, LcpFields, Rtermack, To, Untimeout, Finished, Live, Negotiating, States
    <3> HIDE DEF h
    <3>2. h.state \in States
      BY <3>1 DEF Shape, States
    <3>3. Step(f, h, {p})
      BY <3>1, <3>2, Returns
    <3> QED
      BY <3>3 DEF h
  <2> QED
    BY <2>1, <2>2
<1>3. Step(f, Rcoderej(f), {p})
  <2> DEFINE h == Rcoderej(f)
  <2>1. /\ DOMAIN h = LcpFields /\ h.up \in Int /\ h.out = f.out
        /\ h.state \in {f.state, "REQSENT"}
        /\ h.state \in Live => /\ f.state \in Live /\ h.state \in {"REQSENT", f.state}
                               /\ h.reqid = f.reqid /\ h.go = f.go /\ h.ho = f.ho
    BY DEF Shape, LcpFields, Rcoderej, To, Live, Negotiating
  <2> HIDE DEF h
  <2>2. h.state \in States
    BY <2>1 DEF Shape, States
  <2>3. Step(f, h, {p})
    BY <2>1, <2>2, Returns
  <2> QED
    BY <2>3 DEF h
<1> QED
  BY <1>1, <1>2, <1>3

(* fsm_input: what a packet may do to the negotiation.                     *)
LEMMA InputSteps ==
  ASSUME NEW f, NEW p, Shape(f), f.out = <<>>
  PROVE  /\ Step(f, FsmInput(f, p), {p})
         /\ f.state \in Bare => FsmInput(f, p).state \in Bare
<1>1. CASE f.state \in Bare
  <2>1. Step(f, f, {p})
    BY EmptyTalk, Retreat
  <2> QED
    BY <1>1, <2>1 DEF FsmInput, Bare
<1>2. CASE f.state \notin Bare
  <2>1. p.code = "CONFREQ" => Step(f, Rconfreq(f, p.id, p.opt), {p})
    BY <1>2, RconfreqSteps
  <2>2. p.code = "CONFACK" => Step(f, Rconfack(f, p.id, p.opt), {p})
    BY RconfackSteps
  <2>3. Step(f, Rconfnakrej(f, p.code, p.id, p.opt), {p})
    BY RconfnakrejSteps
  <2>4. Step(f, Rtermreq(f, p.id), {p}) /\ Step(f, Rtermack(f), {p}) /\ Step(f, Rcoderej(f), {p})
    BY RtermSteps
  <2> DEFINE r == [f EXCEPT !.id = NextId(f)]
             u == Sdata(r, "CODEREJ", NextId(f), None)
  <2>5. Step(f, u, {p})
    <3>1. /\ DOMAIN r = LcpFields /\ r.up \in Int /\ r.out = f.out /\ r.state = f.state
          /\ r.reqid = f.reqid /\ r.go = f.go /\ r.ho = f.ho
      BY DEF Shape, LcpFields
    <3> HIDE DEF r
    <3>2. r.state \in States
      BY <3>1 DEF Shape
    <3>3. Step(f, r, {p}) /\ Shape(r)
      BY <3>1, <3>2, Returns
    <3>4. Hush(r, u)
      BY <3>3, OtherSent
    <3> HIDE DEF u
    <3> QED
      BY <3>3, <3>4, StepThenHush
  <2> HIDE DEF r, u
  <2>6. FsmInput(f, p) = CASE p.code = "CONFREQ" -> Rconfreq(f, p.id, p.opt)
          [] p.code = "CONFACK" -> Rconfack(f, p.id, p.opt)
          [] p.code \in {"CONFNAK", "CONFREJ"} -> Rconfnakrej(f, p.code, p.id, p.opt)
          [] p.code = "TERMREQ" -> Rtermreq(f, p.id)
          [] p.code = "TERMACK" -> Rtermack(f)
          [] p.code = "CODEREJ" -> Rcoderej(f)
          [] OTHER -> u
    BY <1>2 DEF FsmInput, Bare, u, r
  <2> QED
    BY <1>2, <2>1, <2>2, <2>3, <2>4, <2>5, <2>6
<1> QED
  BY <1>1, <1>2

(* ------------------------------ the daemon ----------------------------- *)

PppdFields == {"lcp", "phase", "hungup", "line", "delayed", "delays", "running",
               "echos", "unanswered", "pending", "ss", "cs", "chal", "xmits",
               "challenges", "np", "limits", "noauth", "addrs", "dice", "proven"}

(* A link that is dead or hung up has no lower layer any more.             *)
Grounded(d) == d.phase = "DEAD" \/ d.hungup => d.lcp.state \in Bare

Daemon(d) ==
  /\ DOMAIN d = PppdFields
  /\ Shape(d.lcp)
  /\ d.delayed = FALSE
  /\ Grounded(d)

(* What a callback may do.                                                 *)
Quiet(d, e) == Daemon(e) /\ Hush(d.lcp, e.lcp)

(* Everything but LCP may change, if the link does not die of it.          *)
Beside(d, e) ==
  /\ DOMAIN e = PppdFields
  /\ e.lcp = d.lcp /\ e.delayed = d.delayed /\ e.hungup = d.hungup
  /\ e.phase = "DEAD" => d.phase = "DEAD"

LEMMA BesideIsTransitive ==
  ASSUME NEW d, NEW e, NEW r, Beside(d, e), Beside(e, r)
  PROVE  Beside(d, r)
BY DEF Beside

LEMMA BesideIsQuiet ==
  ASSUME NEW d, NEW e, Daemon(d), Beside(d, e)
  PROVE  Quiet(d, e) /\ Daemon(e)
BY DEF Daemon, Grounded, Beside, Quiet, Hush

LEMMA QuietIsTransitive ==
  ASSUME NEW d, NEW e, NEW r, Quiet(d, e), Quiet(e, r)
  PROVE  Quiet(d, r)
BY HushIsTransitive DEF Quiet

LEMMA OutputQuiet ==
  ASSUME NEW d, NEW code, NEW id, NEW opt, Daemon(d), code \notin {"CONFREQ", "CONFACK"}
  PROVE  LET e == Output(d, code, id, opt) IN Quiet(d, e) /\ e.lcp.state = d.lcp.state
<1> DEFINE e == Output(d, code, id, opt)
           g == Sdata(d.lcp, code, id, opt)
<1>1. Shape(g) /\ g.state = d.lcp.state /\ Hush(d.lcp, g)
  BY OtherSent DEF Daemon
<1> HIDE DEF g
<1>2. e = [d EXCEPT !.lcp = g]
  BY DEF Output, g
<1>3. /\ DOMAIN e = PppdFields /\ e.lcp = g /\ e.phase = d.phase /\ e.hungup = d.hungup
      /\ e.delayed = d.delayed
  BY <1>2 DEF Daemon, PppdFields
<1> HIDE DEF e
<1> QED
  BY <1>1, <1>3 DEF Quiet, Daemon, Grounded, e

LEMMA DownBeside ==
  ASSUME NEW d, Daemon(d)
  PROVE  Beside(d, LcpDown(d))
<1> DEFINE a == LcpEchoLowerdown(d)
           b == ChapLowerdown(a)
           c == IF b.np = "up" THEN NpDown(b) ELSE b
           u == [c EXCEPT !.np = "closed"]
           e == [u EXCEPT !.phase = IF @ = "DEAD" THEN @ ELSE "ESTABLISH", !.proven = FALSE]
<1>1. Beside(d, a)
  BY DEF Daemon, PppdFields, Beside, LcpEchoLowerdown
<1> HIDE DEF a
<1>2. Beside(a, b)
  BY <1>1 DEF PppdFields, Beside, ChapLowerdown
<1> HIDE DEF b
<1>3. Beside(b, c)
  BY <1>2 DEF PppdFields, Beside, NpDown
<1> HIDE DEF c
<1>4. Beside(c, u)
  BY <1>3 DEF PppdFields, Beside
<1> HIDE DEF u
<1>5. Beside(u, e)
  BY <1>4 DEF PppdFields, Beside
<1>6. LcpDown(d) = e
  BY DEF LcpDown, LinkDown, UpperLayersDown, a, b, c, u
<1> HIDE DEF e
<1> QED
  BY <1>1, <1>2, <1>3, <1>4, <1>5, <1>6, BesideIsTransitive

LEMMA LoweredQuiet ==
  ASSUME NEW d, NEW g, Daemon(d), Shape(g),
         d.phase = "DEAD" \/ d.hungup => g.state \in Bare
  PROVE  LET e == Lowered(d, g) IN
         /\ Daemon(e) /\ e.lcp = g /\ e.hungup = d.hungup
         /\ g.up = d.lcp.up => e = [d EXCEPT !.lcp = g]
<1> DEFINE m == [d EXCEPT !.lcp = g]
           e == Lowered(d, g)
<1>1. Daemon(m) /\ m.lcp = g /\ m.hungup = d.hungup
  BY DEF Daemon, PppdFields, Grounded
<1>2. g.up = d.lcp.up => e = m
  BY DEF Lowered, Shape, Daemon
<1>3. e = m \/ e = LcpDown(m)
  BY DEF Lowered
<1> HIDE DEF m, e
<1>4. Beside(m, LcpDown(m))
  BY <1>1, DownBeside
<1>5. Daemon(LcpDown(m))
  BY <1>1, <1>4, BesideIsQuiet
<1>6. Daemon(e) /\ e.lcp = g /\ e.hungup = d.hungup
  BY <1>1, <1>3, <1>4, <1>5 DEF Beside
<1> QED
  BY <1>2, <1>6 DEF m, e

LEMMA LowerdownQuiet ==
  ASSUME NEW d, DOMAIN d = PppdFields, Shape(d.lcp), d.delayed = FALSE
  PROVE  LET e == LcpLowerdown(d) IN
         Quiet(d, e) /\ e.lcp.state \in Bare
<1> DEFINE g == FsmLowerdown(d.lcp)
           m == [d EXCEPT !.lcp = g]
           e == LcpLowerdown(d)
<1>1. g.state \in Bare /\ Hush(d.lcp, g)
  BY LowerdownSteps
<1> HIDE DEF g
<1>2. /\ Daemon(m) /\ m.lcp = g
  BY <1>1 DEF Daemon, PppdFields, Grounded, Hush
<1>3. e = m \/ e = LcpDown(m)
  BY DEF LcpLowerdown, Lowered, g
<1> HIDE DEF m, e
<1>4. Beside(m, LcpDown(m)) /\ Daemon(LcpDown(m))
  BY <1>2, DownBeside, BesideIsQuiet
<1>5. Daemon(e) /\ e.lcp = g
  BY <1>2, <1>3, <1>4 DEF Beside
<1> QED
  BY <1>1, <1>5 DEF Quiet, e

LEMMA TerminatedQuiet ==
  ASSUME NEW d, Daemon(d)
  PROVE  /\ Quiet(d, LinkTerminated(d))
         /\ d.phase = "DEAD" => LinkTerminated(d) = d
<1>1. CASE d.phase = "DEAD"
  BY <1>1 DEF LinkTerminated, Quiet, Hush, Daemon
<1>2. CASE d.phase # "DEAD"
  <2> DEFINE m == IF d.hungup THEN d ELSE LcpLowerdown(d)
             e == [m EXCEPT !.phase = "DEAD", !.line = FALSE]
  <2>1. Quiet(d, LcpLowerdown(d)) /\ LcpLowerdown(d).lcp.state \in Bare
    BY LowerdownQuiet DEF Daemon
  <2>2. Quiet(d, m) /\ m.lcp.state \in Bare
    BY <2>1 DEF Quiet, Hush, Daemon, Grounded
  <2>3. LinkTerminated(d) = e
    BY <1>2 DEF LinkTerminated
  <2> HIDE DEF m
  <2>4. Daemon(e) /\ e.lcp = m.lcp
    BY <2>2 DEF Quiet, Daemon, PppdFields, Grounded
  <2> HIDE DEF e
  <2> QED
    BY <1>2, <2>2, <2>3, <2>4 DEF Quiet
<1> QED
  BY <1>1, <1>2

LEMMA EndedQuiet ==
  ASSUME NEW d, NEW g, Daemon(d), Shape(g),
         d.phase = "DEAD" \/ d.hungup => g.state \in Bare
  PROVE  /\ Daemon(Ended(d, g)) /\ Hush(g, Ended(d, g).lcp)
         /\ g.up = d.lcp.up /\ d.phase = "DEAD" =>
              Ended(d, g) = [d EXCEPT !.lcp = [g EXCEPT !.finished = FALSE]]
<1> DEFINE h == [g EXCEPT !.finished = FALSE]
           m == Lowered(d, h)
<1>1. Ticks(g, h) /\ h.up = g.up
  BY Ticking DEF Shape, LcpFields
<1>2. Shape(h) /\ h.state = g.state
  BY <1>1, TicksShape DEF Ticks
<1>3. Hush(g, h)
  BY <1>1, <1>2 DEF Hush, Ticks
<1>4. Ended(d, g) = IF g.finished THEN LinkTerminated(m) ELSE m
  BY DEF Ended
<1> HIDE DEF h
<1>5. Daemon(m) /\ m.lcp = h /\ (h.up = d.lcp.up => m = [d EXCEPT !.lcp = h])
  BY <1>2, LoweredQuiet
<1> HIDE DEF m
<1>6. Quiet(m, LinkTerminated(m)) /\ (m.phase = "DEAD" => LinkTerminated(m) = m)
  BY <1>5, TerminatedQuiet
<1>7. Daemon(Ended(d, g)) /\ Hush(g, Ended(d, g).lcp)
  BY <1>3, <1>4, <1>5, <1>6, HushIsTransitive DEF Quiet
<1>8. ASSUME g.up = d.lcp.up, d.phase = "DEAD" PROVE Ended(d, g) = [d EXCEPT !.lcp = h]
  <2>1. m = [d EXCEPT !.lcp = h]
    BY <1>1, <1>5, <1>8
  <2>2. m.phase = "DEAD"
    BY <1>8, <2>1 DEF Daemon, PppdFields
  <2> QED
    BY <1>4, <1>6, <2>1, <2>2
<1> QED
  BY <1>7, <1>8 DEF h

LEMMA CloseQuiet ==
  ASSUME NEW d, Daemon(d)
  PROVE  Quiet(d, LcpClose(d))
<1> DEFINE e == [d EXCEPT !.phase = IF @ = "DEAD" THEN @ ELSE "TERMINATE"]
           t == [e EXCEPT !.lcp = To(@, "CLOSED")]
           g == FsmClose(e.lcp)
<1>1. Beside(d, e) /\ (e.phase = "DEAD" <=> d.phase = "DEAD")
  BY DEF Daemon, PppdFields, Beside
<1>2. LcpClose(d) = IF e.lcp.state = "STOPPED" /\ e.lcp.flags \cap {"passive", "silent"} # {}
                    THEN LinkTerminated(t) ELSE Ended(e, g)
  BY DEF LcpClose
<1> HIDE DEF e
<1>3. Daemon(e) /\ Quiet(d, e)
  BY <1>1, BesideIsQuiet
<1>4. CASE e.lcp.state = "STOPPED" /\ LcpClose(d) = LinkTerminated(t)
  <2> DEFINE c == To(e.lcp, "CLOSED")
  <2>1. Shape(c) /\ Hush(e.lcp, c) /\ t.lcp = c
    BY <1>3 DEF Daemon, PppdFields, Shape, LcpFields, To, States, Hush, Live, Negotiating
  <2>2. Daemon(t)
    <3>1. DOMAIN t = PppdFields /\ t.delayed = FALSE /\ t.phase = e.phase /\ t.hungup = e.hungup
      BY <1>3 DEF Daemon, PppdFields
    <3>2. e.phase # "DEAD" /\ ~e.hungup
      BY <1>3, <1>4 DEF Daemon, Grounded, Bare
    <3> HIDE DEF t, c
    <3> QED
      BY <2>1, <3>1, <3>2 DEF Daemon, Grounded
  <2> HIDE DEF t, c
  <2>3. Quiet(e, t)
    BY <2>1, <2>2 DEF Quiet
  <2>4. Quiet(t, LinkTerminated(t))
    BY <2>2, TerminatedQuiet
  <2> QED
    BY <1>3, <1>4, <2>3, <2>4, QuietIsTransitive
<1>5. CASE LcpClose(d) = Ended(e, g)
  <2>1. Hush(e.lcp, g) /\ (e.lcp.state \in Bare => g.state = "INITIAL")
    BY <1>3, CloseSteps DEF Daemon
  <2> HIDE DEF g
  <2>2. e.phase = "DEAD" \/ e.hungup => g.state \in Bare
    BY <1>3, <2>1 DEF Daemon, Grounded, Bare
  <2>3. Daemon(Ended(e, g)) /\ Hush(g, Ended(e, g).lcp)
    BY <1>3, <2>1, <2>2, EndedQuiet DEF Hush
  <2>4. Quiet(e, Ended(e, g))
    BY <2>1, <2>3, HushIsTransitive DEF Quiet
  <2> QED
    BY <1>3, <1>5, <2>4, QuietIsTransitive
<1> QED
  BY <1>2, <1>4, <1>5

LEMMA QuietThenBeside ==
  ASSUME NEW d, NEW e, NEW r, Quiet(d, e), Beside(e, r)
  PROVE  Quiet(d, r)
<1>1. Daemon(e)
  BY DEF Quiet
<1>2. Quiet(e, r)
  BY <1>1, BesideIsQuiet
<1> QED
  BY <1>2, QuietIsTransitive

LEMMA BesideThenQuiet ==
  ASSUME NEW d, NEW e, NEW r, Beside(d, e), Quiet(e, r)
  PROVE  Quiet(d, r)
BY DEF Beside, Quiet

LEMMA SelfQuiet ==
  ASSUME NEW d, Daemon(d)
  PROVE  Quiet(d, d)
BY DEF Daemon, Quiet, Hush

LEMMA SuccessBeside ==
  ASSUME NEW d, NEW bit, Daemon(d)
  PROVE  Beside(d, AuthSuccess(d, bit))
BY DEF Daemon, PppdFields, Beside, AuthSuccess, NetworkPhase

LEMMA ChallengeQuiet ==
  ASSUME NEW d, Daemon(d)
  PROVE  Quiet(d, SendChallenge(d))
<1> DEFINE o == Output(d, "CHALLENGE", d.chal, None)
<1>1. Quiet(d, o)
  BY OutputQuiet
<1> HIDE DEF o
<1>2. Beside(o, SendChallenge(d))
  BY <1>1 DEF Quiet, Daemon, PppdFields, Beside, SendChallenge, o
<1> QED
  BY <1>1, <1>2, QuietThenBeside

LEMMA ChapTimeoutQuiet ==
  ASSUME NEW d, Daemon(d)
  PROVE  Quiet(d, ChapTimeout(d))
<1> DEFINE e == [d EXCEPT !.ss = @ \ {"TIMEOUT_PENDING"}]
           a == [e EXCEPT !.xmits = 0, !.chal = (@ + 1) % IdMod, !.ss = @ \cup {"CHALLENGE_VALID"}]
           b == [e EXCEPT !.ss = (@ \ {"CHALLENGE_VALID"}) \cup {"AUTH_DONE", "AUTH_FAILED"}]
<1>1. Beside(d, e) /\ Beside(d, a) /\ Beside(d, b)
  BY DEF Daemon, PppdFields, Beside
<1>2. ChapTimeout(d) \in {SendChallenge(a), AuthFail(b), SendChallenge(e)}
  BY DEF ChapTimeout
<1> HIDE DEF e, a, b
<1>3. Daemon(e) /\ Daemon(a) /\ Daemon(b)
  BY <1>1, BesideIsQuiet
<1>4. Quiet(e, SendChallenge(e)) /\ Quiet(a, SendChallenge(a)) /\ Quiet(b, AuthFail(b))
  BY <1>3, ChallengeQuiet, CloseQuiet DEF AuthFail
<1>5. Quiet(d, SendChallenge(e)) /\ Quiet(d, SendChallenge(a)) /\ Quiet(d, AuthFail(b))
  BY <1>1, <1>4, BesideThenQuiet
<1> QED
  BY <1>2, <1>5

LEMMA ChapLowerupQuiet ==
  ASSUME NEW d, Daemon(d)
  PROVE  Quiet(d, ChapLowerup(d))
<1> DEFINE e == [d EXCEPT !.cs = @ \cup {"LOWERUP"}, !.ss = @ \cup {"LOWERUP"}]
<1>1. Beside(d, e)
  BY DEF Daemon, PppdFields, Beside
<1>2. ChapLowerup(d) \in {e, ChapTimeout(e)}
  BY DEF ChapLowerup
<1> HIDE DEF e
<1>3. Quiet(d, e) /\ Quiet(e, ChapTimeout(e))
  BY <1>1, BesideIsQuiet, ChapTimeoutQuiet
<1>4. Quiet(d, ChapTimeout(e))
  BY <1>3, QuietIsTransitive
<1> QED
  BY <1>2, <1>3, <1>4

LEMMA AuthPeerQuiet ==
  ASSUME NEW d, Daemon(d)
  PROVE  Quiet(d, ChapAuthPeer(d))
<1> DEFINE e == [d EXCEPT !.ss = @ \cup {"AUTH_STARTED"}, !.chal = d.dice]
<1>1. Beside(d, e)
  BY DEF Daemon, PppdFields, Beside
<1>2. ChapAuthPeer(d) \in {d, e, ChapTimeout(e)}
  BY DEF ChapAuthPeer
<1> HIDE DEF e
<1>3. Quiet(d, d) /\ Quiet(d, e) /\ Quiet(e, ChapTimeout(e))
  BY <1>1, SelfQuiet, BesideIsQuiet, ChapTimeoutQuiet
<1>4. Quiet(d, ChapTimeout(e))
  BY <1>3, QuietIsTransitive
<1> QED
  BY <1>2, <1>3, <1>4

LEMMA EstablishedQuiet ==
  ASSUME NEW d, Daemon(d)
  PROVE  Quiet(d, LinkEstablished(d))
<1> DEFINE peer == d.lcp.go # {}
           with == d.lcp.ho # None
           auth == (IF peer THEN {"peer"} ELSE {}) \cup (IF with THEN {"withpeer"} ELSE {})
           held == d.noauth /\ (d.lcp.wo = {} \/ ~peer)
           up == ChapLowerup(d)
           a == [up EXCEPT !.phase = "AUTHENTICATE",
                           !.addrs = IF held THEN "noauth" ELSE @]
           b == IF peer THEN ChapAuthPeer(a) ELSE a
           w == IF with THEN ChapAuthWithPeer(b) ELSE b
           c == [w EXCEPT !.pending = auth]
<1>0. LinkEstablished(d) \in {LcpClose(up), NetworkPhase(c), c}
  BY DEF LinkEstablished
<1>1. Quiet(d, up)
  BY ChapLowerupQuiet
<1> HIDE DEF up, peer, with, auth, held
<1>2. Daemon(up)
  BY <1>1 DEF Quiet
<1>3. Quiet(d, LcpClose(up))
  <2>1. Quiet(up, LcpClose(up))
    BY <1>2, CloseQuiet
  <2> QED
    BY <1>1, <2>1, QuietIsTransitive
<1>4. Quiet(d, a)
  <2>1. Beside(up, a)
    BY <1>2 DEF Daemon, PppdFields, Beside
  <2> HIDE DEF a
  <2> QED
    BY <1>1, <2>1, QuietThenBeside
<1> HIDE DEF a
<1>5. Daemon(a)
  BY <1>4 DEF Quiet
<1>6. Quiet(a, b)
  BY <1>5, AuthPeerQuiet, SelfQuiet
<1> HIDE DEF b
<1>7. Daemon(b)
  BY <1>6 DEF Quiet
<1>8. Beside(b, c)
  BY <1>7 DEF Daemon, PppdFields, Beside, ChapAuthWithPeer
<1> HIDE DEF c
<1>9. Quiet(a, c)
  BY <1>6, <1>8, QuietThenBeside
<1>10. Quiet(d, c)
  BY <1>4, <1>9, QuietIsTransitive
<1>11. Beside(c, NetworkPhase(c))
  BY <1>8 DEF PppdFields, Beside, NetworkPhase
<1>12. Quiet(d, NetworkPhase(c))
  BY <1>10, <1>11, QuietThenBeside
<1> QED
  BY <1>0, <1>3, <1>10, <1>12

LEMMA EchoCheckQuiet ==
  ASSUME NEW d, Daemon(d)
  PROVE  Quiet(d, LcpEchoCheck(d))
<1> DEFINE m == IF Opened(d) THEN LcpClose(d) ELSE d
           l == [m EXCEPT !.unanswered = 0]
           e == IF d.unanswered >= EchoFails THEN l ELSE d
           o == Output(e, "ECHOREQ", 0, None)
           s == IF Opened(e) THEN [o EXCEPT !.unanswered = @ + 1] ELSE e
           r == IF Opened(s) THEN [s EXCEPT !.echos = @ + 1, !.running = TRUE] ELSE s
<1>0. LcpEchoCheck(d) = r
  BY DEF LcpEchoCheck, LcpSendEchoRequest
<1>1. Quiet(d, m)
  BY CloseQuiet, SelfQuiet
<1> HIDE DEF m
<1>2. Quiet(d, l)
  <2>1. Beside(m, l)
    BY <1>1 DEF Quiet, Daemon, PppdFields, Beside
  <2> HIDE DEF l
  <2> QED
    BY <1>1, <2>1, QuietThenBeside
<1>3. Quiet(d, e)
  BY <1>2, SelfQuiet
<1> HIDE DEF e
<1>4. Quiet(e, o)
  BY <1>3, OutputQuiet DEF Quiet
<1> HIDE DEF o
<1>5. Beside(o, [o EXCEPT !.unanswered = @ + 1])
  BY <1>4 DEF Quiet, Daemon, PppdFields, Beside
<1>6. Quiet(e, s)
  BY <1>3, <1>4, <1>5, QuietThenBeside, SelfQuiet DEF Quiet
<1> HIDE DEF s
<1>7. Beside(s, r)
  BY <1>6 DEF Quiet, Daemon, PppdFields, Beside
<1> HIDE DEF r
<1>8. Quiet(d, s)
  BY <1>3, <1>6, QuietIsTransitive
<1> QED
  BY <1>0, <1>7, <1>8, QuietThenBeside

LEMMA EchoTimeoutQuiet ==
  ASSUME NEW d, Daemon(d)
  PROVE  Quiet(d, LcpEchoTimeout(d))
<1> DEFINE e == [d EXCEPT !.echos = Less(@)]
           r == [e EXCEPT !.running = FALSE]
<1>1. Beside(d, e) /\ Beside(d, r)
  BY DEF Daemon, PppdFields, Beside
<1>2. LcpEchoTimeout(d) \in {e, LcpEchoCheck(r)}
  BY DEF LcpEchoTimeout
<1> HIDE DEF e, r
<1>3. Quiet(d, e) /\ Daemon(r)
  BY <1>1, BesideIsQuiet
<1>4. Quiet(r, LcpEchoCheck(r))
  BY <1>3, EchoCheckQuiet
<1>5. Quiet(d, LcpEchoCheck(r))
  BY <1>1, <1>4, BesideThenQuiet
<1> QED
  BY <1>2, <1>3, <1>5

LEMMA UpQuiet ==
  ASSUME NEW d, Daemon(d)
  PROVE  Quiet(d, LcpUp(d))
<1> DEFINE e == [d EXCEPT !.unanswered = 0, !.running = FALSE]
           l == LcpEchoLowerup(d)
<1>1. Beside(d, e)
  BY DEF Daemon, PppdFields, Beside
<1>2. l \in {e, LcpEchoCheck(e)}
  BY DEF LcpEchoLowerup
<1> HIDE DEF e, l
<1>3. Quiet(d, e) /\ Daemon(e)
  BY <1>1, BesideIsQuiet
<1>4. Quiet(e, LcpEchoCheck(e))
  BY <1>3, EchoCheckQuiet
<1>5. Quiet(d, l)
  BY <1>2, <1>3, <1>4, QuietIsTransitive
<1>6. Quiet(l, LinkEstablished(l))
  BY <1>5, EstablishedQuiet DEF Quiet
<1>7. Quiet(d, LinkEstablished(l))
  BY <1>5, <1>6, QuietIsTransitive
<1> QED
  BY <1>7 DEF LcpUp, l

(* The callbacks of a handler add nothing to what the handler did.         *)
LEMMA SettleQuiet ==
  ASSUME NEW d, NEW g, Daemon(d), Shape(g),
         d.phase = "DEAD" \/ d.hungup => g.state \in Bare
  PROVE  Daemon(Settle(d, g)) /\ Hush(g, Settle(d, g).lcp)
<1> DEFINE m == [d EXCEPT !.lcp = g]
<1>1. Daemon(m) /\ m.lcp = g
  BY DEF Daemon, PppdFields, Grounded
<1>2. Settle(d, g) \in {LcpUp(m), Ended(d, g)}
  BY DEF Settle
<1> HIDE DEF m
<1>3. Quiet(m, LcpUp(m))
  BY <1>1, UpQuiet
<1>4. Daemon(Ended(d, g)) /\ Hush(g, Ended(d, g).lcp)
  BY EndedQuiet
<1> QED
  BY <1>1, <1>2, <1>3, <1>4 DEF Quiet

(* --------------------------- packets and events ------------------------ *)

(* What an event at an end with nothing left to send does to it.           *)
Event(d, e, P) == Daemon(e) /\ Step(d.lcp, e.lcp, P)

LEMMA QuietEvent ==
  ASSUME NEW d, NEW e, NEW P, Daemon(d), d.lcp.out = <<>>, Quiet(d, e)
  PROVE  Event(d, e, P)
<1>1. Step(d.lcp, d.lcp, P)
  BY EmptyTalk, Retreat DEF Daemon
<1> QED
  BY <1>1, StepThenHush DEF Quiet, Event

LEMMA SettleEvent ==
  ASSUME NEW d, NEW g, NEW P, Daemon(d), Step(d.lcp, g, P),
         d.phase = "DEAD" \/ d.hungup => g.state \in Bare
  PROVE  Event(d, Settle(d, g), P)
BY SettleQuiet, StepThenHush DEF Event, Step

LEMMA ProtrejQuiet ==
  ASSUME NEW d, Daemon(d)
  PROVE  Quiet(d, ChapProtrej(d))
<1> DEFINE a == [d EXCEPT !.ss = @ \ {"TIMEOUT_PENDING"},
                          !.challenges = IF "TIMEOUT_PENDING" \in d.ss THEN Less(@) ELSE @]
           s == [a EXCEPT !.ss = {}]
           b == IF "AUTH_STARTED" \in a.ss THEN AuthFail(s) ELSE a
           c == [b EXCEPT !.cs = @ \ {"AUTH_STARTED"}]
<1>0. ChapProtrej(d) \in {AuthFail(c), b}
  BY DEF ChapProtrej
<1>1. Beside(d, a) /\ Beside(d, s)
  BY DEF Daemon, PppdFields, Beside
<1> HIDE DEF a, s
<1>2. Quiet(d, a) /\ Quiet(d, s) /\ Daemon(s)
  BY <1>1, BesideIsQuiet
<1>3. Quiet(s, AuthFail(s))
  BY <1>2, CloseQuiet DEF AuthFail
<1>4. Quiet(d, b)
  BY <1>2, <1>3, QuietIsTransitive
<1> HIDE DEF b
<1>5. Beside(b, c)
  BY <1>4 DEF Quiet, Daemon, PppdFields, Beside
<1> HIDE DEF c
<1>6. Quiet(d, c)
  BY <1>4, <1>5, QuietThenBeside
<1>7. Quiet(c, AuthFail(c))
  BY <1>6, CloseQuiet DEF Quiet, AuthFail
<1> QED
  BY <1>0, <1>4, <1>6, <1>7, QuietIsTransitive

LEMMA ExtcodeQuiet ==
  ASSUME NEW d, NEW p, Daemon(d)
  PROVE  Quiet(d, LcpExtcode(d, p))
<1>1. Quiet(d, Output(d, "ECHOREP", p.id, None))
  BY OutputQuiet
<1>2. Quiet(d, [d EXCEPT !.unanswered = 0])
  <2>1. Beside(d, [d EXCEPT !.unanswered = 0])
    BY DEF Daemon, PppdFields, Beside
  <2> QED
    BY <2>1, BesideIsQuiet
<1>3. Quiet(d, ChapProtrej(d)) /\ Quiet(d, d)
  BY ProtrejQuiet, SelfQuiet
<1>4. Opened(d) => Quiet(d, Settle(d, FsmProtreject(d.lcp)))
  <2> DEFINE g == FsmProtreject(d.lcp)
  <2>1. Opened(d) => Hush(d.lcp, g)
    BY ProtrejectSteps DEF Daemon, Opened
  <2> HIDE DEF g
  <2>2. Opened(d) => d.phase # "DEAD" /\ ~d.hungup
    BY DEF Daemon, Grounded, Opened, Bare
  <2>3. Opened(d) => Daemon(Settle(d, g)) /\ Hush(g, Settle(d, g).lcp)
    BY <2>1, <2>2, SettleQuiet DEF Hush
  <2> QED
    BY <2>1, <2>3, HushIsTransitive DEF Quiet, g
<1> QED
  BY <1>1, <1>2, <1>3, <1>4 DEF LcpExtcode

LEMMA LcpInputEvent ==
  ASSUME NEW d, NEW p, Daemon(d), d.lcp.out = <<>>
  PROVE  Event(d, LcpInput(d, p), {p})
<1>1. LcpInput(d, p) \in {LcpExtcode(d, p), d, Settle(d, FsmInput(d.lcp, p))}
  BY DEF LcpInput, Daemon
<1>2. Event(d, LcpExtcode(d, p), {p}) /\ Event(d, d, {p})
  BY ExtcodeQuiet, SelfQuiet, QuietEvent
<1>3. Event(d, Settle(d, FsmInput(d.lcp, p)), {p})
  <2> DEFINE g == FsmInput(d.lcp, p)
  <2>1. Step(d.lcp, g, {p}) /\ (d.lcp.state \in Bare => g.state \in Bare)
    BY InputSteps DEF Daemon
  <2> HIDE DEF g
  <2>2. d.phase = "DEAD" \/ d.hungup => g.state \in Bare
    BY <2>1 DEF Daemon, Grounded
  <2>3. Event(d, Settle(d, g), {p})
    BY <2>1, <2>2, SettleEvent
  <2> QED
    BY <2>3 DEF g
<1> QED
  BY <1>1, <1>2, <1>3

LEMMA VerdictQuiet ==
  ASSUME NEW d, Daemon(d)
  PROVE  Quiet(d, Verdict(d))
<1> DEFINE e == [d EXCEPT !.ss = @ \ {"CHALLENGE_VALID"}]
           s == IF "AUTH_DONE" \in e.ss THEN e ELSE AuthSuccess(e, "peer")
           r == IF Rechallenge
                THEN [s EXCEPT !.ss = @ \cup {"TIMEOUT_PENDING"}, !.challenges = @ + 1]
                ELSE s
           done == IF "AUTH_FAILED" \in e.ss THEN AuthFail(e) ELSE r
           v == [done EXCEPT !.ss = @ \cup {"AUTH_DONE"}]
<1>0. Verdict(d) = v
  BY DEF Verdict
<1>1. Beside(d, e)
  BY DEF Daemon, PppdFields, Beside
<1> HIDE DEF e
<1>2. Quiet(d, e) /\ Daemon(e)
  BY <1>1, BesideIsQuiet
<1>3. Beside(e, AuthSuccess(e, "peer")) /\ Beside(e, e)
  BY <1>1, <1>2, SuccessBeside DEF Beside
<1>4. Beside(e, s)
  BY <1>3
<1> HIDE DEF s
<1>5. Beside(s, r)
  BY <1>4 DEF PppdFields, Beside
<1> HIDE DEF r
<1>6. Quiet(d, r)
  BY <1>2, <1>4, <1>5, QuietThenBeside, BesideIsTransitive
<1>7. Quiet(d, AuthFail(e))
  BY <1>2, CloseQuiet, QuietIsTransitive DEF AuthFail
<1>8. Quiet(d, done)
  BY <1>6, <1>7
<1> HIDE DEF done
<1>9. Beside(done, v)
  BY <1>8 DEF Quiet, Daemon, PppdFields, Beside
<1> HIDE DEF v
<1> QED
  BY <1>0, <1>8, <1>9, QuietThenBeside

LEMMA ResponseQuiet ==
  ASSUME NEW d, NEW id, NEW answer, Daemon(d)
  PROVE  Quiet(d, ChapHandleResponse(d, id, answer))
<1> DEFINE judging == "CHALLENGE_VALID" \in d.ss
           a == IF judging
                THEN [d EXCEPT !.ss = (@ \ {"TIMEOUT_PENDING"})
                                        \cup (IF answer = "right" THEN {} ELSE {"AUTH_FAILED"}),
                               !.challenges = IF "TIMEOUT_PENDING" \in d.ss THEN Less(@) ELSE @,
                               !.addrs = IF answer = "nobody" THEN @ ELSE "secret",
                               !.proven = @ \/ answer = "right"]
                ELSE d
           b == Output(a, IF "AUTH_FAILED" \in a.ss THEN "FAILURE" ELSE "SUCCESS", id, None)
<1>0. ChapHandleResponse(d, id, answer) \in {d, Verdict(b), b}
  BY DEF ChapHandleResponse
<1>1. Beside(d, a)
  BY DEF Daemon, PppdFields, Beside
<1> HIDE DEF a
<1>2. Daemon(a)
  BY <1>1, BesideIsQuiet
<1>3. Quiet(a, b)
  BY <1>2, OutputQuiet
<1> HIDE DEF b
<1>4. Quiet(d, b) /\ Quiet(d, d)
  BY <1>1, <1>3, BesideThenQuiet, SelfQuiet
<1>5. Quiet(b, Verdict(b))
  BY <1>3, VerdictQuiet DEF Quiet
<1>6. Quiet(d, Verdict(b))
  BY <1>4, <1>5, QuietIsTransitive
<1> QED
  BY <1>0, <1>4, <1>6

LEMMA StatusQuiet ==
  ASSUME NEW d, NEW code, Daemon(d)
  PROVE  Quiet(d, ChapHandleStatus(d, code))
<1> DEFINE e == [d EXCEPT !.cs = @ \cup {"AUTH_DONE"}]
           b == [e EXCEPT !.cs = @ \cup {"AUTH_FAILED"}]
<1>0. ChapHandleStatus(d, code) \in {d, AuthSuccess(e, "withpeer"), AuthFail(b)}
  BY DEF ChapHandleStatus
<1>1. Beside(d, e) /\ Beside(d, b)
  BY DEF Daemon, PppdFields, Beside
<1> HIDE DEF e, b
<1>2. Daemon(e) /\ Daemon(b) /\ Quiet(d, e)
  BY <1>1, BesideIsQuiet
<1>3. Quiet(d, AuthSuccess(e, "withpeer"))
  BY <1>2, SuccessBeside, QuietThenBeside
<1>4. Quiet(b, AuthFail(b))
  BY <1>2, CloseQuiet DEF AuthFail
<1>5. Quiet(d, AuthFail(b)) /\ Quiet(d, d)
  BY <1>1, <1>4, BesideThenQuiet, SelfQuiet
<1> QED
  BY <1>0, <1>3, <1>5

LEMMA GetInputEvent ==
  ASSUME NEW d, NEW p, NEW secret, Daemon(d), d.lcp.out = <<>>
  PROVE  Event(d, GetInput(d, p, secret), {p})
<1> DEFINE m == [d EXCEPT !.lcp.id = NextId(d.lcp)]
           r == Output(m, "PROTREJ", NextId(d.lcp), p.opt)
<1>0. GetInput(d, p, secret) \in {LcpInput(d, p), ChapInput(d, p, secret), r, d}
  BY DEF GetInput
<1>1. Event(d, LcpInput(d, p), {p})
  BY LcpInputEvent
<1>2. Quiet(d, ChapInput(d, p, secret))
  <2>1. Quiet(d, ChapRespond(d, p.id, secret))
    BY OutputQuiet, SelfQuiet DEF ChapRespond
  <2>2. Quiet(d, ChapHandleResponse(d, p.id, p.opt))
    BY ResponseQuiet
  <2>3. Quiet(d, ChapHandleStatus(d, p.code))
    BY StatusQuiet
  <2> QED
    BY <2>1, <2>2, <2>3 DEF ChapInput
<1>3. Quiet(d, r)
  <2> DEFINE g == [d.lcp EXCEPT !.id = NextId(d.lcp)]
  <2>1. Shape(g) /\ Hush(d.lcp, g) /\ g.state = d.lcp.state
    BY DEF Daemon, Shape, LcpFields, Hush
  <2>2. m = [d EXCEPT !.lcp = g]
    BY DEF Daemon, PppdFields
  <2> HIDE DEF g
  <2>3. Daemon(m) /\ m.lcp = g
    BY <2>1, <2>2 DEF Daemon, PppdFields, Grounded
  <2> HIDE DEF m
  <2>4. Quiet(m, r)
    BY <2>3, OutputQuiet
  <2> HIDE DEF r
  <2>5. Quiet(d, m)
    BY <2>1, <2>3 DEF Quiet
  <2> QED
    BY <2>4, <2>5, QuietIsTransitive
<1> HIDE DEF r
<1>4. Event(d, ChapInput(d, p, secret), {p}) /\ Event(d, r, {p}) /\ Event(d, d, {p})
  BY <1>2, <1>3, SelfQuiet, QuietEvent
<1> QED
  BY <1>0, <1>1, <1>4

LEMMA HangupQuiet ==
  ASSUME NEW d, Daemon(d)
  PROVE  Quiet(d, Hangup(d))
<1> DEFINE h == [d EXCEPT !.hungup = TRUE]
           l == LcpLowerdown(h)
<1>1. DOMAIN h = PppdFields /\ h.lcp = d.lcp /\ h.delayed = FALSE
  BY DEF Daemon, PppdFields
<1> HIDE DEF h
<1>2. Quiet(h, l)
  BY <1>1, LowerdownQuiet DEF Daemon
<1> HIDE DEF l
<1>3. Quiet(d, l)
  BY <1>1, <1>2 DEF Quiet
<1>4. Quiet(l, LinkTerminated(l))
  BY <1>2, TerminatedQuiet DEF Quiet
<1>5. Quiet(d, LinkTerminated(l))
  BY <1>3, <1>4, QuietIsTransitive
<1> QED
  BY <1>5 DEF Hangup, l, h

LEMMA NetworkQuiet ==
  ASSUME NEW d, Daemon(d)
  PROVE  Quiet(d, NpUp(d)) /\ Quiet(d, NpFinished(d))
<1>1. Beside(d, NpUp(d)) /\ Beside(d, [d EXCEPT !.np = "closed"])
  BY DEF Daemon, PppdFields, Beside, NpUp
<1> DEFINE e == [d EXCEPT !.np = "closed"]
<1> HIDE DEF e
<1>2. Quiet(d, NpUp(d)) /\ Daemon(e)
  BY <1>1, BesideIsQuiet DEF e
<1>3. Quiet(e, LcpClose(e))
  BY <1>2, CloseQuiet
<1> QED
  BY <1>1, <1>2, <1>3, BesideThenQuiet DEF NpFinished, e

(* A dead daemon dials: LCP is closed, opened and told of its lower layer. *)
LEMMA RedialEvent ==
  ASSUME NEW d, NEW P, Daemon(d), d.lcp.out = <<>>, d.phase = "DEAD"
  PROVE  Event(d, Redial(d, TRUE, TRUE), P)
<1> DEFINE a == [d EXCEPT !.phase = IF @ = "DEAD" THEN @ ELSE "TERMINATE"]
           g == FsmClose(a.lcp)
           cl == LcpClose(d)
           e == [cl EXCEPT !.hungup = FALSE]
           o == Settle(e, FsmOpen(e.lcp))
           r == [o EXCEPT !.phase = "ESTABLISH", !.line = TRUE]
           u == FsmLowerup(r.lcp)
<1>0. Redial(d, TRUE, TRUE) = Settle(r, u)
  <2>1. ~Listen
    BY LinkAssumption
  <2> QED
    BY <2>1 DEF Redial, LcpLowerup
<1>1. Beside(d, a) /\ a.phase = "DEAD"
  BY DEF Daemon, PppdFields, Beside
<1>2. Daemon(a) /\ a.lcp = d.lcp /\ a.lcp.state \in Bare
  BY <1>1, BesideIsQuiet DEF Beside, Daemon, Grounded
<1>3. cl = Ended(a, g)
  BY <1>2 DEF LcpClose, Bare
<1> HIDE DEF a, cl
<1>4. /\ Shape(g) /\ g.state = "INITIAL" /\ g.id = d.lcp.id /\ g.up = a.lcp.up
      /\ g.out = d.lcp.out
  BY <1>2, CloseSteps DEF Daemon, Hush
<1> HIDE DEF g
<1> DEFINE gf == [g EXCEPT !.finished = FALSE]
<1>5. cl = [a EXCEPT !.lcp = gf]
  BY <1>1, <1>2, <1>3, <1>4, EndedQuiet DEF Bare
<1>6. Shape(gf) /\ gf.state = "INITIAL" /\ gf.id = d.lcp.id /\ gf.out = <<>>
  BY <1>4 DEF Shape, LcpFields
<1> HIDE DEF gf
<1>7. Daemon(e) /\ e.phase = "DEAD" /\ e.lcp = gf /\ e.hungup = FALSE
  BY <1>1, <1>2, <1>5, <1>6 DEF Daemon, PppdFields, Grounded, Bare
<1> HIDE DEF e
<1> DEFINE q == FsmOpen(e.lcp)
           qf == [q EXCEPT !.finished = FALSE]
<1>8. /\ Shape(q) /\ q.state = "STARTING" /\ q.id = d.lcp.id /\ q.up = e.lcp.up
      /\ q.out = <<>>
  BY <1>6, <1>7 DEF FsmOpen, To, Shape, LcpFields, States
<1>9. o = Ended(e, q)
  BY <1>7, <1>8 DEF Settle, Daemon, Shape
<1> HIDE DEF q, o
<1>10. o = [e EXCEPT !.lcp = qf]
  BY <1>7, <1>8, <1>9, EndedQuiet DEF Bare
<1>11. Shape(qf) /\ qf.state = "STARTING" /\ qf.id = d.lcp.id /\ qf.out = <<>>
  BY <1>8 DEF Shape, LcpFields
<1> HIDE DEF qf
<1>12. Daemon(r) /\ r.phase = "ESTABLISH" /\ r.lcp = qf /\ r.hungup = FALSE
  BY <1>7, <1>10, <1>11 DEF Daemon, PppdFields, Grounded, Bare
<1> HIDE DEF r
<1>13. Step(r.lcp, u, P)
  BY <1>11, <1>12, LowerupSteps
<1> HIDE DEF u
<1>14. Event(r, Settle(r, u), P)
  BY <1>12, <1>13, SettleEvent
<1> DEFINE z == Settle(r, u)
<1> HIDE DEF z
<1>15. Step(qf, z.lcp, P) /\ Daemon(z)
  BY <1>12, <1>14 DEF Event, z
<1>16. qf.state \notin Live /\ qf.state \notin AckOut /\ NextId(qf) = NextId(d.lcp)
  BY <1>11 DEF Live, AckOut, Negotiating, NextId
<1>17. Step(d.lcp, z.lcp, P)
  BY <1>15, <1>16 DEF Step, OurSide, HisSide
<1> QED
  BY <1>0, <1>15, <1>17 DEF Event, z

(* ------------------------------- the line ------------------------------ *)

(* t is a part of s.                                                       *)
Part(s, t) ==
  /\ Len(s) \in Nat /\ Len(t) \in Nat
  /\ \E k \in Nat : k + Len(t) <= Len(s) /\ \A i \in 1..Len(t) : t[i] = s[i + k]

(* t is s and then what `out' says.                                        *)
Spoken(s, out, t) ==
  /\ Len(s) \in Nat /\ Len(t) \in Nat /\ Len(s) <= Len(t)
  /\ \A i \in 1..Len(s) : t[i] = s[i]
  /\ \A i \in (Len(s) + 1)..Len(t) :
       t[i].code \in {"CONFREQ", "CONFACK"} => t[i] \in Talk(out)

LEMMA SpokenConcat ==
  ASSUME NEW s, NEW out, IsSeq(s), IsSeq(out)
  PROVE  IsSeq(s \o out) /\ Spoken(s, out, s \o out)
<1>1. PICK S, T : s \in Seq(S) /\ out \in Seq(T)
  BY DEF IsSeq
<1> DEFINE U == S \cup T
<1>2. s \in Seq(U) /\ out \in Seq(U)
  BY <1>1, WiderSeq
<1> HIDE DEF U
<1> DEFINE t == s \o out
<1>3. /\ t \in Seq(U) /\ Len(s) \in Nat /\ Len(out) \in Nat /\ Len(t) = Len(s) + Len(out)
      /\ \A i \in 1..Len(t) : t[i] = IF i <= Len(s) THEN s[i] ELSE out[i - Len(s)]
  BY <1>2
<1> HIDE DEF t
<1>4. ASSUME NEW i \in (Len(s) + 1)..Len(t), t[i].code \in {"CONFREQ", "CONFACK"}
      PROVE  t[i] \in Talk(out)
  <2>1. i - Len(s) \in 1..Len(out) /\ t[i] = out[i - Len(s)]
    BY <1>3
  <2> QED
    BY <1>4, <2>1 DEF Talk
<1>5. Spoken(s, out, t)
  BY <1>3, <1>4 DEF Spoken
<1> QED
  BY <1>3, <1>5 DEF IsSeq, t

LEMMA PrefixPart ==
  ASSUME NEW s, NEW n, IsSeq(s), n \in 0..Len(s)
  PROVE  IsSeq(SubSeq(s, 1, n)) /\ Part(s, SubSeq(s, 1, n))
<1>1. PICK S : s \in Seq(S)
  BY DEF IsSeq
<1> DEFINE t == SubSeq(s, 1, n)
<1>2. /\ t \in Seq(S) /\ Len(s) \in Nat /\ Len(t) = n /\ n \in Nat /\ n <= Len(s)
      /\ \A i \in 1..n : t[i] = s[i]
  BY <1>1
<1> HIDE DEF t
<1>3. 0 \in Nat /\ 0 + Len(t) <= Len(s) /\ \A i \in 1..Len(t) : t[i] = s[i + 0]
  BY <1>2
<1> QED
  BY <1>2, <1>3 DEF IsSeq, Part, t

LEMMA TailPart ==
  ASSUME NEW s, IsSeq(s), s # <<>>
  PROVE  IsSeq(Tail(s)) /\ Part(s, Tail(s)) /\ Len(s) \in Nat /\ Len(s) >= 1 /\ Head(s) = s[1]
<1>1. PICK S : s \in Seq(S)
  BY DEF IsSeq
<1> DEFINE t == Tail(s)
<1>2. /\ t \in Seq(S) /\ Len(s) \in Nat /\ Len(s) >= 1 /\ Len(t) = Len(s) - 1
      /\ \A i \in 1..Len(t) : t[i] = s[i + 1]
      /\ Head(s) = s[1]
  BY <1>1
<1> HIDE DEF t
<1>3. 1 \in Nat /\ 1 + Len(t) <= Len(s) /\ Len(t) \in Nat
  BY <1>2
<1> QED
  BY <1>2, <1>3 DEF IsSeq, Part, t

LEMMA WholePart ==
  ASSUME NEW s, IsSeq(s)
  PROVE  Part(s, s) /\ Part(s, <<>>) /\ IsSeq(<<>>)
<1>1. Len(s) \in Nat
  BY DEF IsSeq
<1>2. Part(s, s)
  <2>1. 0 + Len(s) <= Len(s) /\ \A i \in 1..Len(s) : s[i] = s[i + 0]
    BY <1>1
  <2> QED
    BY <1>1, <2>1 DEF Part
<1>3. Len(<<>>) = 0
  OBVIOUS
<1>4. Part(s, <<>>)
  BY <1>1, <1>3 DEF Part
<1> QED
  BY <1>2, <1>4, EmptyTalk

(* A Configure-Request on its way that has the id of our request is our    *)
(* request, and nothing older comes after it.                              *)
AskedFor(s, f) ==
  \A i \in 1..Len(s) : s[i].code = "CONFREQ" /\ s[i].id = f.reqid =>
    /\ s[i].opt = AddCi(f.go)
    /\ \A j \in i..Len(s) : s[j].code = "CONFREQ" => s[j].id = f.reqid

OnlyAsked(s, f) == \A i \in 1..Len(s) : s[i].code = "CONFREQ" => s[i].id = f.reqid

AckOnWay(s, f) == \E i \in 1..Len(s) : s[i].code = "CONFACK" /\ s[i].id = f.reqid

(* The request of f against the line to the other end, the line back, and  *)
(* the automaton at the other end: once the request was acknowledged, the  *)
(* other end has nothing else to read, and if it still stands by an Ack    *)
(* it gave, that is an Ack of this request.                                *)
InStep(f, to, back, h) ==
  f.state \in Live =>
    /\ AskedFor(to, f)
    /\ f.state \in AckIn \/ AckOnWay(back, f) =>
         /\ OnlyAsked(to, f)
         /\ h.state \in AckOut => h.ho = AddCi(f.go)

LinkInv ==
  /\ DOMAIN pp = Ends /\ DOMAIN line = Ends
  /\ \A x \in Ends :
       /\ Daemon(pp[x]) /\ pp[x].lcp.out = <<>> /\ IsSeq(line[x])
       /\ InStep(pp[x].lcp, line[Other(x)], line[x], pp[Other(x)].lcp)

(* No id comes round while a packet that carries it is on its way: ids are *)
(* one byte (fsm.h: u_char id), and the automaton compares nothing else.   *)
IdFree(f, to, back) ==
  /\ \A i \in 1..Len(to) : to[i].code = "CONFREQ" => to[i].id # NextId(f)
  /\ \A i \in 1..Len(back) : back[i].code = "CONFACK" => back[i].id # NextId(f)

NextIdFree == \A x \in Ends : IdFree(pp[x].lcp, line[Other(x)], line[x])

LEMMA Ends2 ==
  ASSUME NEW x \in Ends
  PROVE  Other(x) \in Ends /\ Other(x) # x /\ Other(Other(x)) = x /\ Ends = {x, Other(x)}
BY DEF Ends, Other

LEMMA PartAsked ==
  ASSUME NEW s, NEW t, NEW f, Part(s, t)
  PROVE  /\ AskedFor(s, f) => AskedFor(t, f)
         /\ OnlyAsked(s, f) => OnlyAsked(t, f)
         /\ AckOnWay(t, f) => AckOnWay(s, f)
<1>1. PICK k \in Nat : k + Len(t) <= Len(s) /\ \A i \in 1..Len(t) : t[i] = s[i + k]
  BY DEF Part
<1>2. Len(s) \in Nat /\ Len(t) \in Nat
  BY DEF Part
<1>3. \A i \in 1..Len(t) : i + k \in 1..Len(s) /\ t[i] = s[i + k]
  BY <1>1, <1>2
<1>4. ASSUME AskedFor(s, f) PROVE AskedFor(t, f)
  <2> SUFFICES ASSUME NEW i \in 1..Len(t), t[i].code = "CONFREQ", t[i].id = f.reqid
               PROVE  t[i].opt = AddCi(f.go)
                      /\ \A j \in i..Len(t) : t[j].code = "CONFREQ" => t[j].id = f.reqid
    BY DEF AskedFor
  <2>1. i + k \in 1..Len(s) /\ t[i] = s[i + k]
    BY <1>3
  <2>2. /\ s[i + k].opt = AddCi(f.go)
        /\ \A j \in (i + k)..Len(s) : s[j].code = "CONFREQ" => s[j].id = f.reqid
    BY <1>4, <2>1 DEF AskedFor
  <2>3. ASSUME NEW j \in i..Len(t) PROVE j + k \in (i + k)..Len(s) /\ t[j] = s[j + k]
    BY <1>1, <1>2
  <2> QED
    BY <2>1, <2>2, <2>3
<1>5. OnlyAsked(s, f) => OnlyAsked(t, f)
  BY <1>3 DEF OnlyAsked
<1>6. AckOnWay(t, f) => AckOnWay(s, f)
  BY <1>3 DEF AckOnWay
<1> QED
  BY <1>4, <1>5, <1>6

LEMMA SpokenAsked ==
  ASSUME NEW s, NEW out, NEW t, NEW f, Spoken(s, out, t),
         \A q \in Talk(out) : q.code = "CONFREQ" => q.id = f.reqid /\ q.opt = AddCi(f.go)
  PROVE  /\ AskedFor(s, f) => AskedFor(t, f)
         /\ OnlyAsked(s, f) => OnlyAsked(t, f)
<1>1. \A i \in 1..Len(t) : t[i].code = "CONFREQ" =>
        (i \in 1..Len(s) /\ t[i] = s[i]) \/ (t[i].id = f.reqid /\ t[i].opt = AddCi(f.go))
  BY DEF Spoken
<1>2. Len(s) \in Nat /\ Len(t) \in Nat
  BY DEF Spoken
<1>3. ASSUME AskedFor(s, f) PROVE AskedFor(t, f)
  <2> SUFFICES ASSUME NEW i \in 1..Len(t), t[i].code = "CONFREQ", t[i].id = f.reqid
               PROVE  t[i].opt = AddCi(f.go)
                      /\ \A j \in i..Len(t) : t[j].code = "CONFREQ" => t[j].id = f.reqid
    BY DEF AskedFor
  <2>1. CASE i \in 1..Len(s) /\ t[i] = s[i]
    <3>1. /\ s[i].opt = AddCi(f.go)
          /\ \A j \in i..Len(s) : s[j].code = "CONFREQ" => s[j].id = f.reqid
      BY <1>3, <2>1 DEF AskedFor
    <3>2. ASSUME NEW j \in i..Len(t), t[j].code = "CONFREQ" PROVE t[j].id = f.reqid
      <4>1. j \in 1..Len(t)
        BY <1>2
      <4>2. j \in 1..Len(s) => j \in i..Len(s)
        BY <1>2
      <4> QED
        BY <1>1, <3>1, <3>2, <4>1, <4>2
    <3> QED
      BY <2>1, <3>1, <3>2
  <2>2. CASE i \notin 1..Len(s)
    <3>1. ASSUME NEW j \in i..Len(t), t[j].code = "CONFREQ" PROVE t[j].id = f.reqid
      <4>1. j \in 1..Len(t) /\ j \notin 1..Len(s)
        BY <1>2, <2>2
      <4> QED
        BY <1>1, <3>1, <4>1
    <3> QED
      BY <1>1, <2>2, <3>1
  <2> QED
    BY <2>1, <2>2 DEF Spoken
<1>4. OnlyAsked(s, f) => OnlyAsked(t, f)
  BY <1>1 DEF OnlyAsked
<1> QED
  BY <1>3, <1>4

(* The end of f moves to g: its request is still in step with the other    *)
(* end, under its old id or under one that nothing on the line has.        *)
LEMMA MovedSelf ==
  ASSUME NEW f, NEW g, NEW P, NEW h, NEW to, NEW back, NEW said, NEW to1, NEW back1,
         Step(f, g, P), InStep(f, to, back, h), IdFree(f, to, back),
         \A p \in P : Len(back) \in Nat /\ Len(back) >= 1 /\ p = back[1],
         Spoken(to, g.out, said), Part(said, to1), Part(back, back1)
  PROVE  InStep(g, to1, back1, h)
<1> SUFFICES ASSUME g.state \in Live
             PROVE  /\ AskedFor(to1, g)
                    /\ g.state \in AckIn \/ AckOnWay(back1, g) =>
                         OnlyAsked(to1, g) /\ (h.state \in AckOut => h.ho = AddCi(g.go))
  BY DEF InStep
<1>0. \A q \in Talk(g.out) : q.code = "CONFREQ" => q.id = g.reqid /\ q.opt = AddCi(g.go)
  BY DEF Step, Requests
<1>1. CASE g.reqid = NextId(f) /\ g.state \notin AckIn
  <2>1. AskedFor(to, g)
    BY <1>1 DEF AskedFor, IdFree
  <2>2. AskedFor(to1, g)
    BY <1>0, <2>1, SpokenAsked, PartAsked
  <2>3. ~AckOnWay(back, g)
    BY <1>1 DEF AckOnWay, IdFree
  <2> QED
    BY <1>1, <2>2, <2>3, PartAsked
<1>2. CASE /\ f.state \in Live /\ g.reqid = f.reqid /\ g.go = f.go
           /\ g.state \in AckIn =>
                f.state \in AckIn \/ \E p \in P : p.code = "CONFACK" /\ p.id = f.reqid
  <2>1. AskedFor(to, f) /\ (AskedFor(to, f) => AskedFor(to, g))
        /\ (OnlyAsked(to, f) => OnlyAsked(to, g)) /\ (AckOnWay(back, g) => AckOnWay(back, f))
    BY <1>2 DEF InStep, AskedFor, OnlyAsked, AckOnWay
  <2>2. AskedFor(to1, g)
    BY <1>0, <2>1, SpokenAsked, PartAsked
  <2>3. (\E p \in P : p.code = "CONFACK" /\ p.id = f.reqid) => AckOnWay(back, f)
    BY DEF AckOnWay
  <2>4. g.state \in AckIn \/ AckOnWay(back1, g) => f.state \in AckIn \/ AckOnWay(back, f)
    BY <1>2, <2>1, <2>3, PartAsked
  <2>5. g.state \in AckIn \/ AckOnWay(back1, g) =>
          OnlyAsked(to, g) /\ (h.state \in AckOut => h.ho = AddCi(g.go))
    BY <1>2, <2>1, <2>4 DEF InStep
  <2>6. OnlyAsked(to, g) => OnlyAsked(to1, g)
    BY <1>0, SpokenAsked, PartAsked
  <2> QED
    BY <2>2, <2>5, <2>6
<1> QED
  BY <1>1, <1>2 DEF Step, OurSide

(* The other end moves to h: what it acknowledges or keeps is the request  *)
(* of f, if f took or may yet take an Ack for it.                          *)
LEMMA MovedOther ==
  ASSUME NEW f, NEW h0, NEW h, NEW P, NEW to, NEW back, NEW said, NEW to1, NEW back1,
         Step(h0, h, P), InStep(f, to, back, h0),
         \A p \in P : Len(to) \in Nat /\ Len(to) >= 1 /\ p = to[1],
         Spoken(back, h.out, said), Part(said, back1), Part(to, to1)
  PROVE  InStep(f, to1, back1, h)
<1> SUFFICES ASSUME f.state \in Live
             PROVE  /\ AskedFor(to1, f)
                    /\ f.state \in AckIn \/ AckOnWay(back1, f) =>
                         OnlyAsked(to1, f) /\ (h.state \in AckOut => h.ho = AddCi(f.go))
  BY DEF InStep
<1>1. AskedFor(to, f) /\ AskedFor(to1, f)
  BY PartAsked DEF InStep
<1>2. ASSUME NEW p \in P, p.code = "CONFREQ", p.id = f.reqid
      PROVE  p.opt = AddCi(f.go) /\ OnlyAsked(to, f)
  <2>1. p = to[1] /\ 1 \in 1..Len(to)
    OBVIOUS
  <2> QED
    BY <1>1, <1>2, <2>1 DEF AskedFor, OnlyAsked
<1>3. CASE f.state \in AckIn \/ AckOnWay(back, f)
  <2>1. OnlyAsked(to, f) /\ (h0.state \in AckOut => h0.ho = AddCi(f.go))
    BY <1>3 DEF InStep
  <2>2. \A p \in P : p.code = "CONFREQ" => p.id = f.reqid
    BY <2>1 DEF OnlyAsked
  <2>3. h.state \in AckOut => h.ho = AddCi(f.go)
    BY <1>2, <2>1, <2>2 DEF Step, HisSide
  <2> QED
    BY <1>1, <2>1, <2>3, PartAsked
<1>4. CASE ~(f.state \in AckIn \/ AckOnWay(back, f)) /\ AckOnWay(back1, f)
  <2>1. AckOnWay(said, f)
    BY <1>4, PartAsked
  <2>2. PICK i \in 1..Len(said) : said[i].code = "CONFACK" /\ said[i].id = f.reqid
    BY <2>1 DEF AckOnWay
  <2>3. i \notin 1..Len(back)
    BY <1>4, <2>2 DEF AckOnWay, Spoken
  <2>4. said[i] \in Talk(h.out)
    BY <2>2, <2>3 DEF Spoken
  <2>5. PICK p \in P : /\ p.code = "CONFREQ" /\ p.id = f.reqid
                       /\ h.state \in AckOut => h.ho = p.opt
    BY <2>2, <2>4 DEF Step, Acks
  <2> QED
    BY <1>1, <1>2, <2>5, PartAsked
<1> QED
  BY <1>1, <1>3, <1>4

(* Only the negotiation counts.                                            *)
LEMMA SameStep ==
  ASSUME NEW f, NEW g, NEW to, NEW back, NEW h, NEW k, InStep(f, to, back, h),
         g.state = f.state, g.reqid = f.reqid, g.go = f.go, k.state = h.state, k.ho = h.ho
  PROVE  InStep(g, to, back, k)
BY DEF InStep, AskedFor, OnlyAsked, AckOnWay

LEMMA RestIs ==
  ASSUME NEW e, Daemon(e)
  PROVE  LET r == Rest(e) IN
         /\ Daemon(r) /\ r.lcp.out = <<>>
         /\ r.lcp.state = e.lcp.state /\ r.lcp.reqid = e.lcp.reqid
         /\ r.lcp.go = e.lcp.go /\ r.lcp.ho = e.lcp.ho
<1> DEFINE g == [e.lcp EXCEPT !.out = <<>>]
           r == [e EXCEPT !.lcp = g, !.dice = 0]
<1>1. Rest(e) = r
  BY DEF Rest, Daemon, PppdFields
<1>2. /\ DOMAIN g = LcpFields /\ g.out = <<>> /\ g.state = e.lcp.state /\ g.up = e.lcp.up
      /\ g.reqid = e.lcp.reqid /\ g.go = e.lcp.go /\ g.ho = e.lcp.ho
  BY DEF Daemon, Shape, LcpFields
<1> HIDE DEF g
<1>3. Shape(g)
  BY <1>2, EmptyTalk DEF Daemon, Shape
<1>4. /\ DOMAIN r = PppdFields /\ r.lcp = g /\ r.phase = e.phase /\ r.hungup = e.hungup
      /\ r.delayed = e.delayed
  BY DEF Daemon, PppdFields
<1> HIDE DEF r
<1> QED
  BY <1>1, <1>2, <1>3, <1>4 DEF Daemon, Grounded

(* An event at one end keeps both ends in step.                            *)
LEMMA HandledKeeps ==
  ASSUME NEW x \in Ends, NEW e0, NEW e, NEW P, NEW rest, LinkInv, NextIdFree,
         e0 \in Rolled(x), Event(e0, e, P), IsSeq(rest), Part(line[x], rest),
         \A p \in P : Len(line[x]) \in Nat /\ Len(line[x]) >= 1 /\ p = line[x][1],
         Handled(x, e, rest)
  PROVE  LinkInv'
<1> DEFINE y == Other(x)
           out == e.lcp.out
           sent == line[y] \o out
           room == IF pp[y].line THEN Smaller(Len(sent), MaxLine) ELSE 0
           cut == SubSeq(sent, 1, room)
           left == IF e.line THEN rest ELSE <<>>
           r == Rest(e)
<1>1. y \in Ends /\ y # x /\ Other(y) = x /\ Ends = {x, y}
  BY Ends2
<1>2. pp' = [pp EXCEPT ![x] = r] /\ line' = [line EXCEPT ![x] = left, ![y] = cut]
  BY DEF Handled
<1> HIDE DEF y, out
<1>3. /\ DOMAIN pp = Ends /\ DOMAIN line = Ends
      /\ Daemon(pp[x]) /\ Daemon(pp[y]) /\ pp[x].lcp.out = <<>> /\ pp[y].lcp.out = <<>>
      /\ IsSeq(line[x]) /\ IsSeq(line[y])
      /\ InStep(pp[x].lcp, line[y], line[x], pp[y].lcp)
      /\ InStep(pp[y].lcp, line[x], line[y], pp[x].lcp)
  BY <1>1 DEF LinkInv, y
<1>4. Daemon(e) /\ Step(pp[x].lcp, e.lcp, P)
  <2>1. PICK dice \in Dice : e0 = [pp[x] EXCEPT !.dice = dice]
    BY DEF Rolled
  <2>2. e0.lcp = pp[x].lcp
    BY <1>3, <2>1 DEF Daemon, PppdFields
  <2> QED
    BY <2>2 DEF Event
<1>5. IsSeq(out)
  BY <1>4 DEF Step, Shape, out
<1>6. IsSeq(sent) /\ Spoken(line[y], out, sent)
  BY <1>3, <1>5, SpokenConcat
<1> HIDE DEF sent
<1>7. room \in 0..Len(sent)
  <2>1. Len(sent) \in Nat /\ MaxLine \in Nat
    BY <1>6, LinkAssumption DEF IsSeq
  <2> QED
    BY <2>1 DEF Smaller
<1> HIDE DEF room
<1>8. IsSeq(cut) /\ Part(sent, cut)
  BY <1>6, <1>7, PrefixPart
<1> HIDE DEF cut
<1>9. IsSeq(left) /\ Part(line[x], left)
  BY <1>3, WholePart
<1> HIDE DEF left
<1>10. /\ Daemon(r) /\ r.lcp.out = <<>>
       /\ r.lcp.state = e.lcp.state /\ r.lcp.reqid = e.lcp.reqid
       /\ r.lcp.go = e.lcp.go /\ r.lcp.ho = e.lcp.ho
  BY <1>4, RestIs
<1> HIDE DEF r
<1>11. InStep(r.lcp, cut, left, pp[y].lcp)
  <2>1. IdFree(pp[x].lcp, line[y], line[x])
    BY DEF NextIdFree, y
  <2>2. InStep(e.lcp, cut, left, pp[y].lcp)
    BY <1>3, <1>4, <1>6, <1>8, <1>9, <2>1, MovedSelf DEF out
  <2> QED
    BY <1>10, <2>2, SameStep
<1>12. InStep(pp[y].lcp, left, cut, r.lcp)
  <2>1. InStep(pp[y].lcp, left, cut, e.lcp)
    BY <1>3, <1>4, <1>6, <1>8, <1>9, MovedOther DEF out
  <2> QED
    BY <1>10, <2>1, SameStep
<1>13. /\ DOMAIN pp' = Ends /\ DOMAIN line' = Ends /\ pp'[x] = r /\ pp'[y] = pp[y]
       /\ line'[x] = left /\ line'[y] = cut
  BY <1>1, <1>2, <1>3
<1>14. \A z \in Ends :
         /\ Daemon(pp'[z]) /\ pp'[z].lcp.out = <<>> /\ IsSeq(line'[z])
         /\ InStep(pp'[z].lcp, line'[Other(z)], line'[z], pp'[Other(z)].lcp)
  BY <1>1, <1>3, <1>8, <1>9, <1>10, <1>11, <1>12, <1>13 DEF y
<1> QED
  BY <1>13, <1>14 DEF LinkInv

LEMMA RolledDaemon ==
  ASSUME NEW x \in Ends, NEW e \in Rolled(x), LinkInv
  PROVE  Daemon(e) /\ e.lcp = pp[x].lcp /\ e.lcp.out = <<>> /\ e.phase = pp[x].phase
<1>1. PICK dice \in Dice : e = [pp[x] EXCEPT !.dice = dice]
  BY DEF Rolled
<1>2. Daemon(pp[x]) /\ pp[x].lcp.out = <<>>
  BY DEF LinkInv
<1>3. Beside(pp[x], e) /\ e.phase = pp[x].phase
  BY <1>1, <1>2 DEF Daemon, PppdFields, Beside
<1> QED
  BY <1>2, <1>3, BesideIsQuiet DEF Beside

LEMMA LineIs ==
  ASSUME NEW x \in Ends, LinkInv
  PROVE  IsSeq(line[x]) /\ Part(line[x], line[x])
BY WholePart DEF LinkInv

LEMMA LinkInvInit == LinkInit => LinkInv
<1> SUFFICES ASSUME LinkInit PROVE LinkInv
  OBVIOUS
<1>1. PICK wa \in WantsA, wb \in WantsB, oa \in AllowsA, ob \in AllowsB :
        pp = [x \in Ends |-> IF x = "A" THEN PppdInit(wa, oa, {}) ELSE PppdInit(wb, ob, {})]
  BY DEF LinkInit
<1>2. DOMAIN pp = Ends /\ line = [x \in Ends |-> <<>>]
  BY <1>1 DEF LinkInit
<1>3. ASSUME NEW x \in Ends
      PROVE  /\ DOMAIN pp[x] = PppdFields /\ pp[x].phase = "DEAD" /\ pp[x].delayed = FALSE
             /\ DOMAIN pp[x].lcp = LcpFields /\ pp[x].lcp.state = "INITIAL"
             /\ pp[x].lcp.up = 0 /\ pp[x].lcp.out = <<>>
  <2>1. PICK w, o : pp[x] = PppdInit(w, o, {})
    BY <1>1
  <2> QED
    BY <2>1 DEF PppdInit, FsmInit, PppdFields, LcpFields
<1>4. ASSUME NEW x \in Ends
      PROVE  /\ Daemon(pp[x]) /\ pp[x].lcp.out = <<>> /\ IsSeq(line[x])
             /\ InStep(pp[x].lcp, line[Other(x)], line[x], pp[Other(x)].lcp)
  <2>1. line[x] = <<>> /\ IsSeq(<<>>)
    BY <1>2, EmptyTalk
  <2> DEFINE g == pp[x].lcp
  <2> HIDE DEF g
  <2>0. IsSeq(g.out)
    BY <1>3, EmptyTalk DEF g
  <2>a. DOMAIN g = LcpFields /\ g.state = "INITIAL" /\ g.up = 0
    BY <1>3 DEF g
  <2>2. Shape(pp[x].lcp)
    BY <2>0, <2>a DEF Shape, States, g
  <2>3. Daemon(pp[x])
    BY <1>3, <2>2 DEF Daemon, Grounded, Bare
  <2>4. pp[x].lcp.state \notin Live
    BY <1>3 DEF Live, Negotiating
  <2> QED
    BY <1>3, <2>1, <2>3, <2>4 DEF InStep
<1> QED
  BY <1>2, <1>4 DEF LinkInv

LEMMA LinkInvNext == LinkInv /\ NextIdFree /\ [LinkNext]_linkVars => LinkInv'
<1> SUFFICES ASSUME LinkInv, NextIdFree, [LinkNext]_linkVars PROVE LinkInv'
  OBVIOUS
<1>1. CASE UNCHANGED linkVars
  BY <1>1 DEF linkVars, LinkInv
<1>2. ASSUME NEW x \in Ends, Turn(x) PROVE LinkInv'
  <2>0. IsSeq(line[x]) /\ Part(line[x], line[x])
    BY LineIs
  (* An event that takes no packet. *)
  <2>1. ASSUME NEW e0 \in Rolled(x), NEW e, Event(e0, e, {}), Handled(x, e, line[x])
        PROVE  LinkInv'
    <3>1. PICK rest : rest = line[x]
      OBVIOUS
    <3>2. IsSeq(rest) /\ Part(line[x], rest) /\ Handled(x, e, rest)
      BY <2>0, <2>1, <3>1
    <3> QED
      BY <2>1, <3>2, HandledKeeps
  <2>2. ASSUME NEW e0 \in Rolled(x), NEW e, Quiet(e0, e), Handled(x, e, line[x])
        PROVE  LinkInv'
    <3>1. Daemon(e0) /\ e0.lcp.out = <<>>
      BY RolledDaemon
    <3>2. Event(e0, e, {})
      BY <2>2, <3>1, QuietEvent
    <3> QED
      BY <2>1, <2>2, <3>2
  <2>3. CASE Deliver(x)
    <3>1. PICK e0 \in Rolled(x) : Handled(x, GetInput(e0, Head(line[x]), "right"), Tail(line[x]))
      BY <2>3 DEF Deliver
    <3>2. line[x] # <<>>
      BY <2>3 DEF Deliver, CanDeliver
    <3>3. PICK p, rest : p = Head(line[x]) /\ rest = Tail(line[x])
      OBVIOUS
    <3>4. /\ IsSeq(rest) /\ Part(line[x], rest) /\ Len(line[x]) \in Nat /\ Len(line[x]) >= 1
          /\ p = line[x][1]
      BY <2>0, <3>2, <3>3, TailPart
    <3> DEFINE e == GetInput(e0, p, "right")
    <3>5. Handled(x, e, rest)
      BY <3>1, <3>3
    <3>6. Event(e0, e, {p})
      BY RolledDaemon, GetInputEvent
    <3> HIDE DEF e
    <3>7. \A q \in {p} : Len(line[x]) \in Nat /\ Len(line[x]) >= 1 /\ q = line[x][1]
      BY <3>4
    <3> QED
      BY <3>4, <3>5, <3>6, <3>7, HandledKeeps
  <2>4. CASE Lose(x)
    <3>1. line[x] # <<>> /\ line' = [line EXCEPT ![x] = Tail(@)] /\ pp' = pp
      BY <2>4 DEF Lose
    <3> DEFINE y == Other(x)
               t == Tail(line[x])
    <3>2. IsSeq(t) /\ Part(line[x], t)
      BY <2>0, <3>1, TailPart
    <3>3. y \in Ends /\ y # x /\ Other(y) = x /\ Ends = {x, y}
      BY Ends2
    <3>4. DOMAIN line' = Ends /\ line'[x] = t /\ line'[y] = line[y]
      BY <3>1, <3>3 DEF LinkInv
    <3> HIDE DEF t
    <3>5. InStep(pp[x].lcp, line[y], t, pp[y].lcp) /\ InStep(pp[y].lcp, t, line[y], pp[x].lcp)
      <4>1. InStep(pp[x].lcp, line[y], line[x], pp[y].lcp) /\ InStep(pp[y].lcp, line[x], line[y], pp[x].lcp)
        BY <3>3 DEF LinkInv
      <4>2. \A f : /\ AskedFor(line[x], f) => AskedFor(t, f)
                   /\ OnlyAsked(line[x], f) => OnlyAsked(t, f)
                   /\ AckOnWay(t, f) => AckOnWay(line[x], f)
        BY <3>2, PartAsked
      <4> QED
        BY <4>1, <4>2 DEF InStep
    <3> HIDE DEF y
    <3>6. \A z \in Ends : /\ Daemon(pp[z]) /\ pp[z].lcp.out = <<>> /\ IsSeq(line'[z])
                          /\ InStep(pp[z].lcp, line'[Other(z)], line'[z], pp[Other(z)].lcp)
      BY <3>2, <3>3, <3>4, <3>5 DEF LinkInv, y
    <3> QED
      BY <3>1, <3>4, <3>6 DEF LinkInv
  <2>5. CASE FsmTimer(x)
    <3>1. PICK e0 \in Rolled(x) : Handled(x, Settle(e0, FsmTimeout(e0.lcp)), line[x])
      BY <2>5 DEF FsmTimer
    <3>2. Daemon(e0) /\ e0.lcp.out = <<>>
      BY RolledDaemon
    <3> DEFINE g == FsmTimeout(e0.lcp)
    <3>3. Step(e0.lcp, g, {}) /\ (e0.lcp.state \in Bare => g.state \in Bare)
      BY <3>2, TimeoutSteps DEF Daemon
    <3> HIDE DEF g
    <3>4. e0.phase = "DEAD" \/ e0.hungup => g.state \in Bare
      BY <3>2, <3>3 DEF Daemon, Grounded
    <3>5. Event(e0, Settle(e0, g), {})
      BY <3>2, <3>3, <3>4, SettleEvent
    <3> QED
      BY <2>1, <3>1, <3>5 DEF g
  <2>6. CASE ChapTimer(x)
    <3>1. PICK e0 \in Rolled(x) :
            Handled(x, ChapTimeout([e0 EXCEPT !.challenges = Less(@)]), line[x])
      BY <2>6 DEF ChapTimer
    <3> DEFINE b == [e0 EXCEPT !.challenges = Less(@)]
    <3>2. Daemon(e0)
      BY RolledDaemon
    <3>3. Beside(e0, b)
      BY <3>2 DEF Daemon, PppdFields, Beside
    <3> HIDE DEF b
    <3>4. Quiet(b, ChapTimeout(b))
      BY <3>2, <3>3, BesideIsQuiet, ChapTimeoutQuiet
    <3>5. Quiet(e0, ChapTimeout(b))
      BY <3>3, <3>4, BesideThenQuiet
    <3> QED
      BY <2>2, <3>1, <3>5 DEF b
  <2>7. CASE EchoTimer(x)
    <3>1. PICK e0 \in Rolled(x) : Handled(x, LcpEchoTimeout(e0), line[x])
      BY <2>7 DEF EchoTimer
    <3>2. Quiet(e0, LcpEchoTimeout(e0))
      BY RolledDaemon, EchoTimeoutQuiet
    <3> QED
      BY <2>2, <3>1, <3>2
  <2>8. CASE Kill(x)
    <3>1. PICK e0 \in Rolled(x) : Handled(x, LcpClose(e0), line[x])
      BY <2>8 DEF Kill
    <3>2. Quiet(e0, LcpClose(e0))
      BY RolledDaemon, CloseQuiet
    <3> QED
      BY <2>2, <3>1, <3>2
  <2>9. CASE LineHangup(x)
    <3>1. PICK e0 \in Rolled(x) : Handled(x, Hangup(e0), line[x])
      BY <2>9 DEF LineHangup
    <3>2. Quiet(e0, Hangup(e0))
      BY RolledDaemon, HangupQuiet
    <3> QED
      BY <2>2, <3>1, <3>2
  <2>10. CASE Dial(x)
    <3>1. PICK e0 \in Rolled(x) : Handled(x, Redial(e0, TRUE, TRUE), line[x])
      BY <2>10 DEF Dial
    <3>2. Daemon(e0) /\ e0.lcp.out = <<>> /\ e0.phase = "DEAD"
      BY <2>10, RolledDaemon DEF Dial, CanDial
    <3>3. Event(e0, Redial(e0, TRUE, TRUE), {})
      BY <3>2, RedialEvent
    <3> QED
      BY <2>1, <3>1, <3>3
  <2>11. CASE IpcpUp(x)
    <3>1. PICK e0 \in Rolled(x) : Handled(x, NpUp(e0), line[x])
      BY <2>11 DEF IpcpUp
    <3>2. Quiet(e0, NpUp(e0))
      BY RolledDaemon, NetworkQuiet
    <3> QED
      BY <2>2, <3>1, <3>2
  <2>12. CASE IpcpFinished(x)
    <3>1. PICK e0 \in Rolled(x) : Handled(x, NpFinished(e0), line[x])
      BY <2>12 DEF IpcpFinished
    <3>2. Quiet(e0, NpFinished(e0))
      BY RolledDaemon, NetworkQuiet
    <3> QED
      BY <2>2, <3>1, <3>2
  <2> QED
    BY <1>2, <2>3, <2>4, <2>5, <2>6, <2>7, <2>8, <2>9, <2>10, <2>11, <2>12 DEF Turn
<1> QED
  BY <1>1, <1>2 DEF LinkNext

(* Both ends open: each has an Ack for its request, and the other stands   *)
(* by the Ack it gave.                                                     *)
LEMMA InvAgreement == LinkInv => Agreement
<1> SUFFICES ASSUME LinkInv, Opened(pp["A"]), Opened(pp["B"]), NEW x \in Ends
             PROVE  pp[Other(x)].lcp.ho = AddCi(pp[x].lcp.go)
  BY DEF Agreement
<1>1. pp[x].lcp.state = "OPENED" /\ pp[Other(x)].lcp.state = "OPENED"
  BY DEF Opened, Ends, Other
<1>2. InStep(pp[x].lcp, line[Other(x)], line[x], pp[Other(x)].lcp)
  BY DEF LinkInv
<1> QED
  BY <1>1, <1>2 DEF InStep, Live, AckIn, AckOut

(* fsm.c over a line that loses packets: as long as no packet id comes     *)
(* round while a packet with it is on its way, two daemons that are both   *)
(* open agree on what each negotiated, whatever was lost, repeated,        *)
(* renegotiated, hung up or dialled again before.                          *)
THEOREM EndsAgree == LinkSafety /\ []NextIdFree => []Agreement
<1>1. LinkInit => LinkInv
  BY LinkInvInit
<1>2. LinkInv /\ NextIdFree /\ [LinkNext]_linkVars => LinkInv'
  BY LinkInvNext
<1>3. LinkInv => Agreement
  BY InvAgreement
<1> QED
  BY <1>1, <1>2, <1>3, PTL DEF LinkSafety

=============================================================================
