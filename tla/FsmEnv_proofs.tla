--------------------------- MODULE FsmEnv_proofs ----------------------------
(***************************************************************************)
(* The automaton of fsm.c against an arbitrary peer, for every retry limit,*)
(* every set of options and every combination of flags: its timer, its     *)
(* callbacks and its administrative status are always in order.            *)
(***************************************************************************)
EXTENDS FsmEnv, TLAPS

(* The records the handlers work on, in the middle of a handler.           *)
Outs == [code : Codes, id : Ids, opt : Kinds \cup {None}]
Recs == [state : States, id : Ids, reqid : Ids, seenAck : BOOLEAN,
         retransmits : Int, nakloops : Int, flags : FlagSets,
         wo : {Want}, ao : {Allow}, go : SUBSET Kinds,
         ho : Allow \cup {None}, timers : Int, up : Int,
         finished : BOOLEAN, out : Seq(Outs)]

(* A record between two handlers: the invariant on the automaton alone.    *)
Good(g) ==
  /\ g \in Recs
  /\ g.retransmits \in 0..(MaxConfReqs + MaxTermReqs)
  /\ g.nakloops \in 0..MaxNakLoops
  /\ g.timers = IF g.state \in Timed THEN 1 ELSE 0
  /\ g.up = IF g.state = "OPENED" THEN 1 ELSE 0

(* The states of a layer that was closed, and of one without a lower layer.*)
Shut == {"INITIAL", "CLOSED", "CLOSING"}
Bare == {"INITIAL", "STARTING"}

(* A handler that takes g to h keeps the invariant and does not change     *)
(* whether the layer is open and whether its lower layer is there.         *)
Keeps(g, h) ==
  /\ Good(h)
  /\ h.state \in Shut <=> g.state \in Shut
  /\ h.state \in Bare <=> g.state \in Bare

(* What the option callbacks return.                                       *)
LEMMA AddCiType ==
  ASSUME NEW s \in SUBSET Kinds
  PROVE  AddCi(s) \in Kinds \cup {None}
BY DEF AddCi, ChapDigest, Kinds, Digests, None

LEMMA OptionTypes ==
  ASSUME NEW s \in SUBSET Kinds, NEW opt \in Kinds \cup {None}
  PROVE  /\ NakCi(s, opt) \in SUBSET Kinds
         /\ RejCi(s, opt) \in SUBSET Kinds
<1>1. NakCi(s, opt) \in SUBSET Kinds
  BY DEF NakCi, Kinds, Digests
<1>2. RejCi(s, opt) \in SUBSET Kinds
  BY DEF RejCi, Kinds
<1> QED
  BY <1>1, <1>2

LEMMA AnswerTypes ==
  ASSUME NEW s \in SUBSET Kinds, NEW opt \in Kinds \cup {None}, NEW b \in BOOLEAN
  PROVE  LET a == ReqCi(s, opt, b) IN
         /\ a.code \in {"CONFACK", "CONFNAK", "CONFREJ"}
         /\ a.opt \in Kinds \cup {None}
         /\ a.code = "CONFACK" => opt \in s \cup {None}
         /\ a.code = "CONFNAK" => ~b
<1>1. Suggestion(s, opt) \in Kinds \cup {None}
  BY DEF Suggestion, ChapDigest, Kinds, Digests, None
<1> QED
  BY <1>1 DEF ReqCi, None

(* To changes the state and nothing else the invariant is about.           *)
LEMMA ToFields ==
  ASSUME NEW g \in Recs, NEW s \in States
  PROVE  LET r == To(g, s) IN
         /\ r \in Recs
         /\ r.state = s
         /\ r.timers = g.timers
         /\ r.up = g.up
         /\ r.retransmits = g.retransmits
         /\ r.nakloops = g.nakloops
<1>1. To(g, s) \in Recs
  BY DEF Recs, To
<1>2. LET r == To(g, s) IN
         /\ r.state = s
         /\ r.timers = g.timers
         /\ r.up = g.up
         /\ r.retransmits = g.retransmits
         /\ r.nakloops = g.nakloops
  BY DEF Recs, To
<1> QED
  BY <1>1, <1>2

(* TIMEOUT, UNTIMEOUT: one callout more, one less.                         *)
LEMMA TimeoutFields ==
  ASSUME NEW g \in Recs
  PROVE  LET r == Timeout(g) IN
         /\ r \in Recs
         /\ r.state = g.state
         /\ r.timers = g.timers + 1
         /\ r.up = g.up
         /\ r.retransmits = g.retransmits
         /\ r.nakloops = g.nakloops
<1>1. Timeout(g) \in Recs
  BY DEF Recs, Timeout
<1>2. LET r == Timeout(g) IN
         /\ r.state = g.state
         /\ r.timers = g.timers + 1
         /\ r.up = g.up
         /\ r.retransmits = g.retransmits
         /\ r.nakloops = g.nakloops
  BY DEF Recs, Timeout
<1> QED
  BY <1>1, <1>2

LEMMA UntimeoutFields ==
  ASSUME NEW g \in Recs
  PROVE  LET r == Untimeout(g) IN
         /\ r \in Recs
         /\ r.state = g.state
         /\ r.timers = IF g.timers > 0 THEN g.timers - 1 ELSE 0
         /\ r.up = g.up
         /\ r.retransmits = g.retransmits
         /\ r.nakloops = g.nakloops
<1>1. Untimeout(g) \in Recs
  BY DEF Recs, Untimeout
<1>2. LET r == Untimeout(g) IN
         /\ r.state = g.state
         /\ r.timers = IF g.timers > 0 THEN g.timers - 1 ELSE 0
         /\ r.up = g.up
         /\ r.retransmits = g.retransmits
         /\ r.nakloops = g.nakloops
  BY DEF Recs, Untimeout
<1> QED
  BY <1>1, <1>2

(* The callbacks count up and down.                                        *)
LEMMA UpFields ==
  ASSUME NEW g \in Recs
  PROVE  LET r == Up(g) IN
         /\ r \in Recs
         /\ r.state = g.state
         /\ r.timers = g.timers
         /\ r.up = g.up + 1
         /\ r.retransmits = g.retransmits
         /\ r.nakloops = g.nakloops
<1>1. Up(g) \in Recs
  BY DEF Recs, Up
<1>2. LET r == Up(g) IN
         /\ r.state = g.state
         /\ r.timers = g.timers
         /\ r.up = g.up + 1
         /\ r.retransmits = g.retransmits
         /\ r.nakloops = g.nakloops
  BY DEF Recs, Up
<1> QED
  BY <1>1, <1>2

LEMMA DownFields ==
  ASSUME NEW g \in Recs
  PROVE  LET r == Down(g) IN
         /\ r \in Recs
         /\ r.state = g.state
         /\ r.timers = g.timers
         /\ r.up = g.up - 1
         /\ r.retransmits = g.retransmits
         /\ r.nakloops = g.nakloops
<1>1. Down(g) \in Recs
  BY DEF Recs, Down
<1>2. LET r == Down(g) IN
         /\ r.state = g.state
         /\ r.timers = g.timers
         /\ r.up = g.up - 1
         /\ r.retransmits = g.retransmits
         /\ r.nakloops = g.nakloops
  BY DEF Recs, Down
<1> QED
  BY <1>1, <1>2

LEMMA FinishedFields ==
  ASSUME NEW g \in Recs
  PROVE  LET r == Finished(g) IN
         /\ r \in Recs
         /\ r.state = g.state
         /\ r.timers = g.timers
         /\ r.up = g.up
         /\ r.retransmits = g.retransmits
         /\ r.nakloops = g.nakloops
<1>1. Finished(g) \in Recs
  BY DEF Recs, Finished
<1>2. LET r == Finished(g) IN
         /\ r.state = g.state
         /\ r.timers = g.timers
         /\ r.up = g.up
         /\ r.retransmits = g.retransmits
         /\ r.nakloops = g.nakloops
  BY DEF Recs, Finished
<1> QED
  BY <1>1, <1>2

(* One transmission is used up.                                            *)
LEMMA SentFields ==
  ASSUME NEW g \in Recs
  PROVE  LET r == Sent(g) IN
         /\ r \in Recs
         /\ r.state = g.state
         /\ r.timers = g.timers
         /\ r.up = g.up
         /\ r.retransmits = g.retransmits - 1
         /\ r.nakloops = g.nakloops
<1>1. Sent(g) \in Recs
  <2> DEFINE h == [g EXCEPT !.retransmits = g.retransmits - 1]
  <2>1. h \in Recs
    BY DEF Recs
  <2>2. Sent(g) = [h EXCEPT !.seenAck = FALSE]
    BY DEF Recs, Sent
  <2> HIDE DEF h
  <2> QED
    BY <2>1, <2>2 DEF Recs
<1>2. LET r == Sent(g) IN
         /\ r.state = g.state
         /\ r.timers = g.timers
         /\ r.up = g.up
         /\ r.retransmits = g.retransmits - 1
         /\ r.nakloops = g.nakloops
  BY DEF Recs, Sent
<1> QED
  BY <1>1, <1>2

(* Assignments to a single field.                                          *)
LEMMA RetriesFields ==
  ASSUME NEW g \in Recs, NEW n \in Int
  PROVE  LET r == [g EXCEPT !.retransmits = n] IN
         /\ r \in Recs
         /\ r.state = g.state
         /\ r.timers = g.timers
         /\ r.up = g.up
         /\ r.retransmits = n
         /\ r.nakloops = g.nakloops
<1>1. [g EXCEPT !.retransmits = n] \in Recs
  BY DEF Recs
<1>2. LET r == [g EXCEPT !.retransmits = n] IN
         /\ r.state = g.state
         /\ r.timers = g.timers
         /\ r.up = g.up
         /\ r.retransmits = n
         /\ r.nakloops = g.nakloops
  BY DEF Recs
<1> QED
  BY <1>1, <1>2

LEMMA NakloopsFields ==
  ASSUME NEW g \in Recs, NEW n \in Int
  PROVE  LET r == [g EXCEPT !.nakloops = n] IN
         /\ r \in Recs
         /\ r.state = g.state
         /\ r.timers = g.timers
         /\ r.up = g.up
         /\ r.retransmits = g.retransmits
         /\ r.nakloops = n
<1>1. [g EXCEPT !.nakloops = n] \in Recs
  BY DEF Recs
<1>2. LET r == [g EXCEPT !.nakloops = n] IN
         /\ r.state = g.state
         /\ r.timers = g.timers
         /\ r.up = g.up
         /\ r.retransmits = g.retransmits
         /\ r.nakloops = n
  BY DEF Recs
<1> QED
  BY <1>1, <1>2

LEMMA HisFields ==
  ASSUME NEW g \in Recs, NEW h \in Allow \cup {None}
  PROVE  LET r == [g EXCEPT !.ho = h] IN
         /\ r \in Recs
         /\ r.state = g.state
         /\ r.timers = g.timers
         /\ r.up = g.up
         /\ r.retransmits = g.retransmits
         /\ r.nakloops = g.nakloops
<1>1. [g EXCEPT !.ho = h] \in Recs
  BY DEF Recs
<1>2. LET r == [g EXCEPT !.ho = h] IN
         /\ r.state = g.state
         /\ r.timers = g.timers
         /\ r.up = g.up
         /\ r.retransmits = g.retransmits
         /\ r.nakloops = g.nakloops
  BY DEF Recs
<1> QED
  BY <1>1, <1>2

LEMMA SdataFields ==
  ASSUME NEW g \in Recs, NEW code \in Codes, NEW id \in Ids,
         NEW opt \in Kinds \cup {None}
  PROVE  LET r == Sdata(g, code, id, opt) IN
         /\ r \in Recs
         /\ r.state = g.state
         /\ r.timers = g.timers
         /\ r.up = g.up
         /\ r.retransmits = g.retransmits
         /\ r.nakloops = g.nakloops
<1>1. [code |-> code, id |-> id, opt |-> opt] \in Outs
  BY DEF Outs
<1>2. g.out \in Seq(Outs)
  BY DEF Recs
<1>3. Append(g.out, [code |-> code, id |-> id, opt |-> opt]) \in Seq(Outs)
  BY <1>1, <1>2
<1>4. Sdata(g, code, id, opt) \in Recs
  BY <1>3 DEF Sdata, Recs
<1>5. LET r == Sdata(g, code, id, opt) IN
      /\ r.state = g.state
      /\ r.timers = g.timers
      /\ r.up = g.up
      /\ r.retransmits = g.retransmits
      /\ r.nakloops = g.nakloops
  BY DEF Sdata, Recs
<1> QED
  BY <1>4, <1>5

LEMMA NextIdType ==
  ASSUME NEW g \in Recs
  PROVE  NextId(g) \in Ids
BY FsmAssumption DEF NextId, Ids, Recs

(* A new id for the next packet, and for the next request.                 *)
LEMMA IdFields ==
  ASSUME NEW g \in Recs, NEW n \in Ids
  PROVE  LET r == [g EXCEPT !.id = n] IN
         /\ r \in Recs
         /\ r.state = g.state
         /\ r.timers = g.timers
         /\ r.up = g.up
         /\ r.retransmits = g.retransmits
         /\ r.nakloops = g.nakloops
<1>1. [g EXCEPT !.id = n] \in Recs
  BY DEF Recs
<1>2. LET r == [g EXCEPT !.id = n] IN
      /\ r.state = g.state
      /\ r.timers = g.timers
      /\ r.up = g.up
      /\ r.retransmits = g.retransmits
      /\ r.nakloops = g.nakloops
  BY DEF Recs
<1> QED
  BY <1>1, <1>2

LEMMA ReqidFields ==
  ASSUME NEW g \in Recs, NEW n \in Ids
  PROVE  LET r == [g EXCEPT !.id = n, !.reqid = n] IN
         /\ r \in Recs
         /\ r.state = g.state
         /\ r.timers = g.timers
         /\ r.up = g.up
         /\ r.retransmits = g.retransmits
         /\ r.nakloops = g.nakloops
<1> DEFINE h == [g EXCEPT !.id = n]
           r == [h EXCEPT !.reqid = n]
<1>1. /\ h \in Recs
      /\ h.state = g.state
      /\ h.timers = g.timers
      /\ h.up = g.up
      /\ h.retransmits = g.retransmits
      /\ h.nakloops = g.nakloops
  BY IdFields
<1>2. [g EXCEPT !.id = n, !.reqid = n] = r
  BY DEF Recs
<1> HIDE DEF h
<1>3. r \in Recs
  BY <1>1 DEF Recs
<1>4. /\ r.state = g.state
      /\ r.timers = g.timers
      /\ r.up = g.up
      /\ r.retransmits = g.retransmits
      /\ r.nakloops = g.nakloops
  BY <1>1 DEF Recs
<1> HIDE DEF r
<1> QED
  BY <1>2, <1>3, <1>4

LEMMA ResetCiFields ==
  ASSUME NEW g \in Recs
  PROVE  LET r == ResetCi(g) IN
         /\ r \in Recs
         /\ r.state = g.state
         /\ r.timers = g.timers
         /\ r.up = g.up
         /\ r.retransmits = g.retransmits
         /\ r.nakloops = IF g.state \in Negotiating THEN g.nakloops ELSE 0
<1>1. CASE g.state \in Negotiating
  BY <1>1 DEF ResetCi
<1>2. CASE g.state \notin Negotiating
  <2> DEFINE h == [g EXCEPT !.go = g.wo]
  <2>1. g.wo \in SUBSET Kinds
    BY EnvAssumption DEF Recs
  <2>2. h \in Recs
    BY <2>1 DEF Recs
  <2>3. /\ h.state = g.state
        /\ h.timers = g.timers
        /\ h.up = g.up
        /\ h.retransmits = g.retransmits
    BY DEF Recs
  <2>4. ResetCi(g) = [h EXCEPT !.nakloops = 0]
    BY <1>2 DEF Recs, ResetCi
  <2> HIDE DEF h
  <2> QED
    BY <1>2, <2>2, <2>3, <2>4, NakloopsFields
<1> QED
  BY <1>1, <1>2

LEMMA NewRequestFields ==
  ASSUME NEW g \in Recs
  PROVE  LET r == NewRequest(g) IN
         /\ r \in Recs
         /\ r.state = g.state
         /\ r.timers = g.timers
         /\ r.up = g.up
         /\ r.retransmits = MaxConfReqs
         /\ r.nakloops = g.nakloops
<1> DEFINE h == [g EXCEPT !.retransmits = MaxConfReqs]
<1>1. MaxConfReqs \in Int /\ NextId(g) \in Ids
  BY FsmAssumption, NextIdType
<1>2. NewRequest(g) = [h EXCEPT !.id = NextId(g), !.reqid = NextId(g)]
  BY DEF Recs, NewRequest
<1>3. /\ h \in Recs
      /\ h.state = g.state
      /\ h.timers = g.timers
      /\ h.up = g.up
      /\ h.retransmits = MaxConfReqs
      /\ h.nakloops = g.nakloops
  BY <1>1, RetriesFields
<1> HIDE DEF h
<1> QED
  BY <1>1, <1>2, <1>3, ReqidFields, ZenonT(45)

(* A Configure-Request always starts one more timer.                       *)
LEMMA SconfreqFields ==
  ASSUME NEW g \in Recs, NEW b \in BOOLEAN
  PROVE  LET r == Sconfreq(g, b) IN
         /\ r \in Recs
         /\ r.state = g.state
         /\ r.timers = g.timers + 1
         /\ r.up = g.up
         /\ r.retransmits = IF b THEN g.retransmits - 1 ELSE MaxConfReqs - 1
         /\ r.nakloops = IF g.state \in Negotiating THEN g.nakloops ELSE 0
<1> DEFINE new == IF b THEN ResetCi(g) ELSE NewRequest(ResetCi(g))
           sent == Sent(new)
           posted == Sdata(sent, "CONFREQ", sent.reqid, AddCi(sent.go))
<1>1. /\ new \in Recs
      /\ new.state = g.state
      /\ new.timers = g.timers
      /\ new.up = g.up
      /\ new.retransmits = IF b THEN g.retransmits ELSE MaxConfReqs
      /\ new.nakloops = IF g.state \in Negotiating THEN g.nakloops ELSE 0
  BY ResetCiFields, NewRequestFields
<1> HIDE DEF new
<1>2. /\ sent \in Recs
      /\ sent.state = g.state
      /\ sent.timers = g.timers
      /\ sent.up = g.up
      /\ sent.retransmits = IF b THEN g.retransmits - 1 ELSE MaxConfReqs - 1
      /\ sent.nakloops = IF g.state \in Negotiating THEN g.nakloops ELSE 0
  BY <1>1, SentFields
<1> HIDE DEF sent
<1>3. AddCi(sent.go) \in Kinds \cup {None} /\ sent.reqid \in Ids /\ "CONFREQ" \in Codes
  <2>1. sent.go \in SUBSET Kinds /\ sent.reqid \in Ids
    BY <1>2 DEF Recs
  <2>2. AddCi(sent.go) \in Kinds \cup {None}
    BY <2>1, AddCiType
  <2>3. "CONFREQ" \in Codes
    BY DEF Codes
  <2> QED
    BY <2>1, <2>2, <2>3
<1>4. /\ posted \in Recs
      /\ posted.state = sent.state
      /\ posted.timers = sent.timers
      /\ posted.up = sent.up
      /\ posted.retransmits = sent.retransmits
      /\ posted.nakloops = sent.nakloops
  BY <1>2, <1>3, SdataFields
<1> HIDE DEF posted
<1>5. Sconfreq(g, b) = Timeout(posted)
  BY DEF Sconfreq, posted, sent, new
<1> QED
  BY <1>2, <1>4, <1>5, TimeoutFields

(* The same facts about a record with a known state and known counters.    *)
KeyIs(g, s, t, u, n, k) ==
  /\ g \in Recs
  /\ g.state = s
  /\ g.timers = t
  /\ g.up = u
  /\ g.retransmits = n
  /\ g.nakloops = k

LEMMA SmallKeys ==
  ASSUME NEW g, NEW s \in States, NEW t \in Int, NEW u \in Int, NEW n \in Int, NEW k \in Int,
         KeyIs(g, s, t, u, n, k)
  PROVE  /\ \A z \in States : KeyIs(To(g, z), z, t, u, n, k)
         /\ t = 0 => KeyIs(Timeout(g), s, 1, u, n, k)
         /\ t = 1 => KeyIs(Untimeout(g), s, 0, u, n, k)
         /\ u = 0 => KeyIs(Up(g), s, t, 1, n, k)
         /\ u = 1 => KeyIs(Down(g), s, t, 0, n, k)
         /\ KeyIs(Finished(g), s, t, u, n, k)
         /\ \A m \in Int : KeyIs([g EXCEPT !.retransmits = m], s, t, u, m, k)
         /\ \A m \in Int : KeyIs([g EXCEPT !.nakloops = m], s, t, u, n, m)
<1>1. \A z \in States : KeyIs(To(g, z), z, t, u, n, k)
  BY ToFields DEF KeyIs
<1>2. t = 0 => KeyIs(Timeout(g), s, 1, u, n, k)
  BY TimeoutFields DEF KeyIs
<1>3. t = 1 => KeyIs(Untimeout(g), s, 0, u, n, k)
  BY UntimeoutFields DEF KeyIs
<1>4. u = 0 => KeyIs(Up(g), s, t, 1, n, k)
  BY UpFields DEF KeyIs
<1>5. u = 1 => KeyIs(Down(g), s, t, 0, n, k)
  BY DownFields DEF KeyIs
<1>6. KeyIs(Finished(g), s, t, u, n, k)
  BY FinishedFields DEF KeyIs
<1>7. \A m \in Int : KeyIs([g EXCEPT !.retransmits = m], s, t, u, m, k)
  BY RetriesFields DEF KeyIs
<1>8. \A m \in Int : KeyIs([g EXCEPT !.nakloops = m], s, t, u, n, m)
  BY NakloopsFields DEF KeyIs
<1> QED
  BY <1>1, <1>2, <1>3, <1>4, <1>5, <1>6, <1>7, <1>8

LEMMA PostedKeys ==
  ASSUME NEW g, NEW s, NEW t, NEW u, NEW n, NEW k, KeyIs(g, s, t, u, n, k)
  PROVE  /\ \A code \in Codes, id \in Ids, opt \in Kinds \cup {None} :
              KeyIs(Sdata(g, code, id, opt), s, t, u, n, k)
         /\ \A id \in Ids : KeyIs([g EXCEPT !.id = id, !.reqid = id], s, t, u, n, k)
         /\ \A id \in Ids : KeyIs([g EXCEPT !.id = id], s, t, u, n, k)
         /\ \A h \in Allow \cup {None} : KeyIs([g EXCEPT !.ho = h], s, t, u, n, k)
<1>1. \A code \in Codes, id \in Ids, opt \in Kinds \cup {None} :
        KeyIs(Sdata(g, code, id, opt), s, t, u, n, k)
  BY SdataFields DEF KeyIs
<1>2. \A id \in Ids : KeyIs([g EXCEPT !.id = id, !.reqid = id], s, t, u, n, k)
  BY ReqidFields DEF KeyIs
<1>3. \A id \in Ids : KeyIs([g EXCEPT !.id = id], s, t, u, n, k)
  BY IdFields DEF KeyIs
<1>4. \A h \in Allow \cup {None} : KeyIs([g EXCEPT !.ho = h], s, t, u, n, k)
  BY HisFields DEF KeyIs
<1> QED
  BY <1>1, <1>2, <1>3, <1>4

(* An answer that was expected is noted, and may leave fewer options.      *)
LEMMA SeenKeys ==
  ASSUME NEW g, NEW s, NEW t, NEW u, NEW n, NEW k, KeyIs(g, s, t, u, n, k),
         NEW x \in SUBSET Kinds
  PROVE  /\ KeyIs([g EXCEPT !.seenAck = TRUE], s, t, u, n, k)
         /\ KeyIs([g EXCEPT !.seenAck = TRUE, !.go = x], s, t, u, n, k)
<1> DEFINE h == [g EXCEPT !.seenAck = TRUE]
           r == [h EXCEPT !.go = x]
<1>1. g \in Recs
  BY DEF KeyIs
<1>2. h \in Recs
  BY <1>1 DEF Recs
<1>3. KeyIs(h, s, t, u, n, k)
  <2>1. /\ h.state = g.state
        /\ h.timers = g.timers
        /\ h.up = g.up
        /\ h.retransmits = g.retransmits
        /\ h.nakloops = g.nakloops
    BY <1>1 DEF Recs
  <2> HIDE DEF h
  <2> QED
    BY <1>2, <2>1 DEF KeyIs
<1>4. [g EXCEPT !.seenAck = TRUE, !.go = x] = r
  BY <1>1 DEF Recs
<1> HIDE DEF h
<1>5. r \in Recs
  BY <1>2 DEF Recs
<1>6. /\ r.state = h.state
      /\ r.timers = h.timers
      /\ r.up = h.up
      /\ r.retransmits = h.retransmits
      /\ r.nakloops = h.nakloops
  BY <1>2 DEF Recs
<1> HIDE DEF r
<1>7. KeyIs(r, s, t, u, n, k)
  BY <1>3, <1>5, <1>6 DEF KeyIs
<1> QED
  BY <1>3, <1>4, <1>7 DEF h

(* From the invariant to the fields and back.                              *)
LEMMA GoodKey ==
  ASSUME NEW g, Good(g)
  PROVE  /\ g.state \in States
         /\ g.retransmits \in 0..(MaxConfReqs + MaxTermReqs)
         /\ g.nakloops \in 0..MaxNakLoops
         /\ KeyIs(g, g.state, IF g.state \in Timed THEN 1 ELSE 0,
                  IF g.state = "OPENED" THEN 1 ELSE 0, g.retransmits, g.nakloops)
<1>1. g.state \in States
  BY DEF Good, Recs
<1> QED
  BY <1>1 DEF Good, KeyIs

LEMMA KeyGood ==
  ASSUME NEW g, NEW s, NEW n \in 0..(MaxConfReqs + MaxTermReqs),
         NEW k \in 0..MaxNakLoops,
         KeyIs(g, s, IF s \in Timed THEN 1 ELSE 0, IF s = "OPENED" THEN 1 ELSE 0, n, k)
  PROVE  Good(g) /\ g.state = s
BY DEF Good, KeyIs

(* A first Configure-Request from a record whose timer is off.             *)
LEMMA RequestGood ==
  ASSUME NEW g \in Recs, g.timers = 0, g.up = 0, g.nakloops \in 0..MaxNakLoops
  PROVE  Good(Request(g)) /\ Request(g).state = "REQSENT"
<1> DEFINE r == Sconfreq(g, FALSE)
           k == IF g.state \in Negotiating THEN g.nakloops ELSE 0
<1>1. /\ r \in Recs
      /\ r.timers = g.timers + 1
      /\ r.up = g.up
      /\ r.retransmits = MaxConfReqs - 1
      /\ r.nakloops = k
  BY SconfreqFields
<1>2. Request(g) = To(r, "REQSENT")
  BY DEF Request
<1>3. k \in 0..MaxNakLoops /\ MaxConfReqs - 1 \in 0..(MaxConfReqs + MaxTermReqs)
  BY FsmAssumption
<1> HIDE DEF r, k
<1>4. "REQSENT" \in States
  BY DEF States
<1>5. KeyIs(Request(g), "REQSENT", 1, 0, MaxConfReqs - 1, k)
  BY <1>1, <1>2, <1>4, ToFields DEF KeyIs
<1> QED
  BY <1>3, <1>5, KeyGood DEF Timed, Negotiating

(* ---------------------------- the handlers ----------------------------- *)

(* fsm_lowerup.                                                            *)
LEMMA LowerupGood ==
  ASSUME NEW g, Good(g)
  PROVE  LET h == FsmLowerup(g) IN
         /\ Good(h)
         /\ h.state \in Shut <=> g.state \in Shut
         /\ h.state \notin Bare
         /\ h.state = "OPENED" <=> g.state = "OPENED"
<1>1. /\ g.state \in States
      /\ g.retransmits \in 0..(MaxConfReqs + MaxTermReqs)
      /\ g.nakloops \in 0..MaxNakLoops
      /\ KeyIs(g, g.state, IF g.state \in Timed THEN 1 ELSE 0,
               IF g.state = "OPENED" THEN 1 ELSE 0, g.retransmits, g.nakloops)
  BY GoodKey
<1>2. /\ 0 \in Int /\ 1 \in Int
      /\ g.retransmits \in Int /\ g.nakloops \in Int
      /\ \A s \in {"INITIAL", "STARTING", "CLOSED", "STOPPED", "CLOSING", "STOPPING",
                   "REQSENT", "ACKRCVD", "ACKSENT", "OPENED"} : s \in States
  BY <1>1, FsmAssumption DEF States
<1>3. CASE g.state = "INITIAL"
  <2>1. KeyIs(g, "INITIAL", 0, 0, g.retransmits, g.nakloops)
    BY <1>3, <1>1 DEF Timed, Negotiating
  <2>2. KeyIs(To(g, "CLOSED"), "CLOSED", 0, 0, g.retransmits, g.nakloops)
    BY <2>1, <1>1, <1>2, SmallKeys
  <2>3. FsmLowerup(g) = To(g, "CLOSED")
    BY <1>3 DEF FsmLowerup
  <2>4. Good(FsmLowerup(g)) /\ FsmLowerup(g).state = "CLOSED"
    BY <1>1, <2>2, <2>3, KeyGood DEF Timed, Negotiating
  <2> QED
    BY <1>3, <2>4 DEF Keeps, Shut, Bare, Negotiating
<1>4. CASE g.state = "STARTING" /\ "silent" \in g.flags
  <2>1. KeyIs(g, "STARTING", 0, 0, g.retransmits, g.nakloops)
    BY <1>4, <1>1 DEF Timed, Negotiating
  <2>2. KeyIs(To(g, "STOPPED"), "STOPPED", 0, 0, g.retransmits, g.nakloops)
    BY <2>1, <1>1, <1>2, SmallKeys
  <2>3. FsmLowerup(g) = To(g, "STOPPED")
    BY <1>4 DEF FsmLowerup
  <2>4. Good(FsmLowerup(g)) /\ FsmLowerup(g).state = "STOPPED"
    BY <1>1, <2>2, <2>3, KeyGood DEF Timed, Negotiating
  <2> QED
    BY <1>4, <2>4 DEF Keeps, Shut, Bare, Negotiating
<1>5. CASE g.state = "STARTING" /\ "silent" \notin g.flags
  <2>1. KeyIs(g, "STARTING", 0, 0, g.retransmits, g.nakloops)
    BY <1>5, <1>1 DEF Timed, Negotiating
  <2>2. Good(Request(g)) /\ Request(g).state = "REQSENT"
    BY <2>1, <1>1, <1>2, RequestGood DEF KeyIs
  <2>3. FsmLowerup(g) = Request(g)
    BY <1>5 DEF FsmLowerup
  <2> QED
    BY <1>5, <2>2, <2>3 DEF Keeps, Shut, Bare, Negotiating
<1>6. CASE g.state \notin {"INITIAL", "STARTING"}
  BY <1>6 DEF FsmLowerup, Keeps, Shut, Bare, Negotiating
<1> QED
  BY <1>1, <1>3, <1>4, <1>5, <1>6 DEF States, Negotiating

(* fsm_lowerdown.                                                          *)
LEMMA LowerdownGood ==
  ASSUME NEW g, Good(g)
  PROVE  /\ Good(FsmLowerdown(g))
         /\ FsmLowerdown(g).state = IF g.state \in Shut THEN "INITIAL" ELSE "STARTING"
<1>1. /\ g.state \in States
      /\ g.retransmits \in 0..(MaxConfReqs + MaxTermReqs)
      /\ g.nakloops \in 0..MaxNakLoops
      /\ KeyIs(g, g.state, IF g.state \in Timed THEN 1 ELSE 0,
               IF g.state = "OPENED" THEN 1 ELSE 0, g.retransmits, g.nakloops)
  BY GoodKey
<1>2. /\ 0 \in Int /\ 1 \in Int
      /\ g.retransmits \in Int /\ g.nakloops \in Int
      /\ \A s \in {"INITIAL", "STARTING", "CLOSED", "STOPPED", "CLOSING", "STOPPING",
                   "REQSENT", "ACKRCVD", "ACKSENT", "OPENED"} : s \in States
  BY <1>1, FsmAssumption DEF States
<1>3. CASE g.state = "CLOSED"
  <2>1. KeyIs(g, "CLOSED", 0, 0, g.retransmits, g.nakloops)
    BY <1>3, <1>1 DEF Timed, Negotiating
  <2>2. KeyIs(To(g, "INITIAL"), "INITIAL", 0, 0, g.retransmits, g.nakloops)
    BY <2>1, <1>1, <1>2, SmallKeys
  <2>3. FsmLowerdown(g) = To(g, "INITIAL")
    BY <1>3 DEF FsmLowerdown, Negotiating
  <2>4. Good(FsmLowerdown(g)) /\ FsmLowerdown(g).state = "INITIAL"
    BY <1>1, <2>2, <2>3, KeyGood DEF Timed, Negotiating
  <2> QED
    BY <1>3, <2>4 DEF Keeps, Shut, Bare, Negotiating
<1>4. CASE g.state = "STOPPED"
  <2>1. KeyIs(g, "STOPPED", 0, 0, g.retransmits, g.nakloops)
    BY <1>4, <1>1 DEF Timed, Negotiating
  <2>2. KeyIs(To(g, "STARTING"), "STARTING", 0, 0, g.retransmits, g.nakloops)
    BY <2>1, <1>1, <1>2, SmallKeys
  <2>3. FsmLowerdown(g) = To(g, "STARTING")
    BY <1>4 DEF FsmLowerdown, Negotiating
  <2>4. Good(FsmLowerdown(g)) /\ FsmLowerdown(g).state = "STARTING"
    BY <1>1, <2>2, <2>3, KeyGood DEF Timed, Negotiating
  <2> QED
    BY <1>4, <2>4 DEF Keeps, Shut, Bare, Negotiating
<1>5. CASE g.state = "CLOSING"
  <2>1. KeyIs(g, "CLOSING", 1, 0, g.retransmits, g.nakloops)
    BY <1>5, <1>1 DEF Timed, Negotiating
  <2>2. KeyIs(To(g, "INITIAL"), "INITIAL", 1, 0, g.retransmits, g.nakloops)
    BY <2>1, <1>1, <1>2, SmallKeys
  <2>3. KeyIs(Untimeout(To(g, "INITIAL")), "INITIAL", 0, 0, g.retransmits, g.nakloops)
    BY <2>2, <1>1, <1>2, SmallKeys
  <2>4. FsmLowerdown(g) = Untimeout(To(g, "INITIAL"))
    BY <1>5 DEF FsmLowerdown, Negotiating
  <2>5. Good(FsmLowerdown(g)) /\ FsmLowerdown(g).state = "INITIAL"
    BY <1>1, <2>3, <2>4, KeyGood DEF Timed, Negotiating
  <2> QED
    BY <1>5, <2>5 DEF Keeps, Shut, Bare, Negotiating
<1>6. CASE g.state \in Negotiating \cup {"STOPPING"}
  <2>1. KeyIs(g, g.state, 1, 0, g.retransmits, g.nakloops)
    BY <1>6, <1>1 DEF Timed, Negotiating
  <2>2. KeyIs(To(g, "STARTING"), "STARTING", 1, 0, g.retransmits, g.nakloops)
    BY <2>1, <1>1, <1>2, SmallKeys
  <2>3. KeyIs(Untimeout(To(g, "STARTING")), "STARTING", 0, 0, g.retransmits, g.nakloops)
    BY <2>2, <1>1, <1>2, SmallKeys
  <2>4. FsmLowerdown(g) = Untimeout(To(g, "STARTING"))
    BY <1>6 DEF FsmLowerdown, Negotiating
  <2>5. Good(FsmLowerdown(g)) /\ FsmLowerdown(g).state = "STARTING"
    BY <1>1, <2>3, <2>4, KeyGood DEF Timed, Negotiating
  <2> QED
    BY <1>6, <2>5 DEF Keeps, Shut, Bare, Negotiating
<1>7. CASE g.state = "OPENED"
  <2>1. KeyIs(g, "OPENED", 0, 1, g.retransmits, g.nakloops)
    BY <1>7, <1>1 DEF Timed, Negotiating
  <2>2. KeyIs(Down(g), "OPENED", 0, 0, g.retransmits, g.nakloops)
    BY <2>1, <1>1, <1>2, SmallKeys
  <2>3. KeyIs(To(Down(g), "STARTING"), "STARTING", 0, 0, g.retransmits, g.nakloops)
    BY <2>2, <1>1, <1>2, SmallKeys
  <2>4. FsmLowerdown(g) = To(Down(g), "STARTING")
    BY <1>7 DEF FsmLowerdown, Negotiating
  <2>5. Good(FsmLowerdown(g)) /\ FsmLowerdown(g).state = "STARTING"
    BY <1>1, <2>3, <2>4, KeyGood DEF Timed, Negotiating
  <2> QED
    BY <1>7, <2>5 DEF Keeps, Shut, Bare, Negotiating
<1>8. CASE g.state \in {"INITIAL", "STARTING"}
  BY <1>8 DEF FsmLowerdown, Keeps, Shut, Bare, Negotiating
<1> QED
  BY <1>1, <1>3, <1>4, <1>5, <1>6, <1>7, <1>8 DEF States, Negotiating

(* fsm_open's restart of a layer that is there already.                    *)
LEMMA RestartGood ==
  ASSUME NEW g, Good(g), g.state \notin Shut, g.state \notin Bare
  PROVE  LET h == Restart(g) IN
         /\ Good(h)
         /\ h.state \notin Shut
         /\ h.state \notin Bare
         /\ h.state = "OPENED" => g.state = "OPENED"
<1>1. CASE "restart" \in g.flags
  <2> DEFINE d == FsmLowerdown(g)
  <2>1. Good(d) /\ d.state = "STARTING"
    BY LowerdownGood
  <2>2. Restart(g) = FsmLowerup(d)
    BY <1>1 DEF Restart
  <2> HIDE DEF d
  <2> QED
    BY <2>1, <2>2, LowerupGood DEF Shut, Bare
<1>2. CASE "restart" \notin g.flags
  BY <1>2 DEF Restart
<1> QED
  BY <1>1, <1>2

(* fsm_open.                                                               *)
LEMMA OpenGood ==
  ASSUME NEW g, Good(g)
  PROVE  LET h == FsmOpen(g) IN
         /\ Good(h)
         /\ h.state \notin Shut
         /\ h.state \in Bare <=> g.state \in Bare
         /\ h.state = "OPENED" => g.state = "OPENED"
<1>1. /\ g.state \in States
      /\ g.retransmits \in 0..(MaxConfReqs + MaxTermReqs)
      /\ g.nakloops \in 0..MaxNakLoops
      /\ KeyIs(g, g.state, IF g.state \in Timed THEN 1 ELSE 0,
               IF g.state = "OPENED" THEN 1 ELSE 0, g.retransmits, g.nakloops)
  BY GoodKey
<1>2. /\ 0 \in Int /\ 1 \in Int
      /\ g.retransmits \in Int /\ g.nakloops \in Int
      /\ \A s \in {"INITIAL", "STARTING", "CLOSED", "STOPPED", "CLOSING", "STOPPING",
                   "REQSENT", "ACKRCVD", "ACKSENT", "OPENED"} : s \in States
  BY <1>1, FsmAssumption DEF States
<1>3. CASE g.state = "INITIAL"
  <2>1. KeyIs(g, "INITIAL", 0, 0, g.retransmits, g.nakloops)
    BY <1>3, <1>1 DEF Timed, Negotiating
  <2>2. KeyIs(To(g, "STARTING"), "STARTING", 0, 0, g.retransmits, g.nakloops)
    BY <2>1, <1>1, <1>2, SmallKeys
  <2>3. FsmOpen(g) = To(g, "STARTING")
    BY <1>3 DEF FsmOpen
  <2>4. Good(FsmOpen(g)) /\ FsmOpen(g).state = "STARTING"
    BY <1>1, <2>2, <2>3, KeyGood DEF Timed, Negotiating
  <2> QED
    BY <1>3, <2>4 DEF Keeps, Shut, Bare, Negotiating
<1>4. CASE g.state = "CLOSED" /\ "silent" \in g.flags
  <2>1. KeyIs(g, "CLOSED", 0, 0, g.retransmits, g.nakloops)
    BY <1>4, <1>1 DEF Timed, Negotiating
  <2>2. KeyIs(To(g, "STOPPED"), "STOPPED", 0, 0, g.retransmits, g.nakloops)
    BY <2>1, <1>1, <1>2, SmallKeys
  <2>3. FsmOpen(g) = To(g, "STOPPED")
    BY <1>4 DEF FsmOpen
  <2>4. Good(FsmOpen(g)) /\ FsmOpen(g).state = "STOPPED"
    BY <1>1, <2>2, <2>3, KeyGood DEF Timed, Negotiating
  <2> QED
    BY <1>4, <2>4 DEF Keeps, Shut, Bare, Negotiating
<1>5. CASE g.state = "CLOSED" /\ "silent" \notin g.flags
  <2>1. KeyIs(g, "CLOSED", 0, 0, g.retransmits, g.nakloops)
    BY <1>5, <1>1 DEF Timed, Negotiating
  <2>2. Good(Request(g)) /\ Request(g).state = "REQSENT"
    BY <2>1, <1>1, <1>2, RequestGood DEF KeyIs
  <2>3. FsmOpen(g) = Request(g)
    BY <1>5 DEF FsmOpen
  <2> QED
    BY <1>5, <2>2, <2>3 DEF Keeps, Shut, Bare, Negotiating
<1>6. CASE g.state = "CLOSING"
  <2> DEFINE d == To(g, "STOPPING")
  <2>1. KeyIs(g, "CLOSING", 1, 0, g.retransmits, g.nakloops)
    BY <1>6, <1>1 DEF Timed, Negotiating
  <2>2. KeyIs(d, "STOPPING", 1, 0, g.retransmits, g.nakloops)
    BY <2>1, <1>1, <1>2, SmallKeys
  <2>3. FsmOpen(g) = Restart(d)
    BY <1>6 DEF FsmOpen
  <2> HIDE DEF d
  <2>4. Good(d) /\ d.state = "STOPPING"
    BY <2>2, <1>1, KeyGood DEF Timed, Negotiating
  <2> QED
    BY <1>6, <2>3, <2>4, RestartGood DEF Shut, Bare
<1>7. CASE g.state \in {"STOPPED", "OPENED"}
  <2>1. FsmOpen(g) = Restart(g)
    BY <1>7 DEF FsmOpen
  <2> QED
    BY <1>7, <2>1, RestartGood DEF Shut, Bare
<1>8. CASE g.state \in Negotiating \cup {"STARTING", "STOPPING"}
  BY <1>8 DEF FsmOpen, Keeps, Shut, Bare, Negotiating
<1> QED
  BY <1>1, <1>3, <1>4, <1>5, <1>6, <1>7, <1>8 DEF States, Negotiating

(* terminate_layer, for both of its ways to end.                           *)
LEMMA TerminateGood ==
  ASSUME NEW g, Good(g), g.state \in Negotiating \cup {"OPENED"},
         NEW next \in {"CLOSING", "STOPPING"}
  PROVE  LET h == TerminateLayer(g, next) IN
         /\ Good(h)
         /\ h.state \in IF next = "CLOSING" THEN {"CLOSED", "CLOSING"}
                         ELSE {"STOPPED", "STOPPING"}
<1>1. /\ g.state \in States
      /\ g.retransmits \in 0..(MaxConfReqs + MaxTermReqs)
      /\ g.nakloops \in 0..MaxNakLoops
      /\ KeyIs(g, g.state, IF g.state \in Timed THEN 1 ELSE 0,
               IF g.state = "OPENED" THEN 1 ELSE 0, g.retransmits, g.nakloops)
  BY GoodKey
<1>2. /\ 0 \in Int /\ 1 \in Int
      /\ g.retransmits \in Int /\ g.nakloops \in Int
      /\ \A s \in {"INITIAL", "STARTING", "CLOSED", "STOPPED", "CLOSING", "STOPPING",
                   "REQSENT", "ACKRCVD", "ACKSENT", "OPENED"} : s \in States
  BY <1>1, FsmAssumption DEF States
<1> DEFINE quiet == IF g.state = "OPENED" THEN Down(g) ELSE Untimeout(g)
           posted == Sdata([quiet EXCEPT !.id = NextId(g), !.reqid = NextId(g)],
                           "TERMREQ", NextId(g), None)
           final == IF next = "CLOSING" THEN "CLOSED" ELSE "STOPPED"
<1>3. KeyIs(quiet, g.state, 0, 0, g.retransmits, g.nakloops)
  <2>1. CASE g.state = "OPENED"
    BY <1>1, <1>2, <2>1, SmallKeys DEF Timed, Negotiating
  <2>2. CASE g.state # "OPENED"
    BY <1>1, <1>2, <2>2, SmallKeys DEF Timed, Negotiating
  <2> QED
    BY <2>1, <2>2
<1> HIDE DEF quiet
<1>4. KeyIs(posted, g.state, 0, 0, g.retransmits, g.nakloops)
  <2>1. /\ NextId(g) \in Ids
        /\ "TERMREQ" \in Codes
        /\ None \in Kinds \cup {None}
    BY NextIdType DEF Good, Codes
  <2>2. KeyIs([quiet EXCEPT !.id = NextId(g), !.reqid = NextId(g)],
              g.state, 0, 0, g.retransmits, g.nakloops)
    BY <1>3, <2>1, PostedKeys
  <2> QED
    BY <2>1, <2>2, PostedKeys
<1> HIDE DEF posted
<1>5. next \in States /\ final \in States /\ MaxTermReqs \in Int /\ MaxTermReqs - 1 \in Int
  BY FsmAssumption DEF States
<1>6. CASE MaxTermReqs = 0
  <2> DEFINE h == Finished(To([posted EXCEPT !.retransmits = 0], final))
  <2>1. TerminateLayer(g, next) = h
    BY <1>6 DEF TerminateLayer, posted, quiet
  <2> HIDE DEF final
  <2>2. KeyIs([posted EXCEPT !.retransmits = 0], g.state, 0, 0, 0, g.nakloops)
    BY <1>1, <1>2, <1>4, SmallKeys
  <2>3. KeyIs(To([posted EXCEPT !.retransmits = 0], final), final, 0, 0, 0, g.nakloops)
    BY <1>1, <1>2, <1>5, <2>2, SmallKeys
  <2>4. KeyIs(h, final, 0, 0, 0, g.nakloops)
    BY <1>1, <1>2, <1>5, <2>3, SmallKeys
  <2> HIDE DEF h
  <2>5. 0 \in 0..(MaxConfReqs + MaxTermReqs)
    BY FsmAssumption
  <2> QED
    BY <1>1, <2>1, <2>4, <2>5, KeyGood DEF final, Timed, Negotiating
<1>7. CASE MaxTermReqs # 0
  <2> DEFINE h == To(Timeout([posted EXCEPT !.retransmits = MaxTermReqs - 1]), next)
  <2>1. TerminateLayer(g, next) = h
    BY <1>7 DEF TerminateLayer, posted, quiet
  <2>2. KeyIs([posted EXCEPT !.retransmits = MaxTermReqs - 1], g.state, 0, 0,
              MaxTermReqs - 1, g.nakloops)
    BY <1>1, <1>2, <1>4, <1>5, SmallKeys
  <2>3. KeyIs(Timeout([posted EXCEPT !.retransmits = MaxTermReqs - 1]), g.state, 1, 0,
              MaxTermReqs - 1, g.nakloops)
    BY <1>1, <1>2, <1>5, <2>2, SmallKeys
  <2>4. KeyIs(h, next, 1, 0, MaxTermReqs - 1, g.nakloops)
    BY <1>1, <1>2, <1>5, <2>3, SmallKeys
  <2> HIDE DEF h
  <2>5. MaxTermReqs - 1 \in 0..(MaxConfReqs + MaxTermReqs)
    BY <1>7, FsmAssumption
  <2> QED
    BY <1>1, <2>1, <2>4, <2>5, KeyGood DEF Timed, Negotiating
<1> QED
  BY <1>6, <1>7

(* fsm_close.                                                              *)
LEMMA CloseGood ==
  ASSUME NEW g, Good(g)
  PROVE  LET h == FsmClose(g) IN
         /\ Good(h)
         /\ h.state \in Shut
         /\ h.state \in Bare <=> g.state \in Bare
<1>1. /\ g.state \in States
      /\ g.retransmits \in 0..(MaxConfReqs + MaxTermReqs)
      /\ g.nakloops \in 0..MaxNakLoops
      /\ KeyIs(g, g.state, IF g.state \in Timed THEN 1 ELSE 0,
               IF g.state = "OPENED" THEN 1 ELSE 0, g.retransmits, g.nakloops)
  BY GoodKey
<1>2. /\ 0 \in Int /\ 1 \in Int
      /\ g.retransmits \in Int /\ g.nakloops \in Int
      /\ \A s \in {"INITIAL", "STARTING", "CLOSED", "STOPPED", "CLOSING", "STOPPING",
                   "REQSENT", "ACKRCVD", "ACKSENT", "OPENED"} : s \in States
  BY <1>1, FsmAssumption DEF States
<1>3. CASE g.state = "STARTING"
  <2>1. KeyIs(g, "STARTING", 0, 0, g.retransmits, g.nakloops)
    BY <1>3, <1>1 DEF Timed, Negotiating
  <2>2. KeyIs(To(g, "INITIAL"), "INITIAL", 0, 0, g.retransmits, g.nakloops)
    BY <2>1, <1>1, <1>2, SmallKeys
  <2>3. FsmClose(g) = To(g, "INITIAL")
    BY <1>3 DEF FsmClose, Negotiating
  <2>4. Good(FsmClose(g)) /\ FsmClose(g).state = "INITIAL"
    BY <1>1, <2>2, <2>3, KeyGood DEF Timed, Negotiating
  <2> QED
    BY <1>3, <2>4 DEF Keeps, Shut, Bare, Negotiating
<1>4. CASE g.state = "STOPPED"
  <2>1. KeyIs(g, "STOPPED", 0, 0, g.retransmits, g.nakloops)
    BY <1>4, <1>1 DEF Timed, Negotiating
  <2>2. KeyIs(To(g, "CLOSED"), "CLOSED", 0, 0, g.retransmits, g.nakloops)
    BY <2>1, <1>1, <1>2, SmallKeys
  <2>3. FsmClose(g) = To(g, "CLOSED")
    BY <1>4 DEF FsmClose, Negotiating
  <2>4. Good(FsmClose(g)) /\ FsmClose(g).state = "CLOSED"
    BY <1>1, <2>2, <2>3, KeyGood DEF Timed, Negotiating
  <2> QED
    BY <1>4, <2>4 DEF Keeps, Shut, Bare, Negotiating
<1>5. CASE g.state = "STOPPING"
  <2>1. KeyIs(g, "STOPPING", 1, 0, g.retransmits, g.nakloops)
    BY <1>5, <1>1 DEF Timed, Negotiating
  <2>2. KeyIs(To(g, "CLOSING"), "CLOSING", 1, 0, g.retransmits, g.nakloops)
    BY <2>1, <1>1, <1>2, SmallKeys
  <2>3. FsmClose(g) = To(g, "CLOSING")
    BY <1>5 DEF FsmClose, Negotiating
  <2>4. Good(FsmClose(g)) /\ FsmClose(g).state = "CLOSING"
    BY <1>1, <2>2, <2>3, KeyGood DEF Timed, Negotiating
  <2> QED
    BY <1>5, <2>4 DEF Keeps, Shut, Bare, Negotiating
<1>6. CASE g.state \in Negotiating \cup {"OPENED"}
  <2>1. FsmClose(g) = TerminateLayer(g, "CLOSING")
    BY <1>6 DEF FsmClose, Negotiating
  <2> QED
    BY <1>6, <2>1, TerminateGood DEF Shut, Bare, Negotiating
<1>7. CASE g.state \in {"INITIAL", "CLOSED", "CLOSING"}
  BY <1>7 DEF FsmClose, Keeps, Shut, Bare, Negotiating
<1> QED
  BY <1>1, <1>3, <1>4, <1>5, <1>6, <1>7 DEF States, Negotiating

(* fsm_timeout, called with its callout off the list.                      *)
LEMMA TimeoutGood ==
  ASSUME NEW g, Good(g), g.timers > 0
  PROVE  Keeps(g, FsmTimeout(g))
<1>1. /\ g.state \in States
      /\ g.retransmits \in 0..(MaxConfReqs + MaxTermReqs)
      /\ g.nakloops \in 0..MaxNakLoops
      /\ KeyIs(g, g.state, IF g.state \in Timed THEN 1 ELSE 0,
               IF g.state = "OPENED" THEN 1 ELSE 0, g.retransmits, g.nakloops)
  BY GoodKey
<1>2. /\ 0 \in Int /\ 1 \in Int
      /\ g.retransmits \in Int /\ g.nakloops \in Int
      /\ \A s \in {"INITIAL", "STARTING", "CLOSED", "STOPPED", "CLOSING", "STOPPING",
                   "REQSENT", "ACKRCVD", "ACKSENT", "OPENED"} : s \in States
  BY <1>1, FsmAssumption DEF States
<1> DEFINE e == Untimeout(g)
           h == TimedOut(e)
<1>3. g.state \in Timed
  BY <1>1 DEF KeyIs
<1>4. KeyIs(e, g.state, 0, 0, g.retransmits, g.nakloops)
  BY <1>1, <1>2, <1>3, SmallKeys DEF Timed, Negotiating
<1> HIDE DEF e
<1>5. e \in Recs /\ e.state = g.state /\ e.retransmits = g.retransmits
  BY <1>4 DEF KeyIs
<1>6. CASE g.state \in {"CLOSING", "STOPPING"} /\ g.retransmits <= 0
  <2> DEFINE z == IF g.state = "CLOSING" THEN "CLOSED" ELSE "STOPPED"
  <2>1. h = Finished(To(e, z))
    <3>1. h = TermreqTimeout(e)
      BY <1>5, <1>6 DEF TimedOut, Negotiating
    <3> HIDE DEF h
    <3> QED
      BY <1>2, <1>5, <1>6, <3>1 DEF TermreqTimeout
  <2>2. z \in States
    BY DEF States
  <2> HIDE DEF z, h
  <2>3. KeyIs(To(e, z), z, 0, 0, g.retransmits, g.nakloops)
    BY <1>1, <1>2, <1>4, <2>2, SmallKeys
  <2>4. KeyIs(h, z, 0, 0, g.retransmits, g.nakloops)
    BY <1>1, <1>2, <2>1, <2>2, <2>3, SmallKeys
  <2>5. Good(h) /\ h.state = z
    BY <1>1, <2>4, KeyGood DEF z, Timed, Negotiating
  <2> QED
    BY <1>6, <2>5 DEF Keeps, Shut, Bare, z, h, e, FsmTimeout
<1>7. CASE g.state \in {"CLOSING", "STOPPING"} /\ g.retransmits > 0
  <2> DEFINE i == [e EXCEPT !.id = NextId(e), !.reqid = NextId(e)]
             r == [i EXCEPT !.retransmits = e.retransmits - 1]
             d == Sdata(r, "TERMREQ", NextId(e), None)
  <2>1. h = Timeout(Sdata([e EXCEPT !.id = NextId(e), !.reqid = NextId(e),
                                    !.retransmits = e.retransmits - 1],
                          "TERMREQ", NextId(e), None))
    <3>1. h = TermreqTimeout(e)
      BY <1>5, <1>7 DEF TimedOut, Negotiating
    <3> HIDE DEF h
    <3> QED
      BY <1>2, <1>5, <1>7, <3>1 DEF TermreqTimeout
  <2>2. [e EXCEPT !.id = NextId(e), !.reqid = NextId(e),
                  !.retransmits = e.retransmits - 1] = r
    BY <1>5 DEF Recs
  <2>3. h = Timeout(d)
    BY <2>1, <2>2
  <2>4. NextId(e) \in Ids /\ "TERMREQ" \in Codes /\ None \in Kinds \cup {None}
    BY <1>5, NextIdType DEF Codes
  <2> HIDE DEF h
  <2>5. KeyIs(i, g.state, 0, 0, g.retransmits, g.nakloops)
    BY <1>4, <2>4, PostedKeys
  <2> HIDE DEF i
  <2>6. g.retransmits - 1 \in Int
    BY <1>2
  <2>7. KeyIs(r, g.state, 0, 0, g.retransmits - 1, g.nakloops)
    BY <1>1, <1>2, <1>5, <2>5, <2>6, SmallKeys
  <2> HIDE DEF r
  <2>8. KeyIs(d, g.state, 0, 0, g.retransmits - 1, g.nakloops)
    BY <2>4, <2>7, PostedKeys
  <2> HIDE DEF d
  <2>9. KeyIs(h, g.state, 1, 0, g.retransmits - 1, g.nakloops)
    BY <1>1, <1>2, <2>3, <2>6, <2>8, SmallKeys
  <2>10. g.retransmits - 1 \in 0..(MaxConfReqs + MaxTermReqs)
    BY <1>1, <1>7, FsmAssumption
  <2>11. Good(h) /\ h.state = g.state
    BY <1>1, <1>7, <2>9, <2>10, KeyGood DEF Timed, Negotiating
  <2> QED
    BY <2>11 DEF Keeps, h, e, FsmTimeout
<1>8. CASE g.state \in Negotiating /\ g.retransmits <= 0
  <2>1. h = To(e, "STOPPED") \/ h = Finished(To(e, "STOPPED"))
    <3>1. h = ConfreqTimeout(e)
      BY <1>5, <1>8 DEF TimedOut, Negotiating
    <3> HIDE DEF h
    <3> QED
      BY <1>2, <1>5, <1>8, <3>1 DEF ConfreqTimeout
  <2> HIDE DEF h
  <2>2. KeyIs(To(e, "STOPPED"), "STOPPED", 0, 0, g.retransmits, g.nakloops)
    BY <1>1, <1>2, <1>4, SmallKeys
  <2>3. KeyIs(Finished(To(e, "STOPPED")), "STOPPED", 0, 0, g.retransmits, g.nakloops)
    BY <1>1, <1>2, <2>2, SmallKeys
  <2>4. KeyIs(h, "STOPPED", 0, 0, g.retransmits, g.nakloops)
    BY <2>1, <2>2, <2>3
  <2>5. Good(h) /\ h.state = "STOPPED"
    BY <1>1, <2>4, KeyGood DEF Timed, Negotiating
  <2> QED
    BY <1>8, <2>5 DEF Keeps, Shut, Bare, Negotiating, h, e, FsmTimeout
<1>9. CASE g.state \in Negotiating /\ g.retransmits > 0
  <2> DEFINE s == Sconfreq(e, TRUE)
             z == IF g.state = "ACKRCVD" THEN "REQSENT" ELSE g.state
  <2>1. h = IF g.state = "ACKRCVD" THEN To(s, "REQSENT") ELSE s
    <3>1. h = ConfreqTimeout(e)
      BY <1>5, <1>9 DEF TimedOut, Negotiating
    <3> HIDE DEF h
    <3> QED
      <4>1. ~(e.retransmits <= 0)
        BY <1>2, <1>5, <1>9
      <4> QED
        BY <1>5, <3>1, <4>1 DEF ConfreqTimeout
  <2> HIDE DEF h
  <2>2. KeyIs(s, g.state, 1, 0, g.retransmits - 1, g.nakloops)
    <3>1. /\ s \in Recs
          /\ s.state = e.state
          /\ s.timers = e.timers + 1
          /\ s.up = e.up
          /\ s.retransmits = e.retransmits - 1
          /\ s.nakloops = IF e.state \in Negotiating THEN e.nakloops ELSE 0
      BY <1>5, SconfreqFields
    <3> HIDE DEF s
    <3> QED
      BY <1>4, <1>9, <3>1 DEF KeyIs
  <2> HIDE DEF s
  <2>3. g.retransmits - 1 \in Int
    BY <1>2
  <2>4. KeyIs(h, z, 1, 0, g.retransmits - 1, g.nakloops)
    BY <1>1, <1>2, <2>1, <2>2, <2>3, SmallKeys
  <2>5. g.retransmits - 1 \in 0..(MaxConfReqs + MaxTermReqs)
    BY <1>1, <1>9, FsmAssumption
  <2>6. z \in Negotiating
    BY <1>9 DEF Negotiating
  <2> HIDE DEF z
  <2>7. Good(h) /\ h.state = z
    BY <1>1, <2>4, <2>5, <2>6, KeyGood DEF Timed, Negotiating
  <2> QED
    BY <1>9, <2>6, <2>7 DEF Keeps, Shut, Bare, Negotiating, h, e, FsmTimeout
<1>10. g.retransmits \in Int
  BY <1>1
<1> QED
  BY <1>3, <1>6, <1>7, <1>8, <1>9, <1>10 DEF Timed

(* fsm_rconfreq, the end: only an answer that is no Ack counts as a loop.  *)
LEMMA AnsweredGood ==
  ASSUME NEW g, Good(g), g.state \in Negotiating,
         NEW code \in {"CONFACK", "CONFNAK", "CONFREJ"},
         code = "CONFNAK" => g.nakloops < MaxNakLoops
  PROVE  LET h == Answered(g, code) IN
         /\ Good(h)
         /\ h.state \in Negotiating \cup {"OPENED"}
<1>1. /\ g.state \in States
      /\ g.retransmits \in 0..(MaxConfReqs + MaxTermReqs)
      /\ g.nakloops \in 0..MaxNakLoops
      /\ KeyIs(g, g.state, IF g.state \in Timed THEN 1 ELSE 0,
               IF g.state = "OPENED" THEN 1 ELSE 0, g.retransmits, g.nakloops)
  BY GoodKey
<1>2. /\ 0 \in Int /\ 1 \in Int
      /\ g.retransmits \in Int /\ g.nakloops \in Int
      /\ \A s \in {"INITIAL", "STARTING", "CLOSED", "STOPPED", "CLOSING", "STOPPING",
                   "REQSENT", "ACKRCVD", "ACKSENT", "OPENED"} : s \in States
  BY <1>1, FsmAssumption DEF States
<1>3. KeyIs(g, g.state, 1, 0, g.retransmits, g.nakloops)
  BY <1>1 DEF Timed, Negotiating
<1> DEFINE h == Answered(g, code)
<1>4. CASE code = "CONFACK" /\ g.state = "ACKRCVD"
  <2>1. h = [Up(To(Untimeout(g), "OPENED")) EXCEPT !.nakloops = 0]
    BY <1>4 DEF Answered
  <2>2. KeyIs(Untimeout(g), g.state, 0, 0, g.retransmits, g.nakloops)
    BY <1>1, <1>2, <1>3, SmallKeys
  <2>3. KeyIs(To(Untimeout(g), "OPENED"), "OPENED", 0, 0, g.retransmits, g.nakloops)
    BY <1>1, <1>2, <2>2, SmallKeys
  <2>4. KeyIs(Up(To(Untimeout(g), "OPENED")), "OPENED", 0, 1, g.retransmits, g.nakloops)
    BY <1>1, <1>2, <2>3, SmallKeys
  <2> HIDE DEF h
  <2>5. KeyIs(h, "OPENED", 0, 1, g.retransmits, 0)
    BY <1>1, <1>2, <2>1, <2>4, SmallKeys
  <2>6. 0 \in 0..MaxNakLoops
    BY FsmAssumption
  <2> QED
    BY <1>1, <2>5, <2>6, KeyGood DEF Timed, Negotiating, h
<1>5. CASE code = "CONFACK" /\ g.state # "ACKRCVD"
  <2>1. h = [To(g, "ACKSENT") EXCEPT !.nakloops = 0]
    BY <1>5 DEF Answered
  <2>2. KeyIs(To(g, "ACKSENT"), "ACKSENT", 1, 0, g.retransmits, g.nakloops)
    BY <1>1, <1>2, <1>3, SmallKeys
  <2> HIDE DEF h
  <2>3. KeyIs(h, "ACKSENT", 1, 0, g.retransmits, 0)
    BY <1>1, <1>2, <2>1, <2>2, SmallKeys
  <2>4. 0 \in 0..MaxNakLoops
    BY FsmAssumption
  <2> QED
    BY <1>1, <2>3, <2>4, KeyGood DEF Timed, Negotiating, h
<1>6. CASE code # "CONFACK"
  <2> DEFINE z == IF g.state = "ACKRCVD" THEN "ACKRCVD" ELSE "REQSENT"
             t == To(g, z)
             k == IF code = "CONFNAK" THEN t.nakloops + 1 ELSE t.nakloops
  <2>1. h = [t EXCEPT !.nakloops = k]
    BY <1>6 DEF Answered
  <2>2. z \in States /\ z \in Negotiating
    BY DEF States, Negotiating
  <2> HIDE DEF z, h
  <2>3. KeyIs(t, z, 1, 0, g.retransmits, g.nakloops)
    BY <1>1, <1>2, <1>3, <2>2, SmallKeys
  <2> HIDE DEF t
  <2>4. t.nakloops = g.nakloops
    BY <2>3 DEF KeyIs
  <2>5. k \in 0..MaxNakLoops
    BY <1>1, <2>4, FsmAssumption
  <2> HIDE DEF k
  <2>6. KeyIs(h, z, 1, 0, g.retransmits, k)
    <3>1. k \in Int
      BY <2>5
    <3> QED
      BY <1>1, <1>2, <2>1, <2>2, <2>3, <3>1, SmallKeys
  <2> QED
    BY <1>1, <2>2, <2>5, <2>6, KeyGood DEF Timed, Negotiating, h
<1> QED
  BY <1>4, <1>5, <1>6

(* fsm_rconfreq, the answer.                                               *)
LEMMA AnswerGood ==
  ASSUME NEW g, Good(g), g.state \in Negotiating, NEW id \in Ids, NEW opt \in Kinds \cup {None}
  PROVE  LET h == AnswerConfreq(g, id, opt) IN
         /\ Good(h)
         /\ h.state \in Negotiating \cup {"OPENED"}
<1>1. /\ g.state \in States
      /\ g.retransmits \in 0..(MaxConfReqs + MaxTermReqs)
      /\ g.nakloops \in 0..MaxNakLoops
      /\ KeyIs(g, g.state, IF g.state \in Timed THEN 1 ELSE 0,
               IF g.state = "OPENED" THEN 1 ELSE 0, g.retransmits, g.nakloops)
  BY GoodKey
<1>2. /\ 0 \in Int /\ 1 \in Int
      /\ g.retransmits \in Int /\ g.nakloops \in Int
      /\ \A s \in {"INITIAL", "STARTING", "CLOSED", "STOPPED", "CLOSING", "STOPPING",
                   "REQSENT", "ACKRCVD", "ACKSENT", "OPENED"} : s \in States
  BY <1>1, FsmAssumption DEF States
<1> DEFINE b == g.nakloops >= MaxNakLoops
           a == ReqCi(g.ao, opt, b)
           x == IF a.code = "CONFACK" THEN opt ELSE None
           w == [g EXCEPT !.ho = x]
           d == Sdata(w, a.code, id, a.opt)
<1>3. g.ao = Allow /\ Allow \in SUBSET Kinds
  BY EnvAssumption DEF Good, Recs
<1>4. /\ a.code \in {"CONFACK", "CONFNAK", "CONFREJ"}
      /\ a.opt \in Kinds \cup {None}
      /\ a.code = "CONFACK" => opt \in Allow \cup {None}
      /\ a.code = "CONFNAK" => ~b
  <2>1. b \in BOOLEAN
    BY <1>1, FsmAssumption
  <2> HIDE DEF b
  <2> QED
    BY <1>3, <2>1, AnswerTypes
<1>5. AnswerConfreq(g, id, opt) = Answered(d, a.code)
  BY DEF AnswerConfreq
<1> HIDE DEF a
<1>6. x \in Allow \cup {None} /\ a.code \in Codes
  BY <1>4 DEF Codes
<1> HIDE DEF x
<1>7. KeyIs(w, g.state, 1, 0, g.retransmits, g.nakloops)
  <2>1. KeyIs(g, g.state, 1, 0, g.retransmits, g.nakloops)
    BY <1>1 DEF Timed, Negotiating
  <2> QED
    BY <1>6, <2>1, PostedKeys
<1> HIDE DEF w
<1>8. KeyIs(d, g.state, 1, 0, g.retransmits, g.nakloops)
  BY <1>4, <1>6, <1>7, PostedKeys
<1> HIDE DEF d
<1>9. Good(d) /\ d.state = g.state
  BY <1>1, <1>8, KeyGood DEF Timed, Negotiating
<1>10. d.nakloops = g.nakloops
  BY <1>8 DEF KeyIs
<1>11. a.code = "CONFNAK" => d.nakloops < MaxNakLoops
  BY <1>1, <1>4, <1>10, FsmAssumption
<1> QED
  BY <1>4, <1>5, <1>9, <1>11, AnsweredGood

(* fsm_rconfreq.                                                           *)
LEMMA RconfreqGood ==
  ASSUME NEW g, Good(g), g.state \notin Bare, NEW id \in Ids, NEW opt \in Kinds \cup {None}
  PROVE  Keeps(g, Rconfreq(g, id, opt))
<1>1. /\ g.state \in States
      /\ g.retransmits \in 0..(MaxConfReqs + MaxTermReqs)
      /\ g.nakloops \in 0..MaxNakLoops
      /\ KeyIs(g, g.state, IF g.state \in Timed THEN 1 ELSE 0,
               IF g.state = "OPENED" THEN 1 ELSE 0, g.retransmits, g.nakloops)
  BY GoodKey
<1>2. /\ 0 \in Int /\ 1 \in Int
      /\ g.retransmits \in Int /\ g.nakloops \in Int
      /\ \A s \in {"INITIAL", "STARTING", "CLOSED", "STOPPED", "CLOSING", "STOPPING",
                   "REQSENT", "ACKRCVD", "ACKSENT", "OPENED"} : s \in States
  BY <1>1, FsmAssumption DEF States
<1>3. /\ "TERMACK" \in Codes /\ "CODEREJ" \in Codes
      /\ None \in Kinds \cup {None}
      /\ MaxConfReqs \in Int
      /\ MaxConfReqs \in 0..(MaxConfReqs + MaxTermReqs)
      /\ 0 \in 0..(MaxConfReqs + MaxTermReqs)
  BY FsmAssumption DEF Codes
<1>4. CASE g.state = "CLOSED"
  <2>1. KeyIs(g, "CLOSED", 0, 0, g.retransmits, g.nakloops)
    BY <1>4, <1>1 DEF Timed, Negotiating
  <2>2. KeyIs(Sdata(g, "TERMACK", id, None), "CLOSED", 0, 0, g.retransmits, g.nakloops)
    BY <2>1, <1>3, PostedKeys
  <2>3. Rconfreq(g, id, opt) = Sdata(g, "TERMACK", id, None)
    BY <1>4 DEF Rconfreq
  <2>4. Good(Rconfreq(g, id, opt)) /\ Rconfreq(g, id, opt).state = "CLOSED"
    BY <1>1, <2>2, <2>3, KeyGood DEF Timed, Negotiating
  <2> QED
    BY <1>4, <2>4 DEF Keeps, Shut, Bare, Negotiating
<1>5. CASE g.state \in {"CLOSING", "STOPPING"}
  BY <1>5 DEF Rconfreq, Keeps, Shut, Bare, Negotiating
<1>6. CASE g.state = "OPENED"
  <2>1. KeyIs(g, "OPENED", 0, 1, g.retransmits, g.nakloops)
    BY <1>6, <1>1 DEF Timed, Negotiating
  <2>2. KeyIs(Down(g), "OPENED", 0, 0, g.retransmits, g.nakloops)
    BY <2>1, <1>1, <1>2, SmallKeys
  <2>3. Good(Request(Down(g))) /\ Request(Down(g)).state = "REQSENT"
    BY <2>2, <1>1, <1>2, RequestGood DEF KeyIs
  <2>4. Rconfreq(g, id, opt) = AnswerConfreq(Request(Down(g)), id, opt)
    BY <1>6 DEF Rconfreq
  <2> QED
    BY <1>6, <2>3, <2>4, AnswerGood DEF Keeps, Shut, Bare, Negotiating
<1>7. CASE g.state = "STOPPED"
  <2>1. KeyIs(g, "STOPPED", 0, 0, g.retransmits, g.nakloops)
    BY <1>7, <1>1 DEF Timed, Negotiating
  <2>2. Good(Request(g)) /\ Request(g).state = "REQSENT"
    BY <2>1, <1>1, <1>2, RequestGood DEF KeyIs
  <2>3. Rconfreq(g, id, opt) = AnswerConfreq(Request(g), id, opt)
    BY <1>7 DEF Rconfreq
  <2> QED
    BY <1>7, <2>2, <2>3, AnswerGood DEF Keeps, Shut, Bare, Negotiating
<1>8. CASE g.state \in Negotiating
  <2>1. Rconfreq(g, id, opt) = AnswerConfreq(g, id, opt)
    BY <1>8 DEF Rconfreq, Negotiating
  <2> QED
    BY <1>8, <2>1, AnswerGood DEF Keeps, Shut, Bare, Negotiating
<1> QED
  BY <1>1, <1>4, <1>5, <1>6, <1>7, <1>8 DEF States, Bare, Negotiating

(* fsm_rconfack, once the Ack was noted.                                   *)
LEMMA AckedGood ==
  ASSUME NEW g, Good(g), g.state \notin Bare, NEW id \in Ids
  PROVE  Keeps(g, Acked(g, id))
<1>1. /\ g.state \in States
      /\ g.retransmits \in 0..(MaxConfReqs + MaxTermReqs)
      /\ g.nakloops \in 0..MaxNakLoops
      /\ KeyIs(g, g.state, IF g.state \in Timed THEN 1 ELSE 0,
               IF g.state = "OPENED" THEN 1 ELSE 0, g.retransmits, g.nakloops)
  BY GoodKey
<1>2. /\ 0 \in Int /\ 1 \in Int
      /\ g.retransmits \in Int /\ g.nakloops \in Int
      /\ \A s \in {"INITIAL", "STARTING", "CLOSED", "STOPPED", "CLOSING", "STOPPING",
                   "REQSENT", "ACKRCVD", "ACKSENT", "OPENED"} : s \in States
  BY <1>1, FsmAssumption DEF States
<1>3. /\ "TERMACK" \in Codes /\ "CODEREJ" \in Codes
      /\ None \in Kinds \cup {None}
      /\ MaxConfReqs \in Int
      /\ MaxConfReqs \in 0..(MaxConfReqs + MaxTermReqs)
      /\ 0 \in 0..(MaxConfReqs + MaxTermReqs)
  BY FsmAssumption DEF Codes
<1>4. CASE g.state \in {"CLOSED", "STOPPED"}
  <2>1. KeyIs(g, g.state, 0, 0, g.retransmits, g.nakloops)
    BY <1>4, <1>1 DEF Timed, Negotiating
  <2>2. KeyIs(Sdata(g, "TERMACK", id, None), g.state, 0, 0, g.retransmits, g.nakloops)
    BY <2>1, <1>3, PostedKeys
  <2>3. Acked(g, id) = Sdata(g, "TERMACK", id, None)
    BY <1>4 DEF Acked
  <2>4. Good(Acked(g, id)) /\ Acked(g, id).state = g.state
    BY <1>1, <2>2, <2>3, KeyGood, <1>4 DEF Timed, Negotiating
  <2> QED
    BY <1>4, <2>4 DEF Keeps, Shut, Bare, Negotiating
<1>5. CASE g.state = "REQSENT"
  <2>1. KeyIs(g, "REQSENT", 1, 0, g.retransmits, g.nakloops)
    BY <1>5, <1>1 DEF Timed, Negotiating
  <2>2. KeyIs(To(g, "ACKRCVD"), "ACKRCVD", 1, 0, g.retransmits, g.nakloops)
    BY <2>1, <1>1, <1>2, SmallKeys
  <2>3. KeyIs([To(g, "ACKRCVD") EXCEPT !.retransmits = MaxConfReqs], "ACKRCVD", 1, 0, MaxConfReqs, g.nakloops)
    BY <2>2, <1>3, <1>1, <1>2, SmallKeys
  <2>4. Acked(g, id) = [To(g, "ACKRCVD") EXCEPT !.retransmits = MaxConfReqs]
    BY <1>5 DEF Acked
  <2>5. Good(Acked(g, id)) /\ Acked(g, id).state = "ACKRCVD"
    BY <1>1, <2>3, <2>4, KeyGood, <1>3, ZenonT(45) DEF Timed, Negotiating
  <2> QED
    BY <1>5, <2>5 DEF Keeps, Shut, Bare, Negotiating
<1>6. CASE g.state = "ACKRCVD"
  <2>1. KeyIs(g, "ACKRCVD", 1, 0, g.retransmits, g.nakloops)
    BY <1>6, <1>1 DEF Timed, Negotiating
  <2>2. KeyIs(Untimeout(g), "ACKRCVD", 0, 0, g.retransmits, g.nakloops)
    BY <2>1, <1>1, <1>2, SmallKeys
  <2>3. Good(Request(Untimeout(g))) /\ Request(Untimeout(g)).state = "REQSENT"
    BY <2>2, <1>1, <1>2, RequestGood DEF KeyIs
  <2>4. Acked(g, id) = Request(Untimeout(g))
    BY <1>6 DEF Acked
  <2> QED
    BY <1>6, <2>3, <2>4 DEF Keeps, Shut, Bare, Negotiating
<1>7. CASE g.state = "ACKSENT"
  <2>1. KeyIs(g, "ACKSENT", 1, 0, g.retransmits, g.nakloops)
    BY <1>7, <1>1 DEF Timed, Negotiating
  <2>2. KeyIs(Untimeout(g), "ACKSENT", 0, 0, g.retransmits, g.nakloops)
    BY <2>1, <1>1, <1>2, SmallKeys
  <2>3. KeyIs(To(Untimeout(g), "OPENED"), "OPENED", 0, 0, g.retransmits, g.nakloops)
    BY <2>2, <1>1, <1>2, SmallKeys
  <2>4. KeyIs([To(Untimeout(g), "OPENED") EXCEPT !.retransmits = MaxConfReqs], "OPENED", 0, 0, MaxConfReqs, g.nakloops)
    BY <2>3, <1>3, <1>1, <1>2, SmallKeys
  <2>5. KeyIs(Up([To(Untimeout(g), "OPENED") EXCEPT !.retransmits = MaxConfReqs]), "OPENED", 0, 1, MaxConfReqs, g.nakloops)
    BY <2>4, <1>3, <1>1, <1>2, SmallKeys
  <2>6. Acked(g, id) = Up([To(Untimeout(g), "OPENED") EXCEPT !.retransmits = MaxConfReqs])
    BY <1>7 DEF Acked
  <2>7. Good(Acked(g, id)) /\ Acked(g, id).state = "OPENED"
    BY <1>1, <2>5, <2>6, KeyGood, <1>3 DEF Timed, Negotiating
  <2> QED
    BY <1>7, <2>7 DEF Keeps, Shut, Bare, Negotiating
<1>8. CASE g.state = "OPENED"
  <2>1. KeyIs(g, "OPENED", 0, 1, g.retransmits, g.nakloops)
    BY <1>8, <1>1 DEF Timed, Negotiating
  <2>2. KeyIs(Down(g), "OPENED", 0, 0, g.retransmits, g.nakloops)
    BY <2>1, <1>1, <1>2, SmallKeys
  <2>3. Good(Request(Down(g))) /\ Request(Down(g)).state = "REQSENT"
    BY <2>2, <1>1, <1>2, RequestGood DEF KeyIs
  <2>4. Acked(g, id) = Request(Down(g))
    BY <1>8 DEF Acked
  <2> QED
    BY <1>8, <2>3, <2>4 DEF Keeps, Shut, Bare, Negotiating
<1>9. CASE g.state \in {"CLOSING", "STOPPING"}
  BY <1>9 DEF Acked, Keeps, Shut, Bare, Negotiating
<1> QED
  BY <1>1, <1>4, <1>5, <1>6, <1>7, <1>8, <1>9 DEF States, Bare

(* fsm_rconfnakrej, once the answer was noted.                             *)
LEMMA RefusedGood ==
  ASSUME NEW g, Good(g), g.state \notin Bare, NEW id \in Ids
  PROVE  Keeps(g, Refused(g, id))
<1>1. /\ g.state \in States
      /\ g.retransmits \in 0..(MaxConfReqs + MaxTermReqs)
      /\ g.nakloops \in 0..MaxNakLoops
      /\ KeyIs(g, g.state, IF g.state \in Timed THEN 1 ELSE 0,
               IF g.state = "OPENED" THEN 1 ELSE 0, g.retransmits, g.nakloops)
  BY GoodKey
<1>2. /\ 0 \in Int /\ 1 \in Int
      /\ g.retransmits \in Int /\ g.nakloops \in Int
      /\ \A s \in {"INITIAL", "STARTING", "CLOSED", "STOPPED", "CLOSING", "STOPPING",
                   "REQSENT", "ACKRCVD", "ACKSENT", "OPENED"} : s \in States
  BY <1>1, FsmAssumption DEF States
<1>3. /\ "TERMACK" \in Codes /\ "CODEREJ" \in Codes
      /\ None \in Kinds \cup {None}
      /\ MaxConfReqs \in Int
      /\ MaxConfReqs \in 0..(MaxConfReqs + MaxTermReqs)
      /\ 0 \in 0..(MaxConfReqs + MaxTermReqs)
  BY FsmAssumption DEF Codes
<1>4. CASE g.state \in {"CLOSED", "STOPPED"}
  <2>1. KeyIs(g, g.state, 0, 0, g.retransmits, g.nakloops)
    BY <1>4, <1>1 DEF Timed, Negotiating
  <2>2. KeyIs(Sdata(g, "TERMACK", id, None), g.state, 0, 0, g.retransmits, g.nakloops)
    BY <2>1, <1>3, PostedKeys
  <2>3. Refused(g, id) = Sdata(g, "TERMACK", id, None)
    BY <1>4 DEF Refused
  <2>4. Good(Refused(g, id)) /\ Refused(g, id).state = g.state
    BY <1>1, <2>2, <2>3, KeyGood, <1>4 DEF Timed, Negotiating
  <2> QED
    BY <1>4, <2>4 DEF Keeps, Shut, Bare, Negotiating
<1>5. CASE g.state \in {"REQSENT", "ACKSENT"}
  <2> DEFINE e == Untimeout(g)
             s == Sconfreq(e, FALSE)
  <2>1. KeyIs(g, g.state, 1, 0, g.retransmits, g.nakloops)
    BY <1>5, <1>1 DEF Timed, Negotiating
  <2>2. KeyIs(e, g.state, 0, 0, g.retransmits, g.nakloops)
    BY <2>1, <1>1, <1>2, SmallKeys
  <2> HIDE DEF e
  <2>3. KeyIs(s, g.state, 1, 0, MaxConfReqs - 1, g.nakloops)
    <3>1. e \in Recs
      BY <2>2 DEF KeyIs
    <3>2. /\ s \in Recs
          /\ s.state = e.state
          /\ s.timers = e.timers + 1
          /\ s.up = e.up
          /\ s.retransmits = MaxConfReqs - 1
          /\ s.nakloops = IF e.state \in Negotiating THEN e.nakloops ELSE 0
      BY <3>1, SconfreqFields
    <3> HIDE DEF s
    <3> QED
      BY <1>5, <2>2, <3>2 DEF KeyIs, Negotiating
  <2>4. Refused(g, id) = s
    BY <1>5 DEF Refused, e
  <2> HIDE DEF s
  <2>5. MaxConfReqs - 1 \in 0..(MaxConfReqs + MaxTermReqs)
    BY FsmAssumption
  <2>6. Good(s) /\ s.state = g.state
    BY <1>1, <1>5, <2>3, <2>5, KeyGood DEF Timed, Negotiating
  <2> QED
    BY <2>4, <2>6 DEF Keeps
<1>6. CASE g.state = "ACKRCVD"
  <2>1. KeyIs(g, "ACKRCVD", 1, 0, g.retransmits, g.nakloops)
    BY <1>6, <1>1 DEF Timed, Negotiating
  <2>2. KeyIs(Untimeout(g), "ACKRCVD", 0, 0, g.retransmits, g.nakloops)
    BY <2>1, <1>1, <1>2, SmallKeys
  <2>3. Good(Request(Untimeout(g))) /\ Request(Untimeout(g)).state = "REQSENT"
    BY <2>2, <1>1, <1>2, RequestGood DEF KeyIs
  <2>4. Refused(g, id) = Request(Untimeout(g))
    BY <1>6 DEF Refused
  <2> QED
    BY <1>6, <2>3, <2>4 DEF Keeps, Shut, Bare, Negotiating
<1>7. CASE g.state = "OPENED"
  <2>1. KeyIs(g, "OPENED", 0, 1, g.retransmits, g.nakloops)
    BY <1>7, <1>1 DEF Timed, Negotiating
  <2>2. KeyIs(Down(g), "OPENED", 0, 0, g.retransmits, g.nakloops)
    BY <2>1, <1>1, <1>2, SmallKeys
  <2>3. Good(Request(Down(g))) /\ Request(Down(g)).state = "REQSENT"
    BY <2>2, <1>1, <1>2, RequestGood DEF KeyIs
  <2>4. Refused(g, id) = Request(Down(g))
    BY <1>7 DEF Refused
  <2> QED
    BY <1>7, <2>3, <2>4 DEF Keeps, Shut, Bare, Negotiating
<1>8. CASE g.state \in {"CLOSING", "STOPPING"}
  BY <1>8 DEF Refused, Keeps, Shut, Bare, Negotiating
<1> QED
  BY <1>1, <1>4, <1>5, <1>6, <1>7, <1>8 DEF States, Bare

(* Noting an answer changes nothing the invariant is about.                *)
LEMMA SeenGood ==
  ASSUME NEW g, Good(g), NEW x \in SUBSET Kinds
  PROVE  LET a == [g EXCEPT !.seenAck = TRUE]
             r == [g EXCEPT !.seenAck = TRUE, !.go = x]
         IN /\ Good(a) /\ a.state = g.state
            /\ Good(r) /\ r.state = g.state
<1> DEFINE t == IF g.state \in Timed THEN 1 ELSE 0
           u == IF g.state = "OPENED" THEN 1 ELSE 0
           a == [g EXCEPT !.seenAck = TRUE]
           r == [g EXCEPT !.seenAck = TRUE, !.go = x]
<1>1. /\ g.retransmits \in 0..(MaxConfReqs + MaxTermReqs)
      /\ g.nakloops \in 0..MaxNakLoops
      /\ KeyIs(g, g.state, t, u, g.retransmits, g.nakloops)
  BY GoodKey
<1>2. /\ KeyIs(a, g.state, t, u, g.retransmits, g.nakloops)
      /\ KeyIs(r, g.state, t, u, g.retransmits, g.nakloops)
  BY <1>1, SeenKeys
<1> HIDE DEF a, r
<1>3. Good(a) /\ a.state = g.state
  BY <1>1, <1>2, KeyGood
<1>4. Good(r) /\ r.state = g.state
  BY <1>1, <1>2, KeyGood
<1> QED
  BY <1>3, <1>4 DEF a, r

(* fsm_rconfack.                                                           *)
LEMMA RconfackGood ==
  ASSUME NEW g, Good(g), g.state \notin Bare, NEW id \in Ids, NEW opt \in Kinds \cup {None}
  PROVE  Keeps(g, Rconfack(g, id, opt))
<1> DEFINE a == [g EXCEPT !.seenAck = TRUE]
<1>1. Rconfack(g, id, opt) = Acked(a, id) \/ Rconfack(g, id, opt) = g
  BY DEF Rconfack
<1>2. Good(a) /\ a.state = g.state
  BY SeenGood
<1> HIDE DEF a
<1>3. Keeps(g, Acked(a, id))
  BY <1>2, AckedGood DEF Keeps
<1>4. Keeps(g, g)
  BY DEF Keeps
<1> QED
  BY <1>1, <1>3, <1>4

(* fsm_rconfnakrej.                                                        *)
LEMMA RconfnakrejGood ==
  ASSUME NEW g, Good(g), g.state \notin Bare, NEW code,
         NEW id \in Ids, NEW opt \in Kinds \cup {None}
  PROVE  Keeps(g, Rconfnakrej(g, code, id, opt))
<1> DEFINE less == IF code = "CONFNAK" THEN NakCi(g.go, opt) ELSE RejCi(g.go, opt)
           x == IF g.state = "OPENED" THEN g.go ELSE less
           r == [g EXCEPT !.seenAck = TRUE, !.go = x]
           h == Rconfnakrej(g, code, id, opt)
<1>1. h = Refused(r, id) \/ h = g
  BY DEF Rconfnakrej
<1>2. g.go \in SUBSET Kinds
  BY DEF Good, Recs
<1>3. x \in SUBSET Kinds
  BY <1>2, OptionTypes
<1> HIDE DEF x, h
<1>4. Good(r) /\ r.state = g.state
  BY <1>3, SeenGood
<1> HIDE DEF r
<1>5. Keeps(g, Refused(r, id))
  BY <1>4, RefusedGood DEF Keeps
<1>6. Keeps(g, g)
  BY DEF Keeps
<1> QED
  BY <1>1, <1>5, <1>6 DEF h

(* fsm_rtermreq, before the acknowledgement.                               *)
LEMMA TermreqSeenGood ==
  ASSUME NEW g, Good(g), g.state \notin Bare
  PROVE  Keeps(g, TermreqSeen(g))
<1>1. /\ g.state \in States
      /\ g.retransmits \in 0..(MaxConfReqs + MaxTermReqs)
      /\ g.nakloops \in 0..MaxNakLoops
      /\ KeyIs(g, g.state, IF g.state \in Timed THEN 1 ELSE 0,
               IF g.state = "OPENED" THEN 1 ELSE 0, g.retransmits, g.nakloops)
  BY GoodKey
<1>2. /\ 0 \in Int /\ 1 \in Int
      /\ g.retransmits \in Int /\ g.nakloops \in Int
      /\ \A s \in {"INITIAL", "STARTING", "CLOSED", "STOPPED", "CLOSING", "STOPPING",
                   "REQSENT", "ACKRCVD", "ACKSENT", "OPENED"} : s \in States
  BY <1>1, FsmAssumption DEF States
<1>3. /\ "TERMACK" \in Codes /\ "CODEREJ" \in Codes
      /\ None \in Kinds \cup {None}
      /\ MaxConfReqs \in Int
      /\ MaxConfReqs \in 0..(MaxConfReqs + MaxTermReqs)
      /\ 0 \in 0..(MaxConfReqs + MaxTermReqs)
  BY FsmAssumption DEF Codes
<1>4. CASE g.state \in {"ACKRCVD", "ACKSENT"}
  <2>1. KeyIs(g, g.state, 1, 0, g.retransmits, g.nakloops)
    BY <1>4, <1>1 DEF Timed, Negotiating
  <2>2. KeyIs(To(g, "REQSENT"), "REQSENT", 1, 0, g.retransmits, g.nakloops)
    BY <2>1, <1>1, <1>2, SmallKeys
  <2>3. TermreqSeen(g) = To(g, "REQSENT")
    BY <1>4 DEF TermreqSeen
  <2>4. Good(TermreqSeen(g)) /\ TermreqSeen(g).state = "REQSENT"
    BY <1>1, <2>2, <2>3, KeyGood DEF Timed, Negotiating
  <2> QED
    BY <1>4, <2>4 DEF Keeps, Shut, Bare, Negotiating
<1>5. CASE g.state = "OPENED"
  <2>1. KeyIs(g, "OPENED", 0, 1, g.retransmits, g.nakloops)
    BY <1>5, <1>1 DEF Timed, Negotiating
  <2>2. KeyIs([g EXCEPT !.retransmits = 0], "OPENED", 0, 1, 0, g.nakloops)
    BY <2>1, <1>1, <1>2, SmallKeys
  <2>3. KeyIs(To([g EXCEPT !.retransmits = 0], "STOPPING"), "STOPPING", 0, 1, 0, g.nakloops)
    BY <2>2, <1>1, <1>2, SmallKeys
  <2>4. KeyIs(Down(To([g EXCEPT !.retransmits = 0], "STOPPING")), "STOPPING", 0, 0, 0, g.nakloops)
    BY <2>3, <1>1, <1>2, SmallKeys
  <2>5. KeyIs(Timeout(Down(To([g EXCEPT !.retransmits = 0], "STOPPING"))), "STOPPING", 1, 0, 0, g.nakloops)
    BY <2>4, <1>1, <1>2, SmallKeys
  <2>6. TermreqSeen(g) = Timeout(Down(To([g EXCEPT !.retransmits = 0], "STOPPING")))
    BY <1>5 DEF TermreqSeen
  <2>7. Good(TermreqSeen(g)) /\ TermreqSeen(g).state = "STOPPING"
    BY <1>1, <2>5, <2>6, KeyGood, <1>3 DEF Timed, Negotiating
  <2> QED
    BY <1>5, <2>7 DEF Keeps, Shut, Bare, Negotiating
<1>6. CASE g.state \notin {"ACKRCVD", "ACKSENT", "OPENED"}
  BY <1>6 DEF TermreqSeen, Keeps, Shut, Bare, Negotiating
<1> QED
  BY <1>4, <1>5, <1>6

(* A packet sent changes nothing the invariant is about.                   *)
LEMMA SdataGood ==
  ASSUME NEW g, Good(g), NEW code \in Codes, NEW id \in Ids,
         NEW opt \in Kinds \cup {None}
  PROVE  /\ Good(Sdata(g, code, id, opt))
         /\ Sdata(g, code, id, opt).state = g.state
<1> DEFINE t == IF g.state \in Timed THEN 1 ELSE 0
           u == IF g.state = "OPENED" THEN 1 ELSE 0
<1>1. /\ g.retransmits \in 0..(MaxConfReqs + MaxTermReqs)
      /\ g.nakloops \in 0..MaxNakLoops
      /\ KeyIs(g, g.state, t, u, g.retransmits, g.nakloops)
  BY GoodKey
<1>2. KeyIs(Sdata(g, code, id, opt), g.state, t, u, g.retransmits, g.nakloops)
  BY <1>1, PostedKeys
<1> QED
  BY <1>1, <1>2, KeyGood

(* fsm_rtermreq.                                                           *)
LEMMA RtermreqGood ==
  ASSUME NEW g, Good(g), g.state \notin Bare, NEW id \in Ids
  PROVE  Keeps(g, Rtermreq(g, id))
<1> DEFINE t == TermreqSeen(g)
<1>1. Keeps(g, t)
  BY TermreqSeenGood
<1>2. "TERMACK" \in Codes /\ None \in Kinds \cup {None}
  BY DEF Codes
<1>3. Rtermreq(g, id) = Sdata(t, "TERMACK", id, None)
  BY DEF Rtermreq
<1> HIDE DEF t
<1>4. Good(t)
  BY <1>1 DEF Keeps
<1> QED
  BY <1>1, <1>2, <1>3, <1>4, SdataGood DEF Keeps

(* fsm_rtermack.                                                           *)
LEMMA RtermackGood ==
  ASSUME NEW g, Good(g), g.state \notin Bare
  PROVE  Keeps(g, Rtermack(g))
<1>1. /\ g.state \in States
      /\ g.retransmits \in 0..(MaxConfReqs + MaxTermReqs)
      /\ g.nakloops \in 0..MaxNakLoops
      /\ KeyIs(g, g.state, IF g.state \in Timed THEN 1 ELSE 0,
               IF g.state = "OPENED" THEN 1 ELSE 0, g.retransmits, g.nakloops)
  BY GoodKey
<1>2. /\ 0 \in Int /\ 1 \in Int
      /\ g.retransmits \in Int /\ g.nakloops \in Int
      /\ \A s \in {"INITIAL", "STARTING", "CLOSED", "STOPPED", "CLOSING", "STOPPING",
                   "REQSENT", "ACKRCVD", "ACKSENT", "OPENED"} : s \in States
  BY <1>1, FsmAssumption DEF States
<1>3. CASE g.state = "CLOSING"
  <2>1. KeyIs(g, "CLOSING", 1, 0, g.retransmits, g.nakloops)
    BY <1>3, <1>1 DEF Timed, Negotiating
  <2>2. KeyIs(Untimeout(g), "CLOSING", 0, 0, g.retransmits, g.nakloops)
    BY <2>1, <1>1, <1>2, SmallKeys
  <2>3. KeyIs(To(Untimeout(g), "CLOSED"), "CLOSED", 0, 0, g.retransmits, g.nakloops)
    BY <2>2, <1>1, <1>2, SmallKeys
  <2>4. KeyIs(Finished(To(Untimeout(g), "CLOSED")), "CLOSED", 0, 0, g.retransmits, g.nakloops)
    BY <2>3, <1>1, <1>2, SmallKeys
  <2>5. Rtermack(g) = Finished(To(Untimeout(g), "CLOSED"))
    BY <1>3 DEF Rtermack
  <2>6. Good(Rtermack(g)) /\ Rtermack(g).state = "CLOSED"
    BY <1>1, <2>4, <2>5, KeyGood DEF Timed, Negotiating
  <2> QED
    BY <1>3, <2>6 DEF Keeps, Shut, Bare, Negotiating
<1>4. CASE g.state = "STOPPING"
  <2>1. KeyIs(g, "STOPPING", 1, 0, g.retransmits, g.nakloops)
    BY <1>4, <1>1 DEF Timed, Negotiating
  <2>2. KeyIs(Untimeout(g), "STOPPING", 0, 0, g.retransmits, g.nakloops)
    BY <2>1, <1>1, <1>2, SmallKeys
  <2>3. KeyIs(To(Untimeout(g), "STOPPED"), "STOPPED", 0, 0, g.retransmits, g.nakloops)
    BY <2>2, <1>1, <1>2, SmallKeys
  <2>4. KeyIs(Finished(To(Untimeout(g), "STOPPED")), "STOPPED", 0, 0, g.retransmits, g.nakloops)
    BY <2>3, <1>1, <1>2, SmallKeys
  <2>5. Rtermack(g) = Finished(To(Untimeout(g), "STOPPED"))
    BY <1>4 DEF Rtermack
  <2>6. Good(Rtermack(g)) /\ Rtermack(g).state = "STOPPED"
    BY <1>1, <2>4, <2>5, KeyGood DEF Timed, Negotiating
  <2> QED
    BY <1>4, <2>6 DEF Keeps, Shut, Bare, Negotiating
<1>5. CASE g.state = "ACKRCVD"
  <2>1. KeyIs(g, "ACKRCVD", 1, 0, g.retransmits, g.nakloops)
    BY <1>5, <1>1 DEF Timed, Negotiating
  <2>2. KeyIs(To(g, "REQSENT"), "REQSENT", 1, 0, g.retransmits, g.nakloops)
    BY <2>1, <1>1, <1>2, SmallKeys
  <2>3. Rtermack(g) = To(g, "REQSENT")
    BY <1>5 DEF Rtermack
  <2>4. Good(Rtermack(g)) /\ Rtermack(g).state = "REQSENT"
    BY <1>1, <2>2, <2>3, KeyGood DEF Timed, Negotiating
  <2> QED
    BY <1>5, <2>4 DEF Keeps, Shut, Bare, Negotiating
<1>6. CASE g.state = "OPENED"
  <2>1. KeyIs(g, "OPENED", 0, 1, g.retransmits, g.nakloops)
    BY <1>6, <1>1 DEF Timed, Negotiating
  <2>2. KeyIs(Down(g), "OPENED", 0, 0, g.retransmits, g.nakloops)
    BY <2>1, <1>1, <1>2, SmallKeys
  <2>3. Good(Request(Down(g))) /\ Request(Down(g)).state = "REQSENT"
    BY <2>2, <1>1, <1>2, RequestGood DEF KeyIs
  <2>4. Rtermack(g) = Request(Down(g))
    BY <1>6 DEF Rtermack
  <2> QED
    BY <1>6, <2>3, <2>4 DEF Keeps, Shut, Bare, Negotiating
<1>7. CASE g.state \notin {"CLOSING", "STOPPING", "ACKRCVD", "OPENED"}
  BY <1>7 DEF Rtermack, Keeps, Shut, Bare, Negotiating
<1> QED
  BY <1>3, <1>4, <1>5, <1>6, <1>7

(* fsm_rcoderej.                                                           *)
LEMMA RcoderejGood ==
  ASSUME NEW g, Good(g), g.state \notin Bare
  PROVE  Keeps(g, Rcoderej(g))
<1>1. /\ g.state \in States
      /\ g.retransmits \in 0..(MaxConfReqs + MaxTermReqs)
      /\ g.nakloops \in 0..MaxNakLoops
      /\ KeyIs(g, g.state, IF g.state \in Timed THEN 1 ELSE 0,
               IF g.state = "OPENED" THEN 1 ELSE 0, g.retransmits, g.nakloops)
  BY GoodKey
<1>2. /\ 0 \in Int /\ 1 \in Int
      /\ g.retransmits \in Int /\ g.nakloops \in Int
      /\ \A s \in {"INITIAL", "STARTING", "CLOSED", "STOPPED", "CLOSING", "STOPPING",
                   "REQSENT", "ACKRCVD", "ACKSENT", "OPENED"} : s \in States
  BY <1>1, FsmAssumption DEF States
<1>3. CASE g.state = "ACKRCVD"
  <2>1. KeyIs(g, "ACKRCVD", 1, 0, g.retransmits, g.nakloops)
    BY <1>3, <1>1 DEF Timed, Negotiating
  <2>2. KeyIs(To(g, "REQSENT"), "REQSENT", 1, 0, g.retransmits, g.nakloops)
    BY <2>1, <1>1, <1>2, SmallKeys
  <2>3. Rcoderej(g) = To(g, "REQSENT")
    BY <1>3 DEF Rcoderej
  <2>4. Good(Rcoderej(g)) /\ Rcoderej(g).state = "REQSENT"
    BY <1>1, <2>2, <2>3, KeyGood DEF Timed, Negotiating
  <2> QED
    BY <1>3, <2>4 DEF Keeps, Shut, Bare, Negotiating
<1>4. CASE g.state # "ACKRCVD"
  BY <1>4 DEF Rcoderej, Keeps, Shut, Bare, Negotiating
<1> QED
  BY <1>3, <1>4

(* fsm_protreject.                                                         *)
LEMMA ProtrejectGood ==
  ASSUME NEW g, Good(g)
  PROVE  Keeps(g, FsmProtreject(g))
<1>1. /\ g.state \in States
      /\ g.retransmits \in 0..(MaxConfReqs + MaxTermReqs)
      /\ g.nakloops \in 0..MaxNakLoops
      /\ KeyIs(g, g.state, IF g.state \in Timed THEN 1 ELSE 0,
               IF g.state = "OPENED" THEN 1 ELSE 0, g.retransmits, g.nakloops)
  BY GoodKey
<1>2. /\ 0 \in Int /\ 1 \in Int
      /\ g.retransmits \in Int /\ g.nakloops \in Int
      /\ \A s \in {"INITIAL", "STARTING", "CLOSED", "STOPPED", "CLOSING", "STOPPING",
                   "REQSENT", "ACKRCVD", "ACKSENT", "OPENED"} : s \in States
  BY <1>1, FsmAssumption DEF States
<1>3. CASE g.state = "CLOSING"
  <2>1. KeyIs(g, "CLOSING", 1, 0, g.retransmits, g.nakloops)
    BY <1>3, <1>1 DEF Timed, Negotiating
  <2>2. KeyIs(Untimeout(g), "CLOSING", 0, 0, g.retransmits, g.nakloops)
    BY <2>1, <1>1, <1>2, SmallKeys
  <2>3. KeyIs(To(Untimeout(g), "CLOSED"), "CLOSED", 0, 0, g.retransmits, g.nakloops)
    BY <2>2, <1>1, <1>2, SmallKeys
  <2>4. KeyIs(Finished(To(Untimeout(g), "CLOSED")), "CLOSED", 0, 0, g.retransmits, g.nakloops)
    BY <2>3, <1>1, <1>2, SmallKeys
  <2>5. FsmProtreject(g) = Finished(To(Untimeout(g), "CLOSED"))
    BY <1>3 DEF FsmProtreject, Negotiating
  <2>6. Good(FsmProtreject(g)) /\ FsmProtreject(g).state = "CLOSED"
    BY <1>1, <2>4, <2>5, KeyGood DEF Timed, Negotiating
  <2> QED
    BY <1>3, <2>6 DEF Keeps, Shut, Bare, Negotiating
<1>4. CASE g.state \in {"CLOSED", "STOPPED"}
  <2>1. KeyIs(g, g.state, 0, 0, g.retransmits, g.nakloops)
    BY <1>4, <1>1 DEF Timed, Negotiating
  <2>2. KeyIs(Finished(g), g.state, 0, 0, g.retransmits, g.nakloops)
    BY <2>1, <1>1, <1>2, SmallKeys
  <2>3. FsmProtreject(g) = Finished(g)
    BY <1>4 DEF FsmProtreject, Negotiating
  <2>4. Good(FsmProtreject(g)) /\ FsmProtreject(g).state = g.state
    BY <1>1, <2>2, <2>3, KeyGood, <1>4 DEF Timed, Negotiating
  <2> QED
    BY <1>4, <2>4 DEF Keeps, Shut, Bare, Negotiating
<1>5. CASE g.state \in Negotiating \cup {"STOPPING"}
  <2>1. KeyIs(g, g.state, 1, 0, g.retransmits, g.nakloops)
    BY <1>5, <1>1 DEF Timed, Negotiating
  <2>2. KeyIs(Untimeout(g), g.state, 0, 0, g.retransmits, g.nakloops)
    BY <2>1, <1>1, <1>2, SmallKeys
  <2>3. KeyIs(To(Untimeout(g), "STOPPED"), "STOPPED", 0, 0, g.retransmits, g.nakloops)
    BY <2>2, <1>1, <1>2, SmallKeys
  <2>4. KeyIs(Finished(To(Untimeout(g), "STOPPED")), "STOPPED", 0, 0, g.retransmits, g.nakloops)
    BY <2>3, <1>1, <1>2, SmallKeys
  <2>5. FsmProtreject(g) = Finished(To(Untimeout(g), "STOPPED"))
    BY <1>5 DEF FsmProtreject, Negotiating
  <2>6. Good(FsmProtreject(g)) /\ FsmProtreject(g).state = "STOPPED"
    BY <1>1, <2>4, <2>5, KeyGood DEF Timed, Negotiating
  <2> QED
    BY <1>5, <2>6 DEF Keeps, Shut, Bare, Negotiating
<1>6. CASE g.state = "OPENED"
  <2>1. FsmProtreject(g) = TerminateLayer(g, "STOPPING")
    BY <1>6 DEF FsmProtreject, Negotiating
  <2> QED
    BY <1>6, <2>1, TerminateGood DEF Keeps, Shut, Bare
<1>7. CASE g.state \in {"INITIAL", "STARTING"}
  BY <1>7 DEF FsmProtreject, Keeps, Shut, Bare, Negotiating
<1> QED
  BY <1>1, <1>3, <1>4, <1>5, <1>6, <1>7 DEF States, Negotiating

(* fsm_input: whatever the peer sends.                                     *)
LEMMA InputGood ==
  ASSUME NEW g, Good(g), NEW p \in Packets
  PROVE  Keeps(g, FsmInput(g, p))
<1>1. p.code \in Codes /\ p.id \in Ids /\ p.opt \in Kinds \cup {None}
  BY DEF Packets
<1>2. CASE g.state \in Bare
  BY <1>2 DEF FsmInput, Keeps, Bare
<1>3. CASE g.state \notin Bare
  <2>1. CASE p.code = "CONFREQ"
    <3>1. FsmInput(g, p) = Rconfreq(g, p.id, p.opt)
      BY <1>3, <2>1 DEF FsmInput, Bare
    <3> QED
      BY <1>1, <1>3, <3>1, RconfreqGood
  <2>2. CASE p.code = "CONFACK"
    <3>1. FsmInput(g, p) = Rconfack(g, p.id, p.opt)
      BY <1>3, <2>2 DEF FsmInput, Bare
    <3> QED
      BY <1>1, <1>3, <3>1, RconfackGood
  <2>3. CASE p.code \in {"CONFNAK", "CONFREJ"}
    <3>1. FsmInput(g, p) = Rconfnakrej(g, p.code, p.id, p.opt)
      BY <1>3, <2>3 DEF FsmInput, Bare
    <3> QED
      BY <1>1, <1>3, <3>1, RconfnakrejGood
  <2>4. CASE p.code = "TERMREQ"
    <3>1. FsmInput(g, p) = Rtermreq(g, p.id)
      BY <1>3, <2>4 DEF FsmInput, Bare
    <3> QED
      BY <1>1, <1>3, <3>1, RtermreqGood
  <2>5. CASE p.code = "TERMACK"
    <3>1. FsmInput(g, p) = Rtermack(g)
      BY <1>3, <2>5 DEF FsmInput, Bare
    <3> QED
      BY <1>3, <3>1, RtermackGood
  <2>6. CASE p.code = "CODEREJ"
    <3>1. FsmInput(g, p) = Rcoderej(g)
      BY <1>3, <2>6 DEF FsmInput, Bare
    <3> QED
      BY <1>3, <3>1, RcoderejGood
  <2>7. CASE p.code = "UNKNOWN"
    <3> DEFINE i == [g EXCEPT !.id = NextId(g)]
               t == IF g.state \in Timed THEN 1 ELSE 0
               u == IF g.state = "OPENED" THEN 1 ELSE 0
    <3>1. FsmInput(g, p) = Sdata(i, "CODEREJ", NextId(g), None)
      BY <1>3, <2>7 DEF FsmInput, Bare
    <3>2. NextId(g) \in Ids /\ "CODEREJ" \in Codes /\ None \in Kinds \cup {None}
      BY NextIdType DEF Good, Codes
    <3>3. /\ g.retransmits \in 0..(MaxConfReqs + MaxTermReqs)
          /\ g.nakloops \in 0..MaxNakLoops
          /\ KeyIs(g, g.state, t, u, g.retransmits, g.nakloops)
      BY GoodKey
    <3>4. KeyIs(i, g.state, t, u, g.retransmits, g.nakloops)
      BY <3>2, <3>3, PostedKeys
    <3> HIDE DEF i
    <3>5. Good(i) /\ i.state = g.state
      BY <3>3, <3>4, KeyGood
    <3> QED
      BY <3>1, <3>2, <3>5, SdataGood DEF Keeps
  <2> QED
    BY <1>1, <2>1, <2>2, <2>3, <2>4, <2>5, <2>6, <2>7 DEF Codes
<1> QED
  BY <1>2, <1>3

(* ------------------------------ theorems ------------------------------- *)

(* The invariant, with the parts of it the handlers keep in one predicate. *)
Calm ==
  /\ Good(f)
  /\ f.out = <<>>
  /\ f.finished = FALSE
  /\ open \in BOOLEAN
  /\ lower \in BOOLEAN
  /\ AdminStatus

LEMMA SettledGood ==
  ASSUME NEW g, Good(g)
  PROVE  LET r == Settled(g) IN
         /\ Good(r)
         /\ r.state = g.state
         /\ r.out = <<>>
         /\ r.finished = FALSE
<1> DEFINE h == [g EXCEPT !.out = <<>>]
           r == [h EXCEPT !.finished = FALSE]
           t == IF g.state \in Timed THEN 1 ELSE 0
           u == IF g.state = "OPENED" THEN 1 ELSE 0
<1>1. g \in Recs
  BY DEF Good
<1>2. h \in Recs
  <2>1. <<>> \in Seq(Outs)
    OBVIOUS
  <2> QED
    BY <1>1, <2>1 DEF Recs
<1>3. /\ h.state = g.state /\ h.timers = g.timers /\ h.up = g.up
      /\ h.retransmits = g.retransmits /\ h.nakloops = g.nakloops /\ h.out = <<>>
  BY <1>1 DEF Recs
<1>4. Settled(g) = r
  BY <1>1 DEF Settled, Recs
<1> HIDE DEF h
<1>5. r \in Recs
  BY <1>2 DEF Recs
<1>6. /\ r.state = h.state /\ r.timers = h.timers /\ r.up = h.up
      /\ r.retransmits = h.retransmits /\ r.nakloops = h.nakloops /\ r.out = h.out
      /\ r.finished = FALSE
  BY <1>2 DEF Recs
<1> HIDE DEF r
<1>7. /\ g.retransmits \in 0..(MaxConfReqs + MaxTermReqs)
      /\ g.nakloops \in 0..MaxNakLoops
      /\ KeyIs(g, g.state, t, u, g.retransmits, g.nakloops)
  BY GoodKey
<1>8. KeyIs(r, g.state, t, u, g.retransmits, g.nakloops)
  BY <1>3, <1>5, <1>6, <1>7 DEF KeyIs
<1>9. Good(r) /\ r.state = g.state
  BY <1>7, <1>8, KeyGood
<1> QED
  BY <1>3, <1>4, <1>6, <1>9

LEMMA CalmInit == EnvInit => Calm
<1> SUFFICES ASSUME EnvInit PROVE Calm
  OBVIOUS
<1>1. PICK flags \in FlagSets : f = FsmInit(Want, Allow, flags)
  BY DEF EnvInit
<1>2. /\ "INITIAL" \in States
      /\ 0 \in Ids
      /\ <<>> \in Seq(Outs)
      /\ {} \in SUBSET Kinds
  BY FsmAssumption DEF States, Ids
<1>3. f \in Recs
  BY <1>1, <1>2 DEF FsmInit, Recs
<1>4. /\ f.state = "INITIAL" /\ f.timers = 0 /\ f.up = 0
      /\ f.retransmits = 0 /\ f.nakloops = 0
      /\ f.out = <<>> /\ f.finished = FALSE
  BY <1>1 DEF FsmInit
<1>5. Good(f)
  BY <1>3, <1>4, FsmAssumption DEF Good, Timed, Negotiating
<1> QED
  BY <1>4, <1>5 DEF Calm, EnvInit, AdminStatus

(* The actions that leave the administrative status alone.                 *)
LEMMA CalmKept ==
  ASSUME Calm, NEW h, Keeps(f, h), f' = Settled(h), UNCHANGED <<open, lower>>
  PROVE  Calm'
<1>1. Good(h)
  BY DEF Keeps
<1>2. Good(f') /\ f'.state = h.state /\ f'.out = <<>> /\ f'.finished = FALSE
  BY <1>1, SettledGood
<1>3. AdminStatus'
  BY <1>2 DEF Calm, Keeps, AdminStatus, Shut, Bare
<1> QED
  BY <1>2, <1>3 DEF Calm

(* Every step keeps the invariant.                                         *)
LEMMA CalmNext == Calm /\ [EnvNext]_envVars => Calm'
<1> SUFFICES ASSUME Calm, [EnvNext]_envVars PROVE Calm'
  OBVIOUS
<1>1. Good(f)
  BY DEF Calm
<1>2. CASE EnvOpen
  <2> DEFINE h == FsmOpen(f)
  <2>1. Good(h) /\ h.state \notin Shut /\ (h.state \in Bare <=> f.state \in Bare)
    BY <1>1, OpenGood
  <2>2. f' = Settled(h) /\ open' = TRUE /\ lower' = lower
    BY <1>2 DEF EnvOpen
  <2> HIDE DEF h
  <2>3. Good(f') /\ f'.state = h.state /\ f'.out = <<>> /\ f'.finished = FALSE
    BY <2>1, <2>2, SettledGood
  <2> QED
    BY <2>1, <2>2, <2>3 DEF Calm, AdminStatus, Shut, Bare
<1>3. CASE EnvClose
  <2> DEFINE h == FsmClose(f)
  <2>1. Good(h) /\ h.state \in Shut /\ (h.state \in Bare <=> f.state \in Bare)
    BY <1>1, CloseGood
  <2>2. f' = Settled(h) /\ open' = FALSE /\ lower' = lower
    BY <1>3 DEF EnvClose
  <2> HIDE DEF h
  <2>3. Good(f') /\ f'.state = h.state /\ f'.out = <<>> /\ f'.finished = FALSE
    BY <2>1, <2>2, SettledGood
  <2> QED
    BY <2>1, <2>2, <2>3 DEF Calm, AdminStatus, Shut, Bare
<1>4. CASE EnvLowerup
  <2> DEFINE h == FsmLowerup(f)
  <2>1. Good(h) /\ h.state \notin Bare /\ (h.state \in Shut <=> f.state \in Shut)
    BY <1>1, LowerupGood
  <2>2. f' = Settled(h) /\ open' = open /\ lower' = TRUE
    BY <1>4 DEF EnvLowerup
  <2> HIDE DEF h
  <2>3. Good(f') /\ f'.state = h.state /\ f'.out = <<>> /\ f'.finished = FALSE
    BY <2>1, <2>2, SettledGood
  <2> QED
    BY <2>1, <2>2, <2>3 DEF Calm, AdminStatus, Shut, Bare
<1>5. CASE EnvLowerdown
  <2> DEFINE h == FsmLowerdown(f)
  <2>1. Good(h) /\ h.state = IF f.state \in Shut THEN "INITIAL" ELSE "STARTING"
    BY <1>1, LowerdownGood
  <2>2. f' = Settled(h) /\ open' = open /\ lower' = FALSE
    BY <1>5 DEF EnvLowerdown
  <2> HIDE DEF h
  <2>3. Good(f') /\ f'.state = h.state /\ f'.out = <<>> /\ f'.finished = FALSE
    BY <2>1, <2>2, SettledGood
  <2> QED
    BY <2>1, <2>2, <2>3 DEF Calm, AdminStatus, Shut, Bare
<1>6. CASE EnvTimeout
  <2>1. Keeps(f, FsmTimeout(f))
    BY <1>1, <1>6, TimeoutGood DEF EnvTimeout
  <2> QED
    BY <1>6, <2>1, CalmKept DEF EnvTimeout
<1>7. CASE EnvProtreject
  <2>1. Keeps(f, FsmProtreject(f))
    BY <1>1, ProtrejectGood
  <2> QED
    BY <1>7, <2>1, CalmKept DEF EnvProtreject
<1>8. CASE \E p \in Packets : EnvInput(p)
  <2>1. PICK p \in Packets : EnvInput(p)
    BY <1>8
  <2>2. Keeps(f, FsmInput(f, p))
    BY <1>1, InputGood
  <2> QED
    BY <2>1, <2>2, CalmKept DEF EnvInput
<1>9. CASE UNCHANGED envVars
  BY <1>9 DEF envVars, Calm, AdminStatus
<1> QED
  BY <1>2, <1>3, <1>4, <1>5, <1>6, <1>7, <1>8, <1>9 DEF EnvNext

LEMMA CalmImplies == Calm => EnvInv
<1> SUFFICES ASSUME Calm PROVE EnvInv
  OBVIOUS
<1>1. TimerDiscipline /\ UpIffOpened
  BY DEF Calm, Good, TimerDiscipline, UpIffOpened
<1>2. EnvTypeOK
  <2>1. f \in Recs /\ f.out = <<>> /\ f.finished = FALSE
    BY DEF Calm, Good
  <2>2. /\ f.retransmits \in 0..(MaxConfReqs + MaxTermReqs)
        /\ f.nakloops \in 0..MaxNakLoops
        /\ f.timers \in 0..1
        /\ f.up \in 0..1
    BY DEF Calm, Good
  <2> QED
    BY <2>1, <2>2 DEF Recs, EnvTypeOK, Calm
<1> QED
  BY <1>1, <1>2 DEF EnvInv, Calm

(* fsm.c against any peer: the types, the timer, the reports to the upper  *)
(* layers and the administrative status are in order in every state.       *)
THEOREM EnvInvariant == EnvSafety => []EnvInv
<1>1. EnvSafety => []Calm
  BY CalmInit, CalmNext, PTL DEF EnvSafety
<1> QED
  BY <1>1, CalmImplies, PTL

(* Every field keeps its type; in particular a retry counter never goes    *)
(* below zero nor above what it is set to, and the negotiated options stay *)
(* within what was wanted and allowed.                                     *)
THEOREM FieldsKeepTheirTypes == EnvSafety => []EnvTypeOK
<1>1. EnvInv => EnvTypeOK
  BY DEF EnvInv
<1> QED
  BY <1>1, EnvInvariant, PTL

(* Exactly one callout in a state that waits, none in the others.          *)
THEOREM TimerAlwaysDisciplined == EnvSafety => []TimerDiscipline
<1>1. EnvInv => TimerDiscipline
  BY DEF EnvInv
<1> QED
  BY <1>1, EnvInvariant, PTL

(* up and down are called in turn, and up is the state OPENED.             *)
THEOREM UpOnlyWhenOpened == EnvSafety => []UpIffOpened
<1>1. EnvInv => UpIffOpened
  BY DEF EnvInv
<1> QED
  BY <1>1, EnvInvariant, PTL

(* The state always knows the last fsm_open or fsm_close and the last      *)
(* fsm_lowerup or fsm_lowerdown.                                           *)
THEOREM StatusNeverLost == EnvSafety => []AdminStatus
<1>1. EnvInv => AdminStatus
  BY DEF EnvInv
<1> QED
  BY <1>1, EnvInvariant, PTL

LEMMA CalmUp == Calm => (f.up = 1 <=> f.state = "OPENED")
BY DEF Calm, Good

(* Every step of the automaton is a step of a Layer, or none.              *)
LEMMA LayerStep ==
  Calm /\ Calm' /\ [EnvNext]_envVars => [L!LayerNext]_(L!layerVars)
<1> SUFFICES ASSUME Calm, Calm', [EnvNext]_envVars
             PROVE  [L!LayerNext]_(L!layerVars)
  OBVIOUS
<1>1. /\ f.up = 1 <=> f.state = "OPENED"
      /\ f'.up = 1 <=> f'.state = "OPENED"
  BY CalmUp DEF Calm, Good
<1>2. Good(f)
  BY DEF Calm
<1>3. f'.state = "OPENED" => open' /\ lower'
  BY DEF Calm, AdminStatus
<1>4. CASE EnvOpen
  <2> DEFINE h == FsmOpen(f)
  <2>1. Good(h) /\ (h.state = "OPENED" => f.state = "OPENED")
    BY <1>2, OpenGood
  <2>2. f' = Settled(h) /\ open' = TRUE /\ lower' = lower
    BY <1>4 DEF EnvOpen
  <2> HIDE DEF h
  <2>3. f'.state = h.state
    BY <2>1, <2>2, SettledGood
  <2>4. (f'.up = 1) \in {FALSE, (f.up = 1)}
    BY <1>1, <2>1, <2>3
  <2> QED
    BY <2>2, <2>4 DEF L!LayerNext, L!LayerOpen
<1>5. CASE EnvClose
  <2> DEFINE h == FsmClose(f)
  <2>1. Good(h) /\ h.state \in Shut
    BY <1>2, CloseGood
  <2>2. f' = Settled(h) /\ open' = FALSE /\ lower' = lower
    BY <1>5 DEF EnvClose
  <2> HIDE DEF h
  <2>3. f'.state = h.state
    BY <2>1, <2>2, SettledGood
  <2>4. (f'.up = 1) = FALSE
    BY <1>1, <2>1, <2>3 DEF Shut
  <2> QED
    BY <2>2, <2>4 DEF L!LayerNext, L!LayerClose
<1>6. CASE EnvLowerup
  <2> DEFINE h == FsmLowerup(f)
  <2>1. Good(h) /\ (h.state = "OPENED" <=> f.state = "OPENED")
    BY <1>2, LowerupGood
  <2>2. f' = Settled(h) /\ open' = open /\ lower' = TRUE
    BY <1>6 DEF EnvLowerup
  <2> HIDE DEF h
  <2>3. f'.state = h.state
    BY <2>1, <2>2, SettledGood
  <2>4. (f'.up = 1) = (f.up = 1)
    BY <1>1, <2>1, <2>3
  <2> QED
    BY <2>2, <2>4 DEF L!LayerNext, L!LowerComesUp
<1>7. CASE EnvLowerdown
  <2> DEFINE h == FsmLowerdown(f)
  <2>1. Good(h) /\ h.state \in {"INITIAL", "STARTING"}
    BY <1>2, LowerdownGood
  <2>2. f' = Settled(h) /\ open' = open /\ lower' = FALSE
    BY <1>7 DEF EnvLowerdown
  <2> HIDE DEF h
  <2>3. f'.state = h.state
    BY <2>1, <2>2, SettledGood
  <2>4. (f'.up = 1) = FALSE
    BY <1>1, <2>1, <2>3
  <2> QED
    BY <2>2, <2>4 DEF L!LayerNext, L!LowerGoesDown
<1>8. CASE UNCHANGED <<open, lower>>
  <2>1. CASE (f'.up = 1) = (f.up = 1)
    BY <1>8, <2>1 DEF L!layerVars
  <2>2. CASE f'.up = 1 /\ f.up # 1
    BY <1>1, <1>3, <1>8, <2>2 DEF L!LayerNext, L!ReportUp
  <2>3. CASE f'.up # 1 /\ f.up = 1
    BY <1>8, <2>3 DEF L!LayerNext, L!ReportDown
  <2> QED
    BY <2>1, <2>2, <2>3
<1> QED
  BY <1>4, <1>5, <1>6, <1>7, <1>8
  DEF EnvNext, EnvTimeout, EnvProtreject, EnvInput, envVars

(* The automaton implements Layer, for every peer and every parameter.     *)
THEOREM FsmImplementsLayer == EnvSafety => ImplementsLayer
<1>1. EnvInit => L!LayerInit
  BY DEF EnvInit, FsmInit, L!LayerInit
<1>2. EnvSafety => []Calm
  BY CalmInit, CalmNext, PTL DEF EnvSafety
<1> QED
  BY <1>1, <1>2, LayerStep, PTL DEF EnvSafety, ImplementsLayer, L!LayerSpec

=============================================================================
