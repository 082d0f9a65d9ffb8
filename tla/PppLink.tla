------------------------------- MODULE PppLink ------------------------------
(***************************************************************************)
(* Two pppds at the two ends of a line.  The line keeps the order of the   *)
(* packets and loses some of them; what is sent to an end that is not      *)
(* there is lost.  Both daemons persist: they dial again when the link is  *)
(* dead.  Connecting and configuring the device succeed and neither has    *)
(* allow-ip: PppdEnv has what happens otherwise.                           *)
(***************************************************************************)
EXTENDS Pppd

CONSTANTS
  WantsA, WantsB,   \* the digests each end may require of the other
  AllowsA, AllowsB, \* the digests each end may be willing to do
  Dice,       \* the ids drand48 may give a first challenge
  MaxLine,    \* packets on their way to one end
  MaxLosses,  \* packets the line may lose
  MaxDials,   \* links each end may start
  Kills,      \* whether users may end links
  Patient     \* callouts fire only once the line is quiet

ASSUME LinkAssumption ==
  /\ WantsA \cup WantsB \cup AllowsA \cup AllowsB \subseteq SUBSET Digests
  /\ Dice \subseteq Ids
  /\ {MaxLine, MaxLosses, MaxDials} \subseteq Nat
  /\ {Kills, Patient} \subseteq BOOLEAN
  /\ ~Listen    \* no connect script: PppdEnv has the wait of listen_time

Ends == {"A", "B"}
Other(x) == IF x = "A" THEN "B" ELSE "A"

VARIABLES
  pp,       \* pp[x]: the daemon at end x
  line,     \* line[x]: packets on their way to x
  losses,   \* packets lost so far
  dials     \* links started at each end

linkVars == <<pp, line, losses, dials>>

LinkInit ==
  /\ \E wa \in WantsA, wb \in WantsB, oa \in AllowsA, ob \in AllowsB :
       pp = [x \in Ends |-> IF x = "A" THEN PppdInit(wa, oa, {}) ELSE PppdInit(wb, ob, {})]
  /\ line = [x \in Ends |-> <<>>]
  /\ losses = 0
  /\ dials = [x \in Ends |-> 0]

Rest(e) == [e EXCEPT !.lcp.out = <<>>, !.dice = 0]

Smaller(m, n) == IF m < n THEN m ELSE n

(* The handler took x to e: its packets go to the other end if that is     *)
(* there and there is room.  `rest' is what is left on the way to x.       *)
Handled(x, e, rest) ==
  LET y == Other(x)
      sent == line[y] \o e.lcp.out
      room == IF pp[y].line THEN Smaller(Len(sent), MaxLine) ELSE 0
  IN /\ pp' = [pp EXCEPT ![x] = Rest(e)]
     /\ line' = [line EXCEPT ![x] = IF e.line THEN rest ELSE <<>>, ![y] = SubSeq(sent, 1, room)]

(* The daemon at the start of a handler, with what drand48 will return.    *)
Rolled(x) == {[pp[x] EXCEPT !.dice = r] : r \in Dice}

CanDeliver(x) == line[x] # <<>>
Deliver(x) ==
  /\ CanDeliver(x)
  /\ \E e \in Rolled(x) : Handled(x, GetInput(e, Head(line[x]), "right"), Tail(line[x]))
  /\ UNCHANGED <<losses, dials>>

Lose(x) ==
  /\ line[x] # <<>>
  /\ losses < MaxLosses
  /\ losses' = losses + 1
  /\ line' = [line EXCEPT ![x] = Tail(@)]
  /\ UNCHANGED <<pp, dials>>

(* A patient callout waits for the line to be quiet, and for the other end *)
(* to be there unless it is needed to leave.                               *)
Ready(x) ==
  Patient => /\ line["A"] = <<>> /\ line["B"] = <<>>
             /\ pp[Other(x)].line \/ pp[x].lcp.state \in {"CLOSING", "STOPPING"}

CanFsmTimer(x) == Ready(x) /\ pp[x].lcp.timers > 0
FsmTimer(x) ==
  /\ CanFsmTimer(x)
  /\ \E e \in Rolled(x) : Handled(x, Settle(e, FsmTimeout(e.lcp)), line[x])
  /\ UNCHANGED <<losses, dials>>

CanChapTimer(x) == Ready(x) /\ pp[x].challenges > 0
ChapTimer(x) ==
  /\ CanChapTimer(x)
  /\ \E e \in Rolled(x) : Handled(x, ChapTimeout([e EXCEPT !.challenges = Less(@)]), line[x])
  /\ UNCHANGED <<losses, dials>>

EchoTimer(x) ==
  /\ Ready(x) /\ pp[x].echos > 0
  /\ \E e \in Rolled(x) : Handled(x, LcpEchoTimeout(e), line[x])
  /\ UNCHANGED <<losses, dials>>

Kill(x) ==
  /\ Kills
  /\ pp[x].phase # "DEAD"
  /\ \E e \in Rolled(x) : Handled(x, LcpClose(e), line[x])
  /\ UNCHANGED <<losses, dials>>

(* The carrier drops when the other end has left this call.                *)
CanLineHangup(x) == pp[x].line /\ ~pp[Other(x)].line /\ dials[Other(x)] >= dials[x]
LineHangup(x) ==
  /\ CanLineHangup(x)
  /\ \E e \in Rolled(x) : Handled(x, Hangup(e), line[x])
  /\ UNCHANGED <<losses, dials>>

(* The two ends are in the same call: one opens it when the other is free, *)
(* and the other answers.                                                  *)
CanDial(x) ==
  /\ pp[x].phase = "DEAD"
  /\ dials[x] < MaxDials
  /\ \/ dials[x] < dials[Other(x)]
     \/ dials[x] = dials[Other(x)] /\ pp[Other(x)].phase = "DEAD"
Dial(x) ==
  /\ CanDial(x)
  /\ dials' = [dials EXCEPT ![x] = @ + 1]
  /\ \E e \in Rolled(x) : Handled(x, Redial(e, TRUE, TRUE), line[x])
  /\ UNCHANGED losses

(* IPCP, reduced to its outcome: it comes up when both ends have opened it *)
(* and gives up when the other end has not.                                *)
CanIpcpUp(x) == pp[x].np = "open" /\ pp[Other(x)].np # "closed"
IpcpUp(x) ==
  /\ CanIpcpUp(x)
  /\ \E e \in Rolled(x) : Handled(x, NpUp(e), line[x])
  /\ UNCHANGED <<losses, dials>>

CanIpcpFinished(x) == Ready(x) /\ pp[x].np = "open" /\ pp[Other(x)].np = "closed"
IpcpFinished(x) ==
  /\ CanIpcpFinished(x)
  /\ \E e \in Rolled(x) : Handled(x, NpFinished(e), line[x])
  /\ UNCHANGED <<losses, dials>>

Turn(x) ==
  \/ Deliver(x) \/ Lose(x)
  \/ FsmTimer(x) \/ ChapTimer(x) \/ EchoTimer(x)
  \/ Kill(x) \/ LineHangup(x) \/ Dial(x)
  \/ IpcpUp(x) \/ IpcpFinished(x)

LinkNext == \E x \in Ends : Turn(x)

LinkSafety == LinkInit /\ [][LinkNext]_linkVars

(* A packet that is there is read, a pending callout fires, an end that is *)
(* free dials or answers, a lost carrier is noticed, and IPCP comes to its *)
(* outcome: WF, and SF for callouts, which fire when their time has come   *)
(* whatever else happens (Ready only says that the line is faster than the *)
(* timers).  WF_v(A) is written []<>~guard \/ []<><<A>>_v with the guard   *)
(* of A for ENABLED <<A>>_v: when it holds, A is possible and changes v.   *)
LinkFairness ==
  \A x \in Ends :
    /\ []<>~CanDeliver(x) \/ []<><<Deliver(x)>>_linkVars
    /\ <>[]~CanFsmTimer(x) \/ []<><<FsmTimer(x)>>_linkVars
    /\ <>[]~CanChapTimer(x) \/ []<><<ChapTimer(x)>>_linkVars
    /\ []<>~CanLineHangup(x) \/ []<><<LineHangup(x)>>_linkVars
    /\ []<>~CanDial(x) \/ []<><<Dial(x)>>_linkVars
    /\ []<>~CanIpcpUp(x) \/ []<><<IpcpUp(x)>>_linkVars
    /\ []<>~CanIpcpFinished(x) \/ []<><<IpcpFinished(x)>>_linkVars

LinkSpec == LinkSafety /\ LinkFairness

(* When both ends are open they agree on the protocol each must use: what  *)
(* one end negotiated for itself is what the other end accepted, whatever  *)
(* was lost, repeated or renegotiated before.                              *)
Agreement ==
  Opened(pp["A"]) /\ Opened(pp["B"]) =>
    \A x \in Ends : pp[Other(x)].lcp.ho = AddCi(pp[x].lcp.go)

(* No end waits for ever in the phases before the network phase: a lost    *)
(* packet is repeated, and an end left behind is taken down.               *)
NobodyWaits ==
  \A x \in Ends :
    (pp[x].phase \in {"ESTABLISH", "AUTHENTICATE", "TERMINATE"})
      ~> (pp[x].phase \in {"NETWORK", "RUNNING", "DEAD"})

(* With finitely many losses the link comes up at both ends and stays up.  *)
LinkComesUp == <>[](\A x \in Ends : pp[x].phase = "RUNNING")

=============================================================================
