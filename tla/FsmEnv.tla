------------------------------- MODULE FsmEnv -------------------------------
(***************************************************************************)
(* One automaton of fsm.c, driven by everything that can call it: the      *)
(* protocol that owns it opens and closes it, the lower layer comes and    *)
(* goes, its callouts fire, and a peer of which nothing is assumed sends   *)
(* it any packet at any time.                                              *)
(***************************************************************************)
EXTENDS Fsm

CONSTANTS
  Want,     \* lcp_wantoptions: kinds we ask the peer to authenticate with
  Allow,    \* lcp_allowoptions: kinds we are willing to be asked for
  FlagSets  \* the OPT_ flags an automaton may be given

ASSUME EnvAssumption ==
  /\ Want \subseteq Kinds
  /\ Allow \subseteq Kinds
  /\ FlagSets \subseteq SUBSET {"passive", "silent", "restart"}

VARIABLES
  f,        \* the automaton
  open,     \* the last call of fsm_open or fsm_close was fsm_open
  lower     \* the last call of fsm_lowerup or fsm_lowerdown was fsm_lowerup

envVars == <<f, open, lower>>

Packets == [code : Codes, id : Ids, opt : Kinds \cup {None}]

(* The callbacks of a handler have run and its packets are gone.           *)
Settled(g) == [g EXCEPT !.out = <<>>, !.finished = FALSE]

EnvInit ==
  /\ \E flags \in FlagSets : f = FsmInit(Want, Allow, flags)
  /\ open = FALSE
  /\ lower = FALSE

EnvOpen ==
  /\ open' = TRUE
  /\ f' = Settled(FsmOpen(f))
  /\ UNCHANGED lower

EnvClose ==
  /\ open' = FALSE
  /\ f' = Settled(FsmClose(f))
  /\ UNCHANGED lower

EnvLowerup ==
  /\ lower' = TRUE
  /\ f' = Settled(FsmLowerup(f))
  /\ UNCHANGED open

EnvLowerdown ==
  /\ lower' = FALSE
  /\ f' = Settled(FsmLowerdown(f))
  /\ UNCHANGED open

EnvTimeout ==
  /\ f.timers > 0
  /\ f' = Settled(FsmTimeout(f))
  /\ UNCHANGED <<open, lower>>

EnvInput(p) ==
  /\ f' = Settled(FsmInput(f, p))
  /\ UNCHANGED <<open, lower>>

EnvProtreject ==
  /\ f' = Settled(FsmProtreject(f))
  /\ UNCHANGED <<open, lower>>

EnvNext ==
  \/ EnvOpen \/ EnvClose \/ EnvLowerup \/ EnvLowerdown
  \/ EnvTimeout \/ EnvProtreject
  \/ \E p \in Packets : EnvInput(p)

EnvSafety == EnvInit /\ [][EnvNext]_envVars

(* main.c calls every callout that is due, so a timer that stays set fires.*)
EnvSpec == EnvSafety /\ WF_envVars(EnvTimeout)

(* The types of the automaton's fields; a retry counter never goes below   *)
(* zero and never above what it is set to.                                 *)
EnvTypeOK ==
  /\ f \in [state : States, id : Ids, reqid : Ids, seenAck : BOOLEAN,
            retransmits : 0..(MaxConfReqs + MaxTermReqs),
            nakloops : 0..MaxNakLoops, flags : FlagSets,
            wo : {Want}, ao : {Allow}, go : SUBSET Kinds,
            ho : Allow \cup {None}, timers : 0..1, up : 0..1,
            finished : {FALSE}, out : {<<>>}]
  /\ open \in BOOLEAN
  /\ lower \in BOOLEAN

(* Every handler cancels and restarts the timer by hand.  Exactly one      *)
(* fsm_timeout callout is pending in a state that waits for the peer, and  *)
(* none in the others: with none the automaton would wait for ever, with   *)
(* two it would give up early and a cancelled wait would still fire.       *)
TimerDiscipline == f.timers = IF f.state \in Timed THEN 1 ELSE 0

(* The up and down callbacks are called in turn, and the layer is reported *)
(* up exactly while it is OPENED, through every way out of that state.     *)
UpIffOpened == f.up = IF f.state = "OPENED" THEN 1 ELSE 0

(* The ten states never lose track of the two requests that drive them:    *)
(* the automaton knows whether it was told to be open, and whether its     *)
(* lower layer is there, whatever the peer sent in between.                *)
AdminStatus ==
  /\ open <=> f.state \notin {"INITIAL", "CLOSED", "CLOSING"}
  /\ lower <=> f.state \notin {"INITIAL", "STARTING"}

EnvInv == EnvTypeOK /\ TimerDiscipline /\ UpIffOpened /\ AdminStatus

(* The automaton is a Layer: it keeps its promise to the layers around it  *)
(* against any peer.                                                       *)
L == INSTANCE Layer WITH up <- (f.up = 1)
ImplementsLayer == L!LayerSpec

(* The automaton does not stay on its way out, whether the user, the peer  *)
(* or a protocol reject began it, even if the peer never answers or sends  *)
(* anything it likes: nothing it sends renews the retry counter of a       *)
(* Terminate-Request.                                                      *)
LeavingEnds == f.state \in {"CLOSING", "STOPPING"} ~> f.state \notin {"CLOSING", "STOPPING"}

=============================================================================
