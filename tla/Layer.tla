------------------------------- MODULE Layer --------------------------------
(***************************************************************************)
(* What a control protocol's automaton promises the layers above and below *)
(* it: it reports itself up only while it is administratively open and its *)
(* lower layer is up, it reports up and down in turn, and nothing that     *)
(* closes it or takes its lower layer away leaves it reported up.          *)
(***************************************************************************)
VARIABLES
  open,     \* the last of open and close was open
  lower,    \* the last of lowerup and lowerdown was lowerup
  up        \* the last of the up and down callbacks was up

layerVars == <<open, lower, up>>

LayerInit ==
  /\ open = FALSE
  /\ lower = FALSE
  /\ up = FALSE

LayerOpen ==
  /\ open' = TRUE
  /\ lower' = lower
  /\ up' \in {FALSE, up}

LayerClose ==
  /\ open' = FALSE
  /\ lower' = lower
  /\ up' = FALSE

LowerComesUp ==
  /\ lower' = TRUE
  /\ UNCHANGED <<open, up>>

LowerGoesDown ==
  /\ lower' = FALSE
  /\ open' = open
  /\ up' = FALSE

ReportUp ==
  /\ open
  /\ lower
  /\ ~up
  /\ up' = TRUE
  /\ UNCHANGED <<open, lower>>

ReportDown ==
  /\ up
  /\ up' = FALSE
  /\ UNCHANGED <<open, lower>>

LayerNext ==
  \/ LayerOpen \/ LayerClose \/ LowerComesUp \/ LowerGoesDown
  \/ ReportUp \/ ReportDown

LayerSpec == LayerInit /\ [][LayerNext]_layerVars

=============================================================================
