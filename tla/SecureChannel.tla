--------------------------- MODULE SecureChannel ---------------------------
(***************************************************************************)
(* What two parties may expect of a session, whatever the network does:    *)
(* each plaintext that was sent is delivered at most once, nothing else is *)
(* delivered, and what was sent can still be delivered.                    *)
(***************************************************************************)
EXTENDS Naturals

CONSTANT Ids          \* names of the plaintexts

VARIABLES
  outbox,    \* ids released by their sender
  got        \* got[i]: how often plaintext i was delivered

channel == <<outbox, got>>

ChannelInit == outbox = {} /\ got = [i \in Ids |-> 0]

Send(i) ==
  /\ i \notin outbox
  /\ outbox' = outbox \union {i}
  /\ UNCHANGED got

Deliver(i) ==
  /\ i \in outbox
  /\ got[i] = 0
  /\ got' = [got EXCEPT ![i] = 1]
  /\ UNCHANGED outbox

ChannelNext == \E i \in Ids : Send(i) \/ Deliver(i)

ChannelSpec == ChannelInit /\ [][ChannelNext]_channel

(* Every plaintext released by its sender is delivered in the end: again   *)
(* and again there is nothing left to deliver.                             *)
AllDelivered == []<>(\A i \in outbox : got[i] = 1)
=============================================================================
