------------------------------ MODULE MCGroup ------------------------------
(* Small instances of GroupSessions for TLC.  Members share nothing but    *)
(* what the sender has published, so one is enough for properties of each. *)
EXTENDS GroupSessions

CONSTANT r1

OneMember == {r1}
=============================================================================
