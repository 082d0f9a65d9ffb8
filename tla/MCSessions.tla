----------------------------- MODULE MCSessions -----------------------------
(* Small instances of Sessions for TLC.                                    *)
EXTENDS Sessions

CONSTANTS Alice, Bob

MCParty == {Alice, Bob}
PartySymmetry == Permutations(MCParty)
=============================================================================
