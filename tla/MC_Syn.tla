------------------------------- MODULE MC_Syn -------------------------------
(* Syn with one player or two, who can be exchanged. *)
EXTENDS Syn, TLC

CONSTANTS p1, p2

OnePlayer == {p1}
TwoPlayers == {p1, p2}

PlayerSymmetry == Permutations(TwoPlayers)
=============================================================================
