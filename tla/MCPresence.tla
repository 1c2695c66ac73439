----------------------------- MODULE MCPresence -----------------------------
(* Instances of Presence: two or three players, two or three levels.         *)
EXTENDS Presence, TLC

CONSTANTS p1, p2, p3, main, hills, caves

TwoPlayers == {p1, p2}
ThreePlayers == {p1, p2, p3}
TwoWorlds == {main, hills}
ThreeWorlds == {main, hills, caves}

Symmetry == Permutations(Player)
=============================================================================
