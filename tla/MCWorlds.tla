------------------------------- MODULE MCWorlds -------------------------------
(* Instances of Worlds: one or two players, main and one other level.         *)
EXTENDS Worlds, TLC

CONSTANTS p1, p2, server, main, hills, o1, o2, o3, stone, brick

OnePlayer == {p1}
TwoPlayers == {p1, p2}
Names == {main, hills}
TwoObjects == {o1, o2}
ThreeObjects == {o1, o2, o3}
OneValue == {stone}
TwoValues == {stone, brick}

Symmetry == Permutations(Player) \cup Permutations(Object)
=============================================================================
