-------------------------- MODULE MCHypixelRefresh --------------------------
(***************************************************************************)
(* Instance for TLC: levels need 2 and then 5 XP; the default rewards two  *)
(* XP per unit of every stat, and an edit may make that a loss of one.     *)
(***************************************************************************)
EXTENDS HypixelRefresh, TLC

MCThreshold == <<2, 5, 9>>
MCMultipliers == {-1, 2}
MCDefaultConfig == [s \in Stats |-> 2]
Symmetry == Permutations(Tasks)
=============================================================================
