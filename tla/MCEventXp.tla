------------------------------ MODULE MCEventXp ------------------------------
(***************************************************************************)
(* Instance for TLC: the deltas are numbers because their ids are ordered, *)
(* so there are no model values and no symmetry.                           *)
(***************************************************************************)
EXTENDS EventXp
=============================================================================
