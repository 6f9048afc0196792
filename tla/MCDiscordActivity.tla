------------------------- MODULE MCDiscordActivity -------------------------
(***************************************************************************)
(* Instance for TLC: two tasks at once and three events, so that a third   *)
(* message can meet what the first two left; a clock that runs past the    *)
(* cooldown; one disturbance.                                              *)
(***************************************************************************)
EXTENDS DiscordActivity, TLC
CONSTANTS h1, h2, t1, t2, noise
MCThreshold == [l \in 1..LevelCap |-> l * l]
MCSymmetry == Permutations({h1, h2}) \cup Permutations({t1, t2})
MCPlain == {"reactions"}
MCRates == [raw |-> {0}, messages |-> {-1, 2}, reactions |-> {2}]
MCStats == MCPlain \cup {"raw", "messages"}
=============================================================================
