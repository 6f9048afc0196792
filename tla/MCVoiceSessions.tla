-------------------------- MODULE MCVoiceSessions --------------------------
(***************************************************************************)
(* Instance for TLC: two channels, two tasks at once, a minute longer than *)
(* two tasks, and a clock that reaches the first midnight.  The rate comes *)
(* down to the floor between two minutes of the day.                       *)
(***************************************************************************)
EXTENDS VoiceSessions, TLC
CONSTANTS h1, h2, c1, c2
MCInitialRates == {5}
MCSymmetry == Permutations({h1, h2}) \cup Permutations({c1, c2})
MCThreshold == [l \in 1..LevelCap |-> 8 * l * l]
=============================================================================
