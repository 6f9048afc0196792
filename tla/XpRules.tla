------------------------------ MODULE XpRules ------------------------------
(***************************************************************************)
(* xp/calculator.rs: the XP a batch of stat deltas earns and the level a   *)
(* total is worth.  XP is counted in integers and the curve is given by    *)
(* its thresholds, so any base_level_xp and level_exponent are covered.    *)
(***************************************************************************)
EXTENDS Integers, Sequences, Sums

CONSTANTS LevelCap,    \* 1_000_001 in the code
          Threshold    \* Threshold[l] = base_level_xp * l ^ level_exponent

ASSUME LevelAssumption == /\ LevelCap \in Nat \ {0}
                          /\ Threshold \in [1..LevelCap -> Nat \ {0}]

XpForLevel(level) == IF level <= 1 THEN 0 ELSE Threshold[level - 1]

\* The loop climbs while the next threshold is met, up to the cap.
CalculateLevel(total) ==
  IF total < 0 THEN 1
  ELSE CHOOSE level \in 1..LevelCap :
         /\ \A l \in 1..(level - 1) : total >= Threshold[l]
         /\ level < LevelCap => total < Threshold[level]

\* One reward per delta of a configured stat; every delta a refresh pushes has
\* grown and has a multiplier.
CalculateXpRewards(deltas, cfg) ==
  [i \in DOMAIN deltas |->
     [stat |-> deltas[i].stat, old |-> deltas[i].old, new |-> deltas[i].new,
      earned |-> (deltas[i].new - deltas[i].old) * cfg[deltas[i].stat]]]

Earned(q) == [i \in DOMAIN q |-> q[i].earned]
TotalEarned(q) == SeqSum(Earned(q))

\* The stored level of an xp row [total, level] is the one its total falls in.
InItsBand(row) ==
  /\ XpForLevel(row.level) <= row.total
  /\ row.level < LevelCap => row.total < XpForLevel(row.level + 1)
=============================================================================
