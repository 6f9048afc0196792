-------------------------------- MODULE Sums --------------------------------
(***************************************************************************)
(* The sum of a sequence of integers, as a recursive function so that the  *)
(* facts the ledger proofs need about it can be proved (XpRulesProofs).  The  *)
(* code sums rewards with Iterator::sum and the xp_events table with       *)
(* SQL's SUM; both are this function.                                      *)
(***************************************************************************)
EXTENDS Integers, Sequences

PartialSums(q) ==
  LET s[i \in 0..Len(q)] == IF i = 0 THEN 0 ELSE s[i - 1] + q[i]
  IN  s

SeqSum(q) == PartialSums(q)[Len(q)]
=============================================================================
