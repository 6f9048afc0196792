------------------------------ MODULE XpLedger ------------------------------
(***************************************************************************)
(* What the XP tables promise, whatever computes the rewards: stat_deltas  *)
(* with their xp_events is a log that only grows, and in the same step the *)
(* xp row moves by exactly what the new rows earned, level included.  Rows *)
(* that cost more than they earned (a reward may be negative) are put on   *)
(* record and leave the xp row as it is.                                   *)
(***************************************************************************)
EXTENDS XpRules

VARIABLES ledger,  \* the rows, in commit order
          xp       \* [total, level]

Init ==
  /\ ledger = <<>>
  /\ xp = [total |-> 0, level |-> 1]

Appended == SubSeq(ledger', Len(ledger) + 1, Len(ledger'))

Credit ==
  LET earned == TotalEarned(Appended)
      total == xp.total + earned
  IN  /\ Len(ledger') > Len(ledger)
      /\ SubSeq(ledger', 1, Len(ledger)) = ledger
      /\ xp' = IF earned > 0 THEN [total |-> total, level |-> CalculateLevel(total)] ELSE xp

Spec == Init /\ [][Credit]_<<ledger, xp>>
=============================================================================
