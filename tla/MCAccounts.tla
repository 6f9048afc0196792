----------------------------- MODULE MCAccounts -----------------------------
(***************************************************************************)
(* Two Minecraft accounts, one of which sends a counter the other does not.*)
(***************************************************************************)
EXTENDS AccountXp, TLC

CONSTANTS steve, alex, wins, beds

MCMinecraft == {steve, alex}
MCKeys == [m \in MCMinecraft |-> IF m = steve THEN {wins, beds} ELSE {wins}]
MCThreshold == <<1, 3, 9>>
MCSigns == {1, -1}
MCSymmetry == Permutations(Tasks)
=============================================================================
