----------------------------- MODULE MCGuildConfig -----------------------------
(* A stat that starts configured and an option that starts unset.           *)
EXTENDS GuildConfig

CONSTANTS wins, afk, v1, v2

MCStats == {wins}
MCOptions == {afk}
MCDefault == [s \in MCStats \cup MCOptions |-> IF s = wins THEN v1 ELSE Unset]
=============================================================================
