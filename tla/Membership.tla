----------------------------- MODULE Membership -----------------------------
(***************************************************************************)
(* What the account commands promise about one Discord member of a guild,  *)
(* as long as they take turns: a member has at most one registration,      *)
(* linked to one Minecraft account; leaving suspends it and keeps what was *)
(* recorded; an active registration gets another account only when nothing *)
(* of the old one is on record, and a suspended one only by an             *)
(* administrator or through its return.  Once two of the commands have met *)
(* nothing is promised.                                                    *)
(***************************************************************************)
CONSTANT Minecraft, Nobody

VARIABLES status,   \* "unknown", "active", "inactive"; "unspecified" after an overlap
          linked,   \* the Minecraft account of the registration
          record    \* the accounts whose statistics are stored with it

mvars == <<status, linked, record>>

Init == status = "unknown" /\ linked = Nobody /\ record = {}

Register(m) == status = "unknown" /\ status' = "active" /\ linked' = m /\ UNCHANGED record
Suspend == status = "active" /\ status' = "inactive" /\ UNCHANGED <<linked, record>>
Return == status = "inactive" /\ status' = "active" /\ UNCHANGED <<linked, record>>
Relink(m) ==
  /\ \/ status = "active" /\ record = {}
     \/ status = "inactive"
  /\ status' = "active"
  /\ linked' = m
  /\ UNCHANGED record
Reset == status = "inactive" /\ record' = {} /\ UNCHANGED <<status, linked>>
Record == /\ status \in {"active", "inactive"}
          /\ linked \in record' /\ record' \subseteq record \cup {linked}
          /\ UNCHANGED <<status, linked>>
Delete == status' = "unknown" /\ linked' = Nobody /\ record' = {}
Overlap == status' = "unspecified"

Next == \/ \E m \in Minecraft : Register(m) \/ Relink(m)
        \/ Suspend \/ Return \/ Reset \/ Record \/ Delete \/ Overlap

Spec == Init /\ [][Next]_mvars
=============================================================================
