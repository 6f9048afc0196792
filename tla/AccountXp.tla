------------------------------ MODULE AccountXp ------------------------------
(***************************************************************************)
(* The XP of the member of Accounts: the rewards on record, the xp row     *)
(* that sums them up, and the two administrator commands that change the   *)
(* row without a reward, /xp and /recalculate-xp, beside the transactions  *)
(* that earn it.                                                           *)
(***************************************************************************)
EXTENDS Accounts, XpRules

CONSTANTS Amounts,     \* XP an administrator adds or removes
          Multipliers  \* XP per unit the guild may configure; no sign is asked for

ASSUME XpAssumption == Amounts \subseteq Int /\ Multipliers \subseteq Int

VARIABLES
  earned,   \* SUM(xp_earned) over the user's xp_events
  xp,       \* the xp row, {} when there is none
  granted,  \* history: XP added by administrators since the last recalculation
  withheld, \* history: negative rewards since then, on record but not in the total
  raced,    \* history: rewards were committed or wiped between a recalculation's sum and its end
  behind    \* history: a level was left to a task that was overtaken or failed

excuses == <<granted, withheld, raced>>
xpVars == <<earned, xp, excuses, behind>>
vars == <<accountVars, task, bounds, history, xpVars>>

Init ==
  /\ AccountsInit
  /\ earned = 0 /\ xp = {}
  /\ granted = 0 /\ withheld = 0 /\ raced = FALSE /\ behind = FALSE

\* The row as get_xp gives it: one that is missing counts as 0 XP at level 1.
Row == IF xp = {} THEN [total |-> 0, level |-> 1] ELSE CHOOSE row \in xp : TRUE
NoXp == earned' = 0 /\ xp' = {} /\ granted' = 0 /\ withheld' = 0 /\ behind' = FALSE

\* Some recalculation has taken its sum and not yet finished.
Recalculating == \E t \in Tasks : task[t].pc \in {"comparing", "rewriting"}

\* The tasks that have changed a total and not yet written its level, and those
\* that know which level they will write.
Levelling == {t \in Tasks : task[t].pc \in {"awarding", "reading", "levelling"}}
Overtaken == \E t \in Tasks : task[t].pc = "levelling"
-----------------------------------------------------------------------------
(* Rewards *)

CreditedMutantAnySign(reward) ==
  LET total == Row.total + reward
  IN  {[total |-> total, level |-> CalculateLevel(total)]}

\* A transaction puts the rewards on record; if they are worth anything it
\* increments the total and writes the level of the total it reads back.
Credited(reward) ==
  LET total == Row.total + reward
  IN  IF reward > 0 THEN {[total |-> total, level |-> CalculateLevel(total)]} ELSE xp

Credit(reward) ==
  /\ earned' = earned + reward
  /\ xp' = Credited(reward)
  /\ withheld' = IF reward > 0 THEN withheld ELSE withheld + reward
  /\ raced' = (raced \/ Recalculating)
  /\ behind' = IF reward > 0 THEN Overtaken ELSE behind
  /\ UNCHANGED granted

CommitRefresh(t) ==
  /\ task[t].pc = "crediting"
  /\ CASE task[t].n = 0 -> Finish(t) /\ UNCHANGED <<history, xpVars>>
       [] task[t].n # 0 /\ ~Exists(task[t].id) -> GiveUp(t) /\ UNCHANGED xpVars
       [] OTHER -> /\ \E m \in Multipliers : Credit(task[t].n * m)
                   /\ Finish(t)
                   /\ UNCHANGED history
  /\ UNCHANGED accountVars

\* Activity on Discord: a snapshot, and then the reward.  A registration that is
\* still seeding writes 0 over the count.
EarnOnDiscord ==
  /\ user.active
  /\ jobs < MaxJobs
  /\ jobs' = jobs + 1
  /\ baseline' = [baseline EXCEPT ![Discord] = user.mc]
  /\ \E m \in Multipliers : Credit(m)
  /\ history' = [history EXCEPT !.tangled = @ \/ SomeChanging]
  /\ UNCHANGED <<user, lastId, role, present, notices, task, disturbances>>
-----------------------------------------------------------------------------
(* /xp add and /xp remove *)

\* A negative amount counts as 0.
Clamped(amount) == IF amount < 0 THEN 0 ELSE amount

ChangeXp(t) ==
  /\ user.active
  /\ \E a \in Amounts, sign \in {1, -1} :
       Start(t, [Idle EXCEPT !.pc = "granting", !.id = user.id, !.n = sign * Clamped(a)])
  /\ UNCHANGED <<accountVars, xpVars>>

\* increment_xp: a new row is at level 1 whatever the amount.
IncrementXp(t) ==
  /\ task[t].pc = "granting"
  /\ IF Exists(task[t].id)
     THEN /\ xp' = {[Row EXCEPT !.total = @ + task[t].n]}
          /\ granted' = granted + task[t].n
          /\ behind' = (behind \/ Overtaken)
          /\ Goto(t, "awarding")
          /\ UNCHANGED <<earned, withheld, raced, history>>
     ELSE GiveUp(t) /\ UNCHANGED xpVars
  /\ UNCHANGED accountVars

\* award_admin_event_xp: a stat_delta without an xp_event, and event_xp.
AwardAdminEventXp(t) ==
  /\ task[t].pc = "awarding"
  /\ IF Exists(task[t].id) THEN Goto(t, "reading") /\ UNCHANGED history ELSE GiveUp(t)
  /\ UNCHANGED <<accountVars, xpVars>>

LevelToWriteMutantClimbOnly == IF CalculateLevel(Row.total) > Row.level
                               THEN CalculateLevel(Row.total) ELSE Row.level

LevelToWrite == CalculateLevel(Row.total)

ReadXp(t) ==
  /\ task[t].pc = "reading"
  /\ CASE ~Exists(task[t].id) \/ xp = {} -> GiveUp(t)
       [] Exists(task[t].id) /\ xp # {} /\ LevelToWrite = Row.level ->
            Finish(t) /\ UNCHANGED history
       [] OTHER -> /\ Step(t, [task[t] EXCEPT !.pc = "levelling", !.n = LevelToWrite])
                   /\ UNCHANGED history
  /\ UNCHANGED <<accountVars, xpVars>>

UpdateLevel(t) ==
  /\ task[t].pc = "levelling"
  /\ xp' = IF Exists(task[t].id) THEN {[row EXCEPT !.level = task[t].n] : row \in xp} ELSE xp
  /\ Finish(t)
  /\ UNCHANGED <<accountVars, history, earned, excuses, behind>>
-----------------------------------------------------------------------------
(* /recalculate-xp, one member of it *)

\* For one user it takes an active row, for the whole guild any row.
Recalculate(t) ==
  /\ user.id # 0
  /\ Start(t, [Idle EXCEPT !.pc = "summing", !.id = user.id])
  /\ UNCHANGED <<accountVars, xpVars>>

\* SUM over xp_events only; the sum over event_xp is for display.
SumEvents(t) ==
  /\ task[t].pc = "summing"
  /\ Step(t, [task[t] EXCEPT !.pc = "comparing",
                             !.n = IF Exists(task[t].id) THEN earned ELSE 0])
  /\ UNCHANGED <<accountVars, history, xpVars>>

\* A dry run stops here.
CompareTotal(t) ==
  /\ task[t].pc = "comparing"
  /\ LET total == IF Exists(task[t].id) THEN Row.total ELSE 0
     IN  \/ total # task[t].n /\ Goto(t, "rewriting")
         \/ Finish(t)
  /\ UNCHANGED <<accountVars, history, xpVars>>

RecalculatedMutantKeepsGrants(sum) ==
  {[total |-> sum + granted, level |-> CalculateLevel(sum + granted)] : row \in xp}

\* UPDATE xp SET total_xp, level: nothing when there is no row.
Recalculated(sum) == {[total |-> sum, level |-> CalculateLevel(sum)] : row \in xp}

RewriteXp(t) ==
  /\ task[t].pc = "rewriting"
  /\ IF Exists(task[t].id) /\ xp # {}
     THEN /\ xp' = Recalculated(task[t].n)
          /\ granted' = 0 /\ withheld' = 0
          /\ behind' = Overtaken
     ELSE UNCHANGED <<xp, granted, withheld, behind>>
  /\ Finish(t)
  /\ UNCHANGED <<accountVars, history, earned, raced>>
-----------------------------------------------------------------------------
(* The commands of Accounts as they meet the XP tables *)

\* wipe_user_stats empties them together with the snapshots.
Wipe(t) ==
  /\ WipeUserStats(t)
  /\ IF task'[t].pc = "reactivating" THEN NoXp /\ raced' = Recalculating ELSE UNCHANGED xpVars

\* The rows go with the user.
Delete(t) ==
  /\ DeleteUser(t)
  /\ IF user'.id = user.id THEN UNCHANGED xpVars ELSE NoXp /\ raced' = FALSE

\* A task that is cut short may owe a level.
CutShort(tasks) == behind' = (behind \/ tasks \cap Levelling # {}) /\ UNCHANGED <<earned, xp, excuses>>

AccountStep(t) ==
  \/ Register(t) \/ RegisterButton(t) \/ CheckExisting(t) \/ Reactivate(t)
  \/ RegisterUser(t) \/ SelectUser(t) \/ AddRole(t) \/ RestoreRole(t) \/ Seed(t)
  \/ ForceRegister(t) \/ ForceCheck(t)
  \/ Unregister(t) \/ FindUser(t) \/ RemoveRole(t)
  \/ HandleJoined(t) \/ Greet(t) \/ MarkReturned(t) \/ RewardRole(t)
  \/ Audit(t) \/ LookForMember(t) \/ Fix(t)
  \/ RefreshUser(t) \/ RecordReading(t)

XpStep(t) ==
  \/ CommitRefresh(t)
  \/ ChangeXp(t) \/ IncrementXp(t) \/ AwardAdminEventXp(t) \/ ReadXp(t) \/ UpdateLevel(t)
  \/ Recalculate(t) \/ SumEvents(t) \/ CompareTotal(t) \/ RewriteXp(t)
  \/ Wipe(t) \/ Delete(t)
  \/ (Fail(t) /\ CutShort({t}))

Next ==
  \/ \E t \in Tasks : XpStep(t) \/ (AccountStep(t) /\ UNCHANGED xpVars)
  \/ EarnOnDiscord
  \/ ((Leave \/ Rejoin \/ HandleLeft) /\ UNCHANGED xpVars)
  \/ (Restart /\ CutShort(Tasks))

Spec == Init /\ [][Next]_vars
-----------------------------------------------------------------------------
(* Properties *)

Steps == Changing \cup Using \cup {"idle", "granting", "awarding", "reading", "levelling",
                                   "summing", "comparing", "rewriting"}

\* Every variable keeps its type; at most one row is linked to the member, and
\* nothing is stored for a user who is gone (the foreign keys of register_user's
\* table, which every insert of a task that outlives the row meets).
TypeOK ==
  /\ lastId \in Nat
  /\ user \in [id : {lastId}, active : BOOLEAN, mc : Minecraft] \cup {NoUser}
  /\ baseline \in [Stats -> Minecraft \cup {Nobody}]
  /\ role \in BOOLEAN /\ present \in BOOLEAN /\ notices \subseteq {"left", "joined"}
  /\ task \in [Tasks -> [pc : Steps, id : 0..lastId, mc : Minecraft \cup {Nobody},
                         todo : SUBSET Stats, again : BOOLEAN, n : Int]]
  /\ jobs \in 0..MaxJobs /\ disturbances \in 0..MaxDisturbances
  /\ history \in [DOMAIN NoHistory -> BOOLEAN]
  /\ earned \in Int /\ granted \in Int /\ withheld \in Int
  /\ raced \in BOOLEAN /\ behind \in BOOLEAN
  /\ \A row \in xp : row \in [total : Int, level : 1..LevelCap] /\ xp = {row}
  /\ user.id = 0 => baseline = NoStats /\ earned = 0 /\ xp = {}

\* When nothing is under way, a member with the registered role has an active
\* registration: the role is added before the row on one path, after it on
\* another, and taken after the row is deleted, so only an overlap, a task that
\* gave up, or a member event that was lost may leave the role alone.
RoleMeansRegistered ==
  Quiet /\ notices = {} /\ role =>
    user.active \/ history.tangled \/ history.failed \/ history.missed

\* No delta is ever computed between the readings of two Minecraft accounts,
\* unless a refresh met the change of account or an administrator forced one: a
\* return with another account wipes the statistics, whatever fails on the way.
NoForeignDelta == history.foreign => history.tangled \/ history.forced

\* Snapshots are seeded once: whoever returns keeps the baselines they left with
\* ("Do NOT reseed snapshots here"), so what was played meanwhile still counts.
\* Only a forced registration seeds over them, or commands that met.
SeededOnce == history.reseeded => history.tangled \/ history.forced

\* The total of the xp row is what the rewards on record and the administrators
\* gave, less negative rewards, which no transaction applies; a recalculation
\* settles it at the rewards alone.  Only a reward committed, or a wipe, while one was
\* between its sum and its write may be missed by the total.
TotalAccounted == raced \/ Row.total = earned - withheld + granted

\* Once no command has a level left to write, the stored level is the one of the
\* stored total, which /xp remove may also have taken below zero, unless the
\* command that owed it failed or was overtaken; the next reward repairs it.
LevelOfTotal ==
  Levelling = {} /\ ~behind => \A row \in xp : row.level = CalculateLevel(row.total)

\* What Membership sees: the standing of the member, and the accounts with
\* statistics on record.
Standing == CASE history.tangled -> "unspecified"
              [] ~history.tangled /\ user.id = 0 -> "unknown"
              [] ~history.tangled /\ user.id # 0 /\ user.active -> "active"
              [] OTHER -> "inactive"
OnRecord == {baseline[s] : s \in Stats} \ {Nobody}

\* The commands implement Membership.
Member == INSTANCE Membership WITH status <- Standing, linked <- user.mc, record <- OnRecord

ImplementsMembership == Member!Spec
=============================================================================
