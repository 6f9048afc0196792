---------------------------- MODULE DiscordStats ----------------------------
(***************************************************************************)
(* increment_stat_by and increment_vc_stat_with_custom_xp for one user:    *)
(* every Discord event runs as a task of its own, and each of these steps  *)
(* is one query.  The running total of a stat is read and written back     *)
(* without a lock; the XP is one transaction.  What follows the commit,    *)
(* the award of event XP, changes only event_xp: module EventXp.           *)
(***************************************************************************)
EXTENDS XpRules

CONSTANTS Handlers,         \* the tasks that may run at once
          Stats,            \* names of the Discord stats
          MaxTime,          \* bound: ticks of the clock
          MaxDisturbances   \* bound: failures, restarts, bans, departures, settings

ASSUME HandlersAssumption == Handlers # {} /\ Stats # {}
ASSUME TimeAssumption == MaxTime \in Nat /\ MaxDisturbances \in Nat

VARIABLES
  clock,
  active,  \* users.active
  banned,  \* the latest ban or unban in modrec is a ban in force
  latest,  \* per stat, the row of discord_stats_snapshot that reads find; and as
           \* history how many rows there are, and whether two tasks ever met on them
  ledger,  \* stat_deltas with their xp_events, in commit order
  xp,      \* the xp row
  job,     \* what each task is doing
  disturbances

userVars == <<active, banned>>
rowVars == <<latest, ledger, xp>>

NoStat == "none"
\* free (history): the user was not banned at some moment since the snapshot
NoJob == [pc |-> "idle", stat |-> NoStat, by |-> 0, at |-> 0, old |-> 0, free |-> FALSE,
          next |-> "idle"]
Job(stat, by, next) == [NoJob EXCEPT !.pc = "lookup", !.stat = stat, !.by = by, !.at = clock,
                                     !.next = next]
Idle == {h \in Handlers : job[h].pc = "idle"}

StatsInit ==
  /\ clock = 0
  /\ active = TRUE
  /\ banned = FALSE
  /\ latest = [s \in Stats |-> [value |-> 0, at |-> 0, written |-> 0, met |-> FALSE]]
  /\ ledger = <<>>
  /\ xp = [total |-> 0, level |-> 1]
  /\ job = [h \in Handlers |-> NoJob]
  /\ disturbances = 0

Disturb == disturbances < MaxDisturbances /\ disturbances' = disturbances + 1

Goto(h, pc) == job' = [job EXCEPT ![h].pc = pc]
\* The increment returns to its caller, which has more to do or is done.
Return(h) ==
  IF job[h].next = "idle" THEN job' = [job EXCEPT ![h] = NoJob] ELSE Goto(h, job[h].next)

\* get_user_by_discord_id finds active users only.
LookUp(h) ==
  /\ job[h].pc = "lookup"
  /\ IF active THEN Goto(h, "read") ELSE Return(h)
  /\ UNCHANGED <<userVars, rowVars>>

Steps == {"lookup", "read", "insert", "ban", "commit"}
Meets(h) == \E g \in Handlers \ {h} : job[g].stat = job[h].stat /\ job[g].pc \in Steps

ReadSnapshot(h) ==
  /\ job[h].pc = "read"
  /\ job' = [job EXCEPT ![h].pc = "insert", ![h].old = latest[job[h].stat].value]
  /\ latest' = [latest EXCEPT ![job[h].stat].met = @ \/ Meets(h)]
  /\ UNCHANGED <<userVars, ledger, xp>>

FoundMutantNoId(row, at) == at > row.at
\* Reads order by stamp, then by id: a new row hides the others unless its task
\* began before theirs.
Found(row, at) == at >= row.at

\* The row is stamped with the time the task began.
InsertSnapshot(h) ==
  LET s == job[h].stat
      row == latest[s]
      new == [row EXCEPT !.value = job[h].old + job[h].by, !.at = job[h].at]
  IN  /\ job[h].pc = "insert"
      /\ latest' = [latest EXCEPT ![s] = [(IF Found(row, job[h].at) THEN new ELSE row)
                                            EXCEPT !.written = @ + 1]]
      /\ job' = [job EXCEPT ![h].pc = "ban", ![h].free = ~banned]
      /\ UNCHANGED <<userVars, ledger, xp>>

CheckBanMutantDropped(h) ==
  /\ job[h].pc = "ban"
  /\ Goto(h, "commit")
  /\ UNCHANGED <<userVars, rowVars>>

CheckBan(h) ==
  /\ job[h].pc = "ban"
  /\ IF banned THEN Return(h) ELSE Goto(h, "commit")
  /\ UNCHANGED <<userVars, rowVars>>

CreditedMutantOldLevel(earned) == [xp EXCEPT !.total = xp.total + earned]
Credited(earned) ==
  [total |-> xp.total + earned, level |-> CalculateLevel(xp.total + earned)]

\* One transaction: the stat_delta, its xp_event, the xp row and its level,
\* which is left alone when nothing was earned.
Commit(h, earned) ==
  /\ job[h].pc = "commit"
  /\ ledger' = Append(ledger, [stat |-> job[h].stat, old |-> job[h].old,
                               new |-> job[h].old + job[h].by, earned |-> earned])
  /\ xp' = IF earned > 0 THEN Credited(earned) ELSE xp
  /\ Return(h)
  /\ UNCHANGED <<userVars, latest>>

\* A query fails, or the transaction does: logged, and nothing else is done.
FailIncrement(h) ==
  /\ job[h].pc \in Steps
  /\ Return(h)
  /\ UNCHANGED <<userVars, rowVars>>

\* mark_user_inactive on GuildMemberRemoval or by an audit; a registration or an
\* audit makes the row active again.  That /unregister deletes it is in Accounts.
LeaveOrReturn == active' = ~active /\ UNCHANGED <<banned, rowVars, job>>

\* A ban, an unban, or the end of a ban.
BanOrUnban ==
  /\ banned' = ~banned
  /\ job' = [h \in Handlers |-> [job[h] EXCEPT !.free = @ \/ (banned /\ job[h].pc # "idle")]]
  /\ UNCHANGED <<active, rowVars>>

\* Where a task can be: in an increment, or in what its caller does around it.
Points == Steps \cup {"idle", "duplicate", "cooldown",
                       "state", "join", "leave", "ending", "day", "store"}
StatsTypeOK ==
  /\ clock \in 0..MaxTime
  /\ active \in BOOLEAN /\ banned \in BOOLEAN
  /\ latest \in [Stats -> [value : Nat, at : 0..MaxTime, written : Nat, met : BOOLEAN]]
  /\ ledger \in Seq([stat : Stats, old : Nat, new : Nat, earned : Int])
  /\ xp \in [total : Nat, level : 1..LevelCap]
  /\ job \in [Handlers -> [pc : Points, stat : Stats \cup {NoStat}, by : Nat, at : 0..MaxTime,
                           old : Nat, free : BOOLEAN, next : {"idle", "duplicate"}]]
  /\ disturbances \in 0..MaxDisturbances
=============================================================================
