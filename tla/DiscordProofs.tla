--------------------------- MODULE DiscordProofs ---------------------------
(***************************************************************************)
(* Discord stats.  Messages, reactions and commands: the cooldown, what a  *)
(* ban stops and what the running totals count.  Voice: no session is      *)
(* counted twice, a session is open exactly while the user is where his    *)
(* time counts, and neither a minute nor a day is paid off the curve.  All *)
(* of it for any number of tasks, events, channels, moves, restarts and    *)
(* failures, and whatever curve and levels the configuration gives.        *)
(***************************************************************************)
EXTENDS DiscordActivity, VoiceSessions, XpRulesProofs, TLAPS

Jobs == [pc : Points, stat : Stats \cup {NoStat}, by : Nat, at : 0..MaxTime, old : Nat,
         free : BOOLEAN, next : {"idle", "duplicate"}]
Entries == [stat : Stats, old : Nat, new : Nat, earned : Int]
Row == [value : Nat, at : 0..MaxTime, written : Nat, met : BOOLEAN]

LEMMA PointsAre ==
  \A pc \in {"idle", "state", "join", "leave", "ending", "day", "store", "lookup", "read", "insert",
             "ban", "commit", "duplicate", "cooldown"} : pc \in Points
BY DEF Points, Steps

LEMMA StepsAre ==
  /\ \A pc \in {"lookup", "read", "insert", "ban", "commit"} : pc \in Steps
  /\ \A pc \in {"idle", "state", "join", "leave", "ending", "day", "store", "duplicate",
                "cooldown"} : pc \notin Steps
BY DEF Steps

LEMMA IdleJob ==
  NoJob \in Jobs /\ NoJob.pc = "idle" /\ NoJob.next = "idle" /\ NoJob.stat = NoStat
<1>1. 0 \in 0..MaxTime
  BY TimeAssumption
<1> QED BY <1>1, PointsAre DEF Jobs, NoJob

\* The job of an increment that begins, and that of a task with nothing to do.
LEMMA NewJob ==
  ASSUME clock \in 0..MaxTime, NEW s \in Stats, NEW by \in Nat, NEW next \in {"idle", "duplicate"}
  PROVE  /\ Job(s, by, next) \in Jobs
         /\ Job(s, by, next).pc = "lookup" /\ Job(s, by, next).stat = s
         /\ Job(s, by, next).by = by /\ Job(s, by, next).at = clock
         /\ Job(s, by, next).next = next
<1>1. PICK j : j = [NoJob EXCEPT !.pc = "lookup", !.stat = s, !.by = by, !.at = clock,
                                !.next = next]
  OBVIOUS
<1>2. NoJob \in Jobs /\ "lookup" \in Points
  BY IdleJob, PointsAre
<1>3. /\ j \in Jobs /\ j.pc = "lookup" /\ j.stat = s /\ j.by = by /\ j.at = clock /\ j.next = next
  BY <1>1, <1>2 DEF Jobs
<1>4. Job(s, by, next) = j
  BY <1>1 DEF Job
<1> QED BY <1>3, <1>4

(***************************************************************************)
(* Messages, reactions, commands.                                          *)
(***************************************************************************)
Contents == Texts \cup {Nothing}
Sensible(j, now) ==
  /\ j.pc \in Steps => j.stat \in Stats /\ j.by = 1 /\ j.at <= now
  /\ j.pc \in {"duplicate", "cooldown"} => j.next = "duplicate"
  /\ j.pc = "idle" => j.next = "idle"
AllSensible == \A h \in Handlers : Sensible(job[h], clock)

AType == ActivityTypeOK /\ AllSensible

LEMMA ATypes ==
  ASSUME AType
  PROVE  /\ job \in [Handlers -> Jobs] /\ text \in [Handlers -> Contents]
         /\ \A h \in Handlers : text[h] = Nothing <=> job[h].next = "idle"
         /\ clock \in 0..MaxTime /\ clock \in Nat
         /\ latest \in [Stats -> Row] /\ ledger \in Seq(Entries)
         /\ xp \in [total : Nat, level : 1..LevelCap]
BY TimeAssumption DEF AType, ActivityTypeOK, StatsTypeOK, Jobs, Entries, Row, Contents

\* What is no task's, before and after.
Surroundings ==
  /\ clock \in 0..MaxTime
  /\ active \in BOOLEAN /\ banned \in BOOLEAN
  /\ latest \in [Stats -> Row] /\ ledger \in Seq(Entries)
  /\ xp \in [total : Nat, level : 1..LevelCap]
  /\ disturbances \in 0..MaxDisturbances
  /\ lastMessage \in Contents
  /\ lastCounted \in (0..MaxTime) \cup {Never}
  /\ passed \in Seq(0..MaxTime)
  /\ events \in 0..MaxEvents

LEMMA Surrounded == AType => Surroundings
BY DEF AType, ActivityTypeOK, StatsTypeOK, Entries, Row, Contents, Surroundings

\* One task goes from one job to another.
LEMMA TaskPut ==
  ASSUME AType, NEW h \in Handlers, NEW j \in Jobs, NEW t \in Contents,
         t = Nothing <=> j.next = "idle", Sensible(j, clock),
         job' = [job EXCEPT ![h] = j], text' = [text EXCEPT ![h] = t],
         clock' = clock, Surroundings'
  PROVE  AType'
<1>1. /\ job' \in [Handlers -> Jobs] /\ text' \in [Handlers -> Contents]
      /\ job'[h] = j /\ text'[h] = t
      /\ \A g \in Handlers \ {h} : job'[g] = job[g] /\ text'[g] = text[g]
  BY ATypes
<1>2. \A g \in Handlers : text'[g] = Nothing <=> job'[g].next = "idle"
  BY <1>1, ATypes
<1>3. AllSensible'
  BY <1>1 DEF AType, AllSensible
<1> QED BY <1>1, <1>2, <1>3
        DEF AType, ActivityTypeOK, StatsTypeOK, Jobs, Entries, Row, Contents, Surroundings

\* A message, a reaction or a command arrives.
LEMMA Arriving ==
  ASSUME AType, NEW h \in Handlers, NEW s \in Stats, NEW t \in Contents,
         NEW next \in {"idle", "duplicate"}, t = Nothing <=> next = "idle",
         job' = [job EXCEPT ![h] = Job(s, 1, next)], text' = [text EXCEPT ![h] = t],
         clock' = clock, Surroundings'
  PROVE  AType'
<1>1. PICK j : j = Job(s, 1, next)
  OBVIOUS
<1>2. /\ j \in Jobs /\ j.pc = "lookup" /\ j.stat = s /\ j.by = 1 /\ j.at = clock /\ j.next = next
  BY <1>1, NewJob, ATypes
<1>3. clock <= clock
  BY ATypes
<1>4. Sensible(j, clock)
  BY <1>2, <1>3, StepsAre DEF Sensible
<1> QED BY <1>1, <1>2, <1>4, TaskPut

LEMMA MessageTypes ==
  ASSUME AType, NEW h \in Handlers, NEW t \in Texts \cup {Noise}, Message(h, t)
  PROVE  AType'
<1>1. Surroundings'
  BY Surrounded, ActivityAssumption
     DEF Surroundings, Message, Arrives, userVars, rowVars, memory
<1>2. "raw" \in Stats /\ Nothing \notin Texts
  BY ActivityAssumption
<1>3. CASE Passes(t)
  <2>1. t \in Contents /\ t # Nothing
    BY <1>2, <1>3 DEF Passes, Contents
  <2>2. /\ job' = [job EXCEPT ![h] = Job("raw", 1, "duplicate")]
        /\ text' = [text EXCEPT ![h] = t] /\ clock' = clock
    BY <1>3 DEF Message
  <2> QED BY <1>1, <1>2, <2>1, <2>2, Arriving
<1>4. CASE ~Passes(t)
  <2>1. Nothing \in Contents
    BY DEF Contents
  <2>2. /\ job' = [job EXCEPT ![h] = Job("raw", 1, "idle")]
        /\ text' = [text EXCEPT ![h] = Nothing] /\ clock' = clock
    BY <1>4 DEF Message
  <2> QED BY <1>1, <1>2, <2>1, <2>2, Arriving
<1> QED BY <1>3, <1>4

LEMMA OneOfTypes ==
  ASSUME AType, NEW h \in Handlers, NEW s \in Plain, OneOf(h, s)
  PROVE  AType'
<1>1. Surroundings'
  BY Surrounded, ActivityAssumption
     DEF Surroundings, OneOf, Arrives, userVars, rowVars, memory
<1>2. s \in Stats /\ Nothing \in Contents
  BY ActivityAssumption DEF Contents
<1>3. job[h].pc = "idle" /\ job' = [job EXCEPT ![h] = Job(s, 1, "idle")] /\ text' = text /\ clock' = clock
  BY DEF OneOf, Arrives, Idle
<1>4. text[h] = Nothing
  BY <1>3, ATypes DEF AType, AllSensible, Sensible
<1>5. text' = [text EXCEPT ![h] = Nothing]
  BY <1>3, <1>4, ATypes
<1> QED BY <1>1, <1>2, <1>3, <1>5, Arriving

\* A task drops its message.
LEMMA RejectedTypes ==
  ASSUME AType, NEW h \in Handlers, Rejected(h), clock' = clock, Surroundings'
  PROVE  AType'
<1>1. Nothing \in Contents /\ Sensible(NoJob, clock)
  BY IdleJob, StepsAre DEF Contents, Sensible
<1> QED BY <1>1, IdleJob, TaskPut DEF Rejected

LEMMA CheckDuplicateTypes ==
  ASSUME AType, NEW h \in Handlers, CheckDuplicate(h)
  PROVE  AType'
<1>1. job[h] \in Jobs /\ text[h] \in Contents /\ job[h].pc = "duplicate" /\ clock' = clock
  BY ATypes DEF CheckDuplicate
<1>2. Surroundings'
  BY <1>1, Surrounded DEF Surroundings, CheckDuplicate, Rejected, userVars, rowVars
<1>3. CASE Rejected(h)
  BY <1>1, <1>2, <1>3, RejectedTypes
<1>4. CASE Goto(h, "cooldown") /\ UNCHANGED text
  <2>1. PICK j : j = [job[h] EXCEPT !.pc = "cooldown"]
    OBVIOUS
  <2>2. j \in Jobs /\ j.pc = "cooldown" /\ j.next = job[h].next
    BY <1>1, <2>1, PointsAre DEF Jobs
  <2>3. job[h].next = "duplicate" /\ (text[h] = Nothing <=> job[h].next = "idle")
    BY <1>1, ATypes DEF AType, AllSensible, Sensible
  <2>4. Sensible(j, clock)
    BY <2>2, <2>3, StepsAre DEF Sensible
  <2>5. job' = [job EXCEPT ![h] = j] /\ text' = [text EXCEPT ![h] = text[h]]
    BY <1>4, <2>1, ATypes DEF Goto
  <2> QED BY <1>1, <1>2, <2>2, <2>3, <2>4, <2>5, TaskPut
<1> QED BY <1>3, <1>4 DEF CheckDuplicate

LEMMA CheckCooldownTypes ==
  ASSUME AType, NEW h \in Handlers, CheckCooldown(h)
  PROVE  AType'
<1>1. clock' = clock /\ clock \in 0..MaxTime
  BY ATypes DEF CheckCooldown
<1>2. Surroundings'
  <2>1. passed \in Seq(0..MaxTime) /\ lastCounted \in (0..MaxTime) \cup {Never}
    BY Surrounded DEF Surroundings
  <2>2. Append(passed, clock) \in Seq(0..MaxTime)
    BY <1>1, <2>1
  <2>3. passed' \in Seq(0..MaxTime) /\ lastCounted' \in (0..MaxTime) \cup {Never}
    BY <1>1, <2>1, <2>2 DEF CheckCooldown, CountedAt
  <2>4. UNCHANGED <<clock, userVars, rowVars, lastMessage, events, disturbances>>
    BY DEF CheckCooldown
  <2> QED BY <2>3, <2>4, Surrounded DEF Surroundings, userVars, rowVars
<1>3. CASE Rejected(h)
  BY <1>1, <1>2, <1>3, RejectedTypes
<1>4. CASE /\ job' = [job EXCEPT ![h] = Job("messages", 1, "idle")]
           /\ text' = [text EXCEPT ![h] = Nothing]
  BY <1>1, <1>2, <1>4, Arriving, ActivityAssumption DEF Contents
<1> QED BY <1>3, <1>4 DEF CheckCooldown

-----------------------------------------------------------------------------
\* The increment is over.
LEMMA ReturnTypes ==
  ASSUME AType, NEW h \in Handlers, job[h].pc \in Steps, Return(h), text' = text, clock' = clock,
         Surroundings'
  PROVE  AType'
<1>1. /\ job[h] \in Jobs /\ text[h] \in Contents /\ (text[h] = Nothing <=> job[h].next = "idle")
      /\ text' = [text EXCEPT ![h] = text[h]]
  BY ATypes
<1>2. CASE job[h].next = "idle"
  <2>1. Sensible(NoJob, clock)
    BY IdleJob, StepsAre DEF Sensible
  <2> QED BY <1>1, <1>2, <2>1, IdleJob, TaskPut DEF Return
<1>3. CASE job[h].next # "idle"
  <2>1. job[h].next = "duplicate"
    BY <1>1, <1>3 DEF Jobs
  <2>2. PICK j : j = [job[h] EXCEPT !.pc = "duplicate"]
    OBVIOUS
  <2>3. j \in Jobs /\ j.pc = "duplicate" /\ j.next = "duplicate"
    BY <1>1, <2>1, <2>2, PointsAre DEF Jobs
  <2>4. Sensible(j, clock)
    BY <2>3, StepsAre DEF Sensible
  <2>5. job' = [job EXCEPT ![h] = j]
    BY <1>3, <2>1, <2>2 DEF Return, Goto
  <2> QED BY <1>1, <2>1, <2>3, <2>4, <2>5, TaskPut
<1> QED BY <1>2, <1>3

\* The increment goes on: its task has a new place, and keeps what it counts.
LEMMA GoesOnTypes ==
  ASSUME AType, NEW h \in Handlers, job[h].pc \in Steps, NEW j \in Jobs, j.pc \in Steps,
         j.stat = job[h].stat, j.by = job[h].by, j.at = job[h].at, j.next = job[h].next,
         job' = [job EXCEPT ![h] = j], text' = text, clock' = clock, Surroundings'
  PROVE  AType'
<1>1. /\ text[h] \in Contents /\ (text[h] = Nothing <=> job[h].next = "idle")
      /\ text' = [text EXCEPT ![h] = text[h]]
  BY ATypes
<1>2. Sensible(j, clock)
  BY StepsAre DEF AType, AllSensible, Sensible
<1> QED BY <1>1, <1>2, TaskPut

LEMMA GotoTypes ==
  ASSUME AType, NEW h \in Handlers, job[h].pc \in Steps, NEW pc \in Steps, Goto(h, pc),
         text' = text, clock' = clock, Surroundings'
  PROVE  AType'
<1>1. PICK j : j = [job[h] EXCEPT !.pc = pc]
  OBVIOUS
<1>2. job[h] \in Jobs /\ pc \in Points
  BY ATypes DEF Points
<1>3. /\ j \in Jobs /\ j.pc \in Steps /\ j.stat = job[h].stat /\ j.by = job[h].by
      /\ j.at = job[h].at /\ j.next = job[h].next
  BY <1>1, <1>2 DEF Jobs
<1>4. job' = [job EXCEPT ![h] = j]
  BY <1>1 DEF Goto
<1> QED BY <1>3, <1>4, GoesOnTypes

\* A ban, or its end, changes of a task only what it knows of bans.
LEMMA BanIs ==
  ASSUME job \in [Handlers -> Jobs], BanOrUnban
  PROVE  /\ job' \in [Handlers -> Jobs]
         /\ \A h \in Handlers :
              /\ job'[h].pc = job[h].pc /\ job'[h].next = job[h].next
              /\ job'[h].stat = job[h].stat /\ job'[h].by = job[h].by
              /\ job'[h].at = job[h].at /\ job'[h].old = job[h].old
              /\ job'[h].free = (job[h].free \/ (banned /\ job[h].pc # "idle"))
<1>1. job' = [h \in Handlers |-> [job[h] EXCEPT !.free = @ \/ (banned /\ job[h].pc # "idle")]]
  BY DEF BanOrUnban
<1>2. ASSUME NEW h \in Handlers
      PROVE  /\ job'[h] \in Jobs /\ job'[h].pc = job[h].pc /\ job'[h].next = job[h].next
             /\ job'[h].stat = job[h].stat /\ job'[h].by = job[h].by
             /\ job'[h].at = job[h].at /\ job'[h].old = job[h].old
             /\ job'[h].free = (job[h].free \/ (banned /\ job[h].pc # "idle"))
  <2>1. PICK f \in BOOLEAN : f = (job[h].free \/ (banned /\ job[h].pc # "idle"))
    OBVIOUS
  <2>2. PICK j : j = [job[h] EXCEPT !.free = f]
    OBVIOUS
  <2>3. job[h] \in Jobs
    OBVIOUS
  <2>4. /\ j \in Jobs /\ j.pc = job[h].pc /\ j.next = job[h].next /\ j.stat = job[h].stat
        /\ j.by = job[h].by /\ j.at = job[h].at /\ j.old = job[h].old /\ j.free = f
    BY <2>2, <2>3 DEF Jobs
  <2>5. job'[h] = j
    BY <1>1, <2>1, <2>2
  <2> QED BY <2>1, <2>4, <2>5
<1> QED BY <1>1, <1>2

\* What a read of the running total does to the task and to the row.
LEMMA ReadIs ==
  ASSUME job \in [Handlers -> Jobs], latest \in [Stats -> Row], NEW h \in Handlers,
         NEW s \in Stats, job[h].stat = s, ReadSnapshot(h)
  PROVE  \E j \in Jobs, row \in Row :
           /\ job' = [job EXCEPT ![h] = j] /\ latest' = [latest EXCEPT ![s] = row]
           /\ j.pc = "insert" /\ j.stat = s /\ j.by = job[h].by /\ j.at = job[h].at
           /\ j.next = job[h].next /\ j.old = latest[s].value
           /\ row.value = latest[s].value /\ row.at = latest[s].at
           /\ row.written = latest[s].written /\ row.met = (latest[s].met \/ Meets(h))
<1>1. PICK r : r = latest[s]
  OBVIOUS
<1>2. PICK m \in BOOLEAN : m = (r.met \/ Meets(h))
  OBVIOUS
<1>3. PICK row : row = [r EXCEPT !.met = m]
  OBVIOUS
<1>4. PICK j : j = [job[h] EXCEPT !.pc = "insert", !.old = r.value]
  OBVIOUS
<1>5. r \in Row /\ job[h] \in Jobs
  BY <1>1
<1>6. /\ row \in Row /\ row.value = r.value /\ row.at = r.at /\ row.written = r.written
      /\ row.met = m
  BY <1>3, <1>5 DEF Row
<1>7. /\ j \in Jobs /\ j.pc = "insert" /\ j.stat = s /\ j.by = job[h].by /\ j.at = job[h].at
      /\ j.next = job[h].next /\ j.old = r.value
  BY <1>4, <1>5, PointsAre DEF Jobs, Row
<1>8. job' = [job EXCEPT ![h] = j]
  BY <1>1, <1>4 DEF ReadSnapshot
<1>9. latest' = [latest EXCEPT ![s] = row]
  BY <1>1, <1>2, <1>3 DEF ReadSnapshot
<1> QED BY <1>1, <1>2, <1>6, <1>7, <1>8, <1>9

\* What the insert of a running total does to the task and to the row.
LEMMA InsertIs ==
  ASSUME job \in [Handlers -> Jobs], latest \in [Stats -> Row], NEW h \in Handlers,
         NEW s \in Stats, job[h].stat = s, InsertSnapshot(h)
  PROVE  \E j \in Jobs, row \in Row :
           /\ job' = [job EXCEPT ![h] = j] /\ latest' = [latest EXCEPT ![s] = row]
           /\ j.pc = "ban" /\ j.stat = s /\ j.by = job[h].by /\ j.at = job[h].at
           /\ j.next = job[h].next /\ j.free = ~banned
           /\ row.written = latest[s].written + 1 /\ row.met = latest[s].met
           /\ job[h].at >= latest[s].at =>
                row.value = job[h].old + job[h].by /\ row.at = job[h].at
<1>1. PICK r : r = latest[s]
  OBVIOUS
<1>2. PICK sum : sum = job[h].old + job[h].by
  OBVIOUS
<1>3. PICK new : new = [r EXCEPT !.value = sum, !.at = job[h].at]
  OBVIOUS
<1>4. PICK found : found = IF Found(r, job[h].at) THEN new ELSE r
  OBVIOUS
<1>5. PICK row : row = [found EXCEPT !.written = @ + 1]
  OBVIOUS
<1>6. PICK f \in BOOLEAN : f = ~banned
  OBVIOUS
<1>7. PICK j : j = [job[h] EXCEPT !.pc = "ban", !.free = f]
  OBVIOUS
<1>8. r \in Row /\ job[h] \in Jobs
  BY <1>1
<1>9. sum \in Nat /\ job[h].at \in 0..MaxTime
  BY <1>2, <1>8 DEF Jobs
<1>10. /\ new \in Row /\ new.value = sum /\ new.at = job[h].at /\ new.written = r.written
       /\ new.met = r.met
  BY <1>3, <1>8, <1>9 DEF Row
<1>11. /\ found \in Row /\ found.written = r.written /\ found.met = r.met
       /\ Found(r, job[h].at) => found.value = sum /\ found.at = job[h].at
  BY <1>4, <1>8, <1>10
<1>12. /\ row \in Row /\ row.written = r.written + 1 /\ row.met = r.met
       /\ row.value = found.value /\ row.at = found.at
  BY <1>5, <1>11 DEF Row
<1>13. /\ j \in Jobs /\ j.pc = "ban" /\ j.stat = s /\ j.by = job[h].by /\ j.at = job[h].at
       /\ j.next = job[h].next /\ j.free = f
  BY <1>7, <1>8, PointsAre DEF Jobs
<1>14. job' = [job EXCEPT ![h] = j]
  BY <1>6, <1>7 DEF InsertSnapshot
<1>15. latest' = [latest EXCEPT ![s] = row]
  BY <1>1, <1>2, <1>3, <1>4, <1>5 DEF InsertSnapshot
<1> QED BY <1>1, <1>2, <1>6, <1>11, <1>12, <1>13, <1>14, <1>15 DEF Found

\* What a commit does to the ledger and to the xp row.
LEMMA CommitIs ==
  ASSUME job \in [Handlers -> Jobs], ledger \in Seq(Entries),
         xp \in [total : Nat, level : 1..LevelCap], NEW h \in Handlers,
         job[h].stat \in Stats, NEW earned \in Int, Commit(h, earned)
  PROVE  /\ \E e \in Entries :
              /\ ledger' = Append(ledger, e)
              /\ e.earned = earned /\ e.new = e.old + job[h].by
         /\ xp' \in [total : Nat, level : 1..LevelCap]
         /\ xp' = IF earned > 0 THEN Credited(earned) ELSE xp
<1>1. PICK e : e = [stat |-> job[h].stat, old |-> job[h].old, new |-> job[h].old + job[h].by,
                    earned |-> earned]
  OBVIOUS
<1>2. job[h].old \in Nat /\ job[h].by \in Nat
  BY DEF Jobs
<1>3. e \in Entries /\ e.earned = earned /\ e.new = e.old + job[h].by
  BY <1>1, <1>2 DEF Entries
<1>4. ledger' = Append(ledger, e)
  BY <1>1 DEF Commit
<1>5. ASSUME earned > 0
      PROVE  Credited(earned) \in [total : Nat, level : 1..LevelCap]
  <2>1. xp.total + earned \in Nat
    BY <1>5
  <2>2. CalculateLevel(xp.total + earned) \in 1..LevelCap
    BY <2>1, CalculateLevelInBand
  <2> QED BY <2>1, <2>2 DEF Credited
<1>6. xp' = IF earned > 0 THEN Credited(earned) ELSE xp
  BY DEF Commit
<1>7. xp' \in [total : Nat, level : 1..LevelCap]
  BY <1>5, <1>6
<1> QED BY <1>3, <1>4, <1>6, <1>7

\* Each step of an increment.
LEMMA IncrementTypes ==
  ASSUME AType, NEW h \in Handlers, IncrementStat(h)
  PROVE  AType'
<1>1. /\ text' = text /\ clock' = clock
      /\ UNCHANGED <<lastMessage, lastCounted, passed, events, disturbances>>
  BY DEF IncrementStat, memory
<1>2. /\ job \in [Handlers -> Jobs] /\ job[h] \in Jobs /\ latest \in [Stats -> Row]
      /\ ledger \in Seq(Entries) /\ xp \in [total : Nat, level : 1..LevelCap]
  BY ATypes
<1>3. job[h].pc \in Steps => job[h].stat \in Stats /\ job[h].by = 1
  BY DEF AType, AllSensible, Sensible
<1>4. \A pc \in {"lookup", "read", "insert", "ban", "commit"} : pc \in Steps
  BY StepsAre
<1>5. CASE LookUp(h) \/ CheckBan(h)
  <2>1. Surroundings'
    BY <1>1, <1>5, Surrounded DEF Surroundings, LookUp, CheckBan, userVars, rowVars
  <2>2. job[h].pc \in Steps /\ (Return(h) \/ Goto(h, "read") \/ Goto(h, "commit"))
    BY <1>4, <1>5 DEF LookUp, CheckBan
  <2>3. "read" \in Steps /\ "commit" \in Steps
    BY <1>4
  <2>4. CASE Return(h)
    BY <1>1, <2>1, <2>2, <2>4, ReturnTypes
  <2>5. CASE Goto(h, "read") \/ Goto(h, "commit")
    BY <1>1, <2>1, <2>2, <2>3, <2>5, GotoTypes
  <2> QED BY <2>2, <2>4, <2>5
<1>6. CASE ReadSnapshot(h)
  <2>1. job[h].pc \in Steps /\ job[h].stat \in Stats /\ UNCHANGED <<userVars, ledger, xp>>
    BY <1>3, <1>4, <1>6 DEF ReadSnapshot
  <2>2. PICK j \in Jobs, row \in Row :
          /\ job' = [job EXCEPT ![h] = j] /\ latest' = [latest EXCEPT ![job[h].stat] = row]
          /\ j.pc = "insert" /\ j.stat = job[h].stat /\ j.by = job[h].by /\ j.at = job[h].at
          /\ j.next = job[h].next
    BY <1>2, <1>6, <2>1, ReadIs
  <2>3. Surroundings'
    BY <1>1, <1>2, <2>1, <2>2, Surrounded DEF Surroundings, userVars
  <2> QED BY <1>1, <1>4, <2>1, <2>2, <2>3, GoesOnTypes
<1>7. CASE InsertSnapshot(h)
  <2>1. job[h].pc \in Steps /\ job[h].stat \in Stats /\ UNCHANGED <<userVars, ledger, xp>>
    BY <1>3, <1>4, <1>7 DEF InsertSnapshot
  <2>2. PICK j \in Jobs, row \in Row :
          /\ job' = [job EXCEPT ![h] = j] /\ latest' = [latest EXCEPT ![job[h].stat] = row]
          /\ j.pc = "ban" /\ j.stat = job[h].stat /\ j.by = job[h].by /\ j.at = job[h].at
          /\ j.next = job[h].next
    BY <1>2, <1>7, <2>1, InsertIs
  <2>3. Surroundings'
    BY <1>1, <1>2, <2>1, <2>2, Surrounded DEF Surroundings, userVars
  <2> QED BY <1>1, <1>4, <2>1, <2>2, <2>3, GoesOnTypes
<1>8. ASSUME NEW rate \in Rates[job[h].stat], job[h].pc = "commit", Commit(h, job[h].by * rate)
      PROVE  AType'
  <2>1. job[h].pc \in Steps /\ job[h].stat \in Stats /\ job[h].by = 1
    BY <1>3, <1>4, <1>8
  <2>2. rate \in Int /\ job[h].by * rate = rate
    BY <1>8, <2>1, ActivityAssumption
  <2>3. Commit(h, rate)
    BY <1>8, <2>2
  <2>4. ledger' \in Seq(Entries) /\ xp' \in [total : Nat, level : 1..LevelCap]
    <3>1. PICK e \in Entries : ledger' = Append(ledger, e)
      BY <1>2, <2>1, <2>2, <2>3, CommitIs
    <3>2. xp' \in [total : Nat, level : 1..LevelCap]
      BY <1>2, <2>1, <2>2, <2>3, CommitIs
    <3> QED BY <1>2, <3>1, <3>2
  <2>5. UNCHANGED <<userVars, latest>> /\ Return(h)
    BY <2>3 DEF Commit
  <2>6. Surroundings'
    BY <1>1, <2>4, <2>5, Surrounded DEF Surroundings, userVars
  <2> QED BY <1>1, <2>1, <2>5, <2>6, ReturnTypes
<1> QED BY <1>5, <1>6, <1>7, <1>8 DEF IncrementStat

LEMMA FailTypes ==
  ASSUME AType, NEW h \in Handlers, Fail(h)
  PROVE  AType'
<1>1. /\ text' = text /\ clock' = clock /\ job[h].pc \in Steps /\ Return(h)
  BY DEF Fail, FailIncrement
<1>2. Surroundings'
  BY TimeAssumption, Surrounded
     DEF Surroundings, Fail, FailIncrement, Disturb, userVars, rowVars, memory
<1> QED BY <1>1, <1>2, ReturnTypes

LEMMA MemberChangesTypes ==
  ASSUME AType, MemberChanges
  PROVE  AType'
<1>1. /\ clock' = clock /\ text' = text
      /\ UNCHANGED <<rowVars, lastMessage, lastCounted, passed, events>>
      /\ disturbances' \in 0..MaxDisturbances
  BY TimeAssumption, Surrounded
     DEF MemberChanges, LeaveOrReturn, BanOrUnban, Disturb, Surroundings, memory
<1>2. active' \in BOOLEAN /\ banned' \in BOOLEAN
  BY Surrounded DEF MemberChanges, LeaveOrReturn, BanOrUnban, Surroundings
<1>3. Surroundings'
  BY <1>1, <1>2, Surrounded DEF Surroundings, rowVars
<1>4. /\ job' \in [Handlers -> Jobs]
      /\ \A h \in Handlers : job'[h].next = job[h].next /\ job'[h].pc = job[h].pc
                             /\ job'[h].stat = job[h].stat /\ job'[h].by = job[h].by
                             /\ job'[h].at = job[h].at
  <2>1. CASE LeaveOrReturn
    BY <2>1, ATypes DEF LeaveOrReturn
  <2>2. CASE BanOrUnban
    BY <2>2, ATypes, BanIs
  <2> QED BY <2>1, <2>2 DEF MemberChanges
<1>5. AllSensible'
  BY <1>1, <1>4 DEF AType, AllSensible, Sensible
<1>6. \A h \in Handlers : text'[h] = Nothing <=> job'[h].next = "idle"
  BY <1>1, <1>4, ATypes
<1> QED BY <1>1, <1>3, <1>4, <1>5, <1>6
        DEF AType, ActivityTypeOK, StatsTypeOK, Jobs, Entries, Row, Contents, Surroundings

\* The process dies, and with it every task and both maps.
LEMMA ProcessRestartsTypes ==
  ASSUME AType, ProcessRestarts
  PROVE  AType'
<1>1. Surroundings'
  BY TimeAssumption, Surrounded
     DEF Surroundings, ProcessRestarts, Disturb, userVars, rowVars, Contents
<1>2. /\ job' \in [Handlers -> Jobs] /\ text' \in [Handlers -> Contents]
      /\ \A h \in Handlers : job'[h] = NoJob /\ text'[h] = Nothing
  BY IdleJob DEF ProcessRestarts, Contents
<1>3. AllSensible'
  BY <1>2, IdleJob, StepsAre DEF AllSensible, Sensible
<1> QED BY <1>1, <1>2, <1>3, IdleJob
        DEF AType, ActivityTypeOK, StatsTypeOK, Jobs, Entries, Row, Contents, Surroundings

LEMMA TimePassesTypes ==
  ASSUME AType, TimePasses
  PROVE  AType'
<1>1. clock' \in 0..MaxTime /\ clock' = clock + 1 /\ job' = job /\ text' = text
  BY TimeAssumption, ATypes DEF TimePasses
<1>2. Surroundings'
  BY <1>1, Surrounded DEF Surroundings, TimePasses, userVars, rowVars, memory
<1>3. AllSensible'
  <2>1. \A h \in Handlers : job[h].at \in Nat /\ clock \in Nat
    BY ATypes DEF Jobs
  <2> QED BY <1>1, <2>1 DEF AType, AllSensible, Sensible
<1> QED BY <1>1, <1>2, <1>3, ATypes
        DEF AType, ActivityTypeOK, StatsTypeOK, Jobs, Entries, Row, Contents, Surroundings

LEMMA ActivityInitTypes == ActivityInit => AType
<1> SUFFICES ASSUME ActivityInit PROVE AType
  OBVIOUS
<1>1. 0 \in 0..MaxTime /\ 1 \in 1..LevelCap /\ 0 \in 0..MaxEvents /\ 0 \in 0..MaxDisturbances
  BY TimeAssumption, LevelAssumption, ActivityAssumption
<1>2. latest \in [Stats -> Row] /\ xp \in [total : Nat, level : 1..LevelCap]
  BY <1>1 DEF ActivityInit, StatsInit, Row
<1>3. Surroundings
  <2>1. /\ clock = 0 /\ active = TRUE /\ banned = FALSE /\ disturbances = 0 /\ events = 0
        /\ lastMessage = Nothing /\ lastCounted = Never
    BY DEF ActivityInit, StatsInit
  <2>2. ledger \in Seq(Entries) /\ passed \in Seq(0..MaxTime)
    BY DEF ActivityInit, StatsInit
  <2> QED BY <1>1, <1>2, <2>1, <2>2 DEF Surroundings, Contents
<1>4. /\ job \in [Handlers -> Jobs] /\ text \in [Handlers -> Contents]
      /\ \A h \in Handlers : job[h] = NoJob /\ text[h] = Nothing
  BY IdleJob DEF ActivityInit, StatsInit, Contents
<1>5. AllSensible
  BY <1>4, IdleJob, StepsAre DEF AllSensible, Sensible
<1> QED BY <1>3, <1>4, <1>5, IdleJob
        DEF AType, ActivityTypeOK, StatsTypeOK, Jobs, Entries, Row, Contents, Surroundings

LEMMA ActivityTypesStep == AType /\ [ActivityNext]_activityVars => AType'
<1> SUFFICES ASSUME AType, [ActivityNext]_activityVars PROVE AType'
  OBVIOUS
<1>1. CASE UNCHANGED activityVars
  BY <1>1 DEF AType, ActivityTypeOK, StatsTypeOK, AllSensible, activityVars, userVars, rowVars,
              memory
<1>2. ASSUME NEW h \in Handlers, HandleEvent(h)
      PROVE  AType'
  BY <1>2, MessageTypes, OneOfTypes, CheckDuplicateTypes, CheckCooldownTypes, IncrementTypes,
     FailTypes DEF HandleEvent
<1> QED BY <1>1, <1>2, MemberChangesTypes, ProcessRestartsTypes, TimePassesTypes DEF ActivityNext

-----------------------------------------------------------------------------
\* What a step of one task does: it begins an increment, is done with one or
\* with a message, goes on to its read or its commit, reads, or inserts.
Begun(h, j) ==
  /\ j.pc = "lookup" /\ j.stat \in Stats /\ j.by = 1 /\ j.at = clock
  /\ UNCHANGED latest
Away(h, j) == j.pc \in {"idle", "duplicate", "cooldown"} /\ UNCHANGED latest
GoneOn(h, j) ==
  /\ job[h].pc \in Steps
  /\ j.stat = job[h].stat /\ j.at = job[h].at /\ j.free = job[h].free
  /\ j.pc = "read" \/ (j.pc = "commit" /\ job[h].pc = "ban" /\ ~banned)
  /\ UNCHANGED latest
HasRead(h, j) ==
  LET s == job[h].stat
  IN  /\ job[h].pc = "read" /\ s \in Stats
      /\ j.pc = "insert" /\ j.stat = s /\ j.at = job[h].at /\ j.old = latest[s].value
      /\ \E row \in Row :
           /\ latest' = [latest EXCEPT ![s] = row]
           /\ row.value = latest[s].value /\ row.at = latest[s].at
           /\ row.written = latest[s].written /\ row.met = (latest[s].met \/ Meets(h))
HasInserted(h, j) ==
  LET s == job[h].stat
  IN  /\ job[h].pc = "insert" /\ s \in Stats
      /\ j.pc = "ban" /\ j.stat = s /\ j.at = job[h].at /\ j.free = ~banned
      /\ \E row \in Row :
           /\ latest' = [latest EXCEPT ![s] = row]
           /\ row.written = latest[s].written + 1 /\ row.met = latest[s].met
           /\ job[h].at >= latest[s].at => row.value = job[h].old + 1 /\ row.at = job[h].at

Did(h, j) ==
  /\ job' = [job EXCEPT ![h] = j]
  /\ Begun(h, j) \/ Away(h, j) \/ GoneOn(h, j) \/ HasRead(h, j) \/ HasInserted(h, j)

LEMMA OutOfSteps ==
  ASSUME AType, NEW h \in Handlers, Return(h)
  PROVE  \E j \in Jobs : /\ job' = [job EXCEPT ![h] = j]
                         /\ j.pc \in {"idle", "duplicate"}
<1>1. CASE job[h].next = "idle"
  BY <1>1, IdleJob DEF Return
<1>2. CASE job[h].next # "idle"
  <2>1. PICK j : j = [job[h] EXCEPT !.pc = "duplicate"]
    OBVIOUS
  <2>2. job[h] \in Jobs
    BY ATypes
  <2>3. job[h].next = "duplicate"
    BY <1>2, <2>2 DEF Jobs
  <2>4. j \in Jobs /\ j.pc = "duplicate"
    BY <2>1, <2>2, PointsAre DEF Jobs
  <2>5. job' = [job EXCEPT ![h] = j]
    BY <1>2, <2>1, <2>3 DEF Return, Goto
  <2> QED BY <2>4, <2>5
<1> QED BY <1>1, <1>2

LEMMA GoingIs ==
  ASSUME AType, NEW h \in Handlers, NEW pc \in Points, Goto(h, pc)
  PROVE  \E j \in Jobs :
           /\ job' = [job EXCEPT ![h] = j] /\ j.pc = pc
           /\ j.stat = job[h].stat /\ j.at = job[h].at /\ j.free = job[h].free
<1>1. PICK j : j = [job[h] EXCEPT !.pc = pc]
  OBVIOUS
<1>2. job[h] \in Jobs
  BY ATypes
<1>3. /\ j \in Jobs /\ j.pc = pc /\ j.stat = job[h].stat /\ j.at = job[h].at
      /\ j.free = job[h].free
  BY <1>1, <1>2 DEF Jobs
<1>4. job' = [job EXCEPT ![h] = j]
  BY <1>1 DEF Goto
<1> QED BY <1>3, <1>4

LEMMA StepIs ==
  ASSUME AType, NEW h \in Handlers, HandleEvent(h)
  PROVE  \E j \in Jobs : Did(h, j)
<1>1. /\ job \in [Handlers -> Jobs] /\ latest \in [Stats -> Row] /\ clock \in 0..MaxTime
  BY ATypes
<1>2. job[h].pc \in Steps => job[h].stat \in Stats /\ job[h].by = 1
  BY DEF AType, AllSensible, Sensible
<1>3. \A s \in Stats : \A next \in {"idle", "duplicate"} :
        job' = [job EXCEPT ![h] = Job(s, 1, next)] /\ UNCHANGED latest => \E j \in Jobs : Did(h, j)
  <2> SUFFICES ASSUME NEW s \in Stats, NEW next \in {"idle", "duplicate"},
                      job' = [job EXCEPT ![h] = Job(s, 1, next)], UNCHANGED latest
               PROVE  \E j \in Jobs : Did(h, j)
    OBVIOUS
  <2>1. PICK j : j = Job(s, 1, next)
    OBVIOUS
  <2>2. j \in Jobs /\ j.pc = "lookup" /\ j.stat = s /\ j.by = 1 /\ j.at = clock
    BY <1>1, <2>1, NewJob
  <2>3. Begun(h, j)
    BY <2>2 DEF Begun
  <2> QED BY <2>1, <2>2, <2>3 DEF Did
<1>4. CASE \/ \E t \in Texts \cup {Noise} : Message(h, t)
           \/ \E s \in Plain : OneOf(h, s)
  <2>1. "raw" \in Stats /\ Plain \subseteq Stats
    BY ActivityAssumption
  <2>2. UNCHANGED <<clock, userVars, latest>>
    BY <1>4 DEF Message, OneOf, rowVars
  <2>3. \E s \in Stats : \E next \in {"idle", "duplicate"} : job' = [job EXCEPT ![h] = Job(s, 1, next)]
    BY <1>4, <2>1 DEF Message, OneOf
  <2> QED BY <1>3, <2>2, <2>3
<1>5. CASE CheckDuplicate(h)
  <2>1. UNCHANGED <<clock, userVars, latest>> /\ (Rejected(h) \/ Goto(h, "cooldown"))
    BY <1>5 DEF CheckDuplicate, rowVars
  <2>2. CASE Rejected(h)
    <3>1. Did(h, NoJob)
      BY <2>1, <2>2, IdleJob DEF Rejected, Away, Did
    <3> QED BY <2>1, <3>1, IdleJob
  <2>3. CASE Goto(h, "cooldown")
    <3>1. PICK j \in Jobs : job' = [job EXCEPT ![h] = j] /\ j.pc = "cooldown"
      BY <2>3, GoingIs, PointsAre
    <3> QED BY <2>1, <3>1 DEF Away, Did
  <2> QED BY <2>1, <2>2, <2>3
<1>6. CASE CheckCooldown(h)
  <2>1. /\ UNCHANGED <<clock, userVars, latest>>
        /\ Rejected(h) \/ job' = [job EXCEPT ![h] = Job("messages", 1, "idle")]
    BY <1>6 DEF CheckCooldown, rowVars
  <2>2. CASE Rejected(h)
    <3>1. Did(h, NoJob)
      BY <2>1, <2>2, IdleJob DEF Rejected, Away, Did
    <3> QED BY <2>1, <3>1, IdleJob
  <2>3. "messages" \in Stats
    BY ActivityAssumption
  <2> QED BY <1>3, <2>1, <2>2, <2>3
<1>7. ASSUME Return(h), UNCHANGED latest
      PROVE  \E j \in Jobs : Did(h, j)
  <2>1. PICK j \in Jobs : job' = [job EXCEPT ![h] = j] /\ j.pc \in {"idle", "duplicate"}
    BY <1>7, OutOfSteps
  <2> QED BY <1>7, <2>1 DEF Away, Did
<1>8. CASE LookUp(h) \/ CheckBan(h)
  <2>1. UNCHANGED <<userVars, latest>> /\ job[h].pc \in Steps
    BY <1>8, StepsAre DEF LookUp, CheckBan, rowVars
  <2>2. CASE Goto(h, "read")
    <3>1. PICK j \in Jobs : /\ job' = [job EXCEPT ![h] = j] /\ j.pc = "read"
                            /\ j.stat = job[h].stat /\ j.at = job[h].at /\ j.free = job[h].free
      BY <2>2, GoingIs, PointsAre
    <3>2. Did(h, j)
      BY <2>1, <3>1 DEF GoneOn, Did
    <3> QED BY <3>1, <3>2
  <2>3. CASE Goto(h, "commit") /\ job[h].pc = "ban" /\ ~banned
    <3>1. PICK j \in Jobs : /\ job' = [job EXCEPT ![h] = j] /\ j.pc = "commit"
                            /\ j.stat = job[h].stat /\ j.at = job[h].at /\ j.free = job[h].free
      BY <2>3, GoingIs, PointsAre
    <3>2. Did(h, j)
      BY <2>1, <2>3, <3>1 DEF GoneOn, Did
    <3> QED BY <3>1, <3>2
  <2>4. Return(h) \/ Goto(h, "read") \/ (Goto(h, "commit") /\ job[h].pc = "ban" /\ ~banned)
    BY <1>8 DEF LookUp, CheckBan
  <2> QED BY <1>7, <2>1, <2>2, <2>3, <2>4
<1>9. CASE ReadSnapshot(h)
  <2>1. job[h].pc = "read" /\ job[h].stat \in Stats /\ UNCHANGED userVars
    BY <1>2, <1>9, StepsAre DEF ReadSnapshot
  <2>2. PICK j \in Jobs, row \in Row :
          /\ job' = [job EXCEPT ![h] = j] /\ latest' = [latest EXCEPT ![job[h].stat] = row]
          /\ j.pc = "insert" /\ j.stat = job[h].stat /\ j.at = job[h].at
          /\ j.old = latest[job[h].stat].value
          /\ row.value = latest[job[h].stat].value /\ row.at = latest[job[h].stat].at
          /\ row.written = latest[job[h].stat].written
          /\ row.met = (latest[job[h].stat].met \/ Meets(h))
    BY <1>1, <1>9, <2>1, ReadIs
  <2>3. HasRead(h, j)
    BY <2>1, <2>2 DEF HasRead
  <2> QED BY <2>2, <2>3 DEF Did
<1>10. CASE InsertSnapshot(h)
  <2>1. /\ job[h].pc = "insert" /\ job[h].stat \in Stats /\ job[h].by = 1 /\ UNCHANGED userVars
    BY <1>2, <1>10, StepsAre DEF InsertSnapshot
  <2>2. PICK j \in Jobs, row \in Row :
          /\ job' = [job EXCEPT ![h] = j] /\ latest' = [latest EXCEPT ![job[h].stat] = row]
          /\ j.pc = "ban" /\ j.stat = job[h].stat /\ j.at = job[h].at /\ j.free = ~banned
          /\ row.written = latest[job[h].stat].written + 1
          /\ row.met = latest[job[h].stat].met
          /\ job[h].at >= latest[job[h].stat].at =>
               row.value = job[h].old + job[h].by /\ row.at = job[h].at
    BY <1>1, <1>10, <2>1, InsertIs
  <2>3. HasInserted(h, j)
    BY <2>1, <2>2 DEF HasInserted
  <2> QED BY <2>2, <2>3 DEF Did
<1>11. CASE \E rate \in Rates[job[h].stat] : Commit(h, job[h].by * rate)
  <2>1. Return(h) /\ UNCHANGED latest
    BY <1>11 DEF Commit
  <2> QED BY <1>7, <2>1
<1>12. CASE Fail(h)
  BY <1>7, <1>12 DEF Fail, FailIncrement, rowVars
<1> QED BY <1>4, <1>5, <1>6, <1>8, <1>9, <1>10, <1>11, <1>12, Zenon DEF HandleEvent, IncrementStat

\* No task moves the clock or changes the user.
LEMMA StepLeaves ==
  ASSUME NEW h \in Handlers, HandleEvent(h)
  PROVE  UNCHANGED <<clock, userVars>>
<1>1. clock' = clock
  BY DEF HandleEvent, Message, OneOf, CheckDuplicate, CheckCooldown, IncrementStat, Fail
<1>2. UNCHANGED userVars
  BY DEF HandleEvent, Message, OneOf, CheckDuplicate, CheckCooldown, IncrementStat, Fail,
         LookUp, ReadSnapshot, InsertSnapshot, CheckBan, Commit, FailIncrement
<1> QED BY <1>1, <1>2

-----------------------------------------------------------------------------
(* Bans *)

\* What a task knows of a ban: past the insert, a user who was not free of bans
\* is banned now; past the check, he was free at some moment since the insert.
BansSeen ==
  \A h \in Handlers :
    /\ job[h].pc = "ban" => banned \/ job[h].free
    /\ job[h].pc = "commit" => job[h].free

LEMMA BansStep == AType /\ BansSeen /\ [ActivityNext]_activityVars => BansSeen'
<1> SUFFICES ASSUME AType, BansSeen, [ActivityNext]_activityVars PROVE BansSeen'
  OBVIOUS
<1>1. ASSUME NEW h \in Handlers, HandleEvent(h)
      PROVE  BansSeen'
  <2>1. banned' = banned
    BY <1>1, StepLeaves DEF userVars
  <2>2. PICK j \in Jobs : Did(h, j)
    BY <1>1, StepIs
  <2>3. job'[h] = j /\ \A g \in Handlers \ {h} : job'[g] = job[g]
    BY <2>2, ATypes DEF Did
  <2>4. j.pc = "ban" => banned \/ j.free
    BY <2>2, Zenon DEF Did, Begun, Away, GoneOn, HasRead, HasInserted
  <2>5. j.pc = "commit" => j.free
    BY <2>2 DEF Did, Begun, Away, GoneOn, HasRead, HasInserted, BansSeen
  <2> QED BY <2>1, <2>3, <2>4, <2>5 DEF BansSeen
<1>2. CASE MemberChanges
  <2>1. CASE BanOrUnban
    <3>1. banned' = ~banned
      BY <2>1 DEF BanOrUnban
    <3>2. \A h \in Handlers : job'[h].pc = job[h].pc
            /\ job'[h].free = (job[h].free \/ (banned /\ job[h].pc # "idle"))
      BY <2>1, ATypes, BanIs
    <3> QED BY <3>1, <3>2 DEF BansSeen
  <2>2. CASE LeaveOrReturn
    BY <2>2 DEF LeaveOrReturn, BansSeen
  <2> QED BY <1>2, <2>1, <2>2 DEF MemberChanges
<1>3. CASE ProcessRestarts
  BY <1>3, IdleJob DEF ProcessRestarts, BansSeen
<1>4. CASE TimePasses \/ UNCHANGED activityVars
  BY <1>4 DEF TimePasses, BansSeen, activityVars, userVars
<1> QED BY <1>1, <1>2, <1>3, <1>4 DEF ActivityNext

-----------------------------------------------------------------------------
(* Running totals *)

\* The tasks in an increment of s.
On(s) == {h \in Handlers : job[h].pc \in Steps /\ job[h].stat = s}

\* Unless two tasks met on a stat: the total is its number of rows, no task in
\* flight is older than the row a read finds, and a task about to insert read
\* that row, is the only one, and is older than the others in flight.
Unmet(s) ==
  LET row == latest[s]
  IN  /\ row.value = row.written
      /\ row.at <= clock
      /\ \A h \in On(s) : row.at <= job[h].at
      /\ \A h \in On(s) : job[h].pc = "insert" =>
           /\ job[h].old = row.value
           /\ \A g \in On(s) \ {h} : job[h].at <= job[g].at /\ job[g].pc # "insert"
RunningTotals == \A s \in Stats : latest[s].met \/ Unmet(s)

\* A task that begins, or that is none of the stat's, or that goes on.
LEMMA OthersUnmet ==
  ASSUME AType, NEW s \in Stats, Unmet(s), NEW h \in Handlers, NEW j \in Jobs,
         job' = [job EXCEPT ![h] = j], clock' = clock, latest'[s] = latest[s],
         j.pc \in Steps /\ j.stat = s =>
           j.pc # "insert" /\ (j.at = clock \/ (h \in On(s) /\ j.at = job[h].at))
  PROVE  Unmet(s)'
<1>1. job'[h] = j /\ \A g \in Handlers \ {h} : job'[g] = job[g]
  BY ATypes
<1>2. \A g \in On(s) : job[g].at <= clock /\ job[g].at \in Nat
  BY ATypes DEF On, AType, AllSensible, Sensible, Jobs
<1>3. /\ latest[s] \in Row /\ clock \in Nat
  BY ATypes
<1>4. latest[s].at \in Nat
  BY <1>3 DEF Row
<1>5. \A g \in On(s)' : g # h => g \in On(s) /\ job'[g] = job[g]
  BY <1>1 DEF On
<1>6. h \in On(s)' => /\ job'[h].pc # "insert"
                      /\ job'[h].at = clock \/ (h \in On(s) /\ job'[h].at = job[h].at)
  BY <1>1 DEF On
<1>7. \A g \in On(s)' : latest[s].at <= job'[g].at
  BY <1>3, <1>5, <1>6 DEF Unmet
<1>8. ASSUME NEW g \in On(s)', job'[g].pc = "insert"
      PROVE  /\ job'[g].old = latest[s].value
             /\ \A k \in On(s)' \ {g} : job'[g].at <= job'[k].at /\ job'[k].pc # "insert"
  <2>1. g # h /\ g \in On(s) /\ job'[g] = job[g]
    BY <1>5, <1>6, <1>8
  <2>2. job[g].at <= clock
    BY <1>2, <2>1
  <2> QED BY <1>5, <1>6, <1>8, <2>1, <2>2 DEF Unmet
<1> QED BY <1>7, <1>8 DEF Unmet

LEMMA RunningTotalsStep ==
  AType /\ RunningTotals /\ [ActivityNext]_activityVars => RunningTotals'
<1> SUFFICES ASSUME AType, RunningTotals, [ActivityNext]_activityVars, NEW s \in Stats
             PROVE  latest'[s].met \/ Unmet(s)'
  BY DEF RunningTotals
<1>t. latest \in [Stats -> Row] /\ job \in [Handlers -> Jobs] /\ clock \in Nat
  BY ATypes
<1>u. latest[s] \in Row /\ latest[s].at \in Nat /\ latest[s].value \in Nat
  BY <1>t DEF Row
<1>1. ASSUME NEW h \in Handlers, HandleEvent(h)
      PROVE  latest'[s].met \/ Unmet(s)'
  <2>1. clock' = clock
    BY <1>1, StepLeaves
  <2>2. PICK j \in Jobs : Did(h, j)
    BY <1>1, StepIs
  <2>3. job' = [job EXCEPT ![h] = j]
    BY <2>2 DEF Did
  <2>4. CASE latest'[s] = latest[s] /\ ~(HasRead(h, j) /\ job[h].stat = s)
             /\ ~(HasInserted(h, j) /\ job[h].stat = s)
    <3>1. CASE latest[s].met
      BY <2>4, <3>1
    <3>2. CASE Unmet(s)
      <4>1. CASE Begun(h, j)
        BY <2>1, <2>2, <2>3, <2>4, <3>2, <4>1, OthersUnmet DEF Begun
      <4>2. CASE Away(h, j)
        BY <2>1, <2>2, <2>3, <2>4, <3>2, <4>2, OthersUnmet, StepsAre DEF Away
      <4>3. CASE GoneOn(h, j)
        BY <2>1, <2>2, <2>3, <2>4, <3>2, <4>3, OthersUnmet DEF GoneOn, On
      <4>4. CASE HasRead(h, j) \/ HasInserted(h, j)
        <5>1. j.stat # s
          BY <2>4, <4>4 DEF HasRead, HasInserted
        <5> QED BY <2>1, <2>2, <2>3, <2>4, <3>2, <5>1, OthersUnmet
      <4> QED BY <2>2, <4>1, <4>2, <4>3, <4>4 DEF Did
    <3> QED BY <3>1, <3>2 DEF RunningTotals
  <2>5. CASE HasRead(h, j) /\ job[h].stat = s
    <3>1. PICK row \in Row :
            /\ latest' = [latest EXCEPT ![s] = row]
            /\ row.value = latest[s].value /\ row.at = latest[s].at
            /\ row.written = latest[s].written /\ row.met = (latest[s].met \/ Meets(h))
      BY <2>5 DEF HasRead
    <3>2. latest'[s] = row
      BY <1>t, <3>1
    <3>3. CASE latest[s].met \/ Meets(h)
      BY <3>1, <3>2, <3>3
    <3>4. CASE ~latest[s].met /\ ~Meets(h)
      <4>1. Unmet(s)
        BY <3>4 DEF RunningTotals
      <4>2. h \in On(s) /\ On(s) \subseteq {h}
        BY <2>5, <3>4, StepsAre DEF On, Meets, HasRead
      <4>3. /\ job'[h] = j /\ j.at = job[h].at /\ j.old = latest[s].value
            /\ \A g \in Handlers \ {h} : job'[g] = job[g]
        BY <1>t, <2>3, <2>5 DEF HasRead
      <4>4. On(s)' \subseteq {h}
        BY <4>2, <4>3 DEF On
      <4> QED BY <2>1, <3>1, <3>2, <4>1, <4>2, <4>3, <4>4 DEF Unmet
    <3> QED BY <3>3, <3>4
  <2>6. CASE HasInserted(h, j) /\ job[h].stat = s
    <3>1. PICK row \in Row :
            /\ latest' = [latest EXCEPT ![s] = row]
            /\ row.written = latest[s].written + 1 /\ row.met = latest[s].met
            /\ job[h].at >= latest[s].at => row.value = job[h].old + 1 /\ row.at = job[h].at
      BY <2>6 DEF HasInserted
    <3>2. latest'[s] = row
      BY <1>t, <3>1
    <3>3. CASE latest[s].met
      BY <3>1, <3>2, <3>3
    <3>4. CASE Unmet(s)
      <4>1. h \in On(s) /\ job[h].pc = "insert"
        BY <2>6, StepsAre DEF On, HasInserted
      <4>2. /\ latest[s].value = latest[s].written /\ job[h].old = latest[s].value
            /\ latest[s].at <= job[h].at
            /\ \A g \in On(s) \ {h} : job[h].at <= job[g].at /\ job[g].pc # "insert"
        BY <3>4, <4>1 DEF Unmet
      <4>3. row.value = row.written /\ row.at = job[h].at
        <5>1. job[h].at \in Nat
          BY <1>t DEF Jobs
        <5> QED BY <1>u, <3>1, <4>2, <5>1
      <4>4. /\ job'[h] = j /\ j.at = job[h].at /\ j.pc = "ban"
            /\ \A g \in Handlers \ {h} : job'[g] = job[g]
        BY <1>t, <2>3, <2>6 DEF HasInserted
      <4>5. job[h].at \in Nat /\ job[h].at <= clock
        BY <1>t, <4>1 DEF Jobs, On, AType, AllSensible, Sensible
      <4>6. \A g \in On(s)' : job'[g].pc # "insert" /\ job[h].at <= job'[g].at
        <5> TAKE g \in On(s)'
        <5>1. CASE g = h
          BY <4>4, <4>5, <5>1
        <5>2. CASE g # h
          BY <4>2, <4>4, <5>2 DEF On
        <5> QED BY <5>1, <5>2
      <4> QED BY <2>1, <3>2, <4>3, <4>5, <4>6 DEF Unmet
    <3> QED BY <3>3, <3>4 DEF RunningTotals
  <2>7. \/ latest'[s] = latest[s]
        \/ HasRead(h, j) /\ job[h].stat = s
        \/ HasInserted(h, j) /\ job[h].stat = s
    <3>1. CASE HasRead(h, j) \/ HasInserted(h, j)
      BY <1>t, <3>1 DEF HasRead, HasInserted
    <3>2. CASE Begun(h, j) \/ Away(h, j) \/ GoneOn(h, j)
      BY <3>2 DEF Begun, Away, GoneOn
    <3> QED BY <2>2, <3>1, <3>2 DEF Did
  <2> QED BY <2>4, <2>5, <2>6, <2>7
<1>2. ASSUME latest' = latest, clock' \in Nat, clock <= clock',
             \A h \in Handlers : job'[h] = NoJob \/
               /\ job'[h].pc = job[h].pc /\ job'[h].stat = job[h].stat
               /\ job'[h].at = job[h].at /\ job'[h].old = job[h].old
      PROVE  latest'[s].met \/ Unmet(s)'
  <2>1. \A h \in On(s)' : /\ h \in On(s) /\ job'[h].pc = job[h].pc
                          /\ job'[h].at = job[h].at /\ job'[h].old = job[h].old
    BY <1>2, IdleJob, StepsAre DEF On
  <2>2. CASE Unmet(s)
    BY <1>2, <1>t, <1>u, <2>1, <2>2 DEF Unmet
  <2> QED BY <1>2, <2>2 DEF RunningTotals
<1>3. CASE MemberChanges
  <2>1. latest' = latest /\ clock' = clock
    BY <1>3 DEF MemberChanges, LeaveOrReturn, BanOrUnban, rowVars
  <2>2. CASE BanOrUnban
    BY <1>2, <1>t, <2>1, <2>2, BanIs
  <2>3. CASE LeaveOrReturn
    BY <1>2, <1>t, <2>1, <2>3 DEF LeaveOrReturn
  <2> QED BY <1>3, <2>2, <2>3 DEF MemberChanges
<1>4. CASE ProcessRestarts \/ TimePasses \/ UNCHANGED activityVars
  BY <1>2, <1>4, <1>t DEF ProcessRestarts, TimePasses, activityVars, rowVars
<1> QED BY <1>1, <1>3, <1>4 DEF ActivityNext
-----------------------------------------------------------------------------
(* The cooldown *)

\* The messages that counted are a cooldown apart, and none is later than
\* last_counted says.
Spaced ==
  /\ CooldownKept
  /\ lastCounted <= clock
  /\ \A i \in DOMAIN passed : passed[i] <= lastCounted

LEMMA SpacedStep == AType /\ Spaced /\ [ActivityNext]_activityVars => Spaced'
<1> SUFFICES ASSUME AType, Spaced, [ActivityNext]_activityVars PROVE Spaced'
  OBVIOUS
<1>t. /\ clock \in Nat /\ lastCounted \in Nat \cup {Never} /\ passed \in Seq(0..MaxTime)
      /\ clock \in 0..MaxTime /\ Never = -1 /\ Cooldown \in Nat
  BY ATypes, TimeAssumption, ActivityAssumption, Surrounded DEF Surroundings, Never
<1>1. CASE passed' = passed /\ lastCounted' = lastCounted /\ clock' \in {clock, clock + 1}
  BY <1>1, <1>t DEF Spaced, CooldownKept
<1>2. ASSUME NEW h \in Handlers, CheckCooldown(h), Waited
      PROVE  Spaced'
  <2>1. clock' = clock /\ lastCounted' = clock /\ passed' = Append(passed, clock)
    BY <1>2 DEF CheckCooldown, CountedAt
  <2>2. /\ DOMAIN passed' = 1..(Len(passed) + 1) /\ DOMAIN passed = 1..Len(passed)
        /\ Len(passed) \in Nat
        /\ passed'[Len(passed) + 1] = clock
        /\ \A i \in DOMAIN passed : passed'[i] = passed[i] /\ passed[i] \in Nat
    <3>1. PICK q : q = passed
      OBVIOUS
    <3>2. /\ q \in Seq(0..MaxTime) /\ DOMAIN q = 1..Len(q) /\ Len(q) \in Nat
          /\ \A i \in 1..Len(q) : q[i] \in 0..MaxTime
      BY <1>t, <3>1, LenProperties, ElementOfSeq
    <3>3. PICK r : r = Append(q, clock)
      OBVIOUS
    <3>4. /\ Len(r) = Len(q) + 1 /\ DOMAIN r = 1..Len(r)
          /\ \A i \in 1..Len(q) : r[i] = q[i]
          /\ r[Len(q) + 1] = clock
      BY <1>t, <3>2, <3>3, AppendProperties, LenProperties
    <3> QED BY <1>t, <2>1, <3>1, <3>2, <3>3, <3>4
  <2>3. \A i \in DOMAIN passed : passed[i] <= lastCounted /\ passed[i] <= clock
                                 /\ clock - passed[i] >= Cooldown
    BY <1>2, <1>t, <2>2 DEF Spaced, Waited
  <2>4. \A i \in DOMAIN passed' : passed'[i] <= clock
    BY <1>t, <2>2, <2>3
  <2>5. ASSUME NEW i \in DOMAIN passed', NEW k \in DOMAIN passed', i < k
        PROVE  passed'[k] - passed'[i] >= Cooldown
    <3>1. i \in DOMAIN passed
      BY <2>2, <2>5
    <3>2. CASE k \in DOMAIN passed
      BY <2>2, <2>5, <3>1, <3>2 DEF Spaced, CooldownKept
    <3>3. CASE k = Len(passed) + 1
      BY <2>2, <2>3, <3>1, <3>3
    <3> QED BY <2>2, <3>2, <3>3
  <2> QED BY <1>t, <2>1, <2>4, <2>5 DEF Spaced, CooldownKept
<1>3. ASSUME NEW h \in Handlers, HandleEvent(h)
      PROVE  Spaced'
  <2>1. CASE CheckCooldown(h)
    BY <1>1, <1>2, <2>1 DEF CheckCooldown
  <2>2. CASE CheckDuplicate(h)
    BY <1>1, <2>2 DEF CheckDuplicate
  <2>3. CASE ~CheckCooldown(h) /\ ~CheckDuplicate(h)
    BY <1>1, <1>3, <2>3 DEF HandleEvent, Message, OneOf, IncrementStat, Fail, memory
  <2> QED BY <2>1, <2>2, <2>3
<1>4. CASE ProcessRestarts
  <2>1. passed' = <<>> /\ lastCounted' = Never /\ clock' = clock
    BY <1>4 DEF ProcessRestarts
  <2>2. DOMAIN passed' = {}
    BY <2>1
  <2> QED BY <1>t, <2>1, <2>2 DEF Spaced, CooldownKept
<1>5. CASE MemberChanges \/ TimePasses \/ UNCHANGED activityVars
  BY <1>1, <1>5 DEF MemberChanges, TimePasses, activityVars, memory
<1> QED BY <1>3, <1>4, <1>5 DEF ActivityNext

-----------------------------------------------------------------------------
(* The ledger *)

LevelKept == xp.level = CalculateLevel(xp.total)

\* A commit, as the ledger sees it: one row more, and the xp row moved by it.
Credits(e) ==
  /\ ledger' = Append(ledger, e)
  /\ xp' = IF e.earned > 0 THEN Credited(e.earned) ELSE xp

LEMMA LedgerSteps ==
  ASSUME AType, [ActivityNext]_activityVars
  PROVE  UNCHANGED <<ledger, xp>> \/ \E e \in Entries : Credits(e)
<1>1. ASSUME NEW h \in Handlers, HandleEvent(h)
      PROVE  UNCHANGED <<ledger, xp>> \/ \E e \in Entries : Credits(e)
  <2>1. ASSUME NEW rate \in Rates[job[h].stat], job[h].pc = "commit", Commit(h, job[h].by * rate)
        PROVE  \E e \in Entries : Credits(e)
    <3>1. job[h].stat \in Stats /\ job[h].by = 1
      BY <2>1, StepsAre DEF AType, AllSensible, Sensible
    <3>2. rate \in Int /\ job[h].by * rate = rate
      BY <2>1, <3>1, ActivityAssumption
    <3>3. Commit(h, rate)
      BY <2>1, <3>2
    <3>4. PICK e \in Entries : ledger' = Append(ledger, e) /\ e.earned = rate
      BY <3>1, <3>2, <3>3, ATypes, CommitIs
    <3>5. xp' = IF rate > 0 THEN Credited(rate) ELSE xp
      BY <3>3 DEF Commit
    <3> QED BY <3>4, <3>5 DEF Credits
  <2>2. CASE ~ \E rate \in Rates[job[h].stat] : job[h].pc = "commit" /\ Commit(h, job[h].by * rate)
    BY <1>1, <2>2 DEF HandleEvent, Message, OneOf, CheckDuplicate, CheckCooldown, IncrementStat,
                      Fail, LookUp, ReadSnapshot, InsertSnapshot, CheckBan, FailIncrement, rowVars
  <2> QED BY <2>1, <2>2
<1>2. CASE MemberChanges \/ ProcessRestarts \/ TimePasses \/ UNCHANGED activityVars
  BY <1>2 DEF MemberChanges, LeaveOrReturn, BanOrUnban, ProcessRestarts, TimePasses, activityVars,
              rowVars
<1> QED BY <1>1, <1>2 DEF ActivityNext

LEMMA CreditsLevel ==
  ASSUME ledger \in Seq(Entries), xp \in [total : Nat, level : 1..LevelCap], LevelKept,
         NEW e \in Entries, Credits(e)
  PROVE  /\ xp' = IF e.earned > 0
                  THEN [total |-> xp.total + e.earned,
                        level |-> CalculateLevel(xp.total + e.earned)]
                  ELSE xp
         /\ LevelKept'
<1>1. CASE e.earned > 0
  BY <1>1 DEF Credits, Credited, LevelKept
<1>2. CASE ~(e.earned > 0)
  BY <1>2 DEF Credits, LevelKept
<1> QED BY <1>1, <1>2

LEMMA CreditsLedger ==
  ASSUME ledger \in Seq(Entries), xp \in [total : Nat, level : 1..LevelCap], LevelKept,
         NEW e \in Entries, Credits(e)
  PROVE  Ledger!Credit
<1>1. ledger' = Append(ledger, e) /\ Len(ledger) \in Nat
  BY DEF Credits
<1>2. /\ ledger' \in Seq(Entries)
      /\ Len(ledger') = Len(ledger) + 1
      /\ \A i \in 1..Len(ledger) : ledger'[i] = ledger[i]
      /\ ledger'[Len(ledger) + 1] = e
  BY <1>1
<1>3. SubSeq(ledger', 1, Len(ledger)) = ledger
  BY <1>1, <1>2
<1>4. Ledger!Appended = <<e>>
  <2>1. PICK b : b = <<e>>
    OBVIOUS
  <2>2. b \in Seq(Entries) /\ Len(b) = 1 /\ b[1] = e
    BY <2>1
  <2>3. SubSeq(ledger', Len(ledger) + 1, Len(ledger')) = b
    BY <1>1, <1>2, <2>2
  <2> QED BY <2>1, <2>3 DEF Ledger!Appended
<1>5. TotalEarned(<<e>>) = e.earned
  BY TotalEarnedOne DEF Entries
<1>6. /\ Ledger!TotalEarned(<<e>>) = TotalEarned(<<e>>)
      /\ \A total : Ledger!CalculateLevel(total) = CalculateLevel(total)
  BY DEF Ledger!TotalEarned, TotalEarned, Ledger!Earned, Earned, Ledger!SeqSum, SeqSum,
         Ledger!PartialSums, PartialSums, Ledger!CalculateLevel, CalculateLevel
<1>7. xp' = IF e.earned > 0
            THEN [total |-> xp.total + e.earned, level |-> CalculateLevel(xp.total + e.earned)]
            ELSE xp
  BY CreditsLevel
<1>8. Len(ledger') > Len(ledger)
  BY <1>1, <1>2
<1> QED BY <1>3, <1>4, <1>5, <1>6, <1>7, <1>8 DEF Ledger!Credit

-----------------------------------------------------------------------------
AInv == AType /\ BansSeen /\ RunningTotals /\ Spaced /\ LevelKept

LEMMA AInvInit == ActivityInit => AInv
<1> SUFFICES ASSUME ActivityInit PROVE AInv
  OBVIOUS
<1>1. AType
  BY ActivityInitTypes
<1>2. \A h \in Handlers : job[h].pc = "idle"
  BY IdleJob DEF ActivityInit, StatsInit
<1>3. BansSeen
  BY <1>2 DEF BansSeen
<1>4. RunningTotals
  <2>1. clock = 0 /\ \A s \in Stats : On(s) = {}
    BY <1>2, StepsAre DEF On, ActivityInit, StatsInit
  <2>2. \A s \in Stats : latest[s] = [value |-> 0, at |-> 0, written |-> 0, met |-> FALSE]
    BY DEF ActivityInit, StatsInit
  <2> QED BY <2>1, <2>2 DEF RunningTotals, Unmet
<1>5. Spaced
  <2>1. clock = 0 /\ lastCounted = -1 /\ DOMAIN passed = {}
    BY DEF ActivityInit, StatsInit, Never
  <2> QED BY <2>1 DEF Spaced, CooldownKept
<1>6. LevelKept
  BY FirstLevel DEF LevelKept, ActivityInit, StatsInit
<1> QED BY <1>1, <1>3, <1>4, <1>5, <1>6 DEF AInv

LEMMA AInvStep == AInv /\ [ActivityNext]_activityVars => AInv'
<1> SUFFICES ASSUME AInv, [ActivityNext]_activityVars PROVE AInv'
  OBVIOUS
<1>1. LevelKept'
  <2>1. ledger \in Seq(Entries) /\ xp \in [total : Nat, level : 1..LevelCap] /\ LevelKept
    BY ATypes DEF AInv
  <2>2. CASE UNCHANGED <<ledger, xp>>
    BY <2>1, <2>2 DEF LevelKept
  <2>3. ASSUME NEW e \in Entries, Credits(e) PROVE LevelKept'
    BY <2>1, <2>3, CreditsLevel
  <2> QED BY <2>2, <2>3, LedgerSteps DEF AInv
<1> QED BY <1>1, ActivityTypesStep, BansStep, RunningTotalsStep, SpacedStep DEF AInv

LEMMA AInvAlways == ActivitySpec => []AInv
BY AInvInit, AInvStep, PTL DEF ActivitySpec

\* The variables keep their types, and a task remembers a content exactly as
\* long as its message has checks before it (ActivityTypeOK).
THEOREM ActivityTypes == ActivitySpec => []ActivityTypeOK
<1>1. AInv => ActivityTypeOK
  BY DEF AInv, AType
<1> QED BY <1>1, AInvAlways, PTL

\* However the two checks of two messages interleave, those that count in one
\* life of the process are a cooldown apart (CooldownKept; validate_message).
THEOREM CooldownAlwaysKept == ActivitySpec => []CooldownKept
<1>1. AInv => CooldownKept
  BY DEF AInv, Spaced
<1> QED BY <1>1, AInvAlways, PTL

\* Through restarts, failures and bans, a running total is its number of rows,
\* unless two increments of the stat ever ran at once (SnapshotCounts;
\* increment_stat_by).
THEOREM SnapshotAlwaysCounts == ActivitySpec => []SnapshotCounts
<1>1. AInv => SnapshotCounts
  BY DEF AInv, RunningTotals, Unmet, SnapshotCounts
<1> QED BY <1>1, AInvAlways, PTL

\* Nobody is paid who was banned from the insert of the snapshot to the commit
\* (BannedEarnNothing; the check in increment_stat_by).
THEOREM BannedAreNeverPaid == ActivitySpec => BannedEarnNothing
<1>1. AInv => [\A h \in Handlers : job[h].pc = "commit" /\ ledger' # ledger /\ job'[h] # job[h]
                 => job[h].free]_activityVars
  BY DEF AInv, BansSeen
<1> QED BY <1>1, AInvAlways, PTL DEF BannedEarnNothing

\* The Discord stats implement the ledger's contract: each commit appends one
\* row and moves the xp row by what that row earned (KeepsLedger).
THEOREM ActivityImplementsXpLedger == ActivitySpec => KeepsLedger
<1>1. ActivityInit => Ledger!Init
  BY DEF ActivityInit, StatsInit, Ledger!Init
<1>2. AInv /\ [ActivityNext]_activityVars => [Ledger!Credit]_<<ledger, xp>>
  <2> SUFFICES ASSUME AInv, [ActivityNext]_activityVars
               PROVE  [Ledger!Credit]_<<ledger, xp>>
    OBVIOUS
  <2>1. ledger \in Seq(Entries) /\ xp \in [total : Nat, level : 1..LevelCap] /\ LevelKept
    BY ATypes DEF AInv
  <2>2. ASSUME NEW e \in Entries, Credits(e) PROVE Ledger!Credit
    BY <2>1, <2>2, CreditsLedger
  <2> QED BY <2>2, LedgerSteps DEF AInv
<1> QED BY <1>1, <1>2, AInvAlways, PTL DEF ActivitySpec, KeepsLedger, Ledger!Spec

(***************************************************************************)
(* Arithmetic.                                                             *)
(***************************************************************************)
LEMMA Products == \A a, b \in Nat : a * b \in Nat
OBVIOUS

LEMMA Quotients ==
  ASSUME NEW a \in Nat, NEW d \in Nat \ {0}
  PROVE  a \div d \in Nat
OBVIOUS

LEMMA Scaled ==
  ASSUME NEW a \in Int, NEW b \in Int, NEW k \in Nat, a <= b
  PROVE  a * k <= b * k
<1>1. b - a \in Nat
  OBVIOUS
<1>2. (b - a) * k \in Nat
  BY <1>1, Products
<1>3. (b - a) * k = b * k - a * k
  OBVIOUS
<1> QED BY <1>2, <1>3

LEMMA Distributes == \A a, k, j \in Nat : a * (k + j) = a * k + a * j
OBVIOUS

\* The dearest rate there is.
LEMMA MaxRateIs == MaxRate \in InitialRates /\ \A d \in InitialRates : d <= MaxRate
BY CurveAssumption DEF MaxRate

Above(y) == IF y > 0 THEN y ELSE 0
Slice(y, l) == Above(y) * Above(y) - Above(y - l) * Above(y - l)

LEMMA Squares == \A a, b \in Nat : a <= b => a * a <= b * b
<1> TAKE a, b \in Nat
<1> HAVE a <= b
<1>1. a * a <= b * a /\ b * a <= b * b
  BY Scaled
<1> QED BY <1>1

LEMMA SliceInt ==
  ASSUME NEW y \in Int, NEW l \in Nat
  PROVE  /\ Above(y) \in Nat /\ Above(y - l) \in Nat /\ Above(y - l) <= Above(y)
         /\ Above(y) * Above(y) \in Nat /\ Above(y - l) * Above(y - l) \in Nat
         /\ Slice(y, l) \in Nat
<1>1. Above(y) \in Nat /\ Above(y - l) \in Nat /\ Above(y - l) <= Above(y)
  BY DEF Above
<1>2. Above(y) * Above(y) \in Nat /\ Above(y - l) * Above(y - l) \in Nat
  BY <1>1, Products
<1>3. Above(y - l) * Above(y - l) <= Above(y) * Above(y)
  BY <1>1, Squares
<1> QED BY <1>1, <1>2, <1>3 DEF Slice

\* A slice of the triangle is no smaller farther from its tip.
LEMMA SliceGrows ==
  ASSUME NEW y \in Int, NEW z \in Int, NEW l \in Nat, y <= z
  PROVE  Slice(y, l) <= Slice(z, l)
<1>1. Slice(y, l) \in Nat /\ Slice(z, l) \in Nat
  BY SliceInt
<1>2. CASE y <= 0
  <2>1. Above(y) = 0 /\ Above(y - l) = 0
    BY <1>2 DEF Above
  <2>2. Slice(y, l) = 0
    BY <2>1 DEF Slice
  <2> QED BY <1>1, <2>2
<1>3. CASE y > 0 /\ z <= l
  <2>1. Above(y) = y /\ Above(z) = z /\ Above(y - l) = 0 /\ Above(z - l) = 0
    BY <1>3 DEF Above
  <2>2. Slice(y, l) = y * y /\ Slice(z, l) = z * z
    BY <2>1 DEF Slice
  <2> QED BY <1>1, <1>3, <2>2, Squares
<1>4. CASE y > 0 /\ z > l /\ y <= l
  <2>1. Above(y) = y /\ Above(z) = z /\ Above(y - l) = 0 /\ Above(z - l) = z - l
    BY <1>4 DEF Above
  <2>2. Slice(y, l) = y * y /\ Slice(z, l) = z * z - (z - l) * (z - l)
    BY <2>1 DEF Slice
  <2>3. z * z - (z - l) * (z - l) = l * l + 2 * ((z - l) * l)
    OBVIOUS
  <2>4. y * y <= l * l /\ (z - l) * l \in Nat
    BY <1>4, Squares, Products
  <2> QED BY <1>1, <2>2, <2>3, <2>4
<1>5. CASE y > l
  <2>1. Above(y) = y /\ Above(z) = z /\ Above(y - l) = y - l /\ Above(z - l) = z - l
    BY <1>5 DEF Above
  <2>2. Slice(y, l) = y * y - (y - l) * (y - l) /\ Slice(z, l) = z * z - (z - l) * (z - l)
    BY <2>1 DEF Slice
  <2>3. \A x \in Int : x * x - (x - l) * (x - l) = 2 * (x * l) - l * l
    OBVIOUS
  <2>4. y * l <= z * l
    BY Scaled
  <2> QED BY <1>1, <2>2, <2>3, <2>4
<1> QED BY <1>2, <1>3, <1>4, <1>5

\* Nor larger than the triangle's side is long.
LEMMA SliceBound ==
  ASSUME NEW y \in Int, NEW l \in Nat
  PROVE  Slice(y, l) <= 2 * (Above(y) * l)
<1>1. Above(y) \in Nat /\ Above(y) * l \in Nat /\ Slice(y, l) \in Nat
  BY SliceInt, Products
<1>2. CASE y <= 0
  <2>1. Above(y) = 0 /\ Above(y - l) = 0
    BY <1>2 DEF Above
  <2> QED BY <1>1, <2>1 DEF Slice
<1>3. CASE y > 0 /\ y <= l
  <2>1. Above(y) = y /\ Above(y - l) = 0
    BY <1>3 DEF Above
  <2>2. Slice(y, l) = y * y
    BY <2>1 DEF Slice
  <2>3. y * y <= l * y /\ l * y = y * l
    BY <1>3, Scaled
  <2> QED BY <1>1, <2>1, <2>2, <2>3
<1>4. CASE y > l
  <2>1. Above(y) = y /\ Above(y - l) = y - l
    BY <1>4 DEF Above
  <2>2. Slice(y, l) = y * y - (y - l) * (y - l)
    BY <2>1 DEF Slice
  <2>3. y * y - (y - l) * (y - l) = 2 * (y * l) - l * l
    OBVIOUS
  <2>4. l * l \in Nat
    BY Products
  <2> QED BY <1>1, <2>1, <2>2, <2>3, <2>4
<1> QED BY <1>2, <1>3, <1>4

\* How far above the floor the rate is after t minutes.
Height(t, c) == (c - FloorRate) - (2 * HalfDecay) * t

LEMMA CurveTypes ==
  ASSUME NEW c \in InitialRates
  PROVE  /\ c \in Int /\ FloorRate \in Nat /\ HalfDecay \in Nat /\ Unit \in Nat
         /\ \A t \in Nat : Height(t, c) \in Int
         /\ \A t \in Nat : (2 * HalfDecay) * t \in Nat
<1>1. c \in Int /\ FloorRate \in Nat /\ HalfDecay \in Nat /\ Unit \in Nat
  BY CurveAssumption DEF Unit
<1>2. \A t \in Nat : (2 * HalfDecay) * t \in Nat
  BY <1>1, Products
<1> QED BY <1>1, <1>2 DEF Height

\* The curve: the floor rate, and what the minutes above it add.
LEMMA CurveShape ==
  ASSUME NEW c \in InitialRates, NEW t \in Nat
  PROVE  IntegralXp(t, c) = (Unit * FloorRate) * t + (c - FloorRate) * (c - FloorRate)
                              - Above(Height(t, c)) * Above(Height(t, c))
<1>1. PICK D \in Nat : D = HalfDecay
  BY CurveTypes
<1>2. PICK F \in Nat : F = FloorRate
  BY CurveTypes
<1>3. PICK w \in Int : w = c - F
  BY <1>2, CurveTypes
<1>4. c = F + w /\ Unit = 4 * D /\ Height(t, c) = w - (2 * D) * t
  BY <1>1, <1>2, <1>3, CurveTypes DEF Unit, Height
<1>5. CASE 2 * D * t <= w
  <2>1. IntegralXp(t, c) = (4 * D) * ((F + w) * t - D * t * t)
    BY <1>1, <1>2, <1>3, <1>4, <1>5 DEF IntegralXp
  <2>2. Above(Height(t, c)) = w - (2 * D) * t
    BY <1>4, <1>5 DEF Above
  <2>3. (w - (2 * D) * t) * (w - (2 * D) * t)
          = w * w - 4 * (D * (w * t)) + 4 * ((D * t) * (D * t))
    OBVIOUS
  <2>4. (4 * D) * ((F + w) * t - D * t * t)
          = ((4 * D) * F) * t + 4 * (D * (w * t)) - 4 * ((D * t) * (D * t))
    OBVIOUS
  <2> QED BY <1>2, <1>3, <1>4, <2>1, <2>2, <2>3, <2>4
<1>6. CASE ~(2 * D * t <= w)
  <2>1. IntegralXp(t, c) = w * w + (4 * D) * F * t
    BY <1>1, <1>2, <1>3, <1>4, <1>6 DEF IntegralXp
  <2>2. Above(Height(t, c)) = 0
    <3>1. ~(Height(t, c) > 0)
      BY <1>4, <1>6
    <3> QED BY <3>1 DEF Above
  <2> QED BY <1>2, <1>3, <1>4, <2>1, <2>2
<1> QED BY <1>5, <1>6

LEMMA GainIs ==
  ASSUME NEW c \in InitialRates, NEW p \in Nat, NEW l \in Nat
  PROVE  Gain(p, p + l, c) = (Unit * FloorRate) * l + Slice(Height(p, c), (2 * HalfDecay) * l)
<1>1. PICK y \in Int : y = Height(p, c)
  BY CurveTypes
<1>2. PICK b \in Nat : b = (2 * HalfDecay) * l
  BY CurveTypes
<1>3. Height(p + l, c) = y - b
  <2>1. PICK D \in Nat : D = 2 * HalfDecay
    BY CurveTypes
  <2>2. D * (p + l) = D * p + D * l
    BY Distributes
  <2>3. D * p \in Nat /\ D * l \in Nat /\ c - FloorRate \in Int
    BY Products, CurveTypes
  <2> QED BY <1>1, <1>2, <2>1, <2>2, <2>3 DEF Height
<1>4. PICK r \in Nat : r = Unit * FloorRate
  BY CurveTypes, Products
<1>5. PICK w \in Int : w = (c - FloorRate) * (c - FloorRate)
  BY CurveTypes
<1>6. PICK m \in Nat : m = Above(y) * Above(y)
  BY SliceInt, <1>2
<1>7. PICK n \in Nat : n = Above(y - b) * Above(y - b)
  BY SliceInt, <1>2
<1>8. IntegralXp(p, c) = r * p + w - m
  BY <1>1, <1>4, <1>5, <1>6, CurveShape
<1>9. IntegralXp(p + l, c) = r * (p + l) + w - n
  BY <1>3, <1>4, <1>5, <1>7, CurveShape
<1>10. r * (p + l) = r * p + r * l /\ r * p \in Nat /\ r * l \in Nat
  BY Distributes, Products
<1>11. Slice(y, b) = m - n
  BY <1>6, <1>7 DEF Slice
<1> QED BY <1>1, <1>2, <1>4, <1>8, <1>9, <1>10, <1>11 DEF Gain

\* calculate_integral_xp: whatever came before, m minutes bring between the
\* floor rate and the dearer of the floor and the initial rate.
LEMMA GainBounds ==
  ASSUME NEW c \in InitialRates, NEW p \in Nat, NEW m \in Nat
  PROVE  /\ Gain(p, p + m, c) \in Nat
         /\ Unit * FloorRate * m <= Gain(p, p + m, c)
         /\ Gain(p, p + m, c) <= Unit * Dearer(c) * m
<1>1. PICK y \in Int : y = Height(p, c)
  BY CurveTypes
<1>2. PICK b \in Nat : b = (2 * HalfDecay) * m
  BY CurveTypes
<1>3. PICK r \in Nat : r = (Unit * FloorRate) * m
  BY CurveTypes, Products
<1>4. PICK s \in Nat : s = Slice(y, b)
  BY SliceInt
<1>5. Gain(p, p + m, c) = r + s
  BY <1>1, <1>2, <1>3, <1>4, GainIs
<1>6. PICK u \in Nat : u = Dearer(c) - FloorRate
  BY CurveTypes DEF Dearer
<1>7. Above(y) \in Nat /\ Above(y) <= u
  <2>1. y <= c - FloorRate
    BY <1>1, CurveTypes DEF Height
  <2> QED BY <1>6, <2>1, CurveTypes DEF Above, Dearer
<1>8. Above(y) * b <= u * b
  BY <1>7, Scaled
<1>9. s <= 2 * (Above(y) * b)
  BY <1>4, SliceBound
<1>10. PICK D \in Nat : D = HalfDecay
  BY CurveTypes
<1>11. PICK F \in Nat : F = FloorRate
  BY CurveTypes
<1>12. /\ Unit * Dearer(c) * m = ((4 * D) * (u + F)) * m
       /\ r = ((4 * D) * F) * m /\ b = (2 * D) * m
  <2>1. Dearer(c) = u + F /\ Unit = 4 * D
    BY <1>6, <1>10, <1>11, CurveTypes DEF Dearer, Unit
  <2> QED BY <1>2, <1>3, <1>10, <1>11, <2>1
<1>13. ((4 * D) * (u + F)) * m = 2 * (u * ((2 * D) * m)) + ((4 * D) * F) * m
  OBVIOUS
<1>14. u * b \in Nat /\ Above(y) * b \in Nat
  BY <1>7, Products
<1>15. Unit * Dearer(c) * m = 2 * (u * b) + r
  BY <1>12, <1>13
<1> QED BY <1>3, <1>5, <1>8, <1>9, <1>14, <1>15

\* The later in the day and the cheaper the rate, the less a minute brings.
LEMMA GainFalls ==
  ASSUME NEW c \in InitialRates, NEW e \in InitialRates, c <= e,
         NEW p \in Nat, NEW q \in Nat, q <= p, NEW l \in Nat
  PROVE  Gain(p, p + l, c) <= Gain(q, q + l, e)
<1>1. PICK y \in Int : y = Height(p, c)
  BY CurveTypes
<1>2. PICK z \in Int : z = Height(q, e)
  BY CurveTypes
<1>3. PICK b \in Nat : b = (2 * HalfDecay) * l
  BY CurveTypes
<1>4. y <= z
  <2>1. PICK D \in Nat : D = 2 * HalfDecay
    BY CurveTypes
  <2>2. q * D <= p * D /\ q * D = D * q /\ p * D = D * p
    BY Scaled
  <2>3. D * p \in Nat /\ D * q \in Nat
    BY Products
  <2> QED BY <1>1, <1>2, <2>1, <2>2, <2>3, CurveTypes DEF Height
<1>5. Slice(y, b) <= Slice(z, b) /\ Slice(y, b) \in Nat /\ Slice(z, b) \in Nat
  BY <1>4, SliceGrows, SliceInt
<1>6. PICK r \in Nat : r = (Unit * FloorRate) * l
  BY CurveTypes, Products
<1>7. Gain(p, p + l, c) = r + Slice(y, b) /\ Gain(q, q + l, e) = r + Slice(z, b)
  BY <1>1, <1>2, <1>3, <1>6, GainIs
<1> QED BY <1>5, <1>7

\* What two stretches one after the other bring is what they bring together.
LEMMA GainAdds ==
  ASSUME NEW c \in InitialRates, NEW p \in Nat, NEW l \in Nat
  PROVE  Gain(0, p, c) + Gain(p, p + l, c) = Gain(0, p + l, c)
<1>1. \A t \in Nat : IntegralXp(t, c) \in Int
  BY CurveTypes DEF IntegralXp
<1>2. p + l \in Nat /\ 0 \in Nat
  OBVIOUS
<1> QED BY <1>1, <1>2 DEF Gain

LEMMA Earned0 == \A m \in Nat : PaidWithin(m, 0)
BY DEF PaidWithin

\* What a session may be worth: nothing, without a reward in the config.
Worth(h) == {0} \cup Earnings(h)

LEMMA WorthWithin ==
  ASSUME NEW h \in Handlers, call[h].prior \in Nat, call[h].length \in Nat,
         NEW earned \in Worth(h)
  PROVE  earned \in Nat /\ PaidWithin(call[h].length, earned)
<1>1. CASE earned = 0
  BY <1>1, Earned0
<1>2. ASSUME NEW c \in InitialRates,
             earned = Gain(call[h].prior, call[h].prior + call[h].length, c)
      PROVE  earned \in Nat /\ PaidWithin(call[h].length, earned)
  BY <1>2, GainBounds DEF PaidWithin
<1> QED BY <1>1, <1>2 DEF Worth, Earnings, Updated

\* The minutes of a session on a day are a number.
LEMMA MinutesOnNat ==
  ASSUME clock \in Nat, NEW s \in Rows, NEW day \in Int
  PROVE  MinutesOn(s, day) \in Nat
<1> DEFINE from == day * DayLength
           to == (day + 1) * DayLength
           start == IF s.join > from THEN s.join ELSE from
           until == IF s.open THEN clock ELSE s.leave
           end == IF until < to THEN until ELSE to
<1>1. from \in Int /\ to \in Int
  BY VoiceAssumption
<1>2. start \in Int /\ end \in Int
  <2> HIDE DEF from, to
  <2> QED BY <1>1 DEF Rows
<1>3. MinutesOn(s, day) = IF end > start THEN (end - start) \div TicksPerMinute ELSE 0
  BY DEF MinutesOn
<1> HIDE DEF start, end
<1>4. CASE end > start
  <2>1. end - start \in Nat
    BY <1>2, <1>4
  <2> QED BY <1>3, <1>4, <2>1, Quotients, VoiceAssumption
<1> QED BY <1>3, <1>4

\* The minutes of the day by the table are a number.
LEMMA TableMinutesNat ==
  ASSUME sessions \in Seq(Rows), clock \in Nat, NEW day \in Int
  PROVE  TableMinutes(day) \in Nat
<1> DEFINE q == [i \in DOMAIN sessions |-> MinutesOn(sessions[i], day)]
<1>1. DOMAIN sessions = 1..Len(sessions) /\ Len(sessions) \in Nat
      /\ \A i \in DOMAIN sessions : sessions[i] \in Rows
  OBVIOUS
<1>2. q \in [1..Len(sessions) -> Nat]
  BY <1>1, MinutesOnNat
<1>3. q \in Seq(Nat)
  BY <1>1, <1>2
<1> QED BY <1>3, SeqSumNat DEF TableMinutes

(***************************************************************************)
(* The invariant: a task past its leave holds a closed session that no     *)
(* other task holds and that is not yet counted, and a task in its         *)
(* increment carries the minutes and the XP that handle_vc_xp gave it.     *)
(***************************************************************************)
Calls == [from : Places, to : Places, began : 0..MaxTime, session : Nat, length : Nat, day : Days,
          prior : Nat, blind : BOOLEAN, earned : Nat]
Counts == [session : Nat, day : Days, length : Nat, blind : BOOLEAN, earned : Nat]

TaskOK(h) ==
  /\ job[h].next = "idle"
  /\ job[h].pc \in Steps => /\ job[h].stat = "voice" /\ job[h].by = call[h].length
                            /\ PaidWithin(call[h].length, call[h].earned)
TasksOK == \A h \in Handlers : TaskOK(h)

Ending == {h \in Handlers : job[h].pc \in {"day", "store"}}
Chosen == {h \in Handlers : job[h].pc \in {"ending", "day", "store"}}
Closed == {i \in DOMAIN sessions : ~sessions[i].open}
SessionsApart ==
  /\ \A i \in DOMAIN counted : counted[i].session \in Closed
  /\ \A h \in Ending : call[h].session \in Closed
  /\ \A h \in Chosen \ Ending :
       call[h].session \in DOMAIN sessions /\ (call[h].session \in Closed => call[h].session \in shared)
  /\ \A h \in Chosen : \A i \in DOMAIN counted :
       counted[i].session = call[h].session => call[h].session \in shared
  /\ \A g, h \in Chosen :
       g # h /\ call[g].session = call[h].session => call[h].session \in shared

\* Rows come, but none is closed or opened again.
Steady ==
  /\ DOMAIN sessions \subseteq DOMAIN sessions'
  /\ \A i \in DOMAIN sessions : sessions'[i].open = sessions[i].open

VInv == TypeOK /\ TasksOK /\ SessionsApart /\ CountedOnce /\ PaidWithinRates

LEMMA Types ==
  ASSUME VInv
  PROVE  /\ job \in [Handlers -> Jobs] /\ call \in [Handlers -> Calls]
         /\ sessions \in Seq(Rows) /\ counted \in Seq(Counts) /\ ledger \in Seq(Entries)
         /\ clock \in 0..MaxTime /\ clock \in Nat
         /\ latest \in [Stats -> Row]
         /\ minutes \in [Days -> Nat \cup {Cold}]
         /\ disturbances \in 0..MaxDisturbances
BY TimeAssumption DEF VInv, TypeOK, StatsTypeOK, Jobs, Calls, Counts, Entries, Row

LEMMA DayType == \A t \in 0..MaxTime : Day(t) \in Days /\ Day(t) \in Nat
BY Quotients, VoiceAssumption, TimeAssumption DEF Days, Day

LEMMA NothingTypes == NoJob \in Jobs /\ NoCall \in Calls /\ 0 \in Days
<1>1. 0 \div DayLength = 0
  BY VoiceAssumption
<1>2. 0 \in 0..MaxTime
  BY TimeAssumption
<1>3. 0 \in Days
  BY <1>1, <1>2 DEF Days, Day
<1>4. NoJob \in Jobs
  BY <1>2 DEF Jobs, NoJob, Points
<1>5. NoCall \in Calls
  BY <1>2, <1>3 DEF Calls, NoCall, Places
<1> QED BY <1>3, <1>4, <1>5

\* No task picks a session that had none.
LEMMA ApartKept ==
  ASSUME VInv, UNCHANGED <<counted, shared>>, Steady,
         \A h \in Chosen' : /\ h \in Chosen /\ call'[h].session = call[h].session
                            /\ h \in Ending' <=> h \in Ending
  PROVE  SessionsApart' /\ CountedOnce'
<1>1. \A i \in DOMAIN sessions : i \in Closed' <=> i \in Closed
  BY DEF Steady, Closed
<1>2. Closed \subseteq DOMAIN sessions /\ Ending \subseteq Chosen /\ Ending' \subseteq Chosen'
  BY DEF Closed, Ending, Chosen
<1>3. Closed \subseteq Closed'
  BY <1>1, <1>2
<1>4. /\ \A i \in DOMAIN counted' : counted'[i].session \in Closed'
      /\ \A h \in Ending' : call'[h].session \in Closed'
  BY <1>2, <1>3 DEF VInv, SessionsApart
<1>5. \A h \in (Chosen \ Ending)' :
        /\ call'[h].session \in DOMAIN sessions'
        /\ call'[h].session \in Closed' => call'[h].session \in shared'
  BY <1>1 DEF VInv, SessionsApart, Steady
<1>6. /\ \A h \in Chosen' : \A i \in DOMAIN counted' :
           counted'[i].session = call'[h].session => call'[h].session \in shared'
      /\ \A g, h \in Chosen' :
           g # h /\ call'[g].session = call'[h].session => call'[h].session \in shared'
  BY DEF VInv, SessionsApart
<1> QED BY <1>4, <1>5, <1>6 DEF VInv, SessionsApart, CountedOnce

\* A task that drops what it does is idle.
LEMMA DroppedTypes ==
  ASSUME VInv, NEW h \in Handlers, Drop(h)
  PROVE  /\ job' \in [Handlers -> Jobs] /\ call' \in [Handlers -> Calls] /\ TasksOK'
         /\ \A g \in Handlers : /\ g # h => job'[g] = job[g] /\ call'[g] = call[g]
                                /\ g = h => job'[g].pc = "idle" /\ call'[g] = NoCall
<1>1. job' = [job EXCEPT ![h] = NoJob] /\ call' = [call EXCEPT ![h] = NoCall]
  BY DEF Drop
<1>2. job' \in [Handlers -> Jobs] /\ call' \in [Handlers -> Calls]
  BY <1>1, Types, NothingTypes
<1>3. \A g \in Handlers : /\ g # h => job'[g] = job[g] /\ call'[g] = call[g]
                          /\ g = h => job'[g] = NoJob /\ call'[g] = NoCall
  BY <1>1, Types
<1>4. NoJob.next = "idle" /\ NoJob.pc = "idle"
  BY DEF NoJob
<1>5. TasksOK'
  BY <1>3, <1>4 DEF VInv, TasksOK, TaskOK, Steps
<1> QED BY <1>2, <1>3, <1>4, <1>5

LEMMA Dropped ==
  ASSUME VInv, NEW h \in Handlers, Drop(h), UNCHANGED <<counted, shared>>, Steady
  PROVE  /\ job' \in [Handlers -> Jobs] /\ call' \in [Handlers -> Calls]
         /\ TasksOK' /\ SessionsApart' /\ CountedOnce'
<1>1. \A g \in Handlers : /\ g # h => job'[g] = job[g] /\ call'[g] = call[g]
                          /\ g = h => job'[g].pc = "idle"
  BY DroppedTypes
<1>2. \A g \in Chosen' : /\ g \in Chosen /\ call'[g].session = call[g].session
                         /\ g \in Ending' <=> g \in Ending
  BY <1>1 DEF Chosen, Ending
<1> QED BY <1>2, DroppedTypes, ApartKept

LEMMA InitStep == Init => VInv
<1> SUFFICES ASSUME Init PROVE VInv
  OBVIOUS
<1>1. 0 \in 0..MaxTime /\ 1 \in 1..LevelCap
  BY TimeAssumption, LevelAssumption
<1>2. StatsTypeOK
  <2>1. job \in [Handlers -> Jobs] /\ ledger = <<>>
    BY NothingTypes DEF Init, StatsInit
  <2>2. latest \in [Stats -> Row]
    BY <1>1 DEF Init, StatsInit, Row
  <2>3. xp \in [total : Nat, level : 1..LevelCap] /\ active \in BOOLEAN /\ banned \in BOOLEAN
    BY <1>1 DEF Init, StatsInit
  <2>4. clock \in 0..MaxTime /\ ledger \in Seq(Entries) /\ disturbances \in 0..MaxDisturbances
    BY <1>1, <2>1, TimeAssumption DEF Init, StatsInit
  <2> QED BY <2>1, <2>2, <2>3, <2>4 DEF StatsTypeOK, Jobs, Entries, Row
<1>3. TypeOK
  <2>1. sessions = <<>> /\ counted = <<>> /\ Out \in Places
    BY DEF Init, Places
  <2>2. call \in [Handlers -> Calls] /\ minutes \in [Days -> Nat \cup {Cold}] /\ cleared \in Days
    BY NothingTypes DEF Init
  <2>3. afk \in [stored : Channels \cup {NoChannel}, cached : Channels \cup {NoChannel}]
    BY DEF Init
  <2>4. /\ up = TRUE /\ where = Out /\ spoiled = FALSE
        /\ moves \in 0..MaxMoves /\ shared = {}
    BY VoiceAssumption DEF Init
  <2>5. /\ sessions \in Seq(Rows) /\ counted \in Seq(Counts)
        /\ \A i \in DOMAIN sessions : sessions[i].open \/ sessions[i].join <= sessions[i].leave
    BY <2>1
  <2>6. where \in Places /\ up \in BOOLEAN /\ spoiled \in BOOLEAN
    BY <2>1, <2>4
  <2> QED BY <2>2, <2>3, <2>4, <2>5, <2>6, <1>2 DEF TypeOK, Calls, Counts
<1>4. \A h \in Handlers : job[h] = NoJob
  BY DEF Init, StatsInit
<1>5. TasksOK /\ Ending = {} /\ Chosen = {}
  BY <1>4 DEF TasksOK, TaskOK, NoJob, Ending, Chosen, Steps
<1> QED BY <1>3, <1>5 DEF Init, StatsInit, VInv, SessionsApart, CountedOnce, PaidWithinRates

(***************************************************************************)
(* Every step keeps the invariant.                                         *)
(***************************************************************************)
LEMMA JobAt ==
  ASSUME NEW j \in Jobs, NEW pc \in Points
  PROVE  /\ [j EXCEPT !.pc = pc] \in Jobs
         /\ [j EXCEPT !.pc = pc].pc = pc
         /\ [j EXCEPT !.pc = pc].next = j.next
BY DEF Jobs

\* A task goes on to another point.
LEMMA Going ==
  ASSUME job \in [Handlers -> Jobs], NEW h \in Handlers, NEW pc \in Points, Goto(h, pc)
  PROVE  /\ job' \in [Handlers -> Jobs]
         /\ \A g \in Handlers \ {h} : job'[g] = job[g]
         /\ job'[h] = [job[h] EXCEPT !.pc = pc]
         /\ job'[h].pc = pc /\ job'[h].next = job[h].next
<1>1. job' = [job EXCEPT ![h] = [job[h] EXCEPT !.pc = pc]]
  BY DEF Goto
<1>2. /\ [job[h] EXCEPT !.pc = pc] \in Jobs /\ [job[h] EXCEPT !.pc = pc].pc = pc
      /\ [job[h] EXCEPT !.pc = pc].next = job[h].next
  BY JobAt
<1> QED BY <1>1, <1>2

LEMMA MoveStep ==
  ASSUME VInv, NEW to \in Places, Move(to)
  PROVE  VInv'
<1>1. /\ UNCHANGED <<clock, userVars, rowVars, up, afk, sessions, minutes, cleared, counted,
                     shared, disturbances>>
      /\ where' \in Places /\ spoiled' \in BOOLEAN /\ moves' \in 0..MaxMoves
  BY VoiceAssumption DEF Move, VInv, TypeOK
<1>2. CASE UNCHANGED <<job, call>>
  BY <1>1, <1>2 DEF VInv, TypeOK, StatsTypeOK, userVars, rowVars, TasksOK, TaskOK, SessionsApart,
                    CountedOnce, PaidWithinRates, Ending, Chosen, Closed
<1>3. ASSUME NEW h \in Idle,
             job' = [job EXCEPT ![h].pc = "state"],
             call' = [call EXCEPT ![h] = [NoCall EXCEPT !.from = where, !.to = to,
                                                        !.began = clock]]
      PROVE  VInv'
  <2>1. h \in Handlers /\ where \in Places
    BY DEF Idle, VInv, TypeOK
  <2>2. job' \in [Handlers -> Jobs]
    BY <1>3, <2>1, Types, PointsAre, Going DEF Goto
  <2>3. call' \in [Handlers -> Calls]
    <3>1. [NoCall EXCEPT !.from = where, !.to = to, !.began = clock] \in Calls
      BY <2>1, Types, NothingTypes DEF Calls
    <3> QED BY <1>3, <3>1, Types
  <2>4. TypeOK'
    BY <1>1, <2>2, <2>3 DEF VInv, TypeOK, StatsTypeOK, userVars, rowVars, Jobs, Calls
  <2>5. \A g \in Handlers : /\ g # h => job'[g] = job[g] /\ call'[g] = call[g]
                            /\ g = h => job'[g].pc = "state" /\ job'[g].next = job[g].next
    BY <1>3, <2>1, Types DEF Jobs
  <2>6. TasksOK'
    BY <2>5 DEF VInv, TasksOK, TaskOK, Steps
  <2>7. SessionsApart' /\ CountedOnce'
    BY <1>1, <2>5, ApartKept DEF Ending, Chosen, Steady
  <2> QED BY <1>1, <2>4, <2>6, <2>7 DEF VInv, PaidWithinRates, rowVars
<1> QED BY <1>2, <1>3 DEF Move

LEMMA ClassifyStep ==
  ASSUME VInv, NEW h \in Handlers, Classify(h)
  PROVE  VInv'
<1>1. UNCHANGED <<clock, userVars, rowVars, up, where, afk, sessions, minutes, cleared, counted,
                  shared, spoiled, moves, disturbances>>
  BY DEF Classify
<1>2. CASE Drop(h)
  <2>1. /\ job' \in [Handlers -> Jobs] /\ call' \in [Handlers -> Calls]
        /\ TasksOK' /\ SessionsApart' /\ CountedOnce'
    BY <1>1, <1>2, Dropped DEF Steady
  <2> QED BY <1>1, <2>1 DEF VInv, TypeOK, StatsTypeOK, PaidWithinRates, userVars, rowVars, Jobs,
                            Calls
<1>3. ASSUME NEW pc \in {"join", "leave"},
             call' = [call EXCEPT ![h].from = Out, ![h].to = Out],
             job' = [job EXCEPT ![h].pc = pc, ![h].at = clock]
      PROVE  VInv'
  <2> DEFINE j == [job[h] EXCEPT !.pc = pc, !.at = clock]
  <2>6. j \in Jobs /\ j.pc = pc /\ j.next = job[h].next
    <3>1. pc \in Points
      BY PointsAre
    <3> QED BY <3>1, Types DEF Jobs
  <2>7. job' = [job EXCEPT ![h] = j]
    BY <1>3
  <2> HIDE DEF j
  <2>1. job' \in [Handlers -> Jobs]
    BY <2>6, <2>7, Types
  <2>2. \A g \in Handlers : /\ g # h => job'[g] = job[g]
                            /\ g = h => job'[g].pc = pc /\ job'[g].next = job[g].next
    BY <2>6, <2>7, Types
  <2> DEFINE c == [call[h] EXCEPT !.from = Out, !.to = Out]
  <2>8. c \in Calls /\ call' = [call EXCEPT ![h] = c]
    <3>1. Out \in Places
      BY DEF Places
    <3> QED BY <1>3, <3>1, Types DEF Calls
  <2> HIDE DEF c
  <2>9. call' \in [Handlers -> Calls] /\ \A g \in Handlers \ {h} : call'[g] = call[g]
    BY <2>8, Types
  <2>3. TypeOK'
    BY <1>1, <2>1, <2>9 DEF VInv, TypeOK, StatsTypeOK, userVars, rowVars, Jobs, Calls
  <2>4. TasksOK'
    <3>1. pc \notin Steps
      BY DEF Steps
    <3> QED BY <2>2, <2>9, <3>1 DEF VInv, TasksOK, TaskOK
  <2>5. SessionsApart' /\ CountedOnce'
    <3>1. \A g \in Chosen' : /\ g \in Chosen /\ call'[g].session = call[g].session
                             /\ g \in Ending' <=> g \in Ending
      BY <2>2, <2>9 DEF Ending, Chosen
    <3> QED BY <1>1, <3>1, ApartKept DEF Steady
  <2> QED BY <1>1, <2>3, <2>4, <2>5 DEF VInv, PaidWithinRates, rowVars
<1>4. Drop(h) \/ \E pc \in {"join", "leave"} :
                    /\ call' = [call EXCEPT ![h].from = Out, ![h].to = Out]
                    /\ job' = [job EXCEPT ![h].pc = pc, ![h].at = clock]
  BY DEF Classify
<1> QED BY <1>2, <1>3, <1>4

LEMMA AddSessionStep ==
  ASSUME VInv, NEW h \in Handlers, AddSession(h)
  PROVE  VInv'
<1>1. /\ Drop(h)
      /\ UNCHANGED <<clock, userVars, rowVars, up, where, afk, minutes, cleared, counted,
                     shared, spoiled, moves, disturbances>>
  BY DEF AddSession
<1> DEFINE s == [join |-> job[h].at, leave |-> 0, open |-> TRUE, afk |-> 0]
<1>2. sessions' = sessions \/ sessions' = Append(sessions, s)
  BY DEF AddSession
<1>3. s \in Rows
  BY Types, TimeAssumption DEF Jobs, Rows
<1>4. /\ sessions' \in Seq(Rows) /\ DOMAIN sessions \subseteq DOMAIN sessions'
      /\ \A i \in DOMAIN sessions : i \in DOMAIN sessions' /\ sessions'[i] = sessions[i]
      /\ \A i \in DOMAIN sessions' : i \in DOMAIN sessions \/ sessions'[i].open
  <2>1. s.open
    OBVIOUS
  <2> HIDE DEF s
  <2>2. CASE sessions' = Append(sessions, s)
    BY <1>3, <2>1, <2>2, Types
  <2> QED BY <1>2, <2>2, Types
<1>5. Steady
  BY <1>4 DEF Steady
<1>6. /\ job' \in [Handlers -> Jobs] /\ call' \in [Handlers -> Calls]
      /\ TasksOK' /\ SessionsApart' /\ CountedOnce'
  BY <1>1, <1>5, Dropped
<1>7. TypeOK'
  BY <1>1, <1>4, <1>6 DEF VInv, TypeOK, StatsTypeOK, userVars, rowVars, Jobs, Calls
<1> QED BY <1>1, <1>6, <1>7 DEF VInv, PaidWithinRates, rowVars

\* end_vc_session picks an open session; whoever has picked it too shares it.
LEMMA ChooseSessionStep ==
  ASSUME VInv, NEW h \in Handlers, NEW i \in DOMAIN sessions, ChooseSession(h, i)
  PROVE  VInv'
<1>1. /\ UNCHANGED <<clock, userVars, rowVars, up, where, afk, sessions, minutes, cleared,
                     counted, spoiled, moves, disturbances>>
      /\ job[h].pc = "leave" /\ sessions[i].open /\ Goto(h, "ending")
      /\ call' = [call EXCEPT ![h].session = i]
      /\ shared \subseteq shared' /\ shared' \subseteq shared \cup {i}
      /\ \A g \in Handlers \ {h} : job[g].pc = "ending" /\ call[g].session = i => i \in shared'
  BY DEF ChooseSession, Closable, Open
<1> DEFINE c == [call[h] EXCEPT !.session = i]
<1>2. c \in Calls /\ c.session = i
  <2>1. call[h] \in Calls /\ i \in Nat
    BY Types
  <2> QED BY <2>1 DEF Calls
<1>3. call' = [call EXCEPT ![h] = c]
  BY <1>1
<1> HIDE DEF c
<1>4. /\ call' \in [Handlers -> Calls] /\ call'[h].session = i
      /\ \A g \in Handlers \ {h} : call'[g] = call[g]
  BY <1>2, <1>3, Types
<1>5. /\ job' \in [Handlers -> Jobs]
      /\ \A g \in Handlers \ {h} : job'[g] = job[g]
      /\ job'[h].pc = "ending" /\ job'[h].next = job[h].next
  BY <1>1, Types, PointsAre, Going
<1>6. TypeOK'
  BY <1>1, <1>4, <1>5 DEF VInv, TypeOK, StatsTypeOK, userVars, rowVars, Jobs, Calls
<1>7. TasksOK'
  BY <1>4, <1>5 DEF VInv, TasksOK, TaskOK, Steps
<1>8. /\ Chosen' = Chosen \cup {h} /\ h \notin Chosen /\ Ending' = Ending /\ Closed' = Closed
      /\ i \notin Closed
  BY <1>1, <1>5 DEF Chosen, Ending, Closed
<1>9. \A g \in Chosen : call'[g] = call[g] /\ g \in Handlers /\ g # h
  BY <1>4, <1>8 DEF Chosen
<1>10. \A g \in Chosen : call[g].session = i => i \in shared'
  <2>1. \A g \in Chosen : g \in Ending \/ job[g].pc = "ending"
    BY DEF Chosen, Ending
  <2>2. \A g \in Ending : call[g].session # i
    BY <1>8 DEF VInv, SessionsApart
  <2> QED BY <1>1, <1>9, <2>1, <2>2
<1>11. SessionsApart'
  <2>1. /\ \A k \in DOMAIN counted' : counted'[k].session \in Closed'
        /\ \A g \in Ending' : call'[g].session \in Closed'
    <3>1. Ending \subseteq Chosen
      BY DEF Ending, Chosen
    <3> QED BY <1>1, <1>8, <1>9, <3>1 DEF VInv, SessionsApart
  <2>2. \A g \in (Chosen \ Ending)' :
          /\ call'[g].session \in DOMAIN sessions'
          /\ call'[g].session \in Closed' => call'[g].session \in shared'
    BY <1>1, <1>4, <1>8, <1>9 DEF VInv, SessionsApart
  <2>3. \A g \in Chosen' : \A k \in DOMAIN counted' :
          counted'[k].session = call'[g].session => call'[g].session \in shared'
    BY <1>1, <1>4, <1>8, <1>9 DEF VInv, SessionsApart
  <2>4. \A f, g \in Chosen' :
          f # g /\ call'[f].session = call'[g].session => call'[g].session \in shared'
    BY <1>1, <1>4, <1>8, <1>9, <1>10 DEF VInv, SessionsApart
  <2> QED BY <2>1, <2>2, <2>3, <2>4 DEF SessionsApart
<1>12. CountedOnce'
  BY <1>1 DEF VInv, CountedOnce
<1> QED BY <1>1, <1>6, <1>7, <1>11, <1>12 DEF VInv, PaidWithinRates, rowVars

LEMMA EndSessionStep ==
  ASSUME VInv, NEW h \in Handlers, EndSession(h)
  PROVE  VInv'
<1> DEFINE i == call[h].session
           length == job[h].at - sessions[i].join
           ended == [sessions[i] EXCEPT !.leave = job[h].at, !.open = FALSE]
<1>1. /\ UNCHANGED <<clock, userVars, rowVars, up, where, afk, minutes, cleared, counted,
                     shared, spoiled, moves, disturbances>>
      /\ job[h].pc = "ending" /\ length >= 0
      /\ sessions' = [sessions EXCEPT ![i] = ended]
  BY DEF EndSession, Accepted
<1>2. h \in Chosen /\ h \notin Ending /\ i \in DOMAIN sessions
  <2>1. h \in Chosen /\ h \notin Ending
    BY <1>1 DEF Chosen, Ending
  <2> QED BY <2>1 DEF VInv, SessionsApart
<1>3. /\ job[h] \in Jobs /\ job[h].at \in Nat /\ call[h] \in Calls
      /\ sessions[i] \in Rows /\ sessions[i].join \in Nat /\ length \in Nat
  <2>1. job[h] \in Jobs /\ call[h] \in Calls
    BY Types
  <2>2. job[h].at \in Nat
    BY <2>1, TimeAssumption DEF Jobs
  <2>3. sessions[i] \in Rows
    BY <1>2, Types
  <2>4. sessions[i].join \in Nat
    BY <2>3 DEF Rows
  <2> QED BY <1>1, <2>1, <2>2, <2>3, <2>4
<1>4. ended \in Rows /\ ~ended.open /\ ended.join <= ended.leave
  <2>1. /\ ended.join = sessions[i].join /\ ended.leave = job[h].at /\ ~ended.open
        /\ ended \in Rows
    BY <1>3 DEF Rows
  <2> HIDE DEF ended
  <2> QED BY <1>1, <1>3, <2>1
<1> HIDE DEF ended
<1>5. /\ sessions' \in Seq(Rows) /\ DOMAIN sessions' = DOMAIN sessions
      /\ \A k \in DOMAIN sessions : sessions'[k] = IF k = i THEN ended ELSE sessions[k]
  BY <1>1, <1>2, <1>4, Types
<1>6. /\ Closed' = Closed \cup {i}
      /\ \A k \in DOMAIN sessions' : sessions'[k].open \/ sessions'[k].join <= sessions'[k].leave
  BY <1>2, <1>4, <1>5 DEF Closed, VInv, TypeOK
<1>7. ASSUME job' \in [Handlers -> Jobs], call' \in [Handlers -> Calls], TasksOK',
             \A g \in Handlers \ {h} : job'[g] = job[g] /\ call'[g] = call[g],
             job'[h].pc = "idle" \/ (job'[h].pc = "day" /\ call'[h].session = i)
      PROVE  VInv'
  <2>1. TypeOK'
    BY <1>1, <1>5, <1>6, <1>7 DEF VInv, TypeOK, StatsTypeOK, userVars, rowVars, Jobs, Calls
  <2>2. /\ \A g \in Ending' : g \in Ending \/ call'[g].session = i
        /\ \A g \in (Chosen \ Ending)' : g \in Chosen \ Ending /\ g # h
        /\ \A g \in Chosen' : g \in Chosen /\ call'[g].session = call[g].session
        /\ \A g \in Ending : call'[g] = call[g]
    BY <1>1, <1>2, <1>7 DEF Chosen, Ending
  <2>3. /\ \A k \in DOMAIN counted' : counted'[k].session \in Closed'
        /\ \A g \in Ending' : call'[g].session \in Closed'
    BY <1>1, <1>6, <2>2 DEF VInv, SessionsApart
  <2>4. \A g \in (Chosen \ Ending)' :
          /\ call'[g].session \in DOMAIN sessions'
          /\ call'[g].session \in Closed' => call'[g].session \in shared'
    <3> TAKE g \in (Chosen \ Ending)'
    <3>1. g \in Chosen \ Ending /\ g # h /\ call'[g].session = call[g].session
      BY <2>2
    <3>2. call[g].session = i => i \in shared
      BY <1>2, <3>1 DEF VInv, SessionsApart
    <3> QED BY <1>1, <1>5, <1>6, <3>1, <3>2 DEF VInv, SessionsApart
  <2>5. /\ \A g \in Chosen' : \A k \in DOMAIN counted' :
             counted'[k].session = call'[g].session => call'[g].session \in shared'
        /\ \A f, g \in Chosen' :
             f # g /\ call'[f].session = call'[g].session => call'[g].session \in shared'
    BY <1>1, <2>2 DEF VInv, SessionsApart
  <2>6. SessionsApart'
    BY <2>3, <2>4, <2>5 DEF SessionsApart
  <2>7. CountedOnce' /\ PaidWithinRates'
    BY <1>1 DEF VInv, CountedOnce, PaidWithinRates, rowVars
  <2> QED BY <1>7, <2>1, <2>6, <2>7 DEF VInv
<1>8. CASE Drop(h)
  BY <1>7, <1>8, DroppedTypes
<1>9. CASE Goto(h, "day") /\ call' = [call EXCEPT ![h].length = length \div TicksPerMinute]
  <2> DEFINE c == [call[h] EXCEPT !.length = length \div TicksPerMinute]
  <2>1. /\ job' \in [Handlers -> Jobs]
        /\ \A g \in Handlers \ {h} : job'[g] = job[g]
        /\ job'[h].pc = "day" /\ job'[h].next = job[h].next
    BY <1>9, Types, PointsAre, Going
  <2>2. length \div TicksPerMinute \in Nat
    BY <1>3, Quotients, VoiceAssumption
  <2>3. c \in Calls /\ c.session = i
    BY <1>3, <2>2 DEF Calls
  <2>4. call' = [call EXCEPT ![h] = c]
    BY <1>9
  <2> HIDE DEF c
  <2>5. /\ call' \in [Handlers -> Calls] /\ call'[h].session = i
        /\ \A g \in Handlers \ {h} : call'[g] = call[g]
    BY <2>3, <2>4, Types
  <2>6. TasksOK'
    BY <2>1, <2>5 DEF VInv, TasksOK, TaskOK, Steps
  <2> QED BY <1>7, <2>1, <2>5, <2>6
<1> QED BY <1>8, <1>9 DEF EndSession

LEMMA EndNothingStep ==
  ASSUME VInv, NEW h \in Handlers, EndNothing(h)
  PROVE  VInv'
<1>1. /\ UNCHANGED <<clock, userVars, rowVars, up, where, afk, sessions, minutes, cleared,
                     counted, shared, spoiled, moves, disturbances>>
      /\ Drop(h)
  BY DEF EndNothing
<1>2. /\ job' \in [Handlers -> Jobs] /\ call' \in [Handlers -> Calls]
      /\ TasksOK' /\ SessionsApart' /\ CountedOnce'
  BY <1>1, Dropped DEF Steady
<1> QED BY <1>1, <1>2 DEF VInv, TypeOK, StatsTypeOK, PaidWithinRates, userVars, rowVars, Jobs, Calls

LEMMA RefuseLeaveStep ==
  ASSUME VInv, NEW h \in Handlers, RefuseLeave(h)
  PROVE  VInv'
<1>1. /\ UNCHANGED <<clock, userVars, rowVars, up, where, afk, sessions, minutes, cleared,
                     counted, shared, moves, disturbances>>
      /\ Drop(h) /\ spoiled' \in BOOLEAN
  BY DEF RefuseLeave
<1>2. /\ job' \in [Handlers -> Jobs] /\ call' \in [Handlers -> Calls]
      /\ TasksOK' /\ SessionsApart' /\ CountedOnce'
  BY <1>1, Dropped DEF Steady
<1> QED BY <1>1, <1>2 DEF VInv, TypeOK, StatsTypeOK, PaidWithinRates, userVars, rowVars, Jobs, Calls

\* From "day" to "store": the task still holds its session.
LEMMA ReadStep ==
  ASSUME VInv, NEW h \in Handlers, NEW prior \in Nat, NEW blind \in BOOLEAN,
         job[h].pc = "day", Goto(h, "store"),
         call' = [call EXCEPT ![h] = [@ EXCEPT !.day = Day(clock), !.prior = prior,
                                               !.blind = blind]],
         disturbances' \in 0..MaxDisturbances,
         UNCHANGED <<clock, userVars, rowVars, up, where, afk, sessions, minutes, cleared,
                     counted, shared, spoiled, moves>>
  PROVE  VInv'
<1> DEFINE c == [call[h] EXCEPT !.day = Day(clock), !.prior = prior, !.blind = blind]
<1>1. call[h] \in Calls /\ Day(clock) \in Days
  BY Types, DayType
<1>2. c \in Calls /\ c.session = call[h].session
  BY <1>1 DEF Calls
<1>3. call' = [call EXCEPT ![h] = c]
  OBVIOUS
<1> HIDE DEF c
<1>4. /\ call' \in [Handlers -> Calls] /\ call'[h].session = call[h].session
      /\ \A g \in Handlers \ {h} : call'[g] = call[g]
  BY <1>2, <1>3, Types
<1>5. /\ job' \in [Handlers -> Jobs]
      /\ \A g \in Handlers \ {h} : job'[g] = job[g]
      /\ job'[h].pc = "store" /\ job'[h].next = job[h].next
  BY Types, PointsAre, Going
<1>6. TasksOK'
  BY <1>4, <1>5 DEF VInv, TasksOK, TaskOK, Steps
<1>7. SessionsApart' /\ CountedOnce'
  BY <1>4, <1>5, ApartKept DEF Ending, Chosen, Steady
<1> QED BY <1>4, <1>5, <1>6, <1>7
        DEF VInv, TypeOK, StatsTypeOK, PaidWithinRates, userVars, rowVars, Jobs, Calls

LEMMA ReadDayStep ==
  ASSUME VInv, NEW h \in Handlers, ReadDay(h)
  PROVE  VInv'
<1> DEFINE today == Day(clock)
<1>1. Prior(today) \in Nat
  <2>1. today \in Days /\ today \in Int /\ minutes[today] \in Nat \cup {Cold}
    BY Types, DayType
  <2>2. TableMinutes(today) \in Nat
    BY <2>1, Types, TableMinutesNat
  <2> HIDE DEF today
  <2> QED BY <2>1, <2>2 DEF Prior
<1>2. call[h].blind \in BOOLEAN /\ call[h] \in Calls
  BY Types DEF Calls
<1>3. [call[h] EXCEPT !.day = today, !.prior = Prior(today)]
        = [call[h] EXCEPT !.day = today, !.prior = Prior(today), !.blind = call[h].blind]
  BY <1>2 DEF Calls
<1>4. call' = [call EXCEPT ![h] = [@ EXCEPT !.day = today, !.prior = Prior(today),
                                            !.blind = call[h].blind]]
  BY <1>3 DEF ReadDay
<1>5. disturbances' \in 0..MaxDisturbances
  BY Types DEF ReadDay
<1> QED BY <1>1, <1>2, <1>4, <1>5, ReadStep DEF ReadDay

LEMMA ReadDayFailsStep ==
  ASSUME VInv, NEW h \in Handlers, ReadDayFails(h)
  PROVE  VInv'
<1>1. disturbances' \in 0..MaxDisturbances
  BY TimeAssumption, Types DEF ReadDayFails, Disturb
<1>2. call' = [call EXCEPT ![h] = [@ EXCEPT !.day = Day(clock), !.prior = 0, !.blind = TRUE]]
  BY DEF ReadDayFails
<1> QED BY <1>1, <1>2, ReadStep DEF ReadDayFails

\* handle_vc_xp counts the session and hands its minutes and XP to the increment.
LEMMA StoreDayStep ==
  ASSUME VInv, NEW h \in Handlers, NEW earned \in Worth(h), StoreDay(h, earned),
         disturbances' \in 0..MaxDisturbances
  PROVE  VInv'
<1> DEFINE e == [session |-> call[h].session, day |-> call[h].day, length |-> call[h].length,
                 blind |-> call[h].blind, earned |-> earned]
           j == Job("voice", call[h].length, "idle")
           c == [call[h] EXCEPT !.earned = earned]
<1>1. /\ UNCHANGED <<clock, userVars, rowVars, up, where, afk, sessions, cleared, shared,
                     spoiled, moves>>
      /\ job[h].pc = "store"
      /\ minutes' = [minutes EXCEPT ![call[h].day] = Updated(h)]
      /\ counted' = Append(counted, e)
      /\ job' = [job EXCEPT ![h] = j]
      /\ call' = [call EXCEPT ![h] = c]
  BY DEF StoreDay
<1>2. /\ call[h] \in Calls /\ call[h].length \in Nat /\ call[h].prior \in Nat
      /\ call[h].day \in Days /\ call[h].session \in Nat /\ call[h].blind \in BOOLEAN
  BY Types DEF Calls
<1>3. earned \in Nat /\ PaidWithin(call[h].length, earned)
  BY <1>2, WorthWithin
<1>4. e \in Counts /\ e.session = call[h].session
  BY <1>2, <1>3 DEF Counts
<1>5. j \in Jobs /\ j.pc = "lookup" /\ j.next = "idle" /\ j.stat = "voice" /\ j.by = call[h].length
  <2> DEFINE length == call[h].length
  <2>1. j = [NoJob EXCEPT !.pc = "lookup", !.stat = "voice", !.by = length, !.at = clock,
                          !.next = "idle"]
    BY DEF Job
  <2>2. "lookup" \in Points /\ length \in Nat
    BY <1>2, PointsAre
  <2> HIDE DEF length, j
  <2>3. j \in Jobs /\ j.pc = "lookup" /\ j.next = "idle" /\ j.stat = "voice" /\ j.by = length
    BY <2>1, <2>2, NothingTypes, Types, VoiceAssumption DEF Jobs
  <2> QED BY <2>3 DEF length
<1>6. c \in Calls /\ c.session = call[h].session /\ c.length = call[h].length /\ c.earned = earned
  BY <1>2, <1>3 DEF Calls
<1> HIDE DEF e, j, c
<1>7. /\ job' \in [Handlers -> Jobs] /\ job'[h] = j
      /\ \A g \in Handlers \ {h} : job'[g] = job[g]
  BY <1>1, <1>5, Types
<1>8. /\ call' \in [Handlers -> Calls] /\ call'[h] = c
      /\ \A g \in Handlers \ {h} : call'[g] = call[g]
  BY <1>1, <1>6, Types
<1>9. /\ counted' \in Seq(Counts)
      /\ DOMAIN counted' = DOMAIN counted \cup {Len(counted) + 1}
      /\ \A k \in DOMAIN counted : counted'[k] = counted[k]
      /\ Len(counted) + 1 \notin DOMAIN counted
      /\ counted'[Len(counted) + 1] = e
  BY <1>1, <1>4, Types
<1>10. minutes' \in [Days -> Nat \cup {Cold}]
  <2>1. Updated(h) \in Nat
    BY <1>2 DEF Updated
  <2> QED BY <1>1, <1>2, <2>1, Types
<1>11. TypeOK'
  BY <1>1, <1>7, <1>8, <1>9, <1>10
     DEF VInv, TypeOK, StatsTypeOK, userVars, rowVars, Jobs, Calls, Counts
<1>12. TasksOK'
  BY <1>3, <1>5, <1>6, <1>7, <1>8 DEF VInv, TasksOK, TaskOK
<1>13. /\ h \in Ending /\ Ending' = Ending \ {h} /\ Closed' = Closed
       /\ h \in Chosen /\ Chosen' = Chosen \ {h}
  BY <1>1, <1>5, <1>7 DEF Ending, Chosen, Closed
<1>14. SessionsApart'
  <2>1. \A k \in DOMAIN counted' : \/ k \in DOMAIN counted /\ counted'[k] = counted[k]
                                   \/ counted'[k].session = call[h].session
    BY <1>4, <1>9
  <2>2. \A g \in Chosen' : g \in Chosen /\ g # h /\ call'[g] = call[g]
    BY <1>8, <1>13 DEF Chosen
  <2>3. /\ \A k \in DOMAIN counted' : counted'[k].session \in Closed'
        /\ \A g \in Ending' : call'[g].session \in Closed'
    BY <1>8, <1>13, <2>1 DEF VInv, SessionsApart, Ending
  <2>4. \A g \in (Chosen \ Ending)' :
          /\ call'[g].session \in DOMAIN sessions'
          /\ call'[g].session \in Closed' => call'[g].session \in shared'
    BY <1>1, <1>13, <2>2 DEF VInv, SessionsApart
  <2>5. \A g \in Chosen' : \A k \in DOMAIN counted' :
          counted'[k].session = call'[g].session => call'[g].session \in shared'
    BY <1>1, <1>13, <2>1, <2>2 DEF VInv, SessionsApart
  <2>6. \A f, g \in Chosen' :
          f # g /\ call'[f].session = call'[g].session => call'[g].session \in shared'
    BY <1>1, <2>2 DEF VInv, SessionsApart
  <2> QED BY <2>3, <2>4, <2>5, <2>6 DEF SessionsApart
<1>15. CountedOnce'
  <2>1. \A k \in DOMAIN counted : counted[k].session = call[h].session => call[h].session \in shared
    BY <1>13 DEF VInv, SessionsApart
  <2> QED BY <1>1, <1>4, <1>9, <2>1 DEF VInv, CountedOnce
<1> QED BY <1>1, <1>11, <1>12, <1>14, <1>15 DEF VInv, PaidWithinRates, rowVars

LEMMA StoreDayPaidStep ==
  ASSUME VInv, NEW h \in Handlers, StoreDayPaid(h)
  PROVE  VInv'
<1>1. disturbances' \in 0..MaxDisturbances
  BY Types, TimeAssumption DEF StoreDayPaid, Disturb
<1>2. PICK earned \in Worth(h) : StoreDay(h, earned)
  BY DEF StoreDayPaid, Worth
<1> QED BY <1>1, <1>2, StoreDayStep

\* In the increment: nothing of the task but its place, and what it has read, changes.
LEMMA IncrementKeeps ==
  ASSUME VInv, NEW h \in Handlers, NEW j \in Jobs, job[h].pc \in Steps,
         job' = [job EXCEPT ![h] = j],
         j.next = "idle", j.pc \in Steps \cup {"idle"},
         j.pc \in Steps => j.stat = job[h].stat /\ j.by = job[h].by,
         call' = [call EXCEPT ![h] = IF job'[h].pc = "idle" THEN NoCall ELSE @],
         UNCHANGED <<clock, userVars, up, where, afk, sessions, minutes, cleared, counted,
                     shared, spoiled, moves, disturbances>>,
         latest' \in [Stats -> Row],
         xp' \in [total : Nat, level : 1..LevelCap],
         ledger' \in Seq(Entries), PaidWithinRates'
  PROVE  VInv'
<1>1. /\ job' \in [Handlers -> Jobs] /\ job'[h] = j
      /\ \A g \in Handlers \ {h} : job'[g] = job[g]
  BY Types
<1>2. /\ call' \in [Handlers -> Calls]
      /\ j.pc # "idle" => call'[h] = call[h]
      /\ \A g \in Handlers \ {h} : call'[g] = call[g]
  BY <1>1, Types, NothingTypes
<1>3. TasksOK'
  BY <1>1, <1>2 DEF VInv, TasksOK, TaskOK, Steps
<1>4. SessionsApart' /\ CountedOnce'
  BY <1>1, <1>2, ApartKept DEF Ending, Chosen, Steady, Steps
<1>5. TypeOK'
  BY <1>1, <1>2 DEF VInv, TypeOK, StatsTypeOK, userVars, Jobs, Calls, Entries, Row
<1> QED BY <1>3, <1>4, <1>5 DEF VInv

LEMMA Returning ==
  ASSUME VInv, NEW h \in Handlers, Return(h)
  PROVE  job' = [job EXCEPT ![h] = NoJob] /\ NoJob.next = "idle" /\ NoJob.pc = "idle"
BY DEF VInv, TasksOK, TaskOK, Return, NoJob

LEMMA IncrementStep ==
  ASSUME VInv, NEW h \in Handlers, Increment(h)
  PROVE  VInv'
<1>1. /\ call' = [call EXCEPT ![h] = IF job'[h].pc = "idle" THEN NoCall ELSE @]
      /\ UNCHANGED <<clock, up, where, afk, sessions, minutes, cleared, counted, shared,
                     spoiled, moves, disturbances>>
  BY DEF Increment
<1>2. /\ job[h] \in Jobs /\ job[h].by \in Nat /\ job[h].old \in Nat /\ job[h].at \in 0..MaxTime
      /\ job[h].stat \in Stats \cup {NoStat}
  BY Types DEF Jobs
<1>3. job[h].next = "idle" /\ (job[h].pc \in Steps => job[h].stat = "voice")
  BY DEF VInv, TasksOK, TaskOK
<1>4. /\ latest \in [Stats -> Row]
      /\ ledger \in Seq(Entries) /\ xp \in [total : Nat, level : 1..LevelCap]
      /\ "voice" \in Stats
  BY Types, VoiceAssumption DEF VInv, TypeOK, StatsTypeOK
<1>5. UNCHANGED ledger => PaidWithinRates'
  BY DEF VInv, PaidWithinRates
<1>6. CASE UNCHANGED <<userVars, rowVars>> /\ job[h].pc \in Steps /\ Return(h)
  <2>1. job' = [job EXCEPT ![h] = NoJob] /\ NoJob.next = "idle" /\ NoJob.pc = "idle"
    BY <1>6, Returning
  <2>2. NoJob \in Jobs /\ "idle" \notin Steps
    BY NothingTypes DEF Steps
  <2> QED BY <1>1, <1>4, <1>5, <1>6, <2>1, <2>2, IncrementKeeps DEF rowVars
<1>7. ASSUME NEW pc \in Steps, Goto(h, pc), UNCHANGED <<userVars, rowVars>>, job[h].pc \in Steps
      PROVE  VInv'
  <2> DEFINE j == [job[h] EXCEPT !.pc = pc]
  <2>1. pc \in Points
    BY DEF Points
  <2>2. j \in Jobs /\ j.pc = pc /\ j.next = "idle" /\ j.stat = job[h].stat /\ j.by = job[h].by
    BY <1>2, <1>3, <2>1 DEF Jobs
  <2>3. job' = [job EXCEPT ![h] = j]
    BY <1>7 DEF Goto
  <2> HIDE DEF j
  <2> QED BY <1>1, <1>4, <1>5, <1>7, <2>2, <2>3, IncrementKeeps DEF rowVars
<1>8. CASE LookUp(h)
  <2>1. "lookup" \in Steps /\ "read" \in Steps
    BY DEF Steps
  <2> QED BY <1>6, <1>7, <1>8, <2>1 DEF LookUp
<1>9. CASE CheckBan(h)
  <2>1. "ban" \in Steps /\ "commit" \in Steps
    BY DEF Steps
  <2> QED BY <1>6, <1>7, <1>9, <2>1 DEF CheckBan
<1>10. CASE ReadSnapshot(h)
  <2>1. "read" \in Steps /\ "insert" \in Steps /\ job[h].pc = "read" /\ job[h].stat \in Stats
        /\ UNCHANGED <<userVars, ledger, xp>>
    BY <1>3, <1>4, <1>10, StepsAre DEF ReadSnapshot
  <2>2. PICK j \in Jobs, row \in Row :
          /\ job' = [job EXCEPT ![h] = j] /\ latest' = [latest EXCEPT ![job[h].stat] = row]
          /\ j.pc = "insert" /\ j.stat = job[h].stat /\ j.by = job[h].by /\ j.next = job[h].next
    BY <1>10, <2>1, Types, ReadIs
  <2>3. latest' \in [Stats -> Row]
    BY <1>4, <2>1, <2>2
  <2> QED BY <1>1, <1>3, <1>4, <1>5, <2>1, <2>2, <2>3, IncrementKeeps
<1>11. CASE InsertSnapshot(h)
  <2>1. "insert" \in Steps /\ "ban" \in Steps /\ job[h].pc = "insert" /\ job[h].stat \in Stats
        /\ UNCHANGED <<userVars, ledger, xp>>
    BY <1>3, <1>4, <1>11, StepsAre DEF InsertSnapshot
  <2>2. PICK j \in Jobs, row \in Row :
          /\ job' = [job EXCEPT ![h] = j] /\ latest' = [latest EXCEPT ![job[h].stat] = row]
          /\ j.pc = "ban" /\ j.stat = job[h].stat /\ j.by = job[h].by /\ j.at = job[h].at
          /\ j.next = job[h].next /\ j.free = ~banned
          /\ row.written = latest[job[h].stat].written + 1
          /\ row.met = latest[job[h].stat].met
          /\ job[h].at >= latest[job[h].stat].at =>
               row.value = job[h].old + job[h].by /\ row.at = job[h].at
    <3>1. job \in [Handlers -> Jobs] /\ latest \in [Stats -> Row]
      BY Types
    <3> QED BY <1>11, <2>1, <3>1, InsertIs
  <2>3. latest' \in [Stats -> Row]
    BY <1>4, <2>1, <2>2
  <2> QED BY <1>1, <1>3, <1>4, <1>5, <2>1, <2>2, <2>3, IncrementKeeps
<1>12. CASE Commit(h, call[h].earned)
  <2> DEFINE earned == call[h].earned
             e == [stat |-> job[h].stat, old |-> job[h].old, new |-> job[h].old + job[h].by,
                   earned |-> earned]
  <2>1. "commit" \in Steps /\ job[h].pc = "commit"
    BY <1>12 DEF Steps, Commit
  <2>2. /\ job[h].stat = "voice" /\ job[h].by = call[h].length
        /\ PaidWithin(job[h].by, earned) /\ earned \in Nat
    BY <2>1, Types DEF VInv, TasksOK, TaskOK, Calls
  <2>3. /\ ledger' = Append(ledger, e) /\ UNCHANGED <<userVars, latest>> /\ Return(h)
        /\ xp' = IF earned > 0 THEN Credited(earned) ELSE xp
    BY <1>12 DEF Commit
  <2>4. e \in Entries /\ e.new - e.old = job[h].by /\ e.earned = earned
    BY <1>2, <1>4, <2>2 DEF Entries
  <2>5. xp' \in [total : Nat, level : 1..LevelCap]
    <3>1. xp.total + earned \in Nat
      BY <1>4, <2>2
    <3>2. CalculateLevel(xp.total + earned) \in 1..LevelCap
      BY <3>1, CalculateLevelInBand
    <3> QED BY <1>4, <2>3, <3>1, <3>2 DEF Credited
  <2> HIDE DEF e
  <2>6. ledger' \in Seq(Entries) /\ PaidWithinRates'
    <3>1. /\ ledger' \in Seq(Entries)
          /\ \A k \in DOMAIN ledger' : \/ k \in DOMAIN ledger /\ ledger'[k] = ledger[k]
                                       \/ ledger'[k] = e
      BY <1>4, <2>3, <2>4
    <3> QED BY <2>2, <2>4, <3>1 DEF VInv, PaidWithinRates
  <2>7. job' = [job EXCEPT ![h] = NoJob] /\ NoJob.next = "idle" /\ NoJob.pc = "idle"
    BY <2>3, Returning
  <2>8. NoJob \in Jobs /\ "idle" \notin Steps
    BY NothingTypes DEF Steps
  <2> HIDE DEF earned
  <2> QED BY <1>1, <1>4, <2>1, <2>3, <2>5, <2>6, <2>7, <2>8, IncrementKeeps
<1> QED BY <1>8, <1>9, <1>10, <1>11, <1>12 DEF Increment

LEMMA FailVoiceStep ==
  ASSUME VInv, NEW h \in Handlers, FailVoice(h)
  PROVE  VInv'
<1>1. /\ UNCHANGED <<clock, userVars, rowVars, up, where, afk, sessions, minutes, cleared,
                     counted, shared, moves>>
      /\ Drop(h) /\ spoiled' \in BOOLEAN /\ disturbances' \in 0..MaxDisturbances
  <2>1. disturbances' \in 0..MaxDisturbances
    BY TimeAssumption, Types DEF FailVoice, Disturb
  <2>2. spoiled' \in BOOLEAN
    BY Zenon DEF FailVoice, VInv, TypeOK
  <2> QED BY <2>1, <2>2 DEF FailVoice
<1>2. /\ job' \in [Handlers -> Jobs] /\ call' \in [Handlers -> Calls]
      /\ TasksOK' /\ SessionsApart' /\ CountedOnce'
  BY <1>1, Dropped DEF Steady
<1> QED BY <1>1, <1>2 DEF VInv, TypeOK, StatsTypeOK, PaidWithinRates, userVars, rowVars, Jobs, Calls

\* What tasks do not do leaves tasks, sessions and XP alone.
LEMMA AsideStep ==
  ASSUME VInv, UNCHANGED <<clock, rowVars, job, call, sessions, counted, shared, where>>, TypeOK'
  PROVE  VInv'
BY DEF VInv, TasksOK, TaskOK, SessionsApart, CountedOnce, PaidWithinRates, Ending, Chosen, Closed,
       rowVars

LEMMA SettingStep ==
  ASSUME VInv, NEW channel \in Channels \cup {NoChannel},
         SetAfk(channel) \/ ReloadConfig(channel)
  PROVE  VInv'
<1>1. /\ UNCHANGED <<clock, userVars, rowVars, job, up, where, sessions, minutes, cleared, call,
                     counted, shared, moves>>
      /\ disturbances' \in 0..MaxDisturbances
  BY TimeAssumption, Types DEF SetAfk, ReloadConfig, Disturb
<1>2. /\ afk' \in [stored : Channels \cup {NoChannel}, cached : Channels \cup {NoChannel}]
      /\ spoiled' \in BOOLEAN
  <2>1. afk.stored \in Channels \cup {NoChannel}
    BY DEF VInv, TypeOK
  <2> QED BY <2>1 DEF SetAfk, ReloadConfig, Reconfigured, VInv, TypeOK, InVoice
<1>3. TypeOK'
  BY <1>1, <1>2 DEF VInv, TypeOK, StatsTypeOK, userVars, rowVars
<1> QED BY <1>1, <1>3, AsideStep

LEMMA ClearStep ==
  ASSUME VInv, ClearDailyMinutes \/ Restart
  PROVE  VInv'
<1>1. Day(clock) \in Days
  BY Types, DayType
<1>2. TypeOK'
  BY <1>1 DEF ClearDailyMinutes, Restart, VInv, TypeOK, StatsTypeOK, userVars, rowVars
<1> QED BY <1>2, AsideStep DEF ClearDailyMinutes, Restart

LEMMA CrashStep ==
  ASSUME VInv, Crash
  PROVE  VInv'
<1>1. /\ UNCHANGED <<clock, userVars, rowVars, where, sessions, cleared, counted, shared, moves>>
      /\ up' \in BOOLEAN /\ spoiled' \in BOOLEAN /\ disturbances' \in 0..MaxDisturbances
      /\ minutes' \in [Days -> Nat \cup {Cold}]
  <2>1. disturbances' \in 0..MaxDisturbances
    BY TimeAssumption, Types DEF Crash, Disturb
  <2>2. minutes' \in [Days -> Nat \cup {Cold}]
    BY DEF Crash
  <2>3. spoiled' \in BOOLEAN
    BY DEF Crash, Reconfigured
  <2> QED BY <2>1, <2>2, <2>3 DEF Crash
<1>2. afk' \in [stored : Channels \cup {NoChannel}, cached : Channels \cup {NoChannel}]
  BY DEF Crash, Reconfigured, VInv, TypeOK
<1>3. /\ job' \in [Handlers -> Jobs] /\ call' \in [Handlers -> Calls]
      /\ \A h \in Handlers : job'[h].pc = "idle" /\ job'[h].next = "idle"
  BY NothingTypes DEF Crash, NoJob
<1>4. TasksOK' /\ Chosen' = {}
  BY <1>3 DEF TasksOK, TaskOK, Chosen, Steps
<1>5. SessionsApart' /\ CountedOnce'
  BY <1>1, <1>4, ApartKept DEF Steady
<1>6. TypeOK'
  BY <1>1, <1>2, <1>3 DEF VInv, TypeOK, StatsTypeOK, userVars, rowVars, Jobs, Calls
<1> QED BY <1>1, <1>4, <1>5, <1>6 DEF VInv, PaidWithinRates, rowVars

LEMMA MemberStep ==
  ASSUME VInv, Member
  PROVE  VInv'
<1>1. /\ UNCHANGED <<clock, up, where, afk, sessions, minutes, cleared, call, counted, shared,
                     spoiled, moves, rowVars>>
      /\ disturbances' \in 0..MaxDisturbances
  BY TimeAssumption, Types DEF Member, LeaveOrReturn, BanOrUnban, Disturb
<1>2. active' \in BOOLEAN /\ banned' \in BOOLEAN
  BY DEF Member, LeaveOrReturn, BanOrUnban, VInv, TypeOK, StatsTypeOK
<1>3. CASE LeaveOrReturn
  <2>1. UNCHANGED job
    BY <1>3 DEF LeaveOrReturn
  <2>2. TypeOK'
    BY <1>1, <1>2, <2>1 DEF VInv, TypeOK, StatsTypeOK, rowVars
  <2> QED BY <1>1, <2>1, <2>2, AsideStep
<1>4. CASE BanOrUnban
  <2>1. job' = [h \in Handlers |->
                  [job[h] EXCEPT !.free = @ \/ (banned /\ job[h].pc # "idle")]]
    BY <1>4 DEF BanOrUnban
  <2>2. ASSUME NEW h \in Handlers
        PROVE  /\ job'[h] \in Jobs /\ job'[h].pc = job[h].pc /\ job'[h].next = job[h].next
               /\ job'[h].stat = job[h].stat /\ job'[h].by = job[h].by
    <3> DEFINE f == job[h].free \/ (banned /\ job[h].pc # "idle")
               j == [job[h] EXCEPT !.free = f]
    <3>1. job[h] \in Jobs /\ job'[h] = j
      BY <2>1, Types
    <3>2. f \in BOOLEAN
      BY <3>1 DEF Jobs
    <3> HIDE DEF f
    <3>3. /\ j \in Jobs /\ j.pc = job[h].pc /\ j.next = job[h].next
          /\ j.stat = job[h].stat /\ j.by = job[h].by
      BY <3>1, <3>2 DEF Jobs
    <3> QED BY <3>1, <3>3
  <2>3. job' \in [Handlers -> Jobs]
    BY <2>1, <2>2
  <2>4. TasksOK' /\ Ending' = Ending /\ Chosen' = Chosen
    BY <1>1, <2>2 DEF VInv, TasksOK, TaskOK, Ending, Chosen
  <2>5. SessionsApart' /\ CountedOnce'
    BY <1>1, <2>4, ApartKept DEF Steady
  <2>6. TypeOK'
    BY <1>1, <1>2, <2>3 DEF VInv, TypeOK, StatsTypeOK, rowVars, Jobs
  <2> QED BY <1>1, <2>4, <2>5, <2>6 DEF VInv, PaidWithinRates, rowVars
<1> QED BY <1>3, <1>4 DEF Member

LEMMA TickStep ==
  ASSUME VInv, Tick
  PROVE  VInv'
<1>1. /\ UNCHANGED <<userVars, rowVars, job, up, where, afk, minutes, cleared, call, counted,
                     shared, spoiled, moves, disturbances>>
      /\ clock' \in 0..MaxTime
  BY TimeAssumption, Types DEF Tick
<1>2. sessions' = [i \in DOMAIN sessions |->
                     IF sessions[i].open /\ InAfk
                     THEN [sessions[i] EXCEPT !.afk = @ + 1] ELSE sessions[i]]
  BY DEF Tick
<1>3. ASSUME NEW s \in Rows
      PROVE  LET t == [s EXCEPT !.afk = @ + 1]
             IN  t \in Rows /\ t.open = s.open /\ t.join = s.join /\ t.leave = s.leave
  BY DEF Rows
<1>4. \A i \in DOMAIN sessions :
        /\ sessions'[i] \in Rows /\ sessions'[i].open = sessions[i].open
        /\ sessions'[i].join = sessions[i].join /\ sessions'[i].leave = sessions[i].leave
  <2> TAKE i \in DOMAIN sessions
  <2>1. sessions[i] \in Rows
    BY Types
  <2> QED BY <1>2, <1>3, <2>1
<1>5. sessions' \in Seq(Rows) /\ DOMAIN sessions' = DOMAIN sessions
  <2>1. DOMAIN sessions' = 1..Len(sessions) /\ Len(sessions) \in Nat
    BY <1>2, Types
  <2>2. sessions' \in [1..Len(sessions) -> Rows]
    BY <1>2, <1>4, <2>1
  <2> QED BY <1>2, <2>1, <2>2
<1>6. Steady
  BY <1>4, <1>5 DEF Steady
<1>7. TypeOK'
  BY <1>1, <1>4, <1>5 DEF VInv, TypeOK, StatsTypeOK, userVars, rowVars
<1>8. SessionsApart' /\ CountedOnce'
  BY <1>1, <1>6, ApartKept DEF Ending, Chosen
<1> QED BY <1>1, <1>7, <1>8 DEF VInv, TasksOK, TaskOK, PaidWithinRates, rowVars

LEMMA VInvStep == VInv /\ [Next]_vars => VInv'
<1> SUFFICES ASSUME VInv, [Next]_vars PROVE VInv'
  OBVIOUS
<1>1. CASE UNCHANGED vars
  BY <1>1 DEF vars, voiceVars, userVars, rowVars, VInv, TypeOK, StatsTypeOK, TasksOK, TaskOK,
              SessionsApart, CountedOnce, PaidWithinRates, Ending, Chosen, Closed
<1>2. ASSUME NEW h \in Handlers, Handle(h)
      PROVE  VInv'
  BY <1>2, ClassifyStep, AddSessionStep, ChooseSessionStep, EndSessionStep, EndNothingStep,
     RefuseLeaveStep, ReadDayStep, ReadDayFailsStep, StoreDayPaidStep, IncrementStep, FailVoiceStep
     DEF Handle
<1>3. CASE Next
  BY <1>2, <1>3, MoveStep, SettingStep, ClearStep, CrashStep, MemberStep, TickStep DEF Next
<1> QED BY <1>1, <1>3

(***************************************************************************)
(* The theorems.                                                           *)
(***************************************************************************)
\* The types of the variables, and no vc_sessions row ends before it began:
\* the CHECK of the table, and the width of every counter the curve is fed.
THEOREM VoiceTypes == Spec => []TypeOK
<1>1. VInv => TypeOK
  BY DEF VInv
<1> QED BY <1>1, InitStep, VInvStep, PTL DEF Spec

\* end_vc_session: however many tasks overlap, and whatever fails or restarts,
\* handle_vc_xp is called twice only for a session that two leaves had picked at
\* the same time, and so was still open when the user left a second time.
THEOREM SessionsCountedOnce == Spec => []CountedOnce
<1>1. VInv => CountedOnce
  BY DEF VInv
<1> QED BY <1>1, InitStep, VInvStep, PTL DEF Spec

\* Each voice entry of the ledger is worth, by calculate_integral_xp, between
\* the floor rate and the dearer of the floor and the initial rate a minute,
\* whatever the cache of the day held and however tasks overlapped on it.
THEOREM VoicePaidWithinRates == Spec => []PaidWithinRates
<1>1. VInv => PaidWithinRates
  BY DEF VInv
<1> QED BY <1>1, InitStep, VInvStep, PTL DEF Spec
-----------------------------------------------------------------------------
(* Presence *)

\* The user is where his time counts, as the process has it configured.
Here == InVoice(where, afk.cached)
IsOpen == Open # {}

\* What the only task of an undisturbed user finds.
Sees(h) ==
  /\ job[h].pc = "state" => call[h].to = where /\ (IsOpen <=> InVoice(call[h].from, afk.cached))
  /\ job[h].pc = "join" => ~IsOpen /\ Here
  /\ job[h].pc = "leave" => IsOpen /\ ~Here
  /\ job[h].pc = "ending" => IsOpen /\ ~Here /\ call[h].session \in Open
  /\ job[h].pc \notin {"idle", "state", "join", "leave", "ending"} => ~IsOpen /\ ~Here

Undisturbed ==
  /\ \A g, h \in Busy : g = h
  /\ Busy = {} => (IsOpen <=> Here)
  /\ \A h \in Handlers : Sees(h)

Presence ==
  /\ ~up => Busy = {} /\ afk.cached = afk.stored
  /\ \A i, k \in Open : i = k
  /\ spoiled \/ Undisturbed

\* One task goes on, and what it leaves agrees with where the user is.
LEMMA TaskSees ==
  ASSUME VInv, Presence, NEW h \in Handlers, job[h].pc # "idle", NEW j \in Jobs,
         job' = [job EXCEPT ![h] = j], UNCHANGED <<up, where, afk>>,
         \A i, k \in Open' : i = k,
         ~spoiled' =>
           /\ ~spoiled
           /\ j.pc = "idle" => (IsOpen' <=> Here)
           /\ j.pc = "join" => ~IsOpen' /\ Here
           /\ j.pc = "leave" => IsOpen' /\ ~Here
           /\ j.pc = "ending" => IsOpen' /\ ~Here /\ call'[h].session \in Open'
           /\ j.pc \notin {"idle", "join", "leave", "ending"} =>
                j.pc # "state" /\ ~IsOpen' /\ ~Here
  PROVE  Presence'
<1>1. job'[h] = j /\ \A g \in Handlers \ {h} : job'[g] = job[g]
  BY Types
<1>2. up' /\ h \in Busy
  BY DEF Presence, Busy, Idle
<1>3. Here' = Here
  BY DEF Here
<1>4. CASE ~spoiled'
  <2>1. \A g \in Handlers : job'[g].pc # "idle" => g = h
    BY <1>1, <1>2, <1>4 DEF Presence, Undisturbed, Busy, Idle
  <2>2. Busy' \subseteq {h} /\ (Busy' = {} => j.pc = "idle")
    BY <1>1, <2>1 DEF Busy, Idle
  <2>3. \A g \in Handlers : Sees(g)'
    BY <1>1, <1>3, <1>4, <2>1 DEF Sees
  <2>4. Undisturbed'
    BY <1>3, <1>4, <2>2, <2>3 DEF Undisturbed
  <2> QED BY <1>2, <2>4 DEF Presence
<1>5. CASE spoiled'
  BY <1>2, <1>5 DEF Presence
<1> QED BY <1>4, <1>5

LEMMA DroppedSees ==
  ASSUME VInv, Presence, NEW h \in Handlers, job[h].pc # "idle", Drop(h),
         UNCHANGED <<up, where, afk>>, \A i, k \in Open' : i = k,
         ~spoiled' => ~spoiled /\ (IsOpen' <=> Here)
  PROVE  Presence'
<1>1. NoJob \in Jobs /\ NoJob.pc = "idle"
  BY IdleJob
<1> QED BY <1>1, TaskSees DEF Drop

LEMMA TrackableIs ==
  ASSUME NEW place \in Places, NEW channel
  PROVE  Trackable(place, channel) <=> InVoice(place, channel)
BY VoiceAssumption DEF Trackable, InVoice, Places

LEMMA ClassifySees ==
  ASSUME VInv, Presence, NEW h \in Handlers, Classify(h)
  PROVE  Presence'
<1>1. /\ job[h].pc = "state" /\ UNCHANGED <<up, where, afk, sessions, shared, spoiled>>
      /\ call[h].from \in Places /\ call[h].to \in Places
  BY Types DEF Classify, Calls
<1>2. Open' = Open /\ IsOpen' = IsOpen /\ \A i, k \in Open : i = k
  BY <1>1 DEF Open, IsOpen, Presence
<1>3. /\ Trackable(call[h].from, afk.cached) <=> InVoice(call[h].from, afk.cached)
      /\ Trackable(call[h].to, afk.cached) <=> InVoice(call[h].to, afk.cached)
  BY <1>1, TrackableIs
<1>4. ~spoiled => /\ IsOpen <=> Trackable(call[h].from, afk.cached)
                  /\ Here <=> Trackable(call[h].to, afk.cached)
  BY <1>1, <1>3 DEF Presence, Undisturbed, Sees, Here
<1>5. CASE Trackable(call[h].from, afk.cached) = Trackable(call[h].to, afk.cached)
  <2>1. Drop(h)
    BY <1>5 DEF Classify
  <2> QED BY <1>1, <1>2, <1>4, <1>5, <2>1, DroppedSees
<1>6. CASE Trackable(call[h].from, afk.cached) # Trackable(call[h].to, afk.cached)
  <2>1. PICK pc \in {"join", "leave"} :
          /\ job' = [job EXCEPT ![h].pc = pc, ![h].at = clock]
          /\ pc = "join" <=> Trackable(call[h].to, afk.cached)
    BY <1>6 DEF Classify
  <2>2. PICK j : j = [job[h] EXCEPT !.pc = pc, !.at = clock]
    OBVIOUS
  <2>3. j \in Jobs /\ j.pc = pc
    <3>1. pc \in Points
      BY PointsAre
    <3> QED BY <2>2, <3>1, Types DEF Jobs
  <2>4. job' = [job EXCEPT ![h] = j]
    BY <2>1, <2>2
  <2>5. CASE pc = "join"
    <3>1. Trackable(call[h].to, afk.cached)
      BY <2>1, <2>5
    <3>2. ~Trackable(call[h].from, afk.cached)
      BY <1>6, <3>1 DEF Trackable
    <3>3. ~spoiled => ~IsOpen /\ Here
      BY <1>4, <3>1, <3>2
    <3> QED BY <1>1, <1>2, <2>3, <2>4, <2>5, <3>3, TaskSees
  <2>6. CASE pc = "leave"
    <3>1. ~Trackable(call[h].to, afk.cached)
      BY <2>1, <2>6
    <3>2. Trackable(call[h].from, afk.cached)
      BY <1>6, <3>1 DEF Trackable
    <3>3. ~spoiled => IsOpen /\ ~Here
      BY <1>4, <3>1, <3>2
    <3> QED BY <1>1, <1>2, <2>3, <2>4, <2>6, <3>3, TaskSees
  <2> QED BY <2>1, <2>5, <2>6
<1> QED BY <1>5, <1>6

LEMMA AddSessionSees ==
  ASSUME VInv, Presence, NEW h \in Handlers, AddSession(h)
  PROVE  Presence'
<1>1. job[h].pc = "join" /\ Drop(h) /\ UNCHANGED <<up, where, afk, shared, spoiled>>
  BY DEF AddSession
<1>2. ~spoiled => ~IsOpen /\ Here
  BY <1>1 DEF Presence, Undisturbed, Sees
<1>3. CASE IsOpen
  <2>1. Open' = Open /\ IsOpen' = IsOpen
    BY <1>3 DEF AddSession, Open, IsOpen
  <2> QED BY <1>1, <1>2, <1>3, <2>1, DroppedSees DEF Presence
<1>4. CASE ~IsOpen
  <2>1. PICK row : row = [join |-> job[h].at, leave |-> 0, open |-> TRUE, afk |-> 0]
    OBVIOUS
  <2>2. row.open
    BY <2>1
  <2>3. sessions' = Append(sessions, row)
    BY <1>4, <2>1 DEF AddSession, IsOpen
  <2>4. Open' = {Len(sessions) + 1}
    <3>1. /\ DOMAIN sessions' = DOMAIN sessions \cup {Len(sessions) + 1}
          /\ \A i \in DOMAIN sessions : sessions'[i] = sessions[i]
          /\ sessions'[Len(sessions) + 1] = row
      BY <2>3, Types
    <3> QED BY <1>4, <2>2, <3>1 DEF Open, IsOpen
  <2>5. IsOpen'
    BY <2>4 DEF IsOpen
  <2> QED BY <1>1, <1>2, <2>4, <2>5, DroppedSees
<1> QED BY <1>3, <1>4

LEMMA ChooseSessionSees ==
  ASSUME VInv, Presence, NEW h \in Handlers, NEW i \in DOMAIN sessions, ChooseSession(h, i)
  PROVE  Presence'
<1>1. /\ job[h].pc = "leave" /\ i \in Open /\ Goto(h, "ending")
      /\ call' = [call EXCEPT ![h].session = i]
      /\ UNCHANGED <<up, where, afk, sessions, spoiled>>
  BY DEF ChooseSession, Closable
<1>2. Open' = Open /\ IsOpen' = IsOpen /\ \A k, n \in Open : k = n
  BY <1>1 DEF Open, IsOpen, Presence
<1>3. ~spoiled => IsOpen /\ ~Here
  BY <1>1 DEF Presence, Undisturbed, Sees
<1>4. call'[h].session = i
  BY <1>1, Types DEF Calls
<1>5. PICK j : j = [job[h] EXCEPT !.pc = "ending"]
  OBVIOUS
<1>6. j \in Jobs /\ j.pc = "ending" /\ job' = [job EXCEPT ![h] = j]
  BY <1>1, <1>5, Types, PointsAre DEF Jobs, Goto
<1>7. \A k, n \in Open' : k = n
  BY <1>2
<1>8. ~spoiled' => ~spoiled /\ IsOpen' /\ ~Here /\ call'[h].session \in Open'
  BY <1>1, <1>2, <1>3, <1>4
<1> QED BY <1>1, <1>6, <1>7, <1>8, TaskSees

LEMMA EndSessionSees ==
  ASSUME VInv, Presence, NEW h \in Handlers, EndSession(h)
  PROVE  Presence'
<1>1. PICK i : i = call[h].session
  OBVIOUS
<1>2. /\ job[h].pc = "ending" /\ UNCHANGED <<up, where, afk, spoiled>>
      /\ sessions' = [sessions EXCEPT ![i].leave = job[h].at, ![i].open = FALSE]
      /\ Drop(h) \/ Goto(h, "day")
  BY <1>1 DEF EndSession
<1>3. ~spoiled => ~Here /\ i \in Open
  BY <1>1, <1>2 DEF Presence, Undisturbed, Sees
<1>4. i \in DOMAIN sessions
  BY <1>1, <1>2 DEF VInv, SessionsApart, Chosen, Ending
<1>5. Open' = Open \ {i}
  <2>1. sessions[i] \in Rows
    BY <1>4, Types
  <2>2. PICK row : row = [sessions[i] EXCEPT !.leave = job[h].at, !.open = FALSE]
    OBVIOUS
  <2>3. ~row.open
    BY <2>1, <2>2 DEF Rows
  <2>4. sessions' = [sessions EXCEPT ![i] = row]
    BY <1>2, <2>2
  <2>5. /\ DOMAIN sessions' = DOMAIN sessions /\ sessions'[i] = row
        /\ \A k \in DOMAIN sessions : k # i => sessions'[k] = sessions[k]
    BY <1>4, <2>4, Types
  <2> QED BY <2>3, <2>5 DEF Open
<1>6. (\A k, n \in Open' : k = n) /\ (~spoiled => ~IsOpen')
  BY <1>3, <1>5 DEF Presence, IsOpen
<1>7. CASE Drop(h)
  BY <1>2, <1>3, <1>6, <1>7, DroppedSees
<1>8. CASE Goto(h, "day")
  <2>1. PICK j : j = [job[h] EXCEPT !.pc = "day"]
    OBVIOUS
  <2>2. j \in Jobs /\ j.pc = "day" /\ job' = [job EXCEPT ![h] = j]
    BY <1>8, <2>1, Types, PointsAre DEF Jobs, Goto
  <2> QED BY <1>2, <1>3, <1>6, <2>2, TaskSees
<1> QED BY <1>2, <1>7, <1>8

LEMMA EndNothingSees ==
  ASSUME VInv, Presence, NEW h \in Handlers, EndNothing(h)
  PROVE  Presence'
<1>1. job[h].pc = "leave" /\ Drop(h) /\ UNCHANGED <<up, where, afk, sessions, spoiled>> /\ ~IsOpen
  BY DEF EndNothing, IsOpen
<1>2. Open' = Open /\ IsOpen' = IsOpen /\ \A i, k \in Open : i = k
  BY <1>1 DEF Open, IsOpen, Presence
<1>3. ~spoiled => IsOpen
  BY <1>1 DEF Presence, Undisturbed, Sees
<1> QED BY <1>1, <1>2, <1>3, DroppedSees

LEMMA RefuseLeaveSees ==
  ASSUME VInv, Presence, NEW h \in Handlers, RefuseLeave(h)
  PROVE  Presence'
<1>1. job[h].pc = "ending" /\ Drop(h) /\ UNCHANGED <<up, where, afk, sessions>> /\ spoiled'
  BY DEF RefuseLeave
<1>2. Open' = Open /\ \A i, k \in Open : i = k
  BY <1>1 DEF Open, Presence
<1> QED BY <1>1, <1>2, DroppedSees

\* From the session's end on, the task finds no session open and the user away.
LEMMA LaterSees ==
  ASSUME VInv, Presence, NEW h \in Handlers,
         job[h].pc \notin {"idle", "state", "join", "leave", "ending"},
         NEW j \in Jobs, j.pc \notin {"state", "join", "leave", "ending"},
         job' = [job EXCEPT ![h] = j], UNCHANGED <<up, where, afk, sessions, shared, spoiled>>
  PROVE  Presence'
<1>1. Open' = Open /\ IsOpen' = IsOpen /\ \A i, k \in Open : i = k
  BY DEF Open, IsOpen, Presence
<1>2. ~spoiled => ~IsOpen /\ ~Here
  BY DEF Presence, Undisturbed, Sees
<1> QED BY <1>1, <1>2, TaskSees

\* Where an increment takes its task.
LEMMA IncrementIs ==
  ASSUME VInv, NEW h \in Handlers, Increment(h)
  PROVE  /\ job[h].pc \in Steps
         /\ \E j \in Jobs : job' = [job EXCEPT ![h] = j] /\ j.pc \in Steps \cup {"idle"}
<1>1. CASE Return(h)
  <2>1. job' = [job EXCEPT ![h] = NoJob]
    BY <1>1, Returning
  <2>2. job[h].pc \in Steps
    BY <1>1, StepsAre DEF Increment, LookUp, ReadSnapshot, InsertSnapshot, CheckBan, Commit
  <2> QED BY <2>1, <2>2, IdleJob
<1>2. CASE Goto(h, "read") \/ Goto(h, "commit")
  <2>1. PICK pc \in {"read", "commit"} : Goto(h, pc)
    BY <1>2
  <2>2. PICK j : j = [job[h] EXCEPT !.pc = pc]
    OBVIOUS
  <2>3. j \in Jobs /\ j.pc = pc /\ job' = [job EXCEPT ![h] = j]
    BY <2>1, <2>2, Types, PointsAre DEF Jobs, Goto
  <2>4. job[h].pc \in Steps /\ pc \in Steps
    BY StepsAre DEF Increment, LookUp, ReadSnapshot, InsertSnapshot, CheckBan, Commit
  <2> QED BY <2>3, <2>4
<1>3. CASE ReadSnapshot(h)
  <2>1. job[h].pc = "read" /\ job[h].stat \in Stats
    BY <1>3, StepsAre, VoiceAssumption DEF ReadSnapshot, VInv, TasksOK, TaskOK
  <2>2. \E j \in Jobs : job' = [job EXCEPT ![h] = j] /\ j.pc = "insert"
    BY <1>3, <2>1, Types, ReadIs
  <2> QED BY <2>1, <2>2, StepsAre
<1>4. CASE InsertSnapshot(h)
  <2>1. job[h].pc = "insert" /\ job[h].stat \in Stats
    BY <1>4, StepsAre, VoiceAssumption DEF InsertSnapshot, VInv, TasksOK, TaskOK
  <2>2. \E j \in Jobs : job' = [job EXCEPT ![h] = j] /\ j.pc = "ban"
    <3>1. job \in [Handlers -> Jobs] /\ latest \in [Stats -> Row]
      BY Types
    <3>2. PICK j \in Jobs, row \in Row : job' = [job EXCEPT ![h] = j] /\ j.pc = "ban"
      BY <1>4, <2>1, <3>1, InsertIs
    <3> QED BY <3>2
  <2> QED BY <2>1, <2>2, StepsAre
<1> QED BY <1>1, <1>2, <1>3, <1>4 DEF Increment, LookUp, CheckBan, Commit

LEMMA HandleSees ==
  ASSUME VInv, Presence, NEW h \in Handlers, Handle(h)
  PROVE  Presence'
<1>1. CASE ReadDay(h) \/ ReadDayFails(h)
  <2>1. /\ job[h].pc = "day" /\ Goto(h, "store") /\ UNCHANGED <<up, where, afk, sessions,
                                                                shared, spoiled>>
    BY <1>1 DEF ReadDay, ReadDayFails
  <2>2. PICK j : j = [job[h] EXCEPT !.pc = "store"]
    OBVIOUS
  <2>3. j \in Jobs /\ j.pc = "store" /\ job' = [job EXCEPT ![h] = j]
    BY <2>1, <2>2, Types, PointsAre DEF Jobs, Goto
  <2> QED BY <2>1, <2>3, LaterSees
<1>2. ASSUME NEW earned \in Worth(h), StoreDay(h, earned)
      PROVE  Presence'
  <2>1. /\ job[h].pc = "store" /\ job' = [job EXCEPT ![h] = Job("voice", call[h].length, "idle")]
        /\ UNCHANGED <<up, where, afk, sessions, shared, spoiled>>
    BY <1>2 DEF StoreDay
  <2>2. call[h].length \in Nat
    BY Types DEF Calls
  <2>3. PICK j : j = Job("voice", call[h].length, "idle")
    OBVIOUS
  <2>4. j \in Jobs /\ j.pc = "lookup"
    BY <2>2, <2>3, Types, VoiceAssumption, NewJob
  <2> QED BY <2>1, <2>3, <2>4, LaterSees
<1>3. CASE Increment(h)
  <2>1. UNCHANGED <<up, where, afk, sessions, shared, spoiled>>
    BY <1>3 DEF Increment
  <2>2. PICK j \in Jobs : job' = [job EXCEPT ![h] = j] /\ j.pc \in Steps \cup {"idle"}
    BY <1>3, IncrementIs
  <2>3. job[h].pc \in Steps
    BY <1>3, IncrementIs
  <2>4. /\ job[h].pc \notin {"idle", "state", "join", "leave", "ending"}
        /\ j.pc \notin {"state", "join", "leave", "ending"}
    BY <2>2, <2>3, StepsAre
  <2> QED BY <2>1, <2>2, <2>4, LaterSees
<1>4. CASE FailVoice(h)
  <2>1. /\ Drop(h) /\ UNCHANGED <<up, where, afk, sessions>>
        /\ \/ job[h].pc \in {"join", "leave", "ending"} /\ spoiled' = TRUE
           \/ job[h].pc \in Steps /\ spoiled' = spoiled
    BY <1>4 DEF FailVoice
  <2>2. Open' = Open /\ IsOpen' = IsOpen /\ \A i, k \in Open : i = k
    BY <2>1 DEF Open, IsOpen, Presence
  <2>3. CASE job[h].pc \in {"join", "leave", "ending"} /\ spoiled' = TRUE
    BY <2>1, <2>2, <2>3, DroppedSees
  <2>4. CASE job[h].pc \in Steps /\ spoiled' = spoiled
    <3>1. job[h].pc \notin {"idle", "state", "join", "leave", "ending"}
      BY <2>4, StepsAre
    <3>2. ~spoiled => ~IsOpen /\ ~Here
      BY <3>1 DEF Presence, Undisturbed, Sees
    <3> QED BY <2>1, <2>2, <2>4, <3>1, <3>2, DroppedSees
  <2> QED BY <2>1, <2>3, <2>4
<1>5. CASE StoreDayPaid(h)
  BY <1>2, <1>5 DEF StoreDayPaid, Worth
<1> QED BY <1>1, <1>3, <1>4, <1>5, ClassifySees, AddSessionSees, ChooseSessionSees, EndSessionSees,
           EndNothingSees, RefuseLeaveSees
        DEF Handle

LEMMA MoveSees ==
  ASSUME VInv, Presence, NEW to \in Places, Move(to)
  PROVE  Presence'
<1>1. /\ UNCHANGED <<up, afk, sessions>> /\ where' = to
      /\ spoiled' = \/ spoiled \/ Busy # {}
                    \/ (~up /\ InVoice(where, afk.stored) # InVoice(to, afk.stored))
  BY DEF Move
<1>2. Open' = Open /\ IsOpen' = IsOpen /\ (\A i, k \in Open : i = k)
      /\ Here' = InVoice(to, afk.cached)
  BY <1>1 DEF Open, IsOpen, Presence, Here
<1>3. CASE up
  <2>1. PICK h \in Idle :
          /\ job' = [job EXCEPT ![h].pc = "state"]
          /\ call' = [call EXCEPT ![h] = [NoCall EXCEPT !.from = where, !.to = to,
                                                        !.began = clock]]
    BY <1>3 DEF Move
  <2>2. h \in Handlers /\ job[h] \in Jobs
    BY Types DEF Idle
  <2>3. job'[h].pc = "state" /\ \A g \in Handlers \ {h} : job'[g] = job[g]
    BY <2>1, <2>2, Types DEF Jobs
  <2>4. call'[h].from = where /\ call'[h].to = to
    BY <2>1, <2>2, Types DEF NoCall
  <2>5. CASE ~spoiled'
    <3>1. Busy = {} /\ (IsOpen <=> Here) /\ \A g \in Handlers : job[g].pc = "idle"
      BY <1>1, <2>5 DEF Presence, Undisturbed, Busy, Idle
    <3>2. Busy' = {h}
      BY <2>2, <2>3, <3>1 DEF Busy, Idle
    <3>3. \A g \in Handlers : Sees(g)'
      BY <1>1, <1>2, <2>3, <2>4, <3>1 DEF Sees, Here
    <3>4. Undisturbed'
      BY <3>2, <3>3 DEF Undisturbed
    <3> QED BY <1>1, <1>2, <1>3, <3>4 DEF Presence
  <2> QED BY <1>1, <1>2, <1>3, <2>5 DEF Presence
<1>4. CASE ~up
  <2>1. UNCHANGED <<job, call>> /\ Busy = {} /\ afk.cached = afk.stored
    BY <1>4 DEF Move, Presence
  <2>2. Busy' = {} /\ \A g \in Handlers : job'[g].pc = "idle"
    BY <2>1 DEF Busy, Idle
  <2>3. ~spoiled' => (IsOpen' <=> Here')
    BY <1>1, <1>2, <1>4, <2>1 DEF Presence, Undisturbed, Here
  <2>4. ~spoiled' => Undisturbed'
    BY <2>2, <2>3 DEF Undisturbed, Sees
  <2> QED BY <1>1, <1>2, <2>1, <2>2, <2>4 DEF Presence
<1> QED BY <1>3, <1>4

\* No task, no session and no place changes, save what is no longer said of them.
LEMMA AsideSees ==
  ASSUME VInv, Presence, UNCHANGED <<up, where, afk, shared, spoiled>>, Open' = Open,
         \A h \in Handlers : job'[h].pc = job[h].pc /\ call'[h] = call[h]
  PROVE  Presence'
<1>1. Busy' = Busy /\ IsOpen' = IsOpen /\ Here' = Here
  BY DEF Busy, Idle, IsOpen, Here
<1>2. \A h \in Handlers : Sees(h) => Sees(h)'
  BY <1>1 DEF Sees
<1> QED BY <1>1, <1>2 DEF Presence, Undisturbed

\* The AFK channel, or what is cached of it, changes.
LEMMA ReconfiguredSees ==
  ASSUME VInv, Presence, NEW stored, NEW cached, Reconfigured(stored, cached), Open' = Open,
         where' = where, \A h \in Handlers : job'[h].pc \in {job[h].pc, "idle"},
         up' => up, ~up' => cached = stored /\ Busy' = {}
  PROVE  Presence'
<1>1. /\ afk'.cached = cached /\ afk'.stored = stored /\ IsOpen' = IsOpen
      /\ Here' = InVoice(where, cached)
      /\ spoiled' = (spoiled \/ Busy # {} \/ Here # InVoice(where, cached))
  BY DEF Reconfigured, IsOpen, Here
<1>2. CASE ~spoiled'
  <2>1. Busy = {} /\ (IsOpen <=> Here) /\ Here' = Here
    BY <1>1, <1>2 DEF Presence, Undisturbed
  <2>2. \A h \in Handlers : job'[h].pc = "idle"
    BY <2>1 DEF Busy, Idle
  <2>3. Busy' = {} /\ \A h \in Handlers : Sees(h)'
    BY <2>2 DEF Busy, Idle, Sees
  <2>4. Undisturbed'
    BY <1>1, <2>1, <2>3 DEF Undisturbed
  <2> QED BY <1>1, <2>4 DEF Presence
<1>3. CASE spoiled'
  BY <1>1, <1>3 DEF Presence
<1> QED BY <1>2, <1>3

LEMMA PresenceStep == VInv /\ Presence /\ [Next]_vars => Presence'
<1> SUFFICES ASSUME VInv, Presence, [Next]_vars PROVE Presence'
  OBVIOUS
<1>1. CASE UNCHANGED vars
  BY <1>1, AsideSees DEF vars, voiceVars, Open
<1>2. ASSUME NEW channel \in Channels \cup {NoChannel}, SetAfk(channel) \/ ReloadConfig(channel)
      PROVE  Presence'
  <2>1. UNCHANGED <<job, up, where, sessions>> /\ up
    BY <1>2 DEF SetAfk, ReloadConfig
  <2>2. \E stored, cached : Reconfigured(stored, cached)
    BY <1>2 DEF SetAfk, ReloadConfig
  <2> QED BY <2>1, <2>2, ReconfiguredSees DEF Open
<1>3. CASE ClearDailyMinutes
  BY <1>3, AsideSees DEF ClearDailyMinutes, Open
<1>4. CASE Restart
  <2>1. UNCHANGED <<job, where, afk, sessions, call, shared, spoiled>> /\ up' = TRUE
    BY <1>4 DEF Restart
  <2>2. Busy' = Busy /\ Open' = Open /\ IsOpen' = IsOpen /\ Here' = Here
    BY <2>1 DEF Busy, Idle, Open, IsOpen, Here
  <2>3. \A h \in Handlers : Sees(h) => Sees(h)'
    BY <2>1, <2>2 DEF Sees
  <2> QED BY <2>1, <2>2, <2>3 DEF Presence, Undisturbed
<1>5. CASE Crash
  <2>1. /\ Reconfigured(afk.stored, afk.stored) /\ UNCHANGED <<where, sessions>> /\ up /\ ~up'
        /\ \A h \in Handlers : job'[h] = NoJob
    BY <1>5 DEF Crash
  <2>2. Busy' = {} /\ Open' = Open /\ \A h \in Handlers : job'[h].pc = "idle"
    BY <2>1, IdleJob DEF Busy, Idle, Open
  <2> QED BY <2>1, <2>2, ReconfiguredSees
<1>6. CASE Member
  <2>1. UNCHANGED <<up, where, afk, sessions, call, shared, spoiled>>
    BY <1>6 DEF Member
  <2>2. \A h \in Handlers : job'[h].pc = job[h].pc
    BY <1>6, Types, BanIs DEF Member, LeaveOrReturn
  <2> QED BY <2>1, <2>2, AsideSees DEF Open
<1>7. CASE Tick
  <2>1. UNCHANGED <<up, where, afk, job, call, shared, spoiled>>
    BY <1>7 DEF Tick
  <2>2. sessions' = [i \in DOMAIN sessions |->
                       IF sessions[i].open /\ InAfk
                       THEN [sessions[i] EXCEPT !.afk = @ + 1] ELSE sessions[i]]
    BY <1>7 DEF Tick
  <2>3. ASSUME NEW i \in DOMAIN sessions
        PROVE  sessions'[i].open = sessions[i].open
    <3>1. sessions[i] \in Rows
      BY Types
    <3> QED BY <2>2, <3>1 DEF Rows
  <2>4. DOMAIN sessions' = DOMAIN sessions
    BY <2>2
  <2>5. Open' = Open
    BY <2>3, <2>4 DEF Open
  <2> QED BY <2>1, <2>5, AsideSees
<1> QED BY <1>1, <1>2, <1>3, <1>4, <1>5, <1>6, <1>7, MoveSees, HandleSees DEF Next

LEMMA PresenceInit == Init => Presence
<1> SUFFICES ASSUME Init PROVE Presence
  OBVIOUS
<1>1. \A h \in Handlers : job[h].pc = "idle"
  BY IdleJob DEF Init, StatsInit
<1>2. up /\ ~spoiled /\ where = Out /\ Open = {} /\ Busy = {}
  BY <1>1 DEF Init, Open, Busy, Idle
<1>3. ~Here
  BY <1>2, VoiceAssumption DEF Here, InVoice
<1> QED BY <1>1, <1>2, <1>3 DEF Presence, Undisturbed, Sees, IsOpen

\* While nothing made the table miss a move, a session is open exactly while the
\* user is in a channel that counts, however the gateway's moves, settings and
\* restarts interleave (SessionTracksPresence; handle_voice_state_update).
THEOREM SessionAlwaysTracksPresence == Spec => []SessionTracksPresence
<1>1. VInv /\ Presence => SessionTracksPresence
  BY DEF Presence, Undisturbed, SessionTracksPresence, IsOpen, Here
<1>2. Init => VInv /\ Presence
  BY InitStep, PresenceInit
<1>3. VInv /\ Presence /\ [Next]_vars => (VInv /\ Presence)'
  BY VInvStep, PresenceStep
<1> QED BY <1>1, <1>2, <1>3, PTL DEF Spec
-----------------------------------------------------------------------------
(***************************************************************************)
(* The day's curve, where a session of a minute outlasts two tasks: then   *)
(* tasks that have a session that ended in hand have the same one, and     *)
(* none counts over the minutes of another.                                *)
(***************************************************************************)
\* A task goes nowhere, ends, or is in its increment: it takes up nothing new.
Goes(h) ==
  \/ job'[h].pc = "idle"
  \/ job'[h].pc = job[h].pc /\ job'[h].at = job[h].at /\ call'[h] = call[h]
  \/ job'[h].pc \in Steps /\ job[h].pc # "idle" /\ call'[h].began = call[h].began

Crosses(h) == job[h].pc \in {"join", "leave", "ending"}
Young(h) == call[h].began <= clock /\ clock <= call[h].began + Patience
Dated(h) == call[h].began <= job[h].at /\ job[h].at <= clock

Timed ==
  /\ \A h \in Handlers : job[h].pc # "idle" => Young(h)
  /\ \A h \in Handlers : Crosses(h) => Dated(h)
  /\ \A i \in DOMAIN sessions : sessions[i].join <= clock /\ sessions[i].leave <= clock
  /\ Open \subseteq {Len(sessions)}
  /\ \A h \in Chosen : \A i \in DOMAIN sessions :
       i > call[h].session => call[h].began <= sessions[i].join + Patience
  /\ \A h \in Ending : sessions[call[h].session].join + TicksPerMinute <= clock
  /\ \A g, h \in Ending : call[g].session = call[h].session

\* The numbers Timed relates.
LEMMA TimedTypes ==
  ASSUME VInv
  PROVE  /\ clock \in Nat /\ Patience \in Nat
         /\ \A h \in Handlers : job[h].at \in Nat /\ call[h].began \in Nat
         /\ \A i \in DOMAIN sessions : sessions[i].join \in Nat /\ sessions[i].leave \in Nat
<1>1. \A h \in Handlers : job[h] \in Jobs /\ call[h] \in Calls
  BY Types
<1>2. \A h \in Handlers : job[h].at \in Nat /\ call[h].began \in Nat
  BY <1>1, TimeAssumption DEF Jobs, Calls
<1>3. \A i \in DOMAIN sessions : sessions[i] \in Rows
  BY Types
<1> QED BY <1>2, <1>3, Types, VoiceAssumption DEF Rows

\* The task has the session it had.
Holds(h) ==
  /\ h \in Chosen' => /\ h \in Chosen
                      /\ call'[h].began = call[h].began /\ call'[h].session = call[h].session
  /\ h \in Ending' => h \in Ending

LEMMA GoesHolds ==
  ASSUME NEW h \in Handlers, Goes(h)
  PROVE  /\ Holds(h)
         /\ job'[h].pc # "idle" => job[h].pc # "idle" /\ call'[h].began = call[h].began
         /\ Crosses(h)' => /\ Crosses(h) /\ job'[h].at = job[h].at
                           /\ call'[h].began = call[h].began
BY DEF Goes, Holds, Crosses, Chosen, Ending, Steps

\* One task steps, and takes up no session.
LEMMA TimedKept ==
  ASSUME VInv, Timed, UNCHANGED <<clock, sessions>>, NEW h \in Handlers,
         \A g \in Handlers \ {h} : Goes(g),
         job'[h].pc # "idle" => Young(h)',
         Crosses(h)' => Dated(h)',
         Holds(h)
  PROVE  Timed'
<1>1. Open' = Open
  BY DEF Open
<1>2. ASSUME NEW g \in Handlers \ {h}
      PROVE  (job'[g].pc # "idle" => Young(g)') /\ (Crosses(g)' => Dated(g)')
  BY <1>2, GoesHolds DEF Timed, Young, Dated
<1>3. /\ Ending' \subseteq Ending /\ Chosen' \subseteq Chosen /\ Ending \subseteq Chosen
      /\ \A g \in Chosen' : /\ call'[g].began = call[g].began
                             /\ call'[g].session = call[g].session
  BY GoesHolds DEF Ending, Chosen, Holds
<1>4. \A g \in Ending' : g \in Chosen'
  BY DEF Ending, Chosen
<1>5. \A g \in Handlers : (job'[g].pc # "idle" => Young(g)') /\ (Crosses(g)' => Dated(g)')
  BY <1>2
<1>6. /\ \A g \in Ending' : sessions'[call'[g].session].join + TicksPerMinute <= clock'
      /\ \A f, g \in Ending' : call'[f].session = call'[g].session
  BY <1>3, <1>4 DEF Timed
<1>7. \A g \in Chosen' : \A i \in DOMAIN sessions' :
        i > call'[g].session => call'[g].began <= sessions'[i].join + Patience
  BY <1>3 DEF Timed
<1> QED BY <1>1, <1>5, <1>6, <1>7 DEF Timed

LEMMA TimedGoes ==
  ASSUME VInv, Timed, UNCHANGED <<clock, sessions>>, \A g \in Handlers : Goes(g)
  PROVE  Timed'
<1>1. CASE Handlers = {}
  <2>1. Open' = Open
    BY DEF Open
  <2> QED BY <1>1, <2>1 DEF Timed, Ending, Chosen
<1>2. ASSUME NEW h \in Handlers PROVE Timed'
  <2>1. job'[h].pc # "idle" => Young(h)'
    BY GoesHolds DEF Timed, Young
  <2>2. Crosses(h)' => Dated(h)'
    BY GoesHolds DEF Timed, Dated
  <2> QED BY <2>1, <2>2, GoesHolds, TimedKept
<1> QED BY <1>1, <1>2

\* A task that drops what it does, and the others.
LEMMA DropGoes ==
  ASSUME VInv, NEW h \in Handlers, Drop(h)
  PROVE  \A g \in Handlers : Goes(g)
<1>1. job' = [job EXCEPT ![h] = NoJob] /\ call' = [call EXCEPT ![h] = NoCall]
  BY DEF Drop
<1>2. \A g \in Handlers : /\ g # h => job'[g] = job[g] /\ call'[g] = call[g]
                          /\ g = h => job'[g] = NoJob
  BY <1>1, Types
<1> QED BY <1>2, IdleJob DEF Goes

LEMMA IncrementGoes ==
  ASSUME VInv, NEW h \in Handlers, Increment(h)
  PROVE  \A g \in Handlers : Goes(g)
<1>1. PICK j \in Jobs : job' = [job EXCEPT ![h] = j] /\ j.pc \in Steps \cup {"idle"}
  BY IncrementIs
<1>2. job[h].pc \in Steps
  BY IncrementIs
<1>3. job'[h] = j /\ \A g \in Handlers \ {h} : job'[g] = job[g]
  BY <1>1, Types
<1>4. call' = [call EXCEPT ![h] = IF job'[h].pc = "idle" THEN NoCall ELSE @]
  BY DEF Increment
<1>5. (j.pc # "idle" => call'[h] = call[h]) /\ \A g \in Handlers \ {h} : call'[g] = call[g]
  BY <1>3, <1>4, Types
<1>6. job[h].pc # "idle"
  BY <1>2, StepsAre
<1> QED BY <1>1, <1>3, <1>5, <1>6 DEF Goes

LEMMA StoreGoes ==
  ASSUME VInv, NEW h \in Handlers, NEW earned \in Worth(h), StoreDay(h, earned)
  PROVE  \A g \in Handlers : Goes(g)
<1>1. /\ job[h].pc = "store" /\ job' = [job EXCEPT ![h] = Job("voice", call[h].length, "idle")]
      /\ call' = [call EXCEPT ![h].earned = earned]
  BY DEF StoreDay
<1>2. call[h] \in Calls /\ call[h].length \in Nat
  BY Types DEF Calls
<1>3. PICK j : j = Job("voice", call[h].length, "idle")
  OBVIOUS
<1>4. j.pc = "lookup"
  BY <1>2, <1>3, Types, VoiceAssumption, NewJob
<1>5. job'[h] = j /\ \A g \in Handlers \ {h} : job'[g] = job[g]
  BY <1>1, <1>3, Types
<1>6. call'[h].began = call[h].began /\ \A g \in Handlers \ {h} : call'[g] = call[g]
  BY <1>1, <1>2, Types DEF Calls
<1> QED BY <1>1, <1>4, <1>5, <1>6, StepsAre DEF Goes

\* Whatever happens but to the time, to the sessions and to a task that moves on.
LEMMA OthersGo ==
  ASSUME VInv, NEW h \in Handlers,
         \/ EndNothing(h) \/ RefuseLeave(h) \/ FailVoice(h) \/ Increment(h)
         \/ \E earned \in Worth(h) : StoreDay(h, earned)
  PROVE  UNCHANGED <<clock, sessions>> /\ \A g \in Handlers : Goes(g)
<1>1. UNCHANGED <<clock, sessions>>
  BY DEF EndNothing, RefuseLeave, FailVoice, Increment, StoreDay
<1> QED BY <1>1, DropGoes, IncrementGoes, StoreGoes DEF EndNothing, RefuseLeave, FailVoice

LEMMA AsideGoes ==
  ASSUME VInv,
         \/ UNCHANGED vars \/ ClearDailyMinutes \/ Crash \/ Restart \/ Member
         \/ \E channel \in Channels \cup {NoChannel} : SetAfk(channel) \/ ReloadConfig(channel)
  PROVE  UNCHANGED <<clock, sessions, counted, shared>> /\ \A g \in Handlers : Goes(g)
<1>1. CASE \/ UNCHANGED vars \/ ClearDailyMinutes \/ Restart
           \/ \E channel \in Channels \cup {NoChannel} : SetAfk(channel) \/ ReloadConfig(channel)
  <2>1. UNCHANGED <<clock, sessions, counted, shared, job, call>>
    BY <1>1 DEF vars, voiceVars, ClearDailyMinutes, Restart, SetAfk, ReloadConfig
  <2> QED BY <2>1 DEF Goes
<1>2. CASE Crash
  <2>1. UNCHANGED <<clock, sessions, counted, shared>> /\ \A h \in Handlers : job'[h] = NoJob
    BY <1>2 DEF Crash
  <2> QED BY <2>1, IdleJob DEF Goes
<1>3. CASE Member
  <2>1. UNCHANGED <<clock, sessions, counted, shared, call>>
    BY <1>3 DEF Member
  <2>2. \A h \in Handlers : job'[h].pc = job[h].pc /\ job'[h].at = job[h].at
    <3>1. CASE UNCHANGED job
      BY <3>1
    <3>2. CASE BanOrUnban
      <4>1. job' = [g \in Handlers |->
                      [job[g] EXCEPT !.free = @ \/ (banned /\ job[g].pc # "idle")]]
        BY <3>2 DEF BanOrUnban
      <4>2. \A g \in Handlers : job[g] \in Jobs
        BY Types
      <4> QED BY <4>1, <4>2 DEF Jobs
    <3> QED BY <1>3, <3>1, <3>2 DEF Member, LeaveOrReturn
  <2> QED BY <2>1, <2>2 DEF Goes
<1> QED BY <1>1, <1>2, <1>3

LEMMA MoveTimed ==
  ASSUME VInv, Timed, NEW to \in Places, Move(to)
  PROVE  Timed'
<1>1. UNCHANGED <<clock, sessions>>
  BY DEF Move
<1>2. CASE UNCHANGED <<job, call>>
  BY <1>1, <1>2, TimedGoes DEF Goes
<1>3. ASSUME NEW h \in Idle,
             job' = [job EXCEPT ![h].pc = "state"],
             call' = [call EXCEPT ![h] = [NoCall EXCEPT !.from = where, !.to = to,
                                                        !.began = clock]]
      PROVE  Timed'
  <2>1. h \in Handlers /\ job[h] \in Jobs
    BY <1>3, Types DEF Idle
  <2>2. job'[h].pc = "state" /\ \A g \in Handlers \ {h} : job'[g] = job[g]
    BY <1>3, <2>1, Types DEF Jobs
  <2>3. call'[h].began = clock /\ \A g \in Handlers \ {h} : call'[g] = call[g]
    BY <1>3, <2>1, Types DEF NoCall
  <2>4. Young(h)' /\ ~Crosses(h)' /\ Holds(h)
    BY <1>1, <2>2, <2>3, TimedTypes DEF Young, Crosses, Holds, Ending, Chosen
  <2>5. \A g \in Handlers \ {h} : Goes(g)
    BY <2>2, <2>3 DEF Goes
  <2> QED BY <1>1, <2>1, <2>4, <2>5, TimedKept
<1> QED BY <1>2, <1>3 DEF Move

LEMMA ClassifyTimed ==
  ASSUME VInv, Timed, NEW h \in Handlers, Classify(h)
  PROVE  Timed'
<1>1. UNCHANGED <<clock, sessions>> /\ job[h].pc = "state"
  BY DEF Classify
<1>2. CASE Drop(h)
  BY <1>1, <1>2, DropGoes, TimedGoes
<1>3. ASSUME NEW pc \in {"join", "leave"},
             call' = [call EXCEPT ![h].from = Out, ![h].to = Out],
             job' = [job EXCEPT ![h].pc = pc, ![h].at = clock]
      PROVE  Timed'
  <2>1. job[h] \in Jobs /\ call[h] \in Calls
    BY Types
  <2>2. job'[h].pc = pc /\ job'[h].at = clock /\ \A g \in Handlers \ {h} : job'[g] = job[g]
    BY <1>3, <2>1, Types DEF Jobs
  <2>3. call'[h].began = call[h].began /\ \A g \in Handlers \ {h} : call'[g] = call[g]
    BY <1>3, <2>1, Types DEF Calls
  <2>4. Young(h)
    BY <1>1 DEF Timed
  <2>5. Young(h)' /\ Dated(h)' /\ Holds(h)
    BY <1>1, <2>2, <2>3, <2>4, TimedTypes DEF Young, Dated, Holds, Ending, Chosen
  <2>6. \A g \in Handlers \ {h} : Goes(g)
    BY <2>2, <2>3 DEF Goes
  <2> QED BY <1>1, <2>5, <2>6, TimedKept
<1> QED BY <1>2, <1>3 DEF Classify

LEMMA ReadTimed ==
  ASSUME VInv, Timed, NEW h \in Handlers, ReadDay(h) \/ ReadDayFails(h)
  PROVE  Timed'
<1>1. UNCHANGED <<clock, sessions>> /\ job[h].pc = "day" /\ Goto(h, "store")
  BY DEF ReadDay, ReadDayFails
<1>2. job[h] \in Jobs /\ call[h] \in Calls
  BY Types
<1>3. job'[h].pc = "store" /\ \A g \in Handlers \ {h} : job'[g] = job[g]
  BY <1>1, <1>2, Types DEF Jobs, Goto
<1>4. /\ call'[h].began = call[h].began /\ call'[h].session = call[h].session
      /\ \A g \in Handlers \ {h} : call'[g] = call[g]
  BY <1>2, Types DEF Calls, ReadDay, ReadDayFails
<1>5. Young(h)' /\ ~Crosses(h)' /\ Holds(h)
  BY <1>1, <1>3, <1>4 DEF Timed, Young, Crosses, Holds, Ending, Chosen
<1>6. \A g \in Handlers \ {h} : Goes(g)
  BY <1>3, <1>4 DEF Goes
<1> QED BY <1>1, <1>4, <1>5, <1>6, TimedKept

\* The session picked is the last one there is.
LEMMA ChooseSessionTimed ==
  ASSUME VInv, Timed, NEW h \in Handlers, NEW i \in DOMAIN sessions, ChooseSession(h, i)
  PROVE  Timed'
<1>1. /\ job[h].pc = "leave" /\ i \in Open /\ Goto(h, "ending")
      /\ UNCHANGED <<clock, sessions>> /\ call' = [call EXCEPT ![h].session = i]
  BY DEF ChooseSession, Closable
<1>2. job[h] \in Jobs /\ call[h] \in Calls
  BY Types
<1>3. /\ job'[h].pc = "ending" /\ job'[h].at = job[h].at
      /\ \A g \in Handlers \ {h} : job'[g] = job[g]
  BY <1>1, <1>2, Types DEF Jobs, Goto
<1>4. /\ call'[h].began = call[h].began /\ call'[h].session = i
      /\ \A g \in Handlers \ {h} : call'[g] = call[g]
  BY <1>1, <1>2, Types DEF Calls
<1>5. Open' = Open /\ Ending' = Ending /\ h \notin Ending /\ Chosen' = Chosen \cup {h}
  BY <1>1, <1>3 DEF Open, Ending, Chosen
<1>6. \A g \in Handlers : (job'[g].pc # "idle" => Young(g)') /\ (Crosses(g)' => Dated(g)')
  BY <1>1, <1>3, <1>4 DEF Timed, Young, Crosses, Dated
<1>7. ASSUME NEW g \in Chosen', NEW k \in DOMAIN sessions', k > call'[g].session
      PROVE  call'[g].began <= sessions'[k].join + Patience
  <2>1. CASE g = h
    <3>1. i = Len(sessions) /\ k \in 1..Len(sessions)
      BY <1>1, Types DEF Timed
    <3> QED BY <1>4, <1>7, <2>1, <3>1, Types
  <2>2. CASE g # h
    BY <1>1, <1>4, <1>5, <1>7, <2>2 DEF Timed, Chosen
  <2> QED BY <2>1, <2>2
<1>8. \A g \in Ending' : call'[g] = call[g]
  BY <1>4, <1>5 DEF Ending
<1> QED BY <1>1, <1>5, <1>6, <1>7, <1>8 DEF Timed

\* The session opens at a time the tasks at hand reach.
LEMMA AddSessionTimed ==
  ASSUME VInv, Timed, NEW h \in Handlers, AddSession(h)
  PROVE  Timed'
<1>1. job[h].pc = "join" /\ Drop(h) /\ UNCHANGED clock
  BY DEF AddSession
<1>2. \A g \in Handlers : Goes(g)
  BY <1>1, DropGoes
<1>3. CASE sessions' = sessions
  BY <1>1, <1>2, <1>3, TimedGoes
<1>4. ASSUME NEW row, row = [join |-> job[h].at, leave |-> 0, open |-> TRUE, afk |-> 0],
             sessions' = Append(sessions, row), Open = {}
      PROVE  Timed'
  <2>1. /\ DOMAIN sessions' = DOMAIN sessions \cup {Len(sessions) + 1}
        /\ \A i \in DOMAIN sessions : sessions'[i] = sessions[i]
        /\ sessions'[Len(sessions) + 1] = row /\ Len(sessions') = Len(sessions) + 1
    BY <1>4, Types
  <2>2. row.join = job[h].at /\ row.leave = 0
    BY <1>4
  <2>3. Young(h) /\ Dated(h)
    BY <1>1 DEF Timed, Crosses
  <2>4. \A i \in DOMAIN sessions' : sessions'[i].join <= clock' /\ sessions'[i].leave <= clock'
    BY <1>1, <2>1, <2>2, <2>3, TimedTypes DEF Timed, Dated
  <2>5. \A g \in Handlers : /\ job'[g].pc # "idle" => Young(g)'
                            /\ Crosses(g)' => Dated(g)'
    BY <1>1, <1>2, GoesHolds DEF Timed, Young, Dated
  <2>6. /\ \A g \in Chosen' : /\ g \in Chosen /\ call'[g].began = call[g].began
                               /\ call'[g].session = call[g].session
        /\ Ending' \subseteq Ending /\ Ending' \subseteq Chosen'
    BY <1>2, GoesHolds DEF Holds, Ending, Chosen
  <2>7. ASSUME NEW g \in Chosen', NEW i \in DOMAIN sessions', i > call'[g].session
        PROVE  call'[g].began <= sessions'[i].join + Patience
    <3>1. g \in Handlers /\ g \in Chosen /\ call'[g].began = call[g].began
      BY <2>6 DEF Chosen
    <3>2. CASE i \in DOMAIN sessions
      BY <2>1, <2>6, <2>7, <3>1, <3>2 DEF Timed
    <3>3. CASE sessions'[i] = row
      <4>1. Young(g)
        BY <3>1 DEF Timed, Chosen
      <4> QED BY <2>2, <2>3, <3>1, <3>3, <4>1, TimedTypes DEF Young, Dated
    <3> QED BY <2>1, <3>2, <3>3
  <2>8. Open' \subseteq {Len(sessions')}
    BY <1>4, <2>1 DEF Open
  <2>9. \A g \in Ending' : sessions'[call'[g].session].join + TicksPerMinute <= clock'
    <3> TAKE g \in Ending'
    <3>1. g \in Ending /\ call'[g].session = call[g].session
      BY <2>6
    <3>2. call[g].session \in DOMAIN sessions
      BY <3>1 DEF VInv, SessionsApart, Closed
    <3> QED BY <1>1, <2>1, <3>1, <3>2 DEF Timed
  <2>10. \A f, g \in Ending' : call'[f].session = call'[g].session
    BY <2>6 DEF Timed
  <2> QED BY <2>4, <2>5, <2>7, <2>8, <2>9, <2>10 DEF Timed
<1> QED BY <1>3, <1>4 DEF AddSession

\* The row a leave updates, open or not, keeps its join.
LEMMA EndedRow ==
  ASSUME VInv, NEW h \in Handlers, EndSession(h)
  PROVE  /\ h \in Chosen \ Ending /\ call[h].session \in DOMAIN sessions
         /\ DOMAIN sessions' = DOMAIN sessions
         /\ \A k \in DOMAIN sessions : /\ sessions'[k].join = sessions[k].join
                                       /\ k # call[h].session => sessions'[k] = sessions[k]
         /\ sessions'[call[h].session].leave = job[h].at /\ ~sessions'[call[h].session].open
<1>1. PICK i : i = call[h].session
  OBVIOUS
<1>2. job[h].pc = "ending" /\ sessions' = [sessions EXCEPT ![i].leave = job[h].at, ![i].open = FALSE]
  BY <1>1 DEF EndSession
<1>3. h \in Chosen \ Ending /\ i \in DOMAIN sessions
  BY <1>1, <1>2 DEF VInv, SessionsApart, Chosen, Ending
<1>4. PICK row : row = [sessions[i] EXCEPT !.leave = job[h].at, !.open = FALSE]
  OBVIOUS
<1>5. row.join = sessions[i].join /\ row.leave = job[h].at /\ ~row.open
  <2>1. sessions[i] \in Rows
    BY <1>3, Types
  <2> QED BY <1>4, <2>1 DEF Rows
<1>6. sessions' = [sessions EXCEPT ![i] = row]
  BY <1>2, <1>4
<1>7. /\ DOMAIN sessions' = DOMAIN sessions /\ sessions'[i] = row
      /\ \A k \in DOMAIN sessions : k # i => sessions'[k] = sessions[k]
  BY <1>3, <1>6, Types
<1> QED BY <1>1, <1>3, <1>5, <1>7

\* Whoever has another session in hand is too young to see this one end after a
\* minute, or this task is too young to see that one so.
LEMMA EndSessionTimed ==
  ASSUME 2 * Patience < TicksPerMinute, VInv, Timed, NEW h \in Handlers, EndSession(h)
  PROVE  Timed'
<1>1. PICK s \in DOMAIN sessions : s = call[h].session
  BY EndedRow
<1>2. /\ h \in Chosen \ Ending /\ DOMAIN sessions' = DOMAIN sessions /\ UNCHANGED clock
      /\ \A k \in DOMAIN sessions : /\ sessions'[k].join = sessions[k].join
                                    /\ k # s => sessions'[k] = sessions[k]
      /\ sessions'[s].leave = job[h].at /\ ~sessions'[s].open /\ job[h].pc = "ending"
  BY <1>1, EndedRow DEF EndSession
<1>3. Young(h) /\ Dated(h)
  BY <1>2 DEF Timed, Crosses
<1>4. Open' \subseteq {Len(sessions')}
  <2>1. Open' \subseteq Open
    BY <1>1, <1>2 DEF Open
  <2>2. Len(sessions') = Len(sessions)
    <3>1. sessions' = [sessions EXCEPT ![s].leave = job[h].at, ![s].open = FALSE]
      BY <1>1 DEF EndSession
    <3> QED BY <3>1, Types
  <2> QED BY <2>1, <2>2 DEF Timed
<1>5. \A k \in DOMAIN sessions' : sessions'[k].join <= clock' /\ sessions'[k].leave <= clock'
  BY <1>1, <1>2, <1>3 DEF Timed, Dated
<1>6. ASSUME \A g \in Handlers : /\ job'[g].pc # "idle" => Young(g)'
                                 /\ Crosses(g)' => Dated(g)',
             \A g \in Chosen' : /\ g \in Chosen /\ call'[g].began = call[g].began
                                /\ call'[g].session = call[g].session,
             \A g \in Ending' : g \in Ending \/ sessions[s].join + TicksPerMinute <= clock,
             \A g \in Ending' : g \in Ending \/ g = h,
             \A f, g \in Ending' : call[f].session = call[g].session
      PROVE  Timed'
  <2>1. \A g \in Chosen' : \A i \in DOMAIN sessions' :
          i > call'[g].session => call'[g].began <= sessions'[i].join + Patience
    BY <1>2, <1>6 DEF Timed
  <2>2. Ending' \subseteq Chosen'
    BY DEF Ending, Chosen
  <2>3. \A g \in Ending' : sessions'[call'[g].session].join + TicksPerMinute <= clock'
    <3> TAKE g \in Ending'
    <3>1. call'[g].session = call[g].session /\ call[g].session \in DOMAIN sessions
      BY <1>1, <1>6, <2>2 DEF VInv, SessionsApart, Closed
    <3>2. sessions[call[g].session].join + TicksPerMinute <= clock
      BY <1>1, <1>6 DEF Timed
    <3> QED BY <1>2, <3>1, <3>2
  <2>4. \A f, g \in Ending' : call'[f].session = call'[g].session
    BY <1>6, <2>2
  <2> QED BY <1>4, <1>5, <1>6, <2>1, <2>3, <2>4 DEF Timed
<1>7. CASE Drop(h)
  <2>1. \A g \in Handlers : Goes(g)
    BY <1>7, DropGoes
  <2>2. \A g \in Handlers : /\ job'[g].pc # "idle" => Young(g)'
                            /\ Crosses(g)' => Dated(g)'
    BY <1>2, <2>1, GoesHolds DEF Timed, Young, Dated
  <2>3. /\ \A g \in Chosen' : /\ g \in Chosen /\ call'[g].began = call[g].began
                               /\ call'[g].session = call[g].session
        /\ Ending' \subseteq Ending
    BY <2>1, GoesHolds DEF Holds, Ending, Chosen
  <2> QED BY <1>6, <2>2, <2>3 DEF Timed
<1>8. CASE ~Drop(h)
  <2>1. /\ Goto(h, "day") /\ ~(job[h].at - sessions[s].join < TicksPerMinute)
        /\ \E l : call' = [call EXCEPT ![h].length = l]
    BY <1>1, <1>8 DEF EndSession
  <2>2. job[h] \in Jobs /\ call[h] \in Calls
    BY Types
  <2>3. job'[h].pc = "day" /\ \A g \in Handlers \ {h} : job'[g] = job[g]
    BY <2>1, <2>2, Types DEF Jobs, Goto
  <2>4. /\ call'[h].began = call[h].began /\ call'[h].session = call[h].session
        /\ \A g \in Handlers \ {h} : call'[g] = call[g]
    BY <2>1, <2>2, Types DEF Calls
  <2>5. \A g \in Handlers : /\ job'[g].pc # "idle" => Young(g)'
                            /\ Crosses(g)' => Dated(g)'
    BY <1>2, <2>3, <2>4 DEF Timed, Young, Crosses, Dated
  <2>6. Chosen' = Chosen /\ Ending' = Ending \cup {h}
    BY <1>2, <2>3 DEF Chosen, Ending
  <2>7. sessions[s].join + TicksPerMinute <= job[h].at /\ job[h].at <= clock
    BY <1>3, <2>1, TimedTypes, VoiceAssumption DEF Dated
  <2>8. ASSUME NEW g \in Ending, call[g].session # s
        PROVE  FALSE
    <3>1. PICK k \in DOMAIN sessions : k = call[g].session
      BY DEF VInv, SessionsApart, Closed
    <3>2. Young(g) /\ g \in Handlers /\ g \in Chosen
      BY DEF Timed, Ending, Chosen
    <3>3. k \in Nat /\ s \in Nat
      BY Types
    <3>4. CASE k < s
      <4>1. call[g].began <= sessions[s].join + Patience
        BY <3>1, <3>2, <3>3, <3>4 DEF Timed
      <4> QED BY <2>7, <3>2, <4>1, TimedTypes, VoiceAssumption DEF Young
    <3>5. CASE k > s
      <4>1. call[h].began <= sessions[k].join + Patience
        BY <1>1, <1>2, <3>1, <3>3, <3>5 DEF Timed
      <4>2. sessions[k].join + TicksPerMinute <= clock
        BY <3>1 DEF Timed
      <4> QED BY <1>3, <4>1, <4>2, TimedTypes, VoiceAssumption DEF Young
    <3> QED BY <2>8, <3>1, <3>3, <3>4, <3>5
  <2>9. \A f, g \in Ending' : call[f].session = call[g].session
    BY <1>1, <2>6, <2>8
  <2>10. sessions[s].join + TicksPerMinute <= clock
    BY <2>7, TimedTypes, VoiceAssumption
  <2>11. \A g \in Chosen' : /\ g \in Chosen /\ call'[g].began = call[g].began
                            /\ call'[g].session = call[g].session
    BY <2>4, <2>6 DEF Chosen
  <2> QED BY <1>6, <2>5, <2>6, <2>9, <2>10, <2>11
<1> QED BY <1>7, <1>8

LEMMA TickTimed ==
  ASSUME VInv, Timed, Tick
  PROVE  Timed'
<1>1. /\ clock' = clock + 1 /\ UNCHANGED <<job, call>>
      /\ \A h \in Busy : clock - call[h].began < Patience
      /\ sessions' = [i \in DOMAIN sessions |->
                        IF sessions[i].open /\ InAfk
                        THEN [sessions[i] EXCEPT !.afk = @ + 1] ELSE sessions[i]]
  BY DEF Tick
<1>2. \A i \in DOMAIN sessions : /\ sessions'[i].open = sessions[i].open
                                 /\ sessions'[i].join = sessions[i].join
                                 /\ sessions'[i].leave = sessions[i].leave
  <2>1. \A i \in DOMAIN sessions : sessions[i] \in Rows
    BY Types
  <2> QED BY <1>1, <2>1 DEF Rows
<1>3. DOMAIN sessions' = DOMAIN sessions
  BY <1>1
<1>4. /\ Open' = Open /\ Ending' = Ending /\ Chosen' = Chosen
      /\ Len(sessions') = Len(sessions)
  BY <1>1, <1>2, <1>3, Types DEF Open, Ending, Chosen
<1>5. \A h \in Handlers : job'[h].pc # "idle" => Young(h)'
  BY <1>1, TimedTypes DEF Timed, Young, Busy, Idle
<1>6. \A h \in Handlers : Crosses(h)' => Dated(h)'
  BY <1>1, TimedTypes DEF Timed, Crosses, Dated
<1>7. \A i \in DOMAIN sessions' : sessions'[i].join <= clock' /\ sessions'[i].leave <= clock'
  BY <1>1, <1>2, <1>3, TimedTypes DEF Timed
<1>8. \A h \in Chosen' : \A i \in DOMAIN sessions' :
        i > call'[h].session => call'[h].began <= sessions'[i].join + Patience
  BY <1>1, <1>2, <1>3, <1>4 DEF Timed
<1>9. \A h \in Ending' : sessions'[call'[h].session].join + TicksPerMinute <= clock'
  <2> TAKE h \in Ending'
  <2>1. h \in Ending /\ call[h].session \in DOMAIN sessions
    BY <1>4 DEF VInv, SessionsApart, Closed
  <2>2. sessions[call[h].session].join + TicksPerMinute <= clock
    BY <2>1 DEF Timed
  <2> QED BY <1>1, <1>2, <2>1, <2>2, TimedTypes, VoiceAssumption
<1>10. Open' \subseteq {Len(sessions')} /\ \A f, g \in Ending' : call'[f].session = call'[g].session
  BY <1>1, <1>4 DEF Timed
<1> QED BY <1>5, <1>6, <1>7, <1>8, <1>9, <1>10 DEF Timed

LEMMA TimedStep ==
  ASSUME 2 * Patience < TicksPerMinute, VInv, Timed, [Next]_vars
  PROVE  Timed'
<1>1. CASE \/ UNCHANGED vars \/ ClearDailyMinutes \/ Crash \/ Restart \/ Member
           \/ \E channel \in Channels \cup {NoChannel} : SetAfk(channel) \/ ReloadConfig(channel)
  BY <1>1, AsideGoes, TimedGoes
<1>2. ASSUME NEW h \in Handlers, Handle(h)
      PROVE  Timed'
  <2>1. CASE \/ EndNothing(h) \/ RefuseLeave(h) \/ FailVoice(h) \/ Increment(h)
             \/ \E earned \in Worth(h) : StoreDay(h, earned)
    BY <2>1, OthersGo, TimedGoes
  <2>2. CASE StoreDayPaid(h)
    BY <2>1, <2>2 DEF StoreDayPaid, Worth
  <2> QED BY <1>2, <2>1, <2>2, ClassifyTimed, AddSessionTimed, ChooseSessionTimed,
             EndSessionTimed, ReadTimed
          DEF Handle
<1> QED BY <1>1, <1>2, MoveTimed, TickTimed DEF Next

LEMMA TimedInit == Init => Timed
<1> SUFFICES ASSUME Init PROVE Timed
  OBVIOUS
<1>1. sessions = <<>> /\ \A h \in Handlers : job[h].pc = "idle"
  BY IdleJob DEF Init, StatsInit
<1> QED BY <1>1 DEF Timed, Crosses, Ending, Chosen, Open

\* Every day has its hours.
LEMMA DayEnds ==
  ASSUME NEW t \in Nat
  PROVE  /\ Day(t) \in Nat
         /\ Day(t) * DayLength \in Nat /\ (Day(t) + 1) * DayLength \in Nat
         /\ Day(t) * DayLength <= t /\ t < (Day(t) + 1) * DayLength
<1>1. PICK l \in Nat : l = DayLength /\ l > 0
  BY VoiceAssumption
<1>2. Day(t) \in Nat
  BY <1>1, Quotients DEF Day
<1>3. PICK q \in Nat : q = t \div l
  BY <1>1, Quotients
<1>4. q * l <= t /\ t < (q + 1) * l
  BY <1>1, <1>3
<1> QED BY <1>1, <1>2, <1>3, <1>4 DEF Day

\* Sessions that ended stay as they are, save those two leaves share.
SessionsKept ==
  /\ shared \subseteq shared'
  /\ \A k \in Closed : /\ k \in Closed' /\ sessions'[k].join = sessions[k].join
                       /\ k \in shared \/ sessions'[k].leave = sessions[k].leave

LEMMA SessionsStay ==
  ASSUME VInv, [Next]_vars
  PROVE  SessionsKept
<1>1. CASE sessions' = sessions /\ shared \subseteq shared'
  BY <1>1 DEF SessionsKept, Closed
<1>2. ASSUME NEW row, sessions' = Append(sessions, row), UNCHANGED shared
      PROVE  SessionsKept
  BY <1>2, Types DEF SessionsKept, Closed
<1>3. ASSUME NEW h \in Handlers, EndSession(h)
      PROVE  SessionsKept
  <2>1. /\ h \in Chosen \ Ending /\ DOMAIN sessions' = DOMAIN sessions
        /\ \A k \in DOMAIN sessions : /\ sessions'[k].join = sessions[k].join
                                      /\ k # call[h].session => sessions'[k] = sessions[k]
        /\ ~sessions'[call[h].session].open
    BY <1>3, EndedRow
  <2>2. call[h].session \in Closed => call[h].session \in shared
    BY <2>1 DEF VInv, SessionsApart
  <2>3. UNCHANGED shared
    BY <1>3 DEF EndSession
  <2> QED BY <2>1, <2>2, <2>3 DEF SessionsKept, Closed
<1>4. CASE Tick
  <2>1. /\ sessions' = [i \in DOMAIN sessions |->
                          IF sessions[i].open /\ InAfk
                          THEN [sessions[i] EXCEPT !.afk = @ + 1] ELSE sessions[i]]
        /\ UNCHANGED shared
    BY <1>4 DEF Tick
  <2> QED BY <2>1 DEF SessionsKept, Closed
<1>5. ASSUME NEW h \in Handlers, Handle(h)
      PROVE  SessionsKept
  <2>1. CASE AddSession(h)
    <3>1. (sessions' = sessions \/ \E row : sessions' = Append(sessions, row)) /\ UNCHANGED shared
      BY <2>1 DEF AddSession
    <3> QED BY <1>1, <1>2, <3>1
  <2>2. ASSUME NEW i \in DOMAIN sessions, ChooseSession(h, i)
        PROVE  SessionsKept
    BY <1>1, <2>2 DEF ChooseSession
  <2> QED BY <1>1, <1>3, <1>5, <2>1, <2>2
          DEF Handle, Classify, EndNothing, RefuseLeave, ReadDay, ReadDayFails, StoreDayPaid,
              StoreDay, Increment, FailVoice
<1> QED BY <1>1, <1>4, <1>5 DEF Next, vars, voiceVars, Move, SetAfk, ReloadConfig,
                                ClearDailyMinutes, Crash, Restart, Member

\* No task comes by a session, nor by the day's minutes.
NoneEnds == \A g \in Handlers : Goes(g) \/ job'[g].pc \in {"state", "join", "leave", "ending"}

LEMMA NoneEndsThen ==
  ASSUME NoneEnds
  PROVE  /\ \A g \in Ending' : g \in Ending /\ call'[g] = call[g]
         /\ \A g \in Handlers : job'[g].pc = "store" => job[g].pc = "store"
BY DEF NoneEnds, Goes, Ending, Steps

LEMMA NoneEndsStep ==
  ASSUME VInv,
         \/ \E to \in Places : Move(to)
         \/ \E h \in Handlers : \/ Classify(h) \/ AddSession(h) \/ EndNothing(h)
                                \/ RefuseLeave(h) \/ FailVoice(h) \/ Increment(h)
                                \/ \E i \in DOMAIN sessions : ChooseSession(h, i)
         \/ UNCHANGED vars \/ ClearDailyMinutes \/ Crash \/ Restart \/ Member \/ Tick
         \/ \E channel \in Channels \cup {NoChannel} : SetAfk(channel) \/ ReloadConfig(channel)
  PROVE  NoneEnds /\ UNCHANGED counted /\ (UNCHANGED minutes \/ minutes' = [d \in Days |-> Cold])
<1>1. CASE \/ UNCHANGED vars \/ ClearDailyMinutes \/ Crash \/ Restart \/ Member
           \/ \E channel \in Channels \cup {NoChannel} : SetAfk(channel) \/ ReloadConfig(channel)
  <2>1. UNCHANGED counted /\ NoneEnds
    BY <1>1, AsideGoes DEF NoneEnds
  <2> QED BY <1>1, <2>1 DEF vars, voiceVars, ClearDailyMinutes, Crash, Restart, Member, SetAfk,
                            ReloadConfig
<1>2. CASE Tick
  BY <1>2 DEF Tick, NoneEnds, Goes
<1>3. ASSUME NEW to \in Places, Move(to)
      PROVE  NoneEnds /\ UNCHANGED <<counted, minutes>>
  <2>1. CASE UNCHANGED <<job, call>>
    BY <1>3, <2>1 DEF Move, NoneEnds, Goes
  <2>2. ASSUME NEW h \in Idle,
               job' = [job EXCEPT ![h].pc = "state"],
               \E c : call' = [call EXCEPT ![h] = c]
        PROVE  NoneEnds
    <3>1. job[h] \in Jobs /\ h \in Handlers
      BY Types DEF Idle
    <3>2. job'[h].pc = "state"
          /\ \A g \in Handlers \ {h} : job'[g] = job[g] /\ call'[g] = call[g]
      BY <2>2, <3>1, Types DEF Jobs
    <3> QED BY <3>2 DEF NoneEnds, Goes
  <2> QED BY <1>3, <2>1, <2>2 DEF Move
<1>4. ASSUME NEW h \in Handlers, Drop(h)
      PROVE  NoneEnds
  BY <1>4, DropGoes DEF NoneEnds
<1>5. ASSUME NEW h \in Handlers, Increment(h)
      PROVE  NoneEnds /\ UNCHANGED <<counted, minutes>>
  BY <1>5, IncrementGoes DEF NoneEnds, Increment
<1>6. ASSUME NEW h \in Handlers, Classify(h)
      PROVE  NoneEnds /\ UNCHANGED <<counted, minutes>>
  <2>1. ASSUME NEW pc \in {"join", "leave"},
               call' = [call EXCEPT ![h].from = Out, ![h].to = Out],
               job' = [job EXCEPT ![h].pc = pc, ![h].at = clock]
        PROVE  NoneEnds
    <3>1. job'[h].pc = pc /\ \A g \in Handlers \ {h} : job'[g] = job[g]
      BY <2>1, Types DEF Jobs
    <3>2. \A g \in Handlers \ {h} : call'[g] = call[g]
      BY <2>1, Types
    <3> QED BY <3>1, <3>2 DEF NoneEnds, Goes
  <2> QED BY <1>4, <1>6, <2>1 DEF Classify
<1>7. ASSUME NEW h \in Handlers,
             AddSession(h) \/ EndNothing(h) \/ RefuseLeave(h) \/ FailVoice(h)
      PROVE  NoneEnds /\ UNCHANGED <<counted, minutes>>
  BY <1>4, <1>7 DEF AddSession, EndNothing, RefuseLeave, FailVoice
<1>8. ASSUME NEW h \in Handlers, NEW i \in DOMAIN sessions, ChooseSession(h, i)
      PROVE  NoneEnds /\ UNCHANGED <<counted, minutes>>
  <2>1. /\ Goto(h, "ending") /\ call' = [call EXCEPT ![h].session = i]
        /\ UNCHANGED <<counted, minutes>>
    BY <1>8 DEF ChooseSession
  <2>2. job'[h].pc = "ending"
        /\ \A g \in Handlers \ {h} : job'[g] = job[g] /\ call'[g] = call[g]
    BY <2>1, Types DEF Jobs, Goto
  <2> QED BY <2>1, <2>2 DEF NoneEnds, Goes
<1> QED BY <1>1, <1>2, <1>3, <1>5, <1>6, <1>7, <1>8

\* The minutes of a session, and a day that is not over when it ends; nothing is
\* said of a session that two leaves share.
Measured(k, length) ==
  \/ k \in shared
  \/ ~sessions[k].open /\ length = (sessions[k].leave - sessions[k].join) \div TicksPerMinute
Before(k, d) == k \in shared \/ sessions[k].leave < (d + 1) * DayLength

Measures ==
  /\ \A h \in Ending : Measured(call[h].session, call[h].length)
  /\ \A h \in Handlers : job[h].pc = "store" => Before(call[h].session, call[h].day)
  /\ \A i \in DOMAIN counted : /\ Measured(counted[i].session, counted[i].length)
                               /\ Before(counted[i].session, counted[i].day)

LEMMA MeasuredKept ==
  ASSUME SessionsKept, NEW k \in Closed
  PROVE  /\ \A length : Measured(k, length) => Measured(k, length)'
         /\ \A d : Before(k, d) => Before(k, d)'
BY DEF SessionsKept, Closed, Measured, Before

\* One task comes by its session or its day.
LEMMA MeasuresKept ==
  ASSUME VInv, Measures, SessionsKept, UNCHANGED counted, NEW h \in Handlers,
         \A g \in Handlers \ {h} : job'[g] = job[g] /\ call'[g] = call[g],
         h \in Ending' => Measured(call[h].session, call[h].length)',
         job'[h].pc = "store" => Before(call[h].session, call[h].day)'
  PROVE  Measures'
<1>1. ASSUME NEW g \in Handlers \ {h}
      PROVE  /\ g \in Ending' => Measured(call[g].session, call[g].length)'
             /\ job'[g].pc = "store" => Before(call[g].session, call[g].day)'
  <2>1. CASE g \in Ending
    <3>1. call[g].session \in Closed /\ call'[g] = call[g] /\ job'[g] = job[g]
      BY <2>1 DEF VInv, SessionsApart
    <3>2. Measured(call[g].session, call[g].length)
      BY <2>1 DEF Measures
    <3>3. job[g].pc = "store" => Before(call[g].session, call[g].day)
      BY DEF Measures
    <3> QED BY <3>1, <3>2, <3>3, MeasuredKept DEF Measured, Before
  <2> QED BY <2>1 DEF Ending
<1>2. \A i \in DOMAIN counted : /\ Measured(counted[i].session, counted[i].length)'
                                /\ Before(counted[i].session, counted[i].day)'
  <2> TAKE i \in DOMAIN counted
  <2>1. counted[i].session \in Closed
    BY DEF VInv, SessionsApart
  <2> QED BY <2>1, MeasuredKept DEF Measures, Measured, Before
<1> QED BY <1>1, <1>2 DEF Measures, Ending

LEMMA MeasuresWhole ==
  ASSUME VInv, Measures, SessionsKept, UNCHANGED counted, NoneEnds
  PROVE  Measures'
<1>1. /\ \A g \in Ending' : g \in Ending /\ call'[g] = call[g]
      /\ \A g \in Handlers : job'[g].pc = "store" => job[g].pc = "store" /\ g \in Ending'
  BY NoneEndsThen DEF Ending
<1>2. \A g \in Ending : call[g].session \in Closed
  BY DEF VInv, SessionsApart
<1>3. \A g \in Ending' : Measured(call[g].session, call[g].length)'
  BY <1>1, <1>2, MeasuredKept DEF Measures, Measured
<1>4. \A g \in Handlers : job'[g].pc = "store" => Before(call[g].session, call[g].day)'
  BY <1>1, <1>2, MeasuredKept DEF Measures, Before
<1>5. \A i \in DOMAIN counted : /\ Measured(counted[i].session, counted[i].length)'
                                /\ Before(counted[i].session, counted[i].day)'
  <2> TAKE i \in DOMAIN counted
  <2>1. counted[i].session \in Closed
    BY DEF VInv, SessionsApart
  <2> QED BY <2>1, MeasuredKept DEF Measures, Measured, Before
<1> QED BY <1>3, <1>4, <1>5 DEF Measures

LEMMA EndSessionIs ==
  ASSUME VInv, NEW h \in Handlers, EndSession(h)
  PROVE  /\ UNCHANGED <<counted, shared, minutes>>
         /\ \/ Drop(h)
            \/ /\ job'[h].pc = "day" /\ Measured(call[h].session, call[h].length)'
               /\ \A g \in Handlers \ {h} : job'[g] = job[g] /\ call'[g] = call[g]
<1>1. UNCHANGED <<counted, shared, minutes>>
  BY DEF EndSession
<1>2. CASE ~Drop(h)
  <2>1. PICK i \in DOMAIN sessions : i = call[h].session
    BY EndedRow
  <2>2. PICK l : l = (job[h].at - sessions[i].join) \div TicksPerMinute
    OBVIOUS
  <2>3. Goto(h, "day") /\ call' = [call EXCEPT ![h].length = l]
    BY <1>2, <2>1, <2>2 DEF EndSession
  <2>4. job[h] \in Jobs /\ call[h] \in Calls
    BY Types
  <2>5. job'[h].pc = "day" /\ \A g \in Handlers \ {h} : job'[g] = job[g]
    BY <2>3, <2>4, Types DEF Jobs, Goto
  <2>6. /\ call'[h].session = i /\ call'[h].length = l
        /\ \A g \in Handlers \ {h} : call'[g] = call[g]
    BY <2>1, <2>3, <2>4, Types DEF Calls
  <2>7. /\ sessions'[i].leave = job[h].at /\ ~sessions'[i].open
        /\ sessions'[i].join = sessions[i].join
    BY <2>1, EndedRow
  <2>8. Measured(call[h].session, call[h].length)'
    BY <2>2, <2>6, <2>7 DEF Measured
  <2> QED BY <1>1, <2>5, <2>6, <2>8
<1> QED BY <1>1, <1>2

\* The minutes the day had before, as the task reads them.
LEMMA ReadIsOf ==
  ASSUME VInv, NEW h \in Handlers, ReadDay(h) \/ ReadDayFails(h)
  PROVE  /\ job[h].pc = "day" /\ job'[h].pc = "store" /\ UNCHANGED <<counted, shared, minutes,
                                                                     sessions>>
         /\ \A g \in Handlers \ {h} : job'[g] = job[g] /\ call'[g] = call[g]
         /\ call'[h].session = call[h].session /\ call'[h].length = call[h].length
         /\ call'[h].day = Day(clock)
         /\ call'[h].blind \/ call'[h].prior = Prior(Day(clock))
<1>1. job[h].pc = "day" /\ Goto(h, "store") /\ UNCHANGED <<counted, shared, minutes, sessions>>
  BY DEF ReadDay, ReadDayFails
<1>2. job[h] \in Jobs /\ call[h] \in Calls
  BY Types
<1>3. job'[h].pc = "store" /\ \A g \in Handlers \ {h} : job'[g] = job[g]
  BY <1>1, <1>2, Types DEF Jobs, Goto
<1>4. /\ call'[h].session = call[h].session /\ call'[h].length = call[h].length
      /\ \A g \in Handlers \ {h} : call'[g] = call[g]
  BY <1>2, Types DEF Calls, ReadDay, ReadDayFails
<1>5. call'[h].day = Day(clock) /\ (call'[h].blind \/ call'[h].prior = Prior(Day(clock)))
  BY <1>2, Types DEF Calls, ReadDay, ReadDayFails
<1> QED BY <1>1, <1>3, <1>4, <1>5

\* The session of the task is counted, and the task holds it no longer.
LEMMA StoreIs ==
  ASSUME VInv, NEW h \in Handlers, NEW earned \in Worth(h), StoreDay(h, earned)
  PROVE  \E e \in Counts :
           /\ counted' = Append(counted, e)
           /\ e.session = call[h].session /\ e.day = call[h].day /\ e.length = call[h].length
           /\ e.blind = call[h].blind /\ e.earned = earned
           /\ minutes' = [minutes EXCEPT ![call[h].day] = Updated(h)]
           /\ job[h].pc = "store" /\ UNCHANGED sessions
           /\ h \notin Ending'
<1>1. PICK e : e = [session |-> call[h].session, day |-> call[h].day, length |-> call[h].length,
                    blind |-> call[h].blind, earned |-> earned]
  OBVIOUS
<1>2. call[h] \in Calls
  BY Types
<1>3. earned \in Nat
  BY <1>2, WorthWithin DEF Calls
<1>4. e \in Counts
  BY <1>1, <1>2, <1>3 DEF Calls, Counts
<1>5. job' = [job EXCEPT ![h] = Job("voice", call[h].length, "idle")]
  BY DEF StoreDay
<1>6. Job("voice", call[h].length, "idle").pc = "lookup"
  BY <1>2, Types, VoiceAssumption, NewJob DEF Calls
<1>7. h \notin Ending'
  BY <1>5, <1>6, Types DEF Ending
<1> QED BY <1>1, <1>4, <1>7 DEF StoreDay

LEMMA StoreMeasures ==
  ASSUME VInv, Measures, SessionsKept,
         NEW h \in Handlers, NEW earned \in Worth(h), StoreDay(h, earned)
  PROVE  Measures'
<1>1. PICK e \in Counts :
        /\ counted' = Append(counted, e)
        /\ e.session = call[h].session /\ e.day = call[h].day /\ e.length = call[h].length
        /\ job[h].pc = "store" /\ UNCHANGED sessions /\ h \notin Ending'
  BY StoreIs
<1>2. \A g \in Handlers : Goes(g)
  BY StoreGoes
<1>3. /\ \A g \in Ending' : g \in Ending /\ call'[g] = call[g]
      /\ \A g \in Handlers : job'[g].pc = "store" => job[g].pc = "store" /\ g \in Ending'
  BY <1>2, NoneEndsThen DEF NoneEnds, Ending
<1>4. Measured(e.session, e.length) /\ Before(e.session, e.day)
  BY <1>1 DEF Measures, Ending
<1>5. \A i \in DOMAIN counted' : \/ i \in DOMAIN counted /\ counted'[i] = counted[i]
                                 \/ counted'[i] = e
  BY <1>1, Types
<1>6. shared \subseteq shared'
  BY DEF SessionsKept
<1>7. \A g \in Ending' : Measured(call[g].session, call[g].length)'
  BY <1>1, <1>3, <1>6 DEF Measures, Measured
<1>8. \A g \in Handlers : job'[g].pc = "store" => Before(call[g].session, call[g].day)'
  BY <1>1, <1>3, <1>6 DEF Measures, Before
<1>9. \A i \in DOMAIN counted' : /\ Measured(counted[i].session, counted[i].length)'
                                 /\ Before(counted[i].session, counted[i].day)'
  BY <1>1, <1>4, <1>5, <1>6 DEF Measures, Measured, Before
<1> QED BY <1>7, <1>8, <1>9 DEF Measures

LEMMA MeasuresStep ==
  ASSUME VInv, Timed, Measures, [Next]_vars
  PROVE  Measures'
<1>1. SessionsKept
  BY SessionsStay
<1>2. CASE NoneEnds /\ UNCHANGED counted
  BY <1>1, <1>2, MeasuresWhole
<1>3. ASSUME NEW h \in Handlers, EndSession(h)
      PROVE  Measures'
  <2>1. CASE Drop(h)
    BY <1>2, <1>3, <2>1, EndSessionIs, DropGoes DEF NoneEnds
  <2> QED BY <1>1, <1>3, <2>1, EndSessionIs, MeasuresKept
<1>4. ASSUME NEW h \in Handlers, ReadDay(h) \/ ReadDayFails(h)
      PROVE  Measures'
  <2>1. /\ job[h].pc = "day" /\ UNCHANGED <<counted, shared, sessions>>
        /\ \A g \in Handlers \ {h} : job'[g] = job[g] /\ call'[g] = call[g]
        /\ call'[h].session = call[h].session /\ call'[h].length = call[h].length
        /\ call'[h].day = Day(clock)
    BY <1>4, ReadIsOf
  <2>2. h \in Ending /\ call[h].session \in DOMAIN sessions
    BY <2>1 DEF Ending, VInv, SessionsApart, Closed
  <2>3. Measured(call[h].session, call[h].length)'
    BY <2>1, <2>2 DEF Measures, Measured
  <2>4. Before(call[h].session, call[h].day)'
    <3>1. /\ sessions[call[h].session].leave <= clock
          /\ sessions[call[h].session].leave \in Nat /\ clock \in Nat
      BY <2>2, TimedTypes DEF Timed
    <3>2. clock < (Day(clock) + 1) * DayLength /\ (Day(clock) + 1) * DayLength \in Nat
      BY <3>1, DayEnds
    <3>3. sessions[call[h].session].leave < (Day(clock) + 1) * DayLength
      BY <3>1, <3>2
    <3> QED BY <2>1, <3>3 DEF Before
  <2> QED BY <1>1, <2>1, <2>3, <2>4, MeasuresKept
<1>5. ASSUME NEW h \in Handlers, NEW earned \in Worth(h), StoreDay(h, earned)
      PROVE  Measures'
  BY <1>1, <1>5, StoreMeasures
<1>6. ASSUME NEW h \in Handlers, Handle(h)
      PROVE  Measures'
  BY <1>2, <1>3, <1>4, <1>5, <1>6, NoneEndsStep DEF Handle, StoreDayPaid, Worth
<1> QED BY <1>2, <1>6, NoneEndsStep DEF Next

LEMMA MeasuresInit == Init => Measures
<1> SUFFICES ASSUME Init PROVE Measures
  OBVIOUS
<1>1. counted = <<>> /\ \A h \in Handlers : job[h].pc = "idle"
  BY IdleJob DEF Init, StatsInit
<1> QED BY <1>1 DEF Measures, Ending

\* Of the day: whether the theorem speaks of it, its minutes, and their XP.
WithinDay(d) ==
  \A i \in OfDay(d) : /\ ~counted[i].blind /\ counted[i].session \notin shared
                      /\ Day(sessions[counted[i].session].join) = d
LengthsOn(d) == [i \in DOMAIN counted |-> IF counted[i].day = d THEN counted[i].length ELSE 0]
EarnedOn(d) == [i \in DOMAIN counted |-> IF counted[i].day = d THEN counted[i].earned ELSE 0]
DayMinutes(d) == SeqSum(LengthsOn(d))
DayEarned(d) == SeqSum(EarnedOn(d))

\* What the cache, and a task that has read it, has of a day.
Remembers(d) ==
  /\ minutes[d] # Cold => DayMinutes(d) <= minutes[d]
  /\ \A h \in Handlers : job[h].pc = "store" /\ call[h].day = d /\ ~call[h].blind
                           => DayMinutes(d) <= call[h].prior
OnCurve(d) == DayEarned(d) <= Gain(0, DayMinutes(d), MaxRate)

Curved == \A d \in Days : WithinDay(d) => Remembers(d) /\ OnCurve(d)

LEMMA DaySums ==
  ASSUME VInv, NEW d
  PROVE  /\ LengthsOn(d) \in Seq(Nat) /\ EarnedOn(d) \in Seq(Nat)
         /\ Len(LengthsOn(d)) = Len(counted) /\ Len(EarnedOn(d)) = Len(counted)
         /\ DayMinutes(d) \in Nat /\ DayEarned(d) \in Nat
<1>1. PICK n \in Nat : n = Len(counted)
  BY Types
<1>2. DOMAIN counted = 1..n /\ \A i \in 1..n : counted[i] \in Counts
  BY <1>1, Types
<1>3. LengthsOn(d) \in [1..n -> Nat] /\ EarnedOn(d) \in [1..n -> Nat]
  BY <1>2 DEF LengthsOn, EarnedOn, Counts
<1>4. /\ LengthsOn(d) \in Seq(Nat) /\ EarnedOn(d) \in Seq(Nat)
      /\ Len(LengthsOn(d)) = n /\ Len(EarnedOn(d)) = n
  BY <1>3
<1> QED BY <1>1, <1>4, SeqSumNat DEF DayMinutes, DayEarned

\* A day is plain no longer than its sessions are.
LEMMA WithinDayBefore ==
  ASSUME VInv, SessionsKept, NEW d, WithinDay(d)',
         DOMAIN counted \subseteq DOMAIN counted',
         \A i \in DOMAIN counted : counted'[i] = counted[i]
  PROVE  WithinDay(d)
<1> SUFFICES ASSUME NEW i \in OfDay(d)
             PROVE  /\ ~counted[i].blind /\ counted[i].session \notin shared
                    /\ Day(sessions[counted[i].session].join) = d
  BY DEF WithinDay
<1>1. i \in DOMAIN counted /\ counted[i].session \in Closed
  BY DEF OfDay, VInv, SessionsApart
<1>2. i \in OfDay(d)'
  BY <1>1 DEF OfDay
<1>3. /\ ~counted'[i].blind /\ counted'[i].session \notin shared'
      /\ Day(sessions'[counted'[i].session].join) = d
  BY <1>2 DEF WithinDay, Day
<1>4. /\ sessions'[counted[i].session].join = sessions[counted[i].session].join
      /\ shared \subseteq shared'
  BY <1>1 DEF SessionsKept
<1> QED BY <1>1, <1>3, <1>4

LEMMA CurvedKept ==
  ASSUME VInv, Curved, SessionsKept, UNCHANGED counted,
         UNCHANGED minutes \/ minutes' = [d \in Days |-> Cold],
         \A g \in Handlers : job'[g].pc = "store" => job[g].pc = "store" /\ call'[g] = call[g]
  PROVE  Curved'
<1> SUFFICES ASSUME NEW d \in Days, WithinDay(d)' PROVE Remembers(d)' /\ OnCurve(d)'
  BY DEF Curved, Days, Day
<1>1. Remembers(d) /\ OnCurve(d)
  BY WithinDayBefore DEF Curved
<1>2. DayMinutes(d)' = DayMinutes(d) /\ DayEarned(d)' = DayEarned(d)
  BY DEF DayMinutes, DayEarned, LengthsOn, EarnedOn
<1>3. OnCurve(d)'
  BY <1>1, <1>2 DEF OnCurve
<1>4. minutes'[d] # Cold => minutes'[d] = minutes[d]
  OBVIOUS
<1> QED BY <1>1, <1>2, <1>3, <1>4 DEF Remembers

\* The table has the minutes of the sessions that were counted, each in its row.
LEMMA TableHasAll ==
  ASSUME VInv, Measures, NEW d \in Nat, WithinDay(d)
  PROVE  DayMinutes(d) <= TableMinutes(d)
<1>1. PICK q : q = [k \in DOMAIN sessions |-> MinutesOn(sessions[k], d)]
  OBVIOUS
<1>2. PICK n \in Nat : n = Len(sessions)
  BY Types
<1>3. DOMAIN sessions = 1..n /\ \A k \in 1..n : sessions[k] \in Rows
  BY <1>2, Types
<1>4. \A k \in 1..n : MinutesOn(sessions[k], d) \in Nat
  <2>1. clock \in Nat /\ d \in Int
    BY Types
  <2> TAKE k \in 1..n
  <2>2. PICK s \in Rows : s = sessions[k]
    BY <1>3
  <2> QED BY <2>1, <2>2, MinutesOnNat
<1>5. q \in Seq(Nat) /\ DOMAIN q = DOMAIN sessions
  <2>1. q \in [1..n -> Nat]
    BY <1>1, <1>3, <1>4
  <2> QED BY <1>3, <2>1
<1>6. PICK p : p = LengthsOn(d)
  OBVIOUS
<1>7. p \in Seq(Nat) /\ Len(p) = Len(counted) /\ DOMAIN counted = 1..Len(counted)
  BY <1>6, DaySums, Types
<1>8. PICK at : at = [i \in DOMAIN counted |-> counted[i].session]
  OBVIOUS
<1>9. ASSUME NEW i \in 1..Len(p), p[i] # 0
      PROVE  /\ at[i] \in DOMAIN q /\ p[i] <= q[at[i]]
             /\ \A j \in 1..Len(p) : j # i /\ p[j] # 0 => at[j] # at[i]
  <2>1. i \in DOMAIN counted /\ counted[i].day = d /\ p[i] = counted[i].length
    BY <1>6, <1>7, <1>9 DEF LengthsOn
  <2>2. PICK k : k = counted[i].session
    OBVIOUS
  <2>3. k \in DOMAIN sessions /\ at[i] = k
    BY <1>8, <2>1, <2>2 DEF VInv, SessionsApart, Closed
  <2>4. /\ Measured(k, counted[i].length) /\ Before(k, d) /\ Day(sessions[k].join) = d
        /\ k \notin shared
    BY <2>1, <2>2 DEF Measures, WithinDay, OfDay
  <2>5. sessions[k] \in Rows /\ sessions[k].join \in Nat /\ sessions[k].leave \in Nat
    BY <1>3, <2>3 DEF Rows
  <2>6. sessions[k].join <= sessions[k].leave /\ ~sessions[k].open
    BY <2>3, <2>4 DEF VInv, TypeOK, Measured
  <2>7. d * DayLength <= sessions[k].join /\ d * DayLength \in Nat /\ (d + 1) * DayLength \in Nat
    BY <2>4, <2>5, DayEnds
  <2>8. MinutesOn(sessions[k], d) = counted[i].length
    <3>1. PICK from \in Nat : from = d * DayLength
      BY <2>7
    <3>2. PICK to \in Nat : to = (d + 1) * DayLength
      BY <2>7
    <3>3. PICK join \in Nat, leave \in Nat : join = sessions[k].join /\ leave = sessions[k].leave
      BY <2>5
    <3>4. from <= join /\ join <= leave /\ leave < to
      BY <2>4, <2>6, <2>7, <3>1, <3>2, <3>3 DEF Before
    <3>5. counted[i].length = (leave - join) \div TicksPerMinute
      BY <2>4, <3>3 DEF Measured
    <3>6. MinutesOn(sessions[k], d) =
            IF leave > join THEN (leave - join) \div TicksPerMinute ELSE 0
      BY <2>6, <3>1, <3>2, <3>3, <3>4 DEF MinutesOn
    <3>7. leave = join => (leave - join) \div TicksPerMinute = 0
      BY VoiceAssumption
    <3> QED BY <3>4, <3>5, <3>6, <3>7
  <2>9. q[k] = p[i]
    BY <1>1, <2>1, <2>3, <2>8
  <2>10. \A j \in 1..Len(p) : j # i => at[j] # at[i]
    BY <1>7, <1>8, <2>1, <2>2, <2>4 DEF VInv, CountedOnce
  <2> QED BY <1>5, <1>7, <2>3, <2>9, <2>10
<1>10. Within(p, q, at)
  BY <1>5, <1>7, <1>9 DEF Within
<1> QED BY <1>1, <1>6, <1>10, SeqSumWithin DEF DayMinutes, TableMinutes

\* What the task reads of the day is no less than what is counted.
LEMMA ReadCurved ==
  ASSUME VInv, Measures, Curved, NEW h \in Handlers, ReadDay(h) \/ ReadDayFails(h)
  PROVE  Curved'
<1>1. /\ job'[h].pc = "store" /\ UNCHANGED <<counted, shared, minutes, sessions>>
      /\ \A g \in Handlers \ {h} : job'[g] = job[g] /\ call'[g] = call[g]
      /\ call'[h].day = Day(clock)
      /\ call'[h].blind \/ call'[h].prior = Prior(Day(clock))
  BY ReadIsOf
<1> SUFFICES ASSUME NEW d \in Days, WithinDay(d)' PROVE Remembers(d)' /\ OnCurve(d)'
  BY DEF Curved, Days, Day
<1>2. WithinDay(d)
  BY <1>1 DEF WithinDay, OfDay, Day
<1>3. Remembers(d) /\ OnCurve(d)
  BY <1>2 DEF Curved
<1>4. DayMinutes(d)' = DayMinutes(d) /\ DayEarned(d)' = DayEarned(d)
  BY <1>1 DEF DayMinutes, DayEarned, LengthsOn, EarnedOn
<1>5. d = Day(clock) => DayMinutes(d) <= Prior(d)
  <2> SUFFICES ASSUME d = Day(clock) PROVE DayMinutes(d) <= Prior(d)
    OBVIOUS
  <2>1. d \in Nat
    BY Types, DayEnds
  <2>2. DayMinutes(d) <= TableMinutes(d)
    BY <1>2, <2>1, TableHasAll
  <2> QED BY <1>3, <2>2 DEF Prior, Remembers
<1>6. Remembers(d)'
  BY <1>1, <1>3, <1>4, <1>5 DEF Remembers
<1>7. OnCurve(d)'
  BY <1>3, <1>4 DEF OnCurve
<1> QED BY <1>6, <1>7

\* One session more on the day it is counted for, and nothing new on the others.
LEMMA OneMore ==
  ASSUME VInv, NEW e \in Counts, counted' = Append(counted, e), NEW d
  PROVE  /\ e.day = d => /\ DayMinutes(d)' = DayMinutes(d) + e.length
                         /\ DayEarned(d)' = DayEarned(d) + e.earned
         /\ e.day # d => /\ DayMinutes(d)' = DayMinutes(d)
                         /\ DayEarned(d)' = DayEarned(d)
<1>1. PICK n \in Nat : n = Len(counted)
  BY Types
<1>2. PICK x \in Nat : x = IF e.day = d THEN e.length ELSE 0
  BY DEF Counts
<1>3. PICK y \in Nat : y = IF e.day = d THEN e.earned ELSE 0
  BY DEF Counts
<1>4. /\ DOMAIN counted = 1..n /\ DOMAIN counted' = 1..(n + 1)
      /\ counted'[n + 1] = e /\ \A i \in 1..n : counted'[i] = counted[i]
  BY <1>1, Types
<1>5. PICK p \in Seq(Nat) : p = LengthsOn(d) /\ Len(p) = n
  BY <1>1, DaySums
<1>6. PICK q \in Seq(Nat) : q = EarnedOn(d) /\ Len(q) = n
  BY <1>1, DaySums
<1>7. LengthsOn(d)' = Append(p, x)
  BY <1>2, <1>4, <1>5 DEF LengthsOn
<1>8. EarnedOn(d)' = Append(q, y)
  BY <1>3, <1>4, <1>6 DEF EarnedOn
<1>9. p \in Seq(Int) /\ q \in Seq(Int) /\ x \in Int /\ y \in Int
  OBVIOUS
<1>10. SeqSum(Append(p, x)) = SeqSum(p) + x /\ SeqSum(Append(q, y)) = SeqSum(q) + y
  BY <1>9, SeqSumAppend
<1>11. DayMinutes(d)' = DayMinutes(d) + x /\ DayEarned(d)' = DayEarned(d) + y
  BY <1>5, <1>6, <1>7, <1>8, <1>10 DEF DayMinutes, DayEarned
<1> QED BY <1>2, <1>3, <1>11, DaySums

\* A session that begins at or past the minutes of the day brings no more than
\* the curve has left.
LEMMA EarningsFall ==
  ASSUME VInv, NEW h \in Handlers, NEW earned \in Worth(h),
         NEW m \in Nat, m <= call[h].prior
  PROVE  earned \in Nat /\ earned <= Gain(m, m + call[h].length, MaxRate)
<1>1. call[h].prior \in Nat /\ call[h].length \in Nat
  BY Types DEF Calls
<1>2. earned \in Nat
  BY <1>1, WorthWithin
<1>3. MaxRate \in InitialRates /\ \A c \in InitialRates : c <= MaxRate
  BY MaxRateIs
<1>4. CASE earned = 0
  <2>1. Gain(m, m + call[h].length, MaxRate) \in Nat
    BY <1>1, <1>3, GainBounds
  <2> QED BY <1>2, <1>4, <2>1
<1>5. ASSUME NEW c \in InitialRates,
             earned = Gain(call[h].prior, call[h].prior + call[h].length, c)
      PROVE  earned <= Gain(m, m + call[h].length, MaxRate)
  BY <1>1, <1>3, <1>5, GainFalls
<1> QED BY <1>2, <1>4, <1>5 DEF Worth, Earnings, Updated

LEMMA StoreCurved ==
  ASSUME VInv, Timed, Curved, SessionsKept,
         NEW h \in Handlers, NEW earned \in Worth(h), StoreDay(h, earned)
  PROVE  Curved'
<1>1. PICK e \in Counts :
        /\ counted' = Append(counted, e)
        /\ e.session = call[h].session /\ e.day = call[h].day /\ e.length = call[h].length
        /\ e.blind = call[h].blind /\ e.earned = earned
        /\ minutes' = [minutes EXCEPT ![call[h].day] = Updated(h)]
        /\ job[h].pc = "store" /\ h \notin Ending'
  BY StoreIs
<1>2. \A g \in Handlers : job'[g].pc = "store" => /\ job[g].pc = "store" /\ call'[g] = call[g]
                                                 /\ call[h].session \in shared
  <2> SUFFICES ASSUME NEW g \in Handlers, job'[g].pc = "store"
               PROVE  /\ job[g].pc = "store" /\ call'[g] = call[g]
                      /\ call[h].session \in shared
    OBVIOUS
  <2>1. g \in Ending' /\ g \in Ending /\ call'[g] = call[g] /\ job[g].pc = "store"
    BY StoreGoes, NoneEndsThen DEF NoneEnds, Ending
  <2>2. h \in Ending /\ g # h
    BY <1>1, <2>1 DEF Ending
  <2>3. call[g].session = call[h].session
    BY <2>1, <2>2 DEF Timed
  <2>4. g \in Chosen /\ h \in Chosen
    BY <2>1, <2>2 DEF Ending, Chosen
  <2> QED BY <2>1, <2>2, <2>3, <2>4 DEF VInv, SessionsApart
<1> SUFFICES ASSUME NEW d \in Days, WithinDay(d)' PROVE Remembers(d)' /\ OnCurve(d)'
  BY DEF Curved, Days, Day
<1>3. /\ DOMAIN counted' = DOMAIN counted \cup {Len(counted) + 1}
      /\ \A i \in DOMAIN counted : counted'[i] = counted[i]
      /\ counted'[Len(counted) + 1] = e
  BY <1>1, Types
<1>4. WithinDay(d)
  BY <1>3, WithinDayBefore
<1>5. Remembers(d) /\ OnCurve(d)
  BY <1>4 DEF Curved
<1>6. CASE e.day # d
  <2>1. DayMinutes(d)' = DayMinutes(d) /\ DayEarned(d)' = DayEarned(d)
    BY <1>1, <1>6, OneMore
  <2>2. minutes'[d] = minutes[d]
    BY <1>1, <1>6, Types
  <2> QED BY <1>2, <1>5, <2>1, <2>2 DEF Remembers, OnCurve
<1>7. CASE e.day = d
  <2>1. ~call[h].blind /\ call[h].session \notin shared
    <3>1. Len(counted) + 1 \in OfDay(d)'
      BY <1>3, <1>7 DEF OfDay
    <3>2. shared \subseteq shared'
      BY DEF SessionsKept
    <3> QED BY <1>1, <1>3, <3>1, <3>2 DEF WithinDay
  <2>2. PICK m \in Nat : m = DayMinutes(d)
    BY DaySums
  <2>3. PICK x \in Nat : x = DayEarned(d)
    BY DaySums
  <2>4. PICK l \in Nat : l = call[h].length
    BY Types DEF Calls
  <2>5. m <= call[h].prior /\ call[h].prior \in Nat
    BY <1>1, <1>5, <1>7, <2>1, <2>2, Types DEF Remembers, Calls
  <2>6. DayMinutes(d)' = m + l /\ DayEarned(d)' = x + earned
    BY <1>1, <1>7, <2>2, <2>3, <2>4, OneMore
  <2>7. minutes'[d] = call[h].prior + l
    BY <1>1, <1>7, <2>4, Types DEF Updated
  <2>8. Remembers(d)'
    BY <1>2, <2>1, <2>5, <2>6, <2>7 DEF Remembers
  <2>9. earned \in Nat /\ earned <= Gain(m, m + l, MaxRate)
    BY <2>4, <2>5, EarningsFall
  <2>10. /\ Gain(0, m, MaxRate) + Gain(m, m + l, MaxRate) = Gain(0, m + l, MaxRate)
         /\ Gain(0, m, MaxRate) \in Int /\ Gain(m, m + l, MaxRate) \in Int
    <3>1. MaxRate \in InitialRates /\ 0 + m = m /\ 0 \in Nat
      BY MaxRateIs
    <3>2. Gain(0, 0 + m, MaxRate) \in Nat
      BY <3>1, GainBounds
    <3>3. Gain(0, m, MaxRate) \in Nat
      BY <3>1, <3>2
    <3>4. Gain(m, m + l, MaxRate) \in Nat
      BY <3>1, GainBounds
    <3>5. Gain(0, m, MaxRate) + Gain(m, m + l, MaxRate) = Gain(0, m + l, MaxRate)
      BY <3>1, GainAdds
    <3> QED BY <3>3, <3>4, <3>5
  <2>11. x <= Gain(0, m, MaxRate)
    BY <1>5, <2>2, <2>3 DEF OnCurve
  <2>12. x + earned <= Gain(0, m + l, MaxRate)
    BY <2>9, <2>10, <2>11
  <2>13. OnCurve(d)'
    BY <2>6, <2>12 DEF OnCurve, Gain, IntegralXp, Unit, MaxRate
  <2> QED BY <2>8, <2>13
<1> QED BY <1>6, <1>7

LEMMA CurvedStep ==
  ASSUME VInv, Timed, Measures, Curved, [Next]_vars
  PROVE  Curved'
<1>1. SessionsKept
  BY SessionsStay
<1>2. CASE NoneEnds /\ UNCHANGED counted /\ (UNCHANGED minutes \/ minutes' = [d \in Days |-> Cold])
  <2>1. \A g \in Handlers : job'[g].pc = "store" => job[g].pc = "store" /\ call'[g] = call[g]
    BY <1>2, NoneEndsThen DEF Ending
  <2> QED BY <1>1, <1>2, <2>1, CurvedKept
<1>3. ASSUME NEW h \in Handlers, EndSession(h)
      PROVE  Curved'
  <2>1. UNCHANGED <<counted, shared, minutes>>
    BY <1>3, EndSessionIs
  <2>2. CASE Drop(h)
    BY <1>2, <2>1, <2>2, DropGoes DEF NoneEnds
  <2>3. CASE ~Drop(h)
    <3>1. \A g \in Handlers : job'[g].pc = "store" => job[g].pc = "store" /\ call'[g] = call[g]
      BY <1>3, <2>3, EndSessionIs
    <3> QED BY <1>1, <2>1, <3>1, CurvedKept
  <2> QED BY <2>2, <2>3
<1>4. ASSUME NEW h \in Handlers, Handle(h)
      PROVE  Curved'
  BY <1>1, <1>2, <1>3, <1>4, NoneEndsStep, ReadCurved, StoreCurved
     DEF Handle, StoreDayPaid, Worth
<1> QED BY <1>2, <1>4, NoneEndsStep DEF Next

LEMMA CurvedInit == Init => Curved
<1> SUFFICES ASSUME Init PROVE Curved
  OBVIOUS
<1> SUFFICES ASSUME NEW d \in Days PROVE Remembers(d) /\ OnCurve(d)
  BY DEF Curved
<1>1. /\ counted = <<>> /\ minutes[d] = Cold /\ \A h \in Handlers : job[h].pc = "idle"
  BY IdleJob DEF Init, StatsInit
<1>2. LengthsOn(d) = <<>> /\ EarnedOn(d) = <<>>
  BY <1>1 DEF LengthsOn, EarnedOn
<1>3. DayMinutes(d) = 0 /\ DayEarned(d) = 0
  BY <1>2, SeqSumEmpty DEF DayMinutes, DayEarned
<1>4. Gain(0, 0, MaxRate) = 0
  <2>1. IntegralXp(0, MaxRate) \in Int
    BY MaxRateIs, CurveTypes DEF IntegralXp
  <2> QED BY <2>1 DEF Gain
<1> QED BY <1>1, <1>3, <1>4 DEF Remembers, OnCurve

\* Where a minute is longer than two tasks, the sessions counted for a day are
\* never worth more than calculate_integral_xp gives for their minutes together:
\* warm, cleared or lost, the cache of daily minutes never has a task begin
\* earlier on the curve than the day has come (DayOnCurve; handle_vc_xp).
THEOREM DayAlwaysOnCurve ==
  ASSUME 2 * Patience < TicksPerMinute
  PROVE  Spec => []DayOnCurve
<1> DEFINE DInv == VInv /\ Timed /\ Measures /\ Curved
<1>1. Init => DInv
  BY InitStep, TimedInit, MeasuresInit, CurvedInit
<1>2. DInv /\ [Next]_vars => DInv'
  BY VInvStep, TimedStep, MeasuresStep, CurvedStep
<1>3. DInv => DayOnCurve
  BY DEF Curved, OnCurve, WithinDay, DayMinutes, DayEarned, LengthsOn, EarnedOn, DayOnCurve,
         SumOfDay
<1> QED BY <1>1, <1>2, <1>3, PTL DEF Spec
=============================================================================
