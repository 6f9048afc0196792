---------------------------- MODULE AccountXpProofs ----------------------------
(***************************************************************************)
(* AccountXp for any number of tasks, accounts, amounts and multipliers.   *)
(*                                                                         *)
(* First the XP: the stored total is accounted for, and the stored level   *)
(* is owed by a task or right.  Both rest on what the running commands     *)
(* have in hand: the sum of a recalculation is the one on record unless    *)
(* something raced it, the level about to be written is the one of the     *)
(* total unless its task was overtaken, and neither counts for a row given *)
(* a new id meanwhile.                                                     *)
(*                                                                         *)
(* Then the registration: as long as no two of the commands meet, a task   *)
(* that changes it works alone and knows, at each of its steps, what the   *)
(* row and the snapshots are; so the role goes with an active row, no      *)
(* reading of another account is compared with the row's, and every step   *)
(* is one of Membership's.                                                 *)
(***************************************************************************)
EXTENDS AccountXp, XpRulesProofs

AccountPcs == Changing \cup Using \cup {"idle"}
Job == [pc : Steps, id : 0..lastId, mc : Minecraft \cup {Nobody}, todo : SUBSET Stats,
        again : BOOLEAN, n : Int]
\* The kinds of work that are for a Minecraft account.
Naming == {"checking", "forcing", "wiping", "reactivating", "joining", "upserting", "selecting",
           "seeding", "recording"}
Fine(job) == job \in Job /\ (job.pc \in Naming => job.mc \in Minecraft)

\* The parts of TypeOK; ids are given from 1 on.
RowsOK ==
  /\ lastId \in Nat
  /\ user \in [id : {lastId}, active : BOOLEAN, mc : Minecraft] \cup {NoUser}
  /\ user # NoUser => lastId > 0
  /\ baseline \in [Stats -> Minecraft \cup {Nobody}]
  /\ user.id = 0 => baseline = NoStats
WorldOK ==
  /\ role \in BOOLEAN /\ present \in BOOLEAN /\ notices \subseteq {"left", "joined"}
  /\ jobs \in 0..MaxJobs /\ disturbances \in 0..MaxDisturbances
  /\ history \in [DOMAIN NoHistory -> BOOLEAN]
TasksOK == task \in [Tasks -> Job] /\ \A t \in Tasks : Fine(task[t])
XpOK ==
  /\ earned \in Int /\ granted \in Int /\ withheld \in Int
  /\ raced \in BOOLEAN /\ behind \in BOOLEAN
  /\ \A row \in xp : row \in [total : Int, level : 1..LevelCap] /\ xp = {row}
  /\ user.id = 0 => earned = 0 /\ xp = {}
Types == RowsOK /\ WorldOK /\ TasksOK /\ XpOK

\* A recalculation's sum is what is on record for its user.
SumInHand ==
  \A t \in Tasks :
    (task[t].pc \in {"comparing", "rewriting"} /\ Exists(task[t].id) /\ ~raced) => task[t].n = earned

\* A level about to be written is the one of the total.
LevelInHand ==
  ~behind => \A t \in Tasks : (task[t].pc = "levelling" /\ Exists(task[t].id)) =>
               \A row \in xp : task[t].n = CalculateLevel(row.total)

\* The stored level is right unless a task for this very row owes it.
LevelOwed ==
  (~behind /\ \A t \in Levelling : ~Exists(task[t].id)) =>
     \A row \in xp : row.level = CalculateLevel(row.total)

\* And it is a level, right or not.
LevelsTyped == \A t \in Tasks : task[t].pc = "levelling" => task[t].n \in 1..LevelCap

IInv == Types /\ LevelsTyped /\ TotalAccounted /\ SumInHand /\ LevelInHand /\ LevelOwed
-----------------------------------------------------------------------------
(* Types *)

LEMMA TypesAreTypeOK ==
  ASSUME Types PROVE TypeOK
BY DEF Types, TypeOK, RowsOK, WorldOK, TasksOK, XpOK, Job

\* calculate_level stays within the cap, below zero as well.
LEMMA LevelType ==
  ASSUME NEW total \in Int
  PROVE  CalculateLevel(total) \in 1..LevelCap
<1>1. CASE total < 0
  BY <1>1, LevelAssumption DEF CalculateLevel
<1>2. CASE total >= 0
  <2>1. total \in Nat
    BY <1>2
  <2> QED BY <2>1, CalculateLevelInBand
<1> QED BY <1>1, <1>2

LEMMA RowType ==
  ASSUME Types
  PROVE  Row \in [total : Int, level : 1..LevelCap] /\ (xp # {} => xp = {Row})
<1>1. CASE xp = {}
  BY <1>1, LevelAssumption DEF Row
<1>2. CASE xp # {}
  <2>1. PICK row \in xp : TRUE
    BY <1>2
  <2>2. xp = {row} /\ row \in [total : Int, level : 1..LevelCap]
    BY <2>1 DEF Types, XpOK
  <2>3. Row = row
    BY <2>2 DEF Row
  <2> QED BY <2>2, <2>3
<1> QED BY <1>1, <1>2

\* The jobs a task begins with, from its kind of work.
LEMMA IdleJob ==
  ASSUME Types
  PROVE  Fine(Idle) /\ Idle.pc = "idle"
BY DEF Types, RowsOK, Steps, Idle, Job, Fine, Naming

LEMMA KeysType ==
  ASSUME NEW m \in Minecraft
  PROVE  Keys[m] \subseteq Stats /\ Discord \in Stats
BY DEF Stats

\* A task's job keeps its type while it changes place, id or what is left to do.
LEMMA JobType ==
  ASSUME Types, NEW t \in Tasks
  PROVE  /\ task[t] \in Job /\ Fine(task[t])
         /\ \A pc \in Steps : [task[t] EXCEPT !.pc = pc] \in Job
         /\ \A pc : [task[t] EXCEPT !.pc = pc].pc = pc /\ [task[t] EXCEPT !.pc = pc].mc = task[t].mc
BY DEF Types, TasksOK, Job

LEMMA UserType ==
  ASSUME Types
  PROVE  user.id \in 0..lastId /\ (user.active \in BOOLEAN) /\ user.mc \in Minecraft \cup {Nobody}
         /\ (user.id # 0 <=> user # NoUser) /\ (user.id # 0 => user.id = lastId /\ user.mc \in Minecraft)
<1>1. CASE user = NoUser
  BY <1>1 DEF Types, RowsOK, NoUser
<1>2. CASE user # NoUser
  <2>1. user \in [id : {lastId}, active : BOOLEAN, mc : Minecraft] /\ lastId \in Nat /\ lastId > 0
    BY <1>2 DEF Types, RowsOK
  <2>2. user.id = lastId /\ user.active \in BOOLEAN /\ user.mc \in Minecraft
    BY <2>1
  <2> QED BY <1>2, <2>1, <2>2
<1> QED BY <1>1, <1>2

Flags == {"tangled", "failed", "missed", "forced", "reseeded", "foreign"}
LEMMA FlagsOf ==
  [DOMAIN NoHistory -> BOOLEAN] = [Flags -> BOOLEAN]
BY DEF NoHistory, Flags
LEMMA HistoryType ==
  ASSUME Types, NEW f \in Flags, NEW b \in BOOLEAN
  PROVE  [history EXCEPT ![f] = b] \in [DOMAIN NoHistory -> BOOLEAN]
BY FlagsOf DEF Types, WorldOK
-----------------------------------------------------------------------------
(* The account steps: what they leave of the XP, and of the ids *)

\* What an account step does to the ids: nothing, or it gives out the next one.
RowKept == \/ user'.id = user.id /\ lastId' = lastId
           \/ user.id = 0 /\ lastId' = lastId + 1 /\ user'.id = lastId'
Turn(t) == \E job : Fine(job)' /\ job.pc \in AccountPcs /\ task' = [task EXCEPT ![t] = job]
AccountFrame(t) == RowsOK' /\ WorldOK' /\ RowKept /\ Turn(t)

LEMMA TurnType ==
  ASSUME Types, NEW t \in Tasks, Turn(t), RowKept
  PROVE  TasksOK'
<1>1. 0..lastId \subseteq 0..lastId'
  BY DEF Types, RowsOK, RowKept
<1>2. ASSUME NEW job \in Job PROVE job \in Job'
  BY <1>1 DEF Job
<1>3. PICK job : Fine(job)' /\ task' = [task EXCEPT ![t] = job]
  BY DEF Turn
<1>4. ASSUME NEW u \in Tasks PROVE Fine(task[u])'
  <2>1. task'[u] = IF u = t THEN job ELSE task[u]
    BY <1>3 DEF Types, TasksOK
  <2>2. Fine(task[u])
    BY DEF Types, TasksOK
  <2> QED BY <1>2, <1>3, <2>1, <2>2 DEF Fine
<1>5. task' = [u \in Tasks |-> task'[u]]
  BY <1>3 DEF Types, TasksOK
<1> QED BY <1>4, <1>5 DEF TasksOK, Fine

\* A job that starts, with the count of jobs and the history it leaves.
LEMMA StartFrame ==
  ASSUME Types, NEW t \in Tasks, NEW job, Fine(job), job.pc \in AccountPcs, Start(t, job),
         UNCHANGED accountVars
  PROVE  AccountFrame(t)
<1>1. RowsOK' /\ RowKept
  BY DEF Types, RowsOK, accountVars, RowKept
<1>2. history' \in [DOMAIN NoHistory -> BOOLEAN]
  <2>1. (history.tangled \/ Meets(t, job.pc)) \in BOOLEAN
    OBVIOUS
  <2>2. history' = [history EXCEPT !["tangled"] = history.tangled \/ Meets(t, job.pc)]
    BY DEF Start
  <2> QED BY <2>2, HistoryType DEF Flags
<1>3. WorldOK'
  BY <1>2, BoundsAssumption DEF Types, WorldOK, accountVars, Start, Free
<1>4. Turn(t)
  BY DEF Start, Turn, Fine, Job, accountVars
<1> QED BY <1>1, <1>3, <1>4 DEF AccountFrame

\* A step of a job that leaves the rows alone.
LEMMA StepFrame ==
  ASSUME Types, NEW t \in Tasks, NEW job, Fine(job), job.pc \in AccountPcs, Step(t, job),
         UNCHANGED <<user, lastId, baseline>>, role' \in BOOLEAN, present' \in BOOLEAN,
         notices' \subseteq {"left", "joined"}, history' \in [DOMAIN NoHistory -> BOOLEAN]
  PROVE  AccountFrame(t)
<1>1. RowsOK' /\ RowKept
  BY DEF Types, RowsOK, RowKept
<1>3. WorldOK'
  BY DEF Types, WorldOK, Step, bounds
<1>4. Turn(t)
  BY DEF Step, Turn, Fine, Job
<1> QED BY <1>1, <1>3, <1>4 DEF AccountFrame

\* A job that is over or is given up.
LEMMA OverFrame ==
  ASSUME Types, NEW t \in Tasks, (Finish(t) /\ UNCHANGED history) \/ GiveUp(t),
         UNCHANGED <<user, lastId, baseline>>, role' \in BOOLEAN, present' \in BOOLEAN,
         notices' \subseteq {"left", "joined"}
  PROVE  AccountFrame(t)
<1>1. history' \in [DOMAIN NoHistory -> BOOLEAN]
  BY HistoryType DEF GiveUp, Flags, Types, WorldOK
<1>2. Step(t, Idle)
  BY DEF GiveUp, Finish
<1>3. "idle" \in AccountPcs
  BY DEF AccountPcs
<1> QED BY <1>1, <1>2, <1>3, IdleJob, StepFrame

\* Every kind of work but the recalculation's and the level's is an account step's.
LEMMA PcsAreSteps == AccountPcs \subseteq Steps
BY DEF AccountPcs, Steps

\* Going on with the same job.
LEMMA GotoFrame ==
  ASSUME Types, NEW t \in Tasks, NEW pc \in AccountPcs, Goto(t, pc),
         pc \in Naming => task[t].pc \in Naming,
         UNCHANGED <<user, lastId, baseline>>, role' \in BOOLEAN, present' \in BOOLEAN,
         notices' \subseteq {"left", "joined"}, history' \in [DOMAIN NoHistory -> BOOLEAN]
  PROVE  AccountFrame(t)
<1> DEFINE job == [task[t] EXCEPT !.pc = pc]
<1>1. Fine(job) /\ job.pc = pc
  BY PcsAreSteps, JobType DEF Fine
<1>2. Step(t, job)
  BY DEF Goto
<1> HIDE DEF job
<1> QED BY <1>1, <1>2, StepFrame

LEMMA StartSteps ==
  ASSUME Types, NEW t \in Tasks,
         \/ Register(t) \/ RegisterButton(t) \/ ForceRegister(t) \/ Unregister(t) \/ Audit(t)
         \/ RefreshUser(t)
  PROVE  AccountFrame(t)
<1>0. Idle \in Job
  BY IdleJob DEF Fine
<1>1. CASE Register(t) \/ RegisterButton(t) \/ ForceRegister(t)
  <2>1. PICK m \in Minecraft, pc \in {"checking", "forcing"} :
          Start(t, [Idle EXCEPT !.pc = pc, !.mc = m])
    <3>1. CASE Register(t)
      BY <3>1 DEF Register
    <3>2. CASE RegisterButton(t)
      <4>1. user.mc \in Minecraft
        BY <3>2, UserType DEF RegisterButton, Types, RowsOK, NoUser
      <4> QED BY <3>2, <4>1 DEF RegisterButton
    <3>3. CASE ForceRegister(t)
      BY <3>3 DEF ForceRegister
    <3> QED BY <1>1, <3>1, <3>2, <3>3
  <2> DEFINE job == [Idle EXCEPT !.pc = pc, !.mc = m]
  <2>3. pc \in Steps /\ pc \in AccountPcs
    BY DEF Steps, AccountPcs, Changing
  <2>4. job \in Job /\ job.mc = m /\ job.pc = pc
    BY <1>0, <2>3 DEF Job
  <2>6. Start(t, job)
    BY <2>1
  <2> HIDE DEF job
  <2>5. Fine(job) /\ job.pc \in AccountPcs
    BY <2>3, <2>4 DEF Fine
  <2> QED BY <1>1, <2>5, <2>6, StartFrame DEF Register, RegisterButton, ForceRegister
<1>2. CASE Unregister(t)
  <2> DEFINE job == [Idle EXCEPT !.pc = "finding"]
  <2>3. "finding" \in Steps /\ "finding" \in AccountPcs /\ "finding" \notin Naming
    BY DEF Steps, AccountPcs, Changing, Naming
  <2>4. job \in Job /\ job.pc = "finding"
    BY <1>0, <2>3 DEF Job
  <2>6. Start(t, job)
    BY <1>2 DEF Unregister
  <2> HIDE DEF job
  <2>5. Fine(job) /\ job.pc \in AccountPcs
    BY <2>3, <2>4 DEF Fine
  <2> QED BY <1>2, <2>5, <2>6, StartFrame DEF Unregister
<1>3. CASE Audit(t)
  <2> DEFINE job == [Idle EXCEPT !.pc = "auditing", !.again = user.active]
  <2>3. "auditing" \in Steps /\ "auditing" \in AccountPcs /\ "auditing" \notin Naming
    BY DEF Steps, AccountPcs, Changing, Naming
  <2>4. job \in Job /\ job.pc = "auditing"
    BY <1>0, <2>3, UserType DEF Job
  <2>6. Start(t, job)
    BY <1>3 DEF Audit
  <2> HIDE DEF job
  <2>5. Fine(job) /\ job.pc \in AccountPcs
    BY <2>3, <2>4 DEF Fine
  <2> QED BY <1>3, <2>5, <2>6, StartFrame DEF Audit
<1>4. CASE RefreshUser(t)
  <2> DEFINE job == [Idle EXCEPT !.pc = "recording", !.id = user.id, !.mc = user.mc,
                                 !.todo = Keys[user.mc]]
  <2>1. user.mc \in Minecraft
    BY <1>4, UserType DEF RefreshUser, Types, RowsOK, NoUser
  <2>2. Keys[user.mc] \in SUBSET Stats
    BY <2>1, KeysType
  <2>3. "recording" \in Steps /\ "recording" \in AccountPcs
    BY DEF Steps, AccountPcs, Using
  <2>4. job \in Job /\ job.mc = user.mc /\ job.pc = "recording"
    BY <1>0, <2>1, <2>2, <2>3, UserType DEF Job
  <2>6. Start(t, job)
    BY <1>4 DEF RefreshUser
  <2> HIDE DEF job
  <2>5. Fine(job) /\ job.pc \in AccountPcs
    BY <2>1, <2>3, <2>4 DEF Fine
  <2> QED BY <1>4, <2>5, <2>6, StartFrame DEF RefreshUser
<1> QED BY <1>1, <1>2, <1>3, <1>4

\* The registration up to its seeds.
LEMMA RegistrationSteps ==
  ASSUME Types, NEW t \in Tasks,
         \/ CheckExisting(t) \/ Reactivate(t) \/ RegisterUser(t) \/ SelectUser(t)
         \/ AddRole(t) \/ RestoreRole(t) \/ ForceCheck(t)
  PROVE  AccountFrame(t)
<1>h. history \in [DOMAIN NoHistory -> BOOLEAN] /\ role \in BOOLEAN /\ present \in BOOLEAN
      /\ notices \subseteq {"left", "joined"}
  BY DEF Types, WorldOK
<1>1. CASE CheckExisting(t)
  <2>1. CASE user.id = 0
    <3>1. Goto(t, "joining")
      BY <1>1, <2>1, UserType DEF CheckExisting, NoUser
    <3> QED BY <1>1, <1>h, <3>1, GotoFrame DEF CheckExisting, accountVars, AccountPcs, Changing, Naming
  <2>2. CASE user.id # 0 /\ user.active
    <3>1. Finish(t)
      BY <1>1, <2>2 DEF CheckExisting
    <3> QED BY <1>1, <1>h, <3>1, OverFrame DEF CheckExisting, accountVars
  <2>3. CASE user.id # 0 /\ ~user.active
    <3>1. PICK pc \in {"wiping", "reactivating"} :
            Step(t, [task[t] EXCEPT !.again = TRUE, !.pc = pc])
      BY <1>1, <2>3 DEF CheckExisting
    <3> DEFINE job == [task[t] EXCEPT !.again = TRUE, !.pc = pc]
    <3>0. pc \in Steps
      BY DEF Steps, Changing
    <3>2. job \in Job /\ job.pc = pc /\ job.mc = task[t].mc
      BY <3>0, JobType DEF Job
    <3>3. task[t].mc \in Minecraft
      BY <1>1, JobType DEF CheckExisting, Fine, Naming
    <3>4. Step(t, job)
      BY <3>1
    <3> HIDE DEF job
    <3>5. Fine(job) /\ job.pc \in AccountPcs
      BY <3>2, <3>3 DEF Fine, AccountPcs, Changing
    <3> QED BY <1>1, <1>h, <3>4, <3>5, StepFrame DEF CheckExisting, accountVars
  <2> QED BY <2>1, <2>2, <2>3
<1>2. CASE Reactivate(t)
  <2>1. RowsOK' /\ RowKept
    BY <1>2, UserType DEF Reactivate, SetActive, Types, RowsOK, RowKept, NoUser
  <2>2. WorldOK'
    BY <1>2 DEF Reactivate, Goto, Step, bounds, Types, WorldOK
  <2>3. Turn(t)
    <3> DEFINE job == [task[t] EXCEPT !.pc = "upserting"]
    <3>1. Fine(job) /\ job.pc = "upserting"
      BY <1>2, JobType DEF Fine, Reactivate, Naming, Steps, Changing
    <3>2. task' = [task EXCEPT ![t] = job]
      BY <1>2 DEF Reactivate, Goto, Step
    <3> HIDE DEF job
    <3>3. Job' = Job
      BY <1>2 DEF Reactivate, Job
    <3> QED BY <3>1, <3>2, <3>3 DEF Fine, Turn, AccountPcs, Changing
  <2> QED BY <2>1, <2>2, <2>3 DEF AccountFrame
<1>3. CASE RegisterUser(t)
  <2>h. history' \in [DOMAIN NoHistory -> BOOLEAN]
    <3>1. (history.forced \/ (user.id # 0 /\ ~task[t].again)) \in BOOLEAN
      OBVIOUS
    <3>2. history' = [history EXCEPT !["forced"] = history.forced \/ (user.id # 0 /\ ~task[t].again)]
      BY <1>3 DEF RegisterUser
    <3> QED BY <3>2, HistoryType DEF Flags
  <2>1. task[t].mc \in Minecraft
    BY <1>3, JobType DEF RegisterUser, Fine, Naming
  <2>2. WorldOK'
    BY <1>3, <2>h DEF RegisterUser, Goto, Step, bounds, Types, WorldOK
  <2>5. Turn(t)
    <3> DEFINE job == [task[t] EXCEPT !.pc = "selecting"]
    <3>1. Fine(job) /\ job.pc = "selecting"
      BY <2>1, JobType DEF Fine, Steps, Changing
    <3>2. task' = [task EXCEPT ![t] = job]
      BY <1>3 DEF RegisterUser, Goto, Step
    <3> HIDE DEF job
    <3>3. 0..lastId \subseteq 0..lastId'
      BY <1>3 DEF RegisterUser, Types, RowsOK
    <3>4. job \in Job'
      BY <3>1, <3>3 DEF Fine, Job
    <3> QED BY <3>1, <3>2, <3>4 DEF Fine, Turn, AccountPcs, Changing
  <2>3. CASE user.id = 0
    <3>1. lastId' = lastId + 1 /\ user' = [id |-> lastId + 1, active |-> TRUE, mc |-> task[t].mc]
      BY <1>3, <2>3 DEF RegisterUser, Upserted
    <3>2. user' \in [id : {lastId'}, active : BOOLEAN, mc : Minecraft] /\ user'.id = lastId + 1
      BY <2>1, <3>1
    <3>3. lastId \in Nat /\ lastId' \in Nat /\ lastId' > 0 /\ user'.id # 0
      BY <3>1, <3>2 DEF Types, RowsOK
    <3>4. baseline' \in [Stats -> Minecraft \cup {Nobody}]
      BY <1>3 DEF RegisterUser, Types, RowsOK
    <3>5. RowsOK'
      BY <3>2, <3>3, <3>4, Zenon DEF RowsOK
    <3> QED BY <2>2, <2>3, <2>5, <3>1, <3>2, <3>5 DEF RowKept, AccountFrame
  <2>4. CASE user.id # 0
    <3>1. lastId' = lastId /\ user' = [user EXCEPT !.active = TRUE, !.mc = task[t].mc]
      BY <1>3, <2>4 DEF RegisterUser, Upserted
    <3>2. user' \in [id : {lastId'}, active : BOOLEAN, mc : Minecraft] /\ user'.id = user.id
      BY <2>1, <2>4, <3>1, UserType DEF Types, RowsOK
    <3>3. lastId' \in Nat /\ lastId' > 0 /\ user'.id # 0
      BY <2>4, <3>1, <3>2, UserType DEF Types, RowsOK
    <3>4. baseline' \in [Stats -> Minecraft \cup {Nobody}]
      BY <1>3 DEF RegisterUser, Types, RowsOK
    <3>5. RowsOK'
      BY <3>2, <3>3, <3>4, Zenon DEF RowsOK
    <3> QED BY <2>2, <2>5, <3>1, <3>2, <3>5 DEF RowKept, AccountFrame
  <2> QED BY <2>3, <2>4, UserType
<1>4. CASE SelectUser(t)
  <2>1. CASE user.id = 0 /\ GiveUp(t)
    BY <1>4, <1>h, <2>1, OverFrame DEF SelectUser, accountVars
  <2>2. CASE user.id # 0 /\ task[t].again
    <3>1. Goto(t, "roling") /\ UNCHANGED history
      BY <1>4, <2>2 DEF SelectUser
    <3> QED BY <1>4, <1>h, <3>1, GotoFrame DEF SelectUser, accountVars, AccountPcs, Changing, Naming
  <2>3. CASE user.id # 0 /\ ~task[t].again
    <3> DEFINE job == [task[t] EXCEPT !.pc = "seeding", !.id = user.id,
                                      !.todo = Keys[task[t].mc] \cup {Discord}]
    <3>1. Step(t, job) /\ UNCHANGED history
      BY <1>4, <2>3 DEF SelectUser
    <3>2. task[t].mc \in Minecraft
      BY <1>4, JobType DEF SelectUser, Fine, Naming
    <3>3. (Keys[task[t].mc] \cup {Discord}) \in SUBSET Stats
      BY <3>2, KeysType
    <3>4. job \in Job /\ job.pc = "seeding" /\ job.mc = task[t].mc
      <4>1. "seeding" \in Steps
        BY DEF Steps, Changing
      <4> QED BY <3>3, <4>1, JobType, UserType DEF Job
    <3> HIDE DEF job
    <3>5. Fine(job) /\ job.pc \in AccountPcs
      BY <3>2, <3>4 DEF Fine, AccountPcs, Changing
    <3> QED BY <1>4, <1>h, <3>1, <3>5, StepFrame DEF SelectUser, accountVars
  <2> QED BY <1>4, <2>1, <2>2, <2>3 DEF SelectUser
<1>5. CASE AddRole(t)
  <2>1. CASE present /\ role' = TRUE /\ Goto(t, "upserting") /\ UNCHANGED history
    BY <1>5, <1>h, <2>1, GotoFrame DEF AddRole, AccountPcs, Changing, Naming
  <2>2. CASE GiveUp(t) /\ UNCHANGED role
    BY <1>5, <1>h, <2>2, OverFrame DEF AddRole
  <2> QED BY <1>5, <2>1, <2>2 DEF AddRole
<1>6. CASE RestoreRole(t)
  <2>1. CASE present /\ role' = TRUE /\ Finish(t) /\ UNCHANGED history
    BY <1>6, <1>h, <2>1, OverFrame DEF RestoreRole
  <2>2. CASE GiveUp(t) /\ UNCHANGED role
    BY <1>6, <1>h, <2>2, OverFrame DEF RestoreRole
  <2> QED BY <1>6, <2>1, <2>2 DEF RestoreRole
<1>7. CASE ForceCheck(t)
  <2>1. CASE user.active
    BY <1>7, <1>h, <2>1, OverFrame DEF ForceCheck, accountVars
  <2>2. CASE ~user.active
    BY <1>7, <1>h, <2>2, GotoFrame DEF ForceCheck, accountVars, AccountPcs, Changing, Naming
  <2> QED BY <2>1, <2>2
<1> QED BY <1>1, <1>2, <1>3, <1>4, <1>5, <1>6, <1>7
\* The seeds, the readings of a refresh: snapshots of accounts.
LEMMA SnapshotSteps ==
  ASSUME Types, NEW t \in Tasks, Seed(t) \/ RecordReading(t)
  PROVE  AccountFrame(t)
<1>h. /\ role' \in BOOLEAN /\ present' \in BOOLEAN /\ notices' \subseteq {"left", "joined"}
      /\ UNCHANGED <<user, lastId>>
  BY DEF Types, WorldOK, Seed, RecordReading
<1>m. task[t].mc \in Minecraft
  BY JobType DEF Seed, RecordReading, Fine, Naming
<1>1. CASE GiveUp(t) /\ UNCHANGED baseline
  BY <1>1, <1>h, OverFrame
<1>2. ASSUME NEW job, Fine(job), job.pc \in AccountPcs, Step(t, job), NEW s \in Stats,
             baseline' = [baseline EXCEPT ![s] = task[t].mc] \/ UNCHANGED baseline,
             Exists(task[t].id), history' \in [DOMAIN NoHistory -> BOOLEAN]
      PROVE  AccountFrame(t)
  <2>1. baseline' \in [Stats -> Minecraft \cup {Nobody}]
    BY <1>2, <1>m DEF Types, RowsOK
  <2>2. RowsOK' /\ RowKept
    BY <1>h, <1>2, <2>1 DEF Types, RowsOK, RowKept, Exists
  <2>3. WorldOK'
    BY <1>h, <1>2 DEF Types, WorldOK, Step, bounds
  <2>4. Job' = Job
    BY <1>h DEF Job
  <2>5. Turn(t)
    BY <1>2, <2>4 DEF Step, Turn, Fine
  <2> QED BY <2>2, <2>3, <2>5 DEF AccountFrame
<1>3. CASE Seed(t) /\ ~(GiveUp(t) /\ UNCHANGED baseline)
  <2>1. PICK s \in task[t].todo :
          /\ Exists(task[t].id)
          /\ baseline' = [baseline EXCEPT ![s] = task[t].mc]
          /\ history' = [history EXCEPT !["reseeded"] = history.reseeded \/ baseline[s] # Nobody]
          /\ \/ Finish(t)
             \/ Step(t, [task[t] EXCEPT !.todo = task[t].todo \ {s}])
    BY <1>3 DEF Seed
  <2>2. (history.reseeded \/ baseline[s] # Nobody) \in BOOLEAN
    OBVIOUS
  <2>3. history' \in [DOMAIN NoHistory -> BOOLEAN]
    BY <2>1, <2>2, HistoryType DEF Flags
  <2>4. s \in Stats /\ (task[t].todo \ {s}) \in SUBSET Stats
    BY JobType DEF Job
  <2>5. CASE Finish(t)
    BY <1>2, <2>1, <2>3, <2>4, <2>5, IdleJob DEF Finish, AccountPcs
  <2>6. CASE Step(t, [task[t] EXCEPT !.todo = task[t].todo \ {s}])
    <3> DEFINE job == [task[t] EXCEPT !.todo = task[t].todo \ {s}]
    <3>1. job \in Job /\ job.pc = task[t].pc /\ job.mc = task[t].mc
      BY <2>4, JobType DEF Job
    <3>2. Step(t, job)
      BY <2>6
    <3> HIDE DEF job
    <3>3. Fine(job) /\ job.pc \in AccountPcs
      BY <1>3, <1>m, <3>1 DEF Fine, Seed, AccountPcs, Changing
    <3> QED BY <1>2, <2>1, <2>3, <2>4, <3>2, <3>3
  <2> QED BY <2>1, <2>5, <2>6
<1>4. CASE RecordReading(t) /\ ~(GiveUp(t) /\ UNCHANGED baseline)
  <2>1. PICK s \in task[t].todo, moved \in BOOLEAN :
          LET grew == moved /\ baseline[s] # Nobody
              left == task[t].todo \ {s}
          IN  /\ Exists(task[t].id)
              /\ baseline' = IF moved THEN [baseline EXCEPT ![s] = task[t].mc] ELSE baseline
              /\ history' = [history EXCEPT
                               !["foreign"] = history.foreign \/ (grew /\ baseline[s] # task[t].mc)]
              /\ Step(t, [task[t] EXCEPT !.todo = left,
                                         !.n = IF grew THEN task[t].n + 1 ELSE task[t].n,
                                         !.pc = IF left = {} THEN "crediting" ELSE task[t].pc])
    BY <1>4 DEF RecordReading
  <2> DEFINE grew == moved /\ baseline[s] # Nobody
             left == task[t].todo \ {s}
             n == IF grew THEN task[t].n + 1 ELSE task[t].n
             pc == IF left = {} THEN "crediting" ELSE task[t].pc
             job == [task[t] EXCEPT !.todo = left, !.n = n, !.pc = pc]
  <2>2. (history.foreign \/ (grew /\ baseline[s] # task[t].mc)) \in BOOLEAN
    OBVIOUS
  <2>3. history' \in [DOMAIN NoHistory -> BOOLEAN]
    BY <2>1, <2>2, HistoryType DEF Flags
  <2>4. s \in Stats /\ left \in SUBSET Stats
    BY JobType DEF Job
  <2>5. n \in Int
    BY JobType DEF Job
  <2>6. pc \in Steps /\ pc \in AccountPcs
    BY <1>4 DEF RecordReading, Steps, AccountPcs, Using
  <2>7. Step(t, job) /\ Exists(task[t].id)
        /\ (baseline' = [baseline EXCEPT ![s] = task[t].mc] \/ UNCHANGED baseline)
    BY <2>1
  <2> HIDE DEF left, n, pc
  <2>8. job \in Job /\ job.pc = pc /\ job.mc = task[t].mc
    BY <2>4, <2>5, <2>6, JobType DEF Job
  <2> HIDE DEF job
  <2>9. Fine(job) /\ job.pc \in AccountPcs
    BY <1>m, <2>6, <2>8 DEF Fine
  <2> QED BY <1>2, <2>3, <2>4, <2>7, <2>9
<1> QED BY <1>1, <1>3, <1>4

\* The end of a registration, but for the deletion, and the return of a member.
LEMMA MemberSteps ==
  ASSUME Types, NEW t \in Tasks,
         \/ FindUser(t) \/ RemoveRole(t) \/ HandleJoined(t) \/ Greet(t) \/ MarkReturned(t)
         \/ RewardRole(t) \/ LookForMember(t) \/ Fix(t)
  PROVE  AccountFrame(t)
<1>h. history \in [DOMAIN NoHistory -> BOOLEAN] /\ role \in BOOLEAN /\ present \in BOOLEAN
      /\ notices \subseteq {"left", "joined"}
  BY DEF Types, WorldOK
<1>u. ASSUME NEW active \in BOOLEAN, SetActive(active), UNCHANGED <<lastId, baseline>>
      PROVE  RowsOK' /\ RowKept
  <2>1. CASE user.id = 0
    BY <1>u, <2>1 DEF SetActive, Types, RowsOK, RowKept
  <2>2. CASE user.id # 0
    <3>1. user \in [id : {lastId}, active : BOOLEAN, mc : Minecraft]
      BY <2>2, UserType DEF Types, RowsOK
    <3>2. user' = [user EXCEPT !.active = active]
      BY <1>u, <2>2 DEF SetActive
    <3>3. user' \in [id : {lastId}, active : BOOLEAN, mc : Minecraft] /\ user'.id = user.id
      BY <1>u, <3>1, <3>2
    <3> QED BY <1>u, <2>2, <3>3, UserType DEF Types, RowsOK, RowKept
  <2> QED BY <2>1, <2>2
<1>v. ASSUME NEW job, Fine(job), job.pc \in AccountPcs, Step(t, job), lastId' = lastId
      PROVE  Turn(t)
  <2>1. Job' = Job
    BY <1>v DEF Job
  <2> QED BY <1>v, <2>1 DEF Turn, Fine, Step
<1>1. CASE FindUser(t)
  <2>1. PICK pc \in {"unroling", "deleting"} : Step(t, [task[t] EXCEPT !.pc = pc, !.id = user.id])
    BY <1>1 DEF FindUser
  <2> DEFINE job == [task[t] EXCEPT !.pc = pc, !.id = user.id]
  <2>2. pc \in Steps /\ pc \in AccountPcs /\ pc \notin Naming
    BY DEF Steps, AccountPcs, Changing, Naming
  <2>3. job \in Job /\ job.pc = pc
    BY <2>2, JobType, UserType DEF Job
  <2>4. Step(t, job)
    BY <2>1
  <2> HIDE DEF job
  <2>5. Fine(job) /\ job.pc \in AccountPcs
    BY <2>2, <2>3 DEF Fine
  <2> QED BY <1>1, <1>h, <2>4, <2>5, StepFrame DEF FindUser, accountVars
<1>2. CASE RemoveRole(t)
  <2>1. CASE present /\ role' = FALSE /\ Finish(t) /\ UNCHANGED history
    BY <1>2, <1>h, <2>1, OverFrame DEF RemoveRole
  <2>2. CASE GiveUp(t) /\ UNCHANGED role
    BY <1>2, <1>h, <2>2, OverFrame DEF RemoveRole
  <2> QED BY <1>2, <2>1, <2>2 DEF RemoveRole
<1>3. CASE HandleJoined(t)
  <2> DEFINE job == [Idle EXCEPT !.pc = "greeting"]
  <2>1. "greeting" \in Steps /\ "greeting" \in AccountPcs /\ "greeting" \notin Naming
    BY DEF Steps, AccountPcs, Changing, Naming
  <2>2. job \in Job /\ job.pc = "greeting"
    BY <2>1, IdleJob DEF Fine, Job
  <2>3. Step(t, job) /\ UNCHANGED <<user, lastId, baseline, role, present>>
        /\ notices' = notices \ {"joined"}
    BY <1>3 DEF HandleJoined
  <2> HIDE DEF job
  <2>4. Fine(job) /\ job.pc \in AccountPcs
    BY <2>1, <2>2 DEF Fine
  <2>5. (history.tangled \/ Meets(t, "greeting")) \in BOOLEAN
    OBVIOUS
  <2>6. history' = [history EXCEPT !["tangled"] = history.tangled \/ Meets(t, "greeting")]
    BY <1>3 DEF HandleJoined
  <2>7. history' \in [DOMAIN NoHistory -> BOOLEAN]
    BY <2>5, <2>6, HistoryType DEF Flags
  <2> QED BY <1>h, <2>3, <2>4, <2>7, StepFrame
<1>4. CASE Greet(t)
  <2>1. CASE user.active
    BY <1>4, <1>h, <2>1, GotoFrame DEF Greet, accountVars, AccountPcs, Changing, Naming
  <2>2. CASE ~user.active
    BY <1>4, <1>h, <2>2, OverFrame DEF Greet, accountVars
  <2> QED BY <2>1, <2>2
<1>5. CASE MarkReturned(t)
  <2>0. history' \in [DOMAIN NoHistory -> BOOLEAN]
    <3>1. history' = history \/ history' = [history EXCEPT !["failed"] = TRUE]
      BY <1>5 DEF MarkReturned
    <3> QED BY <1>h, <3>1, HistoryType DEF Flags
  <2>1. RowsOK' /\ RowKept
    <3>1. CASE SetActive(TRUE)
      BY <1>5, <1>u, <3>1 DEF MarkReturned
    <3>2. CASE UNCHANGED user
      BY <1>5, <3>2 DEF MarkReturned, Types, RowsOK, RowKept
    <3> QED BY <1>5, <3>1, <3>2 DEF MarkReturned
  <2>2. WorldOK'
    BY <1>5, <2>0 DEF MarkReturned, Goto, Step, bounds, Types, WorldOK
  <2> DEFINE job == [task[t] EXCEPT !.pc = "rewarding"]
  <2>3. "rewarding" \in Steps /\ "rewarding" \in AccountPcs /\ "rewarding" \notin Naming
    BY DEF Steps, AccountPcs, Changing, Naming
  <2>4. job \in Job /\ job.pc = "rewarding"
    BY <2>3, JobType
  <2>5. Step(t, job) /\ lastId' = lastId
    BY <1>5 DEF MarkReturned, Goto
  <2> HIDE DEF job
  <2>6. Turn(t)
    BY <1>v, <2>3, <2>4, <2>5 DEF Fine
  <2> QED BY <2>1, <2>2, <2>6 DEF AccountFrame
<1>6. CASE RewardRole(t)
  BY <1>6, <1>h, OverFrame DEF RewardRole
<1>7. CASE LookForMember(t)
  <2>1. PICK found \in {FALSE, present} :
          /\ IF found = task[t].again THEN Finish(t)
             ELSE Step(t, [task[t] EXCEPT !.pc = "fixing", !.again = found])
          /\ history' = [history EXCEPT !["failed"] = history.failed \/ found # present]
    BY <1>7 DEF LookForMember
  <2>2. (history.failed \/ found # present) \in BOOLEAN /\ found \in BOOLEAN
    BY <1>h
  <2>3. history' \in [DOMAIN NoHistory -> BOOLEAN]
    BY <2>1, <2>2, HistoryType DEF Flags
  <2>4. CASE Finish(t)
    <3>1. Step(t, Idle)
      BY <2>4 DEF Finish
    <3>2. Fine(Idle) /\ Idle.pc \in AccountPcs
      BY IdleJob DEF AccountPcs
    <3> QED BY <1>7, <1>h, <2>3, <3>1, <3>2, StepFrame DEF LookForMember, accountVars
  <2>5. CASE Step(t, [task[t] EXCEPT !.pc = "fixing", !.again = found])
    <3> DEFINE job == [task[t] EXCEPT !.pc = "fixing", !.again = found]
    <3>1. "fixing" \in Steps /\ "fixing" \in AccountPcs /\ "fixing" \notin Naming
      BY DEF Steps, AccountPcs, Changing, Naming
    <3>2. job \in Job /\ job.pc = "fixing"
      BY <2>2, <3>1, JobType DEF Job
    <3>3. Step(t, job)
      BY <2>5
    <3> HIDE DEF job
    <3>4. Fine(job) /\ job.pc \in AccountPcs
      BY <3>1, <3>2 DEF Fine
    <3> QED BY <1>7, <1>h, <2>3, <3>3, <3>4, StepFrame DEF LookForMember, accountVars
  <2> QED BY <2>1, <2>4, <2>5
<1>8. CASE Fix(t)
  <2>1. RowsOK' /\ RowKept
    BY <1>8, <1>u, JobType DEF Fix, Job
  <2>2. WorldOK'
    BY <1>8 DEF Fix, Finish, Step, bounds, Types, WorldOK
  <2>3. Step(t, Idle) /\ lastId' = lastId
    BY <1>8 DEF Fix, Finish
  <2>4. Turn(t)
    BY <1>v, <2>3, IdleJob DEF AccountPcs
  <2> QED BY <2>1, <2>2, <2>4 DEF AccountFrame
<1> QED BY <1>1, <1>2, <1>3, <1>4, <1>5, <1>6, <1>7, <1>8
LEMMA AccountStepFrame ==
  ASSUME Types, NEW t \in Tasks, AccountStep(t)
  PROVE  AccountFrame(t) /\ task[t].pc \in AccountPcs
<1>1. AccountFrame(t)
  BY StartSteps, RegistrationSteps, SnapshotSteps, MemberSteps DEF AccountStep
<1>2. task[t].pc \in AccountPcs
  <2>1. CASE \/ Register(t) \/ RegisterButton(t) \/ ForceRegister(t) \/ Unregister(t) \/ Audit(t)
             \/ RefreshUser(t) \/ HandleJoined(t)
    BY <2>1 DEF Register, RegisterButton, ForceRegister, Unregister, Audit, RefreshUser,
                HandleJoined, Start, Free, AccountPcs
  <2>2. CASE \/ CheckExisting(t) \/ Reactivate(t) \/ RegisterUser(t) \/ SelectUser(t)
             \/ AddRole(t) \/ RestoreRole(t) \/ ForceCheck(t) \/ Seed(t)
    BY <2>2 DEF CheckExisting, Reactivate, RegisterUser, SelectUser, AddRole, RestoreRole,
                ForceCheck, Seed, AccountPcs, Changing
  <2>3. CASE \/ FindUser(t) \/ RemoveRole(t) \/ Greet(t) \/ MarkReturned(t)
             \/ RewardRole(t) \/ LookForMember(t) \/ Fix(t) \/ RecordReading(t)
    BY <2>3 DEF FindUser, RemoveRole, Greet, MarkReturned, RewardRole, LookForMember, Fix,
                RecordReading, AccountPcs, Changing, Using
  <2> QED BY <2>1, <2>2, <2>3 DEF AccountStep
<1> QED BY <1>1, <1>2
-----------------------------------------------------------------------------
(* What is in hand *)

LevelPcs == {"awarding", "reading", "levelling"}
Held == LevelPcs \cup {"comparing", "rewriting"}

LEMMA HeldPcs ==
  /\ AccountPcs \cap Held = {}
  /\ \A pc \in Held : pc \notin Naming
  /\ {"granting", "summing"} \cap Held = {}
BY DEF AccountPcs, Changing, Using, Held, LevelPcs, Naming

\* A task either stays as it is, or it neither gives up a level nor takes anything in hand.
AsideKept ==
  \A u \in Tasks : task'[u] = task[u] \/ (task[u].pc \notin LevelPcs /\ task'[u].pc \notin Held)

\* Steps that leave the XP alone and take nothing in hand keep the invariant.
LEMMA AsideKeeps ==
  ASSUME IInv, Types', AsideKept, RowKept, UNCHANGED xpVars
  PROVE  IInv'
<1>x. UNCHANGED <<earned, xp, granted, withheld, raced, behind>>
  BY DEF xpVars, excuses
<1>1. TotalAccounted'
  BY <1>x DEF IInv, TotalAccounted, Row
<1>l. LevelsTyped'
  BY DEF IInv, LevelsTyped, AsideKept, Held, LevelPcs
<1>2. ASSUME NEW u \in Tasks, task'[u].pc \in Held, Exists(task[u].id)'
      PROVE  task'[u] = task[u] /\ Exists(task[u].id)
  <2>1. task'[u] = task[u]
    BY <1>2 DEF AsideKept
  <2>2. task[u].id \in 0..lastId /\ lastId \in Nat
    BY JobType DEF IInv, Types, RowsOK, Job
  <2> QED BY <1>2, <2>1, <2>2 DEF RowKept, Exists
<1>3. SumInHand'
  <2> SUFFICES ASSUME NEW u \in Tasks, task'[u].pc \in {"comparing", "rewriting"},
                      Exists(task[u].id)', ~raced'
               PROVE  task'[u].n = earned'
    BY DEF SumInHand
  <2>1. task'[u] = task[u] /\ Exists(task[u].id)
    BY <1>2 DEF Held
  <2> QED BY <1>x, <2>1 DEF IInv, SumInHand
<1>4. LevelInHand'
  <2> SUFFICES ASSUME ~behind', NEW u \in Tasks, task'[u].pc = "levelling", Exists(task[u].id)',
                      NEW row \in xp'
               PROVE  task'[u].n = CalculateLevel(row.total)
    BY DEF LevelInHand
  <2>1. task'[u] = task[u] /\ Exists(task[u].id)
    BY <1>2 DEF Held, LevelPcs
  <2> QED BY <1>x, <2>1 DEF IInv, LevelInHand
<1>5. LevelOwed'
  <2> SUFFICES ASSUME ~behind', \A u \in Levelling' : ~Exists(task[u].id)', NEW row \in xp'
               PROVE  row.level = CalculateLevel(row.total)
    BY DEF LevelOwed
  <2>1. user'.id = user.id /\ user.id # 0
    BY <1>x DEF IInv, Types, XpOK, RowKept
  <2>2. ASSUME NEW u \in Levelling PROVE ~Exists(task[u].id)
    <3>1. task'[u] = task[u] /\ u \in Levelling'
      BY <2>2 DEF Levelling, AsideKept, LevelPcs
    <3> QED BY <2>1, <3>1 DEF Exists
  <2> QED BY <1>x, <2>2 DEF IInv, LevelOwed
<1> QED BY <1>l, <1>1, <1>3, <1>4, <1>5 DEF IInv

\* The same when one task takes something in hand, or is done with it.
LEMMA HeldKeeps ==
  ASSUME IInv, Types', UNCHANGED user, UNCHANGED xpVars, NEW t \in Tasks,
         \A u \in Tasks \ {t} : task'[u] = task[u],
         (task'[t].pc \in {"comparing", "rewriting"} /\ Exists(task'[t].id) /\ ~raced) =>
           task'[t].n = earned,
         (task'[t].pc = "levelling" /\ Exists(task'[t].id) /\ ~behind) =>
           \A row \in xp : task'[t].n = CalculateLevel(row.total),
         task'[t].pc = "levelling" => task'[t].n \in 1..LevelCap,
         (task[t].pc \in LevelPcs /\ Exists(task[t].id) /\ ~behind) =>
           \/ task'[t].pc \in LevelPcs /\ task'[t].id = task[t].id
           \/ \A row \in xp : row.level = CalculateLevel(row.total)
  PROVE  IInv'
<1>x. UNCHANGED <<earned, xp, granted, withheld, raced, behind>>
  BY DEF xpVars, excuses
<1>1. TotalAccounted'
  BY <1>x DEF IInv, TotalAccounted, Row
<1>l. LevelsTyped'
  BY DEF IInv, LevelsTyped
<1>3. SumInHand'
  <2> SUFFICES ASSUME NEW u \in Tasks, task'[u].pc \in {"comparing", "rewriting"},
                      Exists(task[u].id)', ~raced'
               PROVE  task'[u].n = earned'
    BY DEF SumInHand
  <2>1. CASE u = t
    BY <1>x, <2>1 DEF Exists
  <2>2. CASE u # t
    BY <1>x, <2>2 DEF IInv, SumInHand, Exists
  <2> QED BY <2>1, <2>2
<1>4. LevelInHand'
  <2> SUFFICES ASSUME ~behind', NEW u \in Tasks, task'[u].pc = "levelling", Exists(task[u].id)',
                      NEW row \in xp'
               PROVE  task'[u].n = CalculateLevel(row.total)
    BY DEF LevelInHand
  <2>1. CASE u = t
    BY <1>x, <2>1 DEF Exists
  <2>2. CASE u # t
    BY <1>x, <2>2 DEF IInv, LevelInHand, Exists
  <2> QED BY <2>1, <2>2
<1>5. LevelOwed'
  <2> SUFFICES ASSUME ~behind', \A u \in Levelling' : ~Exists(task[u].id)', NEW row \in xp'
               PROVE  row.level = CalculateLevel(row.total)
    BY DEF LevelOwed
  <2>1. CASE \A r \in xp : r.level = CalculateLevel(r.total)
    BY <1>x, <2>1
  <2>2. CASE ~\A r \in xp : r.level = CalculateLevel(r.total)
    <3>1. ASSUME NEW u \in Levelling PROVE ~Exists(task[u].id)
      <4>1. CASE u = t
        <5>1. task[t].pc \in LevelPcs
          BY <3>1, <4>1 DEF Levelling, LevelPcs
        <5>2. ASSUME Exists(task[t].id) PROVE FALSE
          <6>1. task'[t].pc \in LevelPcs /\ task'[t].id = task[t].id
            BY <1>x, <2>2, <5>1, <5>2
          <6>2. t \in Levelling'
            BY <6>1 DEF Levelling, LevelPcs
          <6> QED BY <5>2, <6>1, <6>2 DEF Exists
        <5> QED BY <4>1, <5>2
      <4>2. CASE u # t
        <5>1. task'[u] = task[u] /\ u \in Levelling'
          BY <3>1, <4>2 DEF Levelling
        <5> QED BY <5>1 DEF Exists
      <4> QED BY <4>1, <4>2
    <3> QED BY <1>x, <3>1 DEF IInv, LevelOwed
  <2> QED BY <2>1, <2>2
<1> QED BY <1>l, <1>1, <1>3, <1>4, <1>5 DEF IInv

\* Tasks that are cut short leave the levels they owe behind.
LEMMA CutKeeps ==
  ASSUME IInv, Types', UNCHANGED user, NEW S \in SUBSET Tasks, CutShort(S),
         task' = [u \in Tasks |-> IF u \in S THEN Idle ELSE task[u]]
  PROVE  IInv'
<1>x. UNCHANGED <<earned, xp, granted, withheld, raced>>
      /\ behind' = (behind \/ S \cap Levelling # {})
  BY DEF CutShort, excuses
<1>i. Idle.pc \notin Held
  BY DEF Idle, Held, LevelPcs
<1>1. TotalAccounted'
  BY <1>x DEF IInv, TotalAccounted, Row
<1>l. LevelsTyped'
  BY <1>i DEF IInv, LevelsTyped, Held, LevelPcs
<1>2. ASSUME NEW u \in Tasks, task'[u].pc \in Held, Exists(task[u].id)'
      PROVE  task'[u] = task[u] /\ Exists(task[u].id)
  BY <1>2, <1>i DEF Exists
<1>3. SumInHand'
  <2> SUFFICES ASSUME NEW u \in Tasks, task'[u].pc \in {"comparing", "rewriting"},
                      Exists(task[u].id)', ~raced'
               PROVE  task'[u].n = earned'
    BY DEF SumInHand
  <2>1. task'[u] = task[u] /\ Exists(task[u].id)
    BY <1>2 DEF Held
  <2> QED BY <1>x, <2>1 DEF IInv, SumInHand
<1>4. LevelInHand'
  <2> SUFFICES ASSUME ~behind', NEW u \in Tasks, task'[u].pc = "levelling", Exists(task[u].id)',
                      NEW row \in xp'
               PROVE  task'[u].n = CalculateLevel(row.total)
    BY DEF LevelInHand
  <2>1. task'[u] = task[u] /\ Exists(task[u].id)
    BY <1>2 DEF Held, LevelPcs
  <2> QED BY <1>x, <2>1 DEF IInv, LevelInHand
<1>5. LevelOwed'
  <2> SUFFICES ASSUME ~behind', \A u \in Levelling' : ~Exists(task[u].id)', NEW row \in xp'
               PROVE  row.level = CalculateLevel(row.total)
    BY DEF LevelOwed
  <2>2. ASSUME NEW u \in Levelling PROVE ~Exists(task[u].id)
    <3>1. u \in Tasks /\ u \notin S
      BY <1>x, <2>2 DEF Levelling
    <3>2. task'[u] = task[u] /\ u \in Levelling'
      BY <2>2, <3>1 DEF Levelling
    <3> QED BY <3>2 DEF Exists
  <2> QED BY <1>x, <2>2 DEF IInv, LevelOwed
<1> QED BY <1>l, <1>1, <1>3, <1>4, <1>5 DEF IInv
-----------------------------------------------------------------------------
(* Rewards *)

\* A transaction's reward moves the total and the record together, races the
\* recalculations under way, and overtakes the levels about to be written.
LEMMA CreditKeeps ==
  ASSUME IInv, NEW reward \in Int, Credit(reward), user.id # 0, UNCHANGED user, AsideKept
  PROVE  XpOK' /\ LevelsTyped' /\ TotalAccounted' /\ SumInHand' /\ LevelInHand' /\ LevelOwed'
<1> DEFINE total == Row.total + reward
           new == [total |-> total, level |-> CalculateLevel(total)]
<1>t. Row \in [total : Int, level : 1..LevelCap] /\ (xp # {} => xp = {Row}) /\ Types
      /\ earned \in Int /\ granted \in Int /\ withheld \in Int
      /\ \A row \in xp : row \in [total : Int, level : 1..LevelCap] /\ xp = {row}
  BY RowType DEF IInv, Types, XpOK
<1>n. total \in Int /\ new \in [total : Int, level : 1..LevelCap] /\ new.total = total
      /\ new.level = CalculateLevel(total)
  BY <1>t, LevelType
<1>c. earned' = earned + reward /\ granted' = granted /\ raced' = (raced \/ Recalculating)
  BY DEF Credit
<1>p. reward > 0 => xp' = {new} /\ withheld' = withheld /\ behind' = Overtaken
  BY DEF Credit, Credited
<1>z. ~(reward > 0) => xp' = xp /\ withheld' = withheld + reward /\ behind' = behind
  BY DEF Credit, Credited
<1> HIDE DEF new, total
<1>r. reward > 0 => Row' = new
  BY <1>p DEF Row
<1>l. LevelsTyped'
  BY DEF IInv, LevelsTyped, AsideKept, Held, LevelPcs
<1>1. XpOK'
  <2>1. earned' \in Int /\ granted' \in Int /\ withheld' \in Int
    BY <1>t, <1>c, <1>p, <1>z
  <2>2. raced' \in BOOLEAN
    <3>1. (raced \/ Recalculating) \in BOOLEAN
      OBVIOUS
    <3> QED BY <3>1, <1>c
  <2>3. behind' \in BOOLEAN
    <3>1. behind \in BOOLEAN /\ Overtaken \in BOOLEAN
      BY <1>t DEF Types, XpOK, Overtaken
    <3> QED BY <3>1, <1>p, <1>z
  <2>4. \A row \in xp' : row \in [total : Int, level : 1..LevelCap] /\ xp' = {row}
    BY <1>t, <1>n, <1>p, <1>z
  <2> QED BY <2>1, <2>2, <2>3, <2>4 DEF XpOK
<1>2. TotalAccounted'
  <2> SUFFICES ASSUME ~raced' PROVE Row'.total = earned' - withheld' + granted'
    BY DEF TotalAccounted
  <2>1. Row.total = earned - withheld + granted
    BY <1>c DEF IInv, TotalAccounted
  <2>2. CASE reward > 0
    BY <1>t, <1>n, <1>c, <1>p, <1>r, <2>1, <2>2 DEF total
  <2>3. CASE ~(reward > 0)
    <3>1. Row' = Row
      BY <1>z, <2>3 DEF Row
    <3>2. Row.total \in Int
      BY <1>t
    <3> QED BY <1>t, <1>c, <1>z, <2>1, <2>3, <3>1, <3>2
  <2> QED BY <2>2, <2>3
<1>3. SumInHand'
  <2> SUFFICES ASSUME NEW u \in Tasks, task'[u].pc \in {"comparing", "rewriting"}
               PROVE  raced'
    BY DEF SumInHand
  <2>1. task[u].pc \in {"comparing", "rewriting"}
    BY DEF AsideKept, Held
  <2> QED BY <1>c, <2>1 DEF Recalculating
<1>4. LevelInHand'
  <2> SUFFICES ASSUME ~behind', NEW u \in Tasks, task'[u].pc = "levelling", Exists(task[u].id)',
                      NEW row \in xp'
               PROVE  task'[u].n = CalculateLevel(row.total)
    BY DEF LevelInHand
  <2>1. task'[u] = task[u]
    BY DEF AsideKept, Held, LevelPcs
  <2>2. ~(reward > 0)
    BY <1>p, <2>1 DEF Overtaken
  <2> QED BY <1>z, <2>1, <2>2 DEF IInv, LevelInHand, Exists
<1>5. LevelOwed'
  <2> SUFFICES ASSUME ~behind', \A u \in Levelling' : ~Exists(task[u].id)', NEW row \in xp'
               PROVE  row.level = CalculateLevel(row.total)
    BY DEF LevelOwed
  <2>1. CASE reward > 0
    BY <1>n, <1>p, <2>1
  <2>2. CASE ~(reward > 0)
    <3>1. ASSUME NEW u \in Levelling PROVE ~Exists(task[u].id)
      <4>1. task'[u] = task[u] /\ u \in Levelling'
        BY <3>1 DEF Levelling, AsideKept, LevelPcs
      <4> QED BY <4>1 DEF Exists
    <3> QED BY <1>z, <2>2, <3>1 DEF IInv, LevelOwed
  <2> QED BY <2>1, <2>2
<1> QED BY <1>l, <1>1, <1>2, <1>3, <1>4, <1>5

\* A step of an XP command changes one task and perhaps the history.
LEMMA XpTurn ==
  ASSUME Types, NEW t \in Tasks, NEW job, Fine(job), Step(t, job) \/ Start(t, job),
         UNCHANGED accountVars
  PROVE  /\ task'[t] = job /\ \A u \in Tasks \ {t} : task'[u] = task[u]
         /\ UNCHANGED user /\ RowKept
         /\ history' \in [DOMAIN NoHistory -> BOOLEAN] => RowsOK' /\ WorldOK' /\ TasksOK'
<1>1. task' = [task EXCEPT ![t] = job]
  BY DEF Step, Start
<1>2. task'[t] = job /\ \A u \in Tasks \ {t} : task'[u] = task[u]
  BY <1>1 DEF Types, TasksOK
<1>3. UNCHANGED user /\ RowKept /\ RowsOK' /\ Job' = Job
  BY DEF accountVars, RowKept, Types, RowsOK, Job
<1>4. TasksOK'
  BY <1>1, <1>3 DEF Types, TasksOK, Fine
<1>5. jobs' \in 0..MaxJobs /\ disturbances' \in 0..MaxDisturbances
  BY BoundsAssumption DEF Types, WorldOK, Step, Start, Free, bounds
<1>6. history' \in [DOMAIN NoHistory -> BOOLEAN] => WorldOK'
  BY <1>5 DEF Types, WorldOK, accountVars
<1> QED BY <1>2, <1>3, <1>4, <1>6

LEMMA SameXp ==
  ASSUME Types, UNCHANGED user, UNCHANGED xpVars
  PROVE  XpOK'
BY DEF Types, XpOK, xpVars, excuses

LEMMA HistoryStays ==
  ASSUME Types
  PROVE  /\ history \in [DOMAIN NoHistory -> BOOLEAN]
         /\ [history EXCEPT !.failed = TRUE] \in [DOMAIN NoHistory -> BOOLEAN]
BY HistoryType DEF Types, WorldOK, Flags

\* A task that is over, or gives up, while it owes no level.
LEMMA OverKeeps ==
  ASSUME IInv, NEW t \in Tasks, (Finish(t) /\ UNCHANGED history) \/ GiveUp(t),
         UNCHANGED accountVars, UNCHANGED xpVars,
         (task[t].pc \in LevelPcs /\ Exists(task[t].id)) =>
           \A row \in xp : row.level = CalculateLevel(row.total)
  PROVE  IInv'
<1>1. Step(t, Idle) /\ Fine(Idle) /\ Idle.pc = "idle" /\ Types
  BY IdleJob DEF Finish, GiveUp, IInv
<1>2. history' \in [DOMAIN NoHistory -> BOOLEAN]
  BY <1>1, HistoryStays DEF GiveUp
<1>3. /\ task'[t] = Idle /\ \A u \in Tasks \ {t} : task'[u] = task[u]
      /\ UNCHANGED user /\ RowsOK' /\ WorldOK' /\ TasksOK'
  BY <1>1, <1>2, XpTurn
<1>4. Types'
  BY <1>1, <1>3, SameXp DEF Types
<1> QED BY <1>1, <1>3, <1>4, HeldKeeps

LEMMA CommitKeeps ==
  ASSUME IInv, NEW t \in Tasks, CommitRefresh(t)
  PROVE  IInv'
<1>0. task[t].pc = "crediting" /\ UNCHANGED accountVars /\ Types
  BY DEF CommitRefresh, IInv
<1>1. CASE UNCHANGED xpVars /\ ((Finish(t) /\ UNCHANGED history) \/ GiveUp(t))
  BY <1>0, <1>1, OverKeeps DEF LevelPcs
<1>2. CASE task[t].n # 0 /\ Exists(task[t].id) /\ (\E m \in Multipliers : Credit(task[t].n * m))
           /\ Finish(t) /\ UNCHANGED history
  <2>1. PICK m \in Multipliers : Credit(task[t].n * m)
    BY <1>2
  <2>2. task[t].n * m \in Int
    <3>1. task[t].n \in Int /\ m \in Int
      BY <1>0, JobType, XpAssumption DEF Job
    <3> QED BY <3>1
  <2>3. Step(t, Idle) /\ Fine(Idle) /\ Idle.pc = "idle"
    BY <1>0, <1>2, IdleJob DEF Finish
  <2>4. /\ task'[t] = Idle /\ \A u \in Tasks \ {t} : task'[u] = task[u]
        /\ UNCHANGED user /\ RowsOK' /\ WorldOK' /\ TasksOK'
    BY <1>0, <1>2, <2>3, HistoryStays, XpTurn
  <2>5. AsideKept
    BY <1>0, <2>3, <2>4 DEF AsideKept, LevelPcs, Held
  <2>6. user.id # 0
    BY <1>2 DEF Exists
  <2> QED BY <2>1, <2>2, <2>4, <2>5, <2>6, CreditKeeps DEF IInv, Types
<1>3. task[t].n \in Int
  BY <1>0, JobType DEF Job
<1>4. \/ UNCHANGED xpVars /\ ((Finish(t) /\ UNCHANGED history) \/ GiveUp(t))
      \/ task[t].n # 0 /\ Exists(task[t].id) /\ (\E m \in Multipliers : Credit(task[t].n * m))
         /\ Finish(t) /\ UNCHANGED history
  BY <1>3 DEF CommitRefresh
<1> QED BY <1>1, <1>2, <1>4

LEMMA DiscordKeeps ==
  ASSUME IInv, EarnOnDiscord
  PROVE  IInv'
<1>0. Types /\ user.id # 0 /\ user.mc \in Minecraft
  BY UserType DEF IInv, EarnOnDiscord, Types, RowsOK, NoUser
<1>1. PICK m \in Multipliers : Credit(m)
  BY DEF EarnOnDiscord
<1>2. history' \in [DOMAIN NoHistory -> BOOLEAN]
  <2>1. (history.tangled \/ SomeChanging) \in BOOLEAN
    OBVIOUS
  <2>2. history' = [history EXCEPT !["tangled"] = history.tangled \/ SomeChanging]
    BY DEF EarnOnDiscord
  <2> QED BY <1>0, <2>1, <2>2, HistoryType DEF Flags
<1>3. RowsOK'
  BY <1>0 DEF EarnOnDiscord, Types, RowsOK
<1>4. WorldOK'
  BY <1>0, <1>2, BoundsAssumption DEF EarnOnDiscord, Types, WorldOK
<1>5. TasksOK'
  BY <1>0 DEF EarnOnDiscord, Types, TasksOK, Fine, Job
<1>6. AsideKept /\ UNCHANGED user
  BY DEF EarnOnDiscord, AsideKept
<1>7. m \in Int
  BY XpAssumption
<1> QED BY <1>0, <1>1, <1>3, <1>4, <1>5, <1>6, <1>7, CreditKeeps DEF IInv, Types
-----------------------------------------------------------------------------
(* The commands of administrators *)

LEMMA StartKeeps ==
  ASSUME IInv, NEW t \in Tasks, NEW job, Fine(job), job.pc \notin Held, Start(t, job),
         UNCHANGED accountVars, UNCHANGED xpVars
  PROVE  IInv'
<1>0. Types /\ task[t].pc = "idle"
  BY DEF IInv, Start, Free
<1>6. history' \in [DOMAIN NoHistory -> BOOLEAN]
  <2>1. (history.tangled \/ Meets(t, job.pc)) \in BOOLEAN
    OBVIOUS
  <2>2. history' = [history EXCEPT !["tangled"] = history.tangled \/ Meets(t, job.pc)]
    BY DEF Start
  <2> QED BY <1>0, <2>1, <2>2, HistoryType DEF Flags
<1>7. /\ task'[t] = job /\ \A u \in Tasks \ {t} : task'[u] = task[u]
      /\ UNCHANGED user /\ RowKept /\ RowsOK' /\ WorldOK' /\ TasksOK'
  BY <1>0, <1>6, XpTurn
<1>8. Types'
  BY <1>0, <1>7, SameXp DEF Types
<1>9. AsideKept
  BY <1>0, <1>7 DEF AsideKept, LevelPcs
<1> QED BY <1>7, <1>8, <1>9, AsideKeeps

LEMMA CommandsStart ==
  ASSUME IInv, NEW t \in Tasks, ChangeXp(t) \/ Recalculate(t)
  PROVE  IInv'
<1>0. Types /\ Idle \in Job /\ task[t].pc = "idle" /\ UNCHANGED accountVars /\ UNCHANGED xpVars
  BY IdleJob DEF IInv, Fine, ChangeXp, Recalculate, Start, Free
<1>1. \A pc \in {"granting", "summing"} : pc \in Steps /\ pc \notin Naming /\ pc \notin Held
  BY DEF Steps, Naming, Held, LevelPcs
<1>2. CASE ChangeXp(t)
  <2>1. PICK a \in Amounts, sign \in {1, -1} :
          Start(t, [Idle EXCEPT !.pc = "granting", !.id = user.id, !.n = sign * Clamped(a)])
    BY <1>2 DEF ChangeXp
  <2> DEFINE n == sign * Clamped(a)
             job == [Idle EXCEPT !.pc = "granting", !.id = user.id, !.n = n]
  <2>2. n \in Int
    <3>1. Clamped(a) \in Int
      BY XpAssumption DEF Clamped
    <3> QED BY <3>1
  <2>3. Start(t, job)
    BY <2>1
  <2> HIDE DEF n
  <2>4. job \in Job /\ job.pc = "granting"
    BY <1>0, <1>1, <2>2, UserType DEF Job
  <2> HIDE DEF job
  <2>5. Fine(job) /\ job.pc \notin Held
    BY <1>1, <2>4 DEF Fine
  <2> QED BY <1>0, <2>3, <2>5, StartKeeps
<1>3. CASE Recalculate(t)
  <2> DEFINE job == [Idle EXCEPT !.pc = "summing", !.id = user.id]
  <2>1. job \in Job /\ job.pc = "summing"
    BY <1>0, <1>1, UserType DEF Job
  <2>2. Start(t, job)
    BY <1>3 DEF Recalculate
  <2> HIDE DEF job
  <2>3. Fine(job) /\ job.pc \notin Held
    BY <1>1, <2>1 DEF Fine
  <2> QED BY <1>0, <2>2, <2>3, StartKeeps
<1> QED BY <1>2, <1>3

\* An amount moves the total and what administrators gave; the level is owed now.
LEMMA IncrementKeeps ==
  ASSUME IInv, NEW t \in Tasks, IncrementXp(t)
  PROVE  IInv'
<1>0. Types /\ task[t].pc = "granting" /\ UNCHANGED accountVars
  BY DEF IInv, IncrementXp
<1>1. CASE ~Exists(task[t].id)
  BY <1>0, <1>1, OverKeeps DEF IncrementXp, LevelPcs
<1>2. CASE Exists(task[t].id)
  <2> DEFINE job == [task[t] EXCEPT !.pc = "awarding"]
             new == [Row EXCEPT !.total = Row.total + task[t].n]
  <2>1. "awarding" \in Steps /\ "awarding" \notin Naming /\ "awarding" \in LevelPcs
    BY DEF Steps, Naming, LevelPcs
  <2>2. Fine(job) /\ job.pc = "awarding" /\ job.id = task[t].id
    <3>1. job \in Job /\ job.pc = "awarding" /\ job.id = task[t].id
      BY <1>0, <2>1, JobType DEF Job
    <3> QED BY <2>1, <3>1 DEF Fine
  <2>3. Step(t, job) /\ UNCHANGED history
    BY <1>2 DEF IncrementXp, Goto
  <2>n. /\ new \in [total : Int, level : 1..LevelCap] /\ new.total = Row.total + task[t].n
        /\ Row.total \in Int /\ task[t].n \in Int
    BY <1>0, RowType, JobType DEF Job
  <2>4. /\ xp' = {new} /\ granted' = granted + task[t].n /\ behind' = (behind \/ Overtaken)
        /\ UNCHANGED <<earned, withheld, raced>>
    BY <1>2 DEF IncrementXp
  <2> HIDE DEF job, new
  <2>5. /\ task'[t] = job /\ \A u \in Tasks \ {t} : task'[u] = task[u]
        /\ UNCHANGED user /\ RowsOK' /\ WorldOK' /\ TasksOK'
    BY <1>0, <2>2, <2>3, HistoryStays, XpTurn
  <2>r. Row' = new
    BY <2>4 DEF Row
  <2>6. XpOK'
    <3>1. (behind \/ Overtaken) \in BOOLEAN
      OBVIOUS
    <3>2. user'.id # 0
      BY <1>2, <2>5 DEF Exists
    <3> QED BY <1>0, <2>n, <2>4, <3>1, <3>2 DEF Types, XpOK
  <2>7. TotalAccounted'
    BY <1>0, <2>n, <2>4, <2>r DEF IInv, TotalAccounted, Types, XpOK
  <2>8. SumInHand'
    <3> SUFFICES ASSUME NEW u \in Tasks, task'[u].pc \in {"comparing", "rewriting"},
                        Exists(task[u].id)', ~raced'
                 PROVE  task'[u].n = earned'
      BY DEF SumInHand
    <3>1. task'[u] = task[u]
      BY <2>2, <2>5
    <3> QED BY <2>4, <2>5, <3>1 DEF IInv, SumInHand, Exists
  <2>9. LevelInHand'
    <3> SUFFICES ASSUME ~behind', NEW u \in Tasks, task'[u].pc = "levelling" PROVE FALSE
      BY DEF LevelInHand
    <3>1. task'[u] = task[u]
      BY <2>2, <2>5
    <3> QED BY <2>4, <3>1 DEF Overtaken
  <2>10. LevelOwed'
    <3>1. t \in Levelling' /\ Exists(task[t].id)'
      BY <1>2, <2>2, <2>5 DEF Levelling, Exists
    <3> QED BY <3>1 DEF LevelOwed
  <2>11. LevelsTyped'
    BY <2>2, <2>5 DEF IInv, LevelsTyped
  <2> QED BY <2>5, <2>6, <2>7, <2>8, <2>9, <2>10, <2>11 DEF IInv, Types
<1> QED BY <1>1, <1>2

\* Steps that only move the job on: the award's, the reading's, the sum's, the
\* comparison's.
LEMMA MoveOnKeeps ==
  ASSUME IInv, NEW t \in Tasks, NEW job, Fine(job), Step(t, job), UNCHANGED history,
         UNCHANGED accountVars, UNCHANGED xpVars,
         (job.pc \in {"comparing", "rewriting"} /\ Exists(job.id) /\ ~raced) => job.n = earned,
         (job.pc = "levelling" /\ Exists(job.id) /\ ~behind) =>
           \A row \in xp : job.n = CalculateLevel(row.total),
         job.pc = "levelling" => job.n \in 1..LevelCap,
         task[t].pc \in LevelPcs => job.pc \in LevelPcs /\ job.id = task[t].id
  PROVE  IInv'
<1>1. Types
  BY DEF IInv
<1>2. /\ task'[t] = job /\ \A u \in Tasks \ {t} : task'[u] = task[u]
      /\ UNCHANGED user /\ RowsOK' /\ WorldOK' /\ TasksOK'
  BY <1>1, HistoryStays, XpTurn
<1>3. Types'
  BY <1>1, <1>2, SameXp DEF Types
<1> QED BY <1>2, <1>3, HeldKeeps

LEMMA MovingKeeps ==
  ASSUME IInv, NEW t \in Tasks,
         AwardAdminEventXp(t) \/ ReadXp(t) \/ SumEvents(t) \/ CompareTotal(t)
  PROVE  IInv'
<1>0. Types /\ UNCHANGED accountVars /\ UNCHANGED xpVars /\ task[t] \in Job
  BY JobType DEF IInv, AwardAdminEventXp, ReadXp, SumEvents, CompareTotal
<1>1. CASE AwardAdminEventXp(t)
  <2>1. CASE ~Exists(task[t].id)
    BY <1>0, <1>1, <2>1, OverKeeps DEF AwardAdminEventXp
  <2>2. CASE Exists(task[t].id)
    <3> DEFINE job == [task[t] EXCEPT !.pc = "reading"]
    <3>1. "reading" \in Steps /\ "reading" \notin Naming /\ "reading" \in LevelPcs
          /\ "reading" \notin {"comparing", "rewriting", "levelling"}
      BY DEF Steps, Naming, LevelPcs
    <3>2. job \in Job /\ job.pc = "reading" /\ job.id = task[t].id
      BY <1>0, <3>1 DEF Job
    <3>3. Step(t, job) /\ UNCHANGED history
      BY <1>1, <2>2 DEF AwardAdminEventXp, Goto
    <3> HIDE DEF job
    <3>4. Fine(job)
      BY <3>1, <3>2 DEF Fine
    <3> QED BY <1>0, <3>1, <3>2, <3>3, <3>4, MoveOnKeeps
  <2> QED BY <2>1, <2>2
<1>2. CASE ReadXp(t)
  <2>1. CASE ~Exists(task[t].id) \/ xp = {}
    BY <1>0, <1>2, <2>1, OverKeeps DEF ReadXp
  <2>2. CASE Exists(task[t].id) /\ xp # {} /\ LevelToWrite = Row.level
    <3>1. \A row \in xp : row.level = CalculateLevel(row.total)
      BY <1>0, <2>2, RowType DEF LevelToWrite
    <3> QED BY <1>0, <1>2, <2>2, <3>1, OverKeeps DEF ReadXp
  <2>3. CASE Exists(task[t].id) /\ xp # {} /\ LevelToWrite # Row.level
    <3> DEFINE job == [task[t] EXCEPT !.pc = "levelling", !.n = LevelToWrite]
    <3>1. "levelling" \in Steps /\ "levelling" \notin Naming /\ "levelling" \in LevelPcs
          /\ "levelling" \notin {"comparing", "rewriting"}
      BY DEF Steps, Naming, LevelPcs
    <3>2. LevelToWrite \in 1..LevelCap
      BY <1>0, RowType, LevelType DEF LevelToWrite
    <3>7. LevelToWrite \in Int
      BY <3>2, LevelAssumption
    <3>3. job \in Job /\ job.pc = "levelling" /\ job.id = task[t].id /\ job.n = LevelToWrite
      BY <1>0, <3>1, <3>7 DEF Job
    <3>4. Step(t, job) /\ UNCHANGED history
      BY <1>2, <2>3 DEF ReadXp
    <3> HIDE DEF job
    <3>5. Fine(job)
      BY <3>1, <3>3 DEF Fine
    <3>6. \A row \in xp : job.n = CalculateLevel(row.total)
      BY <1>0, <2>3, <3>3, RowType DEF LevelToWrite
    <3> QED BY <1>0, <3>1, <3>2, <3>3, <3>4, <3>5, <3>6, MoveOnKeeps
  <2> QED BY <2>1, <2>2, <2>3
<1>3. CASE SumEvents(t)
  <2> DEFINE n == IF Exists(task[t].id) THEN earned ELSE 0
             job == [task[t] EXCEPT !.pc = "comparing", !.n = n]
  <2>1. "comparing" \in Steps /\ "comparing" \notin Naming /\ "comparing" # "levelling"
        /\ task[t].pc \notin LevelPcs
    BY <1>3 DEF Steps, Naming, LevelPcs, SumEvents
  <2>2. n \in Int
    BY <1>0 DEF Types, XpOK
  <2>4. Step(t, job) /\ UNCHANGED history
    BY <1>3 DEF SumEvents
  <2>5. Exists(task[t].id) => n = earned
    OBVIOUS
  <2> HIDE DEF n
  <2>3. job \in Job /\ job.pc = "comparing" /\ job.id = task[t].id /\ job.n = n
    BY <1>0, <2>1, <2>2 DEF Job
  <2> HIDE DEF job
  <2>6. Fine(job)
    BY <2>1, <2>3 DEF Fine
  <2> QED BY <1>0, <2>1, <2>3, <2>4, <2>5, <2>6, MoveOnKeeps
<1>4. CASE CompareTotal(t)
  <2>1. task[t].pc = "comparing"
    BY <1>4 DEF CompareTotal
  <2>2. CASE Finish(t)
    BY <1>0, <1>4, <2>1, <2>2, OverKeeps DEF CompareTotal, LevelPcs
  <2>3. CASE Goto(t, "rewriting")
    <3> DEFINE job == [task[t] EXCEPT !.pc = "rewriting"]
    <3>1. "rewriting" \in Steps /\ "rewriting" \notin Naming /\ "rewriting" # "levelling"
          /\ task[t].pc \notin LevelPcs
      BY <2>1 DEF Steps, Naming, LevelPcs
    <3>2. job \in Job /\ job.pc = "rewriting" /\ job.id = task[t].id /\ job.n = task[t].n
      BY <1>0, <3>1 DEF Job
    <3>3. Step(t, job) /\ UNCHANGED history
      BY <1>4, <2>3 DEF CompareTotal, Goto
    <3> HIDE DEF job
    <3>4. Fine(job)
      BY <3>1, <3>2 DEF Fine
    <3>5. (Exists(job.id) /\ ~raced) => job.n = earned
      BY <2>1, <3>2 DEF IInv, SumInHand
    <3> QED BY <1>0, <3>1, <3>2, <3>3, <3>4, <3>5, MoveOnKeeps
  <2> QED BY <1>4, <2>2, <2>3 DEF CompareTotal
<1> QED BY <1>1, <1>2, <1>3, <1>4
\* The level written is the one of the total, unless its task was overtaken.
LEMMA UpdateKeeps ==
  ASSUME IInv, NEW t \in Tasks, UpdateLevel(t)
  PROVE  IInv'
<1>0. /\ Types /\ task[t] \in Job /\ task[t].pc = "levelling" /\ UNCHANGED accountVars
      /\ UNCHANGED <<earned, granted, withheld, raced, behind>> /\ UNCHANGED history
  BY JobType DEF IInv, UpdateLevel, excuses
<1>1. CASE ~Exists(task[t].id)
  <2>1. UNCHANGED xpVars
    BY <1>0, <1>1 DEF UpdateLevel, xpVars, excuses
  <2> QED BY <1>0, <1>1, <2>1, OverKeeps DEF UpdateLevel
<1>2. CASE Exists(task[t].id)
  <2> DEFINE n == task[t].n
  <2>1. Step(t, Idle) /\ Fine(Idle) /\ Idle.pc = "idle"
    BY <1>0, IdleJob DEF UpdateLevel, Finish
  <2>2. /\ task'[t] = Idle /\ \A u \in Tasks \ {t} : task'[u] = task[u]
        /\ UNCHANGED user /\ RowsOK' /\ WorldOK' /\ TasksOK'
    BY <1>0, <2>1, HistoryStays, XpTurn
  <2>3. CASE xp = {}
    <3>1. UNCHANGED xpVars
      BY <1>0, <1>2, <2>3 DEF UpdateLevel, xpVars, excuses
    <3> QED BY <1>0, <2>3, <3>1, OverKeeps DEF UpdateLevel
  <2>4. CASE xp # {}
    <3> DEFINE new == [Row EXCEPT !.level = n]
    <3>1. xp = {Row} /\ Row \in [total : Int, level : 1..LevelCap]
      BY <1>0, <2>4, RowType
    <3>2. n \in 1..LevelCap
      BY <1>0 DEF IInv, LevelsTyped
    <3>3. xp' = {new}
      <4>1. xp' = {[row EXCEPT !.level = n] : row \in {Row}}
        BY <1>2, <3>1 DEF UpdateLevel
      <4> QED BY <4>1
    <3> HIDE DEF n
    <3>4. new \in [total : Int, level : 1..LevelCap] /\ new.total = Row.total /\ new.level = n
      BY <3>1, <3>2
    <3> HIDE DEF new
    <3>5. Row' = new
      BY <3>3 DEF Row
    <3>6. ~behind => n = CalculateLevel(Row.total)
      BY <1>0, <1>2, <3>1 DEF IInv, LevelInHand, n
    <3>7. XpOK'
      <4>1. user'.id # 0
        BY <1>2, <2>2 DEF Exists
      <4> QED BY <1>0, <3>3, <3>4, <4>1 DEF Types, XpOK
    <3>8. TotalAccounted'
      BY <1>0, <3>4, <3>5 DEF IInv, TotalAccounted
    <3>9. SumInHand'
      <4> SUFFICES ASSUME NEW u \in Tasks, task'[u].pc \in {"comparing", "rewriting"},
                          Exists(task[u].id)', ~raced'
                   PROVE  task'[u].n = earned'
        BY DEF SumInHand
      <4>1. task'[u] = task[u]
        BY <2>1, <2>2
      <4> QED BY <1>0, <2>2, <4>1 DEF IInv, SumInHand, Exists
    <3>10. LevelInHand'
      <4> SUFFICES ASSUME ~behind', NEW u \in Tasks, task'[u].pc = "levelling",
                          Exists(task[u].id)'
                   PROVE  task'[u].n = CalculateLevel(new.total)
        BY <3>3 DEF LevelInHand
      <4>1. task'[u] = task[u] /\ Exists(task[u].id)
        BY <2>1, <2>2 DEF Exists
      <4>2. task[u].n = CalculateLevel(Row.total)
        BY <1>0, <3>1, <4>1 DEF IInv, LevelInHand
      <4> QED BY <3>4, <4>1, <4>2
    <3>11. LevelOwed'
      BY <1>0, <3>3, <3>4, <3>6 DEF LevelOwed
    <3>12. LevelsTyped'
      BY <2>1, <2>2 DEF IInv, LevelsTyped
    <3> QED BY <2>2, <3>7, <3>8, <3>9, <3>10, <3>11, <3>12 DEF IInv, Types
  <2> QED BY <2>3, <2>4
<1> QED BY <1>1, <1>2
\* A recalculation writes the sum it has in hand, which nothing else accounts for.
LEMMA RewriteKeeps ==
  ASSUME IInv, NEW t \in Tasks, RewriteXp(t)
  PROVE  IInv'
<1>0. /\ Types /\ task[t] \in Job /\ task[t].pc = "rewriting" /\ UNCHANGED accountVars
      /\ UNCHANGED <<earned, raced, history>> /\ Step(t, Idle) /\ Fine(Idle) /\ Idle.pc = "idle"
  BY JobType, IdleJob DEF IInv, RewriteXp, Finish
<1>1. CASE ~(Exists(task[t].id) /\ xp # {})
  <2>1. UNCHANGED xpVars
    BY <1>0, <1>1 DEF RewriteXp, xpVars, excuses
  <2> QED BY <1>0, <2>1, OverKeeps DEF RewriteXp, LevelPcs
<1>2. CASE Exists(task[t].id) /\ xp # {}
  <2> DEFINE n == task[t].n
             new == [total |-> n, level |-> CalculateLevel(n)]
  <2>1. /\ task'[t] = Idle /\ \A u \in Tasks \ {t} : task'[u] = task[u]
        /\ UNCHANGED user /\ RowsOK' /\ WorldOK' /\ TasksOK'
    BY <1>0, HistoryStays, XpTurn
  <2>2. xp = {Row} /\ n \in Int
    BY <1>0, <1>2, RowType DEF Job
  <2>3. xp' = {new} /\ granted' = 0 /\ withheld' = 0 /\ behind' = Overtaken
    <3>1. xp' = {[total |-> n, level |-> CalculateLevel(n)] : row \in {Row}}
      BY <1>2, <2>2 DEF RewriteXp, Recalculated
    <3>2. xp' = {new}
      BY <3>1
    <3> QED BY <1>2, <3>2 DEF RewriteXp
  <2>4. ~raced => n = earned
    BY <1>0, <1>2 DEF IInv, SumInHand
  <2> HIDE DEF n
  <2>5. new \in [total : Int, level : 1..LevelCap] /\ new.total = n /\ new.level = CalculateLevel(n)
    BY <2>2, LevelType
  <2> HIDE DEF new
  <2>6. Row' = new
    BY <2>3 DEF Row
  <2>7. XpOK'
    <3>1. user'.id # 0
      BY <1>2, <2>1 DEF Exists
    <3>2. Overtaken \in BOOLEAN
      BY DEF Overtaken
    <3> QED BY <1>0, <2>3, <2>5, <3>1, <3>2 DEF Types, XpOK
  <2>8. TotalAccounted'
    BY <1>0, <2>2, <2>3, <2>4, <2>5, <2>6 DEF TotalAccounted
  <2>9. SumInHand'
    <3> SUFFICES ASSUME NEW u \in Tasks, task'[u].pc \in {"comparing", "rewriting"},
                        Exists(task[u].id)', ~raced'
                 PROVE  task'[u].n = earned'
      BY DEF SumInHand
    <3>1. task'[u] = task[u]
      BY <1>0, <2>1
    <3> QED BY <1>0, <2>1, <3>1 DEF IInv, SumInHand, Exists
  <2>10. LevelInHand'
    <3> SUFFICES ASSUME ~behind', NEW u \in Tasks, task'[u].pc = "levelling" PROVE FALSE
      BY DEF LevelInHand
    <3>1. task'[u] = task[u]
      BY <1>0, <2>1
    <3> QED BY <2>3, <3>1 DEF Overtaken
  <2>11. LevelOwed'
    BY <2>3, <2>5 DEF LevelOwed
  <2>12. LevelsTyped'
    BY <1>0, <2>1 DEF IInv, LevelsTyped
  <2> QED BY <2>1, <2>7, <2>8, <2>9, <2>10, <2>11, <2>12 DEF IInv, Types
<1> QED BY <1>1, <1>2
-----------------------------------------------------------------------------
(* The account commands as they meet the XP tables *)

\* With the tables empty everything is accounted for, unless a recalculation
\* still has a sum of what was wiped.
LEMMA EmptyKeeps ==
  ASSUME IInv, Types', NoXp, AsideKept,
         \A u \in Tasks : (task'[u].pc \in {"comparing", "rewriting"} /\ Exists(task[u].id)') => raced'
  PROVE  IInv'
<1>1. earned' = 0 /\ xp' = {} /\ granted' = 0 /\ withheld' = 0
  BY DEF NoXp
<1>2. TotalAccounted'
  BY <1>1 DEF TotalAccounted, Row
<1>3. SumInHand'
  BY DEF SumInHand
<1>4. LevelInHand' /\ LevelOwed'
  BY <1>1 DEF LevelInHand, LevelOwed
<1>5. LevelsTyped'
  BY DEF IInv, LevelsTyped, AsideKept, Held, LevelPcs
<1> QED BY <1>2, <1>3, <1>4, <1>5 DEF IInv

LEMMA WipeKeeps ==
  ASSUME IInv, NEW t \in Tasks, Wipe(t)
  PROVE  IInv'
<1>0. /\ Types /\ task[t].pc = "wiping" /\ task[t] \in Job /\ Fine(task[t])
      /\ UNCHANGED <<user, lastId, role, present, notices>> /\ Idle.pc = "idle" /\ Fine(Idle)
  BY JobType, IdleJob DEF IInv, Wipe, WipeUserStats
<1>1. CASE GiveUp(t) /\ UNCHANGED baseline
  <2>1. task'[t].pc = "idle"
    BY <1>0, <1>1 DEF GiveUp, Finish, Step, Types, TasksOK
  <2>2. UNCHANGED accountVars /\ UNCHANGED xpVars
    BY <1>0, <1>1, <2>1 DEF Wipe, accountVars
  <2> QED BY <1>0, <1>1, <2>2, OverKeeps DEF LevelPcs
<1>2. CASE baseline' = NoStats /\ Goto(t, "reactivating") /\ UNCHANGED history
  <2> DEFINE job == [task[t] EXCEPT !.pc = "reactivating"]
  <2>1. Fine(job) /\ job.pc = "reactivating"
    <3>1. "reactivating" \in Steps /\ task[t].mc \in Minecraft
      BY <1>0 DEF Steps, Changing, Fine, Naming
    <3>2. job \in Job /\ job.pc = "reactivating" /\ job.mc = task[t].mc
      BY <1>0, <3>1 DEF Job
    <3> QED BY <3>1, <3>2 DEF Fine
  <2>2. task' = [task EXCEPT ![t] = job] /\ UNCHANGED bounds
    BY <1>2 DEF Goto, Step
  <2> HIDE DEF job
  <2>3. task'[t] = job /\ \A u \in Tasks \ {t} : task'[u] = task[u]
    BY <1>0, <2>2 DEF Types, TasksOK
  <2>4. NoXp /\ raced' = Recalculating
    BY <2>1, <2>3 DEF Wipe
  <2>5. NoStats \in [Stats -> Minecraft \cup {Nobody}]
    BY DEF NoStats
  <2>6. RowsOK'
    BY <1>0, <1>2, <2>5 DEF Types, RowsOK
  <2>7. WorldOK'
    BY <1>0, <1>2, <2>2 DEF Types, WorldOK, bounds
  <2>8. TasksOK'
    <3>1. Job' = Job
      BY <1>0 DEF Job
    <3> QED BY <1>0, <2>1, <2>2, <3>1 DEF Types, TasksOK, Fine
  <2>9. XpOK'
    <3>1. Recalculating \in BOOLEAN
      BY DEF Recalculating
    <3>2. earned' \in Int /\ granted' \in Int /\ withheld' \in Int /\ xp' = {} /\ earned' = 0
          /\ behind' = FALSE
      BY <2>4 DEF NoXp
    <3> QED BY <2>4, <3>1, <3>2, Zenon DEF XpOK
  <2>10. AsideKept
    BY <1>0, <2>1, <2>3 DEF AsideKept, LevelPcs, Held
  <2>11. ASSUME NEW u \in Tasks, task'[u].pc \in {"comparing", "rewriting"} PROVE raced'
    <3>1. task'[u] = task[u]
      BY <2>1, <2>3, <2>11
    <3> QED BY <2>4, <2>11, <3>1 DEF Recalculating
  <2> QED BY <2>4, <2>6, <2>7, <2>8, <2>9, <2>10, <2>11, EmptyKeeps DEF Types
<1> QED BY <1>1, <1>2 DEF Wipe, WipeUserStats

LEMMA DeleteKeeps ==
  ASSUME IInv, NEW t \in Tasks, Delete(t)
  PROVE  IInv'
<1> DEFINE job == [Idle EXCEPT !.pc = "unroling"]
<1>0. /\ Types /\ task[t].pc = "deleting" /\ UNCHANGED <<lastId, role, present, notices, history>>
      /\ Step(t, job)
  BY DEF IInv, Delete, DeleteUser
<1>1. Fine(job) /\ job.pc = "unroling"
  <2>1. "unroling" \in Steps /\ "unroling" \notin Naming
    BY DEF Steps, Changing, Naming
  <2>2. job \in Job /\ job.pc = "unroling"
    BY <1>0, <2>1, IdleJob DEF Fine, Job
  <2> QED BY <2>1, <2>2 DEF Fine
<1> HIDE DEF job
<1>2. task' = [task EXCEPT ![t] = job] /\ UNCHANGED bounds
  BY <1>0 DEF Step
<1>3. task'[t] = job /\ \A u \in Tasks \ {t} : task'[u] = task[u]
  BY <1>0, <1>2 DEF Types, TasksOK
<1>4. AsideKept
  BY <1>0, <1>1, <1>3 DEF AsideKept, LevelPcs, Held
<1>5. WorldOK'
  BY <1>0, <1>2 DEF Types, WorldOK, bounds
<1>6. TasksOK'
  <2>1. Job' = Job
    BY <1>0 DEF Job
  <2> QED BY <1>0, <1>1, <1>2, <2>1 DEF Types, TasksOK, Fine
<1>7. CASE Exists(task[t].id)
  <2>1. user' = NoUser /\ baseline' = NoStats /\ user.id # 0
    BY <1>7 DEF Delete, DeleteUser, Exists
  <2>2. user'.id = 0
    BY <2>1 DEF NoUser
  <2>3. NoXp /\ raced' = FALSE
    BY <2>1, <2>2 DEF Delete
  <2>4. NoStats \in [Stats -> Minecraft \cup {Nobody}]
    BY DEF NoStats
  <2>5. RowsOK'
    BY <1>0, <2>1, <2>4 DEF Types, RowsOK
  <2>6. XpOK'
    <3>1. earned' \in Int /\ granted' \in Int /\ withheld' \in Int /\ xp' = {} /\ earned' = 0
          /\ behind' = FALSE
      BY <2>3 DEF NoXp
    <3> QED BY <2>3, <3>1, Zenon DEF XpOK
  <2>7. \A u \in Tasks : ~Exists(task[u].id)'
    BY <2>2 DEF Exists
  <2> QED BY <1>4, <1>5, <1>6, <2>3, <2>5, <2>6, <2>7, EmptyKeeps DEF Types
<1>8. CASE ~Exists(task[t].id)
  <2>1. UNCHANGED <<user, baseline>> /\ UNCHANGED xpVars
    BY <1>8 DEF Delete, DeleteUser
  <2>2. RowsOK' /\ RowKept
    BY <1>0, <2>1 DEF Types, RowsOK, RowKept
  <2>3. XpOK'
    BY <1>0, <2>1, SameXp
  <2> QED BY <1>4, <1>5, <1>6, <2>1, <2>2, <2>3, AsideKeeps DEF Types
<1> QED BY <1>7, <1>8
-----------------------------------------------------------------------------
(* The other steps *)

LEMMA FailuresKeep ==
  ASSUME IInv, \/ \E t \in Tasks : Fail(t) /\ CutShort({t})
               \/ Restart /\ CutShort(Tasks)
  PROVE  IInv'
<1>0. Types /\ UNCHANGED <<user, lastId, baseline, role, present>> /\ notices' \subseteq notices
      /\ disturbances' = disturbances + 1 /\ disturbances < MaxDisturbances /\ UNCHANGED jobs
  BY DEF IInv, Fail, Restart, Disturb, accountVars
<1>1. PICK S \in SUBSET Tasks :
        CutShort(S) /\ task' = [u \in Tasks |-> IF u \in S THEN Idle ELSE task[u]]
  <2>1. CASE \E t \in Tasks : Fail(t) /\ CutShort({t})
    <3>1. PICK t \in Tasks : Fail(t) /\ CutShort({t})
      BY <2>1
    <3>2. task' = [u \in Tasks |-> IF u \in {t} THEN Idle ELSE task[u]]
      BY <1>0, <3>1 DEF Fail, Types, TasksOK
    <3> QED BY <3>1, <3>2
  <2>2. CASE Restart /\ CutShort(Tasks)
    BY <2>2 DEF Restart
  <2> QED BY <2>1, <2>2
<1>2. history' \in [DOMAIN NoHistory -> BOOLEAN]
  <2>1. CASE \E t \in Tasks : Fail(t)
    BY <1>0, <2>1, HistoryStays DEF Fail
  <2>2. CASE Restart
    <3> DEFINE h == [history EXCEPT !["failed"] = TRUE]
    <3>1. h \in [Flags -> BOOLEAN]
      BY <1>0, HistoryType, FlagsOf DEF Flags
    <3>2. (history.missed \/ notices # {}) \in BOOLEAN
      OBVIOUS
    <3>3. history' = [h EXCEPT !["missed"] = history.missed \/ notices # {}]
      BY <2>2 DEF Restart
    <3> HIDE DEF h
    <3> QED BY <3>1, <3>2, <3>3, FlagsOf DEF Flags
  <2> QED BY <2>1, <2>2
<1>3. RowsOK' /\ Job' = Job
  BY <1>0 DEF Types, RowsOK, Job
<1>4. WorldOK'
  BY <1>0, <1>2, BoundsAssumption DEF Types, WorldOK
<1>5. TasksOK'
  BY <1>0, <1>1, <1>3, IdleJob DEF Types, TasksOK, Fine
<1>6. XpOK'
  <2>1. (behind \/ S \cap Levelling # {}) \in BOOLEAN
    OBVIOUS
  <2>2. behind' \in BOOLEAN /\ UNCHANGED <<earned, xp, granted, withheld, raced>>
    BY <1>1, <2>1 DEF CutShort, excuses
  <2> QED BY <1>0, <2>2 DEF Types, XpOK
<1> QED BY <1>0, <1>1, <1>3, <1>4, <1>5, <1>6, CutKeeps DEF Types

\* What happens to the member alone takes nothing in hand.
LEMMA MemberKeeps ==
  ASSUME IInv, Leave \/ Rejoin \/ HandleLeft, UNCHANGED xpVars
  PROVE  IInv'
<1>0. Types /\ UNCHANGED <<lastId, baseline, task>>
  BY DEF IInv, Leave, Rejoin, HandleLeft
<1>1. RowsOK' /\ RowKept
  <2>1. CASE UNCHANGED user
    BY <1>0, <2>1 DEF Types, RowsOK, RowKept
  <2>2. CASE user.id # 0 /\ user' = [user EXCEPT !.active = FALSE]
    <3>1. user \in [id : {lastId}, active : BOOLEAN, mc : Minecraft]
      BY <1>0, <2>2, UserType DEF Types, RowsOK
    <3>2. user' \in [id : {lastId}, active : BOOLEAN, mc : Minecraft] /\ user'.id = user.id
      BY <2>2, <3>1
    <3> QED BY <1>0, <2>2, <3>2, UserType DEF Types, RowsOK, RowKept
  <2> QED BY <2>1, <2>2 DEF Leave, Rejoin, HandleLeft, SetActive
<1>2. history' \in [DOMAIN NoHistory -> BOOLEAN]
  <2>0. history \in [Flags -> BOOLEAN]
    BY <1>0, HistoryStays, FlagsOf
  <2>1. ASSUME NEW missed \in BOOLEAN, NEW tangled \in BOOLEAN
        PROVE  [history EXCEPT !.missed = missed, !.tangled = tangled] \in [Flags -> BOOLEAN]
    <3> DEFINE h == [history EXCEPT !["missed"] = missed]
    <3>1. h \in [Flags -> BOOLEAN]
      BY <2>0 DEF Flags
    <3>2. [h EXCEPT !["tangled"] = tangled] \in [Flags -> BOOLEAN]
      BY <3>1 DEF Flags
    <3> QED BY <3>2
  <2>2. CASE Leave
    <3>1. PICK heard \in BOOLEAN :
            history' = [history EXCEPT !.missed = history.missed \/ ~heard,
                                       !.tangled = history.tangled \/ SomeChanging]
      BY <2>2 DEF Leave
    <3>2. (history.missed \/ ~heard) \in BOOLEAN /\ (history.tangled \/ SomeChanging) \in BOOLEAN
      OBVIOUS
    <3> QED BY <2>1, <3>1, <3>2, FlagsOf
  <2>3. CASE Rejoin
    BY <2>0, <2>3, FlagsOf DEF Rejoin
  <2>4. CASE HandleLeft
    <3>1. PICK done \in BOOLEAN :
            history' = [history EXCEPT !.missed = history.missed \/ present \/ ~done,
                                       !.tangled = history.tangled \/ SomeChanging]
      BY <2>4 DEF HandleLeft
    <3>2. /\ (history.missed \/ present \/ ~done) \in BOOLEAN
          /\ (history.tangled \/ SomeChanging) \in BOOLEAN
      OBVIOUS
    <3> QED BY <2>1, <3>1, <3>2, FlagsOf
  <2> QED BY <2>2, <2>3, <2>4
<1>3. WorldOK'
  <2>1. role' \in BOOLEAN /\ present' \in BOOLEAN /\ notices' \subseteq {"left", "joined"}
    BY <1>0 DEF Types, WorldOK, Leave, Rejoin, HandleLeft
  <2>2. jobs' \in 0..MaxJobs /\ disturbances' \in 0..MaxDisturbances
    <3>1. jobs' = jobs /\ (disturbances' = disturbances
                            \/ (disturbances < MaxDisturbances
                                /\ disturbances' = disturbances + 1))
      <4>1. CASE Leave
        BY <4>1 DEF Leave, Disturb
      <4>2. CASE Rejoin \/ HandleLeft
        <5>1. bounds' = bounds
          BY <4>2 DEF Rejoin, HandleLeft
        <5> QED BY <5>1 DEF bounds
      <4> QED BY <4>1, <4>2
    <3> QED BY <1>0, <3>1, BoundsAssumption DEF Types, WorldOK
  <2> QED BY <1>2, <2>1, <2>2 DEF WorldOK
<1>4. TasksOK'
  BY <1>0 DEF Types, TasksOK, Fine, Job
<1>5. XpOK'
  BY <1>0, <1>1 DEF Types, XpOK, RowKept, xpVars, excuses
<1>6. AsideKept
  BY <1>0 DEF AsideKept
<1> QED BY <1>1, <1>3, <1>4, <1>5, <1>6, AsideKeeps DEF Types

LEMMA AccountStepsKeep ==
  ASSUME IInv, NEW t \in Tasks, AccountStep(t), UNCHANGED xpVars
  PROVE  IInv'
<1>1. Types /\ AccountFrame(t) /\ task[t].pc \in AccountPcs
  BY AccountStepFrame DEF IInv
<1>2. RowsOK' /\ WorldOK' /\ TasksOK' /\ RowKept
  BY <1>1, TurnType DEF AccountFrame
<1>3. XpOK'
  BY <1>1, <1>2 DEF Types, XpOK, RowKept, RowsOK, xpVars, excuses
<1>4. AsideKept
  <2>1. PICK job : job.pc \in AccountPcs /\ task' = [task EXCEPT ![t] = job]
    BY <1>1 DEF AccountFrame, Turn
  <2>2. task'[t] = job /\ \A u \in Tasks \ {t} : task'[u] = task[u]
    BY <1>1, <2>1 DEF Types, TasksOK
  <2> QED BY <1>1, <2>1, <2>2, HeldPcs DEF AsideKept, Held
<1> QED BY <1>2, <1>3, <1>4, AsideKeeps DEF Types

LEMMA InitHolds ==
  ASSUME Init PROVE IInv
<1>1. RowsOK
  BY DEF Init, AccountsInit, RowsOK, NoUser, NoStats
<1>2. WorldOK
  <2>1. history \in [DOMAIN NoHistory -> BOOLEAN]
    <3>2. \A f \in DOMAIN NoHistory : NoHistory[f] \in BOOLEAN
      <4>1. DOMAIN NoHistory = Flags
        BY DEF NoHistory, Flags
      <4>2. /\ NoHistory["tangled"] = FALSE /\ NoHistory["failed"] = FALSE
            /\ NoHistory["missed"] = FALSE /\ NoHistory["forced"] = FALSE
            /\ NoHistory["reseeded"] = FALSE /\ NoHistory["foreign"] = FALSE
        BY DEF NoHistory
      <4> HIDE DEF NoHistory
      <4> QED BY <4>1, <4>2 DEF Flags
    <3>3. NoHistory = [f \in DOMAIN NoHistory |-> NoHistory[f]]
      BY DEF NoHistory
    <3>4. history = NoHistory
      BY DEF Init, AccountsInit
    <3> HIDE DEF NoHistory
    <3> QED BY <3>2, <3>3, <3>4
  <2>2. jobs \in 0..MaxJobs /\ disturbances \in 0..MaxDisturbances
    BY BoundsAssumption DEF Init, AccountsInit
  <2> QED BY <2>1, <2>2 DEF Init, AccountsInit, WorldOK
<1>3. TasksOK
  <2>1. Fine(Idle)
    BY <1>1 DEF Fine, Idle, Job, Steps, Naming, RowsOK
  <2> QED BY <2>1 DEF Init, AccountsInit, TasksOK, Fine
<1>4. XpOK
  <2>1. earned \in Int /\ granted \in Int /\ withheld \in Int /\ xp = {} /\ earned = 0
        /\ raced = FALSE /\ behind = FALSE
    BY DEF Init
  <2> QED BY <2>1, Zenon DEF XpOK
<1>5. \A t \in Tasks : task[t].pc = "idle"
  BY DEF Init, AccountsInit, Idle
<1>6. TotalAccounted /\ SumInHand /\ LevelInHand /\ LevelOwed /\ LevelsTyped
  BY <1>5 DEF Init, TotalAccounted, Row, SumInHand, LevelInHand, LevelOwed, LevelsTyped
<1> QED BY <1>1, <1>2, <1>3, <1>4, <1>6 DEF IInv, Types

LEMMA NextKeeps ==
  ASSUME IInv, [Next]_vars PROVE IInv'
<1>1. ASSUME NEW t \in Tasks, XpStep(t) PROVE IInv'
  BY <1>1, CommitKeeps, CommandsStart, IncrementKeeps, MovingKeeps, UpdateKeeps, RewriteKeeps,
     WipeKeeps, DeleteKeeps, FailuresKeep DEF XpStep
<1>2. CASE UNCHANGED vars
  <2>1. UNCHANGED <<user, lastId, baseline, role, present, notices, task, jobs, disturbances, history>>
        /\ UNCHANGED xpVars
    BY <1>2 DEF vars, accountVars, bounds
  <2>2. Types'
    BY <2>1 DEF IInv, Types, RowsOK, WorldOK, TasksOK, XpOK, Fine, Job, xpVars, excuses
  <2>3. AsideKept /\ RowKept
    BY <2>1 DEF AsideKept, RowKept
  <2> QED BY <2>1, <2>2, <2>3, AsideKeeps
<1> QED BY <1>1, <1>2, AccountStepsKeep, DiscordKeeps, MemberKeeps, FailuresKeep DEF Next

LEMMA InductiveInvariant == Spec => []IInv
BY InitHolds, NextKeeps, PTL DEF Spec

\* Whatever registrations, departures, XP commands and failures interleave, every
\* variable keeps its type, the row has the last id given, and nothing is stored
\* for a user who is gone: delete cascades, and late inserts are refused.
THEOREM AccountTypes == Spec => []TypeOK
<1>1. IInv => TypeOK
  BY TypesAreTypeOK DEF IInv
<1> QED BY <1>1, InductiveInvariant, PTL

\* The total of the xp row is what the rewards on record and /xp gave, less the
\* negative rewards no transaction applies, for any number of tasks, unless a
\* reward or a wipe came between the sum of /recalculate-xp and its UPDATE.
THEOREM TotalAlwaysAccounted == Spec => []TotalAccounted
<1>1. IInv => TotalAccounted
  BY DEF IInv
<1> QED BY <1>1, InductiveInvariant, PTL

\* Once no /xp command has a level left to write, the stored level is the one
\* calculate_level gives for the stored total, unless a command that owed it was
\* overtaken by another change of the total, or failed.
THEOREM LevelAlwaysOfTotal == Spec => []LevelOfTotal
<1>1. IInv => LevelOfTotal
  BY DEF IInv, LevelOfTotal, LevelOwed
<1> QED BY <1>1, InductiveInvariant, PTL
-----------------------------------------------------------------------------
(* The registration: what a task that works on it alone knows *)

\* No task changes the registration beside another that changes or uses it.
Alone ==
  \A t, u \in Tasks :
    (t # u /\ task[t].pc \in Changing) => task[u].pc \notin Changing \cup Using

\* What a task that works alone knows about the registration, from its job.
Knows(job) ==
  /\ job.pc \in {"checking", "forcing", "joining"} => ~job.again
  /\ job.pc = "joining" => ~user.active
  /\ job.pc \in {"wiping", "reactivating"} => job.again /\ user.id # 0 /\ ~user.active
  /\ (job.pc = "upserting" /\ ~job.again) => ~user.active
  /\ (job.pc = "upserting" /\ job.again) => user.active
  /\ (job.pc = "reactivating" \/ (job.pc = "upserting" /\ job.again)) =>
       user.mc = job.mc \/ baseline = NoStats
  /\ job.pc \in {"selecting", "roling"} => user.active /\ user.mc = job.mc
  /\ (job.pc = "selecting" /\ ~job.again /\ ~history.forced) => baseline = NoStats
  /\ (job.pc \in {"seeding", "recording"} /\ Exists(job.id)) => user.mc = job.mc
  /\ (job.pc = "seeding" /\ Exists(job.id) /\ ~history.forced) =>
       \A s \in job.todo : baseline[s] = Nobody
  /\ job.pc \in {"restoring", "rewarding"} => user.active
  /\ (job.pc = "fixing" /\ ~job.again /\ ~history.failed) => ~role

\* Who is absent has no role, and a role without an active registration is about to
\* be given one or taken away.
RoleOwed ==
  /\ role => present
  /\ (role /\ ~user.active /\ ~history.failed /\ ~history.missed) =>
       \E t \in Tasks : task[t].pc \in {"upserting", "unroling"}

\* What is stored is of the account the row is linked to.
OwnStats ==
  ~history.forced =>
    /\ \A s \in Stats : baseline[s] \in {Nobody, user.mc}
    /\ ~history.foreign /\ ~history.reseeded

Registration ==
  ~history.tangled => Alone /\ (\A t \in Tasks : Knows(task[t])) /\ RoleOwed /\ OwnStats

\* What Membership makes of a step.
Mirrored == [Member!Next]_(Member!mvars)
Kept == history'.tangled \/ (Registration' /\ Mirrored)

\* Once two of the commands have met, nothing is promised.
LEMMA OverlapMaps ==
  ASSUME history'.tangled
  PROVE  Mirrored
<1>1. Standing' = "unspecified"
  BY DEF Standing
<1> QED BY <1>1 DEF Mirrored, Member!Next, Member!Overlap

\* A step that leaves the rows alone changes nothing Membership sees.
LEMMA SameRowsMap ==
  ASSUME UNCHANGED <<user, baseline>>, history'.tangled = history.tangled
  PROVE  Mirrored
BY DEF Mirrored, Member!mvars, Standing, OnRecord

\* A step that writes a snapshot of the linked account, or none.
LEMMA RecordMaps ==
  ASSUME Types, ~history.tangled, ~history'.tangled, UNCHANGED user, user.id # 0, NEW s \in Stats,
         baseline' = [baseline EXCEPT ![s] = user.mc]
  PROVE  Mirrored
<1>1. Standing \in {"active", "inactive"} /\ Standing' = Standing
  BY DEF Standing
<1>2. user.mc \in Minecraft /\ user.mc # Nobody
  BY UserType, AccountsAssumption
<1>3. baseline' \in [Stats -> Minecraft \cup {Nobody}] /\ baseline'[s] = user.mc
      /\ \A r \in Stats : baseline'[r] \in {baseline[r], user.mc}
  BY <1>2 DEF Types, RowsOK
<1>4. user.mc \in OnRecord'
  BY <1>2, <1>3 DEF OnRecord
<1>5. OnRecord' \subseteq OnRecord \cup {user.mc}
  BY <1>3 DEF OnRecord
<1> QED BY <1>1, <1>4, <1>5 DEF Mirrored, Member!Next, Member!Record

LEMMA HistoryAfter ==
  ASSUME Types, NEW f \in Flags, NEW b \in BOOLEAN, history' = [history EXCEPT ![f] = b]
  PROVE  \A g \in Flags : history'[g] = IF g = f THEN b ELSE history[g]
BY FlagsOf DEF Types, WorldOK

\* What there is to know about a job that neither changes nor uses the registration.
LEMMA NothingToKnow ==
  ASSUME NEW job, job.pc \notin Changing \cup {"seeding", "recording"}
  PROVE  Knows(job) /\ Knows(job)'
BY DEF Knows, Changing

LEMMA OthersAsTheyWere ==
  ASSUME Types, NEW t \in Tasks, NEW job, task' = [task EXCEPT ![t] = job]
  PROVE  task'[t] = job /\ \A u \in Tasks \ {t} : task'[u] = task[u]
BY DEF Types, TasksOK

\* A task that works on the registration alone is free to change all of it.
LEMMA ChangerKeeps ==
  ASSUME Types, Registration, ~history.tangled, NEW t \in Tasks, task[t].pc \in Changing,
         NEW job, task' = [task EXCEPT ![t] = job], job.pc \in Changing \cup {"idle"},
         Knows(job)', RoleOwed', OwnStats'
  PROVE  Registration'
<1>1. task'[t] = job /\ \A u \in Tasks \ {t} : task'[u] = task[u]
  BY OthersAsTheyWere
<1>2. \A u \in Tasks \ {t} : task[u].pc \notin Changing \cup Using
  BY DEF Registration, Alone
<1>3. Alone'
  <2> SUFFICES ASSUME NEW a \in Tasks, NEW b \in Tasks, a # b, task'[a].pc \in Changing
               PROVE  task'[b].pc \notin Changing \cup Using
    BY DEF Alone
  <2>1. a = t
    BY <1>1, <1>2
  <2> QED BY <1>1, <1>2, <2>1
<1>4. ASSUME NEW u \in Tasks PROVE Knows(task[u])'
  <2>1. CASE u = t
    BY <1>1, <2>1 DEF Knows, Exists
  <2>2. CASE u # t
    <3>1. PICK other : other = task[u]
      OBVIOUS
    <3>2. other.pc \notin Changing \cup Using
      BY <1>2, <2>2, <3>1
    <3>3. Knows(other)'
      BY <3>2, NothingToKnow DEF Changing, Using
    <3>4. task'[u] = other
      BY <1>1, <2>2, <3>1
    <3> QED BY <3>3, <3>4 DEF Knows, Exists
  <2> QED BY <2>1, <2>2
<1> QED BY <1>3, <1>4 DEF Registration

\* The history only grows.
Grows == \A f \in Flags : history[f] => history'[f]

\* What a job knows stays true while the row, the role and, unless it is a
\* refresh's, the snapshots do.
LEMMA KnowsStill ==
  ASSUME NEW job, Knows(job), Grows, UNCHANGED <<user, role>>,
         UNCHANGED baseline \/ job.pc \notin Changing
  PROVE  Knows(job)'
<1>1. (history.forced => history'.forced) /\ (history.failed => history'.failed)
  BY DEF Grows, Flags
<1>2. CASE job.pc \notin Changing /\ job.pc # "recording"
  <2>1. job.pc \notin Changing \cup {"seeding", "recording"}
    BY <1>2 DEF Changing
  <2> QED BY <2>1, NothingToKnow
<1>3. CASE job.pc = "recording"
  BY <1>3 DEF Knows, Exists
<1>4. CASE UNCHANGED baseline
  BY <1>1, <1>4 DEF Knows, Exists
<1> QED BY <1>2, <1>3, <1>4 DEF Changing

\* A task that does not change the registration works beside those that do not,
\* or has no hand in it.
LEMMA BesideKeeps ==
  ASSUME Types, Registration, ~history.tangled, NEW t \in Tasks, task[t].pc \notin Changing,
         NEW job, task' = [task EXCEPT ![t] = job], job.pc \notin Changing,
         job.pc \in Using => task[t].pc \in Using, Knows(job)', Grows,
         UNCHANGED <<user, role, present>>, UNCHANGED baseline \/ task[t].pc \in Using, OwnStats'
  PROVE  Registration'
<1>1. task'[t] = job /\ \A u \in Tasks \ {t} : task'[u] = task[u]
  BY OthersAsTheyWere
<1>2. Alone
  BY DEF Registration
<1>3. Alone'
  <2> SUFFICES ASSUME NEW a \in Tasks, NEW b \in Tasks, a # b, task'[a].pc \in Changing
               PROVE  task'[b].pc \notin Changing \cup Using
    BY DEF Alone
  <2>1. a # t /\ task[a].pc \in Changing
    BY <1>1
  <2> QED BY <1>1, <1>2, <2>1 DEF Alone
<1>4. ASSUME NEW u \in Tasks PROVE Knows(task[u])'
  <2>1. CASE u = t
    BY <1>1, <2>1 DEF Knows, Exists
  <2>2. CASE u # t
    <3>1. PICK other : other = task[u]
      OBVIOUS
    <3>2. Knows(other)
      BY <3>1 DEF Registration
    <3>3. UNCHANGED baseline \/ other.pc \notin Changing
      BY <1>2, <2>2, <3>1 DEF Alone
    <3>4. Knows(other)'
      BY <3>2, <3>3, KnowsStill
    <3>5. task'[u] = other
      BY <1>1, <2>2, <3>1
    <3> QED BY <3>4, <3>5 DEF Knows, Exists
  <2> QED BY <2>1, <2>2
<1>5. RoleOwed'
  <2>1. RoleOwed
    BY DEF Registration
  <2>2. (history.missed => history'.missed) /\ (history.failed => history'.failed)
    BY DEF Grows, Flags
  <2>3. \A u \in Tasks : task[u].pc \in {"upserting", "unroling"} => task'[u] = task[u]
    BY <1>1 DEF Changing
  <2> QED BY <2>1, <2>2, <2>3 DEF RoleOwed
<1> QED BY <1>3, <1>4, <1>5 DEF Registration

\* A job that starts leaves everything to be known as it is, if it meets nobody.
LEMMA StartKeepsRegistration ==
  ASSUME Types, Registration, ~history.tangled, NEW t \in Tasks, task[t].pc = "idle", NEW job,
         task' = [task EXCEPT ![t] = job],
         history' = [history EXCEPT !["tangled"] = history.tangled \/ Meets(t, job.pc)],
         UNCHANGED <<user, baseline, role, present>>, Knows(job)
  PROVE  Kept
<1> SUFFICES ASSUME ~history'.tangled PROVE Registration' /\ Mirrored
  BY DEF Kept
<1>1. task'[t] = job /\ \A u \in Tasks \ {t} : task'[u] = task[u]
  BY OthersAsTheyWere
<1>m. ~Meets(t, job.pc)
  BY HistoryAfter DEF Flags
<1>g. Grows /\ \A f \in Flags : history'[f] = history[f]
  <2>2. history.tangled \in BOOLEAN
    BY FlagsOf DEF Types, WorldOK, Flags
  <2>3. (history.tangled \/ Meets(t, job.pc)) = history.tangled
    BY <1>m, <2>2
  <2>4. \A f \in Flags : history'[f] = history[f]
    BY <2>2, <2>3, HistoryAfter DEF Flags
  <2> QED BY <2>4 DEF Grows
<1>3. Alone'
  <2> SUFFICES ASSUME NEW a \in Tasks, NEW b \in Tasks, a # b, task'[a].pc \in Changing
               PROVE  task'[b].pc \notin Changing \cup Using
    BY DEF Alone
  <2>1. CASE a # t /\ b # t
    BY <1>1, <2>1 DEF Registration, Alone
  <2>2. CASE a = t \/ b = t
    BY <1>1, <1>m, <2>2 DEF Meets
  <2> QED BY <2>1, <2>2
<1>4. ASSUME NEW u \in Tasks PROVE Knows(task[u])'
  <2>1. PICK other : other = task'[u]
    OBVIOUS
  <2>2. Knows(other)
    BY <1>1, <2>1 DEF Registration
  <2>3. Knows(other)'
    BY <1>g, <2>2, KnowsStill
  <2> QED BY <2>1, <2>3 DEF Knows, Exists
<1>5. RoleOwed'
  <2>1. RoleOwed
    BY DEF Registration
  <2>3. \A u \in Tasks : task[u].pc \in {"upserting", "unroling"} => task'[u] = task[u]
    BY <1>1
  <2> QED BY <1>g, <2>1, <2>3 DEF RoleOwed, Flags
<1>6. OwnStats'
  BY <1>g DEF Registration, OwnStats, Flags
<1>7. Mirrored
  BY <1>g, SameRowsMap DEF Flags
<1> QED BY <1>3, <1>4, <1>5, <1>6, <1>7 DEF Registration

\* Each flag of the history is raised and never lowered.
LEMMA FlagRaised ==
  ASSUME Types, NEW f \in Flags, NEW b \in BOOLEAN, history' = [history EXCEPT ![f] = b],
         history[f] => b
  PROVE  Grows
BY HistoryAfter DEF Grows

LEMMA AccountStepGrows ==
  ASSUME Types, NEW t \in Tasks, AccountStep(t)
  PROVE  Grows
<1>h. history \in [Flags -> BOOLEAN]
  BY FlagsOf DEF Types, WorldOK
<1>1. CASE \/ CheckExisting(t) \/ Reactivate(t) \/ ForceCheck(t) \/ FindUser(t) \/ Greet(t)
           \/ RewardRole(t) \/ Fix(t)
  BY <1>1 DEF CheckExisting, Reactivate, ForceCheck, FindUser, Greet, RewardRole, Fix, Grows
<1>2. CASE \/ Register(t) \/ RegisterButton(t) \/ ForceRegister(t) \/ Unregister(t) \/ Audit(t)
           \/ RefreshUser(t)
  BY <1>2, <1>h DEF Register, RegisterButton, ForceRegister, Unregister, Audit, RefreshUser, Start,
              Grows, Flags
<1>3. CASE SelectUser(t) \/ AddRole(t) \/ RestoreRole(t) \/ RemoveRole(t) \/ MarkReturned(t)
  BY <1>3, <1>h DEF SelectUser, AddRole, RestoreRole, RemoveRole, MarkReturned, GiveUp, Grows,
                    Flags
<1>4. CASE RegisterUser(t) \/ HandleJoined(t) \/ LookForMember(t)
  BY <1>4, <1>h DEF RegisterUser, HandleJoined, LookForMember, Grows, Flags
<1>5. CASE Seed(t)
  BY <1>5, <1>h DEF Seed, GiveUp, Grows, Flags
<1>6. CASE RecordReading(t)
  BY <1>6, <1>h DEF RecordReading, GiveUp, Grows, Flags
<1> QED BY <1>1, <1>2, <1>3, <1>4, <1>5, <1>6 DEF AccountStep

\* The steps that begin a task.
LEMMA BeginningsKeep ==
  ASSUME Types, Registration, ~history.tangled, NEW t \in Tasks,
         \/ Register(t) \/ RegisterButton(t) \/ ForceRegister(t) \/ Unregister(t) \/ Audit(t)
         \/ RefreshUser(t) \/ HandleJoined(t)
  PROVE  Kept
<1>1. PICK job :
        /\ task' = [task EXCEPT ![t] = job]
        /\ history' = [history EXCEPT !["tangled"] = history.tangled \/ Meets(t, job.pc)]
        /\ Knows(job)
  <2>1. CASE \/ Register(t) \/ RegisterButton(t) \/ ForceRegister(t) \/ Unregister(t) \/ Audit(t)
             \/ HandleJoined(t)
    <3>1. PICK pc \in {"checking", "forcing", "finding", "auditing", "greeting"} : \E job :
            /\ task' = [task EXCEPT ![t] = job] /\ job.pc = pc
            /\ pc \in {"checking", "forcing"} => ~job.again
            /\ history' = [history EXCEPT !["tangled"] = history.tangled \/ Meets(t, job.pc)]
      <4>1. CASE Register(t)
        BY <4>1 DEF Register, Start, Idle
      <4>2. CASE RegisterButton(t)
        BY <4>2 DEF RegisterButton, Start, Idle
      <4>3. CASE ForceRegister(t)
        BY <4>3 DEF ForceRegister, Start, Idle
      <4>4. CASE Unregister(t)
        BY <4>4 DEF Unregister, Start, Idle
      <4>5. CASE Audit(t)
        BY <4>5 DEF Audit, Start, Idle
      <4>6. CASE HandleJoined(t)
        <5>1. PICK job : job = [Idle EXCEPT !.pc = "greeting"]
          OBVIOUS
        <5>2. job.pc = "greeting"
          BY <5>1 DEF Idle
        <5>3. task' = [task EXCEPT ![t] = job]
          BY <4>6, <5>1 DEF HandleJoined, Step
        <5>4. history' = [history EXCEPT !["tangled"] = history.tangled \/ Meets(t, job.pc)]
          BY <4>6, <5>2 DEF HandleJoined
        <5> QED BY <5>2, <5>3, <5>4
      <4> QED BY <2>1, <4>1, <4>2, <4>3, <4>4, <4>5, <4>6
    <3>2. PICK job :
            /\ task' = [task EXCEPT ![t] = job] /\ job.pc = pc
            /\ pc \in {"checking", "forcing"} => ~job.again
            /\ history' = [history EXCEPT !["tangled"] = history.tangled \/ Meets(t, job.pc)]
      BY <3>1
    <3> QED BY <3>2 DEF Knows
  <2>2. CASE RefreshUser(t)
    <3>1. PICK job :
            /\ job = [Idle EXCEPT !.pc = "recording", !.id = user.id, !.mc = user.mc,
                                  !.todo = Keys[user.mc]]
            /\ Start(t, job)
      BY <2>2 DEF RefreshUser
    <3>2. job.pc = "recording" /\ job.mc = user.mc
      BY <3>1 DEF Idle
    <3> QED BY <3>1, <3>2 DEF Start, Knows
  <2> QED BY <2>1, <2>2
<1>2. /\ task[t].pc = "idle"
      /\ UNCHANGED <<user, baseline, role, present>>
  BY DEF Register, RegisterButton, ForceRegister, Unregister, Audit, RefreshUser, HandleJoined,
         Start, Free, accountVars
<1> QED BY <1>1, <1>2, StartKeepsRegistration

\* A task that works alone goes on without touching the rows.
LEMMA MoveKeepsRegistration ==
  ASSUME Types, Registration, ~history.tangled, NEW t \in Tasks, task[t].pc \in Changing,
         NEW job, task' = [task EXCEPT ![t] = job], job.pc \in Changing \cup {"idle"},
         UNCHANGED <<user, baseline>>,
         \A f \in Flags \ {"failed"} : history'[f] = history[f],
         Knows(job)', RoleOwed'
  PROVE  Kept
<1>1. OwnStats'
  BY DEF Registration, OwnStats, Flags
<1>2. Mirrored
  BY SameRowsMap DEF Flags
<1> QED BY <1>1, <1>2, ChangerKeeps DEF Kept

\* Nobody but a task that works alone owes the role.
LEMMA OwnRole ==
  ASSUME Registration, ~history.tangled, NEW t \in Tasks, task[t].pc \in Changing,
         task[t].pc \notin {"upserting", "unroling"}, ~history.failed, ~history.missed
  PROVE  role => user.active
BY DEF Registration, RoleOwed, Alone, Changing

\* A task that ends, or gives up and leaves the history to say so.
LEMMA EndKeepsRegistration ==
  ASSUME Types, Registration, ~history.tangled, NEW t \in Tasks, task[t].pc \in Changing,
         UNCHANGED <<user, baseline, present>>,
         \/ /\ Finish(t) /\ UNCHANGED history
            /\ role' => present /\ (user.active \/ history.failed \/ history.missed)
         \/ GiveUp(t) /\ (role' => present)
  PROVE  Kept
<1>h. history \in [Flags -> BOOLEAN]
  BY FlagsOf DEF Types, WorldOK
<1>1. PICK job : job = Idle
  OBVIOUS
<1>2. task' = [task EXCEPT ![t] = job] /\ job.pc = "idle"
  BY <1>1 DEF GiveUp, Finish, Step, Idle
<1>3. Knows(job)'
  BY <1>2, NothingToKnow DEF Changing
<1>4. RoleOwed'
  BY <1>h DEF RoleOwed, GiveUp, Flags
<1>5. \A f \in Flags \ {"failed"} : history'[f] = history[f]
  BY <1>h DEF GiveUp, Flags
<1> QED BY <1>2, <1>3, <1>4, <1>5, MoveKeepsRegistration

\* A task that goes on working alone, with the rows and the role as they were.
LEMMA GoOnKeepsRegistration ==
  ASSUME Types, Registration, ~history.tangled, NEW t \in Tasks, task[t].pc \in Changing,
         task[t].pc \notin {"upserting", "unroling"},
         NEW job, task' = [task EXCEPT ![t] = job], job.pc \in Changing,
         UNCHANGED <<user, baseline, role, present>>,
         \A f \in Flags \ {"failed"} : history'[f] = history[f],
         history.failed => history'.failed, Knows(job)'
  PROVE  Kept
<1>1. RoleOwed'
  <2>1. role => present
    BY DEF Registration, RoleOwed
  <2>2. history'.missed = history.missed
    BY DEF Flags
  <2> QED BY <2>1, <2>2, OwnRole DEF RoleOwed
<1> QED BY <1>1, MoveKeepsRegistration

LEMMA MovesKeep ==
  ASSUME Types, Registration, ~history.tangled, NEW t \in Tasks,
         CheckExisting(t) \/ SelectUser(t) \/ ForceCheck(t) \/ FindUser(t) \/ Greet(t)
  PROVE  Kept
<1>k. Knows(task[t]) /\ (role => present)
  BY DEF Registration, RoleOwed
<1>c. task[t].pc \in Changing /\ task[t].pc \notin {"upserting", "unroling"}
  BY DEF CheckExisting, SelectUser, ForceCheck, FindUser, Greet, Changing
<1>r. role => user.active \/ history.failed \/ history.missed
  BY <1>c, OwnRole
<1>u. UNCHANGED <<user, baseline, role, present>>
  BY DEF CheckExisting, SelectUser, ForceCheck, FindUser, Greet, accountVars
<1>e. CASE (Finish(t) /\ UNCHANGED history) \/ GiveUp(t)
  BY <1>c, <1>e, <1>k, <1>r, <1>u, EndKeepsRegistration
<1>g. ASSUME NEW job, task' = [task EXCEPT ![t] = job], job.pc \in Changing, UNCHANGED history,
             Knows(job)'
      PROVE  Kept
  BY <1>c, <1>g, <1>u, GoOnKeepsRegistration
<1>j. task[t] \in Job
  BY JobType
<1>1. CASE CheckExisting(t)
  <2>1. CASE user.id = 0
    <3>1. PICK job : job = [task[t] EXCEPT !.pc = "joining"]
      OBVIOUS
    <3>2. task' = [task EXCEPT ![t] = job] /\ UNCHANGED history
      BY <1>1, <2>1, <3>1, UserType DEF CheckExisting, Goto, Step, NoUser
    <3>3. job.pc = "joining" /\ job.again = task[t].again
      BY <1>j, <3>1 DEF Job
    <3>4. Knows(job)'
      BY <1>1, <1>k, <1>u, <2>1, <3>3, UserType DEF CheckExisting, Knows, NoUser
    <3> QED BY <1>g, <3>2, <3>3, <3>4 DEF Changing
  <2>2. CASE user.id # 0 /\ user.active
    BY <1>1, <1>e, <2>2 DEF CheckExisting
  <2>3. CASE user.id # 0 /\ ~user.active
    <3>1. PICK pc \in {"wiping", "reactivating"} : \E job :
            /\ job = [task[t] EXCEPT !.again = TRUE, !.pc = pc]
            /\ Step(t, job) /\ UNCHANGED history
            /\ pc = "reactivating" => user.mc = task[t].mc
      BY <1>1, <2>3 DEF CheckExisting
    <3>2. PICK job :
            /\ job = [task[t] EXCEPT !.again = TRUE, !.pc = pc]
            /\ Step(t, job) /\ UNCHANGED history
            /\ pc = "reactivating" => user.mc = task[t].mc
      BY <3>1
    <3>3. job.pc = pc /\ job.again /\ job.mc = task[t].mc
      BY <1>j, <3>2 DEF Job
    <3>4. Knows(job)'
      BY <1>u, <2>3, <3>2, <3>3 DEF Knows
    <3> QED BY <1>g, <3>2, <3>3, <3>4 DEF Changing, Step
  <2> QED BY <2>1, <2>2, <2>3
<1>2. CASE SelectUser(t)
  <2>1. CASE GiveUp(t)
    BY <1>e, <2>1
  <2>2. CASE user.id # 0 /\ task[t].again /\ Goto(t, "roling") /\ UNCHANGED history
    <3>1. PICK job : job = [task[t] EXCEPT !.pc = "roling"]
      OBVIOUS
    <3>2. task' = [task EXCEPT ![t] = job] /\ UNCHANGED history
      BY <2>2, <3>1 DEF Goto, Step
    <3>3. job.pc = "roling" /\ job.mc = task[t].mc
      BY <1>j, <3>1 DEF Job
    <3>4. Knows(job)'
      BY <1>2, <1>k, <1>u, <3>3 DEF SelectUser, Knows
    <3> QED BY <1>g, <3>2, <3>3, <3>4 DEF Changing
  <2>3. CASE ~task[t].again /\ UNCHANGED history /\
             Step(t, [task[t] EXCEPT !.pc = "seeding", !.id = user.id,
                                     !.todo = Keys[task[t].mc] \cup {Discord}])
    <3>1. PICK job : job = [task[t] EXCEPT !.pc = "seeding", !.id = user.id,
                                           !.todo = Keys[task[t].mc] \cup {Discord}]
      OBVIOUS
    <3>2. task' = [task EXCEPT ![t] = job] /\ UNCHANGED history
      BY <2>3, <3>1 DEF Step
    <3>3. job.pc = "seeding" /\ job.mc = task[t].mc /\ job.todo = Keys[task[t].mc] \cup {Discord}
      BY <1>j, <3>1 DEF Job
    <3>4. task[t].mc \in Minecraft
      BY <1>2, JobType DEF SelectUser, Fine, Naming
    <3>5. job.todo \subseteq Stats
      BY <3>3, <3>4, KeysType
    <3>6. user.mc = task[t].mc /\ (~history.forced => baseline = NoStats)
      BY <1>2, <1>k, <2>3 DEF SelectUser, Knows
    <3>7. Knows(job)'
      BY <1>u, <2>3, <3>3, <3>5, <3>6 DEF Knows, NoStats
    <3> QED BY <1>g, <3>2, <3>3, <3>7 DEF Changing
  <2> QED BY <1>2, <2>1, <2>2, <2>3 DEF SelectUser
<1>3. CASE ForceCheck(t)
  <2>1. CASE user.active
    BY <1>3, <1>e, <2>1 DEF ForceCheck
  <2>2. CASE ~user.active
    <3>1. PICK job : job = [task[t] EXCEPT !.pc = "joining"]
      OBVIOUS
    <3>2. task' = [task EXCEPT ![t] = job] /\ UNCHANGED history
      BY <1>3, <2>2, <3>1 DEF ForceCheck, Goto, Step
    <3>3. job.pc = "joining" /\ job.again = task[t].again
      BY <1>j, <3>1 DEF Job
    <3>4. Knows(job)'
      BY <1>3, <1>k, <1>u, <2>2, <3>3 DEF ForceCheck, Knows
    <3> QED BY <1>g, <3>2, <3>3, <3>4 DEF Changing
  <2> QED BY <2>1, <2>2
<1>4. CASE FindUser(t)
  <2>1. PICK pc \in {"unroling", "deleting"} : \E job :
          /\ job = [task[t] EXCEPT !.pc = pc, !.id = user.id]
          /\ Step(t, job) /\ UNCHANGED history
    BY <1>4 DEF FindUser
  <2>2. PICK job : job = [task[t] EXCEPT !.pc = pc, !.id = user.id] /\ Step(t, job) /\ UNCHANGED history
    BY <2>1
  <2>3. job.pc = pc
    BY <1>j, <2>2 DEF Job
  <2>4. Knows(job)'
    BY <2>3 DEF Knows
  <2> QED BY <1>g, <2>2, <2>3, <2>4 DEF Changing, Step
<1>5. CASE Greet(t)
  <2>1. CASE user.active
    <3>1. PICK job : job = [task[t] EXCEPT !.pc = "restoring"]
      OBVIOUS
    <3>2. task' = [task EXCEPT ![t] = job] /\ UNCHANGED history
      BY <1>5, <2>1, <3>1 DEF Greet, Goto, Step
    <3>3. job.pc = "restoring"
      BY <1>j, <3>1 DEF Job
    <3>4. Knows(job)'
      BY <1>u, <2>1, <3>3 DEF Knows
    <3> QED BY <1>g, <3>2, <3>3, <3>4 DEF Changing
  <2>2. CASE ~user.active
    BY <1>5, <1>e, <2>2 DEF Greet
  <2> QED BY <2>1, <2>2
<1> QED BY <1>1, <1>2, <1>3, <1>4, <1>5

LEMMA RolesKeep ==
  ASSUME Types, Registration, ~history.tangled, NEW t \in Tasks,
         AddRole(t) \/ RestoreRole(t) \/ RemoveRole(t) \/ RewardRole(t) \/ LookForMember(t)
  PROVE  Kept
<1>h. history \in [Flags -> BOOLEAN] /\ role \in BOOLEAN /\ present \in BOOLEAN
  BY FlagsOf DEF Types, WorldOK
<1>k. Knows(task[t]) /\ (role => present)
  BY DEF Registration, RoleOwed
<1>c. task[t].pc \in Changing
  BY DEF AddRole, RestoreRole, RemoveRole, RewardRole, LookForMember, Changing
<1>u. UNCHANGED <<user, baseline, present>>
  BY DEF AddRole, RestoreRole, RemoveRole, RewardRole, LookForMember, accountVars
<1>e. CASE GiveUp(t) /\ UNCHANGED role
  BY <1>c, <1>e, <1>k, <1>u, EndKeepsRegistration
<1>j. task[t] \in Job
  BY JobType
<1>1. CASE AddRole(t) /\ ~(GiveUp(t) /\ UNCHANGED role)
  <2>1. present /\ role' = TRUE /\ Goto(t, "upserting") /\ UNCHANGED history
    BY <1>1 DEF AddRole
  <2>2. PICK job : job = [task[t] EXCEPT !.pc = "upserting"]
    OBVIOUS
  <2>3. task' = [task EXCEPT ![t] = job]
    BY <2>1, <2>2 DEF Goto, Step
  <2>4. job.pc = "upserting" /\ job.again = task[t].again
    BY <1>j, <2>2 DEF Job
  <2>5. Knows(job)'
    BY <1>1, <1>k, <1>u, <2>4 DEF AddRole, Knows
  <2>6. task'[t] = job
    BY <2>3, OthersAsTheyWere
  <2>7. RoleOwed'
    BY <1>u, <2>1, <2>4, <2>6 DEF RoleOwed
  <2> QED BY <1>c, <1>u, <2>1, <2>3, <2>4, <2>5, <2>7, MoveKeepsRegistration DEF Changing
<1>2. CASE RestoreRole(t) /\ ~(GiveUp(t) /\ UNCHANGED role)
  <2>1. user.active
    BY <1>2, <1>k DEF RestoreRole, Knows
  <2> QED BY <1>2, <1>c, <1>u, <2>1, EndKeepsRegistration DEF RestoreRole
<1>3. CASE RemoveRole(t) /\ ~(GiveUp(t) /\ UNCHANGED role)
  BY <1>3, <1>c, <1>u, EndKeepsRegistration DEF RemoveRole
<1>4. CASE RewardRole(t)
  <2>1. user.active
    BY <1>4, <1>k DEF RewardRole, Knows
  <2>2. role' => present
    BY <1>4, <1>k DEF RewardRole
  <2> QED BY <1>4, <1>c, <1>u, <2>1, <2>2, EndKeepsRegistration DEF RewardRole
<1>5. CASE LookForMember(t)
  <2>1. PICK found \in {FALSE, present} :
          /\ IF found = task[t].again THEN Finish(t)
             ELSE Step(t, [task[t] EXCEPT !.pc = "fixing", !.again = found])
          /\ history' = [history EXCEPT !["failed"] = history.failed \/ found # present]
    BY <1>5 DEF LookForMember
  <2>2. /\ \A f \in Flags \ {"failed"} : history'[f] = history[f]
        /\ history'.failed = (history.failed \/ found # present)
    BY <1>h, <2>1 DEF Flags
  <2>3. PICK job : /\ task' = [task EXCEPT ![t] = job] /\ job.pc \in {"idle", "fixing"}
                   /\ job.pc = "fixing" => job.again = found
    <3>1. CASE Finish(t)
      <4>1. task' = [task EXCEPT ![t] = Idle]
        BY <3>1 DEF Finish, Step
      <4>2. Idle.pc = "idle"
        BY DEF Idle
      <4> QED BY <4>1, <4>2
    <3>2. CASE Step(t, [task[t] EXCEPT !.pc = "fixing", !.again = found])
      <4>1. PICK job : job = [task[t] EXCEPT !.pc = "fixing", !.again = found]
        OBVIOUS
      <4>2. job.pc = "fixing" /\ job.again = found
        BY <1>j, <4>1 DEF Job
      <4>3. task' = [task EXCEPT ![t] = job]
        BY <3>2, <4>1 DEF Step
      <4> QED BY <4>2, <4>3
    <3> QED BY <2>1, <3>1, <3>2
  <2>4. role => user.active \/ history.failed \/ history.missed
    BY <1>5, <1>c, OwnRole DEF LookForMember
  <2>5. UNCHANGED role
    BY <1>5 DEF LookForMember, accountVars
  <2>6. Knows(job)'
    BY <1>h, <1>k, <1>u, <2>2, <2>3, <2>5 DEF Knows
  <2>7. RoleOwed'
    BY <1>k, <1>u, <2>2, <2>4, <2>5 DEF RoleOwed, Flags
  <2> QED BY <1>c, <1>u, <2>2, <2>3, <2>6, <2>7, MoveKeepsRegistration DEF Changing
<1> QED BY <1>1, <1>2, <1>3, <1>4, <1>5, <1>e

\* wipe_user_stats: all of a suspended registration's statistics, or none.
LEMMA WipeKeepsRegistration ==
  ASSUME Types, Registration, ~history.tangled, NEW t \in Tasks, Wipe(t)
  PROVE  Kept
<1>w. WipeUserStats(t) /\ task[t].pc = "wiping"
  BY DEF Wipe, WipeUserStats
<1>k. Knows(task[t]) /\ (role => present)
  BY DEF Registration, RoleOwed
<1>c. task[t].pc \in Changing
  BY <1>w DEF Changing
<1>u. UNCHANGED <<user, role, present>>
  BY <1>w DEF WipeUserStats
<1>1. CASE GiveUp(t) /\ UNCHANGED baseline
  BY <1>1, <1>c, <1>k, <1>u, EndKeepsRegistration
<1>2. CASE baseline' = NoStats /\ Goto(t, "reactivating") /\ UNCHANGED history
  <2>1. PICK job : job = [task[t] EXCEPT !.pc = "reactivating"]
    OBVIOUS
  <2>2. task' = [task EXCEPT ![t] = job] /\ UNCHANGED history
    BY <1>2, <2>1 DEF Goto, Step
  <2>3. job.pc = "reactivating" /\ job.again = task[t].again
    BY <2>1, JobType DEF Job
  <2>4. Knows(job)'
    BY <1>2, <1>k, <1>u, <1>w, <2>3 DEF Knows
  <2>5. RoleOwed'
    BY <1>c, <1>k, <1>u, <1>w, <2>2, OwnRole DEF RoleOwed
  <2>6. OwnStats'
    BY <1>2 DEF Registration, OwnStats, NoStats
  <2>7. Mirrored
    <3>1. Standing = "inactive" /\ Standing' = Standing
      BY <1>k, <1>u, <1>w, <2>2 DEF Knows, Standing
    <3>2. OnRecord' = {}
      BY <1>2 DEF OnRecord, NoStats
    <3> QED BY <1>u, <3>1, <3>2 DEF Mirrored, Member!Next, Member!Reset
  <2> QED BY <1>c, <2>2, <2>3, <2>4, <2>5, <2>6, <2>7, ChangerKeeps DEF Kept, Changing
<1> QED BY <1>1, <1>2, <1>w DEF WipeUserStats

\* What SetActive makes of the row, and what Membership makes of that.
LEMMA SetActiveMaps ==
  ASSUME Types, ~history.tangled, ~history'.tangled, NEW active \in BOOLEAN, SetActive(active),
         UNCHANGED baseline
  PROVE  /\ user'.id = user.id /\ user'.mc = user.mc
         /\ user'.active = (active /\ user.id # 0)
         /\ Mirrored
<1>1. CASE user.id = 0
  <2>1. user' = user /\ user = NoUser
    BY <1>1, UserType DEF SetActive
  <2>2. user.active = FALSE
    BY <2>1 DEF NoUser
  <2>3. UNCHANGED <<Standing, OnRecord>>
    BY <1>1, <2>1 DEF Standing, OnRecord
  <2>4. Mirrored
    BY <2>1, <2>3 DEF Mirrored, Member!mvars
  <2> QED BY <1>1, <2>1, <2>2, <2>4
<1>2. CASE user.id # 0
  <2>1. user \in [id : {lastId}, active : BOOLEAN, mc : Minecraft]
    BY <1>2, UserType DEF Types, RowsOK
  <2>2. user' = [user EXCEPT !.active = active]
    BY <1>2 DEF SetActive
  <2>3. user'.id = user.id /\ user'.mc = user.mc /\ user'.active = active
    BY <2>1, <2>2
  <2>4. OnRecord' = OnRecord
    BY DEF OnRecord
  <2>5. /\ Standing = IF user.active THEN "active" ELSE "inactive"
        /\ Standing' = IF active THEN "active" ELSE "inactive"
    BY <1>2, <2>3 DEF Standing
  <2>6. Mirrored
    <3>1. CASE user.active = active
      BY <2>3, <2>4, <2>5, <3>1 DEF Mirrored, Member!mvars
    <3>2. CASE user.active /\ ~active
      BY <2>3, <2>4, <2>5, <3>2 DEF Mirrored, Member!Next, Member!Suspend
    <3>3. CASE ~user.active /\ active
      BY <2>3, <2>4, <2>5, <3>3 DEF Mirrored, Member!Next, Member!Return
    <3> QED BY <2>1, <3>1, <3>2, <3>3
  <2> QED BY <1>2, <2>3, <2>6
<1> QED BY <1>1, <1>2

\* The row is marked by a return, a restored member or the audit.
LEMMA MarksKeep ==
  ASSUME Types, Registration, ~history.tangled, NEW t \in Tasks,
         \/ Reactivate(t)
         \/ MarkReturned(t) /\ SetActive(TRUE) /\ UNCHANGED history
         \/ Fix(t)
  PROVE  Kept
<1>k. Knows(task[t]) /\ (role => present)
  BY DEF Registration, RoleOwed
<1>c. task[t].pc \in Changing /\ task[t].pc \notin {"upserting", "unroling"}
  BY DEF Reactivate, MarkReturned, Fix, Changing
<1>r. role => user.active \/ history.failed \/ history.missed
  BY <1>c, OwnRole
<1>u. UNCHANGED <<baseline, role, present, history>>
  BY DEF Reactivate, MarkReturned, Fix
<1>j. task[t] \in Job
  BY JobType
<1>1. PICK active, pc, job :
        /\ active \in BOOLEAN /\ pc \in {"upserting", "rewarding", "idle"}
        /\ SetActive(active)
        /\ task' = [task EXCEPT ![t] = job] /\ job.pc = pc
        /\ pc # "idle" => active /\ job.again = task[t].again /\ job.mc = task[t].mc
        /\ pc = "upserting" => task[t].pc = "reactivating"
        /\ pc = "rewarding" => task[t].pc = "restoring"
        /\ ~active => task[t].pc = "fixing" /\ ~task[t].again
  <2>1. CASE Reactivate(t)
    <3>1. PICK job : job = [task[t] EXCEPT !.pc = "upserting"]
      OBVIOUS
    <3>2. job.pc = "upserting" /\ job.again = task[t].again /\ job.mc = task[t].mc
      BY <1>j, <3>1 DEF Job
    <3> QED BY <2>1, <3>1, <3>2 DEF Reactivate, Goto, Step
  <2>2. CASE MarkReturned(t) /\ SetActive(TRUE)
    <3>1. PICK job : job = [task[t] EXCEPT !.pc = "rewarding"]
      OBVIOUS
    <3>2. job.pc = "rewarding" /\ job.again = task[t].again /\ job.mc = task[t].mc
      BY <1>j, <3>1 DEF Job
    <3> QED BY <2>2, <3>1, <3>2 DEF MarkReturned, Goto, Step
  <2>3. CASE Fix(t)
    <3>1. PICK job : job = Idle
      OBVIOUS
    <3>2. job.pc = "idle" /\ task[t].again \in BOOLEAN
      BY <1>j, <3>1 DEF Job, Idle
    <3> QED BY <2>3, <3>1, <3>2 DEF Fix, Finish, Step
  <2> QED BY <2>1, <2>2, <2>3
<1>2. /\ user'.id = user.id /\ user'.mc = user.mc
      /\ user'.active = (active /\ user.id # 0)
      /\ history'.tangled \/ Mirrored
  BY <1>1, <1>u, SetActiveMaps
<1>3. user.active => user.id # 0
  BY UserType DEF NoUser
<1>4. Knows(job)'
  BY <1>1, <1>2, <1>3, <1>k, <1>u DEF Knows
<1>5. RoleOwed'
  <2>1. CASE active
    BY <1>1, <1>2, <1>3, <1>k, <1>r, <1>u, <2>1 DEF RoleOwed
  <2>2. CASE ~active
    BY <1>1, <1>k, <1>u, <2>2 DEF RoleOwed, Knows
  <2> QED BY <2>1, <2>2
<1>6. OwnStats'
  BY <1>2, <1>u DEF Registration, OwnStats
<1> QED BY <1>1, <1>2, <1>4, <1>5, <1>6, <1>c, ChangerKeeps DEF Kept, Changing

\* A member who returns is given the role although the row could not be marked.
LEMMA UnmarkedKeeps ==
  ASSUME Types, Registration, ~history.tangled, NEW t \in Tasks, MarkReturned(t),
         UNCHANGED user, history' = [history EXCEPT !.failed = TRUE]
  PROVE  Kept
<1>h. history \in [Flags -> BOOLEAN]
  BY FlagsOf DEF Types, WorldOK
<1>k. Knows(task[t])
  BY DEF Registration
<1>c. task[t].pc = "restoring" /\ task[t].pc \in Changing
  BY DEF MarkReturned, Changing
<1>j. task[t] \in Job
  BY JobType
<1>1. PICK job : job = [task[t] EXCEPT !.pc = "rewarding"]
  OBVIOUS
<1>2. job.pc = "rewarding" /\ job.id = task[t].id /\ job.again = task[t].again /\ job.mc = task[t].mc
  BY <1>j, <1>1 DEF Job
<1>3. task' = [task EXCEPT ![t] = job] /\ UNCHANGED <<baseline, role, present>>
  BY <1>1 DEF MarkReturned, Goto, Step
<1>4. Knows(job)'
  BY <1>c, <1>k, <1>2, <1>3 DEF Knows, Exists
<1>5. \A f \in Flags \ {"failed"} : history'[f] = history[f]
  BY <1>h DEF Flags
<1>6. history'.failed
  BY <1>h DEF Flags
<1>7. job.pc \in Changing
  BY <1>2 DEF Changing
<1> QED BY <1>c, <1>3, <1>4, <1>5, <1>6, <1>7, GoOnKeepsRegistration

\* The upsert: a new row, the member's own that came back, or one taken by force.
LEMMA UpsertKeepsRegistration ==
  ASSUME Types, Registration, ~history.tangled, NEW t \in Tasks, RegisterUser(t)
  PROVE  Kept
<1>h. history \in [Flags -> BOOLEAN]
  BY FlagsOf DEF Types, WorldOK
<1>k. Knows(task[t]) /\ (role => present) /\ OwnStats
  BY DEF Registration, RoleOwed
<1>c. task[t].pc = "upserting" /\ task[t].pc \in Changing
  BY DEF RegisterUser, Changing
<1>j. task[t] \in Job /\ task[t].mc \in Minecraft
  BY <1>c, JobType DEF Fine, Naming
<1>u. UNCHANGED <<baseline, role, present>>
  BY DEF RegisterUser
<1>1. PICK job : job = [task[t] EXCEPT !.pc = "selecting"]
  OBVIOUS
<1>2. task' = [task EXCEPT ![t] = job]
  BY <1>1 DEF RegisterUser, Goto, Step
<1>3. job.pc = "selecting" /\ job.again = task[t].again /\ job.mc = task[t].mc
  BY <1>1, <1>j DEF Job
<1>4. user'.active /\ user'.mc = task[t].mc /\ user'.id # 0
  <2>1. CASE user.id = 0
    BY <2>1 DEF RegisterUser, Upserted, Types, RowsOK
  <2>2. CASE user.id # 0
    <3>1. user \in [id : {lastId}, active : BOOLEAN, mc : Minecraft]
      BY <2>2, UserType DEF Types, RowsOK
    <3> QED BY <2>2, <3>1 DEF RegisterUser, Upserted
  <2> QED BY <2>1, <2>2
<1>5. /\ \A f \in Flags \ {"forced"} : history'[f] = history[f]
      /\ history'.forced = (history.forced \/ (user.id # 0 /\ ~task[t].again))
  BY <1>h DEF RegisterUser, Flags
<1>6. ~task[t].again /\ ~history'.forced => baseline = NoStats
  BY <1>5 DEF Types, RowsOK
<1>7. Knows(job)'
  BY <1>3, <1>4, <1>6, <1>u DEF Knows
<1>8. RoleOwed'
  BY <1>4, <1>k, <1>u DEF RoleOwed
<1>o. user.mc = task[t].mc \/ baseline = NoStats \/ (~task[t].again /\ user.id # 0 /\ ~user.active)
  BY <1>c, <1>k DEF Knows, Types, RowsOK
<1>9. OwnStats'
  <2> SUFFICES ASSUME ~history'.forced
               PROVE  /\ \A s \in Stats : baseline[s] \in {Nobody, user'.mc}
                      /\ ~history'.foreign /\ ~history'.reseeded
    BY <1>u DEF OwnStats
  <2>1. ~history.forced /\ (user.mc = task[t].mc \/ baseline = NoStats)
    BY <1>5, <1>o
  <2> QED BY <1>4, <1>5, <1>k, <2>1 DEF OwnStats, NoStats, Flags
<1>10. Mirrored
  <2>1. Standing' = "active" /\ OnRecord' = OnRecord
    BY <1>4, <1>5, <1>u DEF Standing, OnRecord, Flags
  <2>2. CASE user.id = 0
    <3>1. Standing = "unknown"
      BY <2>2 DEF Standing
    <3> QED BY <1>4, <1>j, <2>1, <3>1 DEF Mirrored, Member!Next, Member!Register
  <2>3. CASE user.id # 0
    <3>1. Standing = IF user.active THEN "active" ELSE "inactive"
      BY <2>3 DEF Standing
    <3>2. CASE ~user.active
      BY <1>4, <1>j, <2>1, <3>1, <3>2 DEF Mirrored, Member!Next, Member!Relink
    <3>3. CASE user.active /\ user.mc = task[t].mc
      BY <1>4, <2>1, <3>1, <3>3 DEF Mirrored, Member!mvars
    <3>4. CASE user.active /\ baseline = NoStats
      <4>1. OnRecord = {}
        BY <3>4 DEF OnRecord, NoStats
      <4> QED BY <1>4, <1>j, <2>1, <3>1, <3>4, <4>1 DEF Mirrored, Member!Next, Member!Relink
    <3> QED BY <1>o, <3>2, <3>3, <3>4
  <2> QED BY <2>2, <2>3
<1> QED BY <1>2, <1>3, <1>7, <1>8, <1>9, <1>10, <1>c, ChangerKeeps DEF Kept, Changing

\* A seed: over nothing, unless by force.
LEMMA SeedKeepsRegistration ==
  ASSUME Types, Registration, ~history.tangled, NEW t \in Tasks, Seed(t)
  PROVE  Kept
<1>h. history \in [Flags -> BOOLEAN]
  BY FlagsOf DEF Types, WorldOK
<1>k. Knows(task[t]) /\ (role => present) /\ OwnStats
  BY DEF Registration, RoleOwed
<1>c. task[t].pc = "seeding" /\ task[t].pc \in Changing
  BY DEF Seed, Changing
<1>u. UNCHANGED <<user, role, present>>
  BY DEF Seed
<1>j. task[t] \in Job /\ task[t].mc \in Minecraft
  BY <1>c, JobType DEF Fine, Naming
<1>1. CASE GiveUp(t) /\ UNCHANGED baseline
  BY <1>1, <1>c, <1>k, <1>u, EndKeepsRegistration
<1>2. CASE ~(GiveUp(t) /\ UNCHANGED baseline)
  <2>1. PICK s \in task[t].todo :
          /\ Exists(task[t].id)
          /\ baseline' = [baseline EXCEPT ![s] = task[t].mc]
          /\ history' = [history EXCEPT !["reseeded"] = history.reseeded \/ baseline[s] # Nobody]
          /\ \/ Finish(t)
             \/ Step(t, [task[t] EXCEPT !.todo = task[t].todo \ {s}])
    BY <1>2 DEF Seed
  <2>2. s \in Stats /\ user.id # 0 /\ user.mc = task[t].mc
        /\ (~history.forced => baseline[s] = Nobody)
    BY <1>c, <1>j, <1>k, <2>1 DEF Job, Knows, Exists
  <2>3. /\ \A f \in Flags \ {"reseeded"} : history'[f] = history[f]
        /\ history'.reseeded = (history.reseeded \/ baseline[s] # Nobody)
    BY <1>h, <2>1 DEF Flags
  <2>4. \A r \in Stats : baseline'[r] = IF r = s THEN user.mc ELSE baseline[r]
    BY <2>1, <2>2 DEF Types, RowsOK
  <2>5. PICK job :
          /\ task' = [task EXCEPT ![t] = job] /\ job.pc \in {"seeding", "idle"}
          /\ job.pc = "seeding" => job.id = task[t].id /\ job.mc = task[t].mc
                                   /\ job.todo = task[t].todo \ {s}
    <3>1. CASE Finish(t)
      <4>1. task' = [task EXCEPT ![t] = Idle]
        BY <3>1 DEF Finish, Step
      <4>2. Idle.pc = "idle"
        BY DEF Idle
      <4> QED BY <4>1, <4>2
    <3>2. CASE Step(t, [task[t] EXCEPT !.todo = task[t].todo \ {s}])
      <4>1. PICK job : job = [task[t] EXCEPT !.todo = task[t].todo \ {s}]
        OBVIOUS
      <4>2. /\ job.pc = "seeding" /\ job.id = task[t].id /\ job.mc = task[t].mc
            /\ job.todo = task[t].todo \ {s}
        BY <1>c, <1>j, <4>1 DEF Job
      <4>3. task' = [task EXCEPT ![t] = job]
        BY <3>2, <4>1 DEF Step
      <4> QED BY <4>2, <4>3
    <3> QED BY <2>1, <3>1, <3>2
  <2>6. task[t].todo \subseteq Stats
    BY <1>j DEF Job
  <2>7. Knows(job)'
    <3> SUFFICES ASSUME job.pc = "seeding" PROVE Knows(job)'
      BY <2>5 DEF Knows
    <3>1. user.mc = job.mc /\ Exists(job.id)
      BY <2>1, <2>2, <2>5
    <3>2. ~history'.forced => \A r \in job.todo : baseline'[r] = Nobody
      BY <1>c, <1>k, <2>1, <2>3, <2>4, <2>5, <2>6 DEF Knows, Flags
    <3> QED BY <1>u, <3>1, <3>2 DEF Knows
  <2>8. RoleOwed'
    BY <1>c, <1>k, <1>u, <2>3, OwnRole DEF RoleOwed, Flags
  <2>9. OwnStats'
    BY <1>k, <1>u, <2>2, <2>3, <2>4 DEF OwnStats, Flags
  <2>10. Mirrored
    BY <1>u, <2>1, <2>2, <2>3, RecordMaps DEF Flags
  <2> QED BY <1>c, <2>5, <2>7, <2>8, <2>9, <2>10, ChangerKeeps DEF Kept, Changing
<1> QED BY <1>1, <1>2

\* The end of a registration takes everything along but the role, which is next.
LEMMA DeleteKeepsRegistration ==
  ASSUME Types, Registration, ~history.tangled, NEW t \in Tasks, Delete(t)
  PROVE  Kept
<1>d. DeleteUser(t) /\ UNCHANGED <<role, present, history>>
  BY DEF Delete, DeleteUser
<1>k. (role => present) /\ OwnStats
  BY DEF Registration, RoleOwed
<1>c. task[t].pc \in Changing
  BY <1>d DEF DeleteUser, Changing
<1>1. PICK job : job = [Idle EXCEPT !.pc = "unroling"]
  OBVIOUS
<1>2. task' = [task EXCEPT ![t] = job] /\ job.pc = "unroling"
  BY <1>1, <1>d DEF DeleteUser, Step, Idle
<1>3. task'[t] = job
  BY <1>2, OthersAsTheyWere
<1>4. Knows(job)'
  BY <1>2 DEF Knows
<1>5. RoleOwed'
  BY <1>2, <1>3, <1>d, <1>k DEF RoleOwed
<1>6. CASE user' = NoUser /\ baseline' = NoStats
  <2>1. OwnStats'
    BY <1>6, <1>d, <1>k DEF OwnStats, NoStats
  <2>2. Standing' = "unknown" /\ user'.mc = Nobody
    BY <1>6, <1>d DEF Standing, NoUser
  <2>3. OnRecord' = {}
    BY <1>6 DEF OnRecord, NoStats
  <2>4. Mirrored
    BY <2>2, <2>3 DEF Mirrored, Member!Next, Member!Delete
  <2> QED BY <1>2, <1>4, <1>5, <1>c, <2>1, <2>4, ChangerKeeps DEF Kept, Changing
<1>7. CASE UNCHANGED <<user, baseline>>
  <2>1. OwnStats'
    BY <1>7, <1>d, <1>k DEF OwnStats
  <2> QED BY <1>2, <1>4, <1>5, <1>7, <1>c, <1>d, <2>1, ChangerKeeps, SameRowsMap DEF Kept, Changing
<1> QED BY <1>6, <1>7, <1>d DEF DeleteUser

\* A refresh beside others: its readings are of the linked account.
LEMMA ReadingKeepsRegistration ==
  ASSUME Types, Registration, ~history.tangled, NEW t \in Tasks, RecordReading(t)
  PROVE  Kept
<1>h. history \in [Flags -> BOOLEAN]
  BY FlagsOf DEF Types, WorldOK
<1>g. Grows
  BY AccountStepGrows DEF AccountStep
<1>k. Knows(task[t]) /\ (role => present) /\ OwnStats
  BY DEF Registration, RoleOwed
<1>c. task[t].pc = "recording" /\ task[t].pc \notin Changing /\ task[t].pc \in Using
  BY DEF RecordReading, Changing, Using
<1>u. UNCHANGED <<user, role, present>>
  BY DEF RecordReading
<1>j. task[t] \in Job /\ task[t].mc \in Minecraft
  BY <1>c, JobType DEF Fine, Naming
<1>1. CASE GiveUp(t) /\ UNCHANGED baseline
  <2>1. PICK job : job = Idle
    OBVIOUS
  <2>2. task' = [task EXCEPT ![t] = job] /\ job.pc = "idle"
    BY <1>1, <2>1 DEF GiveUp, Finish, Step, Idle
  <2>3. \A f \in Flags \ {"failed"} : history'[f] = history[f]
    BY <1>1, <1>h DEF GiveUp, Flags
  <2>4. Knows(job)'
    BY <2>2, NothingToKnow DEF Changing
  <2>5. OwnStats'
    BY <1>1, <1>k, <1>u, <2>3 DEF OwnStats, Flags
  <2>6. Mirrored
    BY <1>1, <1>u, <2>3, SameRowsMap DEF Flags
  <2>7. job.pc \notin Changing /\ job.pc \notin Using
    BY <2>2 DEF Changing, Using
  <2> QED BY <1>1, <1>c, <1>g, <1>u, <2>2, <2>4, <2>5, <2>6, <2>7, BesideKeeps DEF Kept
<1>2. CASE ~(GiveUp(t) /\ UNCHANGED baseline)
  <2>1. PICK s \in task[t].todo, moved \in BOOLEAN :
          LET grew == moved /\ baseline[s] # Nobody
              left == task[t].todo \ {s}
          IN  /\ Exists(task[t].id)
              /\ baseline' = IF moved THEN [baseline EXCEPT ![s] = task[t].mc] ELSE baseline
              /\ history' = [history EXCEPT
                               !["foreign"] = history.foreign \/ (grew /\ baseline[s] # task[t].mc)]
              /\ Step(t, [task[t] EXCEPT !.todo = left,
                                         !.n = IF grew THEN task[t].n + 1 ELSE task[t].n,
                                         !.pc = IF left = {} THEN "crediting" ELSE task[t].pc])
    BY <1>2 DEF RecordReading
  <2> DEFINE left == task[t].todo \ {s}
             n == IF moved /\ baseline[s] # Nobody THEN task[t].n + 1 ELSE task[t].n
             pc == IF left = {} THEN "crediting" ELSE task[t].pc
  <2>2. s \in Stats /\ user.id # 0 /\ user.mc = task[t].mc
    BY <1>c, <1>j, <1>k, <2>1 DEF Job, Knows, Exists
  <2>3. /\ \A f \in Flags \ {"foreign"} : history'[f] = history[f]
        /\ history'.foreign => history.foreign
                               \/ (moved /\ baseline[s] # Nobody /\ baseline[s] # task[t].mc)
    BY <1>h, <2>1 DEF Flags
  <2>4. baseline' = [baseline EXCEPT ![s] = user.mc] \/ UNCHANGED baseline
    BY <2>1, <2>2
  <2>5. PICK job : job = [task[t] EXCEPT !.todo = left, !.n = n, !.pc = pc]
    OBVIOUS
  <2>6. job.pc = pc /\ job.id = task[t].id /\ job.mc = task[t].mc
    BY <1>j, <2>5 DEF Job
  <2>7. task' = [task EXCEPT ![t] = job]
    BY <2>1, <2>5 DEF Step
  <2>8. job.pc \in {"recording", "crediting"}
    BY <1>c, <2>6
  <2>9. Knows(job)'
    BY <1>u, <2>2, <2>6, <2>8 DEF Knows
  <2>10. OwnStats'
    <3>1. ~history.forced => baseline[s] \in {Nobody, user.mc}
      BY <1>k, <2>2 DEF OwnStats
    <3>2. ASSUME NEW r \in Stats PROVE baseline'[r] \in {baseline[r], user.mc}
      BY <2>4 DEF Types, RowsOK
    <3> QED BY <1>k, <1>u, <2>2, <2>3, <3>1, <3>2 DEF OwnStats, Flags
  <2>11. Mirrored
    <3>1. CASE UNCHANGED baseline
      BY <1>u, <2>3, <3>1, SameRowsMap DEF Flags
    <3>2. CASE baseline' = [baseline EXCEPT ![s] = user.mc]
      BY <1>u, <2>2, <2>3, <3>2, RecordMaps DEF Flags
    <3> QED BY <2>4, <3>1, <3>2
  <2>12. job.pc \notin Changing /\ (job.pc \in Using => task[t].pc \in Using)
    BY <1>c, <2>8 DEF Changing
  <2> QED BY <1>c, <1>g, <1>u, <2>7, <2>9, <2>10, <2>11, <2>12, BesideKeeps DEF Kept
<1> QED BY <1>1, <1>2

LEMMA AccountStepKeepsRegistration ==
  ASSUME Types, Registration, ~history.tangled, NEW t \in Tasks, AccountStep(t)
  PROVE  Kept
<1>1. CASE MarkReturned(t)
  BY <1>1, MarksKeep, UnmarkedKeeps DEF MarkReturned
<1> QED BY <1>1, BeginningsKeep, MovesKeep, RolesKeep, MarksKeep, UpsertKeepsRegistration,
           SeedKeepsRegistration, ReadingKeepsRegistration DEF AccountStep

\* What the XP commands leave of the registration: all of it.
XpPcs == {"idle", "granting", "awarding", "reading", "levelling", "summing", "comparing", "rewriting"}
LEMMA XpPcsAside == XpPcs \cap (Changing \cup Using) = {}
BY DEF XpPcs, Changing, Using

XpCommand(t) ==
  \/ CommitRefresh(t) \/ ChangeXp(t) \/ IncrementXp(t) \/ AwardAdminEventXp(t) \/ ReadXp(t)
  \/ UpdateLevel(t) \/ Recalculate(t) \/ SumEvents(t) \/ CompareTotal(t) \/ RewriteXp(t)

\* One task moves on, and the history says so if it gave up.
XpFrame(t) ==
  /\ UNCHANGED accountVars
  /\ \E job : job.pc \in XpPcs /\ task' = [task EXCEPT ![t] = job]
  /\ \/ UNCHANGED history
     \/ history' = [history EXCEPT !["failed"] = TRUE]

LEMMA EndFrame ==
  ASSUME NEW t \in Tasks, (Finish(t) /\ UNCHANGED history) \/ GiveUp(t), UNCHANGED accountVars
  PROVE  XpFrame(t)
<1>1. task' = [task EXCEPT ![t] = Idle]
  BY DEF Finish, GiveUp, Step
<1>2. Idle.pc \in XpPcs
  BY DEF Idle, XpPcs
<1>3. UNCHANGED history \/ history' = [history EXCEPT !["failed"] = TRUE]
  BY DEF GiveUp
<1> QED BY <1>1, <1>2, <1>3 DEF XpFrame

LEMMA MoveOnFrame ==
  ASSUME Types, NEW t \in Tasks, NEW pc \in XpPcs, NEW n,
         Step(t, [task[t] EXCEPT !.pc = pc, !.n = n]) \/ Goto(t, pc),
         UNCHANGED history, UNCHANGED accountVars
  PROVE  XpFrame(t)
<1>1. CASE Step(t, [task[t] EXCEPT !.pc = pc, !.n = n])
  <2>1. PICK job : job = [task[t] EXCEPT !.pc = pc, !.n = n]
    OBVIOUS
  <2>2. job.pc = pc
    BY <2>1, JobType DEF Job
  <2>3. task' = [task EXCEPT ![t] = job]
    BY <1>1, <2>1 DEF Step
  <2> QED BY <2>2, <2>3 DEF XpFrame
<1>2. CASE Goto(t, pc)
  <2>1. PICK job : job = [task[t] EXCEPT !.pc = pc]
    OBVIOUS
  <2>2. job.pc = pc
    BY <2>1, JobType DEF Job
  <2>3. task' = [task EXCEPT ![t] = job]
    BY <1>2, <2>1 DEF Goto, Step
  <2> QED BY <2>2, <2>3 DEF XpFrame
<1> QED BY <1>1, <1>2

\* Starting an XP command meets nobody: it neither changes nor uses the registration.
LEMMA StartXpFrame ==
  ASSUME Types, NEW t \in Tasks, NEW job, job.pc \in XpPcs, Start(t, job), UNCHANGED accountVars
  PROVE  XpFrame(t)
<1>1. ~Meets(t, job.pc)
  BY XpPcsAside DEF Meets
<1>2. history.tangled \in BOOLEAN
  BY FlagsOf DEF Types, WorldOK, Flags
<1>3. (history.tangled \/ Meets(t, job.pc)) = history.tangled
  BY <1>1, <1>2
<1>4. history' = [history EXCEPT !["tangled"] = history.tangled]
  BY <1>3 DEF Start
<1>5. UNCHANGED history
  BY <1>4, FlagsOf DEF Types, WorldOK
<1> QED BY <1>5 DEF XpFrame, Start

LEMMA XpCommandFrame ==
  ASSUME Types, NEW t \in Tasks, XpCommand(t)
  PROVE  XpFrame(t) /\ task[t].pc \notin Changing
<1>p. task[t].pc \notin Changing
  BY DEF XpCommand, CommitRefresh, ChangeXp, IncrementXp, AwardAdminEventXp, ReadXp, UpdateLevel,
         Recalculate, SumEvents, CompareTotal, RewriteXp, Start, Free, Changing
<1> SUFFICES XpFrame(t)
  BY <1>p
<1>u. UNCHANGED accountVars
  BY DEF XpCommand, CommitRefresh, ChangeXp, IncrementXp, AwardAdminEventXp, ReadXp, UpdateLevel,
         Recalculate, SumEvents, CompareTotal, RewriteXp
<1>e. CASE (Finish(t) /\ UNCHANGED history) \/ GiveUp(t)
  BY <1>e, <1>u, EndFrame
<1>1. CASE CommitRefresh(t) \/ UpdateLevel(t) \/ RewriteXp(t)
  BY <1>1, <1>e, JobType DEF CommitRefresh, UpdateLevel, RewriteXp, Job
<1>2. CASE IncrementXp(t) \/ AwardAdminEventXp(t) \/ CompareTotal(t)
  <2>1. CASE \E pc \in XpPcs : Goto(t, pc) /\ UNCHANGED history
    BY <1>u, <2>1, MoveOnFrame
  <2> QED BY <1>2, <1>e, <2>1 DEF IncrementXp, AwardAdminEventXp, CompareTotal, XpPcs
<1>3. CASE ReadXp(t) \/ SumEvents(t)
  <2>1. CASE \E pc \in XpPcs : \E n : Step(t, [task[t] EXCEPT !.pc = pc, !.n = n]) /\ UNCHANGED history
    BY <1>u, <2>1, MoveOnFrame
  <2> QED BY <1>3, <1>e, <2>1 DEF ReadXp, SumEvents, XpPcs
<1>4. CASE ChangeXp(t)
  <2>1. PICK a \in Amounts, sign \in {1, -1} :
          Start(t, [Idle EXCEPT !.pc = "granting", !.id = user.id, !.n = sign * Clamped(a)])
    BY <1>4 DEF ChangeXp
  <2>2. PICK job : job = [Idle EXCEPT !.pc = "granting", !.id = user.id, !.n = sign * Clamped(a)]
    OBVIOUS
  <2>3. job.pc \in XpPcs
    BY <2>2 DEF Idle, XpPcs
  <2> QED BY <1>u, <2>1, <2>2, <2>3, StartXpFrame
<1>5. CASE Recalculate(t)
  <2>2. PICK job : job = [Idle EXCEPT !.pc = "summing", !.id = user.id]
    OBVIOUS
  <2>3. job.pc \in XpPcs
    BY <2>2 DEF Idle, XpPcs
  <2> QED BY <1>5, <1>u, <2>2, <2>3, StartXpFrame DEF Recalculate
<1> QED BY <1>1, <1>2, <1>3, <1>4, <1>5 DEF XpCommand

LEMMA XpCommandKeepsRegistration ==
  ASSUME Types, Registration, ~history.tangled, NEW t \in Tasks, XpCommand(t)
  PROVE  Kept
<1>h. history \in [Flags -> BOOLEAN]
  BY FlagsOf DEF Types, WorldOK
<1>1. XpFrame(t) /\ task[t].pc \notin Changing
  BY XpCommandFrame
<1>2. PICK job : job.pc \in XpPcs /\ task' = [task EXCEPT ![t] = job]
  BY <1>1 DEF XpFrame
<1>3. \A f \in Flags \ {"failed"} : history'[f] = history[f]
  BY <1>1, <1>h DEF XpFrame, Flags
<1>4. Grows
  BY <1>1, <1>h DEF XpFrame, Flags, Grows
<1>5. job.pc \notin Changing /\ job.pc \notin Using
  BY <1>2, XpPcsAside
<1>6. Knows(job)'
  BY <1>5, NothingToKnow DEF Using, Changing
<1>7. OwnStats'
  BY <1>1, <1>3 DEF XpFrame, accountVars, Registration, OwnStats, Flags
<1>8. Mirrored
  BY <1>1, <1>3, SameRowsMap DEF XpFrame, accountVars, Flags
<1> QED BY <1>1, <1>2, <1>4, <1>5, <1>6, <1>7, <1>8, BesideKeeps DEF Kept, XpFrame, accountVars

\* A step of nobody's task, while no task changes the registration.
LEMMA BystanderKeeps ==
  ASSUME Types, Registration, ~history.tangled, UNCHANGED task, ~SomeChanging,
         user'.id = user.id, user'.mc = user.mc, Grows,
         role' => present' /\ (user'.active \/ history'.failed \/ history'.missed),
         OwnStats'
  PROVE  Registration'
<1>1. Alone'
  BY DEF Registration, Alone
<1>2. ASSUME NEW u \in Tasks PROVE Knows(task[u])'
  <2>1. PICK other : other = task[u]
    OBVIOUS
  <2>2. Knows(other) /\ other.pc \notin Changing
    BY <2>1 DEF Registration, SomeChanging
  <2>3. Knows(other)'
    <3>1. CASE other.pc = "recording"
      BY <2>2, <3>1 DEF Knows, Exists
    <3>2. CASE other.pc # "recording"
      <4>1. other.pc \notin Changing \cup {"seeding", "recording"}
        BY <2>2, <3>2 DEF Changing
      <4> QED BY <4>1, NothingToKnow
    <3> QED BY <3>1, <3>2
  <2> QED BY <2>1, <2>3 DEF Knows, Exists
<1>3. RoleOwed'
  BY DEF RoleOwed
<1> QED BY <1>1, <1>2, <1>3 DEF Registration

\* Without a task at work on the registration, whoever has the role is registered.
LEMMA SettledRole ==
  ASSUME Registration, ~history.tangled, ~SomeChanging
  PROVE  role => present /\ (user.active \/ history.failed \/ history.missed)
BY DEF Registration, RoleOwed, SomeChanging, Changing

LEMMA DiscordKeepsRegistration ==
  ASSUME Types, Registration, ~history.tangled, EarnOnDiscord
  PROVE  Kept
<1> SUFFICES ASSUME ~history'.tangled PROVE Registration' /\ Mirrored
  BY DEF Kept
<1>h. history \in [Flags -> BOOLEAN]
  BY FlagsOf DEF Types, WorldOK
<1>u. /\ UNCHANGED <<user, role, present, task>> /\ user.id # 0 /\ user.mc \in Minecraft
      /\ baseline' = [baseline EXCEPT ![Discord] = user.mc] /\ Discord \in Stats
  BY UserType DEF EarnOnDiscord, NoUser, Stats
<1>1. ~SomeChanging /\ \A f \in Flags : history'[f] = history[f]
  BY <1>h DEF EarnOnDiscord, Flags
<1>2. OwnStats'
  <2>1. \A s \in Stats : baseline'[s] \in {baseline[s], user.mc}
    BY <1>u DEF Types, RowsOK
  <2> QED BY <1>1, <1>u, <2>1 DEF Registration, OwnStats, Flags
<1>3. Grows
  BY <1>1 DEF Grows
<1>4. role' => present' /\ (user'.active \/ history'.failed \/ history'.missed)
  BY <1>1, <1>u, SettledRole DEF Flags
<1>5. Mirrored
  BY <1>u, <1>1, RecordMaps DEF Flags
<1> QED BY <1>1, <1>2, <1>3, <1>4, <1>5, <1>u, BystanderKeeps

\* Departures and returns, as Discord tells of them.
LEMMA MembersKeepRegistration ==
  ASSUME Types, Registration, ~history.tangled, Leave \/ HandleLeft
  PROVE  Kept
<1> SUFFICES ASSUME ~history'.tangled PROVE Registration' /\ Mirrored
  BY DEF Kept
<1>h. history \in [Flags -> BOOLEAN]
  BY FlagsOf DEF Types, WorldOK
<1>1. /\ ~SomeChanging /\ \A f \in Flags \ {"missed"} : history'[f] = history[f]
      /\ history.missed => history'.missed
  BY <1>h DEF Leave, HandleLeft, Flags
<1>u. UNCHANGED <<baseline, task>>
  BY DEF Leave, HandleLeft
<1>2. Grows
  BY <1>1 DEF Grows
<1>3. /\ user'.id = user.id /\ user'.mc = user.mc /\ Mirrored
      /\ role' => present' /\ (user'.active \/ history'.failed \/ history'.missed)
  <2>1. CASE Leave
    <3>1. UNCHANGED user /\ role' = FALSE
      BY <2>1 DEF Leave
    <3>2. Mirrored
      BY <1>1, <1>u, <3>1, SameRowsMap DEF Flags
    <3> QED BY <3>1, <3>2
  <2>2. CASE HandleLeft
    <3>1. /\ SetActive(FALSE) \/ (UNCHANGED user /\ history'.missed)
          /\ UNCHANGED <<role, present>> /\ (present => history'.missed)
      BY <1>h, <2>2 DEF HandleLeft, Flags
    <3>2. user'.id = user.id /\ user'.mc = user.mc /\ Mirrored
      <4>1. CASE SetActive(FALSE)
        BY <1>u, <4>1, SetActiveMaps
      <4>2. CASE UNCHANGED user
        BY <1>1, <1>u, <4>2, SameRowsMap DEF Flags
      <4> QED BY <3>1, <4>1, <4>2
    <3> QED BY <3>1, <3>2 DEF Registration, RoleOwed
  <2> QED BY <2>1, <2>2
<1>4. OwnStats'
  BY <1>1, <1>3, <1>u DEF Registration, OwnStats, Flags
<1> QED BY <1>1, <1>2, <1>3, <1>4, <1>u, BystanderKeeps

\* A step after which the rows, the role and the tasks are as they were.
LEMMA SameKeepsRegistration ==
  ASSUME Types, Registration, UNCHANGED <<user, baseline, role, task, history>>,
         present => present'
  PROVE  Kept
<1>1. CASE history.tangled
  BY <1>1 DEF Kept
<1>2. CASE ~history.tangled
  <2>1. Alone' /\ RoleOwed' /\ OwnStats'
    BY <1>2 DEF Registration, Alone, RoleOwed, OwnStats
  <2>2. \A t \in Tasks : Knows(task[t])'
    BY <1>2 DEF Registration, Knows, Exists
  <2>3. Mirrored
    BY SameRowsMap
  <2> QED BY <2>1, <2>2, <2>3 DEF Kept, Registration
<1> QED BY <1>1, <1>2

\* A task is cut short, or all of them: what was under way is not known any more.
LEMMA CutKeepsRegistration ==
  ASSUME Types, Registration, ~history.tangled, (\E t \in Tasks : Fail(t)) \/ Restart
  PROVE  Kept
<1>h. history \in [Flags -> BOOLEAN]
  BY FlagsOf DEF Types, WorldOK
<1>u. UNCHANGED <<user, baseline, role, present>>
  BY DEF Fail, Restart, accountVars
<1>1. /\ \A f \in Flags \ {"failed", "missed"} : history'[f] = history[f]
      /\ history'.failed
  BY <1>h DEF Fail, Restart, Flags
<1>2. \A u \in Tasks : task'[u] = task[u] \/ task'[u] = Idle
  BY DEF Fail, Restart, Types, TasksOK
<1>i. Idle.pc \notin Changing \cup Using
  BY DEF Idle, Changing, Using
<1>3. Alone'
  BY <1>2, <1>i DEF Registration, Alone
<1>4. ASSUME NEW u \in Tasks PROVE Knows(task[u])'
  <2>1. PICK other : other = task'[u]
    OBVIOUS
  <2>2. CASE other.pc \notin Changing \cup {"seeding", "recording"}
    BY <2>1, <2>2, NothingToKnow DEF Knows, Exists
  <2>3. CASE other = task[u]
    <3>1. Knows(other)
      BY <2>3 DEF Registration
    <3>2. Knows(other)'
      BY <1>1, <1>u, <3>1 DEF Knows, Exists, Flags
    <3> QED BY <2>1, <3>2 DEF Knows, Exists
  <2> QED BY <1>2, <1>i, <2>1, <2>2, <2>3 DEF Using, Changing
<1>5. RoleOwed' /\ OwnStats'
  BY <1>1, <1>u DEF Registration, RoleOwed, OwnStats, Flags
<1>6. Mirrored
  BY <1>1, <1>u, SameRowsMap DEF Flags
<1> QED BY <1>3, <1>4, <1>5, <1>6 DEF Kept, Registration
-----------------------------------------------------------------------------
(* The registration under every step *)

LEMMA NextGrows ==
  ASSUME Types, [Next]_vars
  PROVE  Grows
<1>h. history \in [Flags -> BOOLEAN]
  BY FlagsOf DEF Types, WorldOK
<1>1. ASSUME NEW t \in Tasks, XpCommand(t) PROVE Grows
  <2>1. XpFrame(t)
    BY <1>1, XpCommandFrame
  <2> QED BY <1>h, <2>1 DEF XpFrame, Grows, Flags
<1>2. ASSUME NEW t \in Tasks, Wipe(t) \/ Delete(t) \/ Fail(t) PROVE Grows
  BY <1>2, <1>h DEF Wipe, WipeUserStats, Delete, DeleteUser, Fail, GiveUp, Grows, Flags
<1>3. CASE EarnOnDiscord
  BY <1>3, <1>h DEF EarnOnDiscord, Grows, Flags
<1>4. CASE Leave \/ Rejoin \/ HandleLeft \/ Restart
  BY <1>4, <1>h DEF Leave, Rejoin, HandleLeft, Restart, Grows, Flags
<1>5. CASE UNCHANGED vars
  BY <1>5 DEF vars, Grows
<1> QED BY <1>1, <1>2, <1>3, <1>4, <1>5, AccountStepGrows DEF Next, XpStep, XpCommand

LEMMA RegistrationKept ==
  ASSUME Types, Registration, [Next]_vars
  PROVE  Registration' /\ Mirrored
<1>1. CASE history'.tangled
  BY <1>1, OverlapMaps DEF Registration
<1>2. CASE ~history'.tangled
  <2>1. ~history.tangled
    BY <1>2, NextGrows DEF Grows, Flags
  <2> SUFFICES Kept
    BY <1>2 DEF Kept
  <2>2. ASSUME NEW t \in Tasks, XpStep(t) PROVE Kept
    BY <2>1, <2>2, XpCommandKeepsRegistration, WipeKeepsRegistration, DeleteKeepsRegistration,
       CutKeepsRegistration DEF XpStep, XpCommand
  <2>3. CASE Rejoin
    BY <2>3, SameKeepsRegistration DEF Rejoin
  <2>4. CASE UNCHANGED vars
    BY <2>4, SameKeepsRegistration DEF vars, accountVars
  <2> QED BY <2>1, <2>2, <2>3, <2>4, AccountStepKeepsRegistration, DiscordKeepsRegistration,
             MembersKeepRegistration, CutKeepsRegistration DEF Next
<1> QED BY <1>1, <1>2

LEMMA InitRegistration ==
  ASSUME Init
  PROVE  Registration /\ Member!Init
<1>1. /\ user = NoUser /\ baseline = NoStats /\ role = FALSE /\ history = NoHistory
      /\ \A t \in Tasks : task[t] = Idle
  BY DEF Init, AccountsInit
<1>2. ~history.tangled /\ ~history.foreign /\ ~history.reseeded
  BY <1>1 DEF NoHistory
<1>3. Idle.pc = "idle"
  BY DEF Idle
<1>4. Alone /\ RoleOwed /\ OwnStats
  BY <1>1, <1>2, <1>3 DEF Alone, RoleOwed, OwnStats, NoStats, Changing
<1>5. ASSUME NEW t \in Tasks PROVE Knows(task[t])
  BY <1>1, <1>3 DEF Knows
<1>6. Standing = "unknown" /\ user.mc = Nobody /\ OnRecord = {}
  BY <1>1, <1>2 DEF Standing, OnRecord, NoUser, NoStats
<1> QED BY <1>4, <1>5, <1>6 DEF Registration, Member!Init

LEMMA AlwaysRegistration == Spec => []Registration
<1>1. Init => Registration
  BY InitRegistration
<1>2. IInv /\ Registration /\ [Next]_vars => Registration'
  BY RegistrationKept DEF IInv
<1> QED BY <1>1, <1>2, InductiveInvariant, PTL DEF Spec

\* A member with the registered role has an active registration once no task is
\* under way and no member event is left to handle, in whatever order the role is
\* given and the row is written: unless two commands met, one gave up, or Discord's
\* word of a departure or return was lost.
THEOREM RoleAlwaysRegistered == Spec => []RoleMeansRegistered
<1>1. Registration => RoleMeansRegistered
  BY DEF Registration, RoleOwed, RoleMeansRegistered, Quiet, Busy
<1> QED BY <1>1, AlwaysRegistration, PTL

\* A reward is never computed from readings of two Minecraft accounts: the wipe of
\* a return with another account is over before anything is read again.
THEOREM NeverForeignDelta == Spec => []NoForeignDelta
<1>1. Registration => NoForeignDelta
  BY DEF Registration, OwnStats, NoForeignDelta
<1> QED BY <1>1, AlwaysRegistration, PTL

\* Nobody's baselines are seeded over, but by force or where commands met.
THEOREM AlwaysSeededOnce == Spec => []SeededOnce
<1>1. Registration => SeededOnce
  BY DEF Registration, OwnStats, SeededOnce
<1> QED BY <1>1, AlwaysRegistration, PTL

\* The commands, member events, sweeps and failures implement Membership: as long
\* as the commands take turns, each of their queries is one of its steps or none.
THEOREM AccountsImplementMembership == Spec => ImplementsMembership
<1>1. Init => Member!Init
  BY InitRegistration
<1>2. IInv /\ Registration /\ [Next]_vars => [Member!Next]_(Member!mvars)
  BY RegistrationKept DEF IInv, Mirrored
<1> QED BY <1>1, <1>2, InductiveInvariant, AlwaysRegistration, PTL
        DEF Spec, ImplementsMembership, Member!Spec
=============================================================================
