------------------------------ MODULE Accounts ------------------------------
(***************************************************************************)
(* The registration of one Discord member in one guild: the users row with *)
(* the rows that hang on it, the role that shows it, and the commands,     *)
(* member events and sweeps that work on them.  Each runs as a task of its *)
(* own with no lock around it, and each step here is one query or request, *)
(* after which the others may run.  The XP commands are added by           *)
(* AccountXp.                                                              *)
(***************************************************************************)
EXTENDS Integers, FiniteSets

CONSTANTS Tasks,          \* the tasks that may work on the member at once
          Minecraft,      \* Minecraft accounts whose social link names the member
          Nobody,         \* no account
          Keys,           \* Keys[m]: the counters Hypixel sends for account m
          Discord,        \* stands for the four counters of Discord activity
          MaxJobs,        \* bound: commands, sweeps and activity, together
          MaxDisturbances \* bound: departures, failures and restarts, together

Stats == {Discord} \cup UNION {Keys[m] : m \in Minecraft}

ASSUME AccountsAssumption == Nobody \notin Minecraft /\ Tasks # {}
ASSUME KeysAssumption == DOMAIN Keys = Minecraft /\ \A m \in Minecraft : Discord \notin Keys[m]
ASSUME BoundsAssumption == MaxJobs \in Nat /\ MaxDisturbances \in Nat

VARIABLES
  user,         \* the users row [id, active, mc], id 0 when there is none
  lastId,       \* the id given to the last row
  baseline,     \* per stat, the account its latest snapshot is of
  role,         \* the member has the registered role
  present,      \* the member is in the guild
  notices,      \* member events sent by Discord and not handled yet
  task,         \* what each task is doing
  jobs,         \* jobs started (for MaxJobs)
  disturbances, \* departures, failures and restarts (for MaxDisturbances)
  history       \* what happened so far that a later state is excused by

accountVars == <<user, lastId, baseline, role, present, notices>>
bounds == <<jobs, disturbances>>

NoUser == [id |-> 0, active |-> FALSE, mc |-> Nobody]
NoStats == [s \in Stats |-> Nobody]
Idle == [pc |-> "idle", id |-> 0, mc |-> Nobody, todo |-> {}, again |-> FALSE, n |-> 0]

\* tangled: two tasks met of which one changes the registration; failed: a task
\* gave up part of the way, or found no role to remove; missed: a member event
\* was lost or handled after the next one; forced: a suspended row was
\* registered by force; reseeded: seeds were written over snapshots; foreign: a
\* delta was computed between readings of two accounts.
NoHistory == [tangled |-> FALSE, failed |-> FALSE, missed |-> FALSE, forced |-> FALSE,
              reseeded |-> FALSE, foreign |-> FALSE]

AccountsInit ==
  /\ user = NoUser
  /\ lastId = 0
  /\ baseline = NoStats
  /\ role = FALSE
  /\ present = TRUE
  /\ notices = {}
  /\ task = [t \in Tasks |-> Idle]
  /\ jobs = 0
  /\ disturbances = 0
  /\ history = NoHistory
-----------------------------------------------------------------------------
(* Tasks *)

\* The steps of a task that changes the registration, and of one that uses it.
Changing == {"checking", "forcing", "wiping", "reactivating", "joining", "upserting", "selecting",
             "roling", "seeding", "finding", "deleting", "unroling", "greeting", "restoring",
             "rewarding", "auditing", "fixing"}
Using == {"recording", "crediting"}
Busy(t) == task[t].pc # "idle"
Quiet == \A t \in Tasks : ~Busy(t)

Free(t) == task[t].pc = "idle" /\ jobs < MaxJobs
Meets(t, pc) ==
  \E u \in Tasks \ {t} : \/ task[u].pc \in Changing /\ pc \in Changing \cup Using
                         \/ task[u].pc \in Using /\ pc \in Changing
SomeChanging == \E t \in Tasks : task[t].pc \in Changing

\* A task starts as a new job.
Start(t, job) ==
  /\ Free(t)
  /\ jobs' = jobs + 1
  /\ task' = [task EXCEPT ![t] = job]
  /\ history' = [history EXCEPT !.tangled = @ \/ Meets(t, job.pc)]
  /\ UNCHANGED disturbances

Step(t, job) == task' = [task EXCEPT ![t] = job] /\ UNCHANGED bounds
Goto(t, pc) == Step(t, [task[t] EXCEPT !.pc = pc])
Finish(t) == Step(t, Idle)
GiveUp(t) == Finish(t) /\ history' = [history EXCEPT !.failed = TRUE]
Disturb == disturbances < MaxDisturbances /\ disturbances' = disturbances + 1 /\ UNCHANGED jobs

ExistsMutantNoForeignKey(id) == id # 0

\* The rows of a user go with the user: every child table has ON DELETE CASCADE,
\* and an insert for a user who is gone is refused.
Exists(id) == id # 0 /\ user.id = id
-----------------------------------------------------------------------------
(* Registration *)

\* /register gets past the early returns that come before it looks the member
\* up: the name resolves, the player's social link names the member, and the
\* role is configured.
Register(t) ==
  /\ present
  /\ \E m \in Minecraft : Start(t, [Idle EXCEPT !.pc = "checking", !.mc = m])
  /\ UNCHANGED accountVars

\* The button registers the stored name of an active row; else it takes the name
\* in the nickname, which is Register.
RegisterButton(t) ==
  /\ present /\ user.active
  /\ Start(t, [Idle EXCEPT !.pc = "checking", !.mc = user.mc])
  /\ UNCHANGED accountVars

CheckExistingMutantNeverWipes(t) ==
  /\ task[t].pc = "checking"
  /\ CASE user.id = 0 -> Goto(t, "joining")
       [] user.active -> Finish(t)
       [] OTHER -> Step(t, [task[t] EXCEPT !.again = TRUE, !.pc = "reactivating"])
  /\ UNCHANGED <<accountVars, history>>

\* get_user_by_discord_id_any: an active row is left alone, a suspended one comes
\* back, wiped first if it is another account's.
CheckExisting(t) ==
  /\ task[t].pc = "checking"
  /\ CASE user.id = 0 -> Goto(t, "joining")
       [] user.active -> Finish(t)
       [] OTHER -> Step(t, [task[t] EXCEPT !.again = TRUE,
                            !.pc = IF user.mc # task[t].mc THEN "wiping" ELSE "reactivating"])
  /\ UNCHANGED <<accountVars, history>>

\* wipe_user_stats: all of it or, when the transaction is refused, nothing.  Its eight
\* statements are one query with a bound value, which PostgreSQL refuses to prepare: as
\* long as the query is written like that only the second disjunct is taken.
WipeUserStats(t) ==
  /\ task[t].pc = "wiping"
  /\ \/ baseline' = NoStats /\ Goto(t, "reactivating") /\ UNCHANGED history
     \/ GiveUp(t) /\ UNCHANGED baseline
  /\ UNCHANGED <<user, lastId, role, present, notices>>

SetActive(active) == user' = IF user.id = 0 THEN user ELSE [user EXCEPT !.active = active]

Reactivate(t) ==
  /\ task[t].pc = "reactivating"
  /\ SetActive(TRUE)
  /\ Goto(t, "upserting")
  /\ UNCHANGED <<lastId, baseline, role, present, notices, history>>

UpsertedMutantKeepsActive(m) ==
  IF user.id = 0 THEN [id |-> lastId + 1, active |-> TRUE, mc |-> m] ELSE [user EXCEPT !.mc = m]

\* INSERT INTO users ... ON CONFLICT (discord_user_id, guild_id) DO UPDATE
Upserted(m) ==
  IF user.id = 0 THEN [id |-> lastId + 1, active |-> TRUE, mc |-> m]
  ELSE [user EXCEPT !.active = TRUE, !.mc = m]

RegisterUser(t) ==
  /\ task[t].pc = "upserting"
  /\ user' = Upserted(task[t].mc)
  /\ lastId' = IF user.id = 0 THEN lastId + 1 ELSE lastId
  /\ Goto(t, "selecting")
  /\ history' = [history EXCEPT !.forced = @ \/ (user.id # 0 /\ ~task[t].again)]
  /\ UNCHANGED <<baseline, role, present, notices>>

SelectUserMutantReseeds(t) ==
  /\ task[t].pc = "selecting"
  /\ \/ user.id = 0 /\ GiveUp(t)
     \/ /\ user.id # 0
        /\ Step(t, [task[t] EXCEPT !.pc = "seeding", !.id = user.id,
                                    !.todo = Keys[task[t].mc] \cup {Discord}])
        /\ UNCHANGED history
  /\ UNCHANGED accountVars

\* register_user returns the row it finds now.  A new registration goes on with
\* the seeds, a return with the role.
SelectUser(t) ==
  /\ task[t].pc = "selecting"
  /\ \/ user.id = 0 /\ GiveUp(t)
     \/ /\ user.id # 0
        /\ IF task[t].again THEN Goto(t, "roling")
           ELSE Step(t, [task[t] EXCEPT !.pc = "seeding", !.id = user.id,
                                        !.todo = Keys[task[t].mc] \cup {Discord}])
        /\ UNCHANGED history
  /\ UNCHANGED accountVars

\* Guild::member must find the member; add_role is refused when the bot may not
\* manage the role.
AddRole(t) ==
  /\ task[t].pc = "joining"
  /\ \/ present /\ role' = TRUE /\ Goto(t, "upserting") /\ UNCHANGED history
     \/ GiveUp(t) /\ UNCHANGED role
  /\ UNCHANGED <<user, lastId, baseline, present, notices>>

\* On a return a refused role is only logged.
RestoreRole(t) ==
  /\ task[t].pc = "roling"
  /\ \/ present /\ role' = TRUE /\ Finish(t) /\ UNCHANGED history
     \/ GiveUp(t) /\ UNCHANGED role
  /\ UNCHANGED <<user, lastId, baseline, present, notices>>

\* One snapshot per counter of the first reading, then the Discord counters at 0.
Seed(t) ==
  /\ task[t].pc = "seeding"
  /\ \/ ~Exists(task[t].id) /\ GiveUp(t) /\ UNCHANGED baseline
     \/ \E s \in task[t].todo :
          /\ Exists(task[t].id)
          /\ s = Discord => task[t].todo = {Discord}
          /\ baseline' = [baseline EXCEPT ![s] = task[t].mc]
          /\ history' = [history EXCEPT !.reseeded = @ \/ baseline[s] # Nobody]
          /\ IF task[t].todo = {s} THEN Finish(t)
             ELSE Step(t, [task[t] EXCEPT !.todo = @ \ {s}])
  /\ UNCHANGED <<user, lastId, role, present, notices>>

\* /force-register, past its early returns; no social link is asked for.
ForceRegister(t) ==
  /\ \E m \in Minecraft : Start(t, [Idle EXCEPT !.pc = "forcing", !.mc = m])
  /\ UNCHANGED accountVars

\* get_user_by_discord_id sees active rows only: a suspended one counts as none.
ForceCheck(t) ==
  /\ task[t].pc = "forcing"
  /\ IF user.active THEN Finish(t) ELSE Goto(t, "joining")
  /\ UNCHANGED <<accountVars, history>>
-----------------------------------------------------------------------------
(* The end of a registration *)

\* /unregister and /force-unregister, with the guild configured
Unregister(t) ==
  /\ Start(t, [Idle EXCEPT !.pc = "finding"])
  /\ UNCHANGED accountVars

FindUser(t) ==
  /\ task[t].pc = "finding"
  /\ Step(t, [task[t] EXCEPT !.pc = IF user.id = 0 THEN "unroling" ELSE "deleting", !.id = user.id])
  /\ UNCHANGED <<accountVars, history>>

DeleteUser(t) ==
  /\ task[t].pc = "deleting"
  /\ IF Exists(task[t].id) THEN user' = NoUser /\ baseline' = NoStats
                           ELSE UNCHANGED <<user, baseline>>
  /\ Step(t, [Idle EXCEPT !.pc = "unroling"])
  /\ UNCHANGED <<lastId, role, present, notices, history>>

\* The role is taken from a member who has it; the command ends early when the
\* cached guild has no such role, and fails when the member is gone.
RemoveRole(t) ==
  /\ task[t].pc = "unroling"
  /\ \/ present /\ role' = FALSE /\ Finish(t) /\ UNCHANGED history
     \/ GiveUp(t) /\ UNCHANGED role
  /\ UNCHANGED <<user, lastId, baseline, present, notices>>
-----------------------------------------------------------------------------
(* Members who leave and return *)

\* Discord takes the roles of a member who leaves.  The event is lost when the
\* bot is offline or its intents do not include member events.
Leave ==
  /\ present
  /\ "left" \notin notices
  /\ Disturb
  /\ present' = FALSE
  /\ role' = FALSE
  /\ \E heard \in BOOLEAN :
       /\ notices' = IF heard THEN notices \cup {"left"} ELSE notices
       /\ history' = [history EXCEPT !.missed = @ \/ ~heard, !.tangled = @ \/ SomeChanging]
  /\ UNCHANGED <<user, lastId, baseline, task>>

Rejoin ==
  /\ ~present
  /\ "joined" \notin notices
  /\ present' = TRUE
  /\ notices' \in {notices, notices \cup {"joined"}}
  /\ UNCHANGED <<user, lastId, baseline, role, task, history, bounds>>

\* GuildMemberRemoval: mark_user_inactive, whether or not the member is back.  A
\* query that fails is only logged, and the departure leaves no trace.
HandleLeft ==
  /\ "left" \in notices
  /\ notices' = notices \ {"left"}
  /\ \E done \in BOOLEAN :
       /\ IF done THEN SetActive(FALSE) ELSE UNCHANGED user
       /\ history' = [history EXCEPT !.missed = @ \/ present \/ ~done,
                                     !.tangled = @ \/ SomeChanging]
  /\ UNCHANGED <<lastId, baseline, role, present, task, bounds>>

\* GuildMemberAddition begins a task.
HandleJoined(t) ==
  /\ "joined" \in notices
  /\ task[t].pc = "idle"
  /\ notices' = notices \ {"joined"}
  /\ Step(t, [Idle EXCEPT !.pc = "greeting"])
  /\ history' = [history EXCEPT !.tangled = @ \/ Meets(t, "greeting")]
  /\ UNCHANGED <<user, lastId, baseline, role, present>>

\* It asks for an active row, and then marks the row active; a query that fails
\* there is only logged, and the role is given all the same.
Greet(t) ==
  /\ task[t].pc = "greeting"
  /\ IF user.active THEN Goto(t, "restoring") ELSE Finish(t)
  /\ UNCHANGED <<accountVars, history>>

MarkReturned(t) ==
  /\ task[t].pc = "restoring"
  /\ \/ SetActive(TRUE) /\ UNCHANGED history
     \/ UNCHANGED user /\ history' = [history EXCEPT !.failed = TRUE]
  /\ Goto(t, "rewarding")
  /\ UNCHANGED <<lastId, baseline, role, present, notices>>

\* Errors are ignored here.
RewardRole(t) ==
  /\ task[t].pc = "rewarding"
  /\ role' \in {role, present}
  /\ Finish(t)
  /\ UNCHANGED <<user, lastId, baseline, present, notices, history>>

\* /audit-users with fix: every row is read first ...
Audit(t) ==
  /\ user.id # 0
  /\ Start(t, [Idle EXCEPT !.pc = "auditing", !.again = user.active])
  /\ UNCHANGED accountVars

\* ... then each member is looked for; a request that fails counts as absent ...
LookForMember(t) ==
  /\ task[t].pc = "auditing"
  /\ \E found \in {FALSE, present} :
       /\ IF found = task[t].again THEN Finish(t)
          ELSE Step(t, [task[t] EXCEPT !.pc = "fixing", !.again = found])
       /\ history' = [history EXCEPT !.failed = @ \/ found # present]
  /\ UNCHANGED accountVars

\* ... and the rows that disagree are marked; the role is not touched.
Fix(t) ==
  /\ task[t].pc = "fixing"
  /\ SetActive(task[t].again)
  /\ Finish(t)
  /\ UNCHANGED <<lastId, baseline, role, present, notices, history>>
-----------------------------------------------------------------------------
(* The sweeps, as far as they write for the account they read *)

\* A sweep or a command has read an active row and works from that copy.
RefreshUser(t) ==
  /\ user.active
  /\ Start(t, [Idle EXCEPT !.pc = "recording", !.id = user.id, !.mc = user.mc,
                           !.todo = Keys[user.mc]])
  /\ UNCHANGED accountVars

\* One counter: compared with the latest snapshot, stored if it moved.
RecordReading(t) ==
  /\ task[t].pc = "recording"
  /\ \/ ~Exists(task[t].id) /\ GiveUp(t) /\ UNCHANGED baseline
     \/ \E s \in task[t].todo, moved \in BOOLEAN :
          LET grew == moved /\ baseline[s] # Nobody
              left == task[t].todo \ {s}
          IN  /\ Exists(task[t].id)
              /\ baseline' = IF moved THEN [baseline EXCEPT ![s] = task[t].mc] ELSE baseline
              /\ history' = [history EXCEPT
                               !.foreign = @ \/ (grew /\ baseline[s] # task[t].mc)]
              /\ Step(t, [task[t] EXCEPT !.todo = left, !.n = IF grew THEN @ + 1 ELSE @,
                                         !.pc = IF left = {} THEN "crediting" ELSE @])
  /\ UNCHANGED <<user, lastId, role, present, notices>>
-----------------------------------------------------------------------------
(* Failures *)

\* A query or a request of a task fails and the task is over.
Fail(t) ==
  /\ Busy(t)
  /\ Disturb
  /\ task' = [task EXCEPT ![t] = Idle]
  /\ history' = [history EXCEPT !.failed = TRUE]
  /\ UNCHANGED accountVars

\* A restart loses the tasks and the events not handled.
Restart ==
  /\ Disturb
  /\ task' = [t \in Tasks |-> Idle]
  /\ notices' = {}
  /\ history' = [history EXCEPT !.failed = TRUE, !.missed = @ \/ notices # {}]
  /\ UNCHANGED <<user, lastId, baseline, role, present>>
=============================================================================
