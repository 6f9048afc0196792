------------------------------ MODULE GuildConfig ------------------------------
(***************************************************************************)
(* A guild's configuration: one JSON value in the guilds table, read,      *)
(* changed in one place and written back whole by every settings command,  *)
(* and the copy the Discord tracker works with, which lives in memory for  *)
(* some minutes and is filled by the commands and by the tracker alike.    *)
(* Nothing orders any two of them.                                         *)
(***************************************************************************)
EXTENDS Integers

CONSTANTS Commands,    \* the settings commands that may run at once
          Trackers,    \* the tracker's tasks that may look the configuration up at once
          Stats,       \* the entries of xp_config
          Options,     \* the role and channel settings
          Clearable,   \* those a command clears (all but registered_role_id)
          Values,      \* what a setting may be set to
          Unset, NoValue,
          Default,     \* GuildConfig::default()
          TTL,         \* GUILD_CONFIG_TTL, in ticks
          MaxJobs,     \* bound: settings commands
          MaxFailures  \* bound: failed queries and restarts, together

Settings == Stats \cup Options
Configs == [Settings -> Values \cup {Unset}]

ASSUME SettingsAssumption == Stats \cap Options = {} /\ Clearable \subseteq Options
ASSUME ValuesAssumption == Unset \notin Values /\ NoValue \notin Values /\ NoValue # Unset
ASSUME DefaultAssumption == Default \in Configs
ASSUME LifetimeAssumption == TTL \in Nat \ {0} /\ MaxJobs \in Nat /\ MaxFailures \in Nat

VARIABLES
  stored,    \* guilds.config_json
  cached,    \* the guild's entry in Data.guild_configs, with its age
  command,   \* what each command is doing
  tracker,   \* what each task of the tracker is doing
  jobs,      \* commands begun (for MaxJobs)
  failures,  \* failures and restarts (for MaxFailures)
  said,      \* history: each setting as the last command that changed it has left it
  met,       \* history: a command read what another was about to overwrite
  crossed    \* history: something kept an older configuration while a newer one was written

bounds == <<jobs, failures>>
history == <<said, met, crossed>>
vars == <<stored, cached, command, tracker, bounds, history>>

NoEntry == [there |-> FALSE, config |-> Default, age |-> 0]
FreshMutantNoLifetime == cached.there

Fresh == cached.there /\ cached.age < TTL

Request(op, setting, value) == [op |-> op, setting |-> setting, value |-> value]
\* add-bedwars and add-discord, edit, remove; set and clear of an option
Requests ==
  {Request(op, s, v) : op \in {"add", "edit"}, s \in Stats, v \in Values}
    \cup {Request("remove", s, NoValue) : s \in Stats}
    \cup {Request("set", s, v) : s \in Options, v \in Values}
    \cup {Request("clear", s, NoValue) : s \in Clearable}

Idle == [pc |-> "idle"]
Asleep == [pc |-> "idle"]

Init ==
  /\ stored = Default
  /\ cached = NoEntry
  /\ command = [c \in Commands |-> Idle]
  /\ tracker = [t \in Trackers |-> Asleep]
  /\ jobs = 0
  /\ failures = 0
  /\ said = Default
  /\ met = FALSE
  /\ crossed = FALSE
-----------------------------------------------------------------------------
(* The settings commands *)

Writing(c) == command[c].pc = "writing"
Caching(c) == command[c].pc = "caching"

Begin(c, r) ==
  /\ command[c].pc = "idle"
  /\ jobs < MaxJobs
  /\ jobs' = jobs + 1
  /\ command' = [command EXCEPT ![c] = [pc |-> "reading", request |-> r]]
  /\ UNCHANGED <<stored, cached, tracker, failures, history>>

\* What a command may not do to the configuration it has read.
Refused(r, config) ==
  \/ r.op = "add" /\ config[r.setting] # Unset
  \/ r.op \in {"edit", "remove"} /\ config[r.setting] = Unset

ValueOf(r) == IF r.op \in {"remove", "clear"} THEN Unset ELSE r.value
Changed(config, r) == [config EXCEPT ![r.setting] = ValueOf(r)]

\* The commands read the table, never the tracker's copy.
LoadedMutantFromCache == IF Fresh THEN cached.config ELSE stored

Loaded == stored

\* load_guild_config, the check, and the change of the copy that was read
Read(c) ==
  LET r == command[c].request
  IN  /\ command[c].pc = "reading"
      /\ command' = [command EXCEPT ![c] =
           IF Refused(r, Loaded) THEN Idle
           ELSE [pc |-> "writing", request |-> r, config |-> Changed(Loaded, r)]]
      /\ met' = (met \/ (~Refused(r, Loaded) /\ \E other \in Commands \ {c} : Writing(other)))
      /\ UNCHANGED <<stored, cached, tracker, bounds, said, crossed>>

\* update_guild_config replaces the whole value.
Write(c) ==
  LET cmd == command[c]
  IN  /\ Writing(c)
      /\ stored' = cmd.config
      /\ said' = [said EXCEPT ![cmd.request.setting] = ValueOf(cmd.request)]
      /\ crossed' = (crossed \/ (\E t \in Trackers : tracker[t].pc = "filling")
                             \/ (\E other \in Commands : Caching(other)))
      /\ command' = [command EXCEPT ![c].pc = "caching"]
      /\ UNCHANGED <<cached, tracker, bounds, met>>

\* guild_configs.insert with the configuration that was written
KeptMutantForgotten(config) == cached

Kept(config) == [there |-> TRUE, config |-> config, age |-> 0]

Cache(c) ==
  /\ Caching(c)
  /\ cached' = Kept(command[c].config)
  /\ command' = [command EXCEPT ![c] = Idle]
  /\ UNCHANGED <<stored, tracker, bounds, history>>
-----------------------------------------------------------------------------
(* The tracker: get_guild_config_cached *)

\* A fresh entry is used as it is; otherwise the table is read.
LookUp(t) ==
  /\ tracker[t].pc = "idle"
  /\ ~Fresh
  /\ tracker' = [tracker EXCEPT ![t] = [pc |-> "fetching"]]
  /\ UNCHANGED <<stored, cached, command, bounds, history>>

Fetched(t, config) == tracker' = [tracker EXCEPT ![t] = [pc |-> "filling", config |-> config]]

\* A query that fails is logged, and the default configuration taken in its place.
Fetch(t) ==
  /\ tracker[t].pc = "fetching"
  /\ \/ Fetched(t, stored) /\ UNCHANGED <<failures, crossed>>
     \/ /\ failures < MaxFailures
        /\ failures' = failures + 1
        /\ Fetched(t, Default)
        /\ crossed' = TRUE
  /\ UNCHANGED <<stored, cached, command, jobs, said, met>>

Fill(t) ==
  /\ tracker[t].pc = "filling"
  /\ cached' = [there |-> TRUE, config |-> tracker[t].config, age |-> 0]
  /\ tracker' = [tracker EXCEPT ![t] = Asleep]
  /\ UNCHANGED <<stored, command, bounds, history>>
-----------------------------------------------------------------------------
(* Time and failures *)

Tick ==
  /\ cached.there /\ cached.age < TTL
  /\ cached' = [cached EXCEPT !.age = @ + 1]
  /\ UNCHANGED <<stored, command, tracker, bounds, history>>

Fails == failures < MaxFailures /\ failures' = failures + 1

\* A query of a command fails: nothing is written and the command is over.
FailCommand(c) ==
  /\ command[c].pc \in {"reading", "writing"}
  /\ Fails
  /\ command' = [command EXCEPT ![c] = Idle]
  /\ UNCHANGED <<stored, cached, tracker, jobs, history>>

Restart ==
  /\ Fails
  /\ cached' = NoEntry
  /\ command' = [c \in Commands |-> Idle]
  /\ tracker' = [t \in Trackers |-> Asleep]
  /\ UNCHANGED <<stored, jobs, history>>

CommandStep(c) == Read(c) \/ Write(c) \/ Cache(c)
TrackerStep(t) == Fetch(t) \/ Fill(t)

Next ==
  \/ \E c \in Commands : (\E r \in Requests : Begin(c, r)) \/ CommandStep(c) \/ FailCommand(c)
  \/ \E t \in Trackers : LookUp(t) \/ TrackerStep(t)
  \/ Tick
  \/ Restart

\* Time passes, and a task that was begun runs on.
Fairness ==
  /\ WF_vars(Tick)
  /\ \A c \in Commands : WF_vars(CommandStep(c))
  /\ \A t \in Trackers : WF_vars(TrackerStep(t))

Spec == Init /\ [][Next]_vars /\ Fairness
-----------------------------------------------------------------------------
(* Properties *)

\* No change an administrator was told of is undone, unless two commands were
\* between their read and their write at the same time: then the later write
\* brings back what the earlier one had changed.  A refused, failed or restarted
\* command, and whatever the tracker's copy holds, undo nothing.
NoLostChange == met \/ \A s \in Settings : stored[s] = said[s]

\* What the tracker works with is the stored configuration as soon as the command
\* that changed it is done, and not only when the lifetime is over, unless the
\* change crossed a fetch or another command's insert, or a fetch failed.
CacheFollows ==
  (Fresh /\ ~crossed /\ \A c \in Commands : ~Caching(c)) => cached.config = stored

\* Whatever crossed or failed, the tracker does not stay with an old configuration
\* for good: once the commands are over, its copy is right or has run out.
StalenessEnds == <>[](Fresh => cached.config = stored)
=============================================================================
