-------------------------- MODULE DiscordActivity --------------------------
(***************************************************************************)
(* discord_stats: messages, reactions and commands of one user.  Every     *)
(* message is counted raw; a message that validate_message lets through is *)
(* counted again.  Validation keeps two maps in memory, each behind a lock *)
(* of its own, so two messages may pass between the two checks.            *)
(***************************************************************************)
EXTENDS DiscordStats

CONSTANTS Texts,            \* contents that pass the length, prefix and letter tests
          Noise,            \* a content that fails one of them
          Plain,            \* stats counted as they are: reactions_added, commands_used
          Cooldown,         \* message_cooldown_seconds
          Rates,            \* per stat, the XP of either sign a unit may bring under a cached
                            \* guild config; 0 when it gives none, or could not be read
          MaxEvents         \* bound: Discord events

Nothing == "nothing"

ASSUME ActivityAssumption ==
  /\ Cooldown \in Nat \ {0} /\ Rates \in [Stats -> SUBSET Int]
  /\ Noise \notin Texts /\ Nothing \notin Texts
  /\ Stats = Plain \cup {"raw", "messages"}
  /\ MaxEvents \in Nat

VARIABLES
  text,          \* the content of the message each task handles
  lastMessage,   \* MessageValidationState.last_message of the user
  lastCounted,   \* MessageValidationState.last_counted of the user
  passed,        \* history: when this process's validations said yes, in order
  events

memory == <<lastMessage, lastCounted>>
activityVars == <<clock, userVars, rowVars, job, text, memory, passed, events, disturbances>>

Never == -1

ActivityInit ==
  /\ StatsInit
  /\ text = [h \in Handlers |-> Nothing]
  /\ lastMessage = Nothing
  /\ lastCounted = Never
  /\ passed = <<>>
  /\ events = 0

Arrives(h) == h \in Idle /\ events < MaxEvents /\ events' = events + 1

PassesMutantAny(t) == TRUE
Passes(t) == t # Noise

\* FullEvent::Message, up to the first await.  The tests of validate_message
\* that look at the content alone are decided here.
Message(h, t) ==
  /\ Arrives(h)
  /\ job' = [job EXCEPT ![h] = Job("raw", 1, IF Passes(t) THEN "duplicate" ELSE "idle")]
  /\ text' = [text EXCEPT ![h] = IF Passes(t) THEN t ELSE Nothing]
  /\ UNCHANGED <<clock, userVars, rowVars, memory, passed, disturbances>>

\* FullEvent::ReactionAdd, and the hook before a command.
OneOf(h, stat) ==
  /\ Arrives(h)
  /\ job' = [job EXCEPT ![h] = Job(stat, 1, "idle")]
  /\ UNCHANGED <<clock, userVars, rowVars, text, memory, passed, disturbances>>

Rejected(h) == /\ job' = [job EXCEPT ![h] = NoJob]
               /\ text' = [text EXCEPT ![h] = Nothing]

\* Under the lock of last_message.
CheckDuplicate(h) ==
  /\ job[h].pc = "duplicate"
  /\ IF lastMessage = text[h]
     THEN Rejected(h) /\ UNCHANGED lastMessage
     ELSE lastMessage' = text[h] /\ Goto(h, "cooldown") /\ UNCHANGED text
  /\ UNCHANGED <<clock, userVars, rowVars, lastCounted, passed, events, disturbances>>

Waited == lastCounted = Never \/ clock - lastCounted >= Cooldown

CountedAtMutantArrival(h) == job[h].at
\* OffsetDateTime::now_utc(), not the time the message came in.
CountedAt(h) == clock

\* Under the lock of last_counted, where the time is taken too.
CheckCooldown(h) ==
  /\ job[h].pc = "cooldown"
  /\ IF Waited
     THEN /\ lastCounted' = CountedAt(h)
          /\ passed' = Append(passed, clock)
          /\ job' = [job EXCEPT ![h] = Job("messages", 1, "idle")]
          /\ text' = [text EXCEPT ![h] = Nothing]
     ELSE Rejected(h) /\ UNCHANGED <<lastCounted, passed>>
  /\ UNCHANGED <<clock, userVars, rowVars, lastMessage, events, disturbances>>

IncrementStat(h) ==
  /\ \/ LookUp(h) \/ ReadSnapshot(h) \/ InsertSnapshot(h) \/ CheckBan(h)
     \/ /\ job[h].pc = "commit"
        /\ \E rate \in Rates[job[h].stat] : Commit(h, job[h].by * rate)
  /\ UNCHANGED <<clock, text, memory, passed, events, disturbances>>

Fail(h) ==
  /\ Disturb
  /\ FailIncrement(h)
  /\ UNCHANGED <<clock, text, memory, passed, events>>

MemberChanges ==
  /\ Disturb
  /\ LeaveOrReturn \/ BanOrUnban
  /\ UNCHANGED <<clock, text, memory, passed, events>>

\* The process dies and starts again: its tasks and its maps are gone.
ProcessRestarts ==
  /\ Disturb
  /\ job' = [h \in Handlers |-> NoJob]
  /\ text' = [h \in Handlers |-> Nothing]
  /\ lastMessage' = Nothing
  /\ lastCounted' = Never
  /\ passed' = <<>>
  /\ UNCHANGED <<clock, userVars, rowVars, events>>

TimePasses ==
  /\ clock < MaxTime
  /\ clock' = clock + 1
  /\ UNCHANGED <<userVars, rowVars, job, text, memory, passed, events, disturbances>>

HandleEvent(h) ==
  \/ \E t \in Texts \cup {Noise} : Message(h, t)
  \/ \E s \in Plain : OneOf(h, s)
  \/ CheckDuplicate(h) \/ CheckCooldown(h) \/ IncrementStat(h) \/ Fail(h)

ActivityNext ==
  \/ \E h \in Handlers : HandleEvent(h)
  \/ MemberChanges \/ ProcessRestarts \/ TimePasses
ActivitySpec == ActivityInit /\ [][ActivityNext]_activityVars
-----------------------------------------------------------------------------
(* What is checked *)

\* The types of the variables, and that a task remembers a content exactly as
\* long as its message has the checks of validate_message before it.
ActivityTypeOK ==
  /\ StatsTypeOK
  /\ text \in [Handlers -> Texts \cup {Nothing}]
  /\ \A h \in Handlers : text[h] = Nothing <=> job[h].next = "idle"
  /\ lastMessage \in Texts \cup {Nothing}
  /\ lastCounted \in (0..MaxTime) \cup {Never}
  /\ passed \in Seq(0..MaxTime)
  /\ events \in 0..MaxEvents

\* validate_message: in one life of the process, two messages of a user that
\* count are at least the cooldown apart, however the tasks of two messages
\* interleave between the two locks and whenever each of them arrived.
CooldownKept ==
  \A i, j \in DOMAIN passed : i < j => passed[j] - passed[i] >= Cooldown

\* increment_stat_by: a user who is banned when the snapshot is written and
\* stays banned is paid nothing; only a ban that comes after the check is late.
BannedEarnNothing ==
  [][\A h \in Handlers : job[h].pc = "commit" /\ ledger' # ledger /\ job'[h] # job[h]
       => job[h].free]_activityVars

\* increment_stat_by: the running total of a stat that is counted in ones is
\* the number of its snapshots, through restarts, failures and bans, as long as
\* no two increments of it ever ran at once; when two did, one may be lost.
SnapshotCounts ==
  \A s \in Stats : latest[s].met \/ latest[s].value = latest[s].written

\* Overlapping increments may miscount the snapshot, but each commit moves the
\* XP by what its own rows earned, and the log of rows only grows.
Ledger == INSTANCE XpLedger WITH ledger <- ledger, xp <- xp
KeepsLedger == Ledger!Spec
=============================================================================
