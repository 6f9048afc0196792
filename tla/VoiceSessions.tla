--------------------------- MODULE VoiceSessions ---------------------------
(***************************************************************************)
(* Voice activity of one registered user: vc_sessions opens and closes     *)
(* with the user's moves between channels, and a session that ends is      *)
(* worth minutes, which pay less and less as the day's minutes add up.     *)
(* Every VoiceStateUpdate is a task of its own.  Times are ticks; rates    *)
(* come in a unit that makes the curve's constants whole, XP in Unit-ths   *)
(* of it, which makes the curve itself whole.                              *)
(***************************************************************************)
EXTENDS DiscordStats

CONSTANTS Channels,
          TicksPerMinute,
          DayLength,       \* in ticks
          FloorRate,       \* XP a minute brings in the long run (0.5 in the code)
          HalfDecay,       \* half of what the rate loses per minute (0.01875)
          InitialRates,    \* rewards of voice_minutes a guild config may have, of either sign
          Patience,        \* bound: ticks a task may take
          MaxMoves         \* bound: moves of the user

Out == "out"
NoChannel == "none"

\* A rate is an f64, so among the rates is a dearest one.
ASSUME CurveAssumption ==
  /\ FloorRate \in Nat /\ HalfDecay \in Nat \ {0} /\ InitialRates \subseteq Int
  /\ \E c \in InitialRates : \A d \in InitialRates : d <= c
ASSUME VoiceAssumption ==
  /\ "voice" \in Stats /\ Out \notin Channels
  /\ TicksPerMinute \in Nat \ {0} /\ DayLength \in Nat \ {0}
  /\ Patience \in Nat /\ MaxMoves \in Nat

VARIABLES
  up,        \* the process runs
  where,     \* the channel Discord has the user in
  afk,       \* afk_voice_channel_id: as stored, and as guild_configs has it cached
  sessions,  \* rows of vc_sessions; as history, the time spent in the AFK channel
  minutes,   \* vc_daily_minutes of the user, per day
  cleared,   \* the last midnight at which the cache was cleared
  call,      \* the voice data of each task
  counted,   \* history: the sessions handle_vc_xp was called for
  shared,    \* history: the sessions that two leaves at once were about to end
  spoiled,   \* history: something made the table miss a move
  moves

voiceVars == <<up, where, afk, sessions, minutes, cleared, call, counted, shared, spoiled,
               moves, disturbances>>
vars == <<clock, userVars, rowVars, job, voiceVars>>

Places == Channels \cup {Out}
Cold == -1
Day(t) == t \div DayLength
Days == {Day(t) : t \in 0..MaxTime}

NoCall == [from |-> Out, to |-> Out, began |-> 0, session |-> 0, length |-> 0, day |-> 0,
           prior |-> 0, blind |-> FALSE, earned |-> 0]

Init ==
  /\ StatsInit
  /\ up = TRUE
  /\ where = Out
  /\ \E channel \in Channels \cup {NoChannel} : afk = [stored |-> channel, cached |-> channel]
  /\ sessions = <<>>
  /\ minutes = [d \in Days |-> Cold]
  /\ cleared = 0
  /\ call = [h \in Handlers |-> NoCall]
  /\ counted = <<>>
  /\ shared = {}
  /\ spoiled = FALSE
  /\ moves = 0

Busy == Handlers \ Idle
\* Where the user's time counts.
InVoice(place, afkChannel) == place \in Channels \ {afkChannel}
TrackableMutantAfkCounts(place, afkChannel) == place # Out
Trackable(place, afkChannel) == place # Out /\ place # afkChannel

-----------------------------------------------------------------------------
(* The curve *)

Unit == 4 * HalfDecay

IntegralXpMutantRestarts(t, c) ==
  IF 2 * HalfDecay * t <= c - FloorRate
  THEN Unit * (c * t - HalfDecay * t * t)
  ELSE Unit * FloorRate * t

\* calculate_integral_xp, times Unit: what t minutes of one day are worth.  The
\* rate may reach the floor between two minutes, or start below it.
IntegralXp(t, c) ==
  IF 2 * HalfDecay * t <= c - FloorRate
  THEN Unit * (c * t - HalfDecay * t * t)
  ELSE (c - FloorRate) * (c - FloorRate) + Unit * FloorRate * t

\* The minutes of a session that fall on a day, as handle_vc_xp adds them up.
MinutesOn(s, day) ==
  LET start == IF s.join > day * DayLength THEN s.join ELSE day * DayLength
      until == IF s.open THEN clock ELSE s.leave
      end == IF until < (day + 1) * DayLength THEN until ELSE (day + 1) * DayLength
  IN  IF end > start THEN (end - start) \div TicksPerMinute ELSE 0
TableMinutes(day) == SeqSum([i \in DOMAIN sessions |-> MinutesOn(sessions[i], day)])
-----------------------------------------------------------------------------
(* The user moves *)

\* The gateway reports a move to a process that runs: handle_voice_state_update
\* begins.  What happens while it is down is never reported.
Move(to) ==
  /\ moves < MaxMoves /\ moves' = moves + 1
  /\ to # where
  /\ where' = to
  /\ IF up
     THEN \E h \in Idle :
            /\ job' = [job EXCEPT ![h].pc = "state"]
            /\ call' = [call EXCEPT ![h] = [NoCall EXCEPT !.from = where, !.to = to,
                                                          !.began = clock]]
     ELSE UNCHANGED <<job, call>>
  /\ spoiled' = \/ spoiled \/ Busy # {}
                \/ (~up /\ InVoice(where, afk.stored) # InVoice(to, afk.stored))
  /\ UNCHANGED <<clock, userVars, rowVars, up, afk, sessions, minutes, cleared, counted, shared,
                 disturbances>>

\* Nothing, or the increment, is left for the task.
Drop(h) == job' = [job EXCEPT ![h] = NoJob] /\ call' = [call EXCEPT ![h] = NoCall]

\* With the guild's config at hand: did the move cross into or out of what counts?
Classify(h) ==
  LET was == Trackable(call[h].from, afk.cached)
      is == Trackable(call[h].to, afk.cached)
  IN  /\ job[h].pc = "state"
      /\ IF was = is THEN Drop(h)
         ELSE /\ job' = [job EXCEPT ![h].pc = IF is THEN "join" ELSE "leave", ![h].at = clock]
              /\ call' = [call EXCEPT ![h].from = Out, ![h].to = Out]  \* no longer read
      /\ UNCHANGED <<clock, userVars, rowVars, up, where, afk, sessions, minutes, cleared,
                     counted, shared, spoiled, moves, disturbances>>

Open == {i \in DOMAIN sessions : sessions[i].open}

\* add_vc_session; the index allows one open session per user.
AddSession(h) ==
  /\ job[h].pc = "join"
  /\ sessions' = IF Open = {}
                 THEN Append(sessions, [join |-> job[h].at, leave |-> 0, open |-> TRUE, afk |-> 0])
                 ELSE sessions
  /\ Drop(h)
  /\ UNCHANGED <<clock, userVars, rowVars, up, where, afk, minutes, cleared, counted, shared,
                 spoiled, moves, disturbances>>

ClosableMutantAny == DOMAIN sessions
Closable == Open

AcceptedMutantAny(length) == TRUE
\* The CHECK of the table asks for a leave after the join, to the microsecond.
Accepted(length) == length >= 0

\* end_vc_session is one statement that reads before it locks: its subquery picks
\* the newest open session, and nothing keeps another task from picking it too.
ChooseSession(h, i) ==
  /\ job[h].pc = "leave"
  /\ i \in Closable /\ \A j \in Closable : sessions[j].join <= sessions[i].join
  /\ Goto(h, "ending")
  /\ call' = [call EXCEPT ![h].session = i]
  /\ shared' = IF \E g \in Handlers \ {h} : job[g].pc = "ending" /\ call[g].session = i
               THEN shared \cup {i} ELSE shared
  /\ UNCHANGED <<clock, userVars, rowVars, up, where, afk, sessions, minutes, cleared, counted,
                 spoiled, moves, disturbances>>

\* No session is open.
EndNothing(h) ==
  /\ job[h].pc = "leave"
  /\ Open = {}
  /\ Drop(h)
  /\ UNCHANGED <<clock, userVars, rowVars, up, where, afk, sessions, minutes, cleared, counted,
                 shared, spoiled, moves, disturbances>>

\* The update of the row picked, and its join_time, whether or not the row is
\* still open.  Under a minute, the session is not counted.
EndSession(h) ==
  LET i == call[h].session
      length == job[h].at - sessions[i].join
  IN  /\ job[h].pc = "ending"
      /\ Accepted(length)
      /\ sessions' = [sessions EXCEPT ![i].leave = job[h].at, ![i].open = FALSE]
      /\ IF length < TicksPerMinute THEN Drop(h)
         ELSE /\ Goto(h, "day")
              /\ call' = [call EXCEPT ![h].length = length \div TicksPerMinute]
      /\ UNCHANGED <<clock, userVars, rowVars, up, where, afk, minutes, cleared, counted,
                     shared, spoiled, moves, disturbances>>

\* The table refuses the leave: within one tick, either of the two may have come
\* first.
RefuseLeave(h) ==
  /\ job[h].pc = "ending"
  /\ job[h].at <= sessions[call[h].session].join
  /\ Drop(h)
  /\ spoiled' = TRUE
  /\ UNCHANGED <<clock, userVars, rowVars, up, where, afk, sessions, minutes, cleared, counted,
                 shared, moves, disturbances>>
-----------------------------------------------------------------------------
(* What the session is worth *)

PriorMutantCacheOnly(today) == IF minutes[today] # Cold THEN minutes[today] ELSE 0
\* The minutes so far of the day come from the cache, or from the table, where
\* the session that has just ended is one of them.
Prior(today) == IF minutes[today] # Cold THEN minutes[today] ELSE TableMinutes(today)

ReadDay(h) ==
  LET today == Day(clock)
  IN  /\ job[h].pc = "day"
      /\ Goto(h, "store")
      /\ call' = [call EXCEPT ![h].day = today, ![h].prior = Prior(today)]
      /\ UNCHANGED <<clock, userVars, rowVars, up, where, afk, sessions, minutes, cleared,
                     counted, shared, spoiled, moves, disturbances>>

\* When the table cannot be read, the day begins anew.
ReadDayFails(h) ==
  /\ Disturb
  /\ job[h].pc = "day"
  /\ minutes[Day(clock)] = Cold
  /\ Goto(h, "store")
  /\ call' = [call EXCEPT ![h].day = Day(clock), ![h].prior = 0, ![h].blind = TRUE]
  /\ UNCHANGED <<clock, userVars, rowVars, up, where, afk, sessions, minutes, cleared, counted,
                 shared, spoiled, moves>>

Gain(from, to, c) == IntegralXp(to, c) - IntegralXp(from, c)
Updated(h) == call[h].prior + call[h].length

Earnings(h) == {Gain(call[h].prior, Updated(h), c) : c \in InitialRates}

StoreDay(h, earned) ==
  /\ job[h].pc = "store"
  /\ minutes' = [minutes EXCEPT ![call[h].day] = Updated(h)]
  /\ counted' = Append(counted, [session |-> call[h].session, day |-> call[h].day,
                                 length |-> call[h].length, blind |-> call[h].blind,
                                 earned |-> earned])
  /\ job' = [job EXCEPT ![h] = Job("voice", call[h].length, "idle")]
  /\ call' = [call EXCEPT ![h].earned = earned]
  /\ UNCHANGED <<clock, userVars, rowVars, up, where, afk, sessions, cleared, shared, spoiled,
                 moves>>

\* Nothing is earned when the config has no reward, or could not be read.
StoreDayPaid(h) ==
  \/ (\E earned \in Earnings(h) : StoreDay(h, earned)) /\ UNCHANGED disturbances
  \/ StoreDay(h, 0) /\ Disturb

Increment(h) ==
  /\ LookUp(h) \/ ReadSnapshot(h) \/ InsertSnapshot(h) \/ CheckBan(h) \/ Commit(h, call[h].earned)
  /\ call' = [call EXCEPT ![h] = IF job'[h].pc = "idle" THEN NoCall ELSE @]
  /\ UNCHANGED <<clock, up, where, afk, sessions, minutes, cleared, counted, shared, spoiled,
                 moves, disturbances>>
-----------------------------------------------------------------------------
(* Everything else *)

FailVoice(h) ==
  /\ Disturb
  /\ \/ job[h].pc \in {"join", "leave", "ending"} /\ spoiled' = TRUE
     \/ job[h].pc \in Steps /\ UNCHANGED spoiled
  /\ Drop(h)
  /\ UNCHANGED <<clock, userVars, rowVars, up, where, afk, sessions, minutes, cleared, counted,
                 shared, moves>>

Reconfigured(stored, cached) ==
  /\ afk' = [stored |-> stored, cached |-> cached]
  /\ spoiled' = (spoiled \/ Busy # {} \/ InVoice(where, afk.cached) # InVoice(where, cached))

\* set_afk_vc and its clear command write the guild and then the cache.
SetAfk(channel) ==
  /\ Disturb
  /\ up
  /\ channel # afk.stored
  /\ Reconfigured(channel, channel)
  /\ UNCHANGED <<clock, userVars, rowVars, job, up, where, sessions, minutes, cleared, call,
                 counted, shared, moves>>

\* After five minutes the guild is read again: should that fail, the default
\* config is cached, which has no AFK channel.
ReloadConfig(cached) ==
  /\ Disturb
  /\ up
  /\ cached \in {afk.stored, NoChannel} \ {afk.cached}
  /\ Reconfigured(afk.stored, cached)
  /\ UNCHANGED <<clock, userVars, rowVars, job, up, where, sessions, minutes, cleared, call,
                 counted, shared, moves>>

\* The midnight task, some time after midnight.
ClearDailyMinutes ==
  /\ up
  /\ cleared < Day(clock) /\ cleared' = Day(clock)
  /\ minutes' = [d \in Days |-> Cold]
  /\ UNCHANGED <<clock, userVars, rowVars, job, up, where, afk, sessions, call, counted, shared,
                 spoiled, moves, disturbances>>

\* Open sessions stay open: end_all_active_vc_sessions_for_guild has no caller.
Crash ==
  /\ Disturb
  /\ up /\ up' = FALSE
  /\ job' = [h \in Handlers |-> NoJob]
  /\ call' = [h \in Handlers |-> NoCall]
  /\ minutes' = [d \in Days |-> Cold]
  /\ Reconfigured(afk.stored, afk.stored)
  /\ UNCHANGED <<clock, userVars, rowVars, where, sessions, cleared, counted, shared, moves>>

Restart ==
  /\ ~up /\ up' = TRUE
  /\ cleared' = Day(clock)
  /\ UNCHANGED <<clock, userVars, rowVars, job, where, afk, sessions, minutes, call, counted,
                 shared, spoiled, moves, disturbances>>

Member ==
  /\ Disturb
  /\ LeaveOrReturn \/ BanOrUnban
  /\ UNCHANGED <<clock, up, where, afk, sessions, minutes, cleared, call, counted, shared,
                 spoiled, moves>>

\* The user sits in the AFK channel, and the config in use says so.
InAfk == where = afk.stored /\ where = afk.cached

Tick ==
  /\ clock < MaxTime /\ clock' = clock + 1
  /\ \A h \in Busy : clock - call[h].began < Patience
  /\ sessions' = [i \in DOMAIN sessions |->
                    IF sessions[i].open /\ InAfk
                    THEN [sessions[i] EXCEPT !.afk = @ + 1] ELSE sessions[i]]
  /\ UNCHANGED <<userVars, rowVars, job, up, where, afk, minutes, cleared, call, counted,
                 shared, spoiled, moves, disturbances>>

Handle(h) ==
  \/ Classify(h) \/ AddSession(h)
  \/ (\E i \in DOMAIN sessions : ChooseSession(h, i)) \/ EndNothing(h)
  \/ EndSession(h) \/ RefuseLeave(h)
  \/ ReadDay(h) \/ ReadDayFails(h) \/ StoreDayPaid(h)
  \/ Increment(h) \/ FailVoice(h)

Next ==
  \/ \E to \in Places : Move(to)
  \/ \E h \in Handlers : Handle(h)
  \/ \E channel \in Channels \cup {NoChannel} : SetAfk(channel) \/ ReloadConfig(channel)
  \/ ClearDailyMinutes \/ Crash \/ Restart \/ Member \/ Tick

Spec == Init /\ [][Next]_vars
-----------------------------------------------------------------------------
(* What is checked *)

Rows == [join : Nat, leave : Nat, open : BOOLEAN, afk : Nat]
\* The types of the variables; no session ends before it began.
TypeOK ==
  /\ StatsTypeOK
  /\ up \in BOOLEAN /\ where \in Places /\ spoiled \in BOOLEAN
  /\ afk \in [stored : Channels \cup {NoChannel}, cached : Channels \cup {NoChannel}]
  /\ sessions \in Seq(Rows)
  /\ \A i \in DOMAIN sessions : sessions[i].open \/ sessions[i].join <= sessions[i].leave
  /\ minutes \in [Days -> Nat \cup {Cold}] /\ cleared \in Days
  /\ call \in [Handlers -> [from : Places, to : Places, began : 0..MaxTime, session : Nat,
                            length : Nat, day : Days, prior : Nat, blind : BOOLEAN, earned : Nat]]
  /\ counted \in Seq([session : Nat, day : Days, length : Nat, blind : BOOLEAN, earned : Nat])
  /\ shared \subseteq DOMAIN sessions
  /\ moves \in 0..MaxMoves

\* end_vc_session: whatever fails or restarts, and whichever tasks overlap, a
\* session is counted twice only if a leave picked it while another that had
\* picked it was still on its way: the user left, came back and left again
\* before the first leave was in the table.
CountedOnce ==
  \A i, j \in DOMAIN counted :
    i # j /\ counted[i].session = counted[j].session => counted[i].session \in shared

Dearer(c) == IF c > FloorRate THEN c ELSE FloorRate

PaidWithin(length, earned) ==
  \/ earned = 0
  \/ /\ Unit * FloorRate * length <= earned
     /\ \E c \in InitialRates : earned <= Unit * Dearer(c) * length

\* calculate_integral_xp: with whatever minutes the day is thought to have had
\* before, a paid minute brings at least the floor rate and at most the initial
\* rate.  (An initial rate below the floor pays the floor.)
PaidWithinRates ==
  \A i \in DOMAIN ledger : PaidWithin(ledger[i].new - ledger[i].old, ledger[i].earned)

MaxRate == CHOOSE c \in InitialRates : \A d \in InitialRates : d <= c
OfDay(d) == {i \in DOMAIN counted : counted[i].day = d}
SumOfDay(d, Value(_)) ==
  SeqSum([i \in DOMAIN counted |-> IF counted[i].day = d THEN Value(i) ELSE 0])

\* handle_vc_xp: the sessions of a day are never worth more than the curve gives
\* for their minutes together, whether the cache was warm, cleared or lost in a
\* restart; unless the table could not be read, a session began the day before,
\* or two leaves picked one session.
DayOnCurve ==
  \A d \in Days :
    (\A i \in OfDay(d) : /\ ~counted[i].blind /\ counted[i].session \notin shared
                         /\ Day(sessions[counted[i].session].join) = d)
      => SumOfDay(d, LAMBDA i : counted[i].earned)
           <= Gain(0, SumOfDay(d, LAMBDA i : counted[i].length), MaxRate)

\* handle_voice_state_update: while no query fails, no two tasks of the user
\* meet, no move is missed while the process is down and no setting moves the
\* line under the user's feet, a session is open exactly while the user is in a
\* channel that counts.
SessionTracksPresence ==
  up /\ Busy = {} /\ ~spoiled => (Open # {} <=> InVoice(where, afk.cached))

\* config.rs:170 and set_afk_vc.rs:62: time spent in the AFK channel does not
\* count toward voice_minutes.
AfkTimeNotCounted ==
  \A i \in DOMAIN counted :
    LET s == sessions[counted[i].session]
    IN  counted[i].length * TicksPerMinute + s.afk <= s.leave - s.join
=============================================================================
