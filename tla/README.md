# Verification of memum-activity-bot

The bot (Rust, tokio, poise/serenity, Postgres through sqlx) records what the members of a Discord
guild do on Hypixel Bedwars and on Discord, turns it into XP and levels, runs timed events with XP
of their own, and keeps leaderboard messages up to date. This directory holds TLA+ modules of its
core, the TLC configurations that check them on small instances, and proofs that the TLA+ proof
system checks for every value of the constants. Source paths below are relative to `src/` of the
crate unless they start with `migrations/`.

## 1. The system

Everything the bot knows is in Postgres; what it keeps in memory is a few caches, one flag, and
the local variables of its tasks. There is no lock between tasks: they meet in the database, at
every `await`.

| component | state it keeps | operations | meets |
|---|---|---|---|
| Hypixel refresh (`sweeper/hypixel_sweeper.rs`, `hypixel/client.rs`) | `hypixel_stats_snapshot`, `stat_deltas`, `xp_events`, `xp`, `users.last_hypixel_refresh`, 60 s response cache | `refresh_user`, `apply_stat_deltas` | itself (several tasks, one player), retention, `/edit-stats`, event awards |
| Hypixel sweeps (`bot.rs`, `sweeper/`, `utils/event_sweep_scheduler.rs`) | `is_full_sweep_running`, the scheduler's sets of event ids | stale sweep each minute, full sweep before each event boundary, refresh on command | each other through the flag and the order of `last_hypixel_refresh` |
| XP arithmetic (`xp/calculator.rs`) | none | rewards, level of a total, XP of a level | every writer of `xp` |
| Events (`commands/admin/edit_events.rs`, `utils/event_status_updater.rs`, `database/queries.rs`) | `events`, `event_stats`, `event_xp` | create, edit, force, delete, status by date, award after each delta, backfill | refreshes, tracker, punishments |
| Discord activity (`discord_stats/tracker.rs`) | `discord_stats_snapshot`, caches of the guild configuration | messages, reactions, commands | the XP tables, events |
| Voice (`discord_stats/tracker.rs`, `bot.rs`) | `vc_sessions`, per-day minutes cache | join, leave, midnight clearing, start-up | the XP tables |
| Accounts (`commands/registration/`, `commands/admin/force_register.rs`, `audit_users.rs`, `discord_stats/tracker.rs`) | `users` with `active`, first snapshots, the registered role | register, its button, unregister, both forced forms, leave, return, audit | sweeps, tracker, administrator XP |
| Administrator XP (`commands/admin/xp.rs`, `recalculate_xp.rs`) | `xp` | add, remove, recalculate | refreshes, wipes, deletions |
| Punishments (`commands/admin/disqualify.rs`, `migrations/026`) | `modrec`, latest action wins | ban, unban, disqualify, requalify | awards, backfill, ranks |
| Configuration (`commands/admin/edit_stats.rs`, `set_*.rs`) | `guilds.config_json` | read, modify, write | refreshes (fresh), tracker (cached 5 min) |
| Leaderboard and status messages (`utils/*_updater.rs`, `commands/leaderboard/`, `commands/admin/edit_events.rs`) | message ids and update times, the messages in Discord | persist, create, refresh, freeze, remove | events, each other through the row |
| Event rank service (`shared/leaderboard_service.rs`) | short cache, one query at a time per key | rank lookup | `event_xp`, `modrec` |
| Retention (`sweeper/daily_snapshot.rs`) | daily sums | daily totals, prune after 90 days | refreshes |
| Logging, cards, read-only commands, interactions | none of their own | replies, images | – |

What is hard here: read-then-write across awaits with no lock (snapshots, configuration, levels);
work split over several transactions (snapshots, then deltas with XP, then event XP); tasks that
die with the process while their rows stay; an API that answers late, with old values or not at
all; a flag that is tested once and trusted for minutes; deferred work that nobody remembers; and
dates, a status and a clock that agree only after a delay. `PROJECT.json` lists each hazard at the
line where it bites, with the properties that watch it.

What should hold, component by component: the stored total is the sum of the rewards on record,
but for batches that earn nothing, and the stored level is that total's level; a unit of a counter
is credited once, or accounted for as lost by a failure; the flag is up exactly while a full sweep
is in flight; nobody is starved by a player whose requests fail; a boundary whose sweep was
deferred is swept later; a backfill that finishes has missed nothing; an event created late loses
nothing; an ended event stays ended; a session's minutes count once; a member who returns is found
again; a configuration change is never undone by another; the role in Discord says who is
registered, and no delta is computed between two players' readings; a row names exactly the
messages of its board, and the last state of an event board is the final one.

## 2. Modules

    Sums ── XpRules ── XpLedger            the contract of the XP tables
               └────── HypixelRefresh      one player's refreshes, implements XpLedger
    HypixelSweeps                          who is refreshed when; a refresh is one step
    EventXp                                one event, one player; a delta's task from its stamp on
    XpRules ── DiscordStats                the increment of one Discord stat
                 ├── DiscordActivity       messages, reactions, commands; implements XpLedger
                 └── VoiceSessions         voice sessions and their curve
    Membership                             what the account commands promise
         └── Accounts ── AccountXp         one member: row, role, seeds; the XP commands; implements Membership
    Boards                                 rows and messages of the leaderboards, and their loops
    GuildConfig                            one guild's configuration and the tracker's copy

`HypixelRefresh` and `EventXp` are the two halves of `refresh_user`: the first ends a delta's life
with its transaction, the second begins with it and adds the awards after the commit.
`HypixelSweeps` calls the whole of it a step, because what it asks is who gets a turn. `AccountXp`
has it as two kinds of step, the readings stored and the commit, because what it asks is whose
readings and whose rows they are. The `*Proofs` modules hold the theorems (section 4), the `MC*`
modules and `.cfg` files the instances for TLC (section 3).

**Sums, XpRules.** Sums over sequences as a recursive function, and the arithmetic of
`xp/calculator.rs`: rewards, `xp_for_level`, `calculate_level`. XP is an integer (f64 in the code)
and the curve is a constant sequence of thresholds, which covers every `base_level_xp` and
`level_exponent`.

**XpLedger.** What the tables promise: `stat_deltas` with `xp_events` only grows, and the same
step moves the `xp` row by what was added, level included, when that is positive; a batch that
earns nothing, or less, is on record and leaves the row alone. Rates have either sign.

**HypixelRefresh.** The rows of one player and the tasks that refresh him. Every `await` of
`refresh_user` that touches shared state ends an action:

| action | code |
|---|---|
| `Begin` | the first `update_last_hypixel_refresh`, before anything is fetched |
| `FetchCached`, `FetchPlayer`, `CacheResponse`, `CacheExpires` | `HypixelClient::fetch_player` and its cache; two tasks may both miss |
| `LoadGuildConfig` | `Utc::now()` and the configuration, with its fallback to the default |
| `ReadLatest`, `RecordSnapshot` | one turn of the loop: read the latest snapshot, then insert |
| `NothingToApply`, `ApplyStatDeltas` | `apply_stat_deltas`: early return, or the transaction |
| `Finish`, `Fail`, `Crash` | the last update, a `?` at any point, the end of the process |
| `Play`, `EditConfig`, `Prune` | the player, `/edit-stats`, retention |

A response lists some counters, zeros among them, and says nothing of the others: `Absent` is a
key that is missing, which `from_raw` does not make a zero. `overlapped`, `pending`, `dropped` and
`withheld` are history variables: whether two refreshes of the player were ever in flight at once,
the units stored in a snapshot whose delta is not committed, the units whose delta a failure threw
away, and the XP of the batches that were recorded without moving the total.

**HypixelSweeps.** `queue` is the line of users in the order of `last_hypixel_refresh`, `expired`
those of them who are due, and `ExpiredUsers` the active ones of these up to the LIMIT of the
query. With them the flag, the stale sweep with its batch, a full sweep per event boundary,
commands, departures and restarts. `Poll` is one pass of the scheduler for one boundary; `Open`
and `Pass` bound the time the pending or active query returns the event inside the window. Broken
players always fail.

**EventXp.** One event and one player: creation step by step, status by date
(`UpdateEventStatuses`) and by force, edits, deletion, eligibility that flips; a delta's stamp,
id, commit, check and award; and the two backfills, the one `/edit-event new` spawns and the
administrator's. Ids are drawn in order inside the transaction and commits come in any order, so
that a cursor over ids can pass a delta not yet visible. `owed` records what a backfill must
cover; `excused` the deltas that go without for a reason the code accepts: a failure, an
ineligible player, an award after the end.

**DiscordStats.** `increment_stat_by` and its voice twin for one user, a query per action:
`LookUp`, `ReadSnapshot`, `InsertSnapshot`, `CheckBan`, `Commit`, `FailIncrement`. Each Discord
event runs as a task of its own; the gateway does not wait for it. Of `discord_stats_snapshot` the
model keeps the row that a read finds (the newest stamp, then the newest id) with, as history, the
number of rows. The two modules that follow add the caller's own steps to these.

**DiscordActivity.** `handle_event` for messages and reactions, and `record_command_usage`. A
message is counted raw first and then validated: `CheckDuplicate` and `CheckCooldown` are the two
critical sections of `validate_message`, one per lock, and a task can stop between them. `passed`
records when a validation said yes, in one life of the process. `ActivityInit`, `ActivityNext`,
`ActivitySpec` and `ActivityTypeOK` carry the prefix because one proof module extends this module
and `VoiceSessions`.

**VoiceSessions.** `handle_voice_state_update` and `handle_vc_xp`:

| action | code |
|---|---|
| `Move` | the gateway's event, which a process that is down never sees |
| `Classify` | the guild's cached configuration decides: join, leave, or nothing; `now_utc()` |
| `AddSession` | the statement that opens a session, unless one is open |
| `ChooseSession`, `EndNothing` | the subquery of `end_vc_session`: the newest open session, picked without a lock |
| `EndSession`, `RefuseLeave` | its UPDATE, on the row picked whether or not it is still open, which returns the join; or the CHECK that refuses it; under a minute it is not counted |
| `ReadDay`, `ReadDayFails` | the day's minutes: cache, else the table, else 0 |
| `StoreDay`, `StoreDayPaid` | the curve, the cache, the call of the increment |
| `SetAfk`, `ReloadConfig` | the AFK channel in the guild's row and in the cache, which falls back to the default |
| `ClearDailyMinutes`, `Crash`, `Restart`, `Member`, `Tick`, `FailVoice` | midnight, the process, bans and departures, time, a failed query |

The curve falls by a quadratic to a floor, which it may reach between two minutes, or be below
from the start; rates have either sign. XP is counted in `Unit`-ths of the rates' unit, in which
the value at the point between two minutes is whole. `counted`, `shared`, `spoiled` and a row's
`afk` are history: the sessions `handle_vc_xp` was called for, those a leave picked while another
that had picked them was still on its way, whether anything made the table miss a move, and the
time a session spent in the AFK channel.

**Membership.** The promise behind the account commands, as long as they take turns: one
registration per member, linked to one Minecraft account; leaving suspends and keeps; an active
registration is linked anew only when nothing of the old account is on record. After two commands
have met it promises nothing, and `AccountXp` says exactly when that is (`tangled`).

**Accounts, AccountXp.** One member of a guild, the `users` row with the rows that hang on it, the
role, and the tasks on them, one query or Discord request an action:

| action | code |
|---|---|
| `Register`, `RegisterButton`, `CheckExisting` | `/register` and its button up to `get_user_by_discord_id_any` |
| `WipeUserStats`, `Wipe`, `Reactivate`, `RegisterUser`, `SelectUser`, `RestoreRole` | the return: `wipe_user_stats` for another account, `mark_user_active`, the upsert and its re-read, the role |
| `AddRole`, `RegisterUser`, `SelectUser`, `Seed` | a new registration: the role first, the row, one snapshot per counter |
| `ForceRegister`, `ForceCheck` | the same after a look at active rows only |
| `Unregister`, `FindUser`, `Delete`, `RemoveRole` | `/unregister` and `/force-unregister`: the row with its cascade, then the role |
| `Leave`, `Rejoin`, `HandleLeft`, `HandleJoined`, `Greet`, `MarkReturned`, `RewardRole` | the member events, heard or not, handled late or in the wrong order |
| `Audit`, `LookForMember`, `Fix` | `/audit-users` from the row it read to what it fixes |
| `RefreshUser`, `RecordReading`, `CommitRefresh`, `EarnOnDiscord` | who writes for the account while this goes on |
| `ChangeXp`, `IncrementXp`, `AwardAdminEventXp`, `ReadXp`, `UpdateLevel` | `/xp add` and `/xp remove` |
| `Recalculate`, `SumEvents`, `CompareTotal`, `RewriteXp` | `/recalculate-xp` |
| `Fail`, `Restart` | a query, a request or the process |

A snapshot is modelled by the account it was read from, and an id is never given twice, so that a
task which outlives its row meets the foreign keys as it does in Postgres. The histories
`tangled`, `failed`, `missed`, `forced` name what the properties excuse; `granted`, `withheld`,
`raced` and `behind` say by how much, or since when, the total and the level differ from the
record.

**Boards.** The three kinds of message the bot maintains, each with its table row: an event's
leaderboard pages, an event's status, the guild's pages. `Post` and `Remove` start the commands
(`Look`, `DeleteMessages`, `DropRow`, `PostPage`, `PostTrailers`, `StoreRow`); `ReadRow`,
`EditPage`, `EditTrailers` and `Stamp` are a round of a loop, which works from the copy it read.
`Shows` is what a message was rendered from: page, number of players, whether the event had ended.
`Frozen` is the loop's test that an event board needs nothing more, made against the end date the
event has now: `EditEnd` is `/edit-event edit`, which moves it, into the past too, as long as the
event has not ended. `EditTrailers` may leave the card or the status message as it is, refused or
not rendered, and an event's row is stamped all the same. `early` and `bare` are history: an
update stamped after the end date by a task that saw the event active, or left behind by an end
date moved back; and the cards an update left as they were for want of milestones.

**GuildConfig.** `Read`, `Write` and `Cache` are a settings command's load, its UPDATE of the
whole value and its insert into the tracker's cache; `LookUp`, `Fetch` and `Fill` are
`get_guild_config_cached`. `said` is each setting as the last command that changed it left it.

## 3. Runs

| run | instance | shows |
|---|---|---|
| `refresh_overlap` | two tasks, one counter up to 3, or absent, multipliers -1 and 2, two stamps, one edit | total = sum of rewards but for batches that earn nothing, level in its band; unless refreshes overlapped, nothing credited that was not played and every unit between the oldest and the newest snapshot credited, pending or dropped; the refinement of `XpLedger` |
| `sweeps` | two players, one broken, one who comes and goes, two boundaries, one failure, one restart | the flag, fairness of the queue, and deferred boundaries |
| `event_xp` | two deltas, batch of one, clock 0..1, one disturbance | finished backfills are complete, a late creation loses nothing, an ended event stays ended |
| `discord_activity` | two tasks, three events, two texts and a noise, one disturbance | the cooldown holds between the two locks; no pay for who was banned before the check; a running total is exact unless two tasks met on it; the refinement of `XpLedger` |
| `voice_sessions` | two tasks, two channels, four moves, a minute of 3 ticks, a midnight, one disturbance | a session counted twice only by two leaves that had picked it at once, pay within the rates, a day never above its curve however cold the cache, an open session means presence until a named cause misses a move |
| `accounts` | two tasks, two Minecraft accounts of which one sends a counter the other lacks, three jobs, one disturbance | role, baselines and XP total part only in the ways the histories name; the refinement of `Membership` |
| `boards` | two commands beside the two loops, pages of one, at most two players and pages, end date 1 of 2 ticks and movable, one failure | rows and messages agree, pages share the ranks out, a board is frozen in the end, and on the final state unless an update came early or the card is bare, the loops catch up |
| `guild_config` | two commands, two tracker tasks, a lifetime of 2 ticks, one failure | a change is lost only between overlapping commands; the tracker follows at once unless something crossed, and never stays behind |
| `refresh_stale_read` | an API with old answers | counterexample, see below |
| `sweeps_exclusive` | one boundary, no failure | counterexample, see below |
| `event_force_start` | one delta | counterexample, see below |
| `voice_afk` | one task that takes no time | counterexample, see below |

The four runs that end in a violation check a sentence of the code's documentation:

* `refresh_stale_read`: the log line "Stale Hypixel API read detected. Ignoring negative delta."
  (`sweeper/hypixel_sweeper.rs:248`). The lower reading is stored as the latest snapshot, so the
  next current reading credits the same units again.
* `sweeps_exclusive`: the flag is there "so that neither runs concurrently with a full sweep"
  (`shared/types.rs:61`). The stale sweep tests it once, at its start.
* `event_force_start`: the award "looks up all active events for the guild that track `stat_name`,
  inserts an `event_xp` row for each" (`database/queries.rs:2084`). An event forced to start early
  is active with its start date ahead, and gets no row until then.
* `voice_afk`: "Time spent in this channel does not count toward `voice_minutes`"
  (`config.rs:170`; the reply at `commands/admin/set_afk_vc.rs:62` says the same). When the
  channel a user sits in becomes the AFK channel, his session stays open, and the next leave
  credits all of it.

What the passing runs say of the code is weaker than one may expect, and the conditions in their
properties are the findings worth knowing. Two increments of one stat that overlap may lose one
from the running total, but not from the XP (`SnapshotCounts`, `KeepsLedger`). A cold cache of the
day's minutes counts the session that has just ended twice, once in the table and once as the
session, so a restart costs XP and never grants it (`DayOnCurve`). A session over midnight counts
wholly for the later day. A session that a crash leaves open stays open, and the time until the
user's next leave is credited.

`end_vc_session` picks the session in a subquery that takes no lock, and its UPDATE does not ask
again whether the row is open. When a user leaves, comes back (a join the unique index refuses, as
the session is still open) and leaves again before the first leave is in the table, both tasks end
the one session, both get its join time, and it is paid twice (`CountedOnce` and `DayOnCurve`
excuse exactly these sessions, as `shared`). A reward with a negative rate is recorded and the
total is not moved, which `LedgerBalanced` and `KeepsLedger` say in numbers.

From the runs of this part of the code:

* *Accounts.* `/register` adds the role before it writes the row and `/unregister` deletes the row
  before it takes the role, so a failure in between leaves a role with no registration behind it
  (`RoleMeansRegistered`). A forced registration takes a suspended row for none, may relink it to
  another account without a wipe, and seeds over its snapshots (`NoForeignDelta`, `SeededOnce`). A
  member who returns is looked up among the active rows, so the return event finds only a row
  whose departure was not handled.
* *XP commands.* `/recalculate-xp` takes XP given by `/xp add` away, and with it the rewards
  committed between its sum and its write (`TotalAccounted`). `/xp` writes a level computed from a
  total that may have moved (`LevelOfTotal`). A return with another Minecraft account wipes the
  old records with eight statements in one prepared query (`database/queries.rs:326-343`), which
  PostgreSQL refuses: the model allows both outcomes, and the code as it stands takes the refused
  one, after which the old registration is still suspended.
* *Deletion.* The doc comment of `/unregister` ("a *soft* unregister ... your stats will still be
  present", `commands/registration/unregister.rs:12`) is not what `unregister_user` does: the row
  is deleted, and with it everything on record (`Delete`).
* *Boards.* An update between the end date and the status flip, up to a minute later, makes the
  board count as final, and the update after the flip never comes; an end date moved back behind
  the last update of an active event has the same effect, and the board keeps calling its
  standings live (`FrozenIsFinal` excuses both as `early`). A card whose event has no milestones
  left is not rendered again, at the end either (`bare`). A loop that read a row before a command
  replaced it writes the old ids back, and a status row it brings back even after its removal.
  `/leaderboard-create` deletes the pages of the board it replaces and not its status message
  (`PostedIsRecorded`). The number of pages is fixed when a board is posted: more players get no
  page, pages that a shrunken board no longer fills keep old standings, and the last page is full
  even when `display_count` ends in the middle of it.
* *Configuration.* A failed query puts the default configuration into the tracker's copy for the
  whole of its lifetime (`CacheFollows`, `StalenessEnds`).

**Bounds.** Two refreshes suffice for every race over a snapshot or the `xp` row, since both are
read and written pairwise; a counter needs the values 0 to 3 for a first reading, which may be a
zero, and two growths from it, one of them by more than a unit; the seeds at time 0 and two stamps
give an oldest, a pruned and a newest snapshot; a multiplier of -1 beside one of 2 makes batches
that earn and batches that cost. With two players, one can hold the head of the queue against the
other, and a batch of one makes that the whole batch; two boundaries suffice for a deferral. In
`EventXp` two deltas and a batch of one give a full batch, a second page and an empty one; the
windows [0,1), [0,2) and [1,2) with clock values 0 and 1 put a delta before, inside and at the end
of a window; `MaxDisturbances` bounds failures, restarts, punishments and commands together. In
`DiscordActivity` a third message can meet what two overlapping ones left behind, and the clock
reaches the end of the cooldown. In `VoiceSessions` four moves make two sessions, which a crash
can part from each other; the day has 6 ticks, enough for two sessions of a minute each that a
restart parts, and the clock reaches the next day; the one rate comes down to its floor between
two minutes, and a guild without the reward costs the disturbance. `Patience` lets a task live for
one tick, a third of a minute: its queries take far less, and `voice_sessions` checks that much
delay. In `accounts` three jobs are a registration, what ends or changes it and a task that still
works from the old row, of which two at a time are in flight; one disturbance is a departure or a
failure at any step; an API that lowers a counter is left to `HypixelRefresh`, a rate of -1 brings
a negative reward. In `boards` pages of one player and at most two players give a board no page to
spare, one it lost and one it lacks; the clock passes the end date by one tick, which is where
`early` and `Frozen` differ; an administrator may move the end date to either of the two earlier
ticks; each instance has one kind of board in play (`Setups`), since the kinds share no row. In
`guild_config` two commands and two tracker tasks are every pair that can cross on the value or
the copy. The safety properties are also proved without these bounds (section 4). The constants
that only bound TLC are marked `bound:` where they are declared. Deadlock is checked in the runs
of the refreshes, the sweeps and the events: `BoundsSpent` and `Quiet` are the states where the
bounds are used up, and they only stutter. The other models stop when the clock, the jobs and the
failures are spent.

**Fairness.** Three models need it, and only for what the runtime keeps doing. In `HypixelSweeps`:
time passes (`Age`), the stale sweep's interval ticks and its task goes on (`StaleStep`), each
poll comes again (`Poll`), and a spawned sweep goes on (`FullStep`). All of it is weak. Nobody has
to play, leave or use a command, and nothing forces a window to stay open. Requests are answered
or time out, and failures other than those of the broken players are finite. In `Boards`: time
passes (`Tick`) and each of the two loops, spawned at start-up and never left, goes on (`Round`);
no command has to be given or finished, and the status ticker is not assumed either, as
`EventuallyFrozen` begins with the ended event. In `GuildConfig`: time passes and a command or a
tracker task that was begun goes on. In both, failures are finite, as queries that fail for ever
promise nothing.

## 4. Proofs

Every safety property that a passing run checks, the three refinements included, is also a
theorem.

| module | theorem | property |
|---|---|---|
| `XpRulesProofs` | `CalculateLevelInBand` | `calculate_level` returns the level whose band holds the total |
| `HypixelRefreshProofs` | `TypeCorrect` | `TypeOK` |
| | `LedgerAlwaysBalanced`, `LevelAlwaysInItsBand` | `LedgerBalanced`, `LevelInItsBand` |
| | `UnitsAlwaysAccounted`, `UnitsNeverOvercredited` | `EveryUnitAccounted`, `NeverOvercredited` |
| | `RefreshImplementsXpLedger` | `ImplementsXpLedger` |
| `HypixelSweepsProofs` | `SweepTypes`, `FlagAlwaysTracksSweeps` | `TypeOK`, `FlagTracksSweeps` |
| `EventXpProofs` | `EventXpTypes`, `EndedStaysEnded` | `TypeOK`, `EndedForGood` |
| | `BackfillAlwaysComplete`, `CreationAlwaysCovers` | `BackfillComplete`, `CreationCovers` |
| `DiscordProofs` | `ActivityTypes`, `CooldownAlwaysKept` | `ActivityTypeOK`, `CooldownKept` |
| | `SnapshotAlwaysCounts`, `BannedAreNeverPaid` | `SnapshotCounts`, `BannedEarnNothing` |
| | `ActivityImplementsXpLedger` | `KeepsLedger` |
| | `VoiceTypes`, `SessionsCountedOnce` | `TypeOK`, `CountedOnce` |
| | `VoicePaidWithinRates`, `DayAlwaysOnCurve` | `PaidWithinRates`, `DayOnCurve` |
| | `SessionAlwaysTracksPresence` | `SessionTracksPresence` |
| `AccountXpProofs` | `AccountTypes`, `RoleAlwaysRegistered` | `TypeOK`, `RoleMeansRegistered` |
| | `NeverForeignDelta`, `AlwaysSeededOnce` | `NoForeignDelta`, `SeededOnce` |
| | `TotalAlwaysAccounted`, `LevelAlwaysOfTotal` | `TotalAccounted`, `LevelOfTotal` |
| | `AccountsImplementMembership` | `ImplementsMembership` |
| `BoardsProofs` | `TypesKept`, `BoardsAlwaysRecorded` | `TypeOK`, `PostedIsRecorded` |
| | `PagesAlwaysAgree`, `FrozenAlwaysFinal` | `PagesAgree`, `FrozenIsFinal` |
| `GuildConfigProofs` | `NoChangeLost`, `CacheAlwaysFollows` | `NoLostChange`, `CacheFollows` |

They hold for any number of players, stats, tasks, deltas, messages, channels, commands, pages and
settings, and for any value of the bounds. They use the named assumptions on the constants and
nothing else, but for three theorems:

* `UnitsAlwaysAccounted` and `UnitsNeverOvercredited` assume that the API never goes back
  (`StaleReads = FALSE`); `refresh_stale_read` shows that they need it.
* `DayAlwaysOnCurve` assumes `2 * Patience < TicksPerMinute`: a minute is longer than two tasks. A
  task is a few queries, so the code is well within it; a task that hangs for half a minute is
  not. Two tasks could then hold a session each, read the same minutes of the day, and begin on
  the curve at the same place. `voice_sessions` is an instance within the assumption.

Of the assumptions on constants, three are there because a proof asks for them: the users are
finitely many, no channel is `Out`, and among the rates of voice minutes, integers of either sign,
is a dearest one, as there is among the values of an f64. `DiscordProofs` extends
`DiscordActivity` and `VoiceSessions` and has the assumptions of both, which any `Stats` with
`"voice"` among the plain ones meets.

* *Ledger.* The invariant is types, `xp.total + withheld = TotalEarned(ledger)` and the level's
  band. It is inductive because the increment is made on the row in the transaction that appends
  the rewards,
  so no task's local copy appears in it; a sum over an appended batch splits (`XpRulesProofs`).
* *Units.* `EveryUnitAccounted` says nothing of a task between its read and its write, so it is
  strengthened: without an overlap at most one task is in flight, `pending` is what its `deltas`
  hold, the value it read is still the latest, its reading lies between the latest snapshot and
  the API, and snapshot times lie below its stamp. Prune keeps the oldest and the newest row,
  which is all a span depends on.
* *Flag.* Types, the equivalence, and at most one sweep in flight are inductive together: a launch
  needs the flag down, hence no other sweep.
* *The line of players.* `LineOK`: the queue is a line in which each player stands once, and who
  is due is a first part of it. A refresh puts its player at the end and takes him out of those
  due, and time makes the next one due; without the first part the query's order would not be the
  line's. That the batch holds active players who are due, and no more than LIMIT, is a fact about
  a recursive function on the positions of the line: the least position where it failed has a
  predecessor (`BatchesExist`).
* *Backfill.* `Sound(b)`: what a backfill owes has its row, or is in the batch it holds, or lies
  beyond its cursor; and a batch that is not full holds all that is left. It survives other tasks
  because committed deltas stay, with their time, and rows are only added, except by a deletion,
  which clears what is owed. The batch lemmas (`FirstOfDownward`, `ShortBatchIsAll`) are where
  `ORDER BY id LIMIT n` and the test `batch_len < 500` come in.
* *Creation.* `NothingLost`: once the backfill of `/edit-event new` has begun on an event that was
  due when it was created, each delta settled in the window has its row, is owed it by that
  backfill, or is excused. `Arranged` says how far the setting up got, so that the event is past
  its start by then and later deltas are awarded as they commit; `InThePast`, that none is stamped
  ahead of the clock. With `Sound`, what is owed has its row when the backfill is done.
* *Ended.* A command could only revive an event whose creation has not begun, which `Uncreated`
  excludes.
* *Activity.* One description of a task's step (`Did`) serves all parts. `BansSeen`: past the
  insert, a user who was not free of bans is banned now. `RunningTotals`: unless two tasks met on
  a stat, the total is its number of rows, and the task about to insert read that row and is the
  only one there, and no task in flight is older than the row a read finds. `Spaced`: no message
  that counted is later than `last_counted` says, which `CheckCooldown` tests and moves in one
  critical section, so the gap between the two locks does no harm.
* *Voice.* `SessionsApart`: a session that was not picked twice at once (`shared`) is held by at
  most one task between its being picked and the count of its minutes, and is then open or not
  counted. It is inductive because only an open session can be picked, and none opens again. The
  pay rests on `GainBounds`, an arithmetic fact about `calculate_integral_xp`: whatever minutes
  come before, m minutes bring between the floor rate and the dearer of the two rates, below the
  limit, above it and across it, wherever between two minutes the limit lies; `TasksOK` carries it
  to the commit.
* *Presence.* The property speaks of rest only. `Undisturbed` adds what the one task in flight
  finds on its way: at the start, a session is open exactly if the user was in a channel that
  counts; before a join, none is and the user is there; before a leave, one is and the user is
  gone. At most one session is open, spoiled or not.
* *The day.* Three invariants. `Timed` dates tasks and sessions: who ends a session of a minute
  began a minute after its join, which is past the life of the task that ended the one before, so
  the ended sessions held at any moment are one and the same. `Measures`: what is held or counted
  has its row's minutes, and its day is not over when the session ends. `Curved`: the cache of the
  day, and what a task has read, are no less than the minutes counted so far, and the XP of the
  day is on the curve for those. A cold cache reads the table, where each counted session has a
  row of its own (`SeqSumWithin`), and the one that has just ended has its row too. A later place
  on the curve pays less (`GainFalls`) and the gains of consecutive minutes add up (`GainAdds`),
  so a count too high costs XP and a count never is too low.
* *Configuration.* `InHand`: a command between its read and its write holds, but for its own
  setting, what every command has said, unless two were in that window at once (`met`).
  `OnItsWay`: unless something crossed, a tracker task holds the stored configuration between its
  fetch and its fill, and so does a command that is about to insert; so the copy can only become
  right. Neither property says anything of the values in flight, which is what the two parts add.
* *Total and level of an account.* `IInv` adds to the two properties what the commands have in
  hand: the sum of a recalculation is the one on record unless something raced it (`SumInHand`), a
  level about to be written is the total's unless its task was overtaken (`LevelInHand`), and the
  stored level is right unless a task for this very row owes it (`LevelOwed`). None of these
  counts for a task whose row is gone, and ids are never given twice, so a new row is not touched
  by an old task (`AsideKeeps`). An account step shows only its types and that it leaves the XP
  alone (`AccountFrame`); each XP step is then compared with the four parts.
* *Registration.* Until two tasks have overlapped (`tangled`), a task that changes the
  registration is alone with it (`Alone`), and `Knows` says what it may take for granted from the
  place it is at: what the row is, whose readings are stored, which counters have no seed yet. A
  role without an active registration has a task on its way to mend it (`RoleOwed`), and what is
  stored is of the account the row is linked to (`OwnStats`). The same invariant shows each step
  to be a step of `Membership` or none (`Mirrored`), so the refinement and the three properties
  are one induction.
* *Boards.* `BoardOK` accounts for the messages of a board on whose row no two tasks met: at rest
  they are those of the row, and while a command works they are those its own record or the row it
  found names. Since an id never changes its place (`AllFit`, `Lasting`), what a loop edits is the
  board it read. `PagesAlwaysAgree` is arithmetic on top: consecutive pages cut the ranks without
  gap or overlap (`Chunk`). For the end of an event, `RowShows` says that a row written after the
  end date names a first page, a status message and, unless it is bare, a card that say so; a task
  writes what it saw when it began, so `CommandShows` and `LoopShows` say the same of what is in
  hand. Moving the end date back past a row's last update is what `early` stands for, and moving
  it ahead only unfreezes boards, so the parts survive `EditEnd`.

Checked by TLC only: the liveness properties `PlayedIsStored`, `OpenBoundarySwept`,
`EventuallyFrozen`, `BoardsCatchUp` and `StalenessEnds`, since liveness under fairness is beyond
the prover; and, naturally, the four counterexamples. TLC checks `EveryUnitAccounted` on one
counter, its theorem is for any number. The types of `GuildConfig` are a part of its proof
(`Types`) and no run of their own.

## 5. What the models leave out

* *HypixelRefresh.* Rank columns and `last_command_activity`; the client's semaphore; an empty
  answer is a reading without keys and is cached. XP and multipliers are integers of either sign,
  where the code has f64: rounding and values that are not numbers are out of the model. An error
  of the final update is `Fail` from the committed phase. `Prune` may use any cutoff, not only the
  one 90 days back, and a batch of the oldest rows is a prune with an earlier cutoff. A user row
  without its seeds is an initial state.
* *HypixelSweeps.* Times are an order only. A cached answer is possible only for a player who is
  not due, since the cache lives 60 s and a player is due after 2 h; a command's cooldown, by
  default, equals the cache's lifetime. The length of a full sweep against its window is not
  modelled.
* *EventXp.* One stat and one player. The event's row and its stats are loaded in one step of the
  backfill, and the two statements of `update_event_statuses` are one step; edits of the stats, XP
  an administrator gives to an event and requirements are left out. The eligibility is read once
  per batch, and a COMMIT whose answer is lost is an award that failed, or a batch tried again. A
  delta's check is the sweeper's; the tracker's task has none and goes from its commit to the
  award. The run keeps one budget for disturbances.
* *DiscordStats.* One user, whose guild is fixed. The award of event XP that follows the commit
  belongs to `EventXp`. The XP a unit brings is any that some cached configuration gives, negative
  ones too; it is an integer, and the rounding of the code's f64 is left out.
* *DiscordActivity.* The tests on the content alone are decided when the message comes; the texts
  are two that pass and one that does not. A command interaction and a reaction differ by their
  stat only.
* *VoiceSessions.* One user with a `users` row. The microseconds that tell a leave from a join are
  ticks, so two stamps within a tick may come in either order. A rate below the floor, a negative
  one too, pays the floor, as in the code. Rates, floor and decay are integers in a common unit,
  and the rounding of the code's f64 is left out. `end_all_active_vc_sessions_for_guild` has no
  caller and is no action.
* *Accounts, AccountXp.* One member of one guild; what the early returns of the commands test
  before they look the member up; the head texture and the rank columns. The handlers of member
  events are modelled as they are written, but the bot asks only for the intents at
  `bot.rs:247-252`, without `GUILD_MEMBERS`, so that as it stands Discord sends it neither event:
  every departure is one the model calls `missed`. `wipe_user_stats` is done or refused, never in
  part; the code as it stands is always refused (section 3). A reward is what one delta brings;
  event XP an administrator gives is a step that leaves the `xp` row alone.
* *Boards.* What a page looks like. The counting of the pages is one step with the query before
  it. The loop for events goes through both its tables, and no instance has a row in each; an
  event and a guild board share nothing. A deleted event's rows and messages stay, as no key ties
  them. The transient `/leaderboard` with its buttons posts nothing that is kept.
* *GuildConfig.* A value that does not deserialize; the log channel, which is a column of its own
  written by one UPDATE (`logger_set.rs`).
* *Not modelled.* The rank service, message requirements and milestones (section 6 for the first
  two; milestones are independent rows under a uniqueness constraint). The Discord log is a queue
  to a worker that posts; cards, fonts and the read-only commands keep no state worth a model.

## 6. Plan

Done, in order of weight: the refresh pipeline with its contract, the sweeps, event XP, Discord
activity, voice, the accounts with the XP commands, the boards, the configuration; and the proofs
of all their safety properties. What is left:

1. Lemmas worth stating for their own sake: the backfill's batches as a partition of the window,
   the stale sweep's fairness as a safety property (a player due is passed over only by players
   who have waited longer), which bounds the wait without liveness.
2. `EventWindows`: the timed scheduler (30 s polls, windows of one second per player, at least 60
   s), to find when a deferred boundary can still be met; refined by the order-only
   `HypixelSweeps`.
3. `Punishments`, the rank service and the message requirements: the log of actions with expiry
   against `is_player_allowed`, single queries per key, numbered requirements.
