--------------------------- MODULE HypixelRefresh ---------------------------
(***************************************************************************)
(* refresh_user: how one registered player's Hypixel counters become XP.   *)
(* The state is that player's rows (hypixel_stats_snapshot, stat_deltas    *)
(* joined with xp_events, and xp), the guild's xp_config, the client's     *)
(* response cache, and the local variables of the tasks refreshing the     *)
(* player: the stale sweep, a full sweep and the commands all call         *)
(* refresh_user, with no lock between them.  A task takes one step per     *)
(* await that touches shared state.                                        *)
(***************************************************************************)
EXTENDS XpRules

CONSTANTS Stats,          \* keys of the Bedwars counters
          Tasks,          \* the tasks that may refresh this player at once
          Multipliers,    \* XP per unit an administrator may configure, of either sign
          DefaultConfig,  \* default_xp_config(), used when the guild row cannot be read
          MaxStat,        \* bound: units of a counter
          MaxClock,       \* bound: refreshes that stamp rows
          MaxEdits,       \* bound: edits of the configuration
          StaleReads      \* whether the Hypixel API may answer with an old reading

Configs == UNION {[D -> Multipliers] : D \in SUBSET Stats}

ASSUME MultipliersAssumption == Multipliers \subseteq Int
ASSUME DefaultConfigAssumption == DefaultConfig \in Configs
ASSUME BoundsAssumption == MaxStat \in Nat /\ MaxClock \in Nat /\ MaxEdits \in Nat
ASSUME StaleReadsAssumption == StaleReads \in BOOLEAN

VARIABLES
  api,          \* the player's true counters
  cached,       \* HypixelClient.cache for this player: at most one reading
  config,       \* guilds.config_json ->> xp_config
  edits,        \* configuration edits so far (for MaxEdits)
  clock,        \* Utc::now(), advanced whenever a refresh stamps its rows
  snapshots,    \* stat -> its hypixel_stats_snapshot rows [at, val]
  ledger,       \* stat_deltas with their xp_events, in commit order
  xp,           \* the xp row: [total, level]
  task,         \* the local variables of each refresh
  overlapped,   \* history: two refreshes of the player have been in flight at once
  pending,      \* history: units in a stored snapshot whose delta is not committed yet
  dropped,      \* history: units whose delta a failed refresh threw away
  withheld      \* history: XP of batches whose sum was not positive

rows == <<snapshots, ledger, xp>>
history == <<overlapped, pending, dropped, withheld>>
vars == <<api, cached, config, edits, clock, rows, task, history>>

\* A reading has the keys the response has: from_raw keeps a 0 it finds there.
Absent == -1
Readings == [Stats -> 0..MaxStat \cup {Absent}]
EmptyReading == [s \in Stats |-> Absent]
Present(reading, s) == reading[s] # Absent

Phases == {"idle", "begun", "waiting", "fetched", "reading", "recording", "committed"}
Idle == [phase |-> "idle", seen |-> EmptyReading, cfg |-> [s \in {} |-> 0], now |-> 0,
         todo |-> {}, cur |-> {}, prev |-> Absent, deltas |-> <<>>]

SnapshotRows == [at : Nat, val : Nat]
Deltas == [stat : Stats, old : Nat, new : Nat]
LedgerRows == [stat : Stats, old : Nat, new : Nat, earned : Int]
TaskStates == [phase : Phases, seen : Readings, cfg : Configs, now : Nat, todo : SUBSET Stats,
               cur : SUBSET Stats, prev : Nat \cup {Absent}, deltas : Seq(Deltas)]

\* get_latest_hypixel_snapshot; no two rows of a stat have the same time.
Latest(R) == CHOOSE r \in R : \A q \in R : q.at <= r.at
Earliest(R) == CHOOSE r \in R : \A q \in R : r.at <= q.at

LatestValueMutantZero(R) == IF R = {} THEN 0 ELSE Latest(R).val
\* previous.map(|s| s.stat_value), where previous.is_none() is told from a 0
LatestValue(R) == IF R = {} THEN Absent ELSE Latest(R).val

\* Units of stat s in a sequence of deltas or of ledger rows.
UnitsOf(s, q) == [i \in DOMAIN q |-> IF q[i].stat = s THEN q[i].new - q[i].old ELSE 0]
Units(s, q) == SeqSum(UnitsOf(s, q))

-----------------------------------------------------------------------------
\* register_user seeds a snapshot per key of the first reading; a registration
\* that failed part of the way leaves some of them out.
Init ==
  /\ api \in [Stats -> 0..MaxStat]
  /\ snapshots \in [Stats -> {{}} \cup {{[at |-> 0, val |-> v]} : v \in 0..MaxStat}]
  /\ \A s \in Stats : \A r \in snapshots[s] : r.val = api[s]
  /\ cached = {}
  /\ config \in Configs
  /\ edits = 0
  /\ clock = 0
  /\ ledger = <<>>
  /\ xp = [total |-> 0, level |-> 1]
  /\ task = [t \in Tasks |-> Idle]
  /\ overlapped = FALSE
  /\ pending = [s \in Stats |-> 0]
  /\ dropped = [s \in Stats |-> 0]
  /\ withheld = 0

\* The player gains a unit of a counter on Hypixel.
Play(s) ==
  /\ api[s] < MaxStat
  /\ api' = [api EXCEPT ![s] = @ + 1]
  /\ UNCHANGED <<cached, config, edits, clock, rows, task, history>>

\* /edit-stats add, edit and remove
EditConfig(c) ==
  /\ edits < MaxEdits
  /\ c # config
  /\ edits' = edits + 1
  /\ config' = c
  /\ UNCHANGED <<api, cached, clock, rows, task, history>>

\* The cache entry reaches its 60 s TTL.
CacheExpires ==
  /\ cached # {}
  /\ cached' = {}
  /\ UNCHANGED <<api, config, edits, clock, rows, task, history>>

InFlight(t) == task[t].phase \notin {"idle", "committed"}

\* refresh_user begins; the stamp it puts on the user (update_last_hypixel_refresh)
\* is read by the sweeps only: module HypixelSweeps.
Begin(t) ==
  /\ task[t].phase = "idle"
  /\ clock < MaxClock
  /\ task' = [task EXCEPT ![t] = [Idle EXCEPT !.phase = "begun"]]
  /\ overlapped' = (overlapped \/ \E u \in Tasks : InFlight(u))
  /\ UNCHANGED <<api, cached, config, edits, clock, rows, pending, dropped, withheld>>

\* fetch_player, cache hit
FetchCached(t) ==
  /\ task[t].phase = "begun"
  /\ \E r \in cached :
       task' = [task EXCEPT ![t] = [@ EXCEPT !.phase = "fetched", !.seen = r]]
  /\ UNCHANGED <<api, cached, config, edits, clock, rows, history>>

\* The API answers with the counters, where it may leave a 0 out, with no player,
\* or with an old reading.
Answers ==
  {r \in Readings : \A s \in Stats : r[s] = api[s] \/ (r[s] = Absent /\ api[s] = 0)}
    \cup {EmptyReading} \cup
    (IF StaleReads THEN {r \in Readings : \A s \in Stats : r[s] <= api[s]} ELSE {})

\* fetch_player, cache miss: the request is answered ...
FetchPlayer(t) ==
  /\ task[t].phase = "begun"
  /\ cached = {}
  /\ \E r \in Answers :
       task' = [task EXCEPT ![t] = [@ EXCEPT !.phase = "waiting", !.seen = r]]
  /\ UNCHANGED <<api, cached, config, edits, clock, rows, history>>

\* ... and the response is decoded and cached, whatever was cached meanwhile.
CacheResponse(t) ==
  /\ task[t].phase = "waiting"
  /\ cached' = {task[t].seen}
  /\ task' = [task EXCEPT ![t] = [@ EXCEPT !.phase = "fetched"]]
  /\ UNCHANGED <<api, config, edits, clock, rows, history>>

\* now = Utc::now(); load_guild_config, which falls back to the default on error
LoadGuildConfig(t) ==
  /\ task[t].phase = "fetched"
  /\ clock' = clock + 1
  /\ \E c \in {config, DefaultConfig} :
       task' = [task EXCEPT ![t] =
                  [@ EXCEPT !.phase = "reading", !.cfg = c, !.now = clock + 1,
                            !.todo = {s \in DOMAIN c : Present(task[t].seen, s)}]]
  /\ UNCHANGED <<api, cached, config, edits, rows, history>>

\* One turn of the loop over xp_config.keys(), in hash order: the read ...
ReadLatest(t, s) ==
  /\ task[t].phase = "reading"
  /\ s \in task[t].todo
  /\ task' = [task EXCEPT ![t] = [@ EXCEPT !.phase = "recording", !.cur = {s},
                                           !.prev = LatestValue(snapshots[s])]]
  /\ UNCHANGED <<api, cached, config, edits, clock, rows, history>>

\* A delta is pushed for a counter that was seen before and has grown.
Grew(old, new) == old # Absent /\ new > old

\* insert_hypixel_snapshot for a first or a changed reading, else nothing
Stored(R, old, row) == IF row.val # old THEN R \cup {row} ELSE R

\* ... and what the reading leads to.
RecordSnapshot(t, s) ==
  LET old == task[t].prev
      new == task[t].seen[s]
      deltas == IF Grew(old, new)
                  THEN Append(task[t].deltas, [stat |-> s, old |-> old, new |-> new])
                  ELSE task[t].deltas
  IN
  /\ task[t].phase = "recording"
  /\ task[t].cur = {s}
  /\ snapshots' = [snapshots EXCEPT ![s] = Stored(@, old, [at |-> task[t].now, val |-> new])]
  /\ task' = [task EXCEPT ![t] =
                [@ EXCEPT !.phase = "reading", !.todo = task[t].todo \ {s}, !.cur = {}, !.prev = Absent,
                          !.deltas = deltas]]
  /\ pending' = IF Grew(old, new) THEN [pending EXCEPT ![s] = @ + (new - old)] ELSE pending
  /\ UNCHANGED <<api, cached, config, edits, clock, ledger, xp,
                 overlapped, dropped, withheld>>

Committed == [Idle EXCEPT !.phase = "committed"]
LoopDone(t) == task[t].phase = "reading" /\ task[t].todo = {}

\* apply_stat_deltas, early return: no positive delta
NothingToApply(t) ==
  /\ LoopDone(t)
  /\ task[t].deltas = <<>>
  /\ task' = [task EXCEPT ![t] = Committed]
  /\ UNCHANGED <<api, cached, config, edits, clock, rows, history>>

\* The xp row after a batch: the increment happens in place and the level is
\* recomputed from the total just written; nothing is written unless the batch
\* earned more than it cost.
XpAfterMutantAbsolute(earned) ==
  IF earned > 0 THEN [total |-> earned, level |-> CalculateLevel(earned)] ELSE xp
XpAfterMutantAnySum(earned) ==
  [total |-> xp.total + earned, level |-> CalculateLevel(xp.total + earned)]
XpAfterMutantStaleLevel(earned) ==
  IF earned > 0 THEN [total |-> xp.total + earned, level |-> CalculateLevel(xp.total)] ELSE xp
XpAfter(earned) ==
  IF earned > 0
    THEN [total |-> xp.total + earned, level |-> CalculateLevel(xp.total + earned)]
    ELSE xp

\* apply_stat_deltas: one transaction writes the rows and the xp row.
ApplyStatDeltas(t) ==
  LET batch == CalculateXpRewards(task[t].deltas, task[t].cfg)
      earned == TotalEarned(batch)
  IN
  /\ LoopDone(t)
  /\ task[t].deltas # <<>>
  /\ ledger' = ledger \o batch
  /\ xp' = XpAfter(earned)
  /\ withheld' = IF earned > 0 THEN withheld ELSE withheld + earned
  /\ pending' = [s \in Stats |-> pending[s] - Units(s, task[t].deltas)]
  /\ task' = [task EXCEPT ![t] = Committed]
  /\ UNCHANGED <<api, cached, config, edits, clock, snapshots,
                 overlapped, dropped>>

\* After the event awards (module EventXp) nothing is left but another stamp.
Finish(t) ==
  /\ task[t].phase = "committed"
  /\ task' = [task EXCEPT ![t] = Idle]
  /\ UNCHANGED <<api, cached, config, edits, clock, rows, history>>

\* A `?` returns early: the request, a query, the transaction, or the
\* disqualification check after it failed.  Snapshots already stored stay.
Fail(t) ==
  /\ task[t].phase \notin {"idle", "fetched"}
  /\ task' = [task EXCEPT ![t] = Idle]
  /\ pending' = [s \in Stats |-> pending[s] - Units(s, task[t].deltas)]
  /\ dropped' = [s \in Stats |-> dropped[s] + Units(s, task[t].deltas)]
  /\ UNCHANGED <<api, cached, config, edits, clock, rows, overlapped, withheld>>

\* The process dies: the tasks and the cache are gone, the rows are not.
Crash ==
  /\ \E t \in Tasks : task[t].phase # "idle"
  /\ task' = [t \in Tasks |-> Idle]
  /\ cached' = {}
  /\ dropped' = [s \in Stats |-> dropped[s] + pending[s]]
  /\ pending' = [s \in Stats |-> 0]
  /\ UNCHANGED <<api, config, edits, clock, rows, overlapped, withheld>>

PrunableMutantLatest(R, cutoff) ==
  {r \in R : r.at < cutoff /\ \E older \in R : older.at < r.at}

\* A row that retention may delete: older than the cutoff, with an older and a
\* newer row of the same stat.
Prunable(R, cutoff) ==
  {r \in R : /\ r.at < cutoff
             /\ \E older \in R : older.at < r.at
             /\ \E newer \in R : newer.at > r.at}

\* prune_old_hypixel_snapshots; a batch deletes the oldest rows, as an earlier
\* cutoff would.
Prune(cutoff) ==
  /\ \E s \in Stats : Prunable(snapshots[s], cutoff) # {}
  /\ snapshots' = [s \in Stats |-> snapshots[s] \ Prunable(snapshots[s], cutoff)]
  /\ UNCHANGED <<api, cached, config, edits, clock, ledger, xp, task, history>>

TaskStep(t) ==
  \/ Begin(t)
  \/ FetchCached(t)
  \/ FetchPlayer(t)
  \/ CacheResponse(t)
  \/ LoadGuildConfig(t)
  \/ \E s \in Stats : ReadLatest(t, s)
  \/ \E s \in Stats : RecordSnapshot(t, s)
  \/ NothingToApply(t)
  \/ ApplyStatDeltas(t)
  \/ Finish(t)
  \/ Fail(t)

\* The bound on refreshes is spent and none is left half-way.
BoundsSpent ==
  /\ clock >= MaxClock
  /\ \A t \in Tasks : task[t].phase = "idle"
  /\ UNCHANGED vars

Next ==
  \/ \E t \in Tasks : TaskStep(t)
  \/ \E s \in Stats : Play(s)
  \/ \E c \in Configs : EditConfig(c)
  \/ CacheExpires
  \/ Crash
  \/ \E cutoff \in 1..MaxClock : Prune(cutoff)
  \/ BoundsSpent

Spec == Init /\ [][Next]_vars
-----------------------------------------------------------------------------
\* Every variable stays in its type: a task's copies of rows, readings and
\* configuration, and the rows it writes (refresh_user, apply_stat_deltas).
TypeOK ==
  /\ api \in [Stats -> 0..MaxStat]
  /\ cached \subseteq Readings
  /\ config \in Configs
  /\ edits \in Nat
  /\ clock \in Nat
  /\ snapshots \in [Stats -> SUBSET SnapshotRows]
  /\ ledger \in Seq(LedgerRows)
  /\ xp \in [total : Nat, level : 1..LevelCap]
  /\ task \in [Tasks -> TaskStates]
  /\ overlapped \in BOOLEAN
  /\ pending \in [Stats -> Int]
  /\ dropped \in [Stats -> Int]
  /\ withheld \in Int

\* The total and the rewards on record differ by what batches that cost more than
\* they earned left out of the total, and by nothing else, whichever refreshes
\* ran at once, failed or died: the increment shares the rows' transaction.
LedgerBalanced == xp.total + withheld = TotalEarned(ledger)

\* The stored level is the one xp_for_level puts the stored total in, so that
\* calculate_level and its inverse companion agree after every commit.
LevelInItsBand == InItsBand(xp)

\* What a stat's snapshots span, from the oldest row kept to the newest.
Span(R) == IF R = {} THEN 0 ELSE Latest(R).val - Earliest(R).val

\* Unless refreshes of the player overlapped, every unit between the oldest and
\* the newest snapshot is credited, about to be, or was dropped by a failure:
\* none is counted twice or forgotten, across restarts, edits and retention.
EveryUnitAccounted ==
  ~overlapped =>
    \A s \in Stats : Units(s, ledger) + pending[s] + dropped[s] = Span(snapshots[s])

\* Unless refreshes overlapped, the ledger never credits more units of a stat
\* than the player gained since the first snapshot.
NeverOvercredited ==
  ~overlapped => \A s \in Stats : snapshots[s] # {} =>
                   Units(s, ledger) <= api[s] - Earliest(snapshots[s]).val

\* Every step of the refreshes is a step of the ledger's contract or leaves the
\* rows alone: the log only grows and the xp row moves with it (apply_stat_deltas).
Contract == INSTANCE XpLedger WITH ledger <- ledger, xp <- xp
ImplementsXpLedger == Contract!Spec
=============================================================================
