------------------------------- MODULE EventXp -------------------------------
(***************************************************************************)
(* One event and the XP one player gets in it.  The tracker and the        *)
(* sweeper commit a row of stat_deltas first and only then award event XP  *)
(* for it; a backfill does the same later for every row it finds in the    *)
(* event's time window.  The event's status follows its dates with a lag,  *)
(* or a command forces it.  ON CONFLICT (event_id, delta_id) DO NOTHING    *)
(* makes event_xp a set of deltas.                                         *)
(***************************************************************************)
EXTENDS Naturals, FiniteSets

CONSTANTS MaxDelta,        \* bound: rows of stat_deltas
          MaxTime,         \* bound: ticks of the clock
          BatchSize,       \* LIMIT of the backfill's query (500 in the code)
          MaxDisturbances  \* bound: failures, restarts, punishments and commands, together

ASSUME BatchAssumption == BatchSize \in Nat \ {0}
ASSUME BoundsAssumption == MaxDelta \in Nat /\ MaxTime \in Nat /\ MaxDisturbances \in Nat

VARIABLES
  clock,
  event,       \* the row of events: status, start_date, end_date
  seeded,      \* its event_stats has the player's stat
  delta,       \* stat_deltas: when each row is stamped, how far its task got
  rows,        \* the deltas that have a row in event_xp
  allowed,     \* is_player_allowed(player, event) and users.active
  elsewhere,   \* the player is disqualified from another active event
  creation,    \* how far /edit-event new got
  backfill,    \* the backfill that new spawns, and the one of /edit-event backfill
  disturbances,
  excused      \* history: deltas that went without for a reason but the status lag

vars == <<clock, event, seeded, delta, rows, allowed, elsewhere, creation, backfill,
          disturbances, excused>>

Deltas == 1..MaxDelta
Times == 0..(MaxTime + 1)
Backfills == {"new", "manual"}

NoBackfill == [phase |-> "idle", from |-> 0, to |-> 0, cursor |-> 0, batch |-> {},
               tries |-> 0, owed |-> {}]
NoDelta == [phase |-> "none", at |-> 0]
Aborted == [NoDelta EXCEPT !.phase = "aborted"]
\* What is left of a backfill that is over.
Done(b) == [NoBackfill EXCEPT !.phase = "done", !.owed = b.owed]
Failed == [NoBackfill EXCEPT !.phase = "failed"]

DeltaPhases == {"none", "stamped", "inserted", "committed", "checked", "settled", "aborted"}
BackfillStates ==
  [phase : {"idle", "spawned", "reading", "batch", "done", "failed"}, from : Times, to : Times,
   cursor : 0..MaxDelta, batch : SUBSET Deltas, tries : 0..3, owed : SUBSET Deltas]

TypeOK ==
  /\ clock \in 0..MaxTime
  /\ event \in [status : {"none", "pending", "active", "ended", "deleted"},
                start : Times, end : Times]
  /\ event.status # "none" => event.start < event.end
  /\ seeded \in BOOLEAN
  /\ delta \in [Deltas -> [phase : DeltaPhases, at : 0..MaxTime]]
  /\ rows \subseteq {d \in Deltas : delta[d].phase \in {"committed", "checked", "settled"}}
  /\ allowed \in BOOLEAN /\ elsewhere \in BOOLEAN
  /\ creation \in [phase : {"none", "created", "seeded", "updated", "ended"},
                   due : BOOLEAN, edited : BOOLEAN]
  /\ backfill \in [Backfills -> BackfillStates]
  /\ disturbances \in 0..MaxDisturbances
  /\ excused \subseteq Deltas

Init ==
  /\ clock = 0
  /\ event = [status |-> "none", start |-> 0, end |-> 0]
  /\ seeded = FALSE
  /\ delta = [d \in Deltas |-> NoDelta]
  /\ rows = {}
  /\ allowed = TRUE
  /\ elsewhere = FALSE
  /\ creation = [phase |-> "none", due |-> FALSE, edited |-> FALSE]
  /\ backfill = [k \in Backfills |-> NoBackfill]
  /\ disturbances = 0
  /\ excused = {}

\* A query, reply or transaction fails, the bot restarts, a command is used, the
\* player's eligibility changes: what the bound counts.
Disturb == disturbances < MaxDisturbances /\ disturbances' = disturbances + 1
Exists == event.status \in {"pending", "active", "ended"}
Lesser(a, b) == IF a < b THEN a ELSE b

Tick ==
  /\ clock < MaxTime
  /\ clock' = clock + 1
  /\ UNCHANGED <<event, seeded, delta, rows, allowed, elsewhere, creation, backfill, disturbances,
                 excused>>

\* disqualify, undisqualify, ban, unban, mark_user_inactive and mark_user_active
Punish ==
  /\ Disturb
  /\ \/ allowed' = ~allowed /\ UNCHANGED elsewhere
     \/ elsewhere' = ~elsewhere /\ UNCHANGED allowed
  /\ UNCHANGED <<clock, event, seeded, delta, rows, creation, backfill, excused>>
-----------------------------------------------------------------------------
(* The event's status *)

\* The status after update_event_statuses: two statements, the second of which
\* sees what the first wrote.
UpdatedStatus ==
  CASE event.status = "pending" /\ event.end <= clock -> "ended"
    [] event.status = "pending" /\ event.start <= clock /\ clock < event.end -> "active"
    [] event.status = "active" /\ event.end <= clock -> "ended"
    [] OTHER -> event.status

\* The event status updater's tick, every 60 s.
UpdateEventStatuses ==
  /\ event' = [event EXCEPT !.status = UpdatedStatus]
  /\ UNCHANGED <<clock, seeded, delta, rows, allowed, elsewhere, creation, backfill, disturbances,
                 excused>>

\* update_event: new dates for an event that has not ended; the table refuses
\* an end that is not after the start.
EditEvent(start, end) ==
  /\ event.status \in {"pending", "active"}
  /\ start < end
  /\ Disturb
  /\ event' = [event EXCEPT !.start = start, !.end = end]
  /\ creation' = [creation EXCEPT !.edited = TRUE]
  /\ UNCHANGED <<clock, seeded, delta, rows, allowed, elsewhere, backfill, excused>>

StartedMutantAnyStatus(status) == "active"
Started(status) == IF status = "pending" THEN "active" ELSE status

\* force_start_event: the dates stay as they are.
ForceStart ==
  /\ Exists
  /\ Disturb
  /\ event' = [event EXCEPT !.status = Started(event.status)]
  /\ UNCHANGED <<clock, seeded, delta, rows, allowed, elsewhere, creation, backfill, excused>>

\* force_end_event
ForceEnd ==
  /\ Exists
  /\ Disturb
  /\ event' = [event EXCEPT !.status = "ended"]
  /\ UNCHANGED <<clock, seeded, delta, rows, allowed, elsewhere, creation, backfill, excused>>

\* delete_event; its event_stats and event_xp rows go with it.
DeleteEvent ==
  /\ event.status \in {"pending", "active"}
  /\ Disturb
  /\ event' = [event EXCEPT !.status = "deleted"]
  /\ seeded' = FALSE
  /\ rows' = {}
  /\ backfill' = [k \in Backfills |-> [backfill[k] EXCEPT !.owed = {}]]
  /\ UNCHANGED <<clock, delta, allowed, elsewhere, creation, excused>>
-----------------------------------------------------------------------------
(* /edit-event new *)

CreateEvent(start, end) ==
  /\ creation.phase = "none"
  /\ start < end
  /\ event' = [status |-> "pending", start |-> start, end |-> end]
  /\ creation' = [creation EXCEPT !.phase = "created"]
  /\ UNCHANGED <<clock, seeded, delta, rows, allowed, elsewhere, backfill, disturbances, excused>>

\* seed_event_stats_from_xp_config
SeedEventStats ==
  /\ creation.phase = "created"
  /\ \/ /\ Exists
        /\ seeded' = TRUE
        /\ creation' = [creation EXCEPT !.phase = "seeded"]
        /\ UNCHANGED disturbances
     \/ /\ IF Exists THEN Disturb ELSE UNCHANGED disturbances
        /\ creation' = [creation EXCEPT !.phase = "ended"]
        /\ UNCHANGED seeded
  /\ UNCHANGED <<clock, event, delta, rows, allowed, elsewhere, backfill, excused>>

ActivatedMutantLeftToTicker == UNCHANGED event
Activated == event' = [event EXCEPT !.status = UpdatedStatus]

\* update_event_statuses at once; its failure is only logged.
UpdateOnCreation ==
  /\ creation.phase = "seeded"
  /\ \/ /\ Activated
        /\ creation' = [creation EXCEPT !.phase = "updated", !.due = event.start <= clock]
        /\ UNCHANGED disturbances
     \/ /\ Disturb
        /\ creation' = [creation EXCEPT !.phase = "updated"]
        /\ UNCHANGED event
  /\ UNCHANGED <<clock, seeded, delta, rows, allowed, elsewhere, backfill, excused>>

\* needs_backfill, the reply and the log message, then the spawned backfill; a
\* reply that fails returns before it.
ReplyAndSpawn ==
  /\ creation.phase = "updated"
  /\ creation' = [creation EXCEPT !.phase = "ended"]
  /\ \/ /\ backfill' = IF event.start < clock
                         THEN [backfill EXCEPT !["new"] = [NoBackfill EXCEPT !.phase = "spawned"]]
                         ELSE backfill
        /\ UNCHANGED disturbances
     \/ Disturb /\ UNCHANGED backfill
  /\ UNCHANGED <<clock, event, seeded, delta, rows, allowed, elsewhere, excused>>
-----------------------------------------------------------------------------
(* The task of one delta: apply_stat_deltas or increment_stat_by *)

Put(d, phase) == delta' = [delta EXCEPT ![d].phase = phase]

\* now = Utc::now()
Stamp(d) ==
  /\ delta[d].phase = "none"
  /\ delta' = [delta EXCEPT ![d] = [phase |-> "stamped", at |-> clock]]
  /\ UNCHANGED <<clock, event, seeded, rows, allowed, elsewhere, creation, backfill, disturbances,
                 excused>>

\* INSERT INTO stat_deltas: ids are drawn in this order, inside the transaction.
InsertDelta(d) ==
  /\ delta[d].phase = "stamped"
  /\ \A e \in 1..(d - 1) : delta[e].phase \notin {"none", "stamped"}
  /\ Put(d, "inserted")
  /\ UNCHANGED <<clock, event, seeded, rows, allowed, elsewhere, creation, backfill, disturbances,
                 excused>>

\* The transaction commits or not, whatever transaction drew the id before.
CommitDelta(d) ==
  /\ delta[d].phase = "inserted"
  /\ \/ Put(d, "committed") /\ UNCHANGED disturbances
     \/ delta' = [delta EXCEPT ![d] = Aborted] /\ Disturb
  /\ UNCHANGED <<clock, event, seeded, rows, allowed, elsewhere, creation, backfill, excused>>

\* is_user_disqualified_in_any_active_event
BlockedAnywhere == elsewhere \/ (event.status = "active" /\ ~allowed)

\* The sweeper's check before it awards anything; the tracker has none.
CheckDisqualified(d) ==
  /\ delta[d].phase = "committed"
  /\ \/ /\ ~BlockedAnywhere
        /\ Put(d, "checked")
        /\ UNCHANGED <<disturbances, excused>>
     \/ /\ IF BlockedAnywhere THEN UNCHANGED disturbances ELSE Disturb
        /\ Put(d, "settled")
        /\ excused' = excused \cup {d}
  /\ UNCHANGED <<clock, event, seeded, rows, allowed, elsewhere, creation, backfill>>

InWindow(d) == event.start <= delta[d].at /\ delta[d].at < event.end

\* The guards of award_event_xp_for_delta's INSERT ... SELECT.
Awardable(d) == event.status = "active" /\ seeded /\ InWindow(d) /\ allowed

AwardEventXp(d) ==
  /\ delta[d].phase \in {"committed", "checked"}
  /\ \/ /\ rows' = IF Awardable(d) THEN rows \cup {d} ELSE rows
        /\ excused' = IF event.status \in {"ended", "deleted"} \/ ~allowed
                        THEN excused \cup {d} ELSE excused
        /\ UNCHANGED disturbances
     \/ Disturb /\ excused' = excused \cup {d} /\ UNCHANGED rows
  /\ Put(d, "settled")
  /\ UNCHANGED <<clock, event, seeded, allowed, elsewhere, creation, backfill>>
-----------------------------------------------------------------------------
(* backfill_event_xp *)

CommittedMutantDirtyRead(d) == delta[d].phase \notin {"none", "stamped", "aborted"}
Committed(d) == delta[d].phase \in {"committed", "checked", "settled"}

Window(from, to) == {d \in Deltas : Committed(d) /\ from <= delta[d].at /\ delta[d].at <= to}

Unchanged == UNCHANGED <<clock, event, seeded, delta, allowed, elsewhere, creation>>

\* /edit-event backfill, once count_deltas_for_event has found something
StartManual ==
  /\ backfill["manual"].phase \in {"idle", "done", "failed"}
  /\ Exists /\ seeded
  /\ Window(event.start, Lesser(event.end, clock)) # {}
  /\ backfill' = [backfill EXCEPT !["manual"] = [NoBackfill EXCEPT !.phase = "spawned"]]
  /\ Unchanged /\ UNCHANGED <<rows, excused, disturbances>>

\* The event's row and its stats; the window is fixed from here on.
LoadEvent(k) ==
  LET to == Lesser(event.end, clock)
  IN
  /\ backfill[k].phase = "spawned"
  /\ \/ /\ Exists /\ seeded
        /\ backfill' = [backfill EXCEPT ![k] =
                          [@ EXCEPT !.phase = "reading", !.from = event.start, !.to = to,
                                    !.owed = Window(event.start, to)]]
        /\ UNCHANGED disturbances
     \/ /\ Exists /\ ~seeded
        /\ backfill' = [backfill EXCEPT ![k] = Done(@)]
        /\ UNCHANGED disturbances
     \/ /\ IF Exists THEN Disturb ELSE UNCHANGED disturbances
        /\ backfill' = [backfill EXCEPT ![k] = Failed]
  /\ Unchanged /\ UNCHANGED <<rows, excused>>

\* ORDER BY id ASC LIMIT BatchSize
FirstOf(S) == {d \in S : Cardinality({e \in S : e < d}) < BatchSize}
LastOf(S) == CHOOSE d \in S : \A e \in S : e <= d

\* Where the next query starts.
NextCursorMutantSkipsOne(batch) == Lesser(LastOf(batch) + 1, MaxDelta)
NextCursor(batch) == LastOf(batch)

ReadBatch(k) ==
  LET b == backfill[k]
      batch == FirstOf({d \in Window(b.from, b.to) : d > b.cursor})
  IN
  /\ b.phase = "reading"
  /\ \/ /\ backfill' = IF batch = {} THEN [backfill EXCEPT ![k] = Done(@)]
                       ELSE [backfill EXCEPT ![k] =
                               [@ EXCEPT !.phase = "batch", !.batch = batch,
                                         !.cursor = NextCursor(batch)]]
        /\ UNCHANGED disturbances
     \/ Disturb /\ backfill' = [backfill EXCEPT ![k] = Failed]
  /\ Unchanged /\ UNCHANGED <<rows, excused>>

\* process_batch: one transaction.  An ineligible player's rows are left out; a
\* deleted event fails the foreign key.
ProcessBatch(k) ==
  LET b == backfill[k]
      given == IF allowed THEN b.batch ELSE {}
      rest == [b EXCEPT !.phase = "reading", !.batch = {}, !.tries = 0,
                        !.owed = @ \ (b.batch \ given)]
  IN
  /\ b.phase = "batch"
  /\ event.status # "deleted" \/ ~allowed
  /\ rows' = rows \cup given
  /\ excused' = excused \cup (b.batch \ given)
  /\ backfill' = [backfill EXCEPT ![k] =
                    IF Cardinality(b.batch) < BatchSize THEN Done(rest) ELSE rest]
  /\ Unchanged /\ UNCHANGED disturbances

\* process_batch_with_retry: the third failure ends the backfill.  The answer to
\* the COMMIT may be all that failed.
RetryBatch(k) ==
  LET b == backfill[k]
      given == IF allowed THEN b.batch ELSE {}
  IN
  /\ b.phase = "batch"
  /\ \/ /\ IF event.status = "deleted" /\ allowed THEN UNCHANGED disturbances ELSE Disturb
        /\ UNCHANGED rows
     \/ /\ event.status # "deleted" \/ ~allowed
        /\ Disturb
        /\ rows' = rows \cup given
  /\ backfill' = [backfill EXCEPT ![k] =
                    IF b.tries < 2 THEN [@ EXCEPT !.tries = b.tries + 1]
                    ELSE Failed]
  /\ Unchanged /\ UNCHANGED excused
-----------------------------------------------------------------------------
\* The bot restarts: its tasks are gone, open transactions roll back.
Crash ==
  /\ Disturb
  /\ delta' = [d \in Deltas |->
                 IF delta[d].phase \in {"stamped", "inserted"}
                   THEN Aborted
                 ELSE IF delta[d].phase \in {"committed", "checked"}
                   THEN [delta[d] EXCEPT !.phase = "settled"]
                 ELSE delta[d]]
  /\ excused' = excused \cup {d \in Deltas : delta[d].phase \in {"committed", "checked"}}
  /\ creation' = IF creation.phase = "none" THEN creation
                 ELSE [creation EXCEPT !.phase = "ended"]
  /\ backfill' = [k \in Backfills |->
                    IF backfill[k].phase \in {"done", "failed"} THEN backfill[k] ELSE NoBackfill]
  /\ UNCHANGED <<clock, event, seeded, rows, allowed, elsewhere>>

\* The bounds are spent and every task is over.
Quiet ==
  /\ clock = MaxTime
  /\ \A d \in Deltas : delta[d].phase \in {"settled", "aborted"}
  /\ UNCHANGED vars

CreationStep == SeedEventStats \/ UpdateOnCreation \/ ReplyAndSpawn
DeltaStep(d) ==
  Stamp(d) \/ InsertDelta(d) \/ CommitDelta(d) \/ CheckDisqualified(d) \/ AwardEventXp(d)
BackfillStep(k) == LoadEvent(k) \/ ReadBatch(k) \/ ProcessBatch(k) \/ RetryBatch(k)

Next ==
  \/ Tick \/ Punish \/ UpdateEventStatuses
  \/ \E start, end \in Times : EditEvent(start, end) \/ CreateEvent(start, end)
  \/ ForceStart \/ ForceEnd \/ DeleteEvent \/ StartManual
  \/ CreationStep
  \/ \E d \in Deltas : DeltaStep(d)
  \/ \E k \in Backfills : BackfillStep(k)
  \/ Crash \/ Quiet

Spec == Init /\ [][Next]_vars
-----------------------------------------------------------------------------
\* A backfill that finishes has given the player every delta of its window that
\* was committed when it started, unless the player was not eligible at the time:
\* the cursor skips none, batches and retries lose none, and a run after a crash
\* makes up for what the crash lost (backfill_event_xp, process_batch).
BackfillComplete ==
  \A k \in Backfills : backfill[k].phase = "done" => backfill[k].owed \subseteq rows

\* An event created after its start loses nothing to the time it took to set it
\* up: once the backfill of /edit-event new is over, every delta of the window
\* has its row, from the award at its commit or from the backfill, even those
\* under way meanwhile.  Excused are failures, ineligible players and awards
\* after the end (new, update_event_statuses, backfill_event_xp).
CreationCovers ==
  (/\ backfill["new"].phase = "done"
   /\ creation.due /\ ~creation.edited
   /\ event.status # "deleted")
  => \A d \in Deltas \ excused : delta[d].phase = "settled" /\ InWindow(d) => d \in rows

\* An event that has ended stays so whatever the ticker and the commands do to
\* it at once (update_event_statuses, force_start_event, update_event).
EndedForGood == [][event.status = "ended" => event'.status = "ended"]_vars

\* The award's documentation: a delta gets a row for every active event that
\* tracks its stat.  Here: one stamped just now, while the end is still ahead, for
\* a player who is allowed (award_event_xp_for_delta).
Rewarded(d) ==
  /\ AwardEventXp(d)
  /\ event.status = "active" /\ seeded /\ allowed /\ d \notin excused'
  /\ delta[d].at = clock /\ clock < event.end
ActiveEventAwards ==
  [][~creation.edited => \A d \in Deltas : Rewarded(d) => d \in rows']_vars
=============================================================================
