---------------------------- MODULE HypixelSweeps ----------------------------
(***************************************************************************)
(* Which player is refreshed when.  Three kinds of tasks call refresh_user *)
(* (module HypixelRefresh has its inside; here it is one step): the stale  *)
(* sweep that takes the least recently refreshed players in small batches, *)
(* the full sweeps that the event scheduler launches before the start and  *)
(* the end of an event, and the commands.  is_full_sweep_running is meant  *)
(* to keep the sweeps apart.  Times are kept as an order only.             *)
(***************************************************************************)
EXTENDS Naturals, Sequences, FiniteSets, SequencesExt

CONSTANTS Users,        \* registered players
          Broken,       \* players whose request always fails
          Movers,       \* players who may leave the guild and register again
          Boundaries,   \* starts and ends of events
          Batch,        \* the LIMIT of the stale sweep's query (10 in the code)
          MaxFailures,  \* bound: queries and requests that fail
          MaxRestarts   \* bound: restarts of the bot

ASSUME UsersAssumption == IsFiniteSet(Users) /\ Broken \subseteq Users /\ Movers \subseteq Users
ASSUME BatchAssumption == Batch \in Nat \ {0}
ASSUME BoundsAssumption == MaxFailures \in Nat /\ MaxRestarts \in Nat

VARIABLES
  queue,      \* the users ordered by last_hypixel_refresh, NULL first
  expired,    \* users whose last_hypixel_refresh is NULL or older than 2 h
  active,     \* users with users.active = TRUE
  behind,     \* users who have played since their counters were last stored
  flag,       \* Data.is_full_sweep_running
  stale,      \* the stale sweep's task: its place in the loop and the users left
  full,       \* the full sweep of each boundary
  window,     \* whether the boundary's sweep is not due yet, due, or too late
  triggered,  \* scheduled_pre_start and scheduled_pre_end
  failures,
  restarts

people == <<queue, expired, active, behind>>
sweeps == <<flag, stale, full, triggered>>
vars == <<people, sweeps, window, failures, restarts>>

NoStale == [phase |-> "idle", todo |-> <<>>]
NoFull == [phase |-> "idle", todo |-> {}]
FullStates == [phase : {"idle", "spawned", "sweeping"}, todo : SUBSET Users]

TypeOK ==
  /\ queue \in [1..Cardinality(Users) -> Users]
  /\ IsInjective(queue)
  /\ \E n \in 0..Len(queue) : expired = {queue[i] : i \in 1..n}
  /\ active \subseteq Users
  /\ behind \subseteq Users
  /\ flag \in BOOLEAN
  /\ stale.phase \in {"idle", "checked", "sweeping"}
  /\ stale.todo \in Seq(Users) /\ Len(stale.todo) <= Batch
  /\ full \in [Boundaries -> FullStates]
  /\ window \in [Boundaries -> {"ahead", "open", "past"}]
  /\ triggered \subseteq Boundaries
  /\ failures \in 0..MaxFailures
  /\ restarts \in 0..MaxRestarts

\* Everyone has just registered: last_hypixel_refresh is NULL.
Init ==
  /\ queue \in [1..Cardinality(Users) -> Users]
  /\ IsInjective(queue)
  /\ expired = Users
  /\ active = Users
  /\ behind = {}
  /\ flag = FALSE
  /\ stale = NoStale
  /\ full = [b \in Boundaries |-> NoFull]
  /\ window = [b \in Boundaries |-> "ahead"]
  /\ triggered = {}
  /\ failures = 0
  /\ restarts = 0

Without(s, x) == RemoveAt(s, CHOOSE i \in DOMAIN s : s[i] = x)
-----------------------------------------------------------------------------
(* The players and the clock *)

Play(u) ==
  /\ u \notin behind
  /\ behind' = behind \cup {u}
  /\ UNCHANGED <<queue, expired, active, sweeps, window, failures, restarts>>

\* Two hours have passed for the next user in line.
Age ==
  /\ \E i \in DOMAIN queue :
       /\ queue[i] \notin expired
       /\ \A j \in 1..(i - 1) : queue[j] \in expired
       /\ expired' = expired \cup {queue[i]}
  /\ UNCHANGED <<queue, active, behind, sweeps, window, failures, restarts>>

\* mark_user_inactive, and register_user on a row that exists already
Leave(u) ==
  /\ u \in Movers \cap active
  /\ active' = active \ {u}
  /\ UNCHANGED <<queue, expired, behind, sweeps, window, failures, restarts>>

Return(u) ==
  /\ u \in Movers \ active
  /\ active' = active \cup {u}
  /\ UNCHANGED <<queue, expired, behind, sweeps, window, failures, restarts>>
-----------------------------------------------------------------------------
(* refresh_user *)

\* update_last_hypixel_refresh comes before the request, so that a request that
\* fails counts too.
StampedMutantOnSuccess(u, ok) ==
  IF ok THEN /\ queue' = Append(Without(queue, u), u)
             /\ expired' = expired \ {u}
        ELSE UNCHANGED <<queue, expired>>
Stamped(u, ok) ==
  /\ queue' = Append(Without(queue, u), u)
  /\ expired' = expired \ {u}

\* A failure is charged to the budget, but for a player whose request always fails.
Charge == failures < MaxFailures /\ failures' = failures + 1

\* refresh_user(u) when the 60 s response cache may answer or not
RefreshUser(u, mayBeCached) ==
  \/ /\ u \notin Broken                     \* the counters are stored
     /\ Stamped(u, TRUE)
     /\ behind' = behind \ {u}
     /\ UNCHANGED failures
  \/ /\ mayBeCached /\ u \notin expired     \* an answer up to 60 s old is stored
     /\ u \notin Broken
     /\ Stamped(u, TRUE)
     /\ UNCHANGED <<behind, failures>>
  \/ /\ Stamped(u, FALSE)                   \* the request fails
     /\ IF u \in Broken THEN UNCHANGED failures ELSE Charge
     /\ UNCHANGED behind
  \/ /\ Charge                              \* the first UPDATE fails
     /\ UNCHANGED <<queue, expired, behind>>

\* refresh_hypixel_user for a command; its cooldown is the cache's TTL, so the
\* cache has nothing for it.
Command(u) ==
  /\ u \in active
  /\ RefreshUser(u, FALSE)
  /\ UNCHANGED <<active, sweeps, window, restarts>>
-----------------------------------------------------------------------------
(* The stale sweep *)

\* The ticker fires: skip while a full sweep is running.
StaleCheck ==
  /\ stale.phase = "idle"
  /\ ~flag
  /\ stale' = [stale EXCEPT !.phase = "checked"]
  /\ UNCHANGED <<people, flag, full, triggered, window, failures, restarts>>

\* get_users_with_expired_hypixel_stats: of the first i in line, the active ones
\* who are due, up to the LIMIT.
Due[i \in 0..Len(queue)] ==
  IF i = 0 THEN <<>>
  ELSE IF queue[i] \in active \cap expired /\ Len(Due[i - 1]) < Batch
       THEN Append(Due[i - 1], queue[i])
       ELSE Due[i - 1]
ExpiredUsersMutantNoLimit == SelectSeq(queue, LAMBDA u : u \in active \cap expired)
ExpiredUsers == Due[Len(queue)]

StaleSelect ==
  /\ stale.phase = "checked"
  /\ \/ /\ stale' = IF ExpiredUsers = <<>> THEN NoStale
                    ELSE [phase |-> "sweeping", todo |-> ExpiredUsers]
        /\ UNCHANGED failures
     \/ stale' = NoStale /\ Charge
  /\ UNCHANGED <<people, flag, full, triggered, window, restarts>>

\* One turn of run_hypixel_stale_sweep's loop; it never looks at the flag again.
StaleRefresh ==
  LET u == Head(stale.todo)
      rest == Tail(stale.todo)
  IN
  /\ stale.phase = "sweeping"
  /\ RefreshUser(u, TRUE)
  /\ stale' = IF rest = <<>> THEN NoStale ELSE [stale EXCEPT !.todo = rest]
  /\ UNCHANGED <<active, flag, full, triggered, window, restarts>>
-----------------------------------------------------------------------------
(* The event sweep scheduler and its full sweeps *)

\* now >= window_start, while get_all_pending_events or get_all_active_events
\* still returns the event ...
Open(b) ==
  /\ window[b] = "ahead"
  /\ window' = [window EXCEPT ![b] = "open"]
  /\ UNCHANGED <<people, sweeps, failures, restarts>>

\* ... which it does until the boundary itself.
Pass(b) ==
  /\ window[b] = "open"
  /\ window' = [window EXCEPT ![b] = "past"]
  /\ UNCHANGED <<people, sweeps, failures, restarts>>

\* is_full_sweep_running.swap(true): the sweep is launched if the old value was
\* false, else deferred to a later poll.
LaunchedMutantIgnoreSwap(b) ==
  /\ full' = [full EXCEPT ![b] = [phase |-> "spawned", todo |-> {}]]
  /\ triggered' = triggered \cup {b}
LaunchedMutantMarkDeferred(b) ==
  /\ full' = IF flag THEN full ELSE [full EXCEPT ![b] = [phase |-> "spawned", todo |-> {}]]
  /\ triggered' = triggered \cup {b}
Launched(b) ==
  /\ full' = IF flag THEN full ELSE [full EXCEPT ![b] = [phase |-> "spawned", todo |-> {}]]
  /\ triggered' = IF flag THEN triggered ELSE triggered \cup {b}

Poll(b) ==
  /\ window[b] = "open"
  /\ b \notin triggered
  /\ Launched(b)
  /\ flag' = TRUE
  /\ UNCHANGED <<people, stale, window, failures, restarts>>

\* get_all_registered_users(..).unwrap_or_default()
FullSelect(b) ==
  /\ full[b].phase = "spawned"
  /\ \/ /\ full' = [full EXCEPT ![b] = [phase |-> "sweeping", todo |-> active]]
        /\ UNCHANGED failures
     \/ /\ full' = [full EXCEPT ![b] = [phase |-> "sweeping", todo |-> {}]]
        /\ Charge
  /\ UNCHANGED <<people, flag, stale, triggered, window, restarts>>

\* One turn of run_full_hypixel_sweep's loop; the query has no ORDER BY.
FullRefresh(b, u) ==
  /\ full[b].phase = "sweeping"
  /\ u \in full[b].todo
  /\ RefreshUser(u, TRUE)
  /\ full' = [full EXCEPT ![b].todo = @ \ {u}]
  /\ UNCHANGED <<active, flag, stale, triggered, window, restarts>>

\* is_full_sweep_running.store(false)
ReleasedMutantForgotten == UNCHANGED flag
Released == flag' = FALSE

FullDone(b) ==
  /\ full[b].phase = "sweeping"
  /\ full[b].todo = {}
  /\ full' = [full EXCEPT ![b] = NoFull]
  /\ Released
  /\ UNCHANGED <<people, stale, triggered, window, failures, restarts>>

\* The bot restarts: everything in memory starts afresh.
Restart ==
  /\ restarts < MaxRestarts
  /\ restarts' = restarts + 1
  /\ flag' = FALSE
  /\ stale' = NoStale
  /\ full' = [b \in Boundaries |-> NoFull]
  /\ triggered' = {}
  /\ UNCHANGED <<people, window, failures>>
-----------------------------------------------------------------------------
StaleStep == StaleCheck \/ StaleSelect \/ StaleRefresh

FullStep(b) ==
  \/ FullSelect(b)
  \/ \E u \in Users : FullRefresh(b, u)
  \/ FullDone(b)

Next ==
  \/ \E u \in Users : Play(u) \/ Leave(u) \/ Return(u) \/ Command(u)
  \/ Age
  \/ StaleStep
  \/ \E b \in Boundaries : Open(b) \/ Pass(b) \/ Poll(b) \/ FullStep(b)
  \/ Restart

\* The loops keep ticking and the spawned sweeps keep running (tokio polls every
\* ready task), requests are answered or time out, and time passes.  Nobody has
\* to play, leave or use a command, and a window may close at any time.
Fairness ==
  /\ WF_vars(Age)
  /\ WF_vars(StaleStep)
  /\ \A b \in Boundaries : WF_vars(Poll(b)) /\ WF_vars(FullStep(b))

Spec == Init /\ [][Next]_vars /\ Fairness
-----------------------------------------------------------------------------
\* The flag is up exactly while one full sweep is between its launch and its
\* end: two boundaries never sweep at once, and the flag is never left behind
\* to silence the stale sweep (event_sweep_scheduler.rs, swap and store).
InFlight(b) == full[b].phase # "idle"
FlagTracksSweeps ==
  /\ flag <=> \E b \in Boundaries : InFlight(b)
  /\ \A a, b \in Boundaries : InFlight(a) /\ InFlight(b) => a = b

\* What a player who stays has played is stored sooner or later, whoever else
\* fails for ever: a failing player does not hold the head of the stale sweep's
\* queue (refresh_user stamps first; get_users_with_expired_hypixel_stats).
PlayedIsStored ==
  \A u \in Users \ Broken : (u \in behind) ~> (u \notin behind \/ u \notin active)

\* A boundary whose window is open gets its sweep, however often it is deferred,
\* unless the boundary passes first (start_event_sweep_scheduler).
OpenBoundarySwept ==
  \A b \in Boundaries :
    (window[b] = "open" /\ b \notin triggered) ~> (InFlight(b) \/ window[b] = "past")

\* The flag's documentation: the stale sweep does not run while a full sweep
\* does (shared/types.rs, is_full_sweep_running).
SweepsExclusive ==
  ~(stale.phase = "sweeping" /\ \E b \in Boundaries : full[b].phase = "sweeping")
=============================================================================
