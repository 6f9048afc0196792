-------------------------------- MODULE Boards --------------------------------
(***************************************************************************)
(* The messages the bot keeps up to date in Discord: the pages of an       *)
(* event's leaderboard, an event's status message, and the pages of the    *)
(* guild's leaderboard.  A table row remembers the ids of the messages; a  *)
(* command posts or removes them, and two loops edit them on a timer, from *)
(* the copy of the row they read at first.  Nothing locks the row, and     *)
(* nothing ties it to the event or to the messages.                        *)
(***************************************************************************)
EXTENDS Integers, Sequences, FiniteSets

CONSTANTS Commands,     \* the commands that may run at once
          Setups,       \* the sets of boards that may be in play: "event", "status", "guild"
          PageSize,     \* players on a page (10 in the code)
          DisplayCount, \* display_count of the event's board, persistent_leaderboard_players
          EndDate,      \* when the event ends, as it was created
          MaxTime,      \* bound: ticks of the clock
          MaxPlayers,   \* bound: players with a place in the standings
          MaxJobs,      \* bound: commands
          MaxFailures   \* bound: failed requests and restarts, together

ASSUME SetupsAssumption == Setups \subseteq SUBSET {"event", "status", "guild"}
ASSUME PageAssumption == PageSize \in Nat \ {0} /\ DisplayCount \in Nat \ {0}
ASSUME TimeAssumption == EndDate \in Nat /\ MaxTime \in Nat /\ EndDate < MaxTime
ASSUME BoundsAssumption == MaxPlayers \in Nat /\ MaxJobs \in Nat /\ MaxFailures \in Nat

VARIABLES
  clock,
  event,     \* events.status, "gone" once the event is deleted
  endDate,   \* events.end_date
  players,   \* how many players the standings have
  row,       \* per kind in play, its row, NoRow when there is none
  messages,  \* the messages in Discord: what each shows; they are numbered as they are posted
  posted,    \* the messages posted so far
  command,   \* what each command is doing
  updater,   \* what each of the two loops is doing
  jobs,      \* commands started (for MaxJobs)
  failures,  \* failures and restarts (for MaxFailures)
  met,       \* history: the kinds on whose row a command met another task
  lost,      \* history: something failed
  early,     \* history: a row was written, by a task that saw the event active, after its end
             \* date: between the end and the status flip, or before the date was moved back
  bare       \* history: the cards the last update passed over, for want of milestones

world == <<clock, event, endDate, players>>
history == <<met, lost, early, bare>>
vars == <<world, row, messages, posted, command, updater, jobs, failures, history>>

Kinds == DOMAIN row

EventInPlay == Kinds # {"guild"}
\* Each loop reads its tables in turn: the event loop has the leaderboards first,
\* then the status messages.
Loops == {"guild", "event"}
Tables(u) == IF u = "guild" THEN {"guild"} \cap Kinds ELSE {"event", "status"} \cap Kinds
NextTable(u, k) == IF Tables(u) \ {k} = {} THEN k ELSE CHOOSE t \in Tables(u) : t # k

Lesser(a, b) == IF a < b THEN a ELSE b
PagesMutantMayBeNone(n) == (n + PageSize - 1) \div PageSize

Pages(n) == IF n = 0 THEN 1 ELSE (n + PageSize - 1) \div PageSize

\* The players a board has pages for.
Listed(k, n) == IF k = "event" THEN Lesser(n, DisplayCount) ELSE n

\* How many pages a board of this kind is given when it is posted or updated.
PageCount(k) ==
  CASE k = "event" -> Pages(Listed(k, players))
    [] k = "guild" -> Pages(DisplayCount)
    [] OTHER -> 0

\* The ranks on a page: a page past the last is the last one, and a page is full
\* as long as there are players, whatever display_count says.
RanksMutantOffset(k, page, n) ==
  LET p == Lesser(page, Pages(Listed(k, n)))
  IN  ((p - 1) * PageSize)..Lesser(p * PageSize, n)

Ranks(k, page, n) ==
  LET p == Lesser(page, Pages(Listed(k, n)))
  IN  ((p - 1) * PageSize + 1)..Lesser(p * PageSize, n)

NoRow == [pages |-> <<>>, card |-> 0, status |-> 0, last |-> 0]
\* The guild's board is about no event.
Ended(k) == k # "guild" /\ event = "ended"
\* What a message shows: of which standings, and whether the event had ended.
Shows(what, k, page, over) == [what |-> what, kind |-> k, page |-> page, n |-> players, over |-> over]

NoCommand == [pc |-> "idle", kind |-> "none", goal |-> "none", over |-> FALSE, row |-> NoRow,
              total |-> 0, pages |-> <<>>, card |-> 0, status |-> 0]
\* A loop that sleeps, and the kind whose row it reads next.
Waiting(k) == [pc |-> "waiting", kind |-> k, row |-> NoRow, over |-> FALSE, page |-> 1, total |-> 0]
FirstTable(u) == IF "event" \in Tables(u) THEN "event" ELSE IF u = "guild" THEN "guild" ELSE "status"

Init ==
  /\ clock = 0
  /\ event = "active"
  /\ endDate = EndDate
  /\ players \in 0..MaxPlayers
  /\ \E kinds \in Setups : row = [k \in kinds |-> NoRow]
  /\ messages = <<>>
  /\ posted = 0
  /\ command = [c \in Commands |-> NoCommand]
  /\ updater = [u \in Loops |-> Waiting(FirstTable(u))]
  /\ jobs = 0
  /\ failures = 0
  /\ met = {}
  /\ lost = FALSE
  /\ early = FALSE
  /\ bare = {}
-----------------------------------------------------------------------------
(* The event *)

Tick ==
  /\ EventInPlay
  /\ clock < MaxTime
  /\ clock' = clock + 1
  /\ UNCHANGED <<event, endDate, players, row, messages, posted, command, updater, jobs, failures, history>>

\* An award, a backfill, a punishment or a departure changes the standings, after
\* the end as well.
StandingsChange ==
  /\ players' \in {players - 1, players + 1} \cap 0..MaxPlayers
  /\ jobs < MaxJobs
  /\ jobs' = jobs + 1
  /\ UNCHANGED <<clock, event, endDate, row, messages, posted, command, updater, failures, history>>

\* The status ticker once the end date has passed, or /edit-event end before it.
End ==
  /\ EventInPlay /\ event = "active"
  /\ \/ endDate <= clock /\ UNCHANGED jobs
     \/ clock < endDate /\ jobs < MaxJobs /\ jobs' = jobs + 1
  /\ event' = "ended"
  /\ UNCHANGED <<clock, endDate, players, row, messages, posted, command, updater, failures,
                 history>>

\* /edit-event edit takes any end date, a past one too, until the event has ended.
EditEnd(date) ==
  /\ EventInPlay /\ event = "active"
  /\ date # endDate /\ endDate' = date
  /\ jobs < MaxJobs /\ jobs' = jobs + 1
  /\ early' = (early \/ ("event" \in Kinds /\ row["event"].last > date))
  /\ UNCHANGED <<clock, event, players, row, messages, posted, command, updater, failures, met,
                 lost, bare>>

\* delete_event takes neither the rows nor the messages along.
DeleteEvent ==
  /\ EventInPlay /\ event = "active"
  /\ jobs < MaxJobs
  /\ jobs' = jobs + 1
  /\ event' = "gone"
  /\ UNCHANGED <<clock, endDate, players, row, messages, posted, command, updater, failures, history>>
-----------------------------------------------------------------------------
(* persist, status create, leaderboard_create and their removals *)

Working(k) == {c \in Commands : command[c].kind = k}
Updating(k) == {u \in Loops : updater[u].kind = k /\ updater[u].pc # "waiting"}

Start(c, k, goal) ==
  /\ command[c].pc = "idle"
  /\ jobs < MaxJobs
  /\ jobs' = jobs + 1
  /\ k # "guild" => event # "gone"
  /\ command' = [command EXCEPT ![c] = [NoCommand EXCEPT !.pc = "looking", !.kind = k,
                                        !.goal = goal, !.over = Ended(k)]]
  /\ met' = IF Working(k) \cup Updating(k) # {} THEN met \cup {k} ELSE met
  /\ UNCHANGED <<world, row, messages, posted, updater, failures, lost, early, bare>>

Post(c, k) == Start(c, k, "post")
Remove(c, k) == Start(c, k, "remove")

Fails == failures < MaxFailures /\ failures' = failures + 1 /\ lost' = TRUE

Do(c, cmd) == command' = [command EXCEPT ![c] = cmd]
Doing(c, pc) == command[c].pc = pc

\* The old board is gone, or there was none: the pages are counted.
Counted(cmd) ==
  LET total == PageCount(cmd.kind)
  IN  [cmd EXCEPT !.row = NoRow, !.total = total, !.pc = IF total = 0 THEN "closing" ELSE "posting"]

\* The row is read: to remove nothing is to do nothing.
Look(c) ==
  LET k == command[c].kind
  IN  /\ Doing(c, "looking")
      /\ Do(c, CASE row[k] # NoRow -> [command[c] EXCEPT !.pc = "deleting", !.row = row[k]]
                 [] row[k] = NoRow /\ command[c].goal = "post" -> Counted(command[c])
                 [] OTHER -> NoCommand)
      /\ UNCHANGED <<world, row, messages, posted, updater, jobs, failures, history>>

Recorded(r) == ({r.pages[i] : i \in DOMAIN r.pages} \cup {r.card, r.status}) \ {0}

\* The messages a command deletes: leaderboard_create leaves the old status message.
DoomedMutantPagesOnly(k, goal, r) == {r.pages[i] : i \in DOMAIN r.pages}

Doomed(k, goal, r) ==
  IF k = "guild" /\ goal = "post" THEN Recorded(r) \ {r.status} ELSE Recorded(r)

Live == DOMAIN messages
Without(ids) == [i \in Live \ ids |-> messages[i]]

\* A message that cannot be deleted is left, and the command goes on.
DeleteMessages(c) ==
  LET cmd == command[c]
  IN  /\ Doing(c, "deleting")
      /\ LET doomed == Doomed(cmd.kind, cmd.goal, cmd.row)
         IN  \/ messages' = Without(doomed) /\ UNCHANGED <<failures, lost>>
             \/ Fails /\ \E left \in doomed : messages' = Without(doomed \ {left})
      /\ Do(c, IF cmd.kind = "guild" /\ cmd.goal = "post" THEN Counted(cmd)
               ELSE [cmd EXCEPT !.row = NoRow, !.pc = "dropping"])
      /\ UNCHANGED <<world, row, posted, updater, jobs, met, early, bare>>

DropRow(c) ==
  /\ Doing(c, "dropping")
  /\ row' = [row EXCEPT ![command[c].kind] = NoRow]
  /\ Do(c, IF command[c].goal = "remove" THEN NoCommand ELSE Counted(command[c]))
  /\ UNCHANGED <<world, messages, posted, updater, jobs, failures, history>>

With(new) == [i \in Live \cup DOMAIN new |-> IF i \in Live THEN messages[i] ELSE new[i]]

PostPage(c) ==
  LET cmd == command[c]
      id == posted + 1
      page == Len(cmd.pages) + 1
  IN  /\ Doing(c, "posting")
      /\ messages' = With([i \in {id} |-> Shows("page", cmd.kind, page, cmd.over)])
      /\ posted' = id
      /\ Do(c, [cmd EXCEPT !.pages = Append(@, id), !.pc = IF page = cmd.total THEN "closing" ELSE @])
      /\ UNCHANGED <<world, row, updater, jobs, failures, history>>

\* The milestone card, when there are milestones, and then the status message,
\* which is all that the "status" kind has.
PostTrailers(c) ==
  LET cmd == command[c]
  IN  /\ Doing(c, "closing")
      /\ \E cards \in IF cmd.kind = "status" THEN {0} ELSE {0, 1} :
           LET card == IF cards = 0 THEN 0 ELSE posted + 1
               status == posted + cards + 1
           IN  /\ messages' = With([i \in {card, status} \ {0} |->
                                 Shows(IF i = status THEN "status" ELSE "card", cmd.kind, 0, cmd.over)])
               /\ posted' = status
               /\ Do(c, [cmd EXCEPT !.pc = "storing", !.card = card, !.status = status])
      /\ UNCHANGED <<world, row, updater, jobs, failures, history>>

\* The board is written after the end date by a task that saw the event active.
TooEarly(k, over) == k = "event" /\ clock > endDate /\ ~over

StoreRow(c) ==
  LET cmd == command[c]
  IN  /\ Doing(c, "storing")
      /\ row' = [row EXCEPT ![cmd.kind] = [pages |-> cmd.pages, card |-> cmd.card,
                                           status |-> cmd.status, last |-> clock]]
      /\ early' = (early \/ TooEarly(cmd.kind, cmd.over))
      /\ Do(c, NoCommand)
      /\ UNCHANGED <<world, messages, posted, updater, jobs, failures, met, lost, bare>>
-----------------------------------------------------------------------------
(* The loops *)

\* The event ended and the board was updated after its end date: nothing more to do.
FrozenMutantAtTheEnd(r) == event = "ended" /\ r.last >= endDate

Frozen(r) == event = "ended" /\ r.last > endDate

At(u, pc) == updater[u].pc = pc
Go(u, up) == updater' = [updater EXCEPT ![u] = up]
GoOn(u) == Go(u, Waiting(NextTable(u, updater[u].kind)))

\* get_all_..., get_event_by_id, and for a leaderboard the number of pages
ReadRow(u) ==
  LET k == updater[u].kind
  IN  /\ At(u, "waiting")
      /\ Tables(u) # {}
      /\ IF row[k] = NoRow \/ (k # "guild" /\ event = "gone") \/ (k = "event" /\ Frozen(row[k]))
         THEN GoOn(u) /\ UNCHANGED met
         ELSE /\ Go(u, [updater[u] EXCEPT !.row = row[k], !.over = Ended(k),
                          !.total = PageCount(k), !.pc = IF k = "status" THEN "closing" ELSE "editing"])
              /\ met' = IF Working(k) # {} THEN met \cup {k} ELSE met
      /\ UNCHANGED <<world, row, messages, posted, command, jobs, failures, lost, early, bare>>

\* A message that is gone cannot be edited: logged and passed over.
Edited(id, shown) == IF id \in Live THEN [messages EXCEPT ![id] = shown] ELSE messages

\* The pages the row has, up to the last one the standings fill.
PageDoneMutantOneShort(up) ==
  IF up.page + 1 < Lesser(Len(up.row.pages), up.total) THEN [up EXCEPT !.page = @ + 1] ELSE [up EXCEPT !.pc = "closing"]

PageDone(up) ==
  IF up.page < Lesser(Len(up.row.pages), up.total) THEN [up EXCEPT !.page = @ + 1] ELSE [up EXCEPT !.pc = "closing"]

EditPage(u) ==
  LET up == updater[u]
  IN  /\ At(u, "editing")
      /\ messages' = Edited(up.row.pages[up.page], Shows("page", up.kind, up.page, up.over))
      /\ Go(u, PageDone(up))
      /\ UNCHANGED <<world, row, posted, command, jobs, failures, history>>

Redrawn(ids, up) ==
  [i \in Live |-> IF i \in ids THEN Shows(IF i = up.row.card THEN "card" ELSE "status", up.kind, 0, up.over)
                  ELSE messages[i]]

\* The status message and the card are edited, each unless it is gone, cannot be
\* rendered or Discord refuses; an event's card is also left as it is when there
\* is no milestone, or none could be read.  A leaderboard's row is stamped all the
\* same, the row of a status message only if that was edited.  The guild's status
\* message comes after the row.
EditTrailers(u) ==
  LET up == updater[u]
      found == (IF up.kind = "guild" THEN {up.row.card} ELSE {up.row.status, up.row.card}) \cap Live
  IN  /\ At(u, "closing")
      /\ \E left \in SUBSET found :
           /\ messages' = Redrawn(found \ left, up)
           /\ \/ left = {} /\ bare' = bare \ found /\ UNCHANGED <<failures, lost>>
              \/ /\ up.kind = "event" /\ left = {up.row.card}
                 /\ bare' = bare \cup left /\ UNCHANGED <<failures, lost>>
              \/ left # {} /\ Fails /\ UNCHANGED bare
           /\ IF up.kind = "status" /\ up.row.status \notin found \ left
              THEN GoOn(u) ELSE Go(u, [up EXCEPT !.pc = "stamping"])
      /\ UNCHANGED <<world, row, posted, command, jobs, met, early>>

\* The row gets the ids that were read, and the time: a leaderboard's row by an
\* UPDATE, a status message's by an INSERT ... ON CONFLICT DO UPDATE.
StampedMutantIdsOnly(k, r) == IF row[k] = NoRow THEN NoRow ELSE [row[k] EXCEPT !.pages = r.pages]

Stamped(k, r) ==
  CASE k = "status" -> [r EXCEPT !.last = clock]
    [] k # "status" /\ row[k] # NoRow -> [row[k] EXCEPT !.pages = r.pages, !.last = clock]
    [] OTHER -> NoRow

Stamp(u) ==
  LET up == updater[u]
  IN  /\ At(u, "stamping")
      /\ row' = [row EXCEPT ![up.kind] = Stamped(up.kind, up.row)]
      /\ \/ messages' = (IF up.kind = "guild"
                         THEN Edited(up.row.status, Shows("status", "guild", 0, up.over)) ELSE messages)
            /\ UNCHANGED <<failures, lost>>
         \/ up.kind = "guild" /\ Fails /\ UNCHANGED messages
      /\ early' = (early \/ TooEarly(up.kind, up.over))
      /\ GoOn(u)
      /\ UNCHANGED <<world, posted, command, jobs, met, bare>>
-----------------------------------------------------------------------------
(* Failures *)

\* A request or a query fails and the command is over.
FailCommand(c) ==
  /\ command[c].pc # "idle"
  /\ Fails
  /\ Do(c, NoCommand)
  /\ UNCHANGED <<world, row, messages, posted, updater, jobs, met, early, bare>>

\* A query of a loop fails: the board is skipped until the next round.
FailUpdate(u) ==
  /\ ~At(u, "waiting")
  /\ Fails
  /\ GoOn(u)
  /\ UNCHANGED <<world, row, messages, posted, command, jobs, met, early, bare>>

\* A page cannot be rendered, or Discord refuses the edit: the page is left as it is.
SkipPage(u) ==
  /\ At(u, "editing")
  /\ Fails
  /\ Go(u, PageDone(updater[u]))
  /\ UNCHANGED <<world, row, messages, posted, command, jobs, met, early, bare>>

Restart ==
  /\ Fails
  /\ command' = [c \in Commands |-> NoCommand]
  /\ updater' = [u \in Loops |-> Waiting(FirstTable(u))]
  /\ UNCHANGED <<world, row, messages, posted, jobs, met, early, bare>>

CommandStep(c) ==
  Look(c) \/ DeleteMessages(c) \/ DropRow(c) \/ PostPage(c) \/ PostTrailers(c) \/ StoreRow(c)
Round(u) == ReadRow(u) \/ EditPage(u) \/ EditTrailers(u) \/ Stamp(u)

Next ==
  \/ Tick \/ StandingsChange \/ End \/ DeleteEvent
  \/ \E date \in 0..(MaxTime - 1) : EditEnd(date)
  \/ \E c \in Commands : CommandStep(c) \/ FailCommand(c) \/ \E k \in Kinds : Post(c, k) \/ Remove(c, k)
  \/ \E u \in Loops : Round(u) \/ FailUpdate(u) \/ SkipPage(u)
  \/ Restart

\* Time passes, and the loops are spawned at the start and never return.
Fairness == WF_vars(Tick) /\ \A u \in Loops : WF_vars(Round(u))

Spec == Init /\ [][Next]_vars /\ Fairness
-----------------------------------------------------------------------------
(* Properties *)

Ids == 1..posted
Row == [pages : Seq(Ids), card : {0} \cup Ids, status : {0} \cup Ids, last : 0..MaxTime]

\* The model's variables keep their types: a message is live only once posted, and
\* a row or a task names only messages that were posted.  A leaderboard has a page,
\* and no more of them than display_count needs.
TypeOK ==
  /\ clock \in 0..MaxTime /\ event \in {"active", "ended", "gone"} /\ players \in 0..MaxPlayers
  /\ endDate \in 0..(MaxTime - 1) /\ Kinds \in Setups
  /\ \A k \in Kinds : /\ row[k] \in Row
                       /\ (k # "status" /\ row[k] # NoRow) => Len(row[k].pages) \in 1..Pages(DisplayCount)
  /\ Live \subseteq Ids
  /\ \A c \in Commands : command[c].row \in Row /\ command[c].pages \in Seq(Ids)
  /\ \A u \in Loops : updater[u].row \in Row
  /\ met \subseteq Kinds /\ lost \in BOOLEAN /\ early \in BOOLEAN /\ bare \subseteq Ids

\* No task is at work on the row, and no two ever met on it.
Quiet(k) == Working(k) \cup Updating(k) = {} /\ k \notin met /\ ~lost
LiveOf(k) == {i \in Live : messages[i].kind = k}

\* Unless two tasks met on its row or something failed, a row names the messages
\* its board has in Discord, all of them and no others: nothing is edited that is
\* gone and nothing is left behind that no command can remove any more.  The one
\* exception is the code's: leaderboard_create leaves the old status message.
PostedIsRecorded ==
  \A k \in Kinds : Quiet(k) =>
    /\ Recorded(row[k]) \subseteq LiveOf(k)
    /\ \A i \in LiveOf(k) \ Recorded(row[k]) : k = "guild" /\ messages[i].what = "status"

\* Pages rendered from the same standings, and no more of them than the standings
\* need, share the places out: each rank is on one page, and none is left out.
PagesAgree ==
  \A k \in Kinds :
    LET pages == row[k].pages
        n == messages[pages[1]].n
        on(i) == Ranks(k, messages[pages[i]].page, messages[pages[i]].n)
        together == (\A i \in DOMAIN pages : messages[pages[i]].n = n) /\ Len(pages) <= Pages(Listed(k, n))
    IN  (Quiet(k) /\ pages # <<>> /\ together) =>
             /\ \A i, j \in DOMAIN pages : i # j => on(i) \cap on(j) = {}
             /\ UNION {on(i) : i \in DOMAIN pages} = 1..Lesser(n, Len(pages) * PageSize)

\* update_single_event_leaderboard: a board that is no longer updated says that
\* its event has ended: the first page, the status message and the card were
\* rendered after the end.  Where no tasks met and nothing failed, three things
\* still freeze a board as it is, with the final update to come: a row written
\* between the end date and the status flip, an end date moved back to before the
\* last update (both are early), and for the card alone milestones that are gone
\* (bare).
FrozenIsFinal ==
  ("event" \in Kinds /\ row["event"] # NoRow /\ Frozen(row["event"]) /\ Quiet("event") /\ ~early) =>
    LET r == row["event"]
    IN  \A i \in ({r.pages[1], r.status} \cup ({r.card} \ bare)) \ {0} : messages[i].over

\* Once the event has ended its board is frozen sooner or later, whatever failed on
\* the way, unless it is removed.
EventuallyFrozen ==
  (event = "ended") ~> ("event" \in Kinds => (row["event"] = NoRow \/ Frozen(row["event"])))

\* The pages of a board that lag behind the standings or the event's status.
Lagging(k) ==
  {i \in 1..Lesser(Len(row[k].pages), PageCount(k)) :
     /\ row[k].pages[i] \in Live
     /\ LET m == messages[row[k].pages[i]] IN m.n # players \/ m.over # Ended(k)}

\* The loops catch up: in the end no page of a live board lags behind, for all the
\* commands, failures and restarts there were.
BoardsCatchUp ==
  \A k \in {"event", "guild"} :
    <>[](k \in Kinds => Lagging(k) = {} \/ (k = "event" /\ (event = "gone" \/ Frozen(row[k]))))
=============================================================================
