----------------------------- MODULE BoardsProofs -----------------------------
(***************************************************************************)
(* What the rows of the boards say about the messages in Discord, for any  *)
(* number of commands, players and pages: a row that no two tasks met on   *)
(* names exactly the messages of its board, its pages share the ranks out, *)
(* and a frozen board says that its event has ended.                       *)
(***************************************************************************)
EXTENDS Boards, TLAPS, SequenceTheorems

(***************************************************************************)
(* The number of pages.                                                    *)
(***************************************************************************)
LEMMA Division ==
  ASSUME NEW a \in Nat, NEW b \in Nat \ {0}
  PROVE  a \div b \in Nat /\ b * (a \div b) <= a /\ a < b * (a \div b) + b
OBVIOUS

LEMMA DivisionMonotone ==
  ASSUME NEW a \in Nat, NEW b \in Nat \ {0}, NEW c \in Nat, a <= c
  PROVE  a \div b <= c \div b
OBVIOUS

\* There is always a page, and more players never need fewer.
LEMMA PagesPositive ==
  ASSUME NEW n \in Nat
  PROVE  Pages(n) \in Nat \ {0}
<1>1. CASE n = 0
  BY <1>1 DEF Pages
<1>2. CASE n # 0
  <2>1. n + PageSize - 1 \in Nat /\ PageSize \in Nat \ {0} /\ PageSize <= n + PageSize - 1
    BY <1>2, PageAssumption
  <2>2. PageSize \div PageSize = 1
    BY <2>1
  <2>3. 1 <= (n + PageSize - 1) \div PageSize /\ (n + PageSize - 1) \div PageSize \in Nat
    BY <2>1, <2>2, DivisionMonotone, Division
  <2> QED
    BY <1>2, <2>3 DEF Pages
<1> QED
  BY <1>1, <1>2

LEMMA PagesMonotone ==
  ASSUME NEW n \in Nat, NEW m \in Nat, n <= m
  PROVE  Pages(n) <= Pages(m)
<1>1. CASE n = 0
  BY <1>1, PagesPositive DEF Pages
<1>2. CASE n # 0
  <2>1. /\ n + PageSize - 1 \in Nat /\ m + PageSize - 1 \in Nat /\ PageSize \in Nat \ {0}
        /\ n + PageSize - 1 <= m + PageSize - 1 /\ m # 0
    BY <1>2, PageAssumption
  <2> QED
    BY <1>2, <2>1, DivisionMonotone DEF Pages
<1> QED
  BY <1>1, <1>2

LEMMA CountWithin ==
  ASSUME players \in Nat, NEW k
  PROVE  /\ PageCount(k) \in Nat
         /\ k \in {"event", "guild"} => PageCount(k) \in 1..Pages(DisplayCount)
         /\ k \notin {"event", "guild"} => PageCount(k) = 0
<1>1. DisplayCount \in Nat
  BY PageAssumption
<1>2. Listed("event", players) \in Nat /\ Listed("event", players) <= DisplayCount
  BY <1>1 DEF Listed, Lesser
<1>3. /\ Pages(DisplayCount) \in Nat \ {0} /\ Pages(Listed("event", players)) \in Nat \ {0}
      /\ Pages(Listed("event", players)) <= Pages(DisplayCount)
  BY <1>1, <1>2, PagesPositive, PagesMonotone
<1> QED
  BY <1>3 DEF PageCount

(***************************************************************************)
(* Types, in full: what each command and each loop holds while it works.   *)
(***************************************************************************)
AnyKind == {"event", "status", "guild"}

CommandRecords ==
  [pc : {"idle", "looking", "deleting", "dropping", "posting", "closing", "storing"},
   kind : AnyKind \cup {"none"}, goal : {"none", "post", "remove"}, over : BOOLEAN, row : Row,
   total : Nat, pages : Seq(Ids), card : {0} \cup Ids, status : {0} \cup Ids]

\* A leaderboard has at least a page, and no more than display_count needs.
Paged(k, n) == k # "status" => n \in 1..Pages(DisplayCount)

CommandOK(cmd) ==
  /\ cmd \in CommandRecords
  /\ cmd.kind \in Kinds \cup {"none"}
  /\ cmd.pc = "idle" <=> cmd.kind = "none"
  /\ cmd.pc \in {"looking", "deleting", "dropping"} => cmd.pages = <<>>
  /\ cmd.pc # "storing" => cmd.card = 0 /\ cmd.status = 0
  /\ cmd.pc = "posting" => Len(cmd.pages) < cmd.total
  /\ cmd.pc \in {"closing", "storing"} => Len(cmd.pages) = cmd.total
  /\ cmd.pc \in {"posting", "closing", "storing"} => Paged(cmd.kind, cmd.total)

UpdaterRecords ==
  [pc : {"waiting", "editing", "closing", "stamping"}, kind : AnyKind, row : Row, over : BOOLEAN,
   page : Nat \ {0}, total : Nat]

UpdaterOK(u, up) ==
  /\ up \in UpdaterRecords
  /\ up.kind = "guild" <=> u = "guild"
  /\ Tables(u) # {} => up.kind \in Kinds
  /\ up.pc = "waiting" => up.page = 1
  /\ up.pc # "waiting" => up.kind \in Kinds /\ up.row # NoRow /\ Paged(up.kind, Len(up.row.pages))
  /\ up.pc = "editing" => up.kind # "status" /\ up.page <= Len(up.row.pages)

World ==
  /\ clock \in 0..MaxTime /\ event \in {"active", "ended", "gone"} /\ players \in 0..MaxPlayers
  /\ endDate \in 0..(MaxTime - 1) /\ Kinds \in Setups
  /\ posted \in Nat /\ Live \subseteq Ids
  /\ met \subseteq Kinds /\ lost \in BOOLEAN /\ early \in BOOLEAN /\ bare \subseteq Ids
RowOK(k, r) == r \in Row /\ (r # NoRow => Paged(k, Len(r.pages)))
RowsOK == \A k \in Kinds : RowOK(k, row[k])
CommandsOK == DOMAIN command = Commands /\ \A c \in Commands : CommandOK(command[c])
LoopsOK == DOMAIN updater = Loops /\ \A u \in Loops : UpdaterOK(u, updater[u])

Types == World /\ RowsOK /\ CommandsOK /\ LoopsOK

LEMMA TypesImplyTypeOK == Types => TypeOK
BY DEF Types, World, RowsOK, RowOK, Paged, CommandsOK, LoopsOK, CommandOK, UpdaterOK,
   CommandRecords, UpdaterRecords, TypeOK

LEMMA KindsAny ==
  ASSUME World
  PROVE  Kinds \subseteq AnyKind
BY SetupsAssumption DEF World, AnyKind

LEMMA TablesWithin ==
  ASSUME NEW u \in Loops
  PROVE  /\ Tables(u) \subseteq Kinds
         /\ Tables(u) \subseteq IF u = "guild" THEN {"guild"} ELSE {"event", "status"}
         /\ Kinds' = Kinds => Tables(u)' = Tables(u)
BY DEF Tables, Loops

\* The messages only grow in number, and whatever had a type keeps it.
Grows == posted \in Nat /\ posted' \in Nat /\ posted <= posted' /\ Kinds' = Kinds

LEMMA IdsGrow ==
  ASSUME Grows
  PROVE  Ids \subseteq Ids' /\ Seq(Ids) \subseteq Seq(Ids') /\ Row \subseteq Row'
<1>1. Ids \subseteq Ids'
  BY DEF Grows, Ids
<1>2. Seq(Ids) \subseteq Seq(Ids')
  BY <1>1
<1> QED
  BY <1>1, <1>2 DEF Row

LEMMA CommandGrows ==
  ASSUME Grows, NEW cmd, CommandOK(cmd)
  PROVE  CommandOK(cmd)'
<1>1. CommandRecords \subseteq CommandRecords'
  BY IdsGrow DEF CommandRecords
<1> QED
  BY <1>1 DEF CommandOK, Grows, Paged

LEMMA UpdaterGrows ==
  ASSUME Grows, NEW u \in Loops, NEW up, UpdaterOK(u, up)
  PROVE  UpdaterOK(u, up)'
<1>1. UpdaterRecords \subseteq UpdaterRecords'
  BY IdsGrow DEF UpdaterRecords
<1> QED
  BY <1>1, TablesWithin DEF UpdaterOK, Grows, Paged

LEMMA RowGrows ==
  ASSUME Grows, NEW k, NEW r, RowOK(k, r)
  PROVE  RowOK(k, r)'
BY IdsGrow DEF RowOK, Paged

(***************************************************************************)
(* One task moves on, the others keep what they hold.                      *)
(***************************************************************************)
LEMMA CommandsStay ==
  ASSUME Types, Grows, UNCHANGED command
  PROVE  CommandsOK'
<1>1. ASSUME NEW c \in Commands
      PROVE  CommandOK(command[c])'
  <2>1. PICK q : q = command[c]
    OBVIOUS
  <2>2. CommandOK(q)'
    BY <2>1, CommandGrows DEF Types, CommandsOK
  <2> QED
    BY <2>1, <2>2 DEF CommandOK
<1> QED
  BY <1>1 DEF Types, CommandsOK

LEMMA CommandMoves ==
  ASSUME Types, Grows, NEW c \in Commands, NEW cmd, CommandOK(cmd)', Do(c, cmd)
  PROVE  CommandsOK'
<1>1. ASSUME NEW d \in Commands
      PROVE  CommandOK(command[d])'
  <2>1. CASE d = c
    <3>1. command'[d] = cmd
      BY <2>1 DEF Do, Types, CommandsOK
    <3> QED
      BY <3>1 DEF CommandOK
  <2>2. CASE d # c
    <3>1. PICK q : q = command[d]
      OBVIOUS
    <3>2. CommandOK(q)' /\ command'[d] = q
      BY <2>2, <3>1, CommandGrows DEF Types, CommandsOK, Do
    <3> QED
      BY <3>2 DEF CommandOK
  <2> QED
    BY <2>1, <2>2
<1> QED
  BY <1>1 DEF Types, CommandsOK, Do

LEMMA LoopsStay ==
  ASSUME Types, Grows, UNCHANGED updater
  PROVE  LoopsOK'
<1>1. ASSUME NEW u \in Loops
      PROVE  UpdaterOK(u, updater[u])'
  <2>1. PICK q : q = updater[u]
    OBVIOUS
  <2>2. UpdaterOK(u, q)'
    BY <2>1, UpdaterGrows DEF Types, LoopsOK
  <2> QED
    BY <2>1, <2>2 DEF UpdaterOK
<1> QED
  BY <1>1 DEF Types, LoopsOK

LEMMA LoopMoves ==
  ASSUME Types, Grows, NEW u \in Loops, NEW up, UpdaterOK(u, up)', Go(u, up)
  PROVE  LoopsOK'
<1>1. ASSUME NEW v \in Loops
      PROVE  UpdaterOK(v, updater[v])'
  <2>1. CASE v = u
    <3>1. updater'[v] = up
      BY <2>1 DEF Go, Types, LoopsOK
    <3> QED
      BY <2>1, <3>1 DEF UpdaterOK
  <2>2. CASE v # u
    <3>1. PICK q : q = updater[v]
      OBVIOUS
    <3>2. UpdaterOK(v, q)' /\ updater'[v] = q
      BY <2>2, <3>1, UpdaterGrows DEF Types, LoopsOK, Go
    <3> QED
      BY <3>2 DEF UpdaterOK
  <2> QED
    BY <2>1, <2>2
<1> QED
  BY <1>1 DEF Types, LoopsOK, Go

LEMMA RowsStay ==
  ASSUME Types, Grows, UNCHANGED row
  PROVE  RowsOK'
<1>1. ASSUME NEW k \in Kinds
      PROVE  RowOK(k, row[k])'
  <2>1. PICK q : q = row[k]
    OBVIOUS
  <2>2. RowOK(k, q)'
    BY <2>1, RowGrows DEF Types, RowsOK
  <2> QED
    BY <2>1, <2>2 DEF RowOK
<1> QED
  BY <1>1 DEF RowsOK, Grows

LEMMA RowMoves ==
  ASSUME Types, Grows, NEW k \in Kinds, NEW r, RowOK(k, r)', row' = [row EXCEPT ![k] = r]
  PROVE  RowsOK'
<1>1. ASSUME NEW j \in Kinds
      PROVE  RowOK(j, row[j])'
  <2>1. CASE j = k
    <3>1. row'[j] = r
      BY <2>1 DEF Kinds
    <3> QED
      BY <2>1, <3>1 DEF RowOK
  <2>2. CASE j # k
    <3>1. PICK q : q = row[j]
      OBVIOUS
    <3>2. RowOK(j, q)' /\ row'[j] = q
      BY <2>2, <3>1, RowGrows DEF Types, RowsOK, Kinds
    <3> QED
      BY <3>2 DEF RowOK
  <2> QED
    BY <2>1, <2>2
<1> QED
  BY <1>1 DEF RowsOK, Grows

\* Nothing is recorded yet, or any more.
LEMMA NoRowOK ==
  ASSUME posted \in Nat
  PROVE  /\ NoRow \in Row /\ NoRow.pages = <<>> /\ NoRow.card = 0 /\ NoRow.status = 0
         /\ \A k : RowOK(k, NoRow)
<1>1. 0 \in 0..MaxTime
  BY TimeAssumption
<1> QED
  BY <1>1 DEF NoRow, Row, RowOK, Ids

LEMMA IdleOK ==
  ASSUME posted \in Nat
  PROVE  CommandOK(NoCommand)
BY NoRowOK DEF NoCommand, CommandOK, CommandRecords, AnyKind

LEMMA WaitingOK ==
  ASSUME posted \in Nat, NEW u \in Loops, NEW k \in AnyKind,
         k = "guild" <=> u = "guild", Tables(u) # {} => k \in Kinds
  PROVE  UpdaterOK(u, Waiting(k))
BY NoRowOK DEF Waiting, UpdaterOK, UpdaterRecords

LEMMA GoesOn ==
  ASSUME Types, Grows, NEW u \in Loops, GoOn(u)
  PROVE  LoopsOK'
<1>1. PICK k : k = NextTable(u, updater[u].kind)
  OBVIOUS
<1>2. UpdaterOK(u, updater[u])
  BY DEF Types, LoopsOK
<1>3. k \in AnyKind /\ (k = "guild" <=> u = "guild") /\ (Tables(u) # {} => k \in Kinds)
  BY <1>1, <1>2, TablesWithin DEF NextTable, UpdaterOK, UpdaterRecords, AnyKind
<1>4. PICK up : up = Waiting(k)
  OBVIOUS
<1>5. UpdaterOK(u, up)
  BY <1>3, <1>4, WaitingOK DEF Grows
<1>6. UpdaterOK(u, up)'
  BY <1>5, UpdaterGrows
<1> QED
  BY <1>1, <1>4, <1>6, LoopMoves DEF GoOn

LEMMA FirstWaits ==
  ASSUME posted \in Nat, NEW u \in Loops
  PROVE  UpdaterOK(u, Waiting(FirstTable(u)))
<1>1. PICK k : k = FirstTable(u)
  OBVIOUS
<1>2. k \in AnyKind /\ (k = "guild" <=> u = "guild") /\ (Tables(u) # {} => k \in Kinds)
  BY <1>1 DEF FirstTable, AnyKind, Tables, Loops
<1> QED
  BY <1>1, <1>2, WaitingOK

\* The old board is gone: the command posts the new one.
LEMMA CountedOK ==
  ASSUME Types, NEW cmd, CommandOK(cmd), cmd.kind \in Kinds, cmd.pc # "idle",
         cmd.pages = <<>>, cmd.card = 0, cmd.status = 0,
         NEW r, r = Counted(cmd)
  PROVE  /\ CommandOK(r) /\ r.kind = cmd.kind /\ r.pages = <<>> /\ r.card = 0 /\ r.status = 0
         /\ r.pc \in {"posting", "closing"} /\ r.row = NoRow /\ r.over = cmd.over
<1>1. PICK total : total = PageCount(cmd.kind)
  OBVIOUS
<1>2. players \in Nat /\ cmd.kind \in AnyKind
  BY KindsAny, BoundsAssumption DEF Types, World
<1>3. total \in Nat /\ Paged(cmd.kind, total) /\ (total = 0 <=> cmd.kind = "status")
  BY <1>1, <1>2, CountWithin DEF Paged, AnyKind
<1>4. r = [cmd EXCEPT !.row = NoRow, !.total = total, !.pc = IF total = 0 THEN "closing" ELSE "posting"]
  BY <1>1 DEF Counted
<1>5. NoRow \in Row /\ Len(<<>>) = 0
  BY NoRowOK DEF Types, World
<1>6. r \in CommandRecords
  BY <1>3, <1>4, <1>5 DEF CommandOK, CommandRecords
<1>7. /\ r.kind = cmd.kind /\ r.pages = <<>> /\ r.card = 0 /\ r.status = 0 /\ r.total = total
      /\ r.pc = (IF total = 0 THEN "closing" ELSE "posting") /\ r.row = NoRow /\ r.over = cmd.over
  BY <1>4 DEF CommandOK, CommandRecords
<1> QED
  BY <1>3, <1>5, <1>6, <1>7 DEF CommandOK

(***************************************************************************)
(* Every action keeps the types.                                           *)
(***************************************************************************)
Dates == 0..(MaxTime - 1)
EventStep == Tick \/ StandingsChange \/ End \/ DeleteEvent \/ \E date \in Dates : EditEnd(date)

LEMMA EventLeaves ==
  ASSUME EventStep
  PROVE  UNCHANGED <<row, messages, posted, command, updater, met, lost, bare>>
BY DEF EventStep, Tick, StandingsChange, End, DeleteEvent, EditEnd, history

LEMMA EventTypes ==
  ASSUME Types, EventStep
  PROVE  Types'
<1>1. UNCHANGED <<row, messages, posted, command, updater, met, lost, bare>>
  BY EventLeaves
<1>2. Grows
  BY <1>1 DEF Types, World, Grows, Kinds
<1>3. World'
  <2>1. CASE Tick \/ StandingsChange \/ End \/ DeleteEvent
    BY <1>1, <2>1, TimeAssumption, BoundsAssumption
       DEF Types, World, Kinds, Live, Ids, history, Tick, StandingsChange, End, DeleteEvent
  <2>2. CASE \E date \in Dates : EditEnd(date)
    <3>1. endDate' \in Dates /\ early' \in BOOLEAN /\ UNCHANGED <<clock, event, players>>
      BY <2>2 DEF EditEnd
    <3> QED
      BY <1>1, <3>1 DEF Types, World, Kinds, Live, Ids, Dates
  <2> QED
    BY <2>1, <2>2 DEF EventStep
<1> QED
  BY <1>1, <1>2, <1>3, RowsStay, CommandsStay, LoopsStay DEF Types

\* A step of a command that touches neither rows nor messages.
LEMMA CommandSteps ==
  ASSUME Types, NEW c \in Commands, NEW cmd, CommandOK(cmd), Do(c, cmd),
         UNCHANGED <<world, row, posted, updater, early, bare>>,
         Live' \subseteq Live, met' \subseteq Kinds, lost' \in BOOLEAN
  PROVE  Types'
<1>1. Grows
  BY DEF Types, World, Grows, Kinds
<1>2. CommandsOK'
  BY <1>1, CommandGrows, CommandMoves
<1>3. World'
  BY DEF Types, World, Kinds, Ids, world
<1> QED
  BY <1>1, <1>2, <1>3, RowsStay, LoopsStay DEF Types

LEMMA StartTypes ==
  ASSUME Types, NEW c \in Commands, NEW k \in Kinds, NEW goal \in {"post", "remove"}, Start(c, k, goal)
  PROVE  Types'
<1>1. PICK cmd : cmd = [NoCommand EXCEPT !.pc = "looking", !.kind = k, !.goal = goal, !.over = Ended(k)]
  OBVIOUS
<1>2. CommandOK(NoCommand) /\ k \in AnyKind
  BY IdleOK, KindsAny DEF Types, World
<1>3. Ended(k) \in BOOLEAN
  BY DEF Ended
<1>4. /\ cmd.pc = "looking" /\ cmd.kind = k /\ cmd.pages = <<>> /\ cmd.card = 0 /\ cmd.status = 0
      /\ cmd \in CommandRecords
  BY <1>1, <1>2, <1>3 DEF CommandOK, CommandRecords, NoCommand
<1>5. CommandOK(cmd)
  BY <1>4, <1>2 DEF CommandOK, AnyKind
<1>6. Do(c, cmd) /\ UNCHANGED <<world, row, messages, posted, updater, early, lost, bare>>
  BY <1>1 DEF Start, Do
<1>7. met' \subseteq Kinds /\ lost' \in BOOLEAN
  BY <1>6 DEF Start, Types, World
<1> QED
  BY <1>5, <1>6, <1>7, CommandSteps DEF Live

LEMMA LookTypes ==
  ASSUME Types, NEW c \in Commands, Look(c)
  PROVE  Types'
<1>1. PICK cmd : cmd = command[c]
  OBVIOUS
<1>2. CommandOK(cmd) /\ cmd.pc = "looking" /\ cmd.kind \in Kinds
  BY <1>1 DEF Types, CommandsOK, CommandOK, Look, Doing
<1>3. row[cmd.kind] \in Row
  BY <1>2 DEF Types, RowsOK, RowOK
<1>4. PICK found : found = [cmd EXCEPT !.pc = "deleting", !.row = row[cmd.kind]]
  OBVIOUS
<1>5. CommandOK(found)
  BY <1>2, <1>3, <1>4 DEF CommandOK, CommandRecords
<1>6. PICK counted : counted = Counted(cmd)
  OBVIOUS
<1>7. CommandOK(counted)
  BY <1>2, <1>6, CountedOK DEF CommandOK
<1>8. CommandOK(NoCommand)
  BY IdleOK DEF Types, World
<1>9. PICK next \in {found, counted, NoCommand} : Do(c, next)
  BY <1>1, <1>4, <1>6 DEF Look
<1>10. UNCHANGED <<world, row, messages, posted, updater, history>>
  BY DEF Look
<1>11. met' \subseteq Kinds /\ lost' \in BOOLEAN /\ Live' \subseteq Live
  BY <1>10 DEF Types, World, history, Live
<1> QED
  BY <1>5, <1>7, <1>8, <1>9, <1>10, <1>11, CommandSteps DEF history

LEMMA DeletingTypes ==
  ASSUME Types, NEW c \in Commands, DeleteMessages(c)
  PROVE  Types'
<1>1. PICK cmd : cmd = command[c]
  OBVIOUS
<1>2. CommandOK(cmd) /\ cmd.pc = "deleting" /\ cmd.kind \in Kinds
  BY <1>1 DEF Types, CommandsOK, CommandOK, DeleteMessages, Doing
<1>3. PICK counted : counted = Counted(cmd)
  OBVIOUS
<1>4. CommandOK(counted)
  BY <1>2, <1>3, CountedOK DEF CommandOK
<1>5. PICK dropping : dropping = [cmd EXCEPT !.row = NoRow, !.pc = "dropping"]
  OBVIOUS
<1>6. CommandOK(dropping)
  BY <1>2, <1>5, NoRowOK DEF CommandOK, CommandRecords, Types, World
<1>7. PICK next \in {counted, dropping} : Do(c, next)
  BY <1>1, <1>3, <1>5 DEF DeleteMessages
<1>8. UNCHANGED <<world, row, posted, updater, met, early, bare>>
  BY DEF DeleteMessages
<1>9. met' \subseteq Kinds /\ lost' \in BOOLEAN /\ Live' \subseteq Live
  BY <1>8 DEF Types, World, DeleteMessages, Fails, Without, Live
<1> QED
  BY <1>4, <1>6, <1>7, <1>8, <1>9, CommandSteps

LEMMA DropTypes ==
  ASSUME Types, NEW c \in Commands, DropRow(c)
  PROVE  Types'
<1>1. PICK cmd : cmd = command[c]
  OBVIOUS
<1>2. CommandOK(cmd) /\ cmd.pc = "dropping" /\ cmd.kind \in Kinds
  BY <1>1 DEF Types, CommandsOK, CommandOK, DropRow, Doing
<1>3. PICK counted : counted = Counted(cmd)
  OBVIOUS
<1>4. CommandOK(counted) /\ CommandOK(NoCommand)
  BY <1>2, <1>3, CountedOK, IdleOK DEF CommandOK, Types, World
<1>5. PICK next \in {counted, NoCommand} : Do(c, next)
  BY <1>1, <1>3 DEF DropRow
<1>6. UNCHANGED <<world, messages, posted, updater, history>> /\ row' = [row EXCEPT ![cmd.kind] = NoRow]
  BY <1>1 DEF DropRow
<1>7. Grows
  BY <1>6 DEF Types, World, Grows, Kinds
<1>8. CommandsOK'
  BY <1>4, <1>5, <1>7, CommandGrows, CommandMoves
<1>9. RowsOK'
  BY <1>2, <1>6, <1>7, NoRowOK, RowMoves, RowGrows DEF Grows
<1>10. World'
  BY <1>6, <1>7 DEF Types, World, Grows, Live, Ids, history, world
<1> QED
  BY <1>6, <1>7, <1>8, <1>9, <1>10, LoopsStay DEF Types

LEMMA PageTypes ==
  ASSUME Types, NEW c \in Commands, PostPage(c)
  PROVE  Types'
<1>1. PICK cmd : cmd = command[c]
  OBVIOUS
<1>2. CommandOK(cmd) /\ cmd.pc = "posting" /\ cmd.kind \in Kinds
  BY <1>1 DEF Types, CommandsOK, CommandOK, PostPage, Doing
<1>3. /\ UNCHANGED <<world, row, updater, history>> /\ posted' = posted + 1
      /\ Live' = Live \cup {posted + 1}
  BY DEF PostPage, With, Live
<1>4. Grows
  BY <1>3 DEF Types, World, Grows, Kinds
<1>5. PICK pages : pages = Append(cmd.pages, posted + 1)
  OBVIOUS
<1>6. posted + 1 \in Ids' /\ cmd.pages \in Seq(Ids') /\ cmd.total \in Nat
  BY <1>2, <1>3, IdsGrow, <1>4 DEF CommandOK, CommandRecords, Ids, Types, World
<1>7. pages \in Seq(Ids') /\ Len(pages) = Len(cmd.pages) + 1 /\ Len(cmd.pages) \in Nat
  BY <1>5, <1>6
<1>8. PICK next : next = [cmd EXCEPT !.pages = pages, !.pc = IF Len(cmd.pages) + 1 = cmd.total THEN "closing" ELSE cmd.pc]
  OBVIOUS
<1>9. CommandOK(cmd)'
  BY <1>2, <1>4, CommandGrows
<1>10. /\ next \in CommandRecords' /\ next.pages = pages /\ next.kind = cmd.kind
       /\ next.card = cmd.card /\ next.status = cmd.status /\ next.total = cmd.total
       /\ next.pc = IF Len(cmd.pages) + 1 = cmd.total THEN "closing" ELSE "posting"
  BY <1>2, <1>7, <1>8, <1>9 DEF CommandOK, CommandRecords
<1>11. CommandOK(next)'
  BY <1>2, <1>6, <1>7, <1>9, <1>10 DEF CommandOK
<1>12. Do(c, next)
  BY <1>1, <1>5, <1>8 DEF PostPage
<1>13. World'
  BY <1>3, <1>4, <1>6, IdsGrow DEF Types, World, Grows, history, world
<1> QED
  BY <1>3, <1>4, <1>11, <1>12, <1>13, CommandMoves, RowsStay, LoopsStay DEF Types

LEMMA TrailersTypes ==
  ASSUME Types, NEW c \in Commands, PostTrailers(c)
  PROVE  Types'
<1>1. PICK cmd : cmd = command[c]
  OBVIOUS
<1>2. CommandOK(cmd) /\ cmd.pc = "closing" /\ cmd.kind \in Kinds
  BY <1>1 DEF Types, CommandsOK, CommandOK, PostTrailers, Doing
<1>3. PICK cards \in {0, 1} :
        LET card == IF cards = 0 THEN 0 ELSE posted + 1
            status == posted + cards + 1
        IN  /\ messages' = With([i \in {card, status} \ {0} |->
                              Shows(IF i = status THEN "status" ELSE "card", cmd.kind, 0, cmd.over)])
            /\ posted' = status
            /\ Do(c, [cmd EXCEPT !.pc = "storing", !.card = card, !.status = status])
  BY <1>1 DEF PostTrailers
<1>4. PICK card : card = IF cards = 0 THEN 0 ELSE posted + 1
  OBVIOUS
<1>5. PICK status : status = posted + cards + 1
  OBVIOUS
<1>6. PICK next : next = [cmd EXCEPT !.pc = "storing", !.card = card, !.status = status]
  OBVIOUS
<1>7. posted' = status /\ Do(c, next) /\ Live' = Live \cup ({card, status} \ {0})
  BY <1>3, <1>4, <1>5, <1>6 DEF With, Live
<1>8. UNCHANGED <<world, row, updater, history>>
  BY DEF PostTrailers
<1>9. Grows
  BY <1>5, <1>7, <1>8 DEF Types, World, Grows, Kinds
<1>10. card \in {0} \cup Ids' /\ status \in Ids'
  BY <1>4, <1>5, <1>7 DEF Types, World, Ids
<1>11. CommandOK(cmd)'
  BY <1>2, <1>9, CommandGrows
<1>12. /\ next \in CommandRecords' /\ next.pages = cmd.pages /\ next.kind = cmd.kind
       /\ next.total = cmd.total /\ next.pc = "storing"
  BY <1>6, <1>10, <1>11 DEF CommandOK, CommandRecords
<1>13. CommandOK(next)'
  BY <1>2, <1>11, <1>12 DEF CommandOK
<1>14. World'
  BY <1>7, <1>8, <1>9, <1>10, IdsGrow DEF Types, World, Grows, history, world
<1> QED
  BY <1>7, <1>8, <1>9, <1>13, <1>14, CommandMoves, RowsStay, LoopsStay DEF Types

LEMMA StoreTypes ==
  ASSUME Types, NEW c \in Commands, StoreRow(c)
  PROVE  Types'
<1>1. PICK cmd : cmd = command[c]
  OBVIOUS
<1>2. CommandOK(cmd) /\ cmd.pc = "storing" /\ cmd.kind \in Kinds
  BY <1>1 DEF Types, CommandsOK, CommandOK, StoreRow, Doing
<1>3. PICK r : r = [pages |-> cmd.pages, card |-> cmd.card, status |-> cmd.status, last |-> clock]
  OBVIOUS
<1>4. RowOK(cmd.kind, r)
  BY <1>2, <1>3 DEF RowOK, Row, CommandOK, CommandRecords, Types, World
<1>5. /\ row' = [row EXCEPT ![cmd.kind] = r]
      /\ UNCHANGED <<world, messages, posted, updater, met, lost, bare>>
  BY <1>1, <1>3 DEF StoreRow
<1>6. Grows
  BY <1>5 DEF Types, World, Grows, Kinds
<1>7. RowsOK'
  BY <1>2, <1>4, <1>5, <1>6, RowGrows, RowMoves
<1>8. CommandOK(NoCommand) /\ Do(c, NoCommand)
  BY IdleOK DEF Types, World, StoreRow
<1>9. CommandsOK'
  BY <1>6, <1>8, CommandGrows, CommandMoves
<1>10. early' \in BOOLEAN
  BY DEF StoreRow, TooEarly
<1>11. World'
  BY <1>5, <1>6, <1>10 DEF Types, World, Grows, Live, Ids, world
<1> QED
  BY <1>5, <1>6, <1>7, <1>9, <1>11, LoopsStay DEF Types

\* A step of a loop that touches neither rows nor the number of messages.
LEMMA LoopSteps ==
  ASSUME Types, NEW u \in Loops, NEW up, UpdaterOK(u, up), Go(u, up) \/ GoOn(u),
         UNCHANGED <<world, row, posted, command, early>>,
         Live' = Live, met' \subseteq Kinds, lost' \in BOOLEAN, bare' \subseteq Ids
  PROVE  Types'
<1>1. Grows
  BY DEF Types, World, Grows, Kinds
<1>2. LoopsOK'
  BY <1>1, UpdaterGrows, LoopMoves, GoesOn
<1>3. World'
  BY DEF Types, World, Kinds, Ids, world
<1> QED
  BY <1>1, <1>2, <1>3, RowsStay, CommandsStay DEF Types

LEMMA ReadTypes ==
  ASSUME Types, NEW u \in Loops, ReadRow(u)
  PROVE  Types'
<1>1. PICK up : up = updater[u]
  OBVIOUS
<1>2. UpdaterOK(u, up) /\ up.pc = "waiting" /\ up.kind \in Kinds
  BY <1>1 DEF Types, LoopsOK, UpdaterOK, ReadRow, At
<1>3. UNCHANGED <<world, row, messages, posted, command, lost, early, bare>>
  BY DEF ReadRow
<1>4. met' \subseteq Kinds
  BY <1>1, <1>2 DEF ReadRow, Types, World
<1>5. Live' = Live /\ lost' \in BOOLEAN /\ bare' \subseteq Ids
  BY <1>3 DEF Live, Types, World
<1>6. CASE GoOn(u)
  BY <1>2, <1>3, <1>4, <1>5, <1>6, LoopSteps
<1>7. CASE ~GoOn(u)
  <2>1. PICK next : next = [up EXCEPT !.row = row[up.kind], !.over = Ended(up.kind),
                              !.total = PageCount(up.kind),
                              !.pc = IF up.kind = "status" THEN "closing" ELSE "editing"]
    OBVIOUS
  <2>2. Go(u, next) /\ row[up.kind] # NoRow
    BY <1>1, <1>7, <2>1 DEF ReadRow
  <2>3. RowOK(up.kind, row[up.kind]) /\ PageCount(up.kind) \in Nat /\ Ended(up.kind) \in BOOLEAN
    BY <1>2, CountWithin, BoundsAssumption DEF Types, World, RowsOK, Ended
  <2>4. PICK r : r = row[up.kind]
    OBVIOUS
  <2>5. /\ next \in UpdaterRecords /\ next.kind = up.kind /\ next.row = r /\ next.page = up.page
        /\ next.pc = IF up.kind = "status" THEN "closing" ELSE "editing"
    BY <1>2, <2>1, <2>3, <2>4 DEF UpdaterOK, UpdaterRecords, RowOK
  <2>6. next.page = 1
    BY <1>2, <2>5 DEF UpdaterOK
  <2>7. UpdaterOK(u, next)
    BY <1>2, <2>2, <2>3, <2>4, <2>5, <2>6 DEF UpdaterOK, RowOK, Paged, Row
  <2> QED
    BY <1>3, <1>4, <1>5, <2>2, <2>7, LoopSteps
<1> QED
  BY <1>6, <1>7

\* The loop has dealt with a page.
LEMMA PageDoneOK ==
  ASSUME World, NEW u \in Loops, NEW up, UpdaterOK(u, up), up.pc = "editing", NEW next, next = PageDone(up)
  PROVE  /\ UpdaterOK(u, next) /\ next.kind = up.kind /\ next.row = up.row /\ next.over = up.over
         /\ next.pc \in {"editing", "closing"}
<1>1. PICK more : more = [up EXCEPT !.page = up.page + 1]
  OBVIOUS
<1>2. PICK over : over = [up EXCEPT !.pc = "closing"]
  OBVIOUS
<1>3. next = more \/ next = over
  BY <1>1, <1>2 DEF PageDone
<1>4. Len(up.row.pages) \in Nat
  BY DEF UpdaterOK, UpdaterRecords, Row
<1>5. next = more => up.page + 1 <= Len(up.row.pages)
  <2>1. CASE up.page < Lesser(Len(up.row.pages), up.total)
    BY <1>4, <2>1 DEF Lesser, UpdaterOK, UpdaterRecords
  <2>2. CASE ~(up.page < Lesser(Len(up.row.pages), up.total))
    <3>1. next = over /\ over.pc = "closing" /\ more.pc = "editing"
      BY <1>1, <1>2, <2>2 DEF PageDone, UpdaterOK, UpdaterRecords
    <3> QED
      BY <3>1
  <2> QED
    BY <2>1, <2>2
<1>6. CASE next = more
  <2>1. /\ next \in UpdaterRecords /\ next.kind = up.kind /\ next.row = up.row /\ next.over = up.over
        /\ next.pc = "editing" /\ next.page = up.page + 1
    BY <1>1, <1>6 DEF UpdaterOK, UpdaterRecords
  <2> QED
    BY <1>5, <1>6, <2>1 DEF UpdaterOK
<1>7. CASE next = over
  <2>1. /\ next \in UpdaterRecords /\ next.kind = up.kind /\ next.row = up.row /\ next.over = up.over
        /\ next.pc = "closing" /\ next.page = up.page
    BY <1>2, <1>7 DEF UpdaterOK, UpdaterRecords
  <2> QED
    BY <2>1 DEF UpdaterOK
<1> QED
  BY <1>3, <1>6, <1>7

LEMMA PageEditTypes ==
  ASSUME Types, NEW u \in Loops, EditPage(u) \/ SkipPage(u)
  PROVE  Types'
<1>1. PICK up : up = updater[u]
  OBVIOUS
<1>2. UpdaterOK(u, up) /\ up.pc = "editing"
  BY <1>1 DEF Types, LoopsOK, EditPage, SkipPage, At
<1>3. PICK next : next = PageDone(up)
  OBVIOUS
<1>4. UpdaterOK(u, next) /\ Go(u, next)
  BY <1>1, <1>2, <1>3, PageDoneOK DEF EditPage, SkipPage, Types
<1>5. /\ UNCHANGED <<world, row, posted, command, met, early, bare>> /\ lost' \in BOOLEAN
      /\ Live' = Live
  BY DEF EditPage, SkipPage, Fails, Edited, Live, history, Types, World
<1> QED
  BY <1>4, <1>5, LoopSteps DEF Types, World

LEMMA TrailerEditTypes ==
  ASSUME Types, NEW u \in Loops, EditTrailers(u)
  PROVE  Types'
<1>1. PICK up : up = updater[u]
  OBVIOUS
<1>2. UpdaterOK(u, up) /\ up.pc = "closing"
  BY <1>1 DEF Types, LoopsOK, EditTrailers, At
<1>3. PICK next : next = [up EXCEPT !.pc = "stamping"]
  OBVIOUS
<1>4. UpdaterOK(u, next)
  <2>1. /\ next \in UpdaterRecords /\ next.kind = up.kind /\ next.row = up.row
        /\ next.pc = "stamping"
    BY <1>2, <1>3 DEF UpdaterOK, UpdaterRecords
  <2> QED
    BY <1>2, <2>1 DEF UpdaterOK
<1>5. Go(u, next) \/ GoOn(u)
  BY <1>1, <1>3 DEF EditTrailers
<1>6. UNCHANGED <<world, row, posted, command, met, early>> /\ Live' = Live
  BY DEF EditTrailers, Redrawn, Live
<1>7. lost' \in BOOLEAN /\ bare' \subseteq Ids
  BY <1>1 DEF EditTrailers, Fails, Types, World
<1> QED
  BY <1>4, <1>5, <1>6, <1>7, LoopSteps DEF Types, World

\* What the loop writes back fits the board's row.
LEMMA StampedOK ==
  ASSUME Types, NEW k \in Kinds, NEW r, RowOK(k, r), r # NoRow, NEW s, s = Stamped(k, r)
  PROVE  RowOK(k, s)
<1>1. clock \in 0..MaxTime /\ RowOK(k, row[k]) /\ k \in AnyKind
  BY KindsAny DEF Types, World, RowsOK
<1>2. CASE k = "status"
  <2>1. s = [r EXCEPT !.last = clock]
    BY <1>2 DEF Stamped
  <2> QED
    BY <1>1, <1>2, <2>1 DEF RowOK, Row, Paged
<1>3. CASE k # "status" /\ row[k] # NoRow
  <2>1. PICK q : q = row[k]
    OBVIOUS
  <2>2. s = [q EXCEPT !.pages = r.pages, !.last = clock]
    BY <1>3, <2>1 DEF Stamped
  <2>3. q \in Row /\ r \in Row
    BY <1>1, <2>1 DEF RowOK
  <2>4. s \in Row /\ s.pages = r.pages
    BY <1>1, <2>2, <2>3 DEF Row
  <2> QED
    BY <2>4 DEF RowOK
<1>4. CASE k # "status" /\ row[k] = NoRow
  <2>1. s = NoRow
    BY <1>4 DEF Stamped
  <2> QED
    BY <2>1, NoRowOK DEF Types, World
<1> QED
  BY <1>2, <1>3, <1>4

LEMMA StampTypes ==
  ASSUME Types, NEW u \in Loops, Stamp(u)
  PROVE  Types'
<1>1. PICK up : up = updater[u]
  OBVIOUS
<1>2. UpdaterOK(u, up) /\ up.pc = "stamping" /\ up.kind \in Kinds
  BY <1>1 DEF Types, LoopsOK, UpdaterOK, Stamp, At
<1>3. PICK s : s = Stamped(up.kind, up.row)
  OBVIOUS
<1>4. RowOK(up.kind, up.row) /\ up.row # NoRow
  BY <1>2 DEF UpdaterOK, UpdaterRecords, RowOK
<1>5. RowOK(up.kind, s)
  BY <1>2, <1>3, <1>4, StampedOK
<1>6. /\ row' = [row EXCEPT ![up.kind] = s] /\ GoOn(u)
      /\ UNCHANGED <<world, posted, command, met, bare>> /\ Live' = Live /\ lost' \in BOOLEAN
  BY <1>1, <1>3 DEF Stamp, Fails, Live, Edited, Types, World
<1>7. Grows
  BY <1>6 DEF Types, World, Grows, Kinds
<1>8. RowsOK'
  BY <1>2, <1>5, <1>6, <1>7, RowGrows, RowMoves
<1>9. early' \in BOOLEAN
  BY DEF Stamp, TooEarly
<1>10. World'
  BY <1>6, <1>7, <1>9 DEF Types, World, Grows, Ids, world
<1> QED
  BY <1>6, <1>7, <1>8, <1>10, GoesOn, CommandsStay DEF Types

LEMMA FailTypes ==
  /\ \A c \in Commands : Types /\ FailCommand(c) => Types'
  /\ \A u \in Loops : Types /\ FailUpdate(u) => Types'
  /\ Types /\ Restart => Types'
<1>1. ASSUME NEW c \in Commands, Types, FailCommand(c)
      PROVE  Types'
  <2>1. CommandOK(NoCommand) /\ Do(c, NoCommand)
    BY <1>1, IdleOK DEF Types, World, FailCommand
  <2>2. UNCHANGED <<world, row, messages, posted, updater, met, early, bare>> /\ lost' \in BOOLEAN
    BY <1>1 DEF FailCommand, Fails
  <2> QED
    BY <1>1, <2>1, <2>2, CommandSteps DEF Types, World, Live
<1>2. ASSUME NEW u \in Loops, Types, FailUpdate(u)
      PROVE  Types'
  <2>1. PICK up : up = updater[u]
    OBVIOUS
  <2>2. UpdaterOK(u, up) /\ GoOn(u)
    BY <1>2, <2>1 DEF Types, LoopsOK, FailUpdate
  <2>3. UNCHANGED <<world, row, messages, posted, command, met, early, bare>> /\ lost' \in BOOLEAN
    BY <1>2 DEF FailUpdate, Fails
  <2> QED
    BY <1>2, <2>2, <2>3, LoopSteps DEF Types, World, Live
<1>3. ASSUME Types, Restart
      PROVE  Types'
  <2>1. Grows /\ UNCHANGED <<world, row, messages, posted, met, early, bare>> /\ lost' \in BOOLEAN
    BY <1>3 DEF Types, World, Grows, Kinds, Restart, Fails
  <2>2. ASSUME NEW c \in Commands
        PROVE  CommandOK(command[c])'
    <3>1. PICK q : q = NoCommand
      OBVIOUS
    <3>2. CommandOK(q)' /\ command'[c] = q
      BY <1>3, <2>1, <3>1, IdleOK, CommandGrows DEF Grows, Restart
    <3> QED
      BY <3>2 DEF CommandOK
  <2>3. ASSUME NEW u \in Loops
        PROVE  UpdaterOK(u, updater[u])'
    <3>1. PICK q : q = Waiting(FirstTable(u))
      OBVIOUS
    <3>2. UpdaterOK(u, q)' /\ updater'[u] = q
      BY <1>3, <2>1, <3>1, FirstWaits, UpdaterGrows DEF Grows, Restart
    <3> QED
      BY <3>2 DEF UpdaterOK
  <2>4. World'
    BY <1>3, <2>1 DEF Types, World, Kinds, Live, Ids, world
  <2> QED
    BY <1>3, <2>1, <2>2, <2>3, <2>4, RowsStay DEF Types, CommandsOK, LoopsOK, Restart
<1> QED
  BY <1>1, <1>2, <1>3

LEMMA InitTypes == Init => Types
<1> SUFFICES ASSUME Init
             PROVE  Types
  OBVIOUS
<1>1. posted \in Nat /\ Live = {}
  BY DEF Init, Live
<1>2. World
  <2>1. PICK kinds \in Setups : row = [k \in kinds |-> NoRow]
    BY DEF Init
  <2>2. Kinds = kinds
    BY <2>1 DEF Kinds
  <2>3. /\ clock \in 0..MaxTime /\ players \in 0..MaxPlayers /\ event \in {"active", "ended", "gone"}
        /\ endDate \in 0..(MaxTime - 1)
    BY TimeAssumption DEF Init
  <2>4. lost \in BOOLEAN /\ early \in BOOLEAN /\ met \subseteq Kinds /\ bare \subseteq Ids
    BY DEF Init
  <2> QED
    BY <1>1, <2>1, <2>2, <2>3, <2>4 DEF World
<1>3. RowsOK
  BY <1>1, NoRowOK DEF Init, RowsOK, Kinds
<1>4. ASSUME NEW c \in Commands
      PROVE  CommandOK(command[c])
  BY <1>1, IdleOK DEF Init
<1>5. ASSUME NEW u \in Loops
      PROVE  UpdaterOK(u, updater[u])
  BY <1>1, FirstWaits DEF Init
<1> QED
  BY <1>2, <1>3, <1>4, <1>5 DEF Types, CommandsOK, LoopsOK, Init

LEMMA StepTypes == Types /\ [Next]_vars => Types'
<1> SUFFICES ASSUME Types, [Next]_vars
             PROVE  Types'
  OBVIOUS
<1>1. CASE EventStep
  BY <1>1, EventTypes
<1>2. CASE \E c \in Commands : CommandStep(c) \/ FailCommand(c) \/ \E k \in Kinds : Post(c, k) \/ Remove(c, k)
  BY <1>2, StartTypes, LookTypes, DeletingTypes, DropTypes, PageTypes, TrailersTypes, StoreTypes,
     FailTypes DEF CommandStep, Post, Remove
<1>3. CASE \E u \in Loops : Round(u) \/ FailUpdate(u) \/ SkipPage(u)
  BY <1>3, ReadTypes, PageEditTypes, TrailerEditTypes, StampTypes, FailTypes DEF Round
<1>4. CASE Restart
  BY <1>4, FailTypes
<1>5. CASE UNCHANGED vars
  <2>1. Grows
    BY <1>5 DEF Types, World, Grows, Kinds, vars
  <2>2. World'
    BY <1>5 DEF Types, World, Kinds, Live, Ids, vars, world, history
  <2> QED
    BY <1>5, <2>1, <2>2, RowsStay, CommandsStay, LoopsStay DEF Types, vars
<1> QED
  BY <1>1, <1>2, <1>3, <1>4, <1>5 DEF Next, EventStep, Dates

(***************************************************************************)
(* A message keeps its place: a page stays the page it was posted as, of   *)
(* the board it was posted for, and no id is used twice.  Lasting says so  *)
(* of a step, and Fits of a record that names messages.                    *)
(***************************************************************************)
SamePlace(m, n) == m.what = n.what /\ m.kind = n.kind /\ m.page = n.page

Lasting == \A i \in Live' : i \in Ids => i \in Live /\ SamePlace(messages'[i], messages[i])

Is(i, what, k, page) ==
  messages[i].what = what /\ messages[i].kind = k /\ messages[i].page = page

Fits(r, k) ==
  /\ \A i \in DOMAIN r.pages : r.pages[i] \in Live => Is(r.pages[i], "page", k, i)
  /\ r.card \in Live => Is(r.card, "card", k, 0)
  /\ r.status \in Live => Is(r.status, "status", k, 0)

CommandFits(cmd) == Fits(cmd.row, cmd.kind) /\ Fits(cmd, cmd.kind)

AllFit ==
  /\ \A k \in Kinds : Fits(row[k], k)
  /\ \A c \in Commands : CommandFits(command[c])
  /\ \A u \in Loops : Fits(updater[u].row, updater[u].kind)

\* What a record names was posted.
Names(r) == r.pages \in Seq(Ids) /\ r.card \in {0} \cup Ids /\ r.status \in {0} \cup Ids

LEMMA RowNames ==
  ASSUME NEW r \in Row
  PROVE  Names(r)
BY DEF Row, Names

LEMMA CommandNames ==
  ASSUME NEW cmd, CommandOK(cmd)
  PROVE  Names(cmd) /\ Names(cmd.row)
BY DEF CommandOK, CommandRecords, Row, Names

LEMMA NoneFits ==
  ASSUME Types, NEW k, NEW r, r.pages = <<>>, r.card = 0, r.status = 0
  PROVE  Fits(r, k)
BY DEF Fits, Types, World, Ids

LEMMA StillFits ==
  ASSUME Types, Types', Lasting, NEW k, NEW r, Names(r), Fits(r, k)
  PROVE  Fits(r, k)'
<1>1. 0 \notin Live'
  BY DEF Types, World, Ids
<1>2. \A i \in DOMAIN r.pages : r.pages[i] \in Ids
  BY DEF Names
<1> QED
  BY <1>1, <1>2 DEF Fits, Is, Lasting, SamePlace, Names

\* A page is edited as the page it is.
LEMMA EditLasts ==
  ASSUME Types, AllFit, NEW u \in Loops, EditPage(u)
  PROVE  Lasting /\ Live' = Live
<1>1. PICK up : up = updater[u]
  OBVIOUS
<1>2. UpdaterOK(u, up) /\ up.pc = "editing" /\ Fits(up.row, up.kind)
  BY <1>1 DEF Types, LoopsOK, EditPage, At, AllFit
<1>3. up.page \in DOMAIN up.row.pages
  BY <1>2 DEF UpdaterOK, UpdaterRecords, Row
<1>4. PICK id : id = up.row.pages[up.page]
  OBVIOUS
<1>5. id \in Live => Is(id, "page", up.kind, up.page)
  BY <1>2, <1>3, <1>4 DEF Fits
<1>6. messages' = Edited(id, Shows("page", up.kind, up.page, up.over))
  BY <1>1, <1>4 DEF EditPage
<1>7. Live' = Live
  BY <1>6 DEF Live, Edited
<1>8. ASSUME NEW i \in Live
      PROVE  SamePlace(messages'[i], messages[i])
  <2>1. CASE id \in Live
    BY <1>5, <1>6, <2>1 DEF Live, Edited, SamePlace, Is, Shows
  <2>2. CASE id \notin Live
    BY <1>6, <2>2 DEF Edited, SamePlace
  <2> QED
    BY <2>1, <2>2
<1> QED
  BY <1>7, <1>8 DEF Lasting

\* The card and the status message, or what is left of them, are edited.
LEMMA TrailersDrawn ==
  ASSUME NEW u \in Loops, EditTrailers(u)
  PROVE  \E ids : /\ ids \subseteq {updater[u].row.card, updater[u].row.status}
                  /\ messages' = Redrawn(ids, updater[u])
<1>1. PICK up : up = updater[u]
  OBVIOUS
<1>2. PICK found : found = (IF up.kind = "guild" THEN {up.row.card} ELSE {up.row.status, up.row.card}) \cap Live
  OBVIOUS
<1>3. PICK left \in SUBSET found : messages' = Redrawn(found \ left, up)
  BY <1>1, <1>2 DEF EditTrailers
<1>4. found \ left \subseteq {up.row.card, up.row.status}
  BY <1>2
<1> QED
  BY <1>1, <1>3, <1>4

LEMMA TrailersLast ==
  ASSUME Types, AllFit, NEW u \in Loops, EditTrailers(u) \/ Stamp(u)
  PROVE  Lasting /\ Live' = Live
<1>1. PICK up : up = updater[u]
  OBVIOUS
<1>2. Fits(up.row, up.kind)
  BY <1>1 DEF AllFit
<1>3. CASE EditTrailers(u)
  <2>1. PICK ids : ids \subseteq {up.row.card, up.row.status} /\ messages' = Redrawn(ids, up)
    BY <1>1, <1>3, TrailersDrawn
  <2>2. Live' = Live
    BY <2>1 DEF Live, Redrawn
  <2>3. ASSUME NEW i \in Live
        PROVE  SamePlace(messages'[i], messages[i])
    BY <1>2, <2>1 DEF Fits, Is, SamePlace, Shows, Redrawn
  <2> QED
    BY <2>2, <2>3 DEF Lasting
<1>4. CASE Stamp(u)
  <2>1. \/ up.kind = "guild" /\ messages' = Edited(up.row.status, Shows("status", "guild", 0, up.over))
        \/ messages' = messages
    BY <1>1, <1>4 DEF Stamp
  <2>2. Live' = Live
    BY <2>1 DEF Live, Edited
  <2>3. ASSUME NEW i \in Live
        PROVE  SamePlace(messages'[i], messages[i])
    BY <1>2, <2>1 DEF Fits, Is, SamePlace, Shows, Edited, Live
  <2> QED
    BY <2>2, <2>3 DEF Lasting
<1> QED
  BY <1>3, <1>4

LEMMA PostsLast ==
  ASSUME Types, NEW c \in Commands, PostPage(c) \/ PostTrailers(c)
  PROVE  Lasting /\ Live \subseteq Live' /\ \A i \in Live : messages'[i] = messages[i]
<1>1. CASE PostPage(c)
  BY <1>1 DEF PostPage, With, Live, Lasting, SamePlace, Types, World, Ids
<1>2. CASE PostTrailers(c)
  <2>1. PICK new : messages' = With(new) /\ \A i \in DOMAIN new : i \notin Ids
    <3>1. PICK cards \in {0, 1} :
            LET card == IF cards = 0 THEN 0 ELSE posted + 1
                status == posted + cards + 1
            IN  messages' = With([i \in {card, status} \ {0} |->
                              Shows(IF i = status THEN "status" ELSE "card", command[c].kind, 0, command[c].over)])
      BY <1>2 DEF PostTrailers
    <3> QED
      BY <3>1 DEF Types, World, Ids
  <2> QED
    BY <2>1 DEF With, Live, Lasting, SamePlace
<1> QED
  BY <1>1, <1>2

LEMMA DeleteLasts ==
  ASSUME NEW c \in Commands, DeleteMessages(c)
  PROVE  Lasting /\ \A i \in Live' : i \in Live /\ messages'[i] = messages[i]
BY DEF DeleteMessages, Without, Lasting, SamePlace, Live

\* The other steps leave the messages alone.
LEMMA StepLasts ==
  ASSUME Types, AllFit, [Next]_vars
  PROVE  Lasting
<1>1. UNCHANGED messages => Lasting
  BY DEF Lasting, SamePlace, Live
<1>2. CASE EventStep \/ Restart \/ UNCHANGED vars
  BY <1>1, <1>2, EventLeaves DEF Restart, vars
<1>3. CASE \E c \in Commands : CommandStep(c) \/ FailCommand(c) \/ \E k \in Kinds : Post(c, k) \/ Remove(c, k)
  <2>1. PICK c \in Commands : CommandStep(c) \/ FailCommand(c) \/ \E k \in Kinds : Post(c, k) \/ Remove(c, k)
    BY <1>3
  <2>2. Look(c) \/ DropRow(c) \/ StoreRow(c) \/ FailCommand(c) \/ (\E k \in Kinds : Post(c, k) \/ Remove(c, k))
        => UNCHANGED messages
    BY DEF Look, DropRow, StoreRow, FailCommand, Post, Remove, Start
  <2> QED
    BY <1>1, <2>1, <2>2, DeleteLasts, PostsLast DEF CommandStep
<1>4. CASE \E u \in Loops : Round(u) \/ FailUpdate(u) \/ SkipPage(u)
  <2>1. PICK u \in Loops : Round(u) \/ FailUpdate(u) \/ SkipPage(u)
    BY <1>4
  <2>2. ReadRow(u) \/ FailUpdate(u) \/ SkipPage(u) => UNCHANGED messages
    BY DEF ReadRow, FailUpdate, SkipPage
  <2> QED
    BY <1>1, <2>1, <2>2, EditLasts, TrailersLast DEF Round
<1> QED
  BY <1>2, <1>3, <1>4 DEF Next, EventStep, Dates

(***************************************************************************)
(* Every row and every task goes on naming what it says it names.          *)
(***************************************************************************)
LEMMA CommandFitsStill ==
  ASSUME Types, Types', Lasting, NEW cmd, CommandOK(cmd), CommandFits(cmd)
  PROVE  CommandFits(cmd)'
BY CommandNames, StillFits DEF CommandFits

LEMMA RowsFit ==
  ASSUME Types, Types', Lasting, AllFit, UNCHANGED row
  PROVE  (\A k \in Kinds : Fits(row[k], k))'
<1> SUFFICES ASSUME NEW k \in Kinds
             PROVE  Fits(row[k], k)'
  BY DEF Kinds
<1>1. PICK r : r = row[k]
  OBVIOUS
<1>2. r \in Row /\ Fits(r, k)
  BY <1>1 DEF Types, RowsOK, RowOK, AllFit
<1>3. Fits(r, k)'
  BY <1>2, RowNames, StillFits
<1> QED
  BY <1>1, <1>3 DEF Fits

LEMMA RowFits ==
  ASSUME Types, Types', Lasting, AllFit, NEW j \in Kinds, NEW s, Fits(s, j)',
         row' = [row EXCEPT ![j] = s]
  PROVE  (\A k \in Kinds : Fits(row[k], k))'
<1> SUFFICES ASSUME NEW k \in Kinds
             PROVE  Fits(row[k], k)'
  BY DEF Kinds
<1>1. CASE k = j
  <2>1. row'[k] = s
    BY <1>1 DEF Kinds
  <2> QED
    BY <1>1, <2>1 DEF Fits
<1>2. CASE k # j
  <2>1. PICK r : r = row[k]
    OBVIOUS
  <2>2. r \in Row /\ Fits(r, k) /\ row'[k] = r
    BY <1>2, <2>1 DEF Types, RowsOK, RowOK, AllFit, Kinds
  <2>3. Fits(r, k)'
    BY <2>2, RowNames, StillFits
  <2> QED
    BY <2>2, <2>3 DEF Fits
<1> QED
  BY <1>1, <1>2

LEMMA CommandsFit ==
  ASSUME Types, Types', Lasting, AllFit, UNCHANGED command
  PROVE  (\A c \in Commands : CommandFits(command[c]))'
<1> SUFFICES ASSUME NEW c \in Commands
             PROVE  CommandFits(command[c])'
  OBVIOUS
<1>1. PICK cmd : cmd = command[c]
  OBVIOUS
<1>2. CommandFits(cmd)'
  BY <1>1, CommandFitsStill DEF Types, CommandsOK, AllFit
<1> QED
  BY <1>1, <1>2 DEF CommandFits, Fits

LEMMA CommandFit ==
  ASSUME Types, Types', Lasting, AllFit, NEW d \in Commands, NEW new, CommandFits(new)', Do(d, new)
  PROVE  (\A c \in Commands : CommandFits(command[c]))'
<1> SUFFICES ASSUME NEW c \in Commands
             PROVE  CommandFits(command[c])'
  OBVIOUS
<1>1. CASE c = d
  <2>1. command'[c] = new
    BY <1>1 DEF Do, Types, CommandsOK
  <2> QED
    BY <2>1 DEF CommandFits, Fits
<1>2. CASE c # d
  <2>1. PICK cmd : cmd = command[c]
    OBVIOUS
  <2>2. CommandFits(cmd)' /\ command'[c] = cmd
    BY <1>2, <2>1, CommandFitsStill DEF Types, CommandsOK, AllFit, Do
  <2> QED
    BY <2>2 DEF CommandFits, Fits
<1> QED
  BY <1>1, <1>2

LEMMA LoopsFit ==
  ASSUME Types, Types', Lasting, AllFit, UNCHANGED updater
  PROVE  (\A u \in Loops : Fits(updater[u].row, updater[u].kind))'
<1> SUFFICES ASSUME NEW u \in Loops
             PROVE  Fits(updater[u].row, updater[u].kind)'
  OBVIOUS
<1>1. PICK up : up = updater[u]
  OBVIOUS
<1>2. up.row \in Row /\ Fits(up.row, up.kind)
  BY <1>1 DEF Types, LoopsOK, UpdaterOK, UpdaterRecords, AllFit
<1>3. Fits(up.row, up.kind)'
  BY <1>2, RowNames, StillFits
<1> QED
  BY <1>1, <1>3 DEF Fits

LEMMA LoopFits ==
  ASSUME Types, Types', Lasting, AllFit, NEW v \in Loops, NEW new, Fits(new.row, new.kind)', Go(v, new)
  PROVE  (\A u \in Loops : Fits(updater[u].row, updater[u].kind))'
<1> SUFFICES ASSUME NEW u \in Loops
             PROVE  Fits(updater[u].row, updater[u].kind)'
  OBVIOUS
<1>1. CASE u = v
  <2>1. updater'[u] = new
    BY <1>1 DEF Go, Types, LoopsOK
  <2> QED
    BY <2>1 DEF Fits
<1>2. CASE u # v
  <2>1. PICK up : up = updater[u]
    OBVIOUS
  <2>2. up.row \in Row /\ Fits(up.row, up.kind) /\ updater'[u] = up
    BY <1>2, <2>1 DEF Types, LoopsOK, UpdaterOK, UpdaterRecords, AllFit, Go
  <2>3. Fits(up.row, up.kind)'
    BY <2>2, RowNames, StillFits
  <2> QED
    BY <2>2, <2>3 DEF Fits
<1> QED
  BY <1>1, <1>2

LEMMA WaitingFits ==
  ASSUME Types, Types', Lasting, AllFit, NEW v \in Loops, GoOn(v)
  PROVE  (\A u \in Loops : Fits(updater[u].row, updater[u].kind))'
<1>1. PICK new : new = Waiting(NextTable(v, updater[v].kind))
  OBVIOUS
<1>2. new.row = NoRow /\ Go(v, new)
  BY <1>1 DEF Waiting, GoOn
<1>3. PICK r : r = NoRow
  OBVIOUS
<1>4. Names(r) /\ Fits(r, new.kind)
  BY <1>3, NoRowOK, NoneFits, RowNames DEF Types, World
<1>5. Fits(r, new.kind)'
  BY <1>4, StillFits
<1> QED
  BY <1>2, <1>3, <1>5, LoopFits DEF Fits

LEMMA NoneFitsThen ==
  ASSUME Types', NEW cmd, cmd.row = NoRow, cmd.pages = <<>>, cmd.card = 0, cmd.status = 0
  PROVE  CommandFits(cmd)'
<1>1. NoRow.pages = <<>> /\ NoRow.card = 0 /\ NoRow.status = 0
  BY DEF NoRow
<1>2. 0 \notin Live'
  BY DEF Types, World, Ids
<1> QED
  BY <1>1, <1>2 DEF CommandFits, Fits

LEMMA CommandStepFits ==
  ASSUME Types, Types', Lasting, AllFit, NEW c \in Commands,
         CommandStep(c) \/ FailCommand(c) \/ \E k \in Kinds : Post(c, k) \/ Remove(c, k)
  PROVE  AllFit'
<1>1. PICK cmd : cmd = command[c]
  OBVIOUS
<1>2. CommandOK(cmd) /\ CommandFits(cmd)
  BY <1>1 DEF Types, CommandsOK, AllFit
<1>3. CommandFits(cmd)'
  BY <1>2, CommandFitsStill
<1>4. UNCHANGED updater
  BY DEF CommandStep, Look, DeleteMessages, DropRow, PostPage, PostTrailers, StoreRow, FailCommand,
     Post, Remove, Start
<1>5. \A new : CommandFits(new)' /\ Do(c, new) /\ UNCHANGED row => AllFit'
  BY <1>4, CommandFit, RowsFit, LoopsFit DEF AllFit
<1>6. CommandFits(NoCommand)'
  BY NoneFitsThen DEF NoCommand
<1>7. ASSUME cmd.pages = <<>>, cmd.kind \in Kinds, cmd.pc # "idle", cmd.card = 0, cmd.status = 0,
             NEW new, new = Counted(cmd)
      PROVE  CommandFits(new)'
  BY <1>2, <1>7, CountedOK, NoneFitsThen
<1>8. CASE FailCommand(c)
  BY <1>5, <1>6, <1>8 DEF FailCommand
<1>9. CASE \E k \in Kinds : Post(c, k) \/ Remove(c, k)
  <2>1. PICK k \in Kinds, goal \in {"post", "remove"} : Start(c, k, goal)
    BY <1>9 DEF Post, Remove
  <2>2. PICK new : new = [NoCommand EXCEPT !.pc = "looking", !.kind = k, !.goal = goal, !.over = Ended(k)]
    OBVIOUS
  <2>3. new.row = NoRow /\ new.pages = <<>> /\ new.card = 0 /\ new.status = 0
    BY <2>2 DEF NoCommand
  <2> QED
    BY <1>5, <2>1, <2>2, <2>3, NoneFitsThen DEF Start, Do
<1>10. CASE Look(c)
  <2>1. cmd.pc = "looking" /\ cmd.kind \in Kinds /\ cmd.pages = <<>> /\ cmd.card = 0 /\ cmd.status = 0
    BY <1>1, <1>2, <1>10 DEF Look, Doing, CommandOK
  <2>2. PICK found : found = [cmd EXCEPT !.pc = "deleting", !.row = row[cmd.kind]]
    OBVIOUS
  <2>3. PICK r : r = row[cmd.kind]
    OBVIOUS
  <2>4. Fits(r, cmd.kind) /\ Names(r)
    BY <2>1, <2>3, RowNames DEF AllFit, Types, RowsOK, RowOK
  <2>5. Fits(r, cmd.kind)'
    BY <2>4, StillFits
  <2>6. /\ found.row = r /\ found.kind = cmd.kind /\ found.pages = cmd.pages
        /\ found.card = cmd.card /\ found.status = cmd.status
    BY <1>2, <2>2, <2>3 DEF CommandOK, CommandRecords
  <2>7. CommandFits(found)'
    BY <1>3, <2>5, <2>6 DEF CommandFits, Fits
  <2>8. PICK counted : counted = Counted(cmd)
    OBVIOUS
  <2>9. CommandFits(counted)'
    BY <1>7, <2>1, <2>8
  <2>10. UNCHANGED row /\ \E new \in {found, counted, NoCommand} : Do(c, new)
    BY <1>1, <1>10, <2>2, <2>8 DEF Look
  <2> QED
    BY <1>5, <1>6, <2>7, <2>9, <2>10
<1>11. CASE DeleteMessages(c)
  <2>1. cmd.pc = "deleting" /\ cmd.kind \in Kinds /\ cmd.pages = <<>> /\ cmd.card = 0 /\ cmd.status = 0
    BY <1>1, <1>2, <1>11 DEF DeleteMessages, Doing, CommandOK
  <2>2. PICK dropping : dropping = [cmd EXCEPT !.row = NoRow, !.pc = "dropping"]
    OBVIOUS
  <2>3. CommandFits(dropping)'
    <3>1. /\ dropping.row = NoRow /\ dropping.pages = <<>> /\ dropping.card = 0 /\ dropping.status = 0
      BY <1>2, <2>1, <2>2 DEF CommandOK, CommandRecords
    <3> QED
      BY <3>1, NoneFitsThen
  <2>4. PICK counted : counted = Counted(cmd)
    OBVIOUS
  <2>5. CommandFits(counted)'
    BY <1>7, <2>1, <2>4
  <2>6. UNCHANGED row /\ \E new \in {dropping, counted} : Do(c, new)
    BY <1>1, <1>11, <2>2, <2>4 DEF DeleteMessages
  <2> QED
    BY <1>5, <2>3, <2>5, <2>6
<1>12. CASE DropRow(c)
  <2>1. cmd.pc = "dropping" /\ cmd.kind \in Kinds /\ cmd.pages = <<>> /\ cmd.card = 0 /\ cmd.status = 0
    BY <1>1, <1>2, <1>12 DEF DropRow, Doing, CommandOK
  <2>2. PICK counted : counted = Counted(cmd)
    OBVIOUS
  <2>3. CommandFits(counted)'
    BY <1>7, <2>1, <2>2
  <2>4. row' = [row EXCEPT ![cmd.kind] = NoRow] /\ \E new \in {counted, NoCommand} : Do(c, new)
    BY <1>1, <1>12, <2>2 DEF DropRow
  <2>5. Fits(NoRow, cmd.kind)'
    <3>1. NoRow.pages = <<>> /\ NoRow.card = 0 /\ NoRow.status = 0
      BY DEF NoRow
    <3>2. 0 \notin Live'
      BY DEF Types, World, Ids
    <3> QED
      BY <3>1, <3>2 DEF Fits
  <2> QED
    BY <1>4, <1>6, <2>1, <2>3, <2>4, <2>5, RowFits, CommandFit, LoopsFit DEF AllFit
<1>13. CASE PostPage(c)
  <2>1. cmd.pc = "posting" /\ cmd.kind \in Kinds /\ cmd.pages \in Seq(Ids) /\ posted \in Nat
    BY <1>1, <1>2, <1>13 DEF PostPage, Doing, CommandOK, CommandRecords, Types, World
  <2>2. PICK id \in Nat : id = posted + 1
    BY <2>1
  <2>3. PICK pages : pages = Append(cmd.pages, id)
    OBVIOUS
  <2>4. PICK new : new = [cmd EXCEPT !.pages = pages, !.pc = IF Len(cmd.pages) + 1 = cmd.total THEN "closing" ELSE cmd.pc]
    OBVIOUS
  <2>5. /\ Do(c, new) /\ UNCHANGED row
        /\ messages' = With([i \in {id} |-> Shows("page", cmd.kind, Len(cmd.pages) + 1, cmd.over)])
    BY <1>1, <1>13, <2>2, <2>3, <2>4 DEF PostPage
  <2>6. /\ new.row = cmd.row /\ new.kind = cmd.kind /\ new.pages = pages
        /\ new.card = cmd.card /\ new.status = cmd.status
    BY <1>2, <2>4 DEF CommandOK, CommandRecords
  <2>7. id \notin Live
    BY <2>1, <2>2 DEF Types, World, Ids
  <2>8. Is(id, "page", cmd.kind, Len(cmd.pages) + 1)'
    BY <2>5, <2>7 DEF With, Shows, Is
  <2>9. cmd.pages \in Seq(Nat) /\ Len(cmd.pages) \in Nat /\ DOMAIN cmd.pages = 1..Len(cmd.pages)
    BY <2>1 DEF Ids
  <2>10. /\ DOMAIN pages = 1..(Len(cmd.pages) + 1) /\ pages[Len(cmd.pages) + 1] = id
         /\ \A i \in DOMAIN cmd.pages : pages[i] = cmd.pages[i]
         /\ \A i \in DOMAIN pages : i \in DOMAIN cmd.pages \/ i = Len(cmd.pages) + 1
    <3>1. /\ Len(pages) = Len(cmd.pages) + 1 /\ pages \in Seq(Nat)
          /\ \A i \in 1..Len(cmd.pages) : pages[i] = cmd.pages[i]
          /\ pages[Len(cmd.pages) + 1] = id
      BY <2>2, <2>3, <2>9, AppendProperties
    <3>2. DOMAIN pages = 1..(Len(cmd.pages) + 1)
      BY <3>1
    <3>3. \A i \in 1..(Len(cmd.pages) + 1) : i \in 1..Len(cmd.pages) \/ i = Len(cmd.pages) + 1
      BY <2>9
    <3> QED
      BY <2>9, <3>1, <3>2, <3>3, Zenon
  <2>11. \A i \in DOMAIN pages : pages[i] \in Live' => Is(pages[i], "page", cmd.kind, i)'
    BY <1>3, <2>8, <2>10 DEF CommandFits, Fits, Is
  <2>12. CommandFits(new)'
    BY <1>3, <2>6, <2>11 DEF CommandFits, Fits
  <2> QED
    BY <1>5, <2>5, <2>12
<1>14. CASE PostTrailers(c)
  <2>1. PICK cards \in {0, 1} :
          LET card == IF cards = 0 THEN 0 ELSE posted + 1
              status == posted + cards + 1
          IN  /\ messages' = With([i \in {card, status} \ {0} |->
                                Shows(IF i = status THEN "status" ELSE "card", cmd.kind, 0, cmd.over)])
              /\ posted' = status
              /\ Do(c, [cmd EXCEPT !.pc = "storing", !.card = card, !.status = status])
    BY <1>1, <1>14 DEF PostTrailers
  <2>2. PICK card : card = IF cards = 0 THEN 0 ELSE posted + 1
    OBVIOUS
  <2>3. PICK status : status = posted + cards + 1
    OBVIOUS
  <2>4. PICK new : new = [cmd EXCEPT !.pc = "storing", !.card = card, !.status = status]
    OBVIOUS
  <2>5. Do(c, new) /\ UNCHANGED row
    BY <1>14, <2>1, <2>2, <2>3, <2>4 DEF PostTrailers
  <2>6. /\ new.row = cmd.row /\ new.kind = cmd.kind /\ new.pages = cmd.pages
        /\ new.card = card /\ new.status = status
    BY <1>2, <2>4 DEF CommandOK, CommandRecords
  <2>7. posted \in Nat /\ Live \subseteq Ids /\ 0 \notin Live' /\ card # status
    BY <2>2, <2>3 DEF Types, World, Ids
  <2>8. messages' = With([i \in {card, status} \ {0} |->
                      Shows(IF i = status THEN "status" ELSE "card", cmd.kind, 0, cmd.over)])
    BY <2>1, <2>2, <2>3
  <2>9. Is(status, "status", cmd.kind, 0)' /\ (card # 0 => Is(card, "card", cmd.kind, 0)')
    BY <2>2, <2>3, <2>7, <2>8 DEF With, Shows, Is, Ids
  <2>10. CommandFits(new)'
    BY <1>3, <2>6, <2>7, <2>9 DEF CommandFits, Fits
  <2> QED
    BY <1>5, <2>5, <2>10
<1>15. CASE StoreRow(c)
  <2>1. cmd.kind \in Kinds
    BY <1>1, <1>2, <1>15 DEF StoreRow, Doing, CommandOK
  <2>2. PICK r : r = [pages |-> cmd.pages, card |-> cmd.card, status |-> cmd.status, last |-> clock]
    OBVIOUS
  <2>3. Fits(r, cmd.kind)'
    BY <1>3, <2>2 DEF CommandFits, Fits
  <2>4. row' = [row EXCEPT ![cmd.kind] = r] /\ Do(c, NoCommand)
    BY <1>1, <1>15, <2>2 DEF StoreRow
  <2> QED
    BY <1>4, <1>6, <2>1, <2>3, <2>4, RowFits, CommandFit, LoopsFit DEF AllFit
<1> QED
  BY <1>8, <1>9, <1>10, <1>11, <1>12, <1>13, <1>14, <1>15 DEF CommandStep

LEMMA LoopStepFits ==
  ASSUME Types, Types', Lasting, AllFit, NEW u \in Loops, Round(u) \/ FailUpdate(u) \/ SkipPage(u)
  PROVE  AllFit'
<1>1. PICK up : up = updater[u]
  OBVIOUS
<1>2. UpdaterOK(u, up) /\ Fits(up.row, up.kind) /\ Names(up.row)
  BY <1>1, RowNames DEF Types, LoopsOK, AllFit, UpdaterOK, UpdaterRecords
<1>3. Fits(up.row, up.kind)'
  BY <1>2, StillFits
<1>4. UNCHANGED command
  BY DEF Round, ReadRow, EditPage, EditTrailers, Stamp, FailUpdate, SkipPage
<1>5. \A new : Fits(new.row, new.kind)' /\ Go(u, new) /\ UNCHANGED row => AllFit'
  BY <1>4, LoopFits, RowsFit, CommandsFit DEF AllFit
<1>6. GoOn(u) /\ UNCHANGED row => AllFit'
  BY <1>4, WaitingFits, RowsFit, CommandsFit DEF AllFit
<1>7. CASE FailUpdate(u)
  BY <1>6, <1>7 DEF FailUpdate
<1>8. CASE ReadRow(u)
  <2>1. CASE GoOn(u)
    BY <1>6, <1>8, <2>1 DEF ReadRow
  <2>2. CASE ~GoOn(u)
    <3>1. PICK r : r = row[up.kind]
      OBVIOUS
    <3>2. PICK new : new = [up EXCEPT !.row = r, !.over = Ended(up.kind), !.total = PageCount(up.kind),
                                      !.pc = IF up.kind = "status" THEN "closing" ELSE "editing"]
      OBVIOUS
    <3>3. Go(u, new) /\ UNCHANGED row /\ up.kind \in Kinds
      BY <1>1, <1>2, <1>8, <2>2, <3>1, <3>2 DEF ReadRow, UpdaterOK
    <3>4. new.row = r /\ new.kind = up.kind
      BY <1>2, <3>2 DEF UpdaterOK, UpdaterRecords
    <3>5. Fits(r, up.kind) /\ Names(r)
      BY <3>1, <3>3, RowNames DEF AllFit, Types, RowsOK, RowOK
    <3>6. Fits(r, up.kind)'
      BY <3>5, StillFits
    <3> QED
      BY <1>5, <3>3, <3>4, <3>6 DEF Fits
  <2> QED
    BY <2>1, <2>2
<1>9. CASE EditPage(u) \/ SkipPage(u)
  <2>1. PICK new : new = PageDone(up)
    OBVIOUS
  <2>2. Go(u, new) /\ UNCHANGED row /\ up.pc = "editing"
    BY <1>1, <1>9, <2>1 DEF EditPage, SkipPage, At
  <2>3. new.row = up.row /\ new.kind = up.kind
    BY <1>2, <2>1, <2>2, PageDoneOK DEF Types
  <2> QED
    BY <1>3, <1>5, <2>2, <2>3 DEF Fits
<1>10. CASE EditTrailers(u)
  <2>1. PICK new : new = [up EXCEPT !.pc = "stamping"]
    OBVIOUS
  <2>2. (Go(u, new) \/ GoOn(u)) /\ UNCHANGED row
    BY <1>1, <1>10, <2>1 DEF EditTrailers
  <2>3. new.row = up.row /\ new.kind = up.kind
    BY <1>2, <2>1 DEF UpdaterOK, UpdaterRecords
  <2> QED
    BY <1>3, <1>5, <1>6, <2>2, <2>3 DEF Fits
<1>11. CASE Stamp(u)
  <2>1. up.pc = "stamping" /\ up.kind \in Kinds
    BY <1>1, <1>2, <1>11 DEF Stamp, At, UpdaterOK
  <2>2. PICK s : s = Stamped(up.kind, up.row)
    OBVIOUS
  <2>3. row' = [row EXCEPT ![up.kind] = s] /\ GoOn(u)
    BY <1>1, <1>11, <2>2 DEF Stamp
  <2>4. PICK r : r = row[up.kind]
    OBVIOUS
  <2>5. Fits(r, up.kind) /\ r \in Row
    BY <2>1, <2>4 DEF AllFit, Types, RowsOK, RowOK
  <2>6. Fits(r, up.kind)'
    BY <2>5, RowNames, StillFits
  <2>7. \/ s.pages = up.row.pages /\ s.card = up.row.card /\ s.status = up.row.status
        \/ s.pages = up.row.pages /\ s.card = r.card /\ s.status = r.status
        \/ s = NoRow
    BY <1>2, <2>2, <2>4, <2>5 DEF Stamped, Row, UpdaterOK, UpdaterRecords
  <2>8. Fits(s, up.kind)'
    <3>1. NoRow.pages = <<>> /\ NoRow.card = 0 /\ NoRow.status = 0
      BY DEF NoRow
    <3>2. 0 \notin Live'
      BY DEF Types, World, Ids
    <3> QED
      BY <1>3, <2>6, <2>7, <3>1, <3>2 DEF Fits
  <2> QED
    BY <1>4, <2>1, <2>3, <2>8, RowFits, WaitingFits, CommandsFit DEF AllFit
<1> QED
  BY <1>7, <1>8, <1>9, <1>10, <1>11 DEF Round

LEMMA StepFits == Types /\ AllFit /\ [Next]_vars => AllFit'
<1> SUFFICES ASSUME Types, AllFit, [Next]_vars
             PROVE  AllFit'
  OBVIOUS
<1>1. Types' /\ Lasting
  BY StepTypes, StepLasts
<1>2. CASE EventStep \/ UNCHANGED vars
  <2>1. UNCHANGED <<row, command, updater>>
    BY <1>2, EventLeaves DEF vars
  <2> QED
    BY <1>1, <2>1, RowsFit, CommandsFit, LoopsFit DEF AllFit
<1>3. CASE Restart
  <2>1. NoRow.pages = <<>> /\ NoRow.card = 0 /\ NoRow.status = 0
    BY DEF NoRow
  <2>2. 0 \notin Live'
    BY <1>1 DEF Types, World, Ids
  <2>3. (\A c \in Commands : CommandFits(command[c]))'
    BY <1>3, <2>1, <2>2 DEF Restart, NoCommand, CommandFits, Fits
  <2>4. (\A u \in Loops : Fits(updater[u].row, updater[u].kind))'
    BY <1>3, <2>1, <2>2 DEF Restart, Waiting, Fits
  <2> QED
    BY <1>1, <1>3, <2>3, <2>4, RowsFit DEF AllFit, Restart
<1>4. CASE \E c \in Commands : CommandStep(c) \/ FailCommand(c) \/ \E k \in Kinds : Post(c, k) \/ Remove(c, k)
  BY <1>1, <1>4, CommandStepFits
<1>5. CASE \E u \in Loops : Round(u) \/ FailUpdate(u) \/ SkipPage(u)
  BY <1>1, <1>5, LoopStepFits
<1> QED
  BY <1>2, <1>3, <1>4, <1>5 DEF Next, EventStep, Dates

LEMMA InitFits == Init => AllFit
<1> SUFFICES ASSUME Init
             PROVE  AllFit
  OBVIOUS
<1>1. NoRow.pages = <<>> /\ NoRow.card = 0 /\ NoRow.status = 0
  BY DEF NoRow
<1>2. 0 \notin Live
  BY DEF Init, Live
<1> QED
  BY <1>1, <1>2 DEF Init, AllFit, CommandFits, Fits, NoCommand, Waiting, Kinds

(***************************************************************************)
(* A board that no two tasks met on.  Its row names its messages, or else  *)
(* the one command at work on it knows which there are.                    *)
(***************************************************************************)
Calm(k) == k \notin met /\ ~lost

\* The ids are those of the board's messages, but for the old status messages of
\* the guild's board.
Matches(k, ids) ==
  /\ ids \subseteq LiveOf(k)
  /\ \A i \in LiveOf(k) \ ids : k = "guild" /\ messages[i].what = "status"

\* What the board has in Discord while a command is at work on it.
Own(cmd, r) == IF cmd.pc \in {"looking", "deleting"} THEN Recorded(r) ELSE Recorded(cmd)

BoardOK(k) ==
  Calm(k) =>
    /\ \A c, d \in Working(k) : c = d
    /\ Working(k) = {} \/ Updating(k) = {}
    /\ \A c \in Working(k) : /\ Matches(k, Own(command[c], row[k]))
                             /\ command[c].pc = "deleting" => command[c].row = row[k]
    /\ \A u \in Updating(k) : updater[u].row = row[k]
    /\ Working(k) = {} => Matches(k, Recorded(row[k]))

BoardsOK == \A k \in Kinds : BoardOK(k)

\* The step is none of this board's business.
Apart(k) ==
  /\ row'[k] = row[k]
  /\ LiveOf(k)' = LiveOf(k) /\ \A i \in LiveOf(k) : messages'[i] = messages[i]
  /\ \A c \in Commands : command'[c].kind = k \/ command[c].kind = k => command'[c] = command[c]
  /\ \A u \in Loops : \/ updater'[u] = updater[u]
                      \/ /\ updater[u].kind # k \/ updater[u].pc = "waiting"
                         /\ updater'[u].kind # k \/ updater'[u].pc = "waiting"
  /\ met \subseteq met' /\ lost' = lost
  /\ bare \cap LiveOf(k) \subseteq bare'

LEMMA MatchesStill ==
  ASSUME NEW k, NEW ids, Matches(k, ids),
         LiveOf(k)' = LiveOf(k), \A i \in LiveOf(k) : messages'[i].what = messages[i].what
  PROVE  Matches(k, ids)'
BY DEF Matches

\* Equal records, equal ids: a row is looked up once.
LEMMA ApartKeeps ==
  ASSUME NEW k, BoardOK(k), Apart(k)
  PROVE  BoardOK(k)'
<1> SUFFICES ASSUME Calm(k)'
             PROVE  /\ (\A c, d \in Working(k) : c = d)'
                    /\ (Working(k) = {} \/ Updating(k) = {})'
                    /\ (\A c \in Working(k) : /\ Matches(k, Own(command[c], row[k]))
                                              /\ command[c].pc = "deleting" => command[c].row = row[k])'
                    /\ (\A u \in Updating(k) : updater[u].row = row[k])'
                    /\ (Working(k) = {} => Matches(k, Recorded(row[k])))'
  BY DEF BoardOK
<1>1. Calm(k)
  BY DEF Calm, Apart
<1>2. Working(k)' = Working(k) /\ Updating(k)' = Updating(k)
  BY DEF Apart, Working, Updating
<1>3. PICK r : r = row[k]
  OBVIOUS
<1>4. row'[k] = r
  BY <1>3 DEF Apart
<1>5. PICK ids : ids = Recorded(r)
  OBVIOUS
<1>6. Recorded(row[k]) = ids /\ Recorded(row'[k]) = ids
  BY <1>3, <1>4, <1>5
<1>7. ASSUME NEW c \in Working(k)
      PROVE  /\ Matches(k, Own(command[c], row[k]))'
             /\ command'[c].pc = "deleting" => command'[c].row = row'[k]
  <2>1. PICK cmd : cmd = command[c]
    OBVIOUS
  <2>2. command'[c] = cmd
    BY <2>1 DEF Apart, Working
  <2>3. PICK own : own = Own(cmd, r)
    OBVIOUS
  <2>4. Own(command[c], row[k]) = own /\ Own(command'[c], row'[k]) = own
    BY <1>3, <1>4, <2>1, <2>2, <2>3
  <2>5. Matches(k, own)
    BY <1>1, <2>4 DEF BoardOK
  <2>6. Matches(k, own)'
    BY <2>5, MatchesStill DEF Apart
  <2>7. Matches(k, Own(command[c], row[k]))'
    BY <2>4, <2>6 DEF Matches, Own, Recorded
  <2> QED
    BY <1>1, <1>3, <1>4, <2>1, <2>2, <2>7 DEF BoardOK
<1>8. ASSUME NEW u \in Updating(k)
      PROVE  updater'[u].row = row'[k]
  BY <1>1, <1>3, <1>4 DEF Apart, Updating, BoardOK
<1>9. Working(k) = {} => Matches(k, Recorded(row[k]))'
  <2> SUFFICES ASSUME Working(k) = {}
               PROVE  Matches(k, Recorded(row[k]))'
    OBVIOUS
  <2>1. Matches(k, ids)
    BY <1>1, <1>6 DEF BoardOK
  <2>2. Matches(k, ids)'
    BY <2>1, MatchesStill DEF Apart
  <2> QED
    BY <1>6, <2>2 DEF Matches, Recorded
<1> QED
  BY <1>1, <1>2, <1>7, <1>8, <1>9 DEF BoardOK

\* A step is one task's.
LEMMA CommandDoes ==
  ASSUME NEW c \in Commands,
         CommandStep(c) \/ FailCommand(c) \/ \E k \in Kinds : Post(c, k) \/ Remove(c, k)
  PROVE  \E new : Do(c, new)
<1>1. CASE Look(c)
  BY <1>1, Zenon DEF Look
<1>2. CASE DeleteMessages(c)
  BY <1>2, Zenon DEF DeleteMessages
<1>3. CASE DropRow(c)
  BY <1>3, Zenon DEF DropRow
<1>4. CASE PostPage(c)
  BY <1>4, Zenon DEF PostPage
<1>5. CASE PostTrailers(c)
  BY <1>5, Zenon DEF PostTrailers
<1>6. CASE StoreRow(c)
  BY <1>6, Zenon DEF StoreRow
<1>7. CASE FailCommand(c)
  BY <1>7, Zenon DEF FailCommand
<1>8. CASE \E k \in Kinds : Post(c, k) \/ Remove(c, k)
  BY <1>8, Zenon DEF Post, Remove, Start, Do
<1> QED
  BY <1>1, <1>2, <1>3, <1>4, <1>5, <1>6, <1>7, <1>8 DEF CommandStep

LEMMA LoopGoes ==
  ASSUME NEW u \in Loops, Round(u)
  PROVE  \E new : Go(u, new)
<1>1. CASE GoOn(u)
  BY <1>1, Zenon DEF GoOn
<1>2. CASE ReadRow(u)
  BY <1>1, <1>2, Zenon DEF ReadRow
<1>3. CASE EditPage(u)
  BY <1>3, Zenon DEF EditPage
<1>4. CASE EditTrailers(u)
  BY <1>1, <1>4, Zenon DEF EditTrailers
<1>5. CASE Stamp(u)
  BY <1>1, <1>5, Zenon DEF Stamp
<1> QED
  BY <1>1, <1>2, <1>3, <1>4, <1>5 DEF Round

\* A command that works on one board leaves the others alone.
LEMMA CommandApart ==
  ASSUME Types, AllFit, NEW c \in Commands, ~lost',
         CommandStep(c) \/ \E k \in Kinds : Post(c, k) \/ Remove(c, k),
         NEW j \in Kinds, command[c].kind # j, command'[c].kind # j
  PROVE  Apart(j)
<1>1. PICK cmd : cmd = command[c]
  OBVIOUS
<1>2. CommandOK(cmd) /\ CommandFits(cmd)
  BY <1>1 DEF Types, CommandsOK, AllFit
<1>3. \A d \in Commands : d # c => command'[d] = command[d]
  BY CommandDoes DEF Do, Types, CommandsOK
<1>4. row'[j] = row[j]
  BY DEF CommandStep, Look, DeleteMessages, DropRow, PostPage, PostTrailers, StoreRow, Post, Remove,
     Start, Kinds
<1>5. met \subseteq met' /\ lost' = lost /\ UNCHANGED <<updater, bare>>
  BY DEF CommandStep, Look, DeleteMessages, DropRow, PostPage, PostTrailers, StoreRow, Post, Remove,
     Start, Fails, history, Types, World
<1>6. /\ \A i \in Live : messages[i].kind = j => i \in Live' /\ messages'[i] = messages[i]
      /\ \A i \in Live' : messages'[i].kind = j => i \in Live /\ messages[i].kind = j
  <2>1. CASE DeleteMessages(c)
    <3>1. PICK doomed : doomed = Doomed(cmd.kind, cmd.goal, cmd.row)
      OBVIOUS
    <3>2. messages' = Without(doomed)
      BY <1>1, <2>1, <3>1 DEF DeleteMessages, Fails
    <3>3. doomed \subseteq Recorded(cmd.row)
      BY <3>1 DEF Doomed
    <3>4. \A i \in doomed \cap Live : messages[i].kind = cmd.kind
      BY <1>2, <3>3 DEF Recorded, CommandFits, Fits, Is
    <3> QED
      BY <1>1, <3>2, <3>4 DEF Without, Live
  <2>2. CASE PostPage(c)
    <3>1. PICK page : messages' = With([i \in {posted + 1} |-> Shows("page", cmd.kind, page, cmd.over)])
      BY <1>1, <2>2 DEF PostPage
    <3> QED
      BY <1>1, <3>1 DEF With, Shows, Live
  <2>3. CASE PostTrailers(c)
    <3>1. PICK cards \in {0, 1} :
            LET card == IF cards = 0 THEN 0 ELSE posted + 1
                status == posted + cards + 1
            IN  messages' = With([i \in {card, status} \ {0} |->
                              Shows(IF i = status THEN "status" ELSE "card", cmd.kind, 0, cmd.over)])
      BY <1>1, <2>3 DEF PostTrailers
    <3> QED
      BY <1>1, <3>1 DEF With, Shows, Live
  <2>4. CASE Look(c) \/ DropRow(c) \/ StoreRow(c) \/ \E k \in Kinds : Post(c, k) \/ Remove(c, k)
    BY <2>4 DEF Look, DropRow, StoreRow, Post, Remove, Start, Live
  <2> QED
    BY <2>1, <2>2, <2>3, <2>4 DEF CommandStep
<1>7. LiveOf(j)' = LiveOf(j) /\ \A i \in LiveOf(j) : messages'[i] = messages[i]
  BY <1>6 DEF LiveOf
<1>8. \A d \in Commands : command'[d].kind = j \/ command[d].kind = j => command'[d] = command[d]
  BY <1>3
<1>9. \A u \in Loops : updater'[u] = updater[u]
  BY <1>5
<1> QED
  BY <1>4, <1>5, <1>7, <1>8, <1>9 DEF Apart

\* So does a loop.
LEMMA LoopApart ==
  ASSUME Types, AllFit, NEW u \in Loops, Round(u), ~lost', NEW j \in Kinds, updater[u].kind # j
  PROVE  Apart(j)
<1>1. PICK up : up = updater[u]
  OBVIOUS
<1>2. UpdaterOK(u, up) /\ Fits(up.row, up.kind)
  BY <1>1 DEF Types, LoopsOK, AllFit
<1>3. UNCHANGED <<command, lost>> /\ met \subseteq met'
  BY DEF Round, ReadRow, EditPage, EditTrailers, Stamp, Fails, history
<1>4. row'[j] = row[j]
  BY DEF Round, ReadRow, EditPage, EditTrailers, Stamp, Kinds
<1>5. \A v \in Loops : v # u => updater'[v] = updater[v]
  BY LoopGoes DEF Go, Types, LoopsOK
<1>6. updater'[u].kind # j \/ updater'[u].pc = "waiting"
  <2>1. CASE GoOn(u)
    BY <2>1 DEF GoOn, Go, Waiting, Types, LoopsOK
  <2>2. CASE ~GoOn(u)
    <3>1. PICK new : Go(u, new) /\ new.kind = up.kind
      <4>1. CASE ReadRow(u)
        <5>1. PICK new : new = [up EXCEPT !.row = row[up.kind], !.over = Ended(up.kind),
                                  !.total = PageCount(up.kind),
                                  !.pc = IF up.kind = "status" THEN "closing" ELSE "editing"]
          OBVIOUS
        <5>2. Go(u, new)
          BY <1>1, <2>2, <4>1, <5>1 DEF ReadRow
        <5>3. new.kind = up.kind
          BY <1>2, <5>1 DEF UpdaterOK, UpdaterRecords
        <5> QED
          BY <5>2, <5>3
      <4>2. CASE EditPage(u)
        BY <1>1, <1>2, <4>2, PageDoneOK DEF EditPage, At, Types
      <4>3. CASE EditTrailers(u)
        BY <1>1, <1>2, <2>2, <4>3 DEF EditTrailers, UpdaterOK, UpdaterRecords
      <4>4. CASE Stamp(u)
        BY <2>2, <4>4 DEF Stamp
      <4> QED
        BY <4>1, <4>2, <4>3, <4>4 DEF Round
    <3> QED
      BY <1>1, <3>1 DEF Go, Types, LoopsOK
  <2> QED
    BY <2>1, <2>2
<1>7. /\ \A i \in Live : messages[i].kind = j => i \in Live' /\ messages'[i] = messages[i]
      /\ \A i \in Live' : messages'[i].kind = j => i \in Live /\ messages[i].kind = j
  <2>1. CASE ReadRow(u)
    BY <2>1 DEF ReadRow, Live
  <2>2. CASE EditPage(u)
    <3>1. UpdaterOK(u, up) /\ up.pc = "editing" /\ up.page \in DOMAIN up.row.pages
      BY <1>1, <1>2, <2>2 DEF EditPage, At, UpdaterOK, UpdaterRecords, Row
    <3>2. PICK id : id = up.row.pages[up.page]
      OBVIOUS
    <3>3. id \in Live => messages[id].kind = up.kind
      BY <1>2, <3>1, <3>2 DEF Fits, Is
    <3>4. messages' = Edited(id, Shows("page", up.kind, up.page, up.over))
      BY <1>1, <2>2, <3>2 DEF EditPage
    <3> QED
      BY <1>1, <3>3, <3>4 DEF Edited, Shows, Live
  <2>3. CASE EditTrailers(u)
    <3>1. PICK ids : ids \subseteq {up.row.card, up.row.status} /\ messages' = Redrawn(ids, up)
      BY <1>1, <2>3, TrailersDrawn
    <3> QED
      BY <1>1, <1>2, <3>1 DEF Fits, Is, Shows, Live, Redrawn
  <2>4. CASE Stamp(u)
    <3>1. \/ up.kind = "guild" /\ messages' = Edited(up.row.status, Shows("status", "guild", 0, up.over))
          \/ messages' = messages
      BY <1>1, <2>4 DEF Stamp
    <3> QED
      BY <1>1, <1>2, <3>1 DEF Fits, Is, Shows, Edited, Live
  <2> QED
    BY <2>1, <2>2, <2>3, <2>4 DEF Round
<1>8. LiveOf(j)' = LiveOf(j) /\ \A i \in LiveOf(j) : messages'[i] = messages[i]
  BY <1>7 DEF LiveOf
<1>9. \A v \in Loops : \/ updater'[v] = updater[v]
                      \/ /\ updater[v].kind # j \/ updater[v].pc = "waiting"
                         /\ updater'[v].kind # j \/ updater'[v].pc = "waiting"
  BY <1>5, <1>6
<1>10. \A c \in Commands : command'[c] = command[c]
  BY <1>3
<1>11. bare \cap LiveOf(j) \subseteq bare'
  <2>1. CASE EditTrailers(u)
    <3>1. \A i \in {up.row.card, up.row.status} \cap Live : messages[i].kind # j
      BY <1>1, <1>2 DEF Fits, Is
    <3>2. \A i \in bare : i \in bare' \/ i \in {up.row.card, up.row.status}
      BY <1>1, <2>1 DEF EditTrailers
    <3> QED
      BY <3>1, <3>2 DEF LiveOf
  <2>2. CASE ~EditTrailers(u)
    BY <2>2 DEF Round, ReadRow, EditPage, Stamp, history
  <2> QED
    BY <2>1, <2>2
<1> QED
  BY <1>3, <1>4, <1>8, <1>9, <1>10, <1>11 DEF Apart

\* What is to show of a step of the command at work on a board: what the board
\* has is what the command, or the row it leaves, knows of.
Squares(k, new, r) ==
  /\ new.kind \in {k, "none"}
  /\ Calm(k) /\ new.kind = k =>
       Matches(k, Own(new, r))' /\ (new.pc = "deleting" => new.row = r)
  /\ Calm(k) /\ new.kind = "none" => Matches(k, Recorded(r))'

LEMMA CommandBoard ==
  ASSUME Types, BoardsOK, NEW c \in Commands, NEW k \in Kinds, command[c].kind = k,
         met' = met, lost' = lost, UNCHANGED updater,
         NEW new, Do(c, new), NEW r, row'[k] = r, Squares(k, new, r)
  PROVE  BoardOK(k)'
<1> SUFFICES ASSUME Calm(k)'
             PROVE  /\ (\A d, e \in Working(k) : d = e)'
                    /\ (Working(k) = {} \/ Updating(k) = {})'
                    /\ (\A d \in Working(k) : /\ Matches(k, Own(command[d], row[k]))
                                              /\ command[d].pc = "deleting" => command[d].row = row[k])'
                    /\ (\A u \in Updating(k) : updater[u].row = row[k])'
                    /\ (Working(k) = {} => Matches(k, Recorded(row[k])))'
  BY DEF BoardOK
<1>1. Calm(k) /\ k # "none"
  BY KindsAny DEF Calm, Types, World, AnyKind
<1>2. Working(k) = {c} /\ Updating(k) = {}
  BY <1>1 DEF BoardsOK, BoardOK, Working
<1>3. command'[c] = new /\ \A d \in Commands : d # c => command'[d] = command[d]
  BY DEF Do, Types, CommandsOK
<1>4. Working(k)' \subseteq {c} /\ Updating(k)' = {} /\ (c \in Working(k)' <=> new.kind = k)
  BY <1>2, <1>3 DEF Working, Updating, Squares
<1>5. ASSUME c \in Working(k)'
      PROVE  /\ Matches(k, Own(command[c], row[k]))'
             /\ command'[c].pc = "deleting" => command'[c].row = row'[k]
  <2>1. new.kind = k
    BY <1>4, <1>5
  <2>2. Matches(k, Own(new, r))' /\ (new.pc = "deleting" => new.row = r)
    BY <1>1, <2>1 DEF Squares
  <2> QED
    BY <1>3, <2>2 DEF Matches, Own, Recorded
<1>6. ASSUME Working(k)' = {}
      PROVE  Matches(k, Recorded(row[k]))'
  <2>1. new.kind = "none"
    BY <1>4, <1>6 DEF Squares
  <2>2. Matches(k, Recorded(r))'
    BY <1>1, <2>1 DEF Squares
  <2> QED
    BY <2>2 DEF Matches, Recorded
<1> QED
  BY <1>4, <1>5, <1>6

LEMMA NothingRecorded ==
  ASSUME NEW r, r.pages = <<>>, r.card = 0, r.status = 0
  PROVE  Recorded(r) = {}
BY DEF Recorded

LEMMA CommandKeepsBoard ==
  ASSUME Types, Types', AllFit, BoardsOK, NEW c \in Commands, CommandStep(c), lost' = lost,
         NEW k, k = command[c].kind
  PROVE  BoardOK(k)'
<1>1. PICK cmd : cmd = command[c]
  OBVIOUS
<1>2. CommandOK(cmd) /\ CommandFits(cmd) /\ cmd.pc # "idle"
  BY <1>1 DEF Types, CommandsOK, AllFit, CommandStep, Look, DeleteMessages, DropRow, PostPage,
     PostTrailers, StoreRow, Doing
<1>3. k = cmd.kind
  BY <1>1
<1>4. k \in Kinds /\ k # "none"
  BY <1>2, <1>3, KindsAny DEF CommandOK, CommandRecords, Types, World, AnyKind
<1>5. met' = met /\ lost' = lost /\ UNCHANGED updater
  BY DEF CommandStep, Look, DeleteMessages, DropRow, PostPage, PostTrailers, StoreRow, history
<1>6. PICK r : r = row[k]
  OBVIOUS
<1>7. Calm(k) => Matches(k, Own(cmd, r)) /\ (cmd.pc = "deleting" => cmd.row = r)
  BY <1>1, <1>3, <1>4, <1>6 DEF BoardsOK, BoardOK, Working
<1>8. NoCommand.kind = "none" /\ NoRow.pages = <<>> /\ NoRow.card = 0 /\ NoRow.status = 0
  BY DEF NoCommand, NoRow
<1>9. ASSUME cmd.pages = <<>>, cmd.card = 0, cmd.status = 0
      PROVE  \A new : new = Counted(cmd) =>
               /\ new.kind = k /\ new.pages = <<>> /\ new.card = 0 /\ new.status = 0
               /\ new.pc \in {"posting", "closing"}
  BY <1>2, <1>3, <1>4, <1>9, CountedOK
<1>10. \A new, s : Do(c, new) /\ row'[k] = s /\ Squares(k, new, s) => BoardOK(k)'
  <2> SUFFICES ASSUME NEW new, NEW s, Do(c, new), row'[k] = s, Squares(k, new, s)
               PROVE  BoardOK(k)'
    OBVIOUS
  <2>1. command[c].kind = k
    BY <1>1, <1>3
  <2> QED
    BY <1>4, <1>5, <2>1, CommandBoard
<1>11. CASE Look(c)
  <2>1. cmd.pc = "looking" /\ cmd.pages = <<>> /\ cmd.card = 0 /\ cmd.status = 0
    BY <1>1, <1>2, <1>11 DEF Look, Doing, CommandOK
  <2>2. UNCHANGED <<row, messages>>
    BY <1>11 DEF Look
  <2>3. \A ids : Matches(k, ids) => Matches(k, ids)'
    BY <2>2 DEF Matches, LiveOf, Live
  <2>4. Calm(k) => Matches(k, Recorded(r))'
    BY <1>7, <2>1, <2>3 DEF Own
  <2>5. CASE r # NoRow
    <3>1. PICK new : new = [cmd EXCEPT !.pc = "deleting", !.row = r]
      OBVIOUS
    <3>2. Do(c, new)
      BY <1>1, <1>3, <1>6, <1>11, <2>5, <3>1 DEF Look
    <3>3. new.kind = k /\ new.pc = "deleting" /\ new.row = r
      BY <1>2, <1>3, <3>1 DEF CommandOK, CommandRecords
    <3>4. Own(new, r) = Recorded(r)
      BY <3>3 DEF Own
    <3>5. Calm(k) => Matches(k, Own(new, r))'
      BY <2>4, <3>4 DEF Matches
    <3> QED
      BY <1>4, <1>10, <1>6, <2>2, <3>2, <3>3, <3>5 DEF Squares
  <2>6. CASE r = NoRow /\ cmd.goal = "post"
    <3>1. PICK new : new = Counted(cmd)
      OBVIOUS
    <3>2. Do(c, new)
      BY <1>1, <1>3, <1>6, <1>11, <2>6, <3>1 DEF Look
    <3>3. new.kind = k /\ new.pc \in {"posting", "closing"} /\ Recorded(new) = {} /\ Recorded(r) = {}
      BY <1>8, <1>9, <2>1, <2>6, <3>1, NothingRecorded
    <3>4. Own(new, r) = Recorded(r)
      BY <3>3 DEF Own
    <3>5. Calm(k) => Matches(k, Own(new, r))'
      BY <2>4, <3>4 DEF Matches
    <3> QED
      BY <1>4, <1>10, <1>6, <2>2, <3>2, <3>3, <3>5 DEF Squares
  <2>7. CASE r = NoRow /\ cmd.goal # "post"
    <3>1. PICK new : new = NoCommand
      OBVIOUS
    <3>2. Do(c, new) /\ new.kind = "none"
      BY <1>1, <1>3, <1>6, <1>8, <1>11, <2>7, <3>1 DEF Look
    <3> QED
      BY <1>4, <1>10, <1>6, <2>2, <2>4, <3>2 DEF Squares
  <2> QED
    BY <2>5, <2>6, <2>7
<1>12. CASE DeleteMessages(c)
  <2>1. cmd.pc = "deleting" /\ cmd.pages = <<>> /\ cmd.card = 0 /\ cmd.status = 0
    BY <1>1, <1>2, <1>12 DEF DeleteMessages, Doing, CommandOK
  <2>2. PICK doomed : doomed = Doomed(k, cmd.goal, cmd.row)
    OBVIOUS
  <2>3. Calm(k) => messages' = Without(doomed)
    BY <1>1, <1>3, <1>5, <1>12, <2>2 DEF DeleteMessages, Fails, Calm
  <2>4. Calm(k) => Matches(k, {})'
    <3> SUFFICES ASSUME Calm(k), NEW i \in Live', messages'[i].kind = k
                 PROVE  k = "guild" /\ messages'[i].what = "status"
      BY DEF Matches, LiveOf
    <3>1. i \in Live /\ i \notin doomed /\ messages'[i] = messages[i]
      BY <2>3 DEF Without, Live
    <3>2. Matches(k, Recorded(cmd.row)) /\ i \in LiveOf(k)
      BY <1>7, <2>1, <3>1 DEF Own, LiveOf
    <3>3. CASE i \notin Recorded(cmd.row)
      BY <3>1, <3>2, <3>3 DEF Matches
    <3>4. CASE i \in Recorded(cmd.row)
      <4>1. k = "guild" /\ i = cmd.row.status
        BY <2>2, <3>1, <3>4 DEF Doomed
      <4> QED
        BY <1>2, <3>1, <4>1 DEF CommandFits, Fits, Is
    <3> QED
      BY <3>3, <3>4
  <2>5. PICK dropping : dropping = [cmd EXCEPT !.row = NoRow, !.pc = "dropping"]
    OBVIOUS
  <2>6. PICK counted : counted = Counted(cmd)
    OBVIOUS
  <2>7. PICK new \in {dropping, counted} : Do(c, new)
    BY <1>1, <1>12, <2>5, <2>6 DEF DeleteMessages
  <2>8. /\ new.kind = k /\ new.pages = <<>> /\ new.card = 0 /\ new.status = 0
        /\ new.pc \in {"dropping", "posting", "closing"}
    <3>1. CASE new = dropping
      BY <1>2, <1>3, <2>1, <2>5, <3>1 DEF CommandOK, CommandRecords
    <3>2. CASE new = counted
      BY <1>9, <2>1, <2>6, <3>2
    <3> QED
      BY <3>1, <3>2
  <2>9. Own(new, r) = {}
    BY <2>8, NothingRecorded DEF Own
  <2>10. Calm(k) => Matches(k, Own(new, r))'
    BY <2>4, <2>9 DEF Matches
  <2>11. row'[k] = r
    BY <1>6, <1>12 DEF DeleteMessages
  <2> QED
    BY <1>4, <1>10, <2>7, <2>8, <2>10, <2>11 DEF Squares
<1>13. CASE DropRow(c)
  <2>1. cmd.pc = "dropping" /\ cmd.pages = <<>> /\ cmd.card = 0 /\ cmd.status = 0
    BY <1>1, <1>2, <1>13 DEF DropRow, Doing, CommandOK
  <2>2. UNCHANGED messages /\ row' = [row EXCEPT ![k] = NoRow]
    BY <1>1, <1>3, <1>13 DEF DropRow
  <2>3. Own(cmd, r) = {}
    BY <2>1, NothingRecorded DEF Own
  <2>4. Calm(k) => Matches(k, {})'
    BY <1>7, <2>2, <2>3 DEF Matches, LiveOf, Live
  <2>5. PICK counted : counted = Counted(cmd)
    OBVIOUS
  <2>6. PICK none : none = NoCommand
    OBVIOUS
  <2>7. PICK new \in {none, counted} : Do(c, new)
    BY <1>1, <1>13, <2>5, <2>6 DEF DropRow
  <2>8. PICK s : s = NoRow
    OBVIOUS
  <2>9. row'[k] = s /\ Recorded(s) = {}
    BY <1>4, <1>8, <2>2, <2>8, NothingRecorded DEF Kinds
  <2>10. CASE new = counted
    <3>1. new.kind = k /\ new.pc \in {"posting", "closing"} /\ Own(new, s) = {}
      BY <1>9, <2>1, <2>5, <2>10, NothingRecorded DEF Own
    <3>2. Calm(k) => Matches(k, Own(new, s))'
      BY <2>4, <3>1 DEF Matches
    <3> QED
      BY <1>4, <1>10, <2>7, <2>9, <3>1, <3>2 DEF Squares
  <2>11. CASE new = none
    <3>1. new.kind = "none"
      BY <1>8, <2>6, <2>11
    <3>2. Calm(k) => Matches(k, Recorded(s))'
      BY <2>4, <2>9 DEF Matches
    <3> QED
      BY <1>4, <1>10, <2>7, <2>9, <3>1, <3>2 DEF Squares
  <2> QED
    BY <2>10, <2>11
<1>14. CASE PostPage(c)
  <2>1. cmd.pc = "posting" /\ cmd.pages \in Seq(Ids) /\ posted \in Nat
    BY <1>1, <1>2, <1>14 DEF PostPage, Doing, CommandOK, CommandRecords, Types, World
  <2>2. PICK id \in Nat : id = posted + 1
    BY <2>1
  <2>3. PICK pages : pages = Append(cmd.pages, id)
    OBVIOUS
  <2>4. PICK new : new = [cmd EXCEPT !.pages = pages, !.pc = IF Len(cmd.pages) + 1 = cmd.total THEN "closing" ELSE cmd.pc]
    OBVIOUS
  <2>5. /\ Do(c, new) /\ UNCHANGED row
        /\ messages' = With([i \in {id} |-> Shows("page", k, Len(cmd.pages) + 1, cmd.over)])
    BY <1>1, <1>3, <1>14, <2>2, <2>3, <2>4 DEF PostPage
  <2>6. /\ new.kind = k /\ new.pages = pages /\ new.card = cmd.card /\ new.status = cmd.status
        /\ new.pc \in {"posting", "closing"}
    BY <1>2, <1>3, <2>1, <2>4 DEF CommandOK, CommandRecords
  <2>7. id \notin Live /\ id # 0
    BY <2>1, <2>2 DEF Types, World, Ids
  <2>8. {pages[i] : i \in DOMAIN pages} = {cmd.pages[i] : i \in DOMAIN cmd.pages} \cup {id}
    <3>1. cmd.pages \in Seq(Nat) /\ Len(cmd.pages) \in Nat /\ DOMAIN cmd.pages = 1..Len(cmd.pages)
      BY <2>1 DEF Ids
    <3>2. /\ Len(pages) = Len(cmd.pages) + 1 /\ pages \in Seq(Nat)
          /\ \A i \in 1..Len(cmd.pages) : pages[i] = cmd.pages[i]
          /\ pages[Len(cmd.pages) + 1] = id
      BY <2>2, <2>3, <3>1, AppendProperties
    <3>3. DOMAIN pages = 1..(Len(cmd.pages) + 1)
      BY <3>2
    <3>4. 1..(Len(cmd.pages) + 1) = 1..Len(cmd.pages) \cup {Len(cmd.pages) + 1}
      BY <3>1
    <3>5. \A i \in DOMAIN pages : pages[i] \in {cmd.pages[j] : j \in DOMAIN cmd.pages} \cup {id}
      BY <3>1, <3>2, <3>3, <3>4, Zenon
    <3>6. \A i \in DOMAIN cmd.pages : cmd.pages[i] \in {pages[j] : j \in DOMAIN pages}
      BY <3>1, <3>2, <3>3, <3>4, Zenon
    <3>7. id \in {pages[j] : j \in DOMAIN pages}
      BY <3>2, <3>3, <3>4, Zenon
    <3> QED
      BY <3>5, <3>6, <3>7, Zenon
  <2>9. Own(new, r) = Own(cmd, r) \cup {id}
    BY <2>1, <2>6, <2>7, <2>8 DEF Own, Recorded
  <2>10. LiveOf(k)' = LiveOf(k) \cup {id} /\ \A i \in LiveOf(k) : messages'[i] = messages[i]
    BY <2>5, <2>7 DEF With, Shows, LiveOf, Live
  <2>11. Calm(k) => Matches(k, Own(new, r))'
    BY <1>7, <2>9, <2>10 DEF Matches
  <2> QED
    BY <1>4, <1>10, <1>6, <2>5, <2>6, <2>11 DEF Squares
<1>15. CASE PostTrailers(c)
  <2>1. cmd.pc = "closing" /\ cmd.card = 0 /\ cmd.status = 0 /\ posted \in Nat
    BY <1>1, <1>2, <1>15 DEF PostTrailers, Doing, CommandOK, Types, World
  <2>2. PICK cards \in {0, 1} :
          LET card == IF cards = 0 THEN 0 ELSE posted + 1
              status == posted + cards + 1
          IN  /\ messages' = With([i \in {card, status} \ {0} |->
                                Shows(IF i = status THEN "status" ELSE "card", k, 0, cmd.over)])
              /\ Do(c, [cmd EXCEPT !.pc = "storing", !.card = card, !.status = status])
    BY <1>1, <1>3, <1>15 DEF PostTrailers
  <2>3. PICK card : card = IF cards = 0 THEN 0 ELSE posted + 1
    OBVIOUS
  <2>4. PICK status : status = posted + cards + 1
    OBVIOUS
  <2>5. PICK new : new = [cmd EXCEPT !.pc = "storing", !.card = card, !.status = status]
    OBVIOUS
  <2>6. PICK ids : ids = {card, status} \ {0}
    OBVIOUS
  <2>7. /\ Do(c, new) /\ UNCHANGED row
        /\ messages' = With([i \in ids |-> Shows(IF i = status THEN "status" ELSE "card", k, 0, cmd.over)])
    BY <1>15, <2>2, <2>3, <2>4, <2>5, <2>6 DEF PostTrailers
  <2>8. /\ new.kind = k /\ new.pages = cmd.pages /\ new.card = card /\ new.status = status
        /\ new.pc = "storing"
    BY <1>2, <1>3, <2>5 DEF CommandOK, CommandRecords
  <2>9. ids \cap Live = {}
    BY <2>1, <2>3, <2>4, <2>6 DEF Types, World, Ids
  <2>10. Own(new, r) = Own(cmd, r) \cup ids
    BY <2>1, <2>6, <2>8 DEF Own, Recorded
  <2>11. LiveOf(k)' = LiveOf(k) \cup ids /\ \A i \in LiveOf(k) : messages'[i] = messages[i]
    BY <2>7, <2>9 DEF With, Shows, LiveOf, Live
  <2>12. Calm(k) => Matches(k, Own(new, r))'
    BY <1>7, <2>10, <2>11 DEF Matches
  <2> QED
    BY <1>4, <1>10, <1>6, <2>7, <2>8, <2>12 DEF Squares
<1>16. CASE StoreRow(c)
  <2>1. cmd.pc = "storing"
    BY <1>1, <1>16 DEF StoreRow, Doing
  <2>2. PICK s : s = [pages |-> cmd.pages, card |-> cmd.card, status |-> cmd.status, last |-> clock]
    OBVIOUS
  <2>3. PICK none : none = NoCommand
    OBVIOUS
  <2>4. row'[k] = s /\ UNCHANGED messages /\ Do(c, none) /\ none.kind = "none"
    BY <1>1, <1>3, <1>4, <1>8, <1>16, <2>2, <2>3 DEF StoreRow, Kinds
  <2>5. Recorded(s) = Own(cmd, r)
    BY <2>1, <2>2 DEF Recorded, Own
  <2>6. Calm(k) => Matches(k, Recorded(s))'
    BY <1>7, <2>4, <2>5 DEF Matches, LiveOf, Live
  <2> QED
    BY <1>4, <1>10, <2>4, <2>6 DEF Squares
<1> QED
  BY <1>11, <1>12, <1>13, <1>14, <1>15, <1>16 DEF CommandStep

LEMMA StartKeepsBoard ==
  ASSUME Types, BoardsOK, NEW c \in Commands, NEW k \in Kinds, NEW goal, Start(c, k, goal)
  PROVE  BoardOK(k)'
<1> SUFFICES ASSUME Calm(k)'
             PROVE  /\ (\A d, e \in Working(k) : d = e)'
                    /\ (Working(k) = {} \/ Updating(k) = {})'
                    /\ (\A d \in Working(k) : /\ Matches(k, Own(command[d], row[k]))
                                              /\ command[d].pc = "deleting" => command[d].row = row[k])'
                    /\ (\A u \in Updating(k) : updater[u].row = row[k])'
                    /\ (Working(k) = {} => Matches(k, Recorded(row[k])))'
  BY DEF BoardOK
<1>1. Calm(k) /\ Working(k) = {} /\ Updating(k) = {}
  BY DEF Start, Calm
<1>2. PICK new : new = [NoCommand EXCEPT !.pc = "looking", !.kind = k, !.goal = goal, !.over = Ended(k)]
  OBVIOUS
<1>3. new.pc = "looking" /\ new.kind = k
  BY <1>2 DEF NoCommand
<1>4. command'[c] = new /\ \A d \in Commands : d # c => command'[d] = command[d]
  BY <1>2 DEF Start, Types, CommandsOK
<1>5. UNCHANGED <<row, messages, updater>>
  BY DEF Start
<1>6. Working(k)' = {c} /\ Updating(k)' = {}
  BY <1>1, <1>3, <1>4, <1>5 DEF Working, Updating
<1>7. PICK r : r = row[k]
  OBVIOUS
<1>8. Matches(k, Recorded(r))
  BY <1>1, <1>7 DEF BoardsOK, BoardOK
<1>9. Matches(k, Recorded(r))'
  BY <1>5, <1>8 DEF Matches, LiveOf, Live
<1>10. Own(new, r) = Recorded(r)
  BY <1>3 DEF Own
<1>11. Matches(k, Own(command[c], row[k]))'
  <2>1. PICK own : own = Own(new, r)
    OBVIOUS
  <2>2. Matches(k, own)'
    BY <1>9, <1>10, <2>1 DEF Matches, Recorded
  <2>3. command'[c] = new /\ row'[k] = r
    BY <1>4, <1>5, <1>7
  <2> QED
    BY <2>1, <2>2, <2>3 DEF Matches, Own, Recorded
<1> QED
  BY <1>3, <1>4, <1>6, <1>11

\* What is to show of a step of a loop: the messages keep their places, and the
\* row goes on naming the same ones.
LEMMA LoopBoard ==
  ASSUME BoardsOK, NEW k \in Kinds, UNCHANGED command, met \subseteq met', lost' = lost,
         Lasting, Live' = Live, Live \subseteq Ids,
         NEW s, row'[k] = s,
         Calm(k)' => /\ Recorded(s) = Recorded(row[k]) /\ (s = row[k] \/ Working(k) = {})
                     /\ \A v \in Updating(k)' : updater'[v].row = s /\ Working(k) = {}
  PROVE  BoardOK(k)'
<1> SUFFICES ASSUME Calm(k)'
             PROVE  /\ (\A d, e \in Working(k) : d = e)'
                    /\ (Working(k) = {} \/ Updating(k) = {})'
                    /\ (\A d \in Working(k) : /\ Matches(k, Own(command[d], row[k]))
                                              /\ command[d].pc = "deleting" => command[d].row = row[k])'
                    /\ (\A u \in Updating(k) : updater[u].row = row[k])'
                    /\ (Working(k) = {} => Matches(k, Recorded(row[k])))'
  BY DEF BoardOK
<1>1. Calm(k)
  BY DEF Calm
<1>2. Working(k)' = Working(k)
  BY DEF Working
<1>3. LiveOf(k)' = LiveOf(k) /\ \A i \in LiveOf(k) : messages'[i].what = messages[i].what
  BY DEF Lasting, SamePlace, LiveOf
<1>4. PICK r : r = row[k]
  OBVIOUS
<1>5. ASSUME NEW d \in Working(k)
      PROVE  /\ Matches(k, Own(command[d], row[k]))'
             /\ command'[d].pc = "deleting" => command'[d].row = row'[k]
  <2>1. s = r
    BY <1>4, <1>5
  <2>2. PICK cmd : cmd = command[d]
    OBVIOUS
  <2>3. PICK own : own = Own(cmd, s)
    OBVIOUS
  <2>4. Matches(k, own) /\ (cmd.pc = "deleting" => cmd.row = s)
    BY <1>1, <1>4, <1>5, <2>1, <2>2, <2>3 DEF BoardsOK, BoardOK
  <2>5. Matches(k, own)'
    BY <1>3, <2>4, MatchesStill
  <2>6. command'[d] = cmd /\ row'[k] = s
    BY <2>2
  <2> QED
    BY <2>3, <2>4, <2>5, <2>6 DEF Matches, Own, Recorded
<1>6. ASSUME Working(k) = {}
      PROVE  Matches(k, Recorded(row[k]))'
  <2>1. PICK ids : ids = Recorded(s)
    OBVIOUS
  <2>2. Matches(k, ids)
    BY <1>1, <1>6, <2>1 DEF BoardsOK, BoardOK
  <2>3. Matches(k, ids)'
    BY <1>3, <2>2, MatchesStill
  <2> QED
    BY <2>1, <2>3 DEF Matches, Recorded
<1>7. (\A d, e \in Working(k) : d = e)'
  BY <1>1, <1>2 DEF BoardsOK, BoardOK
<1> QED
  BY <1>2, <1>5, <1>6, <1>7

LEMMA LoopKeepsBoard ==
  ASSUME Types, AllFit, BoardsOK, NEW u \in Loops, Round(u), ~lost', NEW k, k = updater[u].kind
  PROVE  BoardOK(k)'
<1>1. PICK up : up = updater[u]
  OBVIOUS
<1>2. UpdaterOK(u, up) /\ up.kind = k
  BY <1>1 DEF Types, LoopsOK
<1>3. k \in Kinds
  BY <1>1, <1>2 DEF Round, ReadRow, EditPage, EditTrailers, Stamp, At, UpdaterOK
<1>4. UNCHANGED command /\ met \subseteq met' /\ lost' = lost
  BY DEF Round, ReadRow, EditPage, EditTrailers, Stamp, Fails, history, Types, World
<1>5. Lasting /\ Live' = Live /\ Live \subseteq Ids
  <2>1. ReadRow(u) => Lasting /\ Live' = Live
    BY DEF ReadRow, Lasting, SamePlace, Live
  <2>2. Live \subseteq Ids
    BY DEF Types, World
  <2> QED
    BY <2>1, <2>2, EditLasts, TrailersLast DEF Round
<1>6. ASSUME NEW v \in Loops, v # u
      PROVE  updater'[v] = updater[v] /\ updater[v].kind # k
  BY <1>2, <1>6, LoopGoes DEF Go, Types, LoopsOK, UpdaterOK, Loops
<1>7. GoOn(u) => u \notin Updating(k)'
  BY DEF GoOn, Go, Waiting, Updating, Types, LoopsOK
<1>8. Updating(k)' \subseteq {u}
  BY <1>6 DEF Updating
<1>9. PICK r : r = row[k]
  OBVIOUS
<1>10. Calm(k)' => Calm(k)
  BY <1>4 DEF Calm
<1>11. CASE ReadRow(u)
  <2>1. row'[k] = r /\ UNCHANGED row
    BY <1>9, <1>11 DEF ReadRow
  <2>2. CASE GoOn(u)
    BY <1>3, <1>4, <1>5, <1>7, <1>8, <1>9, <2>1, <2>2, LoopBoard
  <2>3. CASE ~GoOn(u)
    <3>1. PICK new : new = [up EXCEPT !.row = r, !.over = Ended(k), !.total = PageCount(k),
                                      !.pc = IF k = "status" THEN "closing" ELSE "editing"]
      OBVIOUS
    <3>2. Go(u, new) /\ (Working(k) # {} => k \in met')
      BY <1>1, <1>2, <1>9, <1>11, <2>3, <3>1 DEF ReadRow
    <3>3. new.row = r
      BY <1>2, <3>1 DEF UpdaterOK, UpdaterRecords
    <3>4. updater'[u] = new
      BY <3>2 DEF Go, Types, LoopsOK
    <3>5. Calm(k)' => \A v \in Updating(k)' : updater'[v].row = r /\ Working(k) = {}
      BY <1>8, <3>2, <3>3, <3>4 DEF Calm
    <3> QED
      BY <1>3, <1>4, <1>5, <1>9, <2>1, <3>5, LoopBoard
  <2> QED
    BY <2>2, <2>3
<1>12. CASE ~ReadRow(u)
  <2>1. u \in Updating(k)
    BY <1>1, <1>2, <1>12 DEF Round, EditPage, EditTrailers, Stamp, At, Updating
  <2>2. Calm(k) => up.row = r /\ Working(k) = {}
    BY <1>1, <1>3, <1>9, <2>1 DEF BoardsOK, BoardOK
  <2>3. CASE EditPage(u) \/ EditTrailers(u)
    <3>1. row'[k] = r
      BY <1>9, <2>3 DEF EditPage, EditTrailers
    <3>2. CASE GoOn(u)
      BY <1>3, <1>4, <1>5, <1>7, <1>8, <1>9, <3>1, <3>2, LoopBoard
    <3>3. CASE ~GoOn(u)
      <4>1. PICK new : Go(u, new) /\ new.row = up.row
        <5>1. CASE EditPage(u)
          BY <1>1, <1>2, <5>1, PageDoneOK DEF EditPage, At, Types
        <5>2. CASE EditTrailers(u)
          <6>1. PICK new : new = [up EXCEPT !.pc = "stamping"]
            OBVIOUS
          <6>2. Go(u, new)
            BY <1>1, <3>3, <5>2, <6>1 DEF EditTrailers
          <6> QED
            BY <1>2, <6>1, <6>2 DEF UpdaterOK, UpdaterRecords
        <5> QED
          BY <2>3, <5>1, <5>2
      <4>2. updater'[u] = new
        BY <4>1 DEF Go, Types, LoopsOK
      <4>3. Calm(k)' => \A v \in Updating(k)' : updater'[v].row = r /\ Working(k) = {}
        BY <1>8, <1>10, <2>2, <4>1, <4>2
      <4> QED
        BY <1>3, <1>4, <1>5, <1>9, <3>1, <4>3, LoopBoard
    <3> QED
      BY <3>2, <3>3
  <2>4. CASE Stamp(u)
    <3>1. PICK s : s = Stamped(k, up.row)
      OBVIOUS
    <3>2. row'[k] = s /\ GoOn(u)
      BY <1>1, <1>2, <1>3, <2>4, <3>1 DEF Stamp, Kinds
    <3>3. up.row # NoRow /\ up.row \in Row
      BY <1>1, <1>2, <2>4 DEF Stamp, At, UpdaterOK, UpdaterRecords
    <3>4. up.row = r => s.pages = r.pages /\ s.card = r.card /\ s.status = r.status
      BY <1>9, <3>1, <3>3 DEF Stamped, Row
    <3>5. up.row = r => Recorded(s) = Recorded(r)
      BY <3>4 DEF Recorded
    <3>6. Calm(k)' => /\ Recorded(s) = Recorded(row[k]) /\ (s = row[k] \/ Working(k) = {})
                      /\ \A v \in Updating(k)' : updater'[v].row = s /\ Working(k) = {}
      BY <1>7, <1>8, <1>9, <1>10, <2>2, <3>2, <3>5
    <3> QED
      BY <1>3, <1>4, <1>5, <3>2, <3>6, LoopBoard
  <2> QED
    BY <1>12, <2>3, <2>4 DEF Round
<1> QED
  BY <1>11, <1>12

LEMMA KindsStay ==
  ASSUME [Next]_vars
  PROVE  Kinds' = Kinds
<1>1. row' = row \/ \E k, r : row' = [row EXCEPT ![k] = r]
  <2>1. CASE EventStep \/ Restart \/ UNCHANGED vars
    BY <2>1, EventLeaves DEF Restart, vars
  <2>2. CASE \E c \in Commands : CommandStep(c) \/ FailCommand(c) \/ \E k \in Kinds : Post(c, k) \/ Remove(c, k)
    <3>1. PICK c \in Commands : CommandStep(c) \/ FailCommand(c) \/ \E k \in Kinds : Post(c, k) \/ Remove(c, k)
      BY <2>2
    <3>2. CASE DropRow(c) \/ StoreRow(c)
      BY <3>2, Zenon DEF DropRow, StoreRow
    <3> QED
      BY <3>1, <3>2 DEF CommandStep, Look, DeleteMessages, PostPage, PostTrailers, FailCommand,
         Post, Remove, Start
  <2>3. CASE \E u \in Loops : Round(u) \/ FailUpdate(u) \/ SkipPage(u)
    <3>1. PICK u \in Loops : Round(u) \/ FailUpdate(u) \/ SkipPage(u)
      BY <2>3
    <3>2. CASE Stamp(u)
      BY <3>2, Zenon DEF Stamp
    <3> QED
      BY <3>1, <3>2 DEF Round, ReadRow, EditPage, EditTrailers, FailUpdate, SkipPage
  <2> QED
    BY <2>1, <2>2, <2>3 DEF Next, EventStep, Dates
<1> QED
  BY <1>1 DEF Kinds

\* A command works on one board, for the event as it found it, until it is done.
LEMMA CommandStays ==
  ASSUME Types, NEW c \in Commands, CommandStep(c)
  PROVE  /\ command'[c].kind \in {command[c].kind, "none"}
         /\ command'[c].kind = "none" => ~command'[c].over
         /\ command'[c].kind # "none" => command'[c].over = command[c].over
<1>1. PICK cmd : cmd = command[c]
  OBVIOUS
<1>2. CommandOK(cmd)
  BY <1>1 DEF Types, CommandsOK
<1>3. PICK new : Do(c, new)
  BY CommandDoes
<1>4. command'[c] = new
  BY <1>3 DEF Do, Types, CommandsOK
<1>5. NoCommand.kind = "none" /\ NoCommand.over = FALSE /\ cmd.kind # "none"
  BY <1>1, <1>2 DEF CommandStep, Look, DeleteMessages, DropRow, PostPage, PostTrailers, StoreRow, Doing,
     CommandOK, NoCommand
<1>6. ASSUME cmd.pc \in {"looking", "deleting", "dropping"}
      PROVE  Counted(cmd).kind = cmd.kind /\ Counted(cmd).over = cmd.over
  BY <1>2, <1>6 DEF Counted, CommandOK, CommandRecords
<1>7. CASE Look(c)
  <2>1. cmd.pc = "looking"
    BY <1>1, <1>7 DEF Look, Doing
  <2>2. PICK found : found = [cmd EXCEPT !.pc = "deleting", !.row = row[cmd.kind]]
    OBVIOUS
  <2>3. found.kind = cmd.kind /\ found.over = cmd.over
    BY <1>2, <2>2 DEF CommandOK, CommandRecords
  <2>4. \E s \in {found, Counted(cmd), NoCommand} : Do(c, s)
    BY <1>1, <1>7, <2>2 DEF Look
  <2> QED
    BY <1>1, <1>5, <1>6, <2>1, <2>3, <2>4 DEF Do, Types, CommandsOK
<1>8. CASE DeleteMessages(c)
  <2>1. cmd.pc = "deleting"
    BY <1>1, <1>8 DEF DeleteMessages, Doing
  <2>2. PICK dropping : dropping = [cmd EXCEPT !.row = NoRow, !.pc = "dropping"]
    OBVIOUS
  <2>3. dropping.kind = cmd.kind /\ dropping.over = cmd.over
    BY <1>2, <2>2 DEF CommandOK, CommandRecords
  <2>4. \E s \in {dropping, Counted(cmd)} : Do(c, s)
    BY <1>1, <1>8, <2>2 DEF DeleteMessages
  <2> QED
    BY <1>1, <1>5, <1>6, <2>1, <2>3, <2>4 DEF Do, Types, CommandsOK
<1>9. CASE DropRow(c)
  <2>1. cmd.pc = "dropping" /\ \E s \in {NoCommand, Counted(cmd)} : Do(c, s)
    BY <1>1, <1>9 DEF DropRow, Doing
  <2> QED
    BY <1>1, <1>5, <1>6, <2>1 DEF Do, Types, CommandsOK
<1>10. CASE PostPage(c) \/ PostTrailers(c)
  <2>1. PICK s : Do(c, s) /\ s.kind = cmd.kind /\ s.over = cmd.over
    <3>1. CASE PostPage(c)
      <4>1. PICK s : s = [cmd EXCEPT !.pages = Append(@, posted + 1),
                                     !.pc = IF Len(cmd.pages) + 1 = cmd.total THEN "closing" ELSE @]
        OBVIOUS
      <4>2. Do(c, s)
        BY <1>1, <3>1, <4>1 DEF PostPage
      <4>3. s.kind = cmd.kind /\ s.over = cmd.over
        BY <1>2, <4>1 DEF CommandOK, CommandRecords
      <4> QED
        BY <4>2, <4>3
    <3>2. CASE PostTrailers(c)
      <4>1. PICK card, status : Do(c, [cmd EXCEPT !.pc = "storing", !.card = card, !.status = status])
        BY <1>1, <3>2, Zenon DEF PostTrailers
      <4>2. PICK s : s = [cmd EXCEPT !.pc = "storing", !.card = card, !.status = status]
        OBVIOUS
      <4>3. s.kind = cmd.kind /\ s.over = cmd.over
        BY <1>2, <4>2 DEF CommandOK, CommandRecords
      <4> QED
        BY <4>1, <4>2, <4>3
    <3> QED
      BY <1>10, <3>1, <3>2
  <2> QED
    BY <1>1, <1>5, <2>1 DEF Do, Types, CommandsOK
<1>11. CASE StoreRow(c)
  BY <1>5, <1>11 DEF StoreRow, Do, Types, CommandsOK
<1> QED
  BY <1>7, <1>8, <1>9, <1>10, <1>11 DEF CommandStep

LEMMA StepBoards == Types /\ AllFit /\ BoardsOK /\ [Next]_vars => BoardsOK'
<1> SUFFICES ASSUME Types, AllFit, BoardsOK, [Next]_vars
             PROVE  BoardsOK'
  OBVIOUS
<1> SUFFICES ASSUME NEW k \in Kinds
             PROVE  BoardOK(k)'
  BY KindsStay DEF BoardsOK
<1>1. Types'
  BY StepTypes
<1>2. BoardOK(k)
  BY DEF BoardsOK
<1>3. CASE lost'
  BY <1>3 DEF BoardOK, Calm
<1>4. CASE EventStep \/ UNCHANGED vars
  <2>1. UNCHANGED <<row, messages, command, updater, met, lost, bare>>
    BY <1>4, EventLeaves DEF vars, history
  <2>2. Apart(k)
    BY <2>1 DEF Apart, LiveOf, Live
  <2> QED
    BY <1>2, <2>2, ApartKeeps
<1>5. CASE ~lost' /\ \E c \in Commands : CommandStep(c)
  <2>1. PICK c \in Commands : CommandStep(c)
    BY <1>5
  <2>2. lost' = lost
    BY <1>5, <2>1 DEF CommandStep, Look, DeleteMessages, DropRow, PostPage, PostTrailers, StoreRow,
       Fails, history
  <2>3. CASE command[c].kind = k
    BY <1>1, <2>1, <2>2, <2>3, CommandKeepsBoard
  <2>4. CASE command[c].kind # k
    <3>1. command'[c].kind \in {command[c].kind, "none"}
      BY <2>1, CommandStays
    <3>2. command'[c].kind # k
      BY <2>4, <3>1, KindsAny DEF Types, World, AnyKind
    <3> QED
      BY <1>2, <1>5, <2>1, <2>4, <3>2, CommandApart, ApartKeeps
  <2> QED
    BY <2>3, <2>4
<1>6. CASE ~lost' /\ \E c \in Commands : \E j \in Kinds : Post(c, j) \/ Remove(c, j)
  <2>1. PICK c \in Commands, j \in Kinds, goal \in {"post", "remove"} : Start(c, j, goal) /\ (Post(c, j) \/ Remove(c, j))
    BY <1>6 DEF Post, Remove
  <2>2. CASE j = k
    BY <2>1, <2>2, StartKeepsBoard
  <2>3. CASE j # k
    <3>1. command[c].kind # k
      <4>1. command[c].kind = "none"
        BY <2>1 DEF Start, Types, CommandsOK, CommandOK
      <4> QED
        BY <4>1, KindsAny DEF Types, World, AnyKind
    <3>2. command'[c].kind # k
      BY <2>1, <2>3 DEF Start, Types, CommandsOK, NoCommand
    <3> QED
      BY <1>2, <1>6, <2>1, <3>1, <3>2, CommandApart, ApartKeeps
  <2> QED
    BY <2>2, <2>3
<1>7. CASE ~lost' /\ \E u \in Loops : Round(u)
  <2>1. PICK u \in Loops : Round(u)
    BY <1>7
  <2>2. CASE updater[u].kind = k
    BY <1>7, <2>1, <2>2, LoopKeepsBoard
  <2>3. CASE updater[u].kind # k
    BY <1>2, <1>7, <2>1, <2>3, LoopApart, ApartKeeps
  <2> QED
    BY <2>2, <2>3
<1>8. (\E c \in Commands : FailCommand(c)) \/ (\E u \in Loops : FailUpdate(u) \/ SkipPage(u)) \/ Restart => lost'
  BY DEF FailCommand, FailUpdate, SkipPage, Restart, Fails
<1> QED
  BY <1>3, <1>4, <1>5, <1>6, <1>7, <1>8 DEF Next, EventStep, Dates

LEMMA InitBoards == Init => BoardsOK
<1> SUFFICES ASSUME Init, NEW k \in Kinds
             PROVE  BoardOK(k)
  BY DEF BoardsOK
<1>1. row[k] = NoRow /\ Recorded(NoRow) = {}
  BY NothingRecorded DEF Init, Kinds, NoRow
<1>2. Working(k) = {}
  <2>1. k # "none"
    BY InitTypes, KindsAny DEF Types, AnyKind
  <2> QED
    BY <2>1 DEF Init, Working, NoCommand
<1>3. Updating(k) = {}
  BY DEF Init, Updating, Waiting
<1>4. LiveOf(k) = {}
  BY DEF Init, LiveOf, Live
<1> QED
  BY <1>1, <1>2, <1>3, <1>4 DEF BoardOK, Matches

LEMMA BoardsPosted == BoardsOK => PostedIsRecorded
BY DEF BoardsOK, BoardOK, PostedIsRecorded, Quiet, Calm, Matches

(***************************************************************************)
(* How many players a message was rendered from.                           *)
(***************************************************************************)
Counts == \A i \in Live : messages[i].n \in Nat

LEMMA StepCounts == Types /\ Counts /\ [Next]_vars => Counts'
<1> SUFFICES ASSUME Types, Counts, [Next]_vars
             PROVE  Counts'
  OBVIOUS
<1>1. players \in Nat
  BY BoundsAssumption DEF Types, World
<1>2. UNCHANGED messages => Counts'
  BY DEF Counts, Live
<1>3. \A what, k, page, over : Shows(what, k, page, over).n \in Nat
  BY <1>1 DEF Shows
<1>4. CASE EventStep \/ Restart \/ UNCHANGED vars
  BY <1>2, <1>4, EventLeaves DEF Restart, vars
<1>5. CASE \E c \in Commands : CommandStep(c) \/ FailCommand(c) \/ \E k \in Kinds : Post(c, k) \/ Remove(c, k)
  <2>1. PICK c \in Commands : CommandStep(c) \/ FailCommand(c) \/ \E k \in Kinds : Post(c, k) \/ Remove(c, k)
    BY <1>5
  <2>2. CASE DeleteMessages(c)
    BY <2>2 DEF DeleteMessages, Without, Live, Counts
  <2>3. CASE PostPage(c)
    BY <1>1, <2>3 DEF PostPage, With, Shows, Live, Counts
  <2>4. CASE PostTrailers(c)
    <3>1. PICK cards \in {0, 1} :
            LET card == IF cards = 0 THEN 0 ELSE posted + 1
                status == posted + cards + 1
            IN  messages' = With([i \in {card, status} \ {0} |->
                              Shows(IF i = status THEN "status" ELSE "card", command[c].kind, 0, command[c].over)])
      BY <2>4 DEF PostTrailers
    <3> QED
      BY <1>1, <3>1 DEF With, Shows, Live, Counts
  <2>5. CASE Look(c) \/ DropRow(c) \/ StoreRow(c) \/ FailCommand(c)
             \/ \E k \in Kinds : Post(c, k) \/ Remove(c, k)
    BY <1>2, <2>5 DEF Look, DropRow, StoreRow, FailCommand, Post, Remove, Start
  <2> QED
    BY <2>1, <2>2, <2>3, <2>4, <2>5 DEF CommandStep
<1>6. CASE \E u \in Loops : Round(u) \/ FailUpdate(u) \/ SkipPage(u)
  <2>1. PICK u \in Loops : Round(u) \/ FailUpdate(u) \/ SkipPage(u)
    BY <1>6
  <2>2. CASE EditPage(u)
    BY <1>1, <2>2 DEF EditPage, Edited, Shows, Live, Counts
  <2>3. CASE EditTrailers(u)
    <3>1. PICK ids : messages' = Redrawn(ids, updater[u])
      BY <2>3, TrailersDrawn
    <3> QED
      BY <1>1, <3>1 DEF Redrawn, Shows, Live, Counts
  <2>4. CASE Stamp(u)
    BY <1>1, <2>4 DEF Stamp, Edited, Shows, Live, Counts
  <2>5. CASE ReadRow(u) \/ FailUpdate(u) \/ SkipPage(u)
    BY <1>2, <2>5 DEF ReadRow, FailUpdate, SkipPage
  <2> QED
    BY <2>1, <2>2, <2>3, <2>4, <2>5 DEF Round
<1> QED
  BY <1>4, <1>5, <1>6 DEF Next, EventStep, Dates

(***************************************************************************)
(* The pages share the ranks out.                                          *)
(***************************************************************************)
LEMMA ProductMonotone ==
  ASSUME NEW a \in Nat, NEW b \in Nat, a <= b, NEW c \in Nat
  PROVE  a * c <= b * c /\ a * c \in Nat
<1>1. PICK d \in Nat : b = a + d
  <2>1. b - a \in Nat /\ b = a + (b - a)
    OBVIOUS
  <2> QED
    BY <2>1
<1>2. (a + d) * c = a * c + d * c /\ d * c \in Nat /\ a * c \in Nat
  OBVIOUS
<1> QED
  BY <1>1, <1>2

\* Full pages: page i has the ranks after the first i - 1 pages, up to the last.
Chunk(i, n) == ((i - 1) * PageSize + 1)..Lesser(i * PageSize, n)

LEMMA ChunksApart ==
  ASSUME NEW i \in Nat \ {0}, NEW j \in Nat \ {0}, i # j, NEW n \in Nat
  PROVE  Chunk(i, n) \cap Chunk(j, n) = {}
<1>1. ASSUME NEW a \in Nat \ {0}, NEW b \in Nat \ {0}, a < b
      PROVE  Chunk(a, n) \cap Chunk(b, n) = {}
  <2>1. PageSize \in Nat /\ a <= b - 1 /\ b - 1 \in Nat /\ a \in Nat
    BY <1>1, PageAssumption
  <2>2. PICK low \in Nat : low = (b - 1) * PageSize
    BY <2>1, ProductMonotone
  <2>3. PICK high \in Nat : high = a * PageSize
    BY <2>1, ProductMonotone
  <2>4. high <= low
    BY <2>1, <2>2, <2>3, ProductMonotone
  <2>5. PICK bottom : bottom = (a - 1) * PageSize + 1
    OBVIOUS
  <2>6. PICK top : top = Lesser(b * PageSize, n)
    OBVIOUS
  <2>7. Chunk(a, n) = bottom..Lesser(high, n) /\ Chunk(b, n) = (low + 1)..top
    BY <2>2, <2>3, <2>5, <2>6 DEF Chunk
  <2>8. Lesser(high, n) <= high /\ Lesser(high, n) \in Nat
    BY DEF Lesser
  <2> QED
    BY <2>4, <2>7, <2>8
<1>2. i < j \/ j < i
  OBVIOUS
<1> QED
  BY <1>1, <1>2

LEMMA ChunksTogether ==
  ASSUME NEW l \in Nat \ {0}, NEW n \in Nat
  PROVE  UNION {Chunk(i, n) : i \in 1..l} = 1..Lesser(n, l * PageSize)
<1>1. PageSize \in Nat /\ PageSize > 0
  BY PageAssumption
<1>2. PICK all \in Nat : all = l * PageSize
  BY <1>1, ProductMonotone
<1>3. ASSUME NEW i \in 1..l, NEW x \in Chunk(i, n)
      PROVE  x \in 1..Lesser(n, l * PageSize)
  <2>1. PICK low \in Nat : low = (i - 1) * PageSize
    BY <1>1, ProductMonotone
  <2>2. PICK high \in Nat : high = i * PageSize /\ high <= all
    BY <1>1, <1>2, ProductMonotone
  <2>3. x \in (low + 1)..Lesser(high, n)
    BY <1>3, <2>1, <2>2 DEF Chunk
  <2> QED
    BY <1>2, <2>2, <2>3 DEF Lesser
<1>4. ASSUME NEW x \in 1..Lesser(n, l * PageSize)
      PROVE  \E i \in 1..l : x \in Chunk(i, n)
  <2>1. x \in Nat /\ 1 <= x /\ x <= n /\ x <= all /\ x - 1 \in Nat
    BY <1>2, <1>4 DEF Lesser
  <2>2. PICK q \in Nat : q = (x - 1) \div PageSize
    BY <1>1, <2>1, Division
  <2>3. PageSize * q <= x - 1 /\ x - 1 < PageSize * q + PageSize
    BY <1>1, <2>1, <2>2, Division
  <2>4. PICK low \in Nat : low = q * PageSize
    BY <1>1, ProductMonotone
  <2>5. PageSize * q = low /\ (q + 1) * PageSize = low + PageSize
    BY <1>1, <2>4
  <2>6. q < l
    <3>1. l <= q => all <= low
      BY <1>1, <1>2, <2>4, ProductMonotone
    <3> QED
      BY <2>1, <2>3, <2>5, <3>1
  <2>7. q + 1 \in 1..l /\ (q + 1) - 1 = q
    BY <2>6
  <2>8. x \in (low + 1)..Lesser(low + PageSize, n)
    BY <1>1, <2>1, <2>3, <2>5 DEF Lesser
  <2>9. x \in Chunk(q + 1, n)
    BY <2>4, <2>5, <2>7, <2>8 DEF Chunk
  <2> QED
    BY <2>7, <2>9
<1> QED
  BY <1>3, <1>4, Zenon

LEMMA PagesShare == Types /\ AllFit /\ BoardsOK /\ Counts => PagesAgree
<1> SUFFICES ASSUME Types, AllFit, BoardsOK, Counts, NEW k \in Kinds, Quiet(k),
                    NEW pages, pages = row[k].pages, pages # <<>>,
                    NEW n, n = messages[pages[1]].n,
                    \A i \in DOMAIN pages : messages[pages[i]].n = n,
                    Len(pages) <= Pages(Listed(k, n))
             PROVE  LET on(i) == Ranks(k, messages[pages[i]].page, messages[pages[i]].n)
                    IN  /\ \A i, j \in DOMAIN pages : i # j => on(i) \cap on(j) = {}
                        /\ UNION {on(i) : i \in DOMAIN pages} = 1..Lesser(n, Len(pages) * PageSize)
  BY Zenon DEF PagesAgree
<1>1. pages \in Seq(Ids) /\ posted \in Nat
  BY DEF Types, World, RowsOK, RowOK, Row
<1>2. PICK l \in Nat \ {0} : l = Len(pages) /\ DOMAIN pages = 1..l
  BY <1>1
<1>3. ASSUME NEW i \in 1..l
      PROVE  pages[i] \in Live /\ messages[pages[i]].page = i
  <2>1. pages[i] \in Recorded(row[k])
    BY <1>1, <1>2 DEF Recorded, Ids
  <2>2. pages[i] \in Live
    BY <2>1, BoardsPosted DEF PostedIsRecorded, LiveOf
  <2> QED
    BY <1>2, <2>2 DEF AllFit, Fits, Is
<1>4. n \in Nat
  BY <1>2, <1>3 DEF Counts
<1>5. Pages(Listed(k, n)) \in Nat
  BY <1>4, PagesPositive, PageAssumption DEF Listed, Lesser
<1>6. ASSUME NEW i \in 1..l
      PROVE  Ranks(k, messages[pages[i]].page, messages[pages[i]].n) = Chunk(i, n)
  <2>1. messages[pages[i]].page = i /\ messages[pages[i]].n = n
    BY <1>2, <1>3
  <2>2. Lesser(i, Pages(Listed(k, n))) = i
    BY <1>2, <1>5 DEF Lesser
  <2> QED
    BY <2>1, <2>2 DEF Ranks, Chunk
<1>7. \A i, j \in 1..l : i # j => Chunk(i, n) \cap Chunk(j, n) = {}
  BY <1>4, ChunksApart
<1>8. UNION {Chunk(i, n) : i \in 1..l} = 1..Lesser(n, l * PageSize)
  BY <1>4, ChunksTogether
<1>9. /\ \A i, j \in DOMAIN pages : i # j =>
             Ranks(k, messages[pages[i]].page, messages[pages[i]].n)
               \cap Ranks(k, messages[pages[j]].page, messages[pages[j]].n) = {}
      /\ UNION {Ranks(k, messages[pages[i]].page, messages[pages[i]].n) : i \in DOMAIN pages}
           = 1..Lesser(n, Len(pages) * PageSize)
  <2>1. {Ranks(k, messages[pages[i]].page, messages[pages[i]].n) : i \in 1..l} = {Chunk(i, n) : i \in 1..l}
    BY <1>6
  <2> QED
    BY <1>2, <1>6, <1>7, <1>8, <2>1
<1> QED
  BY <1>9

(***************************************************************************)
(* What the messages of the event's board say of its end.  A task says     *)
(* what it saw at first, in every message it posts or edits.               *)
(***************************************************************************)
OverSince ==
  /\ \A c \in Commands : command[c].over => event = "ended"
  /\ \A u \in Loops : updater[u].over => event = "ended"

OverIn(ids, over) == \A i \in ids \cap Live : messages[i].over = over

\* The first page, the card and the status message.
Faces(r) == (IF r.pages = <<>> THEN {} ELSE {r.pages[1]}) \cup {r.card, r.status}

CommandShows(cmd) == OverIn(Recorded(cmd), cmd.over)

LoopShows(up) ==
  /\ up.page > 1 \/ up.pc \in {"closing", "stamping"} => OverIn({up.row.pages[1]}, up.over)
  /\ up.pc = "stamping" => OverIn({up.row.card, up.row.status} \ bare, up.over)

RowShows(r) == r.last > endDate => event = "ended" /\ OverIn(Faces(r) \ bare, TRUE)

\* The event's board, once it was written after the end date: it says that the event
\* has ended, and so does whoever is at work on it.
EventOK ==
  ("event" \in Kinds /\ Calm("event") /\ ~early) =>
    /\ RowShows(row["event"])
    /\ \A c \in Working("event") :
         CommandShows(command[c]) /\ (row["event"].last > endDate => command[c].over)
    /\ \A u \in Updating("event") :
         LoopShows(updater[u]) /\ (row["event"].last > endDate => updater[u].over)

\* The end date is moved: no board was written after it, or that is put down.
Moved == "event" \in Kinds /\ ~early' => row' = row /\ ~(row["event"].last > endDate')

\* An event that has ended stays so, and only an edit moves its end date.
LEMMA EventSteps ==
  ASSUME [Next]_vars, Types
  PROVE  (event = "ended" => event' = "ended") /\ (early => early') /\ (endDate' = endDate \/ Moved)
<1>1. CASE Tick \/ StandingsChange \/ End \/ DeleteEvent \/ Restart \/ UNCHANGED vars
  BY <1>1 DEF Tick, StandingsChange, End, DeleteEvent, Restart, vars, world, history
<1>4. CASE \E date \in Dates : EditEnd(date)
  <2>1. PICK date \in Dates : EditEnd(date)
    BY <1>4
  <2>2. event' = event /\ endDate' = date /\ row' = row
    BY <2>1 DEF EditEnd
  <2>3. early' = (early \/ ("event" \in Kinds /\ row["event"].last > date))
    BY <2>1 DEF EditEnd
  <2> QED
    BY <2>2, <2>3 DEF Moved
<1>2. CASE \E c \in Commands : CommandStep(c) \/ FailCommand(c) \/ \E k \in Kinds : Post(c, k) \/ Remove(c, k)
  <2>1. PICK c \in Commands : CommandStep(c) \/ FailCommand(c) \/ \E k \in Kinds : Post(c, k) \/ Remove(c, k)
    BY <1>2
  <2>2. CASE StoreRow(c)
    <3>1. UNCHANGED <<event, endDate>>
      BY <2>2 DEF StoreRow, world
    <3>2. early => early'
      BY <2>2, Zenon DEF StoreRow
    <3> QED
      BY <3>1, <3>2
  <2>3. CASE ~StoreRow(c)
    <3>1. UNCHANGED <<event, endDate, early>>
      BY <2>1, <2>3 DEF CommandStep, Look, DeleteMessages, DropRow, PostPage, PostTrailers, FailCommand,
         Post, Remove, Start, world, history
    <3> QED
      BY <3>1
  <2> QED
    BY <2>2, <2>3
<1>3. CASE \E u \in Loops : Round(u) \/ FailUpdate(u) \/ SkipPage(u)
  <2>1. PICK u \in Loops : Round(u) \/ FailUpdate(u) \/ SkipPage(u)
    BY <1>3
  <2>2. CASE Stamp(u)
    <3>1. UNCHANGED <<event, endDate>>
      BY <2>2 DEF Stamp, world
    <3>2. early => early'
      BY <2>2, Zenon DEF Stamp
    <3> QED
      BY <3>1, <3>2
  <2>3. CASE ~Stamp(u)
    <3>1. UNCHANGED <<event, endDate, early>>
      BY <2>1, <2>3 DEF Round, ReadRow, EditPage, EditTrailers, FailUpdate, SkipPage, world, history
    <3> QED
      BY <3>1
  <2> QED
    BY <2>2, <2>3
<1> QED
  BY <1>1, <1>2, <1>3, <1>4 DEF Next, Dates

\* A step of a loop goes on with what the loop saw, or looks anew.
LEMMA LoopSees ==
  ASSUME Types, NEW u \in Loops, Round(u) \/ FailUpdate(u) \/ SkipPage(u)
  PROVE  /\ updater'[u].over => updater[u].over \/ event = "ended"
         /\ \A v \in Loops : v # u => updater'[v] = updater[v]
<1>1. PICK up : up = updater[u]
  OBVIOUS
<1>2. UpdaterOK(u, up)
  BY <1>1 DEF Types, LoopsOK
<1>3. CASE GoOn(u)
  BY <1>3 DEF GoOn, Go, Waiting, Types, LoopsOK
<1>4. CASE ~GoOn(u)
  <2>1. PICK new : Go(u, new) /\ (new.over => up.over \/ event = "ended")
    <3>1. CASE ReadRow(u)
      <4>1. PICK new : new = [up EXCEPT !.row = row[up.kind], !.over = Ended(up.kind),
                                !.total = PageCount(up.kind),
                                !.pc = IF up.kind = "status" THEN "closing" ELSE "editing"]
        OBVIOUS
      <4>2. Go(u, new)
        BY <1>1, <1>4, <3>1, <4>1 DEF ReadRow
      <4>3. new.over = Ended(up.kind)
        BY <1>2, <4>1 DEF UpdaterOK, UpdaterRecords
      <4> QED
        BY <4>2, <4>3 DEF Ended
    <3>2. CASE EditPage(u) \/ SkipPage(u)
      BY <1>1, <1>2, <3>2, PageDoneOK DEF EditPage, SkipPage, At, Types
    <3>3. CASE EditTrailers(u)
      <4>1. PICK new : new = [up EXCEPT !.pc = "stamping"]
        OBVIOUS
      <4>2. Go(u, new)
        BY <1>1, <1>4, <3>3, <4>1 DEF EditTrailers
      <4> QED
        BY <1>2, <4>1, <4>2 DEF UpdaterOK, UpdaterRecords
    <3>4. CASE Stamp(u) \/ FailUpdate(u)
      BY <1>4, <3>4 DEF Stamp, FailUpdate
    <3> QED
      BY <3>1, <3>2, <3>3, <3>4 DEF Round
  <2> QED
    BY <1>1, <2>1 DEF Go, Types, LoopsOK
<1> QED
  BY <1>3, <1>4

LEMMA StepOver == Types /\ OverSince /\ [Next]_vars => OverSince'
<1> SUFFICES ASSUME Types, OverSince, [Next]_vars
             PROVE  OverSince'
  OBVIOUS
<1>1. event = "ended" => event' = "ended"
  BY EventSteps
<1>2. CASE UNCHANGED <<command, updater>>
  BY <1>1, <1>2 DEF OverSince
<1>3. CASE Restart
  BY <1>3 DEF Restart, NoCommand, Waiting, OverSince
<1>4. CASE \E c \in Commands : CommandStep(c) \/ FailCommand(c) \/ \E k \in Kinds : Post(c, k) \/ Remove(c, k)
  <2>1. PICK c \in Commands : CommandStep(c) \/ FailCommand(c) \/ \E k \in Kinds : Post(c, k) \/ Remove(c, k)
    BY <1>4
  <2>2. \A d \in Commands : d # c => command'[d] = command[d]
    BY <2>1, CommandDoes DEF Do, Types, CommandsOK
  <2>3. command'[c].over => command[c].over \/ event = "ended"
    <3>1. CASE CommandStep(c)
      BY <3>1, CommandStays
    <3>2. CASE FailCommand(c)
      BY <3>2 DEF FailCommand, Do, NoCommand, Types, CommandsOK
    <3>3. CASE \E k \in Kinds : Post(c, k) \/ Remove(c, k)
      <4>1. PICK k \in Kinds, goal \in {"post", "remove"} : Start(c, k, goal)
        BY <3>3 DEF Post, Remove
      <4> QED
        BY <4>1 DEF Start, Ended, NoCommand, Types, CommandsOK
    <3> QED
      BY <2>1, <3>1, <3>2, <3>3
  <2>4. UNCHANGED updater
    BY <2>1 DEF CommandStep, Look, DeleteMessages, DropRow, PostPage, PostTrailers, StoreRow, FailCommand,
       Post, Remove, Start
  <2> QED
    BY <1>1, <2>2, <2>3, <2>4 DEF OverSince
<1>5. CASE \E u \in Loops : Round(u) \/ FailUpdate(u) \/ SkipPage(u)
  <2>1. PICK u \in Loops : Round(u) \/ FailUpdate(u) \/ SkipPage(u)
    BY <1>5
  <2>2. UNCHANGED command
    BY <2>1 DEF Round, ReadRow, EditPage, EditTrailers, Stamp, FailUpdate, SkipPage
  <2> QED
    BY <1>1, <2>1, <2>2, LoopSees DEF OverSince
<1>6. EventStep => UNCHANGED <<command, updater>>
  BY EventLeaves
<1> QED
  BY <1>2, <1>3, <1>4, <1>5, <1>6 DEF Next, EventStep, Dates, vars

(***************************************************************************)
(* The board's messages go on saying what they say.                        *)
(***************************************************************************)
LEMMA OverStays ==
  ASSUME Types, Types', Lasting, NEW ids, ids \subseteq {0} \cup Ids, NEW over, OverIn(ids, over),
         \A i \in ids \cap Live \cap Live' : messages'[i].over \in {messages[i].over, over}
  PROVE  OverIn(ids, over)'
<1>1. 0 \notin Live'
  BY DEF Types, World, Ids
<1>2. ASSUME NEW i \in ids, i \in Live'
      PROVE  messages'[i].over = over
  <2>1. i \in Ids /\ i \in Live
    BY <1>1, <1>2 DEF Lasting
  <2>2. messages[i].over = over
    BY <2>1 DEF OverIn
  <2> QED
    BY <1>2, <2>1, <2>2
<1> QED
  BY <1>2 DEF OverIn

\* What an update passed over for want of milestones are cards.
Cards == \A i \in bare \cap Live : messages[i].what = "card"

LEMMA StepCards == Types /\ AllFit /\ Cards /\ [Next]_vars => Cards'
<1> SUFFICES ASSUME Types, AllFit, Cards, [Next]_vars
             PROVE  Cards'
  OBVIOUS
<1>1. Types' /\ Lasting
  BY StepTypes, StepLasts
<1>2. \A i \in bare' : i \in bare \/ (i \in Live /\ messages[i].what = "card")
  <2>1. ASSUME NEW u \in Loops, EditTrailers(u)
        PROVE  \A i \in bare' : i \in bare \/ (i \in Live /\ messages[i].what = "card")
    <3>1. \A i \in bare' : i \in bare \/ (i \in Live /\ i = updater[u].row.card)
      BY <2>1 DEF EditTrailers
    <3> QED
      BY <3>1 DEF AllFit, Fits, Is
  <2>2. bare' = bare \/ \E u \in Loops : EditTrailers(u)
    <3>1. \A c \in Commands :
             CommandStep(c) \/ FailCommand(c) \/ (\E k \in Kinds : Post(c, k) \/ Remove(c, k)) => bare' = bare
      BY DEF CommandStep, Look, DeleteMessages, DropRow, PostPage, PostTrailers, StoreRow, FailCommand,
         Post, Remove, Start, history
    <3>2. \A u \in Loops : Round(u) \/ FailUpdate(u) \/ SkipPage(u) => bare' = bare \/ EditTrailers(u)
      BY DEF Round, ReadRow, EditPage, Stamp, FailUpdate, SkipPage, history
    <3>3. EventStep \/ Restart \/ UNCHANGED vars => bare' = bare
      BY EventLeaves DEF Restart, vars, history
    <3> QED
      BY <3>1, <3>2, <3>3 DEF Next, EventStep, Dates
  <2> QED
    BY <2>1, <2>2
<1>3. bare \subseteq Ids /\ Live \subseteq Ids
  BY DEF Types, World
<1> QED
  BY <1>1, <1>2, <1>3 DEF Cards, Lasting, SamePlace

LEMMA RecordedNames ==
  ASSUME NEW r, Names(r)
  PROVE  Recorded(r) \subseteq Ids /\ Faces(r) \subseteq {0} \cup Ids
         /\ (r.pages # <<>> => Faces(r) = {r.pages[1], r.card, r.status} /\ r.pages[1] \in Ids)
<1>1. r.pages # <<>> => 1 \in DOMAIN r.pages
  BY DEF Names
<1>2. \A i \in DOMAIN r.pages : r.pages[i] \in Ids
  BY DEF Names
<1> QED
  BY <1>1, <1>2 DEF Names, Recorded, Faces

\* The live messages of a record are its board's.
LEMMA FitKinds ==
  ASSUME NEW k, NEW r, Names(r), Fits(r, k)
  PROVE  \A i \in (Recorded(r) \cup Faces(r)) \cap Live : messages[i].kind = k
<1>1. r.pages # <<>> => 1 \in DOMAIN r.pages
  BY DEF Names
<1> QED
  BY <1>1 DEF Fits, Is, Recorded, Faces

LEMMA EventApart ==
  ASSUME Types, Types', AllFit, Lasting, EventOK, [Next]_vars, "event" \in Kinds, Apart("event")
  PROVE  EventOK'
<1> SUFFICES ASSUME Calm("event")', ~early'
             PROVE  /\ RowShows(row["event"])'
                    /\ (\A c \in Working("event") :
                          CommandShows(command[c]) /\ (row["event"].last > endDate => command[c].over))'
                    /\ (\A u \in Updating("event") :
                          LoopShows(updater[u]) /\ (row["event"].last > endDate => updater[u].over))'
  BY DEF EventOK
<1>1. /\ Calm("event") /\ ~early /\ (event = "ended" => event' = "ended")
      /\ endDate' = endDate \/ ~(row'["event"].last > endDate')
  BY EventSteps DEF Calm, Apart, Moved
<1>2. Working("event")' = Working("event") /\ Updating("event")' = Updating("event")
  BY DEF Apart, Working, Updating
<1>3. ASSUME NEW r, Names(r), Fits(r, "event"), NEW ids, ids \subseteq Recorded(r) \cup Faces(r),
             NEW over
      PROVE  /\ OverIn(ids, over) => OverIn(ids, over)'
             /\ OverIn(ids \ bare, over) => OverIn(ids \ bare, over)'
  <2>1. ids \subseteq {0} \cup Ids
    BY <1>3, RecordedNames
  <2>2. \A i \in ids \cap Live : i \in LiveOf("event")
    BY <1>3, FitKinds DEF LiveOf
  <2>3. \A some \in SUBSET ids : OverIn(some, over) => OverIn(some, over)'
    <3> SUFFICES ASSUME NEW some \in SUBSET ids, OverIn(some, over)
                 PROVE  OverIn(some, over)'
      OBVIOUS
    <3> QED
      BY <2>1, <2>2, OverStays DEF Apart
  <2>4. ASSUME OverIn(ids \ bare, over)
        PROVE  OverIn(ids \ bare, over)'
    <3>1. PICK some \in SUBSET ids : some = ids \ bare
      OBVIOUS
    <3>2. OverIn(some, over)'
      BY <2>3, <2>4, <3>1
    <3>3. \A i \in ids \ bare' : i \in Live' => i \in some
      <4>1. 0 \notin Live'
        BY DEF Types, World, Ids
      <4>2. \A i \in ids : i \in Live' => i \in Live
        BY <2>1, <4>1 DEF Lasting
      <4> QED
        BY <2>2, <3>1, <4>2 DEF Apart
    <3> QED
      BY <3>2, <3>3 DEF OverIn
  <2> QED
    BY <2>3, <2>4
<1>4. PICK r : r = row["event"]
  OBVIOUS
<1>5. row'["event"] = r /\ Names(r) /\ Fits(r, "event")
  BY <1>4, RowNames DEF Apart, Types, RowsOK, RowOK, AllFit
<1>6. RowShows(row["event"])'
  <2>1. r.last > endDate => event = "ended" /\ OverIn(Faces(r) \ bare, TRUE)
    BY <1>1, <1>4 DEF EventOK, RowShows
  <2>2. PICK ids : ids = Faces(r)
    OBVIOUS
  <2>3. r.last > endDate => event' = "ended" /\ OverIn(ids \ bare, TRUE)'
    BY <1>1, <1>3, <1>5, <2>1, <2>2
  <2> QED
    BY <1>1, <1>5, <2>2, <2>3 DEF RowShows, OverIn, Faces
<1>7. ASSUME NEW c \in Working("event")
      PROVE  CommandShows(command[c])' /\ (row'["event"].last > endDate' => command'[c].over)
  <2>1. PICK cmd : cmd = command[c]
    OBVIOUS
  <2>2. command'[c] = cmd /\ cmd.kind = "event"
    BY <2>1 DEF Apart, Working
  <2>3. Names(cmd) /\ Fits(cmd, "event")
    BY <2>1, <2>2, CommandNames DEF Working, Types, CommandsOK, AllFit, CommandFits
  <2>4. OverIn(Recorded(cmd), cmd.over) /\ (r.last > endDate => cmd.over)
    BY <1>1, <1>4, <2>1 DEF EventOK, CommandShows
  <2>5. PICK ids : ids = Recorded(cmd)
    OBVIOUS
  <2>6. PICK over : over = cmd.over
    OBVIOUS
  <2>7. OverIn(ids, over)'
    BY <1>3, <2>3, <2>4, <2>5, <2>6
  <2> QED
    BY <1>1, <1>5, <2>2, <2>4, <2>5, <2>6, <2>7 DEF CommandShows, OverIn, Recorded
<1>8. ASSUME NEW u \in Updating("event")
      PROVE  LoopShows(updater[u])' /\ (row'["event"].last > endDate' => updater'[u].over)
  <2>1. PICK up : up = updater[u]
    OBVIOUS
  <2>2. updater'[u] = up /\ up.kind = "event"
    BY <2>1 DEF Apart, Updating
  <2>3. UpdaterOK(u, up) /\ up.pc # "waiting"
    BY <2>1 DEF Updating, Types, LoopsOK
  <2>4. Names(up.row) /\ Fits(up.row, "event")
    BY <2>1, <2>2, <2>3, RowNames DEF Updating, AllFit, UpdaterOK, UpdaterRecords
  <2>5. up.row.pages # <<>>
    BY <2>2, <2>3 DEF UpdaterOK, Paged
  <2>6. {up.row.pages[1]} \subseteq Faces(up.row) /\ {up.row.card, up.row.status} \subseteq Faces(up.row)
    BY <2>5 DEF Faces
  <2>7. LoopShows(up) /\ (r.last > endDate => up.over)
    BY <1>1, <1>4, <2>1 DEF EventOK
  <2>8. PICK first : first = {up.row.pages[1]}
    OBVIOUS
  <2>9. PICK trailers : trailers = {up.row.card, up.row.status}
    OBVIOUS
  <2>10. PICK over : over = up.over
    OBVIOUS
  <2>11. /\ OverIn(first, over) => OverIn(first, over)'
         /\ OverIn(trailers \ bare, over) => OverIn(trailers \ bare, over)'
    BY <1>3, <2>4, <2>6, <2>8, <2>9
  <2>12. LoopShows(up)'
    BY <2>7, <2>8, <2>9, <2>10, <2>11 DEF LoopShows, OverIn
  <2> QED
    BY <1>1, <1>5, <2>2, <2>7, <2>12 DEF LoopShows, OverIn
<1> QED
  BY <1>2, <1>6, <1>7, <1>8

\* What is to show of a step of the command at work on the event's board.
Says(new, r) ==
  Calm("event") /\ ~early' =>
    /\ RowShows(r)'
    /\ new.kind = "event" => CommandShows(new)' /\ (r.last > endDate => new.over)

LEMMA CommandEvent ==
  ASSUME Types, BoardsOK, NEW c \in Commands, command[c].kind = "event", "event" \in Kinds,
         met' = met, lost' = lost, UNCHANGED <<updater, endDate>>,
         NEW new, Do(c, new), NEW r, row'["event"] = r, Says(new, r)
  PROVE  EventOK'
<1> SUFFICES ASSUME Calm("event")', ~early'
             PROVE  /\ RowShows(row["event"])'
                    /\ (\A d \in Working("event") :
                          CommandShows(command[d]) /\ (row["event"].last > endDate => command[d].over))'
                    /\ (\A u \in Updating("event") :
                          LoopShows(updater[u]) /\ (row["event"].last > endDate => updater[u].over))'
  BY DEF EventOK
<1>1. Calm("event")
  BY DEF Calm
<1>2. Working("event") = {c} /\ Updating("event") = {}
  BY <1>1 DEF BoardsOK, BoardOK, Working
<1>3. command'[c] = new /\ \A d \in Commands : d # c => command'[d] = command[d]
  BY DEF Do, Types, CommandsOK
<1>4. Working("event")' \subseteq {c} /\ Updating("event")' = {} /\ (c \in Working("event")' => new.kind = "event")
  BY <1>2, <1>3 DEF Working, Updating
<1>5. RowShows(row["event"])'
  BY <1>1 DEF Says, RowShows, OverIn, Faces
<1>6. ASSUME c \in Working("event")'
      PROVE  CommandShows(command[c])' /\ (row'["event"].last > endDate' => command'[c].over)
  <2>1. CommandShows(new)' /\ (r.last > endDate => new.over)
    BY <1>1, <1>4, <1>6 DEF Says
  <2> QED
    BY <1>3, <2>1 DEF CommandShows, OverIn, Recorded
<1> QED
  BY <1>4, <1>5, <1>6

LEMMA StartKeepsEvent ==
  ASSUME Types, BoardsOK, EventOK, "event" \in Kinds, NEW c \in Commands, NEW goal, Start(c, "event", goal)
  PROVE  EventOK'
<1> SUFFICES ASSUME Calm("event")', ~early'
             PROVE  /\ RowShows(row["event"])'
                    /\ (\A d \in Working("event") :
                          CommandShows(command[d]) /\ (row["event"].last > endDate => command[d].over))'
                    /\ (\A u \in Updating("event") :
                          LoopShows(updater[u]) /\ (row["event"].last > endDate => updater[u].over))'
  BY DEF EventOK
<1>1. Calm("event") /\ ~early /\ Working("event") = {} /\ Updating("event") = {}
  BY DEF Start, Calm
<1>2. PICK new : new = [NoCommand EXCEPT !.pc = "looking", !.kind = "event", !.goal = goal, !.over = Ended("event")]
  OBVIOUS
<1>3. new.over = Ended("event") /\ new.pages = <<>> /\ new.card = 0 /\ new.status = 0
  BY <1>2 DEF NoCommand
<1>4. command'[c] = new /\ \A d \in Commands : d # c => command'[d] = command[d]
  BY <1>2 DEF Start, Types, CommandsOK
<1>5. UNCHANGED <<row, messages, updater, event, endDate, bare>>
  BY DEF Start, world
<1>6. Working("event")' \subseteq {c} /\ Updating("event")' = {}
  BY <1>1, <1>4, <1>5 DEF Working, Updating
<1>7. RowShows(row["event"]) /\ RowShows(row["event"])'
  BY <1>1, <1>5 DEF EventOK, RowShows, OverIn, Faces, Live
<1>8. row'["event"].last > endDate' => new.over
  BY <1>3, <1>5, <1>7 DEF RowShows, Ended
<1>9. CommandShows(new)'
  <2>1. Recorded(new) = {}
    BY <1>3, NothingRecorded
  <2> QED
    BY <2>1 DEF CommandShows, OverIn
<1>10. CommandShows(command[c])'
  BY <1>4, <1>9 DEF CommandShows, OverIn, Recorded
<1> QED
  BY <1>4, <1>6, <1>7, <1>8, <1>10

LEMMA CommandKeepsEvent ==
  ASSUME Types, Types', AllFit, BoardsOK, Lasting, OverSince, EventOK, NEW c \in Commands, CommandStep(c),
         lost' = lost, command[c].kind = "event"
  PROVE  EventOK'
<1>1. PICK cmd : cmd = command[c]
  OBVIOUS
<1>2. /\ CommandOK(cmd) /\ Names(cmd) /\ cmd.pc # "idle" /\ cmd.kind = "event"
      /\ (cmd.over => event = "ended")
  BY <1>1, CommandNames DEF Types, CommandsOK, OverSince, CommandStep, Look, DeleteMessages, DropRow,
     PostPage, PostTrailers, StoreRow, Doing
<1>3. "event" \in Kinds
  BY <1>2 DEF CommandOK
<1>4. met' = met /\ UNCHANGED <<updater, event, endDate, bare>>
  BY DEF CommandStep, Look, DeleteMessages, DropRow, PostPage, PostTrailers, StoreRow, history, world
<1>5. PICK r : r = row["event"]
  OBVIOUS
<1>6. Calm("event") /\ ~early => RowShows(r) /\ CommandShows(cmd) /\ (r.last > endDate => cmd.over)
  BY <1>1, <1>2, <1>3, <1>5 DEF EventOK, Working
<1>7. Names(r)
  BY <1>3, <1>5, RowNames DEF Types, RowsOK, RowOK
<1>8. \A new, s : Do(c, new) /\ row'["event"] = s /\ Says(new, s) => EventOK'
  BY <1>1, <1>2, <1>3, <1>4, CommandEvent
<1>9. early => early'
  <2>1. StoreRow(c) => (early => early')
    BY Zenon DEF StoreRow
  <2> QED
    BY <2>1 DEF CommandStep, Look, DeleteMessages, DropRow, PostPage, PostTrailers, history
<1>10. NoCommand.kind = "none"
  BY DEF NoCommand
\* A row that stays, and messages that stay as they are.
<1>11. ASSUME \A i \in Live \cap Live' : messages'[i] = messages[i]
       PROVE  Calm("event") /\ ~early' => RowShows(r)'
  <2> SUFFICES ASSUME Calm("event"), ~early', r.last > endDate
               PROVE  event' = "ended" /\ OverIn(Faces(r) \ bare, TRUE)'
    BY <1>4 DEF RowShows
  <2>1. PICK ids : ids = Faces(r) \ bare
    OBVIOUS
  <2>2. OverIn(ids, TRUE) /\ event = "ended"
    BY <1>6, <1>9, <2>1 DEF RowShows
  <2>3. ids \subseteq {0} \cup Ids
    BY <1>7, <2>1, RecordedNames
  <2>4. OverIn(ids, TRUE)'
    BY <1>11, <2>2, <2>3, OverStays
  <2> QED
    BY <1>4, <2>1, <2>2, <2>4 DEF OverIn, Faces
\* The command goes on with nothing posted, or is over.
<1>12. ASSUME NEW new, Do(c, new), Recorded(new) = {}, new.kind = "event" => new.over = cmd.over,
              NEW s, row'["event"] = s, s = r \/ s = NoRow,
              \A i \in Live \cap Live' : messages'[i] = messages[i]
       PROVE  EventOK'
  <2>1. CommandShows(new)'
    BY <1>12 DEF CommandShows, OverIn
  <2>2. CASE s = r
    <3>1. Says(new, s)
      BY <1>6, <1>9, <1>11, <1>12, <2>1, <2>2 DEF Says
    <3> QED
      BY <1>8, <1>12, <3>1
  <2>3. CASE s = NoRow
    <3>1. ~(s.last > endDate) /\ ~(s.last > endDate')
      BY <1>4, <2>3 DEF NoRow, Types, World
    <3>2. Says(new, s)
      BY <2>1, <3>1 DEF Says, RowShows
    <3> QED
      BY <1>8, <1>12, <3>2
  <2> QED
    BY <1>12, <2>2, <2>3
<1>13. CASE Look(c) \/ DeleteMessages(c) \/ DropRow(c)
  <2>1. cmd.pc \in {"looking", "deleting", "dropping"}
    BY <1>1, <1>13 DEF Look, DeleteMessages, DropRow, Doing
  <2>2. cmd.pages = <<>> /\ cmd.card = 0 /\ cmd.status = 0
    BY <1>2, <2>1 DEF CommandOK
  <2>3. PICK found : found = [cmd EXCEPT !.pc = "deleting", !.row = r]
    OBVIOUS
  <2>4. PICK dropping : dropping = [cmd EXCEPT !.row = NoRow, !.pc = "dropping"]
    OBVIOUS
  <2>5. PICK counted : counted = Counted(cmd)
    OBVIOUS
  <2>6. PICK none : none = NoCommand
    OBVIOUS
  <2>7. PICK new \in {found, dropping, counted, none} : Do(c, new)
    <3>1. Look(c) => Do(c, found) \/ Do(c, counted) \/ Do(c, none)
      BY <1>1, <1>2, <1>5, <2>3, <2>5, <2>6 DEF Look
    <3>2. DeleteMessages(c) => Do(c, counted) \/ Do(c, dropping)
      BY <1>1, <2>4, <2>5 DEF DeleteMessages
    <3>3. DropRow(c) => Do(c, counted) \/ Do(c, none)
      BY <1>1, <2>5, <2>6 DEF DropRow
    <3> QED
      BY <1>13, <3>1, <3>2, <3>3
  <2>8. /\ new.pages = <<>> /\ new.card = 0 /\ new.status = 0
        /\ new.kind = "event" => new.over = cmd.over
    <3>1. CASE new = found
      BY <1>2, <2>2, <2>3, <3>1 DEF CommandOK, CommandRecords
    <3>2. CASE new = dropping
      BY <1>2, <2>2, <2>4, <3>2 DEF CommandOK, CommandRecords
    <3>3. CASE new = counted
      BY <1>2, <1>3, <2>2, <2>5, <3>3, CountedOK
    <3>4. CASE new = none
      BY <2>6, <3>4 DEF NoCommand
    <3> QED
      BY <3>1, <3>2, <3>3, <3>4
  <2>9. Recorded(new) = {}
    BY <2>8, NothingRecorded
  <2>10. PICK s : row'["event"] = s /\ (s = r \/ s = NoRow)
    BY <1>1, <1>2, <1>3, <1>5, <1>13 DEF Look, DeleteMessages, DropRow, Kinds
  <2>11. \A i \in Live \cap Live' : messages'[i] = messages[i]
    BY <1>13, DeleteLasts DEF Look, DropRow
  <2> QED
    BY <1>12, <2>7, <2>8, <2>9, <2>10, <2>11
\* What it posts it knows, and shows as it saw the event.
<1>14. ASSUME NEW new, Do(c, new), new.kind = "event", new.over = cmd.over, UNCHANGED row,
              \A i \in Live \cap Live' : messages'[i] = messages[i],
              \A i \in Recorded(new) \cap Live' : i \in Recorded(cmd) \/ messages'[i].over = cmd.over
       PROVE  EventOK'
  <2>1. ASSUME Calm("event"), ~early'
        PROVE  CommandShows(new)'
    <3>1. PICK ids : ids = Recorded(cmd)
      OBVIOUS
    <3>2. PICK over : over = cmd.over
      OBVIOUS
    <3>3. OverIn(ids, over) /\ ids \subseteq {0} \cup Ids
      BY <1>2, <1>6, <1>9, <2>1, <3>1, <3>2, RecordedNames DEF CommandShows
    <3>4. OverIn(ids, over)'
      BY <1>14, <3>3, OverStays
    <3> QED
      BY <1>14, <3>1, <3>2, <3>4 DEF CommandShows, OverIn, Recorded
  <2>2. Calm("event") /\ ~early' => RowShows(r)'
    BY <1>11, <1>14
  <2>3. Calm("event") /\ ~early' => CommandShows(new)' /\ (r.last > endDate => new.over)
    BY <1>6, <1>9, <1>14, <2>1
  <2>4. Says(new, r)
    BY <2>2, <2>3 DEF Says
  <2> QED
    BY <1>5, <1>8, <1>14, <2>4
<1>15. CASE PostPage(c)
  <2>1. cmd.pages \in Seq(Ids) /\ posted \in Nat
    BY <1>2 DEF CommandOK, CommandRecords, Types, World
  <2>2. PICK id \in Nat : id = posted + 1
    BY <2>1
  <2>3. PICK pages : pages = Append(cmd.pages, id)
    OBVIOUS
  <2>4. PICK new : new = [cmd EXCEPT !.pages = pages, !.pc = IF Len(cmd.pages) + 1 = cmd.total THEN "closing" ELSE cmd.pc]
    OBVIOUS
  <2>5. /\ Do(c, new) /\ UNCHANGED row
        /\ messages' = With([i \in {id} |-> Shows("page", cmd.kind, Len(cmd.pages) + 1, cmd.over)])
    BY <1>1, <1>15, <2>2, <2>3, <2>4 DEF PostPage
  <2>6. /\ new.kind = "event" /\ new.over = cmd.over /\ new.pages = pages /\ new.card = cmd.card
        /\ new.status = cmd.status
    BY <1>2, <2>4 DEF CommandOK, CommandRecords
  <2>7. Recorded(new) \subseteq Recorded(cmd) \cup {id}
    <3>1. /\ cmd.pages \in Seq(Nat) /\ Len(cmd.pages) \in Nat /\ DOMAIN cmd.pages = 1..Len(cmd.pages)
      BY <2>1 DEF Ids
    <3>2. /\ Len(pages) = Len(cmd.pages) + 1 /\ pages \in Seq(Nat)
          /\ \A i \in 1..Len(cmd.pages) : pages[i] = cmd.pages[i]
          /\ pages[Len(cmd.pages) + 1] = id
      BY <2>2, <2>3, <3>1, AppendProperties
    <3>3. DOMAIN pages = 1..(Len(cmd.pages) + 1)
      BY <3>2
    <3>4. 1..(Len(cmd.pages) + 1) = 1..Len(cmd.pages) \cup {Len(cmd.pages) + 1}
      BY <3>1
    <3>5. \A i \in DOMAIN pages : pages[i] \in {cmd.pages[j] : j \in DOMAIN cmd.pages} \cup {id}
      BY <3>1, <3>2, <3>3, <3>4, Zenon
    <3> QED
      BY <2>6, <3>5 DEF Recorded
  <2>8. id \notin Live
    BY <2>1, <2>2 DEF Types, World, Ids
  <2>9. messages'[id].over = cmd.over
    BY <2>5, <2>8 DEF With, Shows
  <2>10. \A i \in Live : messages'[i] = messages[i]
    BY <1>15, PostsLast
  <2> QED
    BY <1>14, <2>5, <2>6, <2>7, <2>9, <2>10
<1>16. CASE PostTrailers(c)
  <2>1. PICK cards \in {0, 1} :
          LET card == IF cards = 0 THEN 0 ELSE posted + 1
              status == posted + cards + 1
          IN  /\ messages' = With([i \in {card, status} \ {0} |->
                                Shows(IF i = status THEN "status" ELSE "card", cmd.kind, 0, cmd.over)])
              /\ Do(c, [cmd EXCEPT !.pc = "storing", !.card = card, !.status = status])
    BY <1>1, <1>16 DEF PostTrailers
  <2>2. PICK card : card = IF cards = 0 THEN 0 ELSE posted + 1
    OBVIOUS
  <2>3. PICK status : status = posted + cards + 1
    OBVIOUS
  <2>4. PICK new : new = [cmd EXCEPT !.pc = "storing", !.card = card, !.status = status]
    OBVIOUS
  <2>5. PICK ids : ids = {card, status} \ {0}
    OBVIOUS
  <2>6. /\ Do(c, new) /\ UNCHANGED row
        /\ messages' = With([i \in ids |-> Shows(IF i = status THEN "status" ELSE "card", cmd.kind, 0, cmd.over)])
    BY <1>16, <2>1, <2>2, <2>3, <2>4, <2>5 DEF PostTrailers
  <2>7. /\ new.kind = "event" /\ new.over = cmd.over /\ new.pages = cmd.pages /\ new.card = card
        /\ new.status = status
    BY <1>2, <2>4 DEF CommandOK, CommandRecords
  <2>8. Recorded(new) \subseteq Recorded(cmd) \cup ids
    BY <2>5, <2>7 DEF Recorded
  <2>9. ids \cap Live = {}
    BY <2>2, <2>3, <2>5 DEF Types, World, Ids
  <2>10. \A i \in ids : messages'[i].over = cmd.over
    BY <2>6, <2>9 DEF With, Shows
  <2>11. \A i \in Live : messages'[i] = messages[i]
    BY <1>16, PostsLast
  <2> QED
    BY <1>14, <2>6, <2>7, <2>8, <2>10, <2>11
<1>17. CASE StoreRow(c)
  <2>1. PICK s : s = [pages |-> cmd.pages, card |-> cmd.card, status |-> cmd.status, last |-> clock]
    OBVIOUS
  <2>2. PICK none : none = NoCommand
    OBVIOUS
  <2>3. row'["event"] = s /\ UNCHANGED messages /\ Do(c, none) /\ none.kind = "none"
    BY <1>1, <1>2, <1>3, <1>10, <1>17, <2>1, <2>2 DEF StoreRow, Kinds
  <2>4. ~early' => ~TooEarly("event", cmd.over)
    BY <1>1, <1>2, <1>17, Zenon DEF StoreRow
  <2>5. ~early' /\ s.last > endDate => cmd.over /\ event = "ended"
    BY <1>2, <2>1, <2>4 DEF TooEarly
  <2>6. cmd.over \in BOOLEAN
    BY <1>2 DEF CommandOK, CommandRecords
  <2>7. Faces(s) \cap Live \subseteq Recorded(cmd)
    <3>1. cmd.pages # <<>> => 1 \in DOMAIN cmd.pages
      BY <1>2 DEF Names
    <3>2. 0 \notin Live
      BY DEF Types, World, Ids
    <3> QED
      BY <2>1, <3>1, <3>2 DEF Faces, Recorded
  <2>8. ASSUME Calm("event"), ~early', s.last > endDate
        PROVE  OverIn(Faces(s) \ bare, TRUE)'
    <3>1. cmd.over = TRUE /\ OverIn(Recorded(cmd), cmd.over)
      BY <1>6, <1>9, <2>5, <2>6, <2>8 DEF CommandShows
    <3> QED
      BY <2>3, <2>7, <3>1 DEF OverIn, Live, Faces
  <2>9. Says(none, s)
    BY <1>4, <2>3, <2>5, <2>8 DEF Says, RowShows
  <2> QED
    BY <1>8, <2>3, <2>9
<1> QED
  BY <1>13, <1>15, <1>16, <1>17 DEF CommandStep

\* A step of the loop at work on the event's board, with the row it leaves.
LoopSays(u, s) ==
  Calm("event") /\ ~early' =>
    /\ RowShows(s)'
    /\ \A c \in Working("event") : CommandShows(command[c])' /\ (s.last > endDate => command[c].over)
    /\ updater'[u].pc # "waiting" => LoopShows(updater[u])' /\ (s.last > endDate => updater'[u].over)

LEMMA LoopEvent ==
  ASSUME Types, NEW u \in Loops, updater[u].kind = "event", UNCHANGED <<command, lost, endDate>>, met \subseteq met',
         \A v \in Loops : v # u => updater'[v] = updater[v],
         NEW s, row'["event"] = s, LoopSays(u, s)
  PROVE  EventOK'
<1> SUFFICES ASSUME Calm("event")', ~early'
             PROVE  /\ RowShows(row["event"])'
                    /\ (\A c \in Working("event") :
                          CommandShows(command[c]) /\ (row["event"].last > endDate => command[c].over))'
                    /\ (\A v \in Updating("event") :
                          LoopShows(updater[v]) /\ (row["event"].last > endDate => updater[v].over))'
  BY DEF EventOK
<1>1. Calm("event")
  BY DEF Calm
<1>2. Working("event")' = Working("event")
  BY DEF Working
<1>3. Updating("event")' \subseteq {u}
  <2>1. u = "event"
    BY DEF Types, LoopsOK, UpdaterOK, Loops
  <2>2. \A v \in Loops : v # u => updater[v].kind = "guild"
    BY <2>1 DEF Types, LoopsOK, UpdaterOK, Loops
  <2> QED
    BY <2>2 DEF Updating
<1>4. RowShows(row["event"])'
  BY <1>1 DEF LoopSays, RowShows, OverIn, Faces
<1>5. ASSUME NEW c \in Working("event")
      PROVE  CommandShows(command[c])' /\ (row'["event"].last > endDate' => command'[c].over)
  BY <1>1 DEF LoopSays
<1>6. ASSUME u \in Updating("event")'
      PROVE  LoopShows(updater[u])' /\ (row'["event"].last > endDate' => updater'[u].over)
  BY <1>1, <1>6 DEF LoopSays, Updating
<1> QED
  BY <1>2, <1>3, <1>4, <1>5, <1>6

LEMMA LoopKeepsEvent ==
  ASSUME Types, Types', AllFit, BoardsOK, OverSince, EventOK, NEW u \in Loops, Round(u), ~lost',
         updater[u].kind = "event"
  PROVE  EventOK'
<1>1. PICK up : up = updater[u]
  OBVIOUS
<1>2. UpdaterOK(u, up) /\ up.kind = "event" /\ (up.over => event = "ended") /\ up.over \in BOOLEAN
  BY <1>1 DEF Types, LoopsOK, OverSince, UpdaterOK, UpdaterRecords
<1>3. "event" \in Kinds
  BY <1>1, <1>2 DEF Round, ReadRow, EditPage, EditTrailers, Stamp, At, UpdaterOK
<1>4. UNCHANGED <<command, lost, event, endDate, clock>> /\ met \subseteq met'
  BY DEF Round, ReadRow, EditPage, EditTrailers, Stamp, Fails, history, world, Types, World
<1>5. early => early'
  <2>1. Stamp(u) => (early => early')
    BY Zenon DEF Stamp
  <2> QED
    BY <2>1 DEF Round, ReadRow, EditPage, EditTrailers, history
<1>6. Lasting
  <2>1. ReadRow(u) => Lasting
    BY DEF ReadRow, Lasting, SamePlace, Live
  <2> QED
    BY <2>1, EditLasts, TrailersLast DEF Round
<1>7. \A v \in Loops : v # u => updater'[v] = updater[v]
  BY LoopSees
<1>8. \A s : row'["event"] = s /\ LoopSays(u, s) => EventOK'
  BY <1>2, <1>1, <1>4, <1>7, LoopEvent
<1>9. PICK r : r = row["event"]
  OBVIOUS
<1>10. r \in Row /\ Names(r)
  BY <1>3, <1>9, RowNames DEF Types, RowsOK, RowOK
<1>11. GoOn(u) => updater'[u].pc = "waiting"
  BY DEF GoOn, Go, Waiting, Types, LoopsOK
<1>12. CASE ReadRow(u)
  <2>1. row'["event"] = r /\ UNCHANGED <<messages, bare>> /\ up.pc = "waiting" /\ up.page = 1
    BY <1>1, <1>2, <1>9, <1>12 DEF ReadRow, At, UpdaterOK
  <2>2. ASSUME Calm("event"), ~early'
        PROVE  RowShows(r) /\ RowShows(r)'
    <3>1. RowShows(r)
      BY <1>3, <1>5, <1>9, <2>2 DEF EventOK
    <3> QED
      BY <1>4, <2>1, <3>1 DEF RowShows, OverIn, Faces, Live
  <2>3. ASSUME Calm("event"), ~early', NEW c \in Working("event")
        PROVE  CommandShows(command[c])' /\ (r.last > endDate => command[c].over)
    <3>1. CommandShows(command[c]) /\ (r.last > endDate => command[c].over)
      BY <1>3, <1>5, <1>9, <2>3 DEF EventOK
    <3> QED
      BY <1>4, <2>1, <3>1 DEF CommandShows, OverIn, Recorded, Live
  <2>4. ASSUME Calm("event"), ~early', ~GoOn(u)
        PROVE  LoopShows(updater[u])' /\ (r.last > endDate => updater'[u].over)
    <3>1. PICK new : new = [up EXCEPT !.row = r, !.over = Ended("event"), !.total = PageCount("event"),
                                      !.pc = "editing"]
      OBVIOUS
    <3>2. Go(u, new)
      BY <1>1, <1>2, <1>9, <1>12, <2>4, <3>1 DEF ReadRow
    <3>3. new.page = 1 /\ new.pc = "editing" /\ new.over = Ended("event")
      BY <1>2, <2>1, <3>1 DEF UpdaterOK, UpdaterRecords
    <3>4. updater'[u] = new
      BY <3>2 DEF Go, Types, LoopsOK
    <3>5. LoopShows(updater[u])'
      BY <3>3, <3>4 DEF LoopShows
    <3>6. r.last > endDate => Ended("event")
      BY <2>2, <2>4 DEF RowShows, Ended
    <3> QED
      BY <3>3, <3>4, <3>5, <3>6
  <2>5. LoopSays(u, r)
    BY <1>11, <2>2, <2>3, <2>4 DEF LoopSays
  <2> QED
    BY <1>8, <2>1, <2>5
<1>13. CASE ~ReadRow(u)
  <2>1. up.pc # "waiting" /\ u \in Updating("event")
    BY <1>1, <1>2, <1>13 DEF Round, EditPage, EditTrailers, Stamp, At, Updating
  <2>2. Calm("event") => up.row = r /\ Working("event") = {}
    BY <1>1, <1>3, <1>9, <2>1 DEF BoardsOK, BoardOK
  <2>3. Calm("event") /\ ~early' => RowShows(r) /\ LoopShows(up) /\ (r.last > endDate => up.over)
    BY <1>1, <1>3, <1>5, <1>9, <2>1 DEF EventOK
  <2>4. up.row.pages # <<>> /\ Names(up.row)
    BY <1>2, <2>1, RowNames DEF UpdaterOK, Paged, UpdaterRecords
  <2>5. up.row.pages[1] \in Ids /\ {up.row.card, up.row.status} \subseteq {0} \cup Ids
    BY <2>4, RecordedNames DEF Names
\* An edit shows what the loop saw.
  <2>6. ASSUME \A i \in Live \cap Live' : messages'[i].over \in {messages[i].over, up.over},
               \A i \in bare \ bare' : i \in Live' => messages'[i].over = up.over
        PROVE  Calm("event") /\ ~early' => RowShows(r)'
    <3> SUFFICES ASSUME Calm("event"), ~early', r.last > endDate
                 PROVE  event' = "ended" /\ OverIn(Faces(r) \ bare, TRUE)'
      BY <1>4 DEF RowShows
    <3>1. PICK ids : ids = Faces(r) \ bare
      OBVIOUS
    <3>2. up.over = TRUE /\ event = "ended" /\ OverIn(ids, TRUE)
      BY <1>2, <2>3, <3>1 DEF RowShows
    <3>3. ids \subseteq {0} \cup Ids
      BY <1>10, <3>1, RecordedNames
    <3>4. OverIn(ids, TRUE)'
      BY <1>6, <2>6, <3>2, <3>3, OverStays
    <3>5. ASSUME NEW i \in Faces(r) \ bare', i \in Live'
          PROVE  messages'[i].over = TRUE
      <4>1. CASE i \in ids
        BY <3>4, <3>5, <4>1 DEF OverIn
      <4>2. CASE i \notin ids
        BY <2>6, <3>1, <3>2, <3>5, <4>2
      <4> QED
        BY <4>1, <4>2
    <3> QED
      BY <1>4, <3>2, <3>5 DEF OverIn, Faces
  <2>7. PICK first : first = {up.row.pages[1]}
    OBVIOUS
  <2>8. PICK over : over = up.over
    OBVIOUS
  <2>9. ASSUME \A i \in Live \cap Live' : messages'[i].over \in {messages[i].over, up.over}, OverIn(first, over)
        PROVE  OverIn(first, over)'
    <3>1. first \subseteq {0} \cup Ids
      BY <2>5, <2>7
    <3> QED
      BY <1>6, <2>8, <2>9, <3>1, OverStays
  <2>10. CASE EditPage(u)
    <3>1. up.pc = "editing" /\ row'["event"] = r /\ bare' = bare
      BY <1>1, <1>9, <2>10 DEF EditPage, At, history
    <3>2. PICK id : id = up.row.pages[up.page]
      OBVIOUS
    <3>3. messages' = Edited(id, Shows("page", up.kind, up.page, up.over))
      BY <1>1, <2>10, <3>2 DEF EditPage
    <3>4. /\ \A i \in Live \cap Live' : messages'[i].over \in {messages[i].over, up.over}
          /\ id \in Live' => messages'[id].over = up.over
      <4>1. CASE id \in Live
        BY <3>3, <4>1 DEF Edited, Shows, Live
      <4>2. CASE id \notin Live
        BY <3>3, <4>2 DEF Edited, Live
      <4> QED
        BY <4>1, <4>2
    <3>5. PICK new : new = PageDone(up)
      OBVIOUS
    <3>6. /\ updater'[u] = new /\ new.row = up.row /\ new.over = up.over
          /\ new.pc \in {"editing", "closing"}
      <4>1. Go(u, new)
        BY <1>1, <2>10, <3>5 DEF EditPage
      <4> QED
        BY <1>2, <3>1, <3>5, <4>1, PageDoneOK DEF Go, Types, LoopsOK
    <3>7. ASSUME Calm("event"), ~early'
          PROVE  LoopShows(updater[u])'
      <4>1. OverIn(first, over)'
        <5>1. CASE up.page = 1
          BY <2>7, <2>8, <3>2, <3>4, <5>1 DEF OverIn
        <5>2. CASE up.page # 1
          <6>1. up.page > 1
            BY <1>2, <5>2 DEF UpdaterOK, UpdaterRecords
          <6>2. OverIn(first, over)
            BY <2>3, <2>7, <2>8, <3>7, <6>1 DEF LoopShows
          <6> QED
            BY <2>9, <3>4, <6>2
        <5> QED
          BY <5>1, <5>2
      <4> QED
        BY <2>7, <2>8, <3>6, <4>1 DEF LoopShows, OverIn
    <3>8. LoopSays(u, r)
      BY <2>2, <2>3, <2>6, <3>1, <3>4, <3>6, <3>7 DEF LoopSays
    <3> QED
      BY <1>8, <3>1, <3>8
  <2>11. CASE EditTrailers(u)
    <3>1. up.pc = "closing" /\ row'["event"] = r
      BY <1>1, <1>9, <2>11 DEF EditTrailers, At
    <3>2. PICK found, left : /\ found = {up.row.status, up.row.card} \cap Live
                             /\ messages' = Redrawn(found \ left, up)
                             /\ \/ left = {} /\ bare' = bare \ found
                                \/ left = {up.row.card} /\ bare' = bare \cup left
      <4>1. PICK found : found = {up.row.status, up.row.card} \cap Live
        OBVIOUS
      <4>2. PICK left \in SUBSET found :
               /\ messages' = Redrawn(found \ left, up)
               /\ \/ left = {} /\ bare' = bare \ found
                  \/ left = {up.row.card} /\ bare' = bare \cup left
                  \/ Fails
        BY <1>1, <1>2, <2>11, <4>1 DEF EditTrailers
      <4> QED
        BY <4>1, <4>2 DEF Fails
    <3>3. /\ \A i \in Live \cap Live' : messages'[i].over \in {messages[i].over, up.over}
          /\ \A i \in bare \ bare' : i \in Live' => messages'[i].over = up.over
          /\ \A i \in {up.row.card, up.row.status} \ bare' : i \in Live' => messages'[i].over = up.over
      BY <1>2, <3>2 DEF Redrawn, Shows, Live
    <3>4. PICK new : new = [up EXCEPT !.pc = "stamping"]
      OBVIOUS
    <3>5. updater'[u] = new /\ new.row = up.row /\ new.over = up.over
      <4>1. Go(u, new)
        BY <1>1, <1>2, <2>11, <3>4 DEF EditTrailers
      <4>2. new.row = up.row /\ new.over = up.over
        BY <1>2, <3>4 DEF UpdaterOK, UpdaterRecords
      <4> QED
        BY <4>1, <4>2 DEF Go, Types, LoopsOK
    <3>6. ASSUME Calm("event"), ~early'
          PROVE  LoopShows(updater[u])'
      <4>1. OverIn(first, over)
        BY <2>3, <2>7, <2>8, <3>1, <3>6 DEF LoopShows
      <4>2. OverIn(first, over)'
        BY <2>9, <3>3, <4>1
      <4> QED
        BY <2>7, <2>8, <3>3, <3>5, <4>2 DEF LoopShows, OverIn
    <3>7. LoopSays(u, r)
      BY <2>2, <2>3, <2>6, <3>3, <3>5, <3>6 DEF LoopSays
    <3> QED
      BY <1>8, <3>1, <3>7
  <2>12. CASE Stamp(u)
    <3>1. PICK s : s = Stamped("event", up.row)
      OBVIOUS
    <3>2. row'["event"] = s /\ GoOn(u) /\ UNCHANGED <<messages, bare>> /\ up.pc = "stamping"
      BY <1>1, <1>2, <1>3, <2>12, <3>1 DEF Stamp, Kinds, At
    <3>3. up.row = r => s = [r EXCEPT !.pages = r.pages, !.last = clock]
      BY <1>2, <1>9, <2>1, <3>1 DEF Stamped, UpdaterOK
    <3>4. up.row = r => s.pages = up.row.pages /\ s.card = up.row.card /\ s.status = up.row.status /\ s.last = clock
      BY <1>10, <3>3 DEF Row
    <3>5. ~early' => ~TooEarly("event", up.over)
      BY <1>1, <1>2, <2>12, Zenon DEF Stamp
    <3>6. ASSUME Calm("event"), ~early'
          PROVE  RowShows(s)'
      <4> SUFFICES ASSUME s.last > endDate
                   PROVE  event' = "ended" /\ OverIn(Faces(s) \ bare, TRUE)'
        BY <1>4 DEF RowShows
      <4>1. up.over = TRUE /\ event' = "ended"
        BY <1>2, <1>4, <2>2, <3>4, <3>5, <3>6 DEF TooEarly
      <4>2. OverIn({up.row.pages[1]}, TRUE) /\ OverIn({up.row.card, up.row.status} \ bare, TRUE)
        BY <2>3, <3>2, <3>6, <4>1 DEF LoopShows
      <4>3. Faces(s) = {up.row.pages[1], up.row.card, up.row.status}
        BY <2>2, <2>4, <3>4, <3>6 DEF Faces
      <4>4. PICK ids : ids = Faces(s) \ bare
        OBVIOUS
      <4>5. OverIn(ids, TRUE)'
        BY <3>2, <4>2, <4>3, <4>4 DEF OverIn, Live
      <4> QED
        BY <3>2, <4>1, <4>4, <4>5 DEF OverIn, Faces
    <3>7. LoopSays(u, s)
      BY <1>11, <2>2, <3>2, <3>6 DEF LoopSays
    <3> QED
      BY <1>8, <3>2, <3>7
  <2> QED
    BY <1>13, <2>10, <2>11, <2>12 DEF Round
<1> QED
  BY <1>12, <1>13

LEMMA StepEvent == Types /\ AllFit /\ BoardsOK /\ OverSince /\ EventOK /\ [Next]_vars => EventOK'
<1> SUFFICES ASSUME Types, AllFit, BoardsOK, OverSince, EventOK, [Next]_vars, "event" \in Kinds
             PROVE  EventOK'
  BY KindsStay DEF EventOK
<1>1. Types' /\ Lasting
  BY StepTypes, StepLasts
<1>2. CASE lost'
  BY <1>2 DEF EventOK, Calm
<1>3. Apart("event") => EventOK'
  BY <1>1, EventApart
<1>4. CASE UNCHANGED <<row, messages, command, updater, met, lost, bare>>
  BY <1>3, <1>4 DEF Apart, LiveOf, Live
<1>5. CASE ~lost' /\ \E c \in Commands : CommandStep(c)
  <2>1. PICK c \in Commands : CommandStep(c)
    BY <1>5
  <2>2. lost' = lost
    BY <1>5, <2>1 DEF CommandStep, Look, DeleteMessages, DropRow, PostPage, PostTrailers, StoreRow,
       Fails, history
  <2>3. CASE command[c].kind = "event"
    BY <1>1, <2>1, <2>2, <2>3, CommandKeepsEvent
  <2>4. CASE command[c].kind # "event"
    <3>1. command'[c].kind # "event"
      BY <2>1, <2>4, CommandStays
    <3> QED
      BY <1>3, <1>5, <2>1, <2>4, <3>1, CommandApart
  <2> QED
    BY <2>3, <2>4
<1>6. CASE ~lost' /\ \E c \in Commands : \E j \in Kinds : Post(c, j) \/ Remove(c, j)
  <2>1. PICK c \in Commands, j \in Kinds, goal \in {"post", "remove"} : Start(c, j, goal) /\ (Post(c, j) \/ Remove(c, j))
    BY <1>6 DEF Post, Remove
  <2>2. CASE j = "event"
    BY <2>1, <2>2, StartKeepsEvent
  <2>3. CASE j # "event"
    <3>1. command[c].kind # "event"
      BY <2>1 DEF Start, Types, CommandsOK, CommandOK
    <3>2. command'[c].kind # "event"
      BY <2>1, <2>3 DEF Start, Types, CommandsOK, NoCommand
    <3> QED
      BY <1>3, <1>6, <2>1, <3>1, <3>2, CommandApart
  <2> QED
    BY <2>2, <2>3
<1>7. CASE ~lost' /\ \E u \in Loops : Round(u)
  <2>1. PICK u \in Loops : Round(u)
    BY <1>7
  <2>2. CASE updater[u].kind = "event"
    BY <1>1, <1>7, <2>1, <2>2, LoopKeepsEvent
  <2>3. CASE updater[u].kind # "event"
    BY <1>3, <1>7, <2>1, <2>3, LoopApart
  <2> QED
    BY <2>2, <2>3
<1>8. (\E c \in Commands : FailCommand(c)) \/ (\E u \in Loops : FailUpdate(u) \/ SkipPage(u)) \/ Restart => lost'
  BY DEF FailCommand, FailUpdate, SkipPage, Restart, Fails
<1>9. EventStep \/ UNCHANGED vars => UNCHANGED <<row, messages, command, updater, met, lost, bare>>
  BY EventLeaves DEF vars, history
<1> QED
  BY <1>2, <1>4, <1>5, <1>6, <1>7, <1>8, <1>9 DEF Next, EventStep, Dates

LEMMA InitEvent == Init => OverSince /\ EventOK
<1> SUFFICES ASSUME Init
             PROVE  OverSince /\ EventOK
  OBVIOUS
<1>1. OverSince
  BY DEF Init, OverSince, NoCommand, Waiting
<1>2. ASSUME "event" \in Kinds
      PROVE  row["event"].last = 0
  BY <1>2 DEF Init, Kinds, NoRow
<1>3. ~(0 > endDate)
  BY TimeAssumption DEF Init
<1>4. Live = {}
  BY DEF Init, Live
<1>5. Updating("event") = {}
  BY DEF Init, Updating, Waiting
<1>6. EventOK
  BY <1>2, <1>3, <1>4, <1>5 DEF EventOK, RowShows, CommandShows, OverIn
<1> QED
  BY <1>1, <1>6

LEMMA EventFinal == Types /\ AllFit /\ BoardsOK /\ Cards /\ EventOK => FrozenIsFinal
<1> SUFFICES ASSUME Types, AllFit, BoardsOK, Cards, EventOK, "event" \in Kinds, row["event"] # NoRow,
                    Frozen(row["event"]), Quiet("event"), ~early, NEW r, r = row["event"],
                    NEW i \in ({r.pages[1], r.status} \cup ({r.card} \ bare)) \ {0}
             PROVE  messages[i].over
  BY Zenon DEF FrozenIsFinal
<1>1. r \in Row /\ RowOK("event", r) /\ r.last > endDate
  BY DEF Types, RowsOK, RowOK, Frozen
<1>2. r.pages # <<>> /\ 1 \in DOMAIN r.pages
  BY <1>1 DEF RowOK, Paged, Row
<1>3. i \in Recorded(r) /\ i \in Faces(r)
  BY <1>2 DEF Recorded, Faces
<1>4. i \in Live
  BY <1>3, BoardsPosted DEF PostedIsRecorded, LiveOf
<1>5. OverIn(Faces(r) \ bare, TRUE)
  BY <1>1 DEF EventOK, RowShows, Quiet, Calm
<1>6. i \notin bare
  <2>1. Fits(r, "event")
    BY DEF AllFit
  <2>2. i \in bare => messages[i].what = "card"
    BY <1>4 DEF Cards
  <2> QED
    BY <1>2, <1>4, <2>1, <2>2 DEF Fits, Is
<1> QED
  BY <1>3, <1>4, <1>5, <1>6 DEF OverIn

(***************************************************************************)
(* The invariants together, and what follows from them.                    *)
(***************************************************************************)
Inv == Types /\ AllFit /\ BoardsOK /\ Counts /\ Cards /\ OverSince /\ EventOK

LEMMA InvHolds == Spec => []Inv
<1>1. Init => Inv
  BY InitTypes, InitFits, InitBoards, InitEvent DEF Inv, Counts, Cards, Init, Live
<1>2. Inv /\ [Next]_vars => Inv'
  BY StepTypes, StepFits, StepBoards, StepCounts, StepCards, StepOver, StepEvent DEF Inv
<1> QED
  BY <1>1, <1>2, PTL DEF Spec

\* The variables keep their types: rows and tasks name only messages that were posted,
\* and a leaderboard has a page and no more of them than its places need.
THEOREM TypesKept == Spec => []TypeOK
<1>1. Inv => TypeOK
  BY TypesImplyTypeOK DEF Inv
<1> QED
  BY <1>1, InvHolds, PTL

\* A board on whose row no two tasks met, with nothing failed, has in Discord the
\* messages its row names and no others, however many commands were run on it.
THEOREM BoardsAlwaysRecorded == Spec => []PostedIsRecorded
<1>1. Inv => PostedIsRecorded
  BY BoardsPosted DEF Inv
<1> QED
  BY <1>1, InvHolds, PTL

\* The pages of such a board that were rendered from one and the same standings show
\* every place once, for every page size: generate_event_leaderboard_page cuts them alike.
THEOREM PagesAlwaysAgree == Spec => []PagesAgree
<1>1. Inv => PagesAgree
  BY PagesShare DEF Inv
<1> QED
  BY <1>1, InvHolds, PTL

\* update_single_event_leaderboard: a board that the loop leaves alone, since it was
\* written after the end date, says on its first page, its status message and its card
\* that the event has ended, wherever the end date is moved to.  Excepted are the boards
\* FrozenIsFinal excepts: one on which tasks met or something failed, a row written
\* between the end date and the status flip or passed over by an end date that was moved
\* back (early), and a card whose milestones are gone (bare).
THEOREM FrozenAlwaysFinal == Spec => []FrozenIsFinal
<1>1. Inv => FrozenIsFinal
  BY EventFinal DEF Inv
<1> QED
  BY <1>1, InvHolds, PTL
=============================================================================
