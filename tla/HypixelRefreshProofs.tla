------------------------ MODULE HypixelRefreshProofs ------------------------
(***************************************************************************)
(* For any number of refreshes of a player, of counters and of multipliers *)
(* of either sign: the rows keep their types, the total is the sum of the  *)
(* ledger but for batches that did not earn, the level is the total's, and *)
(* the refreshes implement XpLedger.  Nothing is assumed for this of the   *)
(* API or of overlaps.                                                     *)
(*                                                                         *)
(* And which units are credited: if the API never answers with an old      *)
(* reading and the refreshes of a player never overlap, every unit between *)
(* the oldest and the newest snapshot is in the ledger, pending or         *)
(* dropped, and the ledger never exceeds what was played.  The argument:   *)
(* while one refresh is in flight its reading, and the cached one, are at  *)
(* least the newest snapshot, and its rows are stamped later than every    *)
(* row stored.                                                             *)
(***************************************************************************)
EXTENDS HypixelRefresh, XpRulesProofs

\* What a task may push: a delta of a stat its configuration names, that grew.
Growth(cfg) == {d \in Deltas : d.stat \in DOMAIN cfg /\ d.old < d.new}

\* A task's copies are consistent, and it holds deltas only inside the loop.
StateOK(st) ==
  /\ st \in TaskStates
  /\ st.todo \cup st.cur \subseteq DOMAIN st.cfg
  /\ \A s \in st.todo \cup st.cur : st.seen[s] # Absent
  /\ st.deltas \in Seq(Growth(st.cfg))
  /\ st.phase \notin {"reading", "recording"} => st.todo = {} /\ st.deltas = <<>>
  /\ st.phase # "recording" => st.cur = {}

LEMMA ConfigFacts ==
  ASSUME NEW cfg \in Configs
  PROVE  DOMAIN cfg \subseteq Stats /\ \A s \in DOMAIN cfg : cfg[s] \in Int
BY MultipliersAssumption DEF Configs

LEMMA ProductInt == \A a \in Nat, b \in Int : a * b \in Int
OBVIOUS

LEMMA IdleType ==
  /\ Idle \in TaskStates
  /\ Idle.todo = {} /\ Idle.cur = {} /\ Idle.deltas = <<>> /\ Idle.phase = "idle"
<1> DEFINE none == [s \in {} |-> 0]
<1>1. none \in [{} -> Multipliers]
  OBVIOUS
<1>2. none \in Configs
  <2>1. [{} -> Multipliers] \in {[D -> Multipliers] : D \in SUBSET Stats}
    OBVIOUS
  <2> QED BY <1>1, <2>1 DEF Configs
<1>3. EmptyReading \in Readings
  BY BoundsAssumption DEF EmptyReading, Readings
<1> HIDE DEF none
<1>4. Idle = [phase |-> "idle", seen |-> EmptyReading, cfg |-> none, now |-> 0,
              todo |-> {}, cur |-> {}, prev |-> Absent, deltas |-> <<>>]
  BY DEF Idle, none
<1> QED BY <1>2, <1>3, <1>4 DEF TaskStates, Phases

LEMMA IdleOK == StateOK(Idle)
<1>1. <<>> \in Seq(Growth(Idle.cfg))
  OBVIOUS
<1> QED BY <1>1, IdleType DEF StateOK

LEMMA CommittedOK == StateOK(Committed)
BY IdleOK, IdleType DEF Committed, StateOK, TaskStates, Phases

\* The rewards of a batch are ledger rows, one per delta, of the same units.
LEMMA RewardsType ==
  ASSUME NEW cfg \in Configs, NEW deltas \in Seq(Growth(cfg))
  PROVE  /\ CalculateXpRewards(deltas, cfg) \in Seq(LedgerRows)
         /\ Len(CalculateXpRewards(deltas, cfg)) = Len(deltas)
         /\ \A i \in 1..Len(deltas) :
              /\ CalculateXpRewards(deltas, cfg)[i].stat = deltas[i].stat
              /\ CalculateXpRewards(deltas, cfg)[i].old = deltas[i].old
              /\ CalculateXpRewards(deltas, cfg)[i].new = deltas[i].new
<1> DEFINE n == Len(deltas)
           row(i) == [stat |-> deltas[i].stat, old |-> deltas[i].old, new |-> deltas[i].new,
                      earned |-> (deltas[i].new - deltas[i].old) * cfg[deltas[i].stat]]
           R == CalculateXpRewards(deltas, cfg)
<1>1. n \in Nat /\ DOMAIN deltas = 1..n /\ \A i \in 1..n : deltas[i] \in Growth(cfg)
  BY LenProperties, ElementOfSeq
<1>2. R = [i \in 1..n |-> row(i)]
  BY <1>1 DEF CalculateXpRewards
<1>3. ASSUME NEW i \in 1..n
      PROVE  row(i) \in LedgerRows
  <2>1. /\ deltas[i].stat \in DOMAIN cfg /\ deltas[i].stat \in Stats
        /\ deltas[i].old \in Nat /\ deltas[i].new \in Nat /\ deltas[i].old < deltas[i].new
    BY <1>1 DEF Growth, Deltas
  <2>2. deltas[i].new - deltas[i].old \in Nat /\ cfg[deltas[i].stat] \in Int
    BY <2>1, ConfigFacts
  <2>3. (deltas[i].new - deltas[i].old) * cfg[deltas[i].stat] \in Int
    BY <2>2, ProductInt
  <2> QED BY <2>1, <2>3 DEF LedgerRows
<1> HIDE DEF n, R
<1>4. R \in [1..n -> LedgerRows]
  BY <1>2, <1>3
<1>5. R \in Seq(LedgerRows) /\ Len(R) = n
  BY <1>1, <1>4
<1>6. \A i \in 1..n : R[i] = row(i)
  BY <1>2
<1>7. ASSUME NEW i \in 1..n
      PROVE  R[i].stat = deltas[i].stat /\ R[i].old = deltas[i].old /\ R[i].new = deltas[i].new
  <2>1. R[i] = row(i)
    BY <1>6
  <2> QED BY <2>1
<1> HIDE DEF row
<1> QED BY <1>5, <1>7 DEF n, R

-----------------------------------------------------------------------------
\* A stat's rows, if it has any, have a newest one.
HasLatest(R) == R # {} => \E r \in R : \A q \in R : q.at <= r.at

TypesInv ==
  /\ TypeOK
  /\ \A t \in Tasks : StateOK(task[t])
  /\ \A s \in Stats : HasLatest(snapshots[s])

LEMMA LatestValueType ==
  ASSUME NEW R \in SUBSET SnapshotRows, HasLatest(R)
  PROVE  LatestValue(R) \in Nat \cup {Absent}
<1>1. CASE R = {}
  BY <1>1 DEF LatestValue
<1>2. CASE R # {}
  <2>1. Latest(R) \in R
    BY <1>2 DEF HasLatest, Latest
  <2> QED BY <1>2, <2>1 DEF LatestValue, SnapshotRows
<1> QED BY <1>1, <1>2

LEMMA TypesInit == Init => TypesInv
<1> SUFFICES ASSUME Init PROVE TypesInv
  OBVIOUS
<1>1. snapshots \in [Stats -> SUBSET SnapshotRows]
  <2>1. {{}} \cup {{[at |-> 0, val |-> v]} : v \in 0..MaxStat} \subseteq SUBSET SnapshotRows
    BY BoundsAssumption DEF SnapshotRows
  <2> QED BY <2>1 DEF Init
<1>2. xp \in [total : Nat, level : 1..LevelCap]
  BY LevelAssumption DEF Init
<1>3. task \in [Tasks -> TaskStates]
  BY IdleType DEF Init
<1>4. ledger \in Seq(LedgerRows)
  BY DEF Init
<1>5. cached \subseteq Readings /\ api \in [Stats -> 0..MaxStat] /\ config \in Configs
  BY DEF Init
<1>6. edits \in Nat /\ clock \in Nat /\ overlapped \in BOOLEAN
  BY DEF Init
<1>7. pending \in [Stats -> Int] /\ dropped \in [Stats -> Int] /\ withheld \in Int
  BY DEF Init
<1>8. TypeOK
  BY <1>1, <1>2, <1>3, <1>4, <1>5, <1>6, <1>7 DEF TypeOK
<1>9. ASSUME NEW t \in Tasks PROVE StateOK(task[t])
  BY IdleOK DEF Init
<1>10. ASSUME NEW s \in Stats PROVE HasLatest(snapshots[s])
  <2>1. snapshots[s] = {} \/ \E v \in 0..MaxStat : snapshots[s] = {[at |-> 0, val |-> v]}
    BY DEF Init
  <2> QED BY <2>1 DEF HasLatest
<1> QED BY <1>8, <1>9, <1>10 DEF TypesInv

LEMMA AddedHasLatest ==
  ASSUME NEW R \in SUBSET SnapshotRows, HasLatest(R), NEW row \in SnapshotRows
  PROVE  HasLatest(R \cup {row})
<1>1. CASE R = {}
  BY <1>1 DEF HasLatest, SnapshotRows
<1>2. CASE R # {}
  <2>1. PICK r \in R : \A q \in R : q.at <= r.at
    BY <1>2 DEF HasLatest
  <2>2. CASE row.at <= r.at
    BY <2>1, <2>2 DEF HasLatest
  <2>3. CASE ~(row.at <= r.at)
    <3>1. \A q \in R \cup {row} : q.at <= row.at
      BY <2>1, <2>3 DEF SnapshotRows
    <3> QED BY <3>1 DEF HasLatest
  <2> QED BY <2>2, <2>3
<1> QED BY <1>1, <1>2

LEMMA RowEarned == \A r \in LedgerRows : r.earned \in Int
BY DEF LedgerRows

\* The function that counts a row's units of s.
UnitsFn(s, R) == [r \in R |-> IF r.stat = s THEN r.new - r.old ELSE 0]

LEMMA UnitsMapped ==
  ASSUME NEW s, NEW R, \A r \in R : r.old \in Nat /\ r.new \in Nat, NEW q \in Seq(R)
  PROVE  /\ UnitsFn(s, R) \in [R -> Int]
         /\ UnitsOf(s, q) = Mapped(UnitsFn(s, R), q)
         /\ UnitsOf(s, q) \in Seq(Int)
<1>1. UnitsFn(s, R) \in [R -> Int]
  BY DEF UnitsFn
<1>2. Len(q) \in Nat /\ DOMAIN q = 1..Len(q) /\ \A i \in 1..Len(q) : q[i] \in R
  BY LenProperties, ElementOfSeq
<1>3. UnitsOf(s, q) = Mapped(UnitsFn(s, R), q)
  BY <1>2 DEF UnitsOf, Mapped, UnitsFn
<1> DEFINE n == Len(q)
<1>4. UnitsOf(s, q) = [i \in 1..n |-> IF q[i].stat = s THEN q[i].new - q[i].old ELSE 0]
  BY <1>2 DEF UnitsOf
<1>5. n \in Nat /\ \A i \in 1..n : q[i].new - q[i].old \in Int
  BY <1>2
<1> HIDE DEF n
<1>6. UnitsOf(s, q) \in [1..n -> Int]
  BY <1>4, <1>5
<1>7. UnitsOf(s, q) \in Seq(Int)
  BY <1>5, <1>6
<1> QED BY <1>1, <1>3, <1>7

LEMMA UnitsInt ==
  ASSUME NEW s, NEW q \in Seq(Deltas)
  PROVE  Units(s, q) \in Int
<1>1. \A r \in Deltas : r.old \in Nat /\ r.new \in Nat
  BY DEF Deltas
<1> QED BY <1>1, UnitsMapped, SeqSumType DEF Units

\* One task moves to a well-formed state; the others keep theirs.
LEMMA TaskUpdate ==
  ASSUME TypesInv, NEW t \in Tasks, NEW new, StateOK(new), task' = [task EXCEPT ![t] = new]
  PROVE  task' \in [Tasks -> TaskStates] /\ \A u \in Tasks : StateOK(task'[u])
BY DEF TypesInv, TypeOK, StateOK

LEMMA TypesTaskStep ==
  ASSUME TypesInv, NEW t \in Tasks, TaskStep(t)
  PROVE  TypesInv'
<1> DEFINE TasksOK == task' \in [Tasks -> TaskStates] /\ \A u \in Tasks : StateOK(task'[u])
<1>0. StateOK(task[t]) /\ task[t] \in TaskStates
  BY DEF TypesInv, StateOK
<1>1. CASE Begin(t)
  <2> DEFINE new == [Idle EXCEPT !.phase = "begun"]
  <2>1. StateOK(new)
    BY IdleOK, IdleType DEF StateOK, TaskStates, Phases
  <2>2. task' = [task EXCEPT ![t] = new]
    BY <1>1 DEF Begin
  <2> HIDE DEF new
  <2>3. TasksOK
    BY <2>1, <2>2, TaskUpdate
  <2> QED BY <1>1, <2>3 DEF Begin, rows, TypesInv, TypeOK
<1>2. CASE FetchCached(t)
  <2>1. PICK r \in cached :
          task' = [task EXCEPT ![t] = [@ EXCEPT !.phase = "fetched", !.seen = r]]
    BY <1>2 DEF FetchCached
  <2> DEFINE new == [task[t] EXCEPT !.phase = "fetched", !.seen = r]
  <2>2. r \in Readings
    BY DEF TypesInv, TypeOK
  <2>3. task[t].phase = "begun"
    BY <1>2 DEF FetchCached
  <2>4. StateOK(new)
    BY <1>0, <2>2, <2>3 DEF StateOK, TaskStates, Phases, Growth
  <2>5. task' = [task EXCEPT ![t] = new]
    BY <2>1
  <2> HIDE DEF new
  <2>6. TasksOK
    BY <2>4, <2>5, TaskUpdate
  <2> QED BY <1>2, <2>6 DEF FetchCached, rows, history, TypesInv, TypeOK
<1>3. CASE FetchPlayer(t)
  <2>1. PICK r \in Answers :
          task' = [task EXCEPT ![t] = [@ EXCEPT !.phase = "waiting", !.seen = r]]
    BY <1>3 DEF FetchPlayer
  <2> DEFINE new == [task[t] EXCEPT !.phase = "waiting", !.seen = r]
  <2>2. r \in Readings
    <3>1. EmptyReading \in Readings
      BY DEF EmptyReading, Readings
    <3> QED BY <3>1 DEF Answers
  <2>3. task[t].phase = "begun"
    BY <1>3 DEF FetchPlayer
  <2>4. StateOK(new)
    BY <1>0, <2>2, <2>3 DEF StateOK, TaskStates, Phases, Growth
  <2>5. task' = [task EXCEPT ![t] = new]
    BY <2>1
  <2> HIDE DEF new
  <2>6. TasksOK
    BY <2>4, <2>5, TaskUpdate
  <2> QED BY <1>3, <2>6 DEF FetchPlayer, rows, history, TypesInv, TypeOK
<1>4. CASE CacheResponse(t)
  <2> DEFINE new == [task[t] EXCEPT !.phase = "fetched"]
  <2>1. task[t].phase = "waiting"
    BY <1>4 DEF CacheResponse
  <2>2. StateOK(new)
    BY <1>0, <2>1 DEF StateOK, TaskStates, Phases, Growth
  <2>3. task' = [task EXCEPT ![t] = new]
    BY <1>4 DEF CacheResponse
  <2> HIDE DEF new
  <2>4. TasksOK
    BY <2>2, <2>3, TaskUpdate
  <2>5. cached' \subseteq Readings
    BY <1>0, <1>4 DEF CacheResponse, TaskStates
  <2> QED BY <1>4, <2>4, <2>5 DEF CacheResponse, rows, history, TypesInv, TypeOK
<1>5. CASE LoadGuildConfig(t)
  <2>1. PICK c \in {config, DefaultConfig} :
          task' = [task EXCEPT ![t] =
                     [@ EXCEPT !.phase = "reading", !.cfg = c, !.now = clock + 1,
                               !.todo = {s \in DOMAIN c : Present(task[t].seen, s)}]]
    BY <1>5 DEF LoadGuildConfig
  <2> DEFINE todo == {s \in DOMAIN c : Present(task[t].seen, s)}
             new == [task[t] EXCEPT !.phase = "reading", !.cfg = c, !.now = clock + 1,
                                    !.todo = todo]
  <2>2. c \in Configs
    BY DefaultConfigAssumption DEF TypesInv, TypeOK
  <2>3. todo \subseteq DOMAIN c /\ DOMAIN c \subseteq Stats /\ clock + 1 \in Nat
    BY <2>2, ConfigFacts DEF TypesInv, TypeOK
  <2>4. task[t].phase = "fetched"
    BY <1>5 DEF LoadGuildConfig
  <2>5. <<>> \in Seq(Growth(c))
    OBVIOUS
  <2>6. task' = [task EXCEPT ![t] = new]
    BY <2>1
  <2>9. \A s \in todo : task[t].seen[s] # Absent
    BY DEF Present
  <2> HIDE DEF todo
  <2>7. StateOK(new)
    BY <1>0, <2>2, <2>3, <2>4, <2>5, <2>9 DEF StateOK, TaskStates, Phases
  <2> HIDE DEF new
  <2>8. TasksOK
    BY <2>6, <2>7, TaskUpdate
  <2> QED BY <1>5, <2>3, <2>8 DEF LoadGuildConfig, rows, history, TypesInv, TypeOK
<1>6. CASE \E s \in Stats : ReadLatest(t, s)
  <2>1. PICK s \in Stats : ReadLatest(t, s)
    BY <1>6
  <2> DEFINE new == [task[t] EXCEPT !.phase = "recording", !.cur = {s},
                                    !.prev = LatestValue(snapshots[s])]
  <2>2. task[t].phase = "reading" /\ s \in task[t].todo
    BY <2>1 DEF ReadLatest
  <2>3. LatestValue(snapshots[s]) \in Nat \cup {Absent}
    BY LatestValueType DEF TypesInv, TypeOK
  <2>4. StateOK(new)
    BY <1>0, <2>2, <2>3 DEF StateOK, TaskStates, Phases
  <2>5. task' = [task EXCEPT ![t] = new]
    BY <2>1 DEF ReadLatest
  <2> HIDE DEF new
  <2>6. TasksOK
    BY <2>4, <2>5, TaskUpdate
  <2> QED BY <2>1, <2>6 DEF ReadLatest, rows, history, TypesInv, TypeOK
<1>7. CASE \E s \in Stats : RecordSnapshot(t, s)
  <2>1. PICK s \in Stats : RecordSnapshot(t, s)
    BY <1>7
  <2> DEFINE old == task[t].prev
             val == task[t].seen[s]
             delta == [stat |-> s, old |-> old, new |-> val]
             deltas == IF Grew(old, val) THEN Append(task[t].deltas, delta)
                       ELSE task[t].deltas
             new == [task[t] EXCEPT !.phase = "reading", !.todo = task[t].todo \ {s}, !.cur = {},
                                    !.prev = Absent, !.deltas = deltas]
             row == [at |-> task[t].now, val |-> val]
  <2>2. task[t].phase = "recording" /\ task[t].cur = {s}
    BY <2>1 DEF RecordSnapshot
  <2>3. old \in Nat \cup {Absent} /\ val \in Nat /\ task[t].now \in Nat
    BY <1>0, <2>2, BoundsAssumption DEF StateOK, TaskStates, Readings
  <2>4. s \in DOMAIN task[t].cfg
    BY <1>0, <2>2 DEF StateOK
  <2>5. /\ task' = [task EXCEPT ![t] = new]
        /\ snapshots' = [snapshots EXCEPT ![s] = Stored(snapshots[s], old, row)]
    <3>1. task' = [task EXCEPT ![t] = new]
      BY <2>1 DEF RecordSnapshot
    <3>2. snapshots' = [snapshots EXCEPT ![s] = Stored(@, old, row)]
      BY <2>1, Zenon DEF RecordSnapshot
    <3> HIDE DEF new, old, row
    <3> QED BY <3>1, <3>2
  <2> HIDE DEF old, val
  <2>6. Grew(old, val) => delta \in Growth(task[t].cfg)
    BY <2>3, <2>4 DEF Grew, Growth, Deltas
  <2>7. deltas \in Seq(Growth(task[t].cfg)) /\ deltas \in Seq(Deltas)
    <3>1. task[t].deltas \in Seq(Growth(task[t].cfg)) /\ task[t].deltas \in Seq(Deltas)
      BY <1>0 DEF StateOK, TaskStates
    <3>2. delta \in Growth(task[t].cfg) => delta \in Deltas
      BY DEF Growth
    <3> HIDE DEF delta
    <3>3. CASE Grew(old, val)
      <4>1. deltas = Append(task[t].deltas, delta)
        BY <3>3
      <4> QED BY <2>6, <3>1, <3>2, <3>3, <4>1
    <3>4. CASE ~Grew(old, val)
      BY <3>1, <3>4
    <3> QED BY <3>3, <3>4
  <2> HIDE DEF deltas
  <2>8. StateOK(new)
    BY <1>0, <2>2, <2>7 DEF StateOK, TaskStates, Phases
  <2> HIDE DEF new
  <2>9. TasksOK
    BY <2>5, <2>8, TaskUpdate
  <2>10. row \in SnapshotRows
    BY <2>3 DEF SnapshotRows
  <2> HIDE DEF row
  <2>11. snapshots \in [Stats -> SUBSET SnapshotRows] /\ \A r \in Stats : HasLatest(snapshots[r])
    BY DEF TypesInv, TypeOK
  <2>12. snapshots' \in [Stats -> SUBSET SnapshotRows]
    BY <2>5, <2>10, <2>11 DEF Stored
  <2>13. HasLatest(Stored(snapshots[s], old, row))
    BY <2>10, <2>11, AddedHasLatest DEF Stored
  <2>14. \A r \in Stats : HasLatest(snapshots'[r])
    BY <2>5, <2>11, <2>13
  <2>15. pending' \in [Stats -> Int]
    BY <2>1, <2>3 DEF RecordSnapshot, TypesInv, TypeOK, old, val, Absent
  <2> QED BY <2>1, <2>9, <2>12, <2>14, <2>15 DEF RecordSnapshot, rows, history, TypesInv, TypeOK
<1>8. CASE NothingToApply(t)
  <2>4. TasksOK
    BY <1>8, CommittedOK, TaskUpdate DEF NothingToApply
  <2> QED BY <1>8, <2>4 DEF NothingToApply, rows, history, TypesInv, TypeOK
<1>9. CASE ApplyStatDeltas(t)
  <2> DEFINE batch == CalculateXpRewards(task[t].deltas, task[t].cfg)
             earned == TotalEarned(batch)
  <2>1. /\ LoopDone(t) /\ ledger' = ledger \o batch /\ xp' = XpAfter(earned)
        /\ withheld' = IF earned > 0 THEN withheld ELSE withheld + earned
    BY <1>9 DEF ApplyStatDeltas
  <2>5. TasksOK
    BY <1>9, CommittedOK, TaskUpdate DEF ApplyStatDeltas
  <2>6. batch \in Seq(LedgerRows)
    BY <1>0, RewardsType DEF StateOK, TaskStates
  <2> HIDE DEF batch
  <2>7. ledger' \in Seq(LedgerRows)
    BY <2>1, <2>6, ConcatProperties DEF TypesInv, TypeOK
  <2>8. earned \in Int
    BY <2>6, RowEarned, TotalEarnedInt
  <2> HIDE DEF earned
  <2>9. xp' \in [total : Nat, level : 1..LevelCap] /\ withheld' \in Int
    <3>1. /\ xp \in [total : Nat, level : 1..LevelCap] /\ withheld \in Int
          /\ earned > 0 => xp.total + earned \in Nat
      BY <2>8 DEF TypesInv, TypeOK
    <3> QED BY <2>1, <2>8, <3>1, CalculateLevelInBand DEF XpAfter
  <2>10. pending' \in [Stats -> Int]
    BY <1>0, <1>9, UnitsInt DEF ApplyStatDeltas, TypesInv, TypeOK, TaskStates
  <2> QED BY <1>9, <2>5, <2>7, <2>9, <2>10 DEF ApplyStatDeltas, TypesInv, TypeOK
<1>10. CASE Finish(t)
  <2>1. TasksOK
    BY <1>10, IdleOK, TaskUpdate DEF Finish
  <2> QED BY <1>10, <2>1 DEF Finish, rows, history, TypesInv, TypeOK
<1>11. CASE Fail(t)
  <2>1. TasksOK
    BY <1>11, IdleOK, TaskUpdate DEF Fail
  <2>2. pending' \in [Stats -> Int] /\ dropped' \in [Stats -> Int]
    BY <1>0, <1>11, UnitsInt DEF Fail, TypesInv, TypeOK, TaskStates
  <2> QED BY <1>11, <2>1, <2>2 DEF Fail, rows, TypesInv, TypeOK
<1> QED BY <1>1, <1>2, <1>3, <1>4, <1>5, <1>6, <1>7, <1>8, <1>9, <1>10, <1>11 DEF TaskStep

\* Retention keeps the newest row.
LEMMA PrunedHasLatest ==
  ASSUME NEW R \in SUBSET SnapshotRows, HasLatest(R), NEW cutoff \in Nat
  PROVE  HasLatest(R \ Prunable(R, cutoff))
<1>1. CASE R = {}
  BY <1>1 DEF HasLatest
<1>2. CASE R # {}
  <2>1. PICK r \in R : \A q \in R : q.at <= r.at
    BY <1>2 DEF HasLatest
  <2>2. r \notin Prunable(R, cutoff)
    BY <2>1 DEF Prunable, SnapshotRows
  <2> QED BY <2>1, <2>2 DEF HasLatest
<1> QED BY <1>1, <1>2

LEMMA TypesStep == TypesInv /\ [Next]_vars => TypesInv'
<1> SUFFICES ASSUME TypesInv, [Next]_vars PROVE TypesInv'
  OBVIOUS
<1>1. ASSUME NEW t \in Tasks, TaskStep(t) PROVE TypesInv'
  BY <1>1, TypesTaskStep
<1>2. ASSUME NEW s \in Stats, Play(s) PROVE TypesInv'
  <2>1. api' \in [Stats -> 0..MaxStat]
    BY <1>2, BoundsAssumption DEF Play, TypesInv, TypeOK
  <2> QED BY <1>2, <2>1 DEF Play, rows, history, TypesInv, TypeOK
<1>3. ASSUME NEW c \in Configs, EditConfig(c) PROVE TypesInv'
  BY <1>3 DEF EditConfig, rows, history, TypesInv, TypeOK
<1>4. CASE CacheExpires
  BY <1>4 DEF CacheExpires, rows, history, TypesInv, TypeOK
<1>5. CASE Crash
  <2>1. task' \in [Tasks -> TaskStates] /\ \A t \in Tasks : StateOK(task'[t])
    BY <1>5, IdleOK, IdleType DEF Crash
  <2>2. pending' \in [Stats -> Int] /\ dropped' \in [Stats -> Int]
    BY <1>5 DEF Crash, TypesInv, TypeOK
  <2> QED BY <1>5, <2>1, <2>2 DEF Crash, rows, TypesInv, TypeOK
<1>6. ASSUME NEW cutoff \in 1..MaxClock, Prune(cutoff) PROVE TypesInv'
  <2>1. cutoff \in Nat
    BY BoundsAssumption
  <2>2. \A s \in Stats : /\ snapshots'[s] = snapshots[s] \ Prunable(snapshots[s], cutoff)
                         /\ HasLatest(snapshots'[s])
    BY <1>6, <2>1, PrunedHasLatest DEF Prune, TypesInv, TypeOK
  <2>3. snapshots' \in [Stats -> SUBSET SnapshotRows]
    BY <1>6 DEF Prune, TypesInv, TypeOK
  <2> QED BY <1>6, <2>2, <2>3 DEF Prune, history, TypesInv, TypeOK
<1>7. CASE BoundsSpent
  BY <1>7 DEF BoundsSpent, vars, rows, history, TypesInv, TypeOK
<1>8. CASE UNCHANGED vars
  BY <1>8 DEF vars, rows, history, TypesInv, TypeOK
<1> QED BY <1>1, <1>2, <1>3, <1>4, <1>5, <1>6, <1>7, <1>8 DEF Next

\* Every variable keeps its type (TypeOK), with any number of tasks and stats.
THEOREM TypeCorrect == Spec => []TypeOK
<1>1. Spec => []TypesInv
  BY TypesInit, TypesStep, PTL DEF Spec
<1>2. TypesInv => TypeOK
  BY DEF TypesInv
<1> QED BY <1>1, <1>2, PTL

-----------------------------------------------------------------------------
\* A batch is put on record: the xp row moves by it if it earned.
Credited(batch) ==
  /\ Len(batch) > 0
  /\ ledger' = ledger \o batch
  /\ xp' = XpAfter(TotalEarned(batch))
  /\ withheld' = IF TotalEarned(batch) > 0 THEN withheld ELSE withheld + TotalEarned(batch)

\* Only apply_stat_deltas moves the rows of the ledger and the xp row, and it
\* moves them together.
LEMMA LedgerSteps ==
  ASSUME TypesInv, [Next]_vars
  PROVE  \/ UNCHANGED <<ledger, xp, withheld>>
         \/ \E batch \in Seq(LedgerRows) : Credited(batch)
<1>1. ASSUME NEW t \in Tasks, ApplyStatDeltas(t)
      PROVE  \E batch \in Seq(LedgerRows) : Credited(batch)
  <2> DEFINE batch == CalculateXpRewards(task[t].deltas, task[t].cfg)
  <2>1. /\ task[t].deltas # <<>> /\ ledger' = ledger \o batch /\ xp' = XpAfter(TotalEarned(batch))
        /\ withheld' = IF TotalEarned(batch) > 0 THEN withheld ELSE withheld + TotalEarned(batch)
    BY <1>1 DEF ApplyStatDeltas
  <2>2. /\ task[t].cfg \in Configs /\ task[t].deltas \in Seq(Growth(task[t].cfg))
    BY DEF TypesInv, StateOK, TaskStates
  <2>3. batch \in Seq(LedgerRows) /\ Len(batch) = Len(task[t].deltas)
    BY <2>2, RewardsType
  <2>4. Len(task[t].deltas) > 0
    BY <2>1, <2>2, EmptySeq
  <2> HIDE DEF batch
  <2> QED BY <2>1, <2>3, <2>4 DEF Credited
<1>2. ASSUME NEW t \in Tasks, TaskStep(t), ~ApplyStatDeltas(t)
      PROVE  UNCHANGED <<ledger, xp, withheld>>
  BY <1>2 DEF TaskStep, Begin, FetchCached, FetchPlayer, CacheResponse, LoadGuildConfig,
              ReadLatest, RecordSnapshot, NothingToApply, Finish, Fail, rows, history
<1>3. ASSUME ~ \E t \in Tasks : TaskStep(t)
      PROVE  UNCHANGED <<ledger, xp, withheld>>
  BY <1>3 DEF Next, Play, EditConfig, CacheExpires, Crash, Prune, BoundsSpent, vars, rows, history
<1> QED BY <1>1, <1>2, <1>3

LInv == TypesInv /\ LedgerBalanced /\ xp.level = CalculateLevel(xp.total)

LEMMA LInvInit == Init => LInv
<1> SUFFICES ASSUME Init PROVE LInv
  OBVIOUS
<1>1. LedgerBalanced
  BY TotalEarnedEmpty DEF Init, LedgerBalanced
<1> QED BY <1>1, TypesInit, FirstLevel DEF Init, LInv

LEMMA LInvStep == LInv /\ [Next]_vars => LInv'
<1> SUFFICES ASSUME LInv, [Next]_vars PROVE LInv'
  OBVIOUS
<1>1. TypesInv /\ TypesInv'
  BY TypesStep DEF LInv
<1>2. CASE UNCHANGED <<ledger, xp, withheld>>
  BY <1>1, <1>2 DEF LInv, LedgerBalanced
<1>3. ASSUME NEW batch \in Seq(LedgerRows), Credited(batch)
      PROVE  LInv'
  <2> DEFINE e == TotalEarned(batch)
  <2>1. /\ e \in Int /\ ledger \in Seq(LedgerRows) /\ xp \in [total : Nat, level : 1..LevelCap]
        /\ withheld \in Int
    BY <1>1, RowEarned, TotalEarnedInt DEF TypesInv, TypeOK
  <2>2. TotalEarned(ledger') = xp.total + withheld + e
    BY <1>3, <2>1, RowEarned, TotalEarnedConcat DEF Credited, LInv, LedgerBalanced
  <2>3. /\ xp' = XpAfter(e) /\ withheld' = IF e > 0 THEN withheld ELSE withheld + e
    BY <1>3 DEF Credited
  <2> HIDE DEF e
  <2>4. xp'.total + withheld' = xp.total + withheld + e /\ xp'.level = CalculateLevel(xp'.total)
    BY <2>1, <2>3 DEF XpAfter, LInv
  <2> QED BY <1>1, <2>2, <2>4 DEF LInv, LedgerBalanced
<1> QED BY <1>1, <1>2, <1>3, LedgerSteps

\* However many refreshes run at once, fail or die, and whatever the sign of the
\* multipliers, the total is the sum of the rewards on record but for batches
\* that did not earn (LedgerBalanced; the increment in apply_stat_deltas).
THEOREM LedgerAlwaysBalanced == Spec => []LedgerBalanced
<1>1. Spec => []LInv
  BY LInvInit, LInvStep, PTL DEF Spec
<1>2. LInv => LedgerBalanced
  BY DEF LInv
<1> QED BY <1>1, <1>2, PTL

\* The stored level is the one xp_for_level gives the stored total
\* (LevelInItsBand; calculate_level inside the transaction).
THEOREM LevelAlwaysInItsBand == Spec => []LevelInItsBand
<1>1. Spec => []LInv
  BY LInvInit, LInvStep, PTL DEF Spec
<1>2. LInv => LevelInItsBand
  <2> SUFFICES ASSUME LInv PROVE LevelInItsBand
    OBVIOUS
  <2>1. xp.total \in Nat /\ xp = [total |-> xp.total, level |-> CalculateLevel(xp.total)]
    BY DEF LInv, TypesInv, TypeOK
  <2> QED BY <2>1, CalculateLevelInBand DEF LevelInItsBand
<1> QED BY <1>1, <1>2, PTL

\* The refreshes implement the ledger's contract: whatever a step does to the
\* rows is one batch appended and the xp row moved by what the batch earned.
THEOREM RefreshImplementsXpLedger == Spec => ImplementsXpLedger
<1>1. Init => Contract!Init
  BY DEF Init, Contract!Init
<1>2. LInv /\ [Next]_vars => [Contract!Credit]_<<ledger, xp>>
  <2> SUFFICES ASSUME LInv, [Next]_vars
               PROVE  [Contract!Credit]_<<ledger, xp>>
    OBVIOUS
  <2>1. ASSUME NEW batch \in Seq(LedgerRows), Credited(batch)
        PROVE  Contract!Credit
    <3>1. ledger \in Seq(LedgerRows)
      BY DEF LInv, TypesInv, TypeOK
    <3>2. /\ ledger' \in Seq(LedgerRows)
          /\ Len(ledger') = Len(ledger) + Len(batch)
          /\ \A i \in 1..Len(ledger) + Len(batch) :
               ledger'[i] = IF i <= Len(ledger) THEN ledger[i] ELSE batch[i - Len(ledger)]
      BY <2>1, <3>1, ConcatProperties DEF Credited
    <3>3. Len(ledger) \in Nat /\ Len(batch) \in Nat
      BY <3>1
    <3>4. SubSeq(ledger', 1, Len(ledger)) = ledger
      BY <3>1, <3>2, <3>3
    <3>5. Contract!Appended = batch
      BY <3>2, <3>3 DEF Contract!Appended
    <3>6. xp' = XpAfter(TotalEarned(batch))
      BY <2>1 DEF Credited
    <3>7. Len(ledger') > Len(ledger)
      BY <2>1, <3>2, <3>3 DEF Credited
    <3>8. /\ Contract!TotalEarned(batch) = TotalEarned(batch)
          /\ \A total : Contract!CalculateLevel(total) = CalculateLevel(total)
      BY DEF Contract!TotalEarned, TotalEarned, Contract!Earned, Earned, Contract!SeqSum, SeqSum,
             Contract!PartialSums, PartialSums, Contract!CalculateLevel, CalculateLevel
    <3> QED BY <3>4, <3>5, <3>6, <3>7, <3>8 DEF Contract!Credit, XpAfter
  <2> QED BY <2>1, LedgerSteps DEF LInv
<1> QED BY <1>1, <1>2, LInvInit, LInvStep, PTL DEF Spec, ImplementsXpLedger, Contract!Spec
-----------------------------------------------------------------------------
(* Which units are credited *)

(* Rows of one stat, by time.                                                *)

HasEarliest(R) == R # {} => \E r \in R : \A q \in R : r.at <= q.at
Ordered(R) ==
  /\ R \in SUBSET SnapshotRows
  /\ \A q, r \in R : q.at = r.at => q = r
  /\ HasLatest(R)
  /\ HasEarliest(R)

LEMMA LatestIs ==
  ASSUME NEW R, Ordered(R), NEW r \in R, \A q \in R : q.at <= r.at
  PROVE  Latest(R) = r
<1>1. ASSUME NEW m \in R, \A q \in R : q.at <= m.at PROVE m = r
  <2>1. m.at <= r.at /\ r.at <= m.at /\ m.at \in Nat /\ r.at \in Nat
    BY <1>1 DEF Ordered, SnapshotRows
  <2> QED BY <2>1 DEF Ordered
<1> QED BY <1>1 DEF Latest

LEMMA EarliestIs ==
  ASSUME NEW R, Ordered(R), NEW r \in R, \A q \in R : r.at <= q.at
  PROVE  Earliest(R) = r
<1>1. ASSUME NEW m \in R, \A q \in R : m.at <= q.at PROVE m = r
  <2>1. m.at <= r.at /\ r.at <= m.at /\ m.at \in Nat /\ r.at \in Nat
    BY <1>1 DEF Ordered, SnapshotRows
  <2> QED BY <2>1 DEF Ordered
<1> QED BY <1>1 DEF Earliest

LEMMA ExtremesIn ==
  ASSUME NEW R, Ordered(R), R # {}
  PROVE  /\ Latest(R) \in R /\ \A q \in R : q.at <= Latest(R).at
         /\ Earliest(R) \in R /\ \A q \in R : Earliest(R).at <= q.at
BY DEF Ordered, HasLatest, HasEarliest, Latest, Earliest

\* A row stamped after all the others becomes the newest and leaves the oldest.
LEMMA AddRow ==
  ASSUME NEW R, Ordered(R), NEW row \in SnapshotRows, \A q \in R : q.at < row.at
  PROVE  /\ Ordered(R \cup {row})
         /\ Latest(R \cup {row}) = row
         /\ Earliest(R \cup {row}) = IF R = {} THEN row ELSE Earliest(R)
<1> DEFINE S == R \cup {row}
<1>1. S \in SUBSET SnapshotRows /\ \A q \in S : q.at \in Nat
  BY DEF Ordered, SnapshotRows
<1>2. \A q, r \in S : q.at = r.at => q = r
  BY <1>1 DEF Ordered
<1>3. \A q \in S : q.at <= row.at
  BY <1>1
<1> DEFINE first == IF R = {} THEN row ELSE Earliest(R)
<1>4. first \in S /\ \A q \in S : first.at <= q.at
  <2>1. CASE R = {}
    BY <1>1, <2>1
  <2>2. CASE R # {}
    <3>1. Earliest(R) \in R /\ \A q \in R : Earliest(R).at <= q.at
      BY <2>2, ExtremesIn
    <3>2. Earliest(R).at <= row.at
      BY <1>3, <3>1
    <3> QED BY <2>2, <3>1, <3>2
  <2> QED BY <2>1, <2>2
<1>5. Ordered(S)
  BY <1>1, <1>2, <1>3, <1>4 DEF Ordered, HasLatest, HasEarliest
<1> HIDE DEF first
<1>6. Latest(S) = row
  BY <1>3, <1>5, LatestIs
<1>7. Earliest(S) = first
  BY <1>4, <1>5, EarliestIs
<1> QED BY <1>5, <1>6, <1>7 DEF first

\* Retention keeps the oldest and the newest row.
LEMMA PruneKeepsExtremes ==
  ASSUME NEW R, Ordered(R), NEW cutoff
  PROVE  LET S == R \ Prunable(R, cutoff)
         IN  /\ Ordered(S)
             /\ S = {} <=> R = {}
             /\ R # {} => Latest(S) = Latest(R) /\ Earliest(S) = Earliest(R)
<1> DEFINE S == R \ Prunable(R, cutoff)
<1>1. CASE R = {}
  BY <1>1 DEF Ordered, HasLatest, HasEarliest
<1>2. CASE R # {}
  <2>1. /\ Latest(R) \in R /\ \A q \in R : q.at <= Latest(R).at
        /\ Earliest(R) \in R /\ \A q \in R : Earliest(R).at <= q.at
    BY <1>2, ExtremesIn
  <2>2. \A q \in R : q.at \in Nat
    BY DEF Ordered, SnapshotRows
  <2>3. Latest(R) \in S /\ Earliest(R) \in S
    BY <2>1, <2>2 DEF Prunable
  <2>4. Ordered(S)
    BY <2>1, <2>3 DEF Ordered, HasLatest, HasEarliest
  <2> HIDE DEF S
  <2>5. S \subseteq R
    BY DEF S
  <2>6. Latest(S) = Latest(R)
    BY <2>1, <2>3, <2>4, <2>5, LatestIs
  <2>7. Earliest(S) = Earliest(R)
    BY <2>1, <2>3, <2>4, <2>5, EarliestIs
  <2> QED BY <1>2, <2>3, <2>4, <2>6, <2>7 DEF S
<1> QED BY <1>1, <1>2

-----------------------------------------------------------------------------
(* Units of a sequence of deltas or of ledger rows.                          *)

LEMMA UnitsEmpty == \A s : Units(s, <<>>) = 0
<1> SUFFICES ASSUME NEW s PROVE Units(s, <<>>) = 0
  OBVIOUS
<1>1. UnitsOf(s, <<>>) = <<>>
  BY DEF UnitsOf
<1> QED BY <1>1, SeqSumEmpty DEF Units

LEMMA UnitsConcat ==
  ASSUME NEW s, NEW R, \A r \in R : r.old \in Nat /\ r.new \in Nat,
         NEW p \in Seq(R), NEW q \in Seq(R)
  PROVE  Units(s, p \o q) = Units(s, p) + Units(s, q)
<1>1. p \o q \in Seq(R)
  BY ConcatProperties
<1>2. UnitsFn(s, R) \in [R -> Int]
  BY UnitsMapped
<1>3. /\ UnitsOf(s, p) = Mapped(UnitsFn(s, R), p)
      /\ UnitsOf(s, q) = Mapped(UnitsFn(s, R), q)
      /\ UnitsOf(s, p \o q) = Mapped(UnitsFn(s, R), p \o q)
  BY <1>1, UnitsMapped
<1> QED BY <1>2, <1>3, MappedSum DEF Units

LEMMA UnitsAppend ==
  ASSUME NEW s, NEW q \in Seq(Deltas), NEW d \in Deltas
  PROVE  Units(s, Append(q, d)) = Units(s, q) + (IF d.stat = s THEN d.new - d.old ELSE 0)
<1> DEFINE units == IF d.stat = s THEN d.new - d.old ELSE 0
<1>1. \A r \in Deltas : r.old \in Nat /\ r.new \in Nat
  BY DEF Deltas
<1>2. Append(q, d) = q \o <<d>> /\ <<d>> \in Seq(Deltas)
  OBVIOUS
<1>3. Units(s, Append(q, d)) = Units(s, q) + Units(s, <<d>>)
  BY <1>1, <1>2, UnitsConcat
<1>4. UnitsOf(s, <<d>>) = <<units>>
  BY DEF UnitsOf
<1>5. units \in Int
  BY <1>1
<1> HIDE DEF units
<1>6. Units(s, <<d>>) = units
  BY <1>4, <1>5, SeqSumOne DEF Units
<1> QED BY <1>3, <1>6 DEF units

LEMMA LedgerUnitsInt ==
  ASSUME NEW s, NEW q \in Seq(LedgerRows)
  PROVE  Units(s, q) \in Int
<1>1. \A r \in LedgerRows : r.old \in Nat /\ r.new \in Nat
  BY DEF LedgerRows
<1> QED BY <1>1, UnitsMapped, SeqSumType DEF Units

LEMMA UnitsOfGrowth ==
  ASSUME NEW s, NEW cfg, NEW q \in Seq(Growth(cfg))
  PROVE  Units(s, q) \in Nat
<1> DEFINE n == Len(q)
<1>1. n \in Nat /\ DOMAIN q = 1..n /\ \A i \in 1..n : q[i] \in Growth(cfg)
  BY LenProperties, ElementOfSeq
<1>2. \A i \in 1..n : (IF q[i].stat = s THEN q[i].new - q[i].old ELSE 0) \in Nat
  BY <1>1 DEF Growth, Deltas
<1>3. UnitsOf(s, q) = [i \in 1..n |-> IF q[i].stat = s THEN q[i].new - q[i].old ELSE 0]
  BY <1>1 DEF UnitsOf
<1> HIDE DEF n
<1>4. UnitsOf(s, q) \in [1..n -> Nat]
  BY <1>2, <1>3
<1>5. UnitsOf(s, q) \in Seq(Nat)
  BY <1>1, <1>4
<1> QED BY <1>5, SeqSumNat DEF Units

\* A batch credits exactly the units of its deltas.
LEMMA UnitsOfRewards ==
  ASSUME NEW s, NEW cfg \in Configs, NEW q \in Seq(Growth(cfg))
  PROVE  Units(s, CalculateXpRewards(q, cfg)) = Units(s, q)
<1> DEFINE b == CalculateXpRewards(q, cfg)
           n == Len(q)
<1>1. /\ b \in Seq(LedgerRows) /\ Len(b) = n
      /\ \A i \in 1..n : b[i].stat = q[i].stat /\ b[i].old = q[i].old /\ b[i].new = q[i].new
  BY RewardsType
<1>2. DOMAIN b = 1..n /\ DOMAIN q = 1..n
  BY <1>1, LenProperties
<1> HIDE DEF b, n
<1>3. UnitsOf(s, b) = UnitsOf(s, q)
  BY <1>1, <1>2 DEF UnitsOf
<1> QED BY <1>3 DEF Units, b

-----------------------------------------------------------------------------
(* The invariant of a history without overlaps.                              *)

OneInFlight == \A t, u \in Tasks : InFlight(t) /\ InFlight(u) => t = u

\* Rows are stamped in the past and hold counters the player has reached.
RowsSound ==
  \A s \in Stats : /\ Ordered(snapshots[s])
                   /\ \A r \in snapshots[s] : r.at <= clock /\ r.val <= api[s]

\* A reading whose counters are not behind what was stored.
Fresh(reading) ==
  \A s \in Stats : /\ reading[s] <= api[s]
                   /\ reading[s] = Absent \/ LatestValue(snapshots[s]) <= reading[s]

\* The cache holds at most one reading, a fresh one.
CacheFresh == \A reading \in cached : cached = {reading} /\ Fresh(reading)

InLoop(t) == task[t].phase \in {"reading", "recording"}

\* What a refresh in flight knows of the rows: its reading, also the cached one
\* from then on, is fresh; its time is later than the rows it has still to
\* visit; the snapshot it read is still the newest.
TaskSound(t) ==
  /\ task[t].phase \in {"waiting", "fetched", "reading", "recording"} => Fresh(task[t].seen)
  /\ task[t].phase \in {"fetched", "reading", "recording"} => cached \subseteq {task[t].seen}
  /\ InLoop(t) => /\ task[t].now <= clock
                  /\ \A s \in task[t].todo : /\ task[t].seen[s] # Absent
                                             /\ \A r \in snapshots[s] : r.at < task[t].now
  /\ task[t].phase = "recording" =>
       \E s \in task[t].todo : task[t].cur = {s} /\ task[t].prev = LatestValue(snapshots[s])

PendingExact ==
  \A s \in Stats : /\ \A t \in Tasks : InFlight(t) => pending[s] = Units(s, task[t].deltas)
                   /\ (\A t \in Tasks : ~InFlight(t)) => pending[s] = 0

Accounted ==
  \A s \in Stats : /\ pending[s] >= 0 /\ dropped[s] >= 0
                   /\ Units(s, ledger) + pending[s] + dropped[s] = Span(snapshots[s])

Solo ==
  /\ OneInFlight
  /\ RowsSound
  /\ CacheFresh
  /\ \A t \in Tasks : TaskSound(t)
  /\ PendingExact
  /\ Accounted

SInv == TypesInv /\ (~overlapped => Solo)

LEMMA SoloInit == Init => Solo
<1> SUFFICES ASSUME Init PROVE Solo
  OBVIOUS
<1>1. \A t \in Tasks : task[t] = Idle /\ ~InFlight(t)
  BY IdleType DEF Init, InFlight
<1>2. ASSUME NEW s \in Stats
      PROVE  /\ Ordered(snapshots[s])
             /\ \A r \in snapshots[s] : r.at <= clock /\ r.val <= api[s]
             /\ Span(snapshots[s]) = 0
  <2>1. snapshots[s] = {} \/ \E v \in 0..MaxStat : snapshots[s] = {[at |-> 0, val |-> v]}
    BY DEF Init
  <2>2. CASE snapshots[s] = {}
    BY <2>2 DEF Ordered, HasLatest, HasEarliest, Span
  <2>3. ASSUME NEW v \in 0..MaxStat, snapshots[s] = {[at |-> 0, val |-> v]}
        PROVE  /\ Ordered(snapshots[s])
               /\ \A r \in snapshots[s] : r.at <= clock /\ r.val <= api[s]
               /\ Span(snapshots[s]) = 0
    <3> DEFINE row == [at |-> 0, val |-> v]
    <3>1. v \in Nat /\ row \in SnapshotRows /\ v = api[s] /\ clock = 0
      <4>1. v \in Nat /\ clock = 0 /\ row \in snapshots[s] /\ row.val = v
        BY <2>3, BoundsAssumption DEF Init
      <4>2. \A r \in snapshots[s] : r.val = api[s]
        BY DEF Init
      <4> QED BY <4>1, <4>2 DEF SnapshotRows
    <3>2. Ordered(snapshots[s])
      BY <2>3, <3>1 DEF Ordered, HasLatest, HasEarliest
    <3>3. Latest(snapshots[s]) = row /\ Earliest(snapshots[s]) = row
      BY <2>3, <3>2, LatestIs, EarliestIs
    <3> QED BY <2>3, <3>1, <3>2, <3>3 DEF Span
  <2> QED BY <2>1, <2>2, <2>3
<1>3. OneInFlight
  BY <1>1 DEF OneInFlight
<1>4. RowsSound
  BY <1>2 DEF RowsSound
<1>5. CacheFresh
  BY DEF CacheFresh, Init
<1>6. \A t \in Tasks : TaskSound(t)
  BY <1>1, IdleType DEF TaskSound, InLoop
<1>7. PendingExact
  BY <1>1 DEF PendingExact, Init
<1>8. Accounted
  BY <1>2, UnitsEmpty DEF Accounted, Init
<1> QED BY <1>3, <1>4, <1>5, <1>6, <1>7, <1>8 DEF Solo

-----------------------------------------------------------------------------
(* Frames: what a step that leaves the rows alone keeps.                     *)

LEMMA RowsFrame ==
  ASSUME TypesInv, Solo, UNCHANGED <<api, snapshots>>, clock' \in Nat, clock <= clock'
  PROVE  RowsSound'
<1> SUFFICES ASSUME NEW s \in Stats, NEW r \in snapshots[s]
             PROVE  r.at <= clock'
  BY DEF Solo, RowsSound
<1>1. r.at \in Nat /\ clock \in Nat /\ r.at <= clock
  BY DEF Solo, RowsSound, TypesInv, TypeOK, SnapshotRows
<1> QED BY <1>1

LEMMA AccountsFrame ==
  ASSUME Solo, UNCHANGED <<snapshots, ledger, pending, dropped>>
  PROVE  Accounted'
BY DEF Solo, Accounted

\* When one refresh moves, the others stay out of flight.
LEMMA OthersQuiet ==
  ASSUME TypesInv, Solo, NEW t \in Tasks, InFlight(t), NEW new, task' = [task EXCEPT ![t] = new]
  PROVE  /\ \A u \in Tasks \ {t} : task'[u] = task[u] /\ ~InFlight(u) /\ ~InFlight(u)'
         /\ task'[t] = new
         /\ OneInFlight'
<1>1. \A u \in Tasks \ {t} : task'[u] = task[u] /\ ~InFlight(u)
  BY DEF Solo, OneInFlight, TypesInv, TypeOK
<1>2. \A u \in Tasks \ {t} : ~InFlight(u)'
  BY <1>1 DEF InFlight
<1>3. task'[t] = new
  BY DEF TypesInv, TypeOK
<1>4. OneInFlight'
  BY <1>2 DEF OneInFlight
<1> QED BY <1>1, <1>2, <1>3, <1>4

\* A refresh out of flight knows nothing of the rows.
LEMMA QuietSound ==
  ASSUME NEW u \in Tasks, ~InFlight(u)'
  PROVE  TaskSound(u)'
BY DEF InFlight, TaskSound, InLoop

\* A refresh that moves without touching its deltas keeps the books.
LEMMA PendingFrame ==
  ASSUME TypesInv, Solo, NEW t \in Tasks, InFlight(t), NEW new, task' = [task EXCEPT ![t] = new],
         InFlight(t)', new.deltas = task[t].deltas, pending' = pending
  PROVE  PendingExact'
<1>1. \A u \in Tasks \ {t} : ~InFlight(u)'
  BY OthersQuiet
<1>2. task'[t].deltas = task[t].deltas
  BY OthersQuiet
<1> SUFFICES ASSUME NEW s \in Stats
             PROVE  /\ \A u \in Tasks : InFlight(u)' => pending'[s] = Units(s, task'[u].deltas)
                    /\ (\A u \in Tasks : ~InFlight(u)') => pending'[s] = 0
  BY DEF PendingExact
<1>3. pending[s] = Units(s, task[t].deltas)
  BY DEF Solo, PendingExact
<1> QED BY <1>1, <1>2, <1>3

-----------------------------------------------------------------------------
(* The steps of a refresh.                                                   *)

LEMMA StepBegin ==
  ASSUME TypesInv, Solo, NEW t \in Tasks, Begin(t), ~overlapped'
  PROVE  Solo'
<1>1. /\ task[t].phase = "idle" /\ task' = [task EXCEPT ![t] = [Idle EXCEPT !.phase = "begun"]]
      /\ UNCHANGED <<api, cached, clock, snapshots, ledger, pending, dropped>>
  BY DEF Begin, rows
<1>2. \A u \in Tasks : ~InFlight(u)
  BY DEF Begin
<1>3. \A u \in Tasks \ {t} : task'[u] = task[u] /\ ~InFlight(u)'
  BY <1>1, <1>2 DEF InFlight, TypesInv, TypeOK
<1>4. task'[t].phase = "begun" /\ task'[t].deltas = <<>>
  BY <1>1, IdleType DEF TypesInv, TypeOK, TaskStates
<1>5. OneInFlight'
  BY <1>3 DEF OneInFlight
<1>6. RowsSound'
  BY <1>1, RowsFrame DEF TypesInv, TypeOK
<1>7. CacheFresh'
  BY <1>1 DEF Solo, CacheFresh, Fresh
<1>8. ASSUME NEW u \in Tasks PROVE TaskSound(u)'
  <2>1. CASE u = t
    BY <1>4, <2>1 DEF TaskSound, InLoop
  <2>2. CASE u # t
    BY <1>3, <2>2, QuietSound
  <2> QED BY <2>1, <2>2
<1>9. PendingExact'
  <2>1. \A s \in Stats : pending'[s] = 0
    BY <1>1, <1>2 DEF Solo, PendingExact
  <2> QED BY <1>3, <1>4, <2>1, UnitsEmpty DEF PendingExact
<1>10. Accounted'
  BY <1>1, AccountsFrame
<1> QED BY <1>5, <1>6, <1>7, <1>8, <1>9, <1>10 DEF Solo

LEMMA StepFetchCached ==
  ASSUME TypesInv, Solo, NEW t \in Tasks, FetchCached(t)
  PROVE  Solo'
<1>1. PICK r \in cached :
        task' = [task EXCEPT ![t] = [@ EXCEPT !.phase = "fetched", !.seen = r]]
  BY DEF FetchCached
<1> DEFINE new == [task[t] EXCEPT !.phase = "fetched", !.seen = r]
<1>2. /\ task[t].phase = "begun" /\ InFlight(t) /\ task' = [task EXCEPT ![t] = new]
      /\ UNCHANGED <<api, cached, clock, snapshots, ledger, pending, dropped>>
  BY <1>1 DEF FetchCached, rows, history, InFlight
<1>3. new.phase = "fetched" /\ new.seen = r /\ new.deltas = task[t].deltas
  BY DEF TypesInv, TypeOK, TaskStates
<1> HIDE DEF new
<1>4. /\ \A u \in Tasks \ {t} : ~InFlight(u)'
      /\ task'[t] = new /\ OneInFlight'
  BY <1>2, OthersQuiet
<1>5. RowsSound'
  BY <1>2, RowsFrame DEF TypesInv, TypeOK
<1>6. CacheFresh'
  BY <1>2 DEF Solo, CacheFresh, Fresh
<1>7. cached' \subseteq {r}
  BY <1>2 DEF Solo, CacheFresh
<1>8. ASSUME NEW u \in Tasks PROVE TaskSound(u)'
  <2>1. CASE u = t
    <3>1. Fresh(r)'
      BY <1>2, <1>6 DEF CacheFresh
    <3> QED BY <1>3, <1>4, <1>7, <2>1, <3>1 DEF TaskSound, InLoop
  <2>2. CASE u # t
    BY <1>4, <2>2, QuietSound
  <2> QED BY <2>1, <2>2
<1>9. PendingExact'
  BY <1>2, <1>3, <1>4, PendingFrame DEF InFlight
<1>10. Accounted'
  BY <1>2, AccountsFrame
<1> QED BY <1>4, <1>5, <1>6, <1>8, <1>9, <1>10 DEF Solo

\* What the API answers is fresh: the counters of now, or none at all.
LEMMA AnswersFresh ==
  ASSUME ~StaleReads, TypesInv, Solo, NEW r \in Answers
  PROVE  Fresh(r)
<1> SUFFICES ASSUME NEW s \in Stats
             PROVE  r[s] <= api[s] /\ (r[s] = Absent \/ LatestValue(snapshots[s]) <= r[s])
  BY DEF Fresh
<1>1. api[s] \in Nat
  BY BoundsAssumption DEF TypesInv, TypeOK
<1>2. r[s] = api[s] \/ r[s] = Absent
  BY DEF Answers, EmptyReading
<1>3. LatestValue(snapshots[s]) <= api[s]
  <2>1. CASE snapshots[s] = {}
    BY <1>1, <2>1 DEF LatestValue, Absent
  <2>2. CASE snapshots[s] # {}
    <3>1. Latest(snapshots[s]) \in snapshots[s]
      BY <2>2, ExtremesIn DEF Solo, RowsSound
    <3> QED BY <2>2, <3>1 DEF LatestValue, Solo, RowsSound
  <2> QED BY <2>1, <2>2
<1> QED BY <1>1, <1>2, <1>3 DEF Absent

LEMMA StepFetchPlayer ==
  ASSUME ~StaleReads, TypesInv, Solo, NEW t \in Tasks, FetchPlayer(t)
  PROVE  Solo'
<1>1. PICK r \in Answers :
        task' = [task EXCEPT ![t] = [@ EXCEPT !.phase = "waiting", !.seen = r]]
  BY DEF FetchPlayer
<1> DEFINE new == [task[t] EXCEPT !.phase = "waiting", !.seen = r]
<1>2. /\ task[t].phase = "begun" /\ InFlight(t) /\ task' = [task EXCEPT ![t] = new]
      /\ UNCHANGED <<api, cached, clock, snapshots, ledger, pending, dropped>>
  BY <1>1 DEF FetchPlayer, rows, history, InFlight
<1>3. new.phase = "waiting" /\ new.seen = r /\ new.deltas = task[t].deltas
  BY DEF TypesInv, TypeOK, TaskStates
<1> HIDE DEF new
<1>4. /\ \A u \in Tasks \ {t} : ~InFlight(u)'
      /\ task'[t] = new /\ OneInFlight'
  BY <1>2, OthersQuiet
<1>5. RowsSound'
  BY <1>2, RowsFrame DEF TypesInv, TypeOK
<1>6. CacheFresh' /\ Fresh(r)'
  BY <1>2, AnswersFresh DEF Solo, CacheFresh, Fresh
<1>7. ASSUME NEW u \in Tasks PROVE TaskSound(u)'
  <2>1. CASE u = t
    BY <1>3, <1>4, <1>6, <2>1 DEF TaskSound, InLoop
  <2>2. CASE u # t
    BY <1>4, <2>2, QuietSound
  <2> QED BY <2>1, <2>2
<1>8. PendingExact'
  BY <1>2, <1>3, <1>4, PendingFrame DEF InFlight
<1>9. Accounted'
  BY <1>2, AccountsFrame
<1> QED BY <1>4, <1>5, <1>6, <1>7, <1>8, <1>9 DEF Solo

LEMMA StepCacheResponse ==
  ASSUME TypesInv, Solo, NEW t \in Tasks, CacheResponse(t)
  PROVE  Solo'
<1> DEFINE new == [task[t] EXCEPT !.phase = "fetched"]
<1>1. /\ task[t].phase = "waiting" /\ InFlight(t) /\ task' = [task EXCEPT ![t] = new]
      /\ cached' = {task[t].seen}
      /\ UNCHANGED <<api, clock, snapshots, ledger, pending, dropped>>
  BY DEF CacheResponse, rows, history, InFlight
<1>2. new.phase = "fetched" /\ new.seen = task[t].seen /\ new.deltas = task[t].deltas
  BY DEF TypesInv, TypeOK, TaskStates
<1> HIDE DEF new
<1>3. /\ \A u \in Tasks \ {t} : ~InFlight(u)'
      /\ task'[t] = new /\ OneInFlight'
  BY <1>1, OthersQuiet
<1>4. RowsSound'
  BY <1>1, RowsFrame DEF TypesInv, TypeOK
<1> PICK r : r = task[t].seen
  OBVIOUS
<1>5. Fresh(r)'
  BY <1>1 DEF Solo, TaskSound, Fresh
<1>6. CacheFresh' /\ cached' = {r}
  BY <1>1, <1>5 DEF CacheFresh
<1>7. ASSUME NEW u \in Tasks PROVE TaskSound(u)'
  <2>1. CASE u = t
    BY <1>2, <1>3, <1>5, <1>6, <2>1 DEF TaskSound, InLoop
  <2>2. CASE u # t
    BY <1>3, <2>2, QuietSound
  <2> QED BY <2>1, <2>2
<1>8. PendingExact'
  BY <1>1, <1>2, <1>3, PendingFrame DEF InFlight
<1>9. Accounted'
  BY <1>1, AccountsFrame
<1> QED BY <1>3, <1>4, <1>6, <1>7, <1>8, <1>9 DEF Solo

LEMMA StepLoadGuildConfig ==
  ASSUME TypesInv, Solo, NEW t \in Tasks, LoadGuildConfig(t)
  PROVE  Solo'
<1>1. PICK c \in {config, DefaultConfig} :
        task' = [task EXCEPT ![t] =
                   [@ EXCEPT !.phase = "reading", !.cfg = c, !.now = clock + 1,
                             !.todo = {s \in DOMAIN c : Present(task[t].seen, s)}]]
  BY DEF LoadGuildConfig
<1> DEFINE todo == {s \in DOMAIN c : Present(task[t].seen, s)}
           new == [task[t] EXCEPT !.phase = "reading", !.cfg = c, !.now = clock + 1,
                                  !.todo = todo]
<1>2. /\ task[t].phase = "fetched" /\ InFlight(t) /\ task' = [task EXCEPT ![t] = new]
      /\ clock' = clock + 1
      /\ UNCHANGED <<api, cached, snapshots, ledger, pending, dropped>>
  BY <1>1 DEF LoadGuildConfig, rows, history, InFlight
<1>3. /\ new.phase = "reading" /\ new.seen = task[t].seen /\ new.deltas = task[t].deltas
      /\ new.now = clock + 1 /\ new.todo = todo
  BY DEF TypesInv, TypeOK, TaskStates
<1>4. \A s \in todo : s \in Stats /\ task[t].seen[s] # Absent
  BY ConfigFacts, DefaultConfigAssumption DEF Present, TypesInv, TypeOK
<1> HIDE DEF new, todo
<1>5. /\ \A u \in Tasks \ {t} : ~InFlight(u)'
      /\ task'[t] = new /\ OneInFlight'
  BY <1>2, OthersQuiet
<1>6. RowsSound'
  BY <1>2, RowsFrame DEF TypesInv, TypeOK
<1>7. CacheFresh'
  BY <1>2 DEF Solo, CacheFresh, Fresh
<1> PICK r : r = task[t].seen
  OBVIOUS
<1>8. Fresh(r)' /\ cached' \subseteq {r}
  BY <1>2 DEF Solo, TaskSound, Fresh
<1>9. \A s \in todo : r[s] # Absent /\ \A q \in snapshots[s] : q.at < clock + 1
  <2>1. \A s \in Stats : \A q \in snapshots[s] : q.at \in Nat /\ q.at <= clock
    BY DEF Solo, RowsSound, TypesInv, TypeOK, SnapshotRows
  <2> QED BY <1>4, <2>1 DEF TypesInv, TypeOK
<1>10. ASSUME NEW u \in Tasks PROVE TaskSound(u)'
  <2>1. CASE u = t
    <3>1. clock + 1 <= clock'
      BY <1>2 DEF TypesInv, TypeOK
    <3> QED BY <1>2, <1>3, <1>5, <1>8, <1>9, <2>1, <3>1 DEF TaskSound, InLoop
  <2>2. CASE u # t
    BY <1>5, <2>2, QuietSound
  <2> QED BY <2>1, <2>2
<1>11. PendingExact'
  BY <1>2, <1>3, <1>5, PendingFrame DEF InFlight
<1>12. Accounted'
  BY <1>2, AccountsFrame
<1> QED BY <1>5, <1>6, <1>7, <1>10, <1>11, <1>12 DEF Solo

LEMMA StepReadLatest ==
  ASSUME TypesInv, Solo, NEW t \in Tasks, NEW s \in Stats, ReadLatest(t, s)
  PROVE  Solo'
<1> DEFINE new == [task[t] EXCEPT !.phase = "recording", !.cur = {s},
                                  !.prev = LatestValue(snapshots[s])]
<1>1. /\ task[t].phase = "reading" /\ s \in task[t].todo /\ InFlight(t)
      /\ task' = [task EXCEPT ![t] = new]
      /\ UNCHANGED <<api, cached, clock, snapshots, ledger, pending, dropped>>
  BY DEF ReadLatest, rows, history, InFlight
<1>2. /\ new.phase = "recording" /\ new.seen = task[t].seen /\ new.deltas = task[t].deltas
      /\ new.now = task[t].now /\ new.todo = task[t].todo
      /\ new.cur = {s} /\ new.prev = LatestValue(snapshots[s])
  BY DEF TypesInv, TypeOK, TaskStates
<1> HIDE DEF new
<1>3. /\ \A u \in Tasks \ {t} : ~InFlight(u)'
      /\ task'[t] = new /\ OneInFlight'
  BY <1>1, OthersQuiet
<1>4. RowsSound'
  BY <1>1, RowsFrame DEF TypesInv, TypeOK
<1>5. CacheFresh'
  BY <1>1 DEF Solo, CacheFresh, Fresh
<1> PICK r : r = task[t].seen
  OBVIOUS
<1>6. /\ Fresh(r)' /\ cached' \subseteq {r} /\ task[t].now <= clock'
      /\ \A q \in task[t].todo : r[q] # Absent /\ \A row \in snapshots'[q] : row.at < task[t].now
  BY <1>1 DEF Solo, TaskSound, InLoop, Fresh
<1>7. ASSUME NEW u \in Tasks PROVE TaskSound(u)'
  <2>1. CASE u = t
    <3>1. new.prev = LatestValue(snapshots'[s])
      BY <1>1, <1>2
    <3> QED BY <1>1, <1>2, <1>3, <1>6, <2>1, <3>1 DEF TaskSound, InLoop
  <2>2. CASE u # t
    BY <1>3, <2>2, QuietSound
  <2> QED BY <2>1, <2>2
<1>8. PendingExact'
  BY <1>1, <1>2, <1>3, PendingFrame DEF InFlight
<1>9. Accounted'
  BY <1>1, AccountsFrame
<1> QED BY <1>3, <1>4, <1>5, <1>7, <1>8, <1>9 DEF Solo

\* Storing a reading that is not behind the newest row moves the span by what
\* the delta counts.
LEMMA StoredRow ==
  ASSUME NEW R, Ordered(R), NEW row \in SnapshotRows,
         \A q \in R : q.at < row.at, LatestValue(R) <= row.val
  PROVE  LET S == Stored(R, LatestValue(R), row)
         IN  /\ Ordered(S)
             /\ LatestValue(S) = row.val
             /\ Span(S) = Span(R) + (IF Grew(LatestValue(R), row.val)
                                       THEN row.val - LatestValue(R) ELSE 0)
<1> DEFINE S == Stored(R, LatestValue(R), row)
           grown == IF Grew(LatestValue(R), row.val) THEN row.val - LatestValue(R) ELSE 0
<1>1. row.val \in Nat /\ row.at \in Nat
  BY DEF SnapshotRows
<1>2. CASE R = {}
  <2>1. LatestValue(R) = Absent /\ S = R \cup {row} /\ grown = 0 /\ Span(R) = 0
    BY <1>1, <1>2 DEF LatestValue, Stored, Grew, Span, Absent
  <2>2. Ordered(S) /\ Latest(S) = row /\ Earliest(S) = row /\ S # {}
    BY <1>2, <2>1, AddRow
  <2>3. LatestValue(S) = row.val /\ Span(S) = 0
    BY <1>1, <2>2 DEF LatestValue, Span
  <2> HIDE DEF S, grown
  <2>4. Span(S) = Span(R) + grown
    BY <2>1, <2>3
  <2> QED BY <2>2, <2>3, <2>4 DEF S, grown
<1>3. CASE R # {}
  <2>1. /\ Latest(R) \in R /\ Earliest(R) \in R
        /\ Latest(R).val \in Nat /\ Earliest(R).val \in Nat
        /\ LatestValue(R) = Latest(R).val
        /\ Span(R) = Latest(R).val - Earliest(R).val
    BY <1>3, ExtremesIn DEF LatestValue, Span, Ordered, SnapshotRows
  <2>2. CASE row.val = LatestValue(R)
    <3>1. S = R /\ grown = 0
      BY <1>1, <2>2 DEF Stored, Grew
    <3> HIDE DEF S, grown
    <3>2. Span(S) = Span(R) + grown
      BY <2>1, <3>1
    <3> QED BY <2>2, <3>1, <3>2 DEF S, grown
  <2>3. CASE row.val # LatestValue(R)
    <3>1. S = R \cup {row} /\ grown = row.val - Latest(R).val
      BY <1>1, <2>1, <2>3 DEF Stored, Grew, Absent
    <3>2. Ordered(S) /\ Latest(S) = row /\ Earliest(S) = Earliest(R) /\ S # {}
      BY <1>3, <3>1, AddRow
    <3>3. LatestValue(S) = row.val /\ Span(S) = row.val - Earliest(R).val
      BY <3>2 DEF LatestValue, Span
    <3> HIDE DEF S, grown
    <3>4. Span(S) = Span(R) + grown
      BY <1>1, <2>1, <3>1, <3>3
    <3> QED BY <3>2, <3>3, <3>4 DEF S, grown
  <2> QED BY <2>2, <2>3
<1> QED BY <1>2, <1>3

LEMMA StepRecordSnapshot ==
  ASSUME TypesInv, Solo, NEW t \in Tasks, NEW s \in Stats, RecordSnapshot(t, s)
  PROVE  Solo'
<1> PICK old, val, now, r : /\ old = task[t].prev /\ val = task[t].seen[s]
                            /\ now = task[t].now /\ r = task[t].seen
  OBVIOUS
<1> DEFINE delta == [stat |-> s, old |-> old, new |-> val]
           grown == IF Grew(old, val) THEN val - old ELSE 0
           deltas == IF Grew(old, val) THEN Append(task[t].deltas, delta) ELSE task[t].deltas
           new == [task[t] EXCEPT !.phase = "reading", !.todo = task[t].todo \ {s}, !.cur = {},
                                  !.prev = Absent, !.deltas = deltas]
           row == [at |-> now, val |-> val]
           R == snapshots[s]
           S == Stored(R, old, row)
<1>1. /\ task[t].phase = "recording" /\ task[t].cur = {s} /\ InFlight(t)
      /\ UNCHANGED <<api, cached, clock, ledger, dropped>>
  BY DEF RecordSnapshot, InFlight
<1>2. task' = [task EXCEPT ![t] = new]
  BY DEF RecordSnapshot
<1>3. snapshots' = [snapshots EXCEPT ![s] = S]
  <2>1. snapshots' = [snapshots EXCEPT ![s] = Stored(@, old, row)]
    BY Zenon DEF RecordSnapshot
  <2> HIDE DEF row
  <2> QED BY <2>1
<1>4. pending' = IF Grew(old, val) THEN [pending EXCEPT ![s] = @ + (val - old)] ELSE pending
  BY Zenon DEF RecordSnapshot
<1>5. /\ s \in task[t].todo /\ old = LatestValue(R)
      /\ Fresh(r) /\ cached \subseteq {r} /\ now <= clock
      /\ \A q \in task[t].todo : r[q] # Absent /\ \A x \in snapshots[q] : x.at < now
  BY <1>1 DEF Solo, TaskSound, InLoop
<1>6. /\ Ordered(R) /\ R \in SUBSET SnapshotRows
      /\ \A x \in R : x.at <= clock /\ x.val <= api[s]
  BY DEF Solo, RowsSound, TypesInv, TypeOK
<1>7. /\ task[t].seen \in Readings /\ now \in Nat /\ old \in Nat \cup {Absent}
      /\ val \in Nat /\ val = r[s]
  <2>1. task[t] \in TaskStates /\ val = r[s] /\ r = task[t].seen /\ r[s] # Absent
    BY <1>5 DEF TypesInv, TypeOK
  <2> QED BY <2>1, BoundsAssumption DEF TaskStates, Readings
<1>8. row \in SnapshotRows /\ row.at = now /\ row.val = val
  BY <1>7 DEF SnapshotRows
<1>9. val <= api[s] /\ old <= val
  BY <1>5, <1>7 DEF Fresh, Absent
<1>10. /\ new.phase = "reading" /\ new.seen = r /\ new.now = now
       /\ new.todo = task[t].todo \ {s} /\ new.deltas = deltas
  BY DEF TypesInv, TypeOK, TaskStates
<1> HIDE DEF new, row, S, R
<1>11. Ordered(S) /\ LatestValue(S) = val /\ Span(S) = Span(R) + grown /\ S \subseteq R \cup {row}
  <2>1. Ordered(S) /\ LatestValue(S) = val /\ Span(S) = Span(R) + grown
    BY <1>5, <1>6, <1>8, <1>9, StoredRow DEF R, S
  <2> QED BY <2>1 DEF S, Stored
<1>12. grown \in Nat
  BY <1>7 DEF Grew, Absent
<1> HIDE DEF grown, deltas, delta
<1>13. snapshots'[s] = S /\ \A q \in Stats \ {s} : snapshots'[q] = snapshots[q]
  BY <1>3 DEF TypesInv, TypeOK
<1>14. /\ \A u \in Tasks \ {t} : ~InFlight(u)'
       /\ task'[t] = new /\ OneInFlight'
  BY <1>1, <1>2, OthersQuiet
<1>15. RowsSound'
  <2> SUFFICES ASSUME NEW q \in Stats
               PROVE  /\ Ordered(snapshots'[q])
                      /\ \A x \in snapshots'[q] : x.at <= clock /\ x.val <= api[q]
    BY <1>1 DEF RowsSound
  <2>1. CASE q = s
    BY <1>5, <1>6, <1>7, <1>8, <1>9, <1>11, <1>13, <2>1
  <2>2. CASE q # s
    BY <1>13, <2>2 DEF Solo, RowsSound
  <2> QED BY <2>1, <2>2
<1>16. Fresh(r)'
  <2> SUFFICES ASSUME NEW q \in Stats
               PROVE  r[q] <= api[q] /\ (r[q] = Absent \/ LatestValue(snapshots'[q]) <= r[q])
    BY <1>1 DEF Fresh
  <2>1. CASE q = s
    BY <1>7, <1>9, <1>11, <1>13, <2>1
  <2>2. CASE q # s
    BY <1>5, <1>13, <2>2 DEF Fresh
  <2> QED BY <2>1, <2>2
<1>17. CacheFresh'
  BY <1>1, <1>5, <1>16 DEF CacheFresh
<1>18. ASSUME NEW u \in Tasks PROVE TaskSound(u)'
  <2>1. CASE u = t
    <3>1. \A q \in task[t].todo \ {s} : q \in Stats /\ snapshots'[q] = snapshots[q]
      BY <1>13 DEF TypesInv, TypeOK, TaskStates
    <3> QED BY <1>1, <1>5, <1>10, <1>14, <1>16, <2>1, <3>1 DEF TaskSound, InLoop
  <2>2. CASE u # t
    BY <1>14, <2>2, QuietSound
  <2> QED BY <2>1, <2>2
<1>19. \A q \in Stats : pending'[q] = pending[q] + (IF q = s THEN grown ELSE 0)
  <2>1. \A q \in Stats : pending[q] \in Int
    BY DEF TypesInv, TypeOK
  <2> QED BY <1>4, <1>7, <2>1 DEF grown, TypesInv, TypeOK, Absent
<1>20. \A q \in Stats : Units(q, deltas) = Units(q, task[t].deltas) + (IF q = s THEN grown ELSE 0)
  <2>1. /\ Grew(old, val) => delta \in Deltas
        /\ delta.stat = s /\ delta.old = old /\ delta.new = val
    BY <1>7 DEF delta, Deltas, Grew
  <2>2. task[t].deltas \in Seq(Deltas)
    BY DEF TypesInv, TypeOK, TaskStates
  <2>3. \A q \in Stats : Units(q, task[t].deltas) \in Int
    BY <2>2, UnitsInt
  <2>4. CASE Grew(old, val)
    <3>1. \A q \in Stats : Units(q, Append(task[t].deltas, delta)) =
                             Units(q, task[t].deltas) + (IF delta.stat = q THEN delta.new - delta.old ELSE 0)
      BY <2>1, <2>2, <2>4, UnitsAppend
    <3> QED BY <2>1, <2>4, <3>1 DEF grown, deltas
  <2>5. CASE ~Grew(old, val)
    BY <2>3, <2>5 DEF grown, deltas
  <2> QED BY <2>4, <2>5
<1>21. PendingExact'
  <2> SUFFICES ASSUME NEW q \in Stats
               PROVE  pending'[q] = Units(q, deltas)
    BY <1>1, <1>10, <1>14 DEF PendingExact, InFlight
  <2>1. pending[q] = Units(q, task[t].deltas)
    BY <1>1 DEF Solo, PendingExact
  <2> QED BY <1>19, <1>20, <2>1
<1>22. Accounted'
  <2> SUFFICES ASSUME NEW q \in Stats
               PROVE  /\ pending'[q] >= 0 /\ dropped[q] >= 0
                      /\ Units(q, ledger) + pending'[q] + dropped[q] = Span(snapshots'[q])
    BY <1>1 DEF Accounted
  <2>1. /\ pending[q] >= 0 /\ dropped[q] >= 0 /\ pending[q] \in Int /\ dropped[q] \in Int
        /\ Units(q, ledger) + pending[q] + dropped[q] = Span(snapshots[q])
    BY DEF Solo, Accounted, TypesInv, TypeOK
  <2>2. Units(q, ledger) \in Int
    BY LedgerUnitsInt DEF TypesInv, TypeOK
  <2>3. CASE q = s
    <3>1. Span(snapshots'[q]) = Span(snapshots[q]) + grown
      BY <1>11, <1>13, <2>3 DEF R
    <3> QED BY <1>12, <1>19, <2>1, <2>2, <2>3, <3>1
  <2>4. CASE q # s
    BY <1>13, <1>19, <2>1, <2>4
  <2> QED BY <2>3, <2>4
<1> QED BY <1>14, <1>15, <1>17, <1>18, <1>21, <1>22 DEF Solo

\* A refresh that leaves flight holding nothing leaves the others' books alone.
LEMMA LandedFrame ==
  ASSUME TypesInv, Solo, NEW t \in Tasks, InFlight(t), NEW new, task' = [task EXCEPT ![t] = new],
         new.phase \in {"idle", "committed"}, UNCHANGED <<api, cached, clock, snapshots>>,
         \A s \in Stats : pending'[s] = 0
  PROVE  OneInFlight' /\ RowsSound' /\ CacheFresh' /\ (\A u \in Tasks : TaskSound(u)') /\ PendingExact'
<1>1. /\ \A u \in Tasks \ {t} : ~InFlight(u)'
      /\ task'[t] = new /\ OneInFlight'
  BY OthersQuiet
<1>2. \A u \in Tasks : ~InFlight(u)'
  BY <1>1 DEF InFlight
<1>3. RowsSound'
  BY RowsFrame DEF TypesInv, TypeOK
<1>4. CacheFresh'
  BY DEF Solo, CacheFresh, Fresh
<1>5. \A u \in Tasks : TaskSound(u)'
  BY <1>2, QuietSound
<1>6. PendingExact'
  BY <1>2 DEF PendingExact
<1> QED BY <1>1, <1>3, <1>4, <1>5, <1>6

LEMMA StepNothingToApply ==
  ASSUME TypesInv, Solo, NEW t \in Tasks, NothingToApply(t)
  PROVE  Solo'
<1> DEFINE new == Committed
<1>1. /\ InFlight(t) /\ task[t].deltas = <<>> /\ task' = [task EXCEPT ![t] = new]
      /\ UNCHANGED <<api, cached, clock, snapshots, ledger, pending, dropped>>
  BY DEF NothingToApply, LoopDone, InFlight, rows, history
<1>2. new.phase = "committed"
  BY IdleType DEF Committed, TaskStates
<1> HIDE DEF new
<1>3. \A s \in Stats : pending'[s] = 0
  BY <1>1, UnitsEmpty DEF Solo, PendingExact
<1>4. Accounted'
  BY <1>1, AccountsFrame
<1> QED BY <1>1, <1>2, <1>3, <1>4, LandedFrame DEF Solo

LEMMA StepApplyStatDeltas ==
  ASSUME TypesInv, Solo, NEW t \in Tasks, ApplyStatDeltas(t)
  PROVE  Solo'
<1> DEFINE new == Committed
           batch == CalculateXpRewards(task[t].deltas, task[t].cfg)
<1>1. /\ InFlight(t) /\ task' = [task EXCEPT ![t] = new]
      /\ ledger' = ledger \o batch
      /\ pending' = [s \in Stats |-> pending[s] - Units(s, task[t].deltas)]
      /\ UNCHANGED <<api, cached, clock, snapshots, dropped>>
  BY DEF ApplyStatDeltas, LoopDone, InFlight
<1>2. new.phase = "committed"
  BY IdleType DEF Committed, TaskStates
<1>3. task[t].cfg \in Configs /\ task[t].deltas \in Seq(Growth(task[t].cfg))
  BY DEF TypesInv, StateOK, TaskStates
<1>4. batch \in Seq(LedgerRows)
  BY <1>3, RewardsType
<1>5. \A s \in Stats : Units(s, batch) = Units(s, task[t].deltas)
  BY <1>3, UnitsOfRewards
<1> HIDE DEF new, batch
<1>6. \A s \in Stats : pending[s] = Units(s, task[t].deltas) /\ pending[s] \in Int
  BY <1>1 DEF Solo, PendingExact, TypesInv, TypeOK
<1>7. \A s \in Stats : pending'[s] = 0
  BY <1>1, <1>6
<1>8. Accounted'
  <2> SUFFICES ASSUME NEW s \in Stats
               PROVE  /\ pending'[s] >= 0 /\ dropped[s] >= 0
                      /\ Units(s, ledger') + pending'[s] + dropped[s] = Span(snapshots[s])
    BY <1>1 DEF Accounted
  <2>1. /\ dropped[s] >= 0 /\ dropped[s] \in Int
        /\ Units(s, ledger) + pending[s] + dropped[s] = Span(snapshots[s])
    BY DEF Solo, Accounted, TypesInv, TypeOK
  <2>2. Units(s, ledger) \in Int /\ Units(s, ledger') = Units(s, ledger) + Units(s, batch)
    <3>1. ledger \in Seq(LedgerRows) /\ \A r \in LedgerRows : r.old \in Nat /\ r.new \in Nat
      BY DEF TypesInv, TypeOK, LedgerRows
    <3> QED BY <1>1, <1>4, <3>1, LedgerUnitsInt, UnitsConcat
  <2> QED BY <1>5, <1>6, <1>7, <2>1, <2>2
<1> QED BY <1>1, <1>2, <1>7, <1>8, LandedFrame DEF Solo

LEMMA StepFinish ==
  ASSUME TypesInv, Solo, NEW t \in Tasks, Finish(t)
  PROVE  Solo'
<1>1. /\ ~InFlight(t) /\ task' = [task EXCEPT ![t] = Idle]
      /\ UNCHANGED <<api, cached, clock, snapshots, ledger, pending, dropped>>
  BY DEF Finish, InFlight, rows, history
<1>2. \A u \in Tasks : /\ InFlight(u)' <=> InFlight(u)
                       /\ InFlight(u) => task'[u] = task[u]
  BY <1>1, IdleType DEF InFlight, TypesInv, TypeOK
<1>3. OneInFlight'
  BY <1>2 DEF Solo, OneInFlight
<1>4. RowsSound'
  BY <1>1, RowsFrame DEF TypesInv, TypeOK
<1>5. CacheFresh'
  BY <1>1 DEF Solo, CacheFresh, Fresh
<1>6. ASSUME NEW u \in Tasks PROVE TaskSound(u)'
  <2>1. CASE InFlight(u)
    BY <1>1, <1>2, <2>1 DEF Solo, TaskSound, InLoop, Fresh
  <2>2. CASE ~InFlight(u)
    BY <1>2, <2>2, QuietSound
  <2> QED BY <2>1, <2>2
<1>7. PendingExact'
  BY <1>1, <1>2 DEF Solo, PendingExact
<1>8. Accounted'
  BY <1>1, AccountsFrame
<1> QED BY <1>3, <1>4, <1>5, <1>6, <1>7, <1>8 DEF Solo

LEMMA StepFail ==
  ASSUME TypesInv, Solo, NEW t \in Tasks, Fail(t)
  PROVE  Solo'
<1>1. /\ task' = [task EXCEPT ![t] = Idle]
      /\ pending' = [s \in Stats |-> pending[s] - Units(s, task[t].deltas)]
      /\ dropped' = [s \in Stats |-> dropped[s] + Units(s, task[t].deltas)]
      /\ UNCHANGED <<api, cached, clock, snapshots, ledger>>
  BY DEF Fail, rows
<1>2. \A s \in Stats : Units(s, task[t].deltas) \in Nat
  BY UnitsOfGrowth DEF TypesInv, StateOK
<1>3. ASSUME InFlight(t) \/ \A s \in Stats : Units(s, task[t].deltas) = 0
      PROVE  Accounted'
  <2> SUFFICES ASSUME NEW s \in Stats
               PROVE  /\ pending'[s] >= 0 /\ dropped'[s] >= 0
                      /\ Units(s, ledger) + pending'[s] + dropped'[s] = Span(snapshots[s])
    BY <1>1 DEF Accounted
  <2>1. /\ pending[s] >= 0 /\ dropped[s] >= 0 /\ pending[s] \in Int /\ dropped[s] \in Int
        /\ Units(s, ledger) + pending[s] + dropped[s] = Span(snapshots[s])
        /\ Units(s, ledger) \in Int
    BY LedgerUnitsInt DEF Solo, Accounted, TypesInv, TypeOK
  <2>2. Units(s, task[t].deltas) \in Nat /\ Units(s, task[t].deltas) <= pending[s]
    BY <1>2, <1>3, <2>1 DEF Solo, PendingExact
  <2>3. /\ pending'[s] = pending[s] - Units(s, task[t].deltas)
        /\ dropped'[s] = dropped[s] + Units(s, task[t].deltas)
    BY <1>1
  <2> QED BY <2>1, <2>2, <2>3
<1>4. CASE InFlight(t)
  <2>1. \A s \in Stats : pending'[s] = 0
    BY <1>1, <1>2, <1>4 DEF Solo, PendingExact
  <2> QED BY <1>1, <1>3, <1>4, <2>1, IdleType, LandedFrame DEF Solo
<1>5. CASE ~InFlight(t)
  <2>1. task[t].phase \notin {"reading", "recording"} /\ task[t].deltas = <<>>
    BY <1>5 DEF InFlight, TypesInv, StateOK
  <2>2. \A s \in Stats : Units(s, task[t].deltas) = 0
    BY <2>1, UnitsEmpty
  <2>3. \A s \in Stats : pending'[s] = pending[s]
    BY <1>1, <2>2 DEF TypesInv, TypeOK
  <2>4. \A u \in Tasks : /\ InFlight(u)' <=> InFlight(u)
                         /\ InFlight(u) => task'[u] = task[u]
    BY <1>1, <1>5, IdleType DEF InFlight, TypesInv, TypeOK
  <2>5. OneInFlight'
    BY <2>4 DEF Solo, OneInFlight
  <2>6. RowsSound'
    BY <1>1, RowsFrame DEF TypesInv, TypeOK
  <2>7. CacheFresh'
    BY <1>1 DEF Solo, CacheFresh, Fresh
  <2>8. ASSUME NEW u \in Tasks PROVE TaskSound(u)'
    <3>1. CASE InFlight(u)
      BY <1>1, <2>4, <3>1 DEF Solo, TaskSound, InLoop, Fresh
    <3>2. CASE ~InFlight(u)
      BY <2>4, <3>2, QuietSound
    <3> QED BY <3>1, <3>2
  <2>9. PendingExact'
    BY <2>3, <2>4 DEF Solo, PendingExact
  <2> QED BY <1>3, <2>2, <2>5, <2>6, <2>7, <2>8, <2>9 DEF Solo
<1> QED BY <1>4, <1>5

-----------------------------------------------------------------------------
(* The steps of everything else.                                             *)

LEMMA StepPlay ==
  ASSUME TypesInv, Solo, NEW s \in Stats, Play(s)
  PROVE  Solo'
<1>1. /\ \A q \in Stats : api[q] <= api'[q] /\ api[q] \in Nat /\ api'[q] \in Nat
      /\ UNCHANGED <<cached, clock, snapshots, ledger, task, pending, dropped>>
  BY BoundsAssumption DEF Play, TypesInv, TypeOK, Readings, rows, history
<1>2. RowsSound'
  <2> SUFFICES ASSUME NEW q \in Stats, NEW r \in snapshots[q]
               PROVE  r.val <= api'[q]
    BY <1>1 DEF Solo, RowsSound
  <2>1. r.val <= api[q] /\ r.val \in Nat
    BY DEF Solo, RowsSound, TypesInv, TypeOK, SnapshotRows
  <2> QED BY <1>1, <2>1
<1>3. ASSUME NEW r \in Readings, Fresh(r) PROVE Fresh(r)'
  <2>1. \A q \in Stats : r[q] \in Int
    BY BoundsAssumption DEF Readings, Absent
  <2> QED BY <1>1, <1>3, <2>1 DEF Fresh
<1>4. CacheFresh'
  BY <1>1, <1>3 DEF Solo, CacheFresh, TypesInv, TypeOK
<1>5. ASSUME NEW t \in Tasks PROVE TaskSound(t)'
  <2> PICK r : r = task[t].seen
    OBVIOUS
  <2>1. r \in Readings
    BY DEF TypesInv, TypeOK, TaskStates
  <2>2. task[t].phase \in {"waiting", "fetched", "reading", "recording"} => Fresh(r)'
    BY <1>3, <2>1 DEF Solo, TaskSound
  <2> QED BY <1>1, <2>2 DEF Solo, TaskSound, InLoop
<1>6. OneInFlight' /\ PendingExact' /\ Accounted'
  BY <1>1, AccountsFrame DEF Solo, OneInFlight, PendingExact, InFlight
<1> QED BY <1>2, <1>4, <1>5, <1>6 DEF Solo

LEMMA StepCacheExpires ==
  ASSUME TypesInv, Solo, CacheExpires
  PROVE  Solo'
<1>1. cached' = {} /\ UNCHANGED <<api, clock, snapshots, ledger, task, pending, dropped>>
  BY DEF CacheExpires, rows, history
<1>2. RowsSound'
  BY <1>1, RowsFrame DEF TypesInv, TypeOK
<1>3. CacheFresh' /\ \A t \in Tasks : TaskSound(t)'
  BY <1>1 DEF Solo, CacheFresh, TaskSound, InLoop, Fresh
<1>4. OneInFlight' /\ PendingExact' /\ Accounted'
  BY <1>1, AccountsFrame DEF Solo, OneInFlight, PendingExact, InFlight
<1> QED BY <1>2, <1>3, <1>4 DEF Solo

LEMMA StepCrash ==
  ASSUME TypesInv, Solo, Crash
  PROVE  Solo'
<1>1. /\ task' = [t \in Tasks |-> Idle] /\ cached' = {}
      /\ dropped' = [s \in Stats |-> dropped[s] + pending[s]]
      /\ pending' = [s \in Stats |-> 0]
      /\ UNCHANGED <<api, clock, snapshots, ledger>>
  BY DEF Crash, rows
<1>2. \A t \in Tasks : ~InFlight(t)'
  BY <1>1, IdleType DEF InFlight
<1>3. RowsSound'
  BY <1>1, RowsFrame DEF TypesInv, TypeOK
<1>4. OneInFlight' /\ CacheFresh' /\ (\A t \in Tasks : TaskSound(t)') /\ PendingExact'
  BY <1>1, <1>2, QuietSound DEF OneInFlight, CacheFresh, PendingExact
<1>5. Accounted'
  <2> SUFFICES ASSUME NEW s \in Stats
               PROVE  /\ 0 >= 0 /\ dropped[s] + pending[s] >= 0
                      /\ Units(s, ledger) + 0 + (dropped[s] + pending[s]) = Span(snapshots[s])
    BY <1>1 DEF Accounted
  <2>1. /\ pending[s] >= 0 /\ dropped[s] >= 0 /\ pending[s] \in Int /\ dropped[s] \in Int
        /\ Units(s, ledger) + pending[s] + dropped[s] = Span(snapshots[s])
        /\ Units(s, ledger) \in Int
    BY LedgerUnitsInt DEF Solo, Accounted, TypesInv, TypeOK
  <2> QED BY <2>1
<1> QED BY <1>3, <1>4, <1>5 DEF Solo

LEMMA StepPrune ==
  ASSUME TypesInv, Solo, NEW cutoff, Prune(cutoff)
  PROVE  Solo'
<1>1. /\ \A s \in Stats : snapshots'[s] = snapshots[s] \ Prunable(snapshots[s], cutoff)
      /\ UNCHANGED <<api, cached, clock, ledger, task, pending, dropped>>
  BY DEF Prune, history
<1>2. ASSUME NEW s \in Stats
      PROVE  /\ Ordered(snapshots'[s]) /\ snapshots'[s] \subseteq snapshots[s]
             /\ Span(snapshots'[s]) = Span(snapshots[s])
             /\ LatestValue(snapshots'[s]) = LatestValue(snapshots[s])
  <2> DEFINE R == snapshots[s]
             S == R \ Prunable(R, cutoff)
  <2>1. Ordered(R) /\ snapshots'[s] = S
    BY <1>1 DEF Solo, RowsSound
  <2>2. /\ Ordered(S) /\ (S = {} <=> R = {})
        /\ R # {} => Latest(S) = Latest(R) /\ Earliest(S) = Earliest(R)
    BY <2>1, PruneKeepsExtremes
  <2>3. S \subseteq R
    OBVIOUS
  <2> HIDE DEF S
  <2> QED BY <2>1, <2>2, <2>3 DEF Span, LatestValue
<1>3. RowsSound'
  BY <1>1, <1>2 DEF Solo, RowsSound
<1>4. \A r : Fresh(r) => Fresh(r)'
  BY <1>1, <1>2 DEF Fresh
<1>5. CacheFresh'
  BY <1>1, <1>4 DEF Solo, CacheFresh
<1>6. ASSUME NEW t \in Tasks PROVE TaskSound(t)'
  <2> PICK r : r = task[t].seen
    OBVIOUS
  <2>1. task[t].phase \in {"waiting", "fetched", "reading", "recording"} => Fresh(r)'
    BY <1>4 DEF Solo, TaskSound
  <2>2. \A s \in task[t].todo : s \in Stats
    BY DEF TypesInv, TypeOK, TaskStates
  <2>3. InLoop(t) => \A s \in task[t].todo : \A q \in snapshots'[s] : q.at < task[t].now
    BY <1>2, <2>2 DEF Solo, TaskSound
  <2>4. task[t].phase = "recording" =>
          \E s \in task[t].todo : task[t].cur = {s} /\ task[t].prev = LatestValue(snapshots'[s])
    BY <1>2, <2>2 DEF Solo, TaskSound
  <2> QED BY <1>1, <2>1, <2>3, <2>4 DEF Solo, TaskSound, InLoop
<1>7. OneInFlight' /\ PendingExact'
  BY <1>1 DEF Solo, OneInFlight, PendingExact, InFlight
<1>8. Accounted'
  BY <1>1, <1>2 DEF Solo, Accounted
<1> QED BY <1>3, <1>5, <1>6, <1>7, <1>8 DEF Solo

LEMMA StepElse ==
  ASSUME TypesInv, Solo, UNCHANGED <<api, cached, clock, snapshots, ledger, task, pending, dropped>>
  PROVE  Solo'
<1>1. RowsSound'
  BY RowsFrame DEF TypesInv, TypeOK
<1>2. CacheFresh' /\ \A t \in Tasks : TaskSound(t)'
  BY DEF Solo, CacheFresh, TaskSound, InLoop, Fresh
<1>3. OneInFlight' /\ PendingExact' /\ Accounted'
  BY AccountsFrame DEF Solo, OneInFlight, PendingExact, InFlight
<1> QED BY <1>1, <1>2, <1>3 DEF Solo

LEMMA SInvStep ==
  ASSUME ~StaleReads, SInv, [Next]_vars
  PROVE  SInv'
<1>1. TypesInv /\ TypesInv'
  BY TypesStep DEF SInv
<1>2. SUFFICES ASSUME ~overlapped' PROVE Solo'
  BY <1>1 DEF SInv
<1>3. ~overlapped
  <2>1. ASSUME NEW t \in Tasks, TaskStep(t) PROVE ~overlapped
    BY <1>2, <2>1 DEF TaskStep, Begin, FetchCached, FetchPlayer, CacheResponse, LoadGuildConfig,
                      ReadLatest, RecordSnapshot, NothingToApply, ApplyStatDeltas, Finish, Fail,
                      history
  <2>2. ASSUME ~ \E t \in Tasks : TaskStep(t) PROVE ~overlapped
    BY <1>2, <2>2 DEF Next, Play, EditConfig, CacheExpires, Crash, Prune, BoundsSpent, vars, history
  <2> QED BY <2>1, <2>2
<1>4. Solo
  BY <1>3 DEF SInv
<1>5. ASSUME NEW t \in Tasks, TaskStep(t) PROVE Solo'
  BY <1>1, <1>2, <1>4, <1>5, StepBegin, StepFetchCached, StepFetchPlayer, StepCacheResponse,
     StepLoadGuildConfig, StepReadLatest, StepRecordSnapshot, StepNothingToApply,
     StepApplyStatDeltas, StepFinish, StepFail DEF TaskStep
<1>6. ASSUME NEW s \in Stats, Play(s) PROVE Solo'
  BY <1>1, <1>4, <1>6, StepPlay
<1>7. ASSUME NEW c \in Configs, EditConfig(c) PROVE Solo'
  BY <1>1, <1>4, <1>7, StepElse DEF EditConfig, rows, history
<1>8. CASE CacheExpires
  BY <1>1, <1>4, <1>8, StepCacheExpires
<1>9. CASE Crash
  BY <1>1, <1>4, <1>9, StepCrash
<1>10. ASSUME NEW cutoff \in 1..MaxClock, Prune(cutoff) PROVE Solo'
  BY <1>1, <1>4, <1>10, StepPrune
<1>11. CASE BoundsSpent \/ UNCHANGED vars
  BY <1>1, <1>4, <1>11, StepElse DEF BoundsSpent, vars, rows, history
<1> QED BY <1>5, <1>6, <1>7, <1>8, <1>9, <1>10, <1>11 DEF Next

\* If the API gives no old readings and no two refreshes of the player overlap,
\* every unit between the oldest and the newest snapshot is credited, pending or
\* dropped by a failure (EveryUnitAccounted; refresh_user and retention).
THEOREM UnitsAlwaysAccounted ==
  ASSUME ~StaleReads
  PROVE  Spec => []EveryUnitAccounted
<1>1. Init => SInv
  BY TypesInit, SoloInit DEF SInv
<1>2. SInv /\ [Next]_vars => SInv'
  BY SInvStep
<1>3. SInv => EveryUnitAccounted
  BY DEF SInv, Solo, Accounted, EveryUnitAccounted
<1> QED BY <1>1, <1>2, <1>3, PTL DEF Spec

\* Under the same two conditions the ledger never credits more units of a stat
\* than the player gained since the first snapshot (NeverOvercredited).
THEOREM UnitsNeverOvercredited ==
  ASSUME ~StaleReads
  PROVE  Spec => []NeverOvercredited
<1>1. Init => SInv
  BY TypesInit, SoloInit DEF SInv
<1>2. SInv /\ [Next]_vars => SInv'
  BY SInvStep
<1>3. SInv => NeverOvercredited
  <2> SUFFICES ASSUME SInv, ~overlapped, NEW s \in Stats, snapshots[s] # {}
               PROVE  Units(s, ledger) <= api[s] - Earliest(snapshots[s]).val
    BY DEF NeverOvercredited
  <2>1. /\ pending[s] >= 0 /\ dropped[s] >= 0 /\ pending[s] \in Int /\ dropped[s] \in Int
        /\ Units(s, ledger) + pending[s] + dropped[s] = Span(snapshots[s])
        /\ Units(s, ledger) \in Int
    BY LedgerUnitsInt DEF SInv, Solo, Accounted, TypesInv, TypeOK
  <2>2. /\ Latest(snapshots[s]) \in snapshots[s] /\ Earliest(snapshots[s]) \in snapshots[s]
        /\ \A r \in snapshots[s] : r.val \in Nat /\ r.val <= api[s]
    BY ExtremesIn DEF SInv, Solo, RowsSound, TypesInv, TypeOK, SnapshotRows
  <2>3. Span(snapshots[s]) = Latest(snapshots[s]).val - Earliest(snapshots[s]).val
    BY DEF Span
  <2>4. api[s] \in Nat
    BY BoundsAssumption DEF SInv, TypesInv, TypeOK, Readings
  <2> QED BY <2>1, <2>2, <2>3, <2>4
<1> QED BY <1>1, <1>2, <1>3, PTL DEF Spec
=============================================================================
