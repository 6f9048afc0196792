---------------------------- MODULE EventXpProofs ----------------------------
(***************************************************************************)
(* A finished backfill is complete, an event created late loses nothing,   *)
(* and an ended event stays ended, for any number of deltas, any batch     *)
(* size, any time and any disturbances.                                    *)
(***************************************************************************)
EXTENDS EventXp, TLAPS, FiniteSetTheorems, WellFoundedInduction

(***************************************************************************)
(* The batches.                                                            *)
(***************************************************************************)
LEMMA DeltasFinite ==
  ASSUME NEW S \in SUBSET Deltas
  PROVE  IsFiniteSet(S)
<1>1. IsFiniteSet(Deltas)
  BY FS_Interval, BoundsAssumption DEF Deltas
<1> QED
  BY <1>1, FS_Subset

\* A set of numbers that has a member has a least one.
LEMMA LeastNumber ==
  ASSUME NEW S \in SUBSET Nat, S # {}
  PROVE  \E n \in S : \A m \in S : n <= m
<1>1. PICK n \in S : \A m \in S : <<m, n>> \notin OpToRel(<, Nat)
  BY NatLessThanWellFounded, WFMin
<1>2. \A m \in S : ~ (m < n)
  BY <1>1 DEF OpToRel
<1> QED
  BY <1>2

\* A batch has everything of S up to any of its members.
LEMMA FirstOfDownward ==
  ASSUME NEW S \in SUBSET Deltas, NEW d \in S, NEW m \in FirstOf(S), d <= m
  PROVE  d \in FirstOf(S)
<1> DEFINE below(n) == {e \in S : e < n}
<1>1. d \in Nat /\ m \in Nat /\ m \in S /\ S \subseteq Nat
  BY BoundsAssumption DEF Deltas, FirstOf
<1>2. below(d) \in SUBSET below(m)
  <2> SUFFICES ASSUME NEW e \in S, e < d
               PROVE  e < m
    OBVIOUS
  <2> QED
    BY <1>1
<1>3. IsFiniteSet(below(m)) /\ IsFiniteSet(below(d))
  BY DeltasFinite
<1>4. Cardinality(below(d)) <= Cardinality(below(m)) /\ Cardinality(below(m)) < BatchSize
  BY <1>2, <1>3, FS_Subset DEF FirstOf
<1>5. Cardinality(below(d)) \in Nat /\ Cardinality(below(m)) \in Nat
  BY <1>3, FS_CardinalityType
<1>6. Cardinality(below(d)) < BatchSize
  BY <1>4, <1>5, BatchAssumption
<1> QED
  BY <1>6 DEF FirstOf

\* A batch that is not full has everything.
LEMMA ShortBatchIsAll ==
  ASSUME NEW S \in SUBSET Deltas, Cardinality(FirstOf(S)) < BatchSize
  PROVE  FirstOf(S) = S
<1> SUFFICES ASSUME S \ FirstOf(S) # {}
             PROVE  FALSE
  BY DEF FirstOf
<1> DEFINE left == S \ FirstOf(S)
<1>1. S \in SUBSET Nat
  BY BoundsAssumption DEF Deltas
<1>2. PICK n \in left : \A m \in left : n <= m
  <2>1. left \in SUBSET Nat /\ left # {}
    BY <1>1
  <2> HIDE DEF left
  <2> QED
    BY <2>1, LeastNumber
<1> DEFINE below == {e \in S : e < n}
<1>3. below \in SUBSET FirstOf(S)
  <2> SUFFICES ASSUME NEW e \in S, e < n, e \notin FirstOf(S)
               PROVE  FALSE
    OBVIOUS
  <2>1. n <= e
    BY <1>2
  <2> QED
    BY <2>1, <1>1
<1>4. FirstOf(S) \in SUBSET Deltas
  BY DEF FirstOf
<1>5. IsFiniteSet(FirstOf(S)) /\ IsFiniteSet(below)
  BY <1>4, DeltasFinite
<1>6. Cardinality(below) <= Cardinality(FirstOf(S))
  BY <1>3, <1>5, FS_Subset
<1>7. Cardinality(below) \in Nat /\ Cardinality(FirstOf(S)) \in Nat
  BY <1>5, FS_CardinalityType
<1>8. Cardinality(below) < BatchSize
  BY <1>6, <1>7, BatchAssumption
<1> QED
  BY <1>2, <1>8 DEF FirstOf

LEMMA EmptyBatchIsAll ==
  ASSUME NEW S \in SUBSET Deltas, FirstOf(S) = {}
  PROVE  S = {}
<1>1. Cardinality(FirstOf(S)) < BatchSize
  BY FS_EmptySet, BatchAssumption
<1> QED
  BY <1>1, ShortBatchIsAll

LEMMA LastOfIsLast ==
  ASSUME NEW S \in SUBSET Deltas, S # {}
  PROVE  LastOf(S) \in S /\ \A e \in S : e <= LastOf(S)
<1> DEFINE T == {MaxDelta - d : d \in S}
<1>1. T \in SUBSET Nat /\ T # {}
  <2>1. \A d \in S : MaxDelta - d \in Nat
    BY BoundsAssumption DEF Deltas
  <2> QED
    BY <2>1
<1>2. PICK n \in T : \A m \in T : n <= m
  <2> HIDE DEF T
  <2> QED
    BY <1>1, LeastNumber
<1>3. PICK d \in S : n = MaxDelta - d
  BY <1>2
<1>4. \A e \in S : e <= d
  <2> TAKE e \in S
  <2>1. MaxDelta - d <= MaxDelta - e
    BY <1>2, <1>3
  <2> QED
    BY <2>1, BoundsAssumption DEF Deltas
<1> QED
  BY <1>3, <1>4 DEF LastOf

(***************************************************************************)
(* The inductive invariant.  Sound(b) says what a backfill owes is in the  *)
(* table, in its batch, or still ahead of its cursor.                      *)
(***************************************************************************)
Sound(b) ==
  /\ b.phase = "spawned" => b.owed = {} /\ b.cursor = 0
  /\ b.phase \in {"reading", "batch"} => b.owed \subseteq Window(b.from, b.to)
  /\ b.phase = "reading" => \A d \in b.owed : d <= b.cursor => d \in rows
  /\ b.phase = "batch" =>
       /\ b.batch \subseteq Window(b.from, b.to)
       /\ \A d \in b.owed : d <= b.cursor => d \in rows \cup b.batch
       /\ Cardinality(b.batch) < BatchSize => b.owed \subseteq rows \cup b.batch
  /\ b.phase = "done" => b.owed \subseteq rows

BackfillsSound == \A k \in Backfills : Sound(backfill[k])

Inv == TypeOK /\ BackfillsSound

\* Committed deltas stay, with their time.
Kept == \A d \in Deltas : Committed(d) => Committed(d)' /\ delta'[d].at = delta[d].at

LEMMA WindowGrows ==
  ASSUME Kept
  PROVE  \A from, to : Window(from, to) \subseteq Window(from, to)'
BY DEF Kept, Window

LEMMA SoundStays ==
  ASSUME Kept, rows \subseteq rows', NEW b, Sound(b)
  PROVE  Sound(b)'
BY WindowGrows DEF Sound

LEMMA OthersSound ==
  ASSUME BackfillsSound, Kept, rows \subseteq rows', UNCHANGED backfill
  PROVE  BackfillsSound'
BY SoundStays DEF BackfillsSound

\* One backfill moves on, the other stays where it is.
LEMMA OneMoves ==
  ASSUME Inv, Kept, rows \subseteq rows',
         NEW k \in Backfills, NEW r, backfill' = [backfill EXCEPT ![k] = r], Sound(r)'
  PROVE  BackfillsSound'
<1> SUFFICES ASSUME NEW j \in Backfills
             PROVE  Sound(backfill[j])'
  BY DEF BackfillsSound
<1>1. backfill \in [Backfills -> BackfillStates]
  BY DEF Inv, TypeOK
<1>2. CASE j = k
  <2>1. backfill'[j] = r
    BY <1>1, <1>2
  <2> QED
    BY <2>1 DEF Sound
<1>3. CASE j # k
  <2>1. backfill'[j] = backfill[j]
    BY <1>1, <1>3
  <2>2. PICK q : q = backfill[j]
    OBVIOUS
  <2>3. Sound(q)
    BY <2>2 DEF Inv, BackfillsSound
  <2>4. Sound(q)'
    BY <2>3, SoundStays
  <2> QED
    BY <2>1, <2>2, <2>4 DEF Sound
<1> QED
  BY <1>2, <1>3

LEMMA DeltaTypes ==
  ASSUME TypeOK, NEW d \in Deltas
  PROVE  delta[d].phase \in DeltaPhases /\ delta[d].at \in 0..MaxTime
BY DEF TypeOK

LEMMA WindowInDeltas ==
  ASSUME NEW from, NEW to
  PROVE  Window(from, to) \in SUBSET Deltas
BY DEF Window

LEMMA QuietSound ==
  ASSUME Inv, UNCHANGED <<delta, rows, backfill>>
  PROVE  BackfillsSound'
<1>1. Kept
  BY DEF Kept, Committed
<1> QED
  BY <1>1, OthersSound DEF Inv

(***************************************************************************)
(* One lemma per action.                                                   *)
(***************************************************************************)
LEMMA TickKeeps == Inv /\ Tick => Inv'
<1> SUFFICES ASSUME Inv, Tick
             PROVE  Inv'
  OBVIOUS
<1>1. BackfillsSound'
  BY QuietSound DEF Tick
<1>2. TypeOK'
  BY BoundsAssumption DEF Inv, Tick, TypeOK, BackfillStates, Times, Deltas, DeltaPhases
<1> QED
  BY <1>1, <1>2 DEF Inv

LEMMA PunishKeeps == Inv /\ Punish => Inv'
<1> SUFFICES ASSUME Inv, Punish
             PROVE  Inv'
  OBVIOUS
<1>1. BackfillsSound'
  BY QuietSound DEF Punish
<1>2. allowed' \in BOOLEAN /\ elsewhere' \in BOOLEAN
  BY Zenon DEF Inv, Punish, TypeOK
<1>3. disturbances' \in 0..MaxDisturbances
  BY BoundsAssumption DEF Inv, Punish, Disturb, TypeOK
<1>4. TypeOK'
  BY <1>2, <1>3, Zenon DEF Inv, Punish, TypeOK
<1> QED
  BY <1>1, <1>4 DEF Inv

LEMMA StatusKeeps == Inv /\ UpdateEventStatuses => Inv'
<1> SUFFICES ASSUME Inv, UpdateEventStatuses
             PROVE  Inv'
  OBVIOUS
<1>1. BackfillsSound'
  BY QuietSound DEF UpdateEventStatuses
<1>2. TypeOK'
  BY DEF Inv, UpdateEventStatuses, UpdatedStatus, TypeOK
<1> QED
  BY <1>1, <1>2 DEF Inv

LEMMA EditKeeps ==
  ASSUME Inv, NEW start \in Times, NEW end \in Times, EditEvent(start, end)
  PROVE  Inv'
<1>1. BackfillsSound'
  BY QuietSound DEF EditEvent
<1>2. TypeOK'
  <2>1. creation' \in [phase : {"none", "created", "seeded", "updated", "ended"},
                       due : BOOLEAN, edited : BOOLEAN]
    BY DEF Inv, EditEvent, TypeOK
  <2>2. disturbances' \in 0..MaxDisturbances
    BY BoundsAssumption DEF Inv, EditEvent, Disturb, TypeOK
  <2>3. /\ event' \in [status : {"none", "pending", "active", "ended", "deleted"},
                       start : Times, end : Times]
        /\ event'.start < event'.end
    BY DEF Inv, EditEvent, TypeOK
  <2> QED
    BY <2>1, <2>2, <2>3, Zenon DEF Inv, EditEvent, TypeOK
<1> QED
  BY <1>1, <1>2 DEF Inv

LEMMA ForceKeeps == Inv /\ (ForceStart \/ ForceEnd) => Inv'
<1> SUFFICES ASSUME Inv, ForceStart \/ ForceEnd
             PROVE  Inv'
  OBVIOUS
<1>1. BackfillsSound'
  BY QuietSound DEF ForceStart, ForceEnd
<1>2. TypeOK'
  BY BoundsAssumption DEF Inv, ForceStart, ForceEnd, Started, Exists, Disturb, TypeOK
<1> QED
  BY <1>1, <1>2 DEF Inv

LEMMA CreateKeeps ==
  ASSUME Inv, NEW start \in Times, NEW end \in Times, CreateEvent(start, end)
  PROVE  Inv'
<1>1. BackfillsSound'
  BY QuietSound DEF CreateEvent
<1>2. TypeOK'
  BY BoundsAssumption DEF Inv, CreateEvent, TypeOK
<1> QED
  BY <1>1, <1>2 DEF Inv

LEMMA SeedKeeps == Inv /\ SeedEventStats => Inv'
<1> SUFFICES ASSUME Inv, SeedEventStats
             PROVE  Inv'
  OBVIOUS
<1>1. BackfillsSound'
  BY QuietSound DEF SeedEventStats
<1>2. TypeOK'
  <2>1. creation' \in [phase : {"none", "created", "seeded", "updated", "ended"},
                       due : BOOLEAN, edited : BOOLEAN]
    BY DEF Inv, SeedEventStats, TypeOK
  <2>2. disturbances' \in 0..MaxDisturbances
    BY BoundsAssumption DEF Inv, SeedEventStats, Disturb, TypeOK
  <2>3. seeded' \in BOOLEAN
    BY Zenon DEF Inv, SeedEventStats, TypeOK
  <2> QED
    BY <2>1, <2>2, <2>3, Zenon DEF Inv, SeedEventStats, TypeOK
<1> QED
  BY <1>1, <1>2 DEF Inv

LEMMA UpdateKeeps == Inv /\ UpdateOnCreation => Inv'
<1> SUFFICES ASSUME Inv, UpdateOnCreation
             PROVE  Inv'
  OBVIOUS
<1>1. BackfillsSound'
  BY QuietSound DEF UpdateOnCreation
<1>2. TypeOK'
  <2>1. creation' \in [phase : {"none", "created", "seeded", "updated", "ended"},
                       due : BOOLEAN, edited : BOOLEAN]
    <3>1. (event.start <= clock) \in BOOLEAN
      OBVIOUS
    <3> QED
      BY <3>1, Zenon DEF Inv, UpdateOnCreation, TypeOK
  <2>2. disturbances' \in 0..MaxDisturbances
    BY BoundsAssumption DEF Inv, UpdateOnCreation, Disturb, TypeOK
  <2>3. /\ event' \in [status : {"none", "pending", "active", "ended", "deleted"},
                       start : Times, end : Times]
        /\ event'.status # "none" => event'.start < event'.end
    BY DEF Inv, UpdateOnCreation, Activated, UpdatedStatus, TypeOK
  <2> QED
    BY <2>1, <2>2, <2>3, Zenon DEF Inv, UpdateOnCreation, TypeOK
<1> QED
  BY <1>1, <1>2 DEF Inv

\* One row of stat_deltas moves on; a committed one stays committed.
LEMMA DeltaMoves ==
  ASSUME Inv, NEW d \in Deltas, NEW r \in [phase : DeltaPhases, at : 0..MaxTime],
         delta' = [delta EXCEPT ![d] = r],
         Committed(d) => /\ r.phase \in {"committed", "checked", "settled"}
                         /\ r.at = delta[d].at
  PROVE  /\ Kept
         /\ delta' \in [Deltas -> [phase : DeltaPhases, at : 0..MaxTime]]
         /\ rows \subseteq {e \in Deltas : delta'[e].phase \in {"committed", "checked", "settled"}}
<1>1. delta \in [Deltas -> [phase : DeltaPhases, at : 0..MaxTime]]
  BY DEF Inv, TypeOK
<1>2. \A e \in Deltas : delta'[e] = IF e = d THEN r ELSE delta[e]
  BY <1>1
<1>3. Kept
  BY <1>2 DEF Kept, Committed
<1>4. delta' \in [Deltas -> [phase : DeltaPhases, at : 0..MaxTime]]
  BY <1>1
<1>5. \A e \in rows : e \in Deltas /\ Committed(e)
  BY DEF Inv, TypeOK, Committed
<1>6. \A e \in rows : delta'[e].phase \in {"committed", "checked", "settled"}
  BY <1>3, <1>5 DEF Kept, Committed
<1> QED
  BY <1>3, <1>4, <1>5, <1>6

LEMMA StampKeeps ==
  ASSUME Inv, NEW d \in Deltas, Stamp(d)
  PROVE  Inv'
<1>1. PICK r : r = [phase |-> "stamped", at |-> clock]
  OBVIOUS
<1>2. r \in [phase : DeltaPhases, at : 0..MaxTime]
  BY <1>1 DEF Inv, TypeOK, DeltaPhases
<1>3. ~Committed(d) /\ delta' = [delta EXCEPT ![d] = r]
  BY <1>1 DEF Stamp, Committed
<1>4. /\ Kept
      /\ delta' \in [Deltas -> [phase : DeltaPhases, at : 0..MaxTime]]
      /\ rows \subseteq {e \in Deltas : delta'[e].phase \in {"committed", "checked", "settled"}}
  BY <1>2, <1>3, DeltaMoves
<1>5. BackfillsSound'
  BY <1>4, OthersSound DEF Inv, Stamp
<1>6. TypeOK'
  BY <1>4, Zenon DEF Inv, TypeOK, Stamp
<1> QED
  BY <1>5, <1>6 DEF Inv

\* The phase alone moves on.
LEMMA PutMoves ==
  ASSUME Inv, NEW d \in Deltas, NEW phase \in DeltaPhases, Put(d, phase),
         Committed(d) => phase \in {"committed", "checked", "settled"}
  PROVE  /\ Kept
         /\ delta' \in [Deltas -> [phase : DeltaPhases, at : 0..MaxTime]]
         /\ rows \subseteq {e \in Deltas : delta'[e].phase \in {"committed", "checked", "settled"}}
<1>1. PICK r : r = [delta[d] EXCEPT !.phase = phase]
  OBVIOUS
<1>2. delta[d] \in [phase : DeltaPhases, at : 0..MaxTime]
  BY DEF Inv, TypeOK
<1>3. r \in [phase : DeltaPhases, at : 0..MaxTime] /\ r.phase = phase /\ r.at = delta[d].at
  BY <1>1, <1>2
<1>4. delta' = [delta EXCEPT ![d] = r]
  BY <1>1, Zenon DEF Put
<1> QED
  BY <1>3, <1>4, DeltaMoves

LEMMA InsertKeeps ==
  ASSUME Inv, NEW d \in Deltas, InsertDelta(d)
  PROVE  Inv'
<1>1. Put(d, "inserted") /\ ~Committed(d)
  BY DEF InsertDelta, Committed
<1>2. "inserted" \in DeltaPhases
  BY DEF DeltaPhases
<1>3. /\ Kept
      /\ delta' \in [Deltas -> [phase : DeltaPhases, at : 0..MaxTime]]
      /\ rows \subseteq {e \in Deltas : delta'[e].phase \in {"committed", "checked", "settled"}}
  BY <1>1, <1>2, PutMoves
<1>4. BackfillsSound'
  BY <1>3, OthersSound DEF Inv, InsertDelta
<1>5. TypeOK'
  BY <1>3, Zenon DEF Inv, TypeOK, InsertDelta
<1> QED
  BY <1>4, <1>5 DEF Inv

LEMMA CommitKeeps ==
  ASSUME Inv, NEW d \in Deltas, CommitDelta(d)
  PROVE  Inv'
<1>1. /\ Kept
      /\ delta' \in [Deltas -> [phase : DeltaPhases, at : 0..MaxTime]]
      /\ rows \subseteq {e \in Deltas : delta'[e].phase \in {"committed", "checked", "settled"}}
  <2>1. ~Committed(d)
    BY DEF CommitDelta, Committed
  <2>2. CASE Put(d, "committed")
    <3>1. "committed" \in DeltaPhases
      BY DEF DeltaPhases
    <3> QED
      BY <2>1, <2>2, <3>1, PutMoves
  <2>3. CASE delta' = [delta EXCEPT ![d] = Aborted]
    <3>1. Aborted \in [phase : DeltaPhases, at : 0..MaxTime]
      BY BoundsAssumption DEF Aborted, NoDelta, DeltaPhases
    <3> QED
      BY <2>1, <2>3, <3>1, DeltaMoves
  <2> QED
    BY <2>2, <2>3 DEF CommitDelta
<1>2. BackfillsSound'
  BY <1>1, OthersSound DEF Inv, CommitDelta
<1>3. disturbances' \in 0..MaxDisturbances
  BY BoundsAssumption DEF Inv, TypeOK, CommitDelta, Disturb
<1>4. TypeOK'
  BY <1>1, <1>3, Zenon DEF Inv, TypeOK, CommitDelta
<1> QED
  BY <1>2, <1>4 DEF Inv

LEMMA CheckKeeps ==
  ASSUME Inv, NEW d \in Deltas, CheckDisqualified(d)
  PROVE  Inv'
<1>1. Put(d, "checked") \/ Put(d, "settled")
  BY DEF CheckDisqualified
<1>2. "checked" \in DeltaPhases /\ "settled" \in DeltaPhases
  BY DEF DeltaPhases
<1>3. /\ Kept
      /\ delta' \in [Deltas -> [phase : DeltaPhases, at : 0..MaxTime]]
      /\ rows \subseteq {e \in Deltas : delta'[e].phase \in {"committed", "checked", "settled"}}
  BY <1>1, <1>2, PutMoves
<1>4. BackfillsSound'
  BY <1>3, OthersSound DEF Inv, CheckDisqualified
<1>5. disturbances' \in 0..MaxDisturbances
  BY BoundsAssumption DEF Inv, TypeOK, CheckDisqualified, Disturb
<1>6. excused' \subseteq Deltas
  BY DEF Inv, TypeOK, CheckDisqualified
<1>7. TypeOK'
  BY <1>3, <1>5, <1>6, Zenon DEF Inv, TypeOK, CheckDisqualified
<1> QED
  BY <1>4, <1>7 DEF Inv

LEMMA AwardKeeps ==
  ASSUME Inv, NEW d \in Deltas, AwardEventXp(d)
  PROVE  Inv'
<1>1. Put(d, "settled") /\ Committed(d)
  BY DEF AwardEventXp, Committed
<1>2. "settled" \in DeltaPhases
  BY DEF DeltaPhases
<1>3. /\ Kept
      /\ delta' \in [Deltas -> [phase : DeltaPhases, at : 0..MaxTime]]
      /\ rows \subseteq {e \in Deltas : delta'[e].phase \in {"committed", "checked", "settled"}}
  BY <1>1, <1>2, PutMoves
<1>4. rows \subseteq rows' /\ rows' \subseteq rows \cup {d}
  BY DEF AwardEventXp
<1>5. BackfillsSound'
  BY <1>3, <1>4, OthersSound DEF Inv, AwardEventXp
<1>6. delta'[d].phase \in {"committed", "checked", "settled"}
  BY <1>1, <1>3 DEF Kept, Committed
<1>7. disturbances' \in 0..MaxDisturbances
  BY BoundsAssumption DEF Inv, TypeOK, AwardEventXp, Disturb
<1>8. excused' \subseteq Deltas
  BY DEF Inv, TypeOK, AwardEventXp
<1>9. rows' \subseteq {e \in Deltas : delta'[e].phase \in {"committed", "checked", "settled"}}
  BY <1>3, <1>4, <1>6
<1>10. TypeOK'
  BY <1>3, <1>7, <1>8, <1>9, Zenon DEF Inv, TypeOK, AwardEventXp
<1> QED
  BY <1>5, <1>10 DEF Inv

\* What the steps of a backfill have in common.
LEMMA BackfillMoves ==
  ASSUME Inv, NEW k \in Backfills, NEW r \in BackfillStates,
         backfill' = [backfill EXCEPT ![k] = r], Sound(r)', Unchanged,
         rows \subseteq rows', rows' \subseteq {d \in Deltas : Committed(d)},
         disturbances' \in 0..MaxDisturbances, excused' \subseteq Deltas
  PROVE  Inv'
<1>1. Kept
  BY DEF Kept, Committed, Unchanged
<1>2. BackfillsSound'
  BY <1>1, OneMoves
<1>3. backfill' \in [Backfills -> BackfillStates]
  BY DEF Inv, TypeOK
<1>4. rows' \subseteq {d \in Deltas : delta'[d].phase \in {"committed", "checked", "settled"}}
  BY DEF Committed, Unchanged
<1>5. TypeOK'
  BY <1>3, <1>4, Zenon DEF Inv, TypeOK, Unchanged
<1> QED
  BY <1>2, <1>5 DEF Inv

LEMMA RowsCommitted ==
  ASSUME Inv
  PROVE  rows \subseteq {d \in Deltas : Committed(d)}
BY DEF Inv, TypeOK, Committed

LEMMA WindowStays ==
  ASSUME Unchanged
  PROVE  \A from, to : Window(from, to)' = Window(from, to)
BY DEF Unchanged, Window, Committed

\* The states that end a backfill, or begin one.
LEMMA EndStates ==
  ASSUME NEW b \in BackfillStates
  PROVE  /\ Done(b) \in BackfillStates /\ Done(b).phase = "done" /\ Done(b).owed = b.owed
         /\ Failed \in BackfillStates /\ Failed.phase = "failed"
         /\ NoBackfill \in BackfillStates /\ NoBackfill.phase = "idle"
         /\ [NoBackfill EXCEPT !.phase = "spawned"] \in BackfillStates
<1>1. NoBackfill \in BackfillStates /\ NoBackfill.phase = "idle"
  BY BoundsAssumption DEF NoBackfill, BackfillStates, Times
<1>2. Failed \in BackfillStates /\ Failed.phase = "failed"
  BY BoundsAssumption DEF Failed, NoBackfill, BackfillStates, Times
<1>3. [NoBackfill EXCEPT !.phase = "spawned"] \in BackfillStates
  BY BoundsAssumption DEF NoBackfill, BackfillStates, Times
<1>4. Done(b) \in BackfillStates /\ Done(b).phase = "done" /\ Done(b).owed = b.owed
  <2>1. b.owed \in SUBSET Deltas
    BY DEF BackfillStates
  <2>2. PICK n : n = NoBackfill
    OBVIOUS
  <2>3. n \in BackfillStates
    BY <1>1, <2>2
  <2>4. Done(b) = [n EXCEPT !.phase = "done", !.owed = b.owed]
    BY <2>2, Zenon DEF Done
  <2> QED
    BY <2>1, <2>3, <2>4 DEF BackfillStates
<1> QED
  BY <1>1, <1>2, <1>3, <1>4

LEMMA ReplyKeeps == Inv /\ ReplyAndSpawn => Inv'
<1> SUFFICES ASSUME Inv, ReplyAndSpawn
             PROVE  Inv'
  OBVIOUS
<1>1. PICK r : r = [NoBackfill EXCEPT !.phase = "spawned"]
  OBVIOUS
<1>2. r \in BackfillStates /\ r.phase = "spawned" /\ r.owed = {} /\ r.cursor = 0
  BY <1>1, BoundsAssumption DEF NoBackfill, BackfillStates, Times
<1>3. "new" \in Backfills
  BY DEF Backfills
<1>4. BackfillsSound'
  <2>1. Kept /\ rows \subseteq rows'
    BY DEF ReplyAndSpawn, Kept, Committed
  <2>2. CASE backfill' = [backfill EXCEPT !["new"] = r]
    <3>1. Sound(r)'
      BY <1>2 DEF Sound
    <3> QED
      BY <1>3, <2>1, <2>2, <3>1, OneMoves
  <2>3. CASE backfill' = backfill
    BY <2>1, <2>3, OthersSound DEF Inv
  <2> QED
    BY <1>1, <2>2, <2>3 DEF ReplyAndSpawn
<1>5. backfill' \in [Backfills -> BackfillStates]
  BY <1>1, <1>2 DEF Inv, TypeOK, ReplyAndSpawn
<1>6. disturbances' \in 0..MaxDisturbances
  BY BoundsAssumption DEF Inv, TypeOK, ReplyAndSpawn, Disturb
<1>7. creation' \in [phase : {"none", "created", "seeded", "updated", "ended"},
                   due : BOOLEAN, edited : BOOLEAN]
  BY DEF Inv, TypeOK, ReplyAndSpawn
<1>8. TypeOK'
  BY <1>5, <1>6, <1>7, Zenon DEF Inv, TypeOK, ReplyAndSpawn
<1> QED
  BY <1>4, <1>8 DEF Inv

LEMMA StartKeeps == Inv /\ StartManual => Inv'
<1> SUFFICES ASSUME Inv, StartManual
             PROVE  Inv'
  OBVIOUS
<1>1. PICK r : r = [NoBackfill EXCEPT !.phase = "spawned"]
  OBVIOUS
<1>2. r \in BackfillStates /\ r.phase = "spawned" /\ r.owed = {} /\ r.cursor = 0
  BY <1>1, BoundsAssumption DEF NoBackfill, BackfillStates, Times
<1>3. Sound(r)'
  BY <1>2 DEF Sound
<1>4. "manual" \in Backfills /\ backfill' = [backfill EXCEPT !["manual"] = r]
  BY <1>1 DEF Backfills, StartManual
<1>5. disturbances' \in 0..MaxDisturbances /\ excused' \subseteq Deltas /\ rows' = rows /\ Unchanged
  BY DEF Inv, TypeOK, StartManual
<1> QED
  BY <1>2, <1>3, <1>4, <1>5, RowsCommitted, BackfillMoves

LEMMA LoadKeeps ==
  ASSUME Inv, NEW k \in Backfills, LoadEvent(k)
  PROVE  Inv'
<1>1. backfill[k] \in BackfillStates /\ Sound(backfill[k]) /\ backfill[k].phase = "spawned"
  BY DEF Inv, TypeOK, BackfillsSound, LoadEvent
<1>2. rows' = rows /\ excused' \subseteq Deltas /\ disturbances' \in 0..MaxDisturbances /\ Unchanged
  BY BoundsAssumption DEF Inv, TypeOK, LoadEvent, Disturb
<1>3. ASSUME NEW r \in BackfillStates, backfill' = [backfill EXCEPT ![k] = r], Sound(r)'
      PROVE  Inv'
  BY <1>2, <1>3, RowsCommitted, BackfillMoves
<1>4. CASE backfill' = [backfill EXCEPT ![k] =
                 [@ EXCEPT !.phase = "reading", !.from = event.start,
                           !.to = Lesser(event.end, clock),
                           !.owed = Window(event.start, Lesser(event.end, clock))]]
  <2>1. PICK to : to = Lesser(event.end, clock)
    OBVIOUS
  <2>2. PICK r : r = [backfill[k] EXCEPT !.phase = "reading", !.from = event.start, !.to = to,
                                         !.owed = Window(event.start, to)]
    OBVIOUS
  <2>3. to \in Times /\ event.start \in Times
    BY <2>1, BoundsAssumption DEF Inv, TypeOK, Times, Lesser
  <2>4. Window(event.start, to) \in SUBSET Deltas
    BY WindowInDeltas
  <2>5. /\ r \in BackfillStates /\ r.phase = "reading" /\ r.cursor = 0
        /\ r.owed = Window(r.from, r.to)
    BY <1>1, <2>2, <2>3, <2>4 DEF BackfillStates, Sound
  <2>6. r.owed \in SUBSET Deltas /\ \A d \in Deltas : ~ (d <= 0)
    BY <2>2, <2>4, <2>5, BoundsAssumption DEF Deltas
  <2>7. Sound(r)'
    BY <1>2, <2>5, <2>6, WindowStays DEF Sound
  <2>8. backfill' = [backfill EXCEPT ![k] = r]
    BY <1>4, <2>1, <2>2
  <2> QED
    BY <1>3, <2>5, <2>7, <2>8
<1>5. CASE backfill' = [backfill EXCEPT ![k] = Done(@)]
  <2>1. PICK r : r = Done(backfill[k])
    OBVIOUS
  <2>2. r \in BackfillStates /\ r.phase = "done" /\ r.owed = {}
    BY <1>1, <2>1, EndStates DEF Sound
  <2>3. Sound(r)'
    BY <2>2 DEF Sound
  <2> QED
    BY <1>3, <1>5, <2>1, <2>2, <2>3
<1>6. CASE backfill' = [backfill EXCEPT ![k] = Failed]
  <2>1. PICK r : r = Failed
    OBVIOUS
  <2>2. r \in BackfillStates /\ r.phase = "failed"
    BY <1>1, <2>1, EndStates
  <2>3. Sound(r)'
    BY <2>2 DEF Sound
  <2> QED
    BY <1>3, <1>6, <2>1, <2>2, <2>3
<1> QED
  BY <1>4, <1>5, <1>6, Zenon DEF LoadEvent

LEMMA ReadKeeps ==
  ASSUME Inv, NEW k \in Backfills, ReadBatch(k)
  PROVE  Inv'
<1>1. PICK b : b = backfill[k]
  OBVIOUS
<1>2. b \in BackfillStates /\ Sound(b) /\ b.phase = "reading"
  BY <1>1 DEF Inv, TypeOK, BackfillsSound, ReadBatch
<1>3. PICK S : S = {d \in Window(b.from, b.to) : d > b.cursor}
  OBVIOUS
<1>4. PICK batch : batch = FirstOf(S)
  OBVIOUS
<1>5. S \in SUBSET Deltas /\ batch \in SUBSET S
  BY <1>3, <1>4, WindowInDeltas DEF FirstOf
<1>6. rows' = rows /\ excused' \subseteq Deltas /\ disturbances' \in 0..MaxDisturbances /\ Unchanged
  BY BoundsAssumption DEF Inv, TypeOK, ReadBatch, Disturb
<1>7. ASSUME NEW r \in BackfillStates, backfill' = [backfill EXCEPT ![k] = r], Sound(r)'
      PROVE  Inv'
  BY <1>6, <1>7, RowsCommitted, BackfillMoves
<1>8. \A d \in b.owed : d \in Deltas /\ (d \in rows \/ d \in S)
  <2> SUFFICES ASSUME NEW d \in b.owed, d \notin rows
               PROVE  d \in Deltas /\ d \in S
    BY <1>2 DEF BackfillStates
  <2>1. d \in Deltas /\ d \in Window(b.from, b.to) /\ ~ (d <= b.cursor) /\ b.cursor \in 0..MaxDelta
    BY <1>2 DEF Sound, BackfillStates
  <2> QED
    BY <2>1, <1>3, BoundsAssumption DEF Deltas
<1>9. CASE backfill' = [backfill EXCEPT ![k] = Done(@)] /\ batch = {}
  <2>1. PICK r : r = Done(b)
    OBVIOUS
  <2>2. r \in BackfillStates /\ r.phase = "done" /\ r.owed = b.owed
    BY <1>2, <2>1, EndStates
  <2>3. S = {}
    BY <1>4, <1>5, <1>9, EmptyBatchIsAll
  <2>4. r.owed \subseteq rows
    BY <1>8, <2>2, <2>3
  <2>5. Sound(r)'
    BY <1>6, <2>2, <2>4 DEF Sound
  <2> QED
    BY <1>1, <1>7, <1>9, <2>1, <2>2, <2>5
<1>10. CASE /\ batch # {}
            /\ backfill' = [backfill EXCEPT ![k] =
                               [@ EXCEPT !.phase = "batch", !.batch = batch,
                                         !.cursor = NextCursor(batch)]]
  <2>1. PICK last : last = NextCursor(batch)
    OBVIOUS
  <2>2. last \in batch /\ \A e \in batch : e <= last
    BY <1>5, <1>10, <2>1, LastOfIsLast DEF NextCursor
  <2>3. PICK r : r = [b EXCEPT !.phase = "batch", !.batch = batch, !.cursor = last]
    OBVIOUS
  <2>4. last \in 0..MaxDelta /\ batch \in SUBSET Deltas
    BY <1>5, <2>2, BoundsAssumption DEF Deltas
  <2>5. /\ r \in BackfillStates /\ r.phase = "batch" /\ r.owed = b.owed /\ r.cursor = last
        /\ r.batch = batch /\ r.from = b.from /\ r.to = b.to
    BY <1>2, <2>3, <2>4 DEF BackfillStates
  <2>6. \A d \in S : d <= last => d \in batch
    BY <1>4, <1>5, <2>2, FirstOfDownward
  <2>7. Cardinality(batch) < BatchSize => batch = S
    BY <1>4, <1>5, ShortBatchIsAll
  <2>8. batch \subseteq Window(b.from, b.to) /\ b.owed \subseteq Window(b.from, b.to)
    BY <1>2, <1>3, <1>5 DEF Sound
  <2>9. \A d \in b.owed : d <= last => d \in rows \cup batch
    BY <1>8, <2>6
  <2>10. Cardinality(batch) < BatchSize => b.owed \subseteq rows \cup batch
    BY <1>8, <2>7
  <2>11. Sound(r)'
    BY <1>6, <2>5, <2>8, <2>9, <2>10, WindowStays DEF Sound
  <2> QED
    BY <1>1, <1>7, <1>10, <2>1, <2>3, <2>5, <2>11
<1>11. CASE backfill' = [backfill EXCEPT ![k] = Failed]
  <2>1. PICK r : r = Failed
    OBVIOUS
  <2>2. r \in BackfillStates /\ r.phase = "failed"
    BY <1>2, <2>1, EndStates
  <2>3. Sound(r)'
    BY <2>2 DEF Sound
  <2> QED
    BY <1>7, <1>11, <2>1, <2>2, <2>3
<1> QED
  BY <1>1, <1>3, <1>4, <1>9, <1>10, <1>11, Zenon DEF ReadBatch

LEMMA ProcessKeeps ==
  ASSUME Inv, NEW k \in Backfills, ProcessBatch(k)
  PROVE  Inv'
<1>1. PICK b : b = backfill[k]
  OBVIOUS
<1>2. b \in BackfillStates /\ Sound(b) /\ b.phase = "batch"
  BY <1>1 DEF Inv, TypeOK, BackfillsSound, ProcessBatch
<1>3. PICK given : given = IF allowed THEN b.batch ELSE {}
  OBVIOUS
<1>4. PICK rest : rest = [b EXCEPT !.phase = "reading", !.batch = {}, !.tries = 0,
                                   !.owed = @ \ (b.batch \ given)]
  OBVIOUS
<1>5. PICK r : r = IF Cardinality(b.batch) < BatchSize THEN Done(rest) ELSE rest
  OBVIOUS
<1>6. /\ rest \in BackfillStates /\ rest.phase = "reading" /\ rest.from = b.from /\ rest.to = b.to
      /\ rest.cursor = b.cursor /\ rest.owed = b.owed \ (b.batch \ given)
  <2>1. PICK o : o = b.owed \ (b.batch \ given)
    OBVIOUS
  <2>2. o \in SUBSET Deltas
    BY <1>2, <2>1 DEF BackfillStates
  <2>3. rest = [b EXCEPT !.phase = "reading", !.batch = {}, !.tries = 0, !.owed = o]
    BY <1>4, <2>1, Zenon
  <2>4. rest \in BackfillStates
    <3>1. PICK none : none = {}
      OBVIOUS
    <3>2. none \in SUBSET Deltas
      BY <3>1
    <3>3. PICK m : m = [b EXCEPT !.phase = "reading", !.batch = none]
      OBVIOUS
    <3>4. m \in BackfillStates
      BY <1>2, <3>2, <3>3 DEF BackfillStates
    <3>5. PICK n : n = [m EXCEPT !.tries = 0]
      OBVIOUS
    <3>6. n \in BackfillStates
      BY <3>4, <3>5 DEF BackfillStates
    <3>7. rest = [n EXCEPT !.owed = o]
      BY <2>3, <3>1, <3>3, <3>5, Zenon
    <3> QED
      BY <2>2, <3>6, <3>7 DEF BackfillStates
  <2>5. /\ rest.phase = "reading" /\ rest.from = b.from /\ rest.to = b.to
        /\ rest.cursor = b.cursor /\ rest.owed = o
    BY <1>2, <2>3 DEF BackfillStates
  <2> QED
    BY <2>1, <2>4, <2>5
<1>7. given \subseteq b.batch /\ b.batch \subseteq Window(b.from, b.to) /\ b.batch \subseteq Deltas
  BY <1>2, <1>3 DEF Sound, BackfillStates
<1>8. /\ backfill' = [backfill EXCEPT ![k] = r] /\ rows' = rows \cup given
      /\ excused' = excused \cup (b.batch \ given) /\ Unchanged /\ disturbances' = disturbances
  BY <1>1, <1>3, <1>4, <1>5, Zenon DEF ProcessBatch
<1>9. rest.owed \subseteq Window(b.from, b.to)
  BY <1>2, <1>6 DEF Sound
<1>10. r \in BackfillStates /\ Sound(r)'
  <2>1. CASE Cardinality(b.batch) < BatchSize
    <3>1. r \in BackfillStates /\ r.phase = "done" /\ r.owed = rest.owed
      BY <1>5, <1>6, <2>1, EndStates
    <3>2. r.owed \subseteq rows \cup given
      BY <1>2, <1>6, <2>1, <3>1 DEF Sound
    <3> QED
      BY <1>8, <3>1, <3>2 DEF Sound
  <2>2. CASE ~ (Cardinality(b.batch) < BatchSize)
    <3>1. r = rest
      BY <1>5, <2>2
    <3>2. \A d \in r.owed : d <= r.cursor => d \in rows \cup given
      BY <1>2, <1>6, <3>1 DEF Sound
    <3> QED
      BY <1>6, <1>8, <1>9, <3>1, <3>2, WindowStays DEF Sound
  <2> QED
    BY <2>1, <2>2
<1>11. rows' \subseteq {d \in Deltas : Committed(d)}
  BY <1>7, <1>8, RowsCommitted DEF Window
<1>12. disturbances' \in 0..MaxDisturbances /\ excused' \subseteq Deltas /\ rows \subseteq rows'
  BY <1>7, <1>8 DEF Inv, TypeOK
<1> QED
  BY <1>8, <1>10, <1>11, <1>12, BackfillMoves

LEMMA RetryKeeps ==
  ASSUME Inv, NEW k \in Backfills, RetryBatch(k)
  PROVE  Inv'
<1>1. PICK b : b = backfill[k]
  OBVIOUS
<1>2. b \in BackfillStates /\ Sound(b) /\ b.phase = "batch"
  BY <1>1 DEF Inv, TypeOK, BackfillsSound, RetryBatch
<1>3. PICK r : r = IF b.tries < 2 THEN [b EXCEPT !.tries = b.tries + 1] ELSE Failed
  OBVIOUS
<1>4. backfill' = [backfill EXCEPT ![k] = r]
  BY <1>1, <1>3, Zenon DEF RetryBatch
<1>5. /\ rows \subseteq rows' /\ rows' \subseteq rows \cup b.batch
      /\ excused' \subseteq Deltas /\ disturbances' \in 0..MaxDisturbances /\ Unchanged
  BY <1>1, BoundsAssumption DEF Inv, TypeOK, RetryBatch, Disturb
<1>6. r \in BackfillStates /\ Sound(r)'
  <2>1. CASE b.tries < 2
    <3>1. /\ r \in BackfillStates /\ r.phase = "batch" /\ r.owed = b.owed /\ r.batch = b.batch
          /\ r.from = b.from /\ r.to = b.to /\ r.cursor = b.cursor
      BY <1>2, <1>3, <2>1 DEF BackfillStates
    <3> QED
      BY <1>2, <1>5, <3>1, WindowStays DEF Sound
  <2>2. CASE ~ (b.tries < 2)
    <3>1. r \in BackfillStates /\ r.phase = "failed"
      BY <1>2, <1>3, <2>2, EndStates
    <3> QED
      BY <3>1 DEF Sound
  <2> QED
    BY <2>1, <2>2
<1>7. rows' \subseteq {d \in Deltas : Committed(d)}
  BY <1>2, <1>5, RowsCommitted DEF Sound, Window
<1> QED
  BY <1>4, <1>5, <1>6, <1>7, BackfillMoves

LEMMA DeleteKeeps == Inv /\ DeleteEvent => Inv'
<1> SUFFICES ASSUME Inv, DeleteEvent
             PROVE  Inv'
  OBVIOUS
<1>1. backfill \in [Backfills -> BackfillStates]
  BY DEF Inv, TypeOK
<1>2. ASSUME NEW k \in Backfills
      PROVE  backfill'[k] \in BackfillStates /\ Sound(backfill[k])'
  <2>1. PICK b : b = backfill[k]
    OBVIOUS
  <2>2. PICK r : r = [b EXCEPT !.owed = {}]
    OBVIOUS
  <2>3. b \in BackfillStates /\ Sound(b)
    BY <1>1, <2>1 DEF Inv, BackfillsSound
  <2>4. /\ r \in BackfillStates /\ r.phase = b.phase /\ r.owed = {} /\ r.batch = b.batch
        /\ r.from = b.from /\ r.to = b.to /\ r.cursor = b.cursor
    BY <2>2, <2>3 DEF BackfillStates
  <2>5. \A from, to : Window(from, to)' = Window(from, to)
    BY DEF DeleteEvent, Window, Committed
  <2>6. backfill'[k] = r
    BY <2>1, <2>2 DEF DeleteEvent
  <2>7. Sound(r)'
    BY <2>3, <2>4, <2>5 DEF Sound
  <2> QED
    BY <2>4, <2>6, <2>7 DEF Sound
<1>3. BackfillsSound'
  BY <1>2 DEF BackfillsSound
<1>4. backfill' \in [Backfills -> BackfillStates]
  BY <1>2 DEF DeleteEvent
<1>5. disturbances' \in 0..MaxDisturbances
  BY BoundsAssumption DEF Inv, TypeOK, DeleteEvent, Disturb
<1>6. /\ event' \in [status : {"none", "pending", "active", "ended", "deleted"},
                     start : Times, end : Times]
      /\ event'.status # "none" => event'.start < event'.end
  BY DEF Inv, TypeOK, DeleteEvent
<1>7. TypeOK'
  BY <1>4, <1>5, <1>6, Zenon DEF Inv, TypeOK, DeleteEvent
<1> QED
  BY <1>3, <1>7 DEF Inv

LEMMA CrashKeeps == Inv /\ Crash => Inv'
<1> SUFFICES ASSUME Inv, Crash
             PROVE  Inv'
  OBVIOUS
<1>1. delta \in [Deltas -> [phase : DeltaPhases, at : 0..MaxTime]]
  BY DEF Inv, TypeOK
<1>2. ASSUME NEW d \in Deltas
      PROVE  /\ delta'[d] \in [phase : DeltaPhases, at : 0..MaxTime]
             /\ Committed(d) => Committed(d)' /\ delta'[d].at = delta[d].at
  <2>1. PICK e : e = delta[d]
    OBVIOUS
  <2>2. e \in [phase : DeltaPhases, at : 0..MaxTime]
    BY <1>1, <2>1
  <2>3. Aborted \in [phase : DeltaPhases, at : 0..MaxTime]
    BY BoundsAssumption DEF Aborted, NoDelta, DeltaPhases
  <2>4. /\ [e EXCEPT !.phase = "settled"] \in [phase : DeltaPhases, at : 0..MaxTime]
        /\ [e EXCEPT !.phase = "settled"].phase = "settled"
        /\ [e EXCEPT !.phase = "settled"].at = e.at
    BY <2>2 DEF DeltaPhases
  <2>5. delta'[d] = IF e.phase \in {"stamped", "inserted"} THEN Aborted
                    ELSE IF e.phase \in {"committed", "checked"}
                      THEN [e EXCEPT !.phase = "settled"]
                    ELSE e
    BY <2>1 DEF Crash
  <2> QED
    BY <2>1, <2>2, <2>3, <2>4, <2>5 DEF Committed
<1>3. Kept
  BY <1>2 DEF Kept
<1>4. delta' \in [Deltas -> [phase : DeltaPhases, at : 0..MaxTime]]
  BY <1>2 DEF Crash
<1>5. ASSUME NEW k \in Backfills
      PROVE  backfill'[k] \in BackfillStates /\ Sound(backfill[k])'
  <2>1. PICK b : b = backfill[k]
    OBVIOUS
  <2>2. b \in BackfillStates /\ Sound(b)
    BY <2>1 DEF Inv, TypeOK, BackfillsSound
  <2>3. backfill'[k] = IF b.phase \in {"done", "failed"} THEN b ELSE NoBackfill
    BY <2>1 DEF Crash
  <2>4. CASE b.phase \in {"done", "failed"}
    <3>1. Sound(b)'
      BY <1>3, <2>2, SoundStays DEF Crash
    <3> QED
      BY <2>2, <2>3, <2>4, <3>1 DEF Sound
  <2>5. CASE b.phase \notin {"done", "failed"}
    <3>1. PICK n : n = NoBackfill
      OBVIOUS
    <3>2. n \in BackfillStates /\ n.phase = "idle" /\ backfill'[k] = n
      BY <2>2, <2>3, <2>5, <3>1, EndStates
    <3> QED
      BY <3>2 DEF Sound
  <2> QED
    BY <2>4, <2>5
<1>6. BackfillsSound'
  BY <1>5 DEF BackfillsSound
<1>7. backfill' \in [Backfills -> BackfillStates]
  BY <1>5 DEF Crash
<1>8. rows' \subseteq {d \in Deltas : delta'[d].phase \in {"committed", "checked", "settled"}}
  BY <1>3, RowsCommitted DEF Crash, Kept, Committed
<1>9. disturbances' \in 0..MaxDisturbances /\ excused' \subseteq Deltas
  BY BoundsAssumption DEF Inv, TypeOK, Crash, Disturb
<1>10. creation' \in [phase : {"none", "created", "seeded", "updated", "ended"},
                    due : BOOLEAN, edited : BOOLEAN]
  BY DEF Inv, TypeOK, Crash
<1>11. TypeOK'
  BY <1>4, <1>7, <1>8, <1>9, <1>10, Zenon DEF Inv, TypeOK, Crash
<1> QED
  BY <1>6, <1>11 DEF Inv

LEMMA StutterKeeps == Inv /\ UNCHANGED vars => Inv'
<1> SUFFICES ASSUME Inv, UNCHANGED vars
             PROVE  Inv'
  OBVIOUS
<1>1. BackfillsSound'
  BY QuietSound DEF vars
<1>2. TypeOK'
  BY DEF Inv, TypeOK, vars
<1> QED
  BY <1>1, <1>2 DEF Inv

LEMMA InitSound == Init => Inv
<1> SUFFICES ASSUME Init
             PROVE  Inv
  OBVIOUS
<1>1. PICK n : n = NoBackfill
  OBVIOUS
<1>2. n \in BackfillStates /\ n.phase = "idle"
  BY <1>1, BoundsAssumption DEF NoBackfill, BackfillStates, Times
<1>3. \A k \in Backfills : backfill[k] = n
  BY <1>1 DEF Init
<1>4. BackfillsSound
  BY <1>2, <1>3 DEF BackfillsSound, Sound
<1>5. backfill \in [Backfills -> BackfillStates]
  BY <1>1, <1>2 DEF Init
<1>6. delta \in [Deltas -> [phase : DeltaPhases, at : 0..MaxTime]]
  BY BoundsAssumption DEF Init, NoDelta, DeltaPhases
<1>7. /\ clock \in 0..MaxTime /\ disturbances \in 0..MaxDisturbances
      /\ event \in [status : {"none", "pending", "active", "ended", "deleted"},
                    start : Times, end : Times]
      /\ event.status = "none"
  BY BoundsAssumption DEF Init, Times
<1>8. creation \in [phase : {"none", "created", "seeded", "updated", "ended"},
                   due : BOOLEAN, edited : BOOLEAN]
  BY DEF Init
<1>9. /\ rows \subseteq {d \in Deltas : delta[d].phase \in {"committed", "checked", "settled"}}
      /\ excused \subseteq Deltas
  BY DEF Init
<1>10. seeded \in BOOLEAN /\ allowed \in BOOLEAN /\ elsewhere \in BOOLEAN
  BY Zenon DEF Init
<1>11. TypeOK
  BY <1>5, <1>6, <1>7, <1>8, <1>9, <1>10, Zenon DEF TypeOK
<1> QED
  BY <1>4, <1>11 DEF Inv

LEMMA StepSound == Inv /\ [Next]_vars => Inv'
<1> SUFFICES ASSUME Inv, [Next]_vars
             PROVE  Inv'
  OBVIOUS
<1>1. CASE Tick \/ Punish \/ UpdateEventStatuses \/ ForceStart \/ ForceEnd \/ DeleteEvent \/ StartManual
  BY <1>1, TickKeeps, PunishKeeps, StatusKeeps, ForceKeeps, DeleteKeeps, StartKeeps
<1>2. CASE \E start, end \in Times : EditEvent(start, end) \/ CreateEvent(start, end)
  BY <1>2, EditKeeps, CreateKeeps
<1>3. CASE CreationStep
  BY <1>3, SeedKeeps, UpdateKeeps, ReplyKeeps DEF CreationStep
<1>4. CASE \E d \in Deltas : DeltaStep(d)
  BY <1>4, StampKeeps, InsertKeeps, CommitKeeps, CheckKeeps, AwardKeeps DEF DeltaStep
<1>5. CASE \E k \in Backfills : BackfillStep(k)
  BY <1>5, LoadKeeps, ReadKeeps, ProcessKeeps, RetryKeeps DEF BackfillStep
<1>6. CASE Crash \/ Quiet \/ UNCHANGED vars
  BY <1>6, CrashKeeps, StutterKeeps DEF Quiet
<1> QED
  BY <1>1, <1>2, <1>3, <1>4, <1>5, <1>6 DEF Next

LEMMA SoundImpliesComplete == Inv => BackfillComplete
BY DEF Inv, BackfillsSound, Sound, BackfillComplete

\* What a step does to the event and its creation.
LEMMA StepParts ==
  ASSUME [Next]_vars
  PROVE  \/ UNCHANGED <<creation, event>>
         \/ UpdateEventStatuses \/ ForceStart \/ ForceEnd \/ DeleteEvent
         \/ \E start, end \in Times : EditEvent(start, end) \/ CreateEvent(start, end)
         \/ CreationStep
         \/ Crash
<1>1. (Tick \/ Punish \/ StartManual \/ Quiet \/ UNCHANGED vars) => UNCHANGED <<creation, event>>
  BY DEF Tick, Punish, StartManual, Unchanged, Quiet, vars
<1>2. (\E d \in Deltas : DeltaStep(d)) => UNCHANGED <<creation, event>>
  BY DEF DeltaStep, Stamp, InsertDelta, CommitDelta, CheckDisqualified, AwardEventXp
<1>3. (\E k \in Backfills : BackfillStep(k)) => UNCHANGED <<creation, event>>
  BY DEF BackfillStep, LoadEvent, ReadBatch, ProcessBatch, RetryBatch, Unchanged
<1> QED
  BY <1>1, <1>2, <1>3 DEF Next

(***************************************************************************)
(* The event's row is there from CreateEvent on, once.                     *)
(***************************************************************************)
Uncreated == creation.phase = "none" => event.status = "none"

LEMMA UncreatedKept == Inv /\ Uncreated /\ [Next]_vars => Uncreated'
<1> SUFFICES ASSUME Inv, Uncreated, [Next]_vars
             PROVE  Uncreated'
  OBVIOUS
<1>1. creation \in [phase : {"none", "created", "seeded", "updated", "ended"},
                   due : BOOLEAN, edited : BOOLEAN]
  BY DEF Inv, TypeOK
<1>2. event \in [status : {"none", "pending", "active", "ended", "deleted"},
                start : Times, end : Times]
  BY DEF Inv, TypeOK
<1>3. CASE UNCHANGED <<creation, event>>
  BY <1>3 DEF Uncreated
<1>4. CASE UpdateEventStatuses \/ ForceStart \/ ForceEnd \/ DeleteEvent
  BY <1>2, <1>4 DEF Uncreated, UpdateEventStatuses, UpdatedStatus, ForceStart, ForceEnd, Exists,
     DeleteEvent
<1>5. CASE \E start, end \in Times : EditEvent(start, end) \/ CreateEvent(start, end)
  BY <1>1, <1>2, <1>5 DEF Uncreated, EditEvent, CreateEvent
<1>6. CASE CreationStep
  BY <1>1, <1>6 DEF Uncreated, CreationStep, SeedEventStats, UpdateOnCreation, ReplyAndSpawn
<1>7. CASE Crash
  BY <1>1, <1>7 DEF Uncreated, Crash
<1> QED
  BY <1>3, <1>4, <1>5, <1>6, <1>7, StepParts

LEMMA EndedKept ==
  Inv /\ Uncreated /\ [Next]_vars => (event.status = "ended" => event'.status = "ended")
<1> SUFFICES ASSUME Inv, Uncreated, [Next]_vars, event.status = "ended"
             PROVE  event'.status = "ended"
  OBVIOUS
<1>1. event \in [status : {"none", "pending", "active", "ended", "deleted"},
                start : Times, end : Times]
  BY DEF Inv, TypeOK
<1>2. CASE UNCHANGED <<creation, event>>
  BY <1>2
<1>3. CASE UpdateEventStatuses \/ ForceStart \/ ForceEnd \/ DeleteEvent
  BY <1>1, <1>3 DEF UpdateEventStatuses, ForceStart, ForceEnd, UpdatedStatus, Started, DeleteEvent
<1>4. CASE \E start, end \in Times : EditEvent(start, end) \/ CreateEvent(start, end)
  BY <1>4 DEF EditEvent, CreateEvent, Uncreated
<1>5. CASE CreationStep
  BY <1>1, <1>5 DEF CreationStep, SeedEventStats, UpdateOnCreation, ReplyAndSpawn, Activated,
     UpdatedStatus
<1>6. CASE Crash
  BY <1>6 DEF Crash
<1> QED
  BY <1>2, <1>3, <1>4, <1>5, <1>6, StepParts

(***************************************************************************)
(* The setting up of the event.  Arranged says how far it got: an event    *)
(* that was due when it was created is past its start, and a backfill is   *)
(* spawned for a seeded event only.  NothingLost says that every delta     *)
(* settled in the event's window has its row, is owed it by the running    *)
(* backfill, or is excused.                                                *)
(***************************************************************************)
Arranged ==
  /\ creation.phase = "none" => ~creation.due
  /\ creation.phase # "none" => event.status # "none"
  /\ creation.due => event.status \in {"active", "ended", "deleted"}
  /\ creation.phase \in {"seeded", "updated"} \/ creation.due \/ backfill["new"].phase # "idle"
       => seeded \/ event.status = "deleted"
  /\ creation.phase # "ended" => backfill["new"].phase = "idle"

\* No row is stamped in the future.
InThePast == \A d \in Deltas : delta[d].at <= clock

Settled == {d \in Deltas \ excused : delta[d].phase = "settled" /\ InWindow(d)}
Covering ==
  /\ backfill["new"].phase \in {"reading", "batch", "done"}
  /\ creation.due /\ ~creation.edited
  /\ event.status # "deleted"
NothingLost == Covering => Settled \subseteq rows \cup backfill["new"].owed

Covered == Inv /\ Uncreated /\ Arranged /\ InThePast /\ NothingLost

LEMMA EventTypes ==
  ASSUME Inv
  PROVE  /\ creation \in [phase : {"none", "created", "seeded", "updated", "ended"},
                          due : BOOLEAN, edited : BOOLEAN]
         /\ event \in [status : {"none", "pending", "active", "ended", "deleted"},
                       start : Times, end : Times]
         /\ event.start \in Nat /\ event.end \in Nat /\ clock \in Nat
         /\ delta \in [Deltas -> [phase : DeltaPhases, at : 0..MaxTime]]
         /\ backfill \in [Backfills -> BackfillStates]
         /\ "new" \in Backfills /\ "manual" \in Backfills
BY BoundsAssumption DEF Inv, TypeOK, Times, Backfills

\* A running backfill is the one of new or leaves it alone.
LEMMA NewMoves ==
  ASSUME Inv, NEW k \in Backfills, BackfillStep(k)
  PROVE  /\ backfill'["new"] = backfill["new"] \/ k = "new"
         /\ backfill[k].phase # "idle"
         /\ Unchanged /\ rows \subseteq rows' /\ excused \subseteq excused'
BY EventTypes DEF BackfillStep, LoadEvent, ReadBatch, ProcessBatch, RetryBatch, Unchanged

LEMMA ArrangedKept == Inv /\ Uncreated /\ Arranged /\ [Next]_vars => Arranged'
<1> SUFFICES ASSUME Inv, Uncreated, Arranged, [Next]_vars
             PROVE  Arranged'
  OBVIOUS
<1> USE EventTypes
<1>1. CASE Tick \/ Punish \/ Quiet \/ UNCHANGED vars
  BY <1>1 DEF Arranged, Tick, Punish, Quiet, vars
<1>2. CASE UpdateEventStatuses \/ ForceStart \/ ForceEnd
  BY <1>2 DEF Arranged, Uncreated, UpdateEventStatuses, UpdatedStatus, ForceStart, ForceEnd, Started, Exists
<1>3. CASE DeleteEvent
  BY <1>3 DEF Arranged, Uncreated, DeleteEvent, BackfillStates
<1>4. CASE StartManual
  BY <1>4 DEF Arranged, StartManual, Unchanged
<1>5. CASE \E start, end \in Times : EditEvent(start, end) \/ CreateEvent(start, end)
  <2>1. PICK start, end \in Times : EditEvent(start, end) \/ CreateEvent(start, end)
    BY <1>5
  <2>2. CASE EditEvent(start, end)
    <3>1. /\ event'.status = event.status /\ creation'.phase = creation.phase
          /\ creation'.due = creation.due /\ UNCHANGED <<seeded, backfill>>
      BY <2>2 DEF EditEvent
    <3> QED
      BY <3>1, Zenon DEF Arranged
  <2>3. CASE CreateEvent(start, end)
    <3>1. /\ event'.status = "pending" /\ creation'.phase = "created"
          /\ creation'.due = creation.due /\ UNCHANGED <<seeded, backfill>>
          /\ creation.phase = "none"
      BY <2>3 DEF CreateEvent
    <3> QED
      BY <3>1 DEF Arranged
  <2> QED
    BY <2>1, <2>2, <2>3
<1>6. CASE SeedEventStats
  BY <1>6 DEF Arranged, SeedEventStats, Exists
<1>7. CASE UpdateOnCreation
  <2>1. /\ creation.phase = "seeded" /\ creation'.phase = "updated"
        /\ UNCHANGED <<seeded, backfill>>
    BY <1>7 DEF UpdateOnCreation
  <2>2. event.status # "none" /\ event'.status # "none"
    BY <1>7 DEF Arranged, UpdateOnCreation, Activated, UpdatedStatus
  <2>3. event'.status = "deleted" <=> event.status = "deleted"
    BY <1>7 DEF UpdateOnCreation, Activated, UpdatedStatus
  <2>4. creation'.due => event'.status \in {"active", "ended", "deleted"}
    <3>1. CASE Activated /\ creation' = [creation EXCEPT !.phase = "updated", !.due = event.start <= clock]
      <4>1. creation'.due = (event.start <= clock)
        BY <3>1, Zenon
      <4>2. event'.status = UpdatedStatus
        BY <3>1 DEF Activated
      <4>3. event.start <= clock => UpdatedStatus \in {"active", "ended", "deleted"}
        BY <2>2 DEF UpdatedStatus
      <4> QED
        BY <4>1, <4>2, <4>3, Zenon
    <3>2. CASE creation' = [creation EXCEPT !.phase = "updated"] /\ UNCHANGED event
      BY <3>2 DEF Arranged
    <3> QED
      BY <1>7, <3>1, <3>2 DEF UpdateOnCreation
  <2> QED
    BY <2>1, <2>2, <2>3, <2>4 DEF Arranged
<1>8. CASE ReplyAndSpawn
  BY <1>8 DEF Arranged, ReplyAndSpawn
<1>9. CASE \E d \in Deltas : DeltaStep(d)
  BY <1>9 DEF Arranged, DeltaStep, Stamp, InsertDelta, CommitDelta, CheckDisqualified, AwardEventXp
<1>10. CASE \E k \in Backfills : BackfillStep(k)
  BY <1>10, NewMoves DEF Arranged, Unchanged
<1>11. CASE Crash
  BY <1>11, EndStates DEF Arranged, Crash
<1> QED
  BY <1>1, <1>2, <1>3, <1>4, <1>5, <1>6, <1>7, <1>8, <1>9, <1>10, <1>11 DEF Next, CreationStep

LEMMA PastKept == Inv /\ InThePast /\ [Next]_vars => InThePast'
<1> SUFFICES ASSUME Inv, InThePast, [Next]_vars, NEW d \in Deltas
             PROVE  delta'[d].at <= clock'
  BY DEF InThePast
<1> USE EventTypes
<1>1. delta[d].at <= clock /\ delta[d].at \in Nat
  BY DEF InThePast
<1>2. CASE Tick
  BY <1>1, <1>2 DEF Tick
<1>3. CASE \E e \in Deltas : DeltaStep(e)
  <2>1. PICK e \in Deltas : DeltaStep(e)
    BY <1>3
  <2>2. clock' = clock
    BY <2>1 DEF DeltaStep, Stamp, InsertDelta, CommitDelta, CheckDisqualified, AwardEventXp
  <2>3. \/ delta'[d].at = delta[d].at \/ delta'[d].at = clock \/ delta'[d].at = 0
    BY <2>1 DEF DeltaStep, Stamp, InsertDelta, CommitDelta, CheckDisqualified, AwardEventXp, Put,
       Aborted, NoDelta
  <2> QED
    BY <1>1, <2>2, <2>3
<1>4. CASE Crash
  <2>1. \/ delta'[d].at = delta[d].at \/ delta'[d].at = 0
    BY <1>4 DEF Crash, Aborted, NoDelta
  <2> QED
    BY <1>1, <1>4, <2>1 DEF Crash
<1>5. CASE UNCHANGED <<delta, clock>>
  BY <1>1, <1>5
<1>6. (\E k \in Backfills : BackfillStep(k)) => UNCHANGED <<delta, clock>>
  BY NewMoves DEF Unchanged
<1>7. (\E start, end \in Times : EditEvent(start, end) \/ CreateEvent(start, end))
      => UNCHANGED <<delta, clock>>
  BY DEF EditEvent, CreateEvent
<1>8. Punish \/ UpdateEventStatuses \/ ForceStart \/ ForceEnd \/ DeleteEvent \/ StartManual
      \/ CreationStep \/ Quiet \/ UNCHANGED vars => UNCHANGED <<delta, clock>>
  BY DEF Punish, UpdateEventStatuses, ForceStart, ForceEnd, DeleteEvent, StartManual, Unchanged,
     CreationStep, SeedEventStats, UpdateOnCreation, ReplyAndSpawn, Quiet, vars
<1> QED
  BY <1>2, <1>3, <1>4, <1>5, <1>6, <1>7, <1>8 DEF Next

\* A step that settles nothing but what it excuses and gives up no row that is owed.
LEMMA StaysCovered ==
  ASSUME NothingLost, Covering' => Covering,
         Settled' \subseteq Settled \cup rows',
         rows \subseteq rows',
         backfill["new"].owed \subseteq backfill'["new"].owed \cup rows' \cup excused'
  PROVE  NothingLost'
BY DEF NothingLost, Settled

LEMMA DeltaCovers ==
  ASSUME Covered, NEW d \in Deltas, DeltaStep(d)
  PROVE  NothingLost'
<1> USE EventTypes DEF Covered
<1>1. UNCHANGED <<clock, event, seeded, backfill, creation>>
  BY DEF DeltaStep, Stamp, InsertDelta, CommitDelta, CheckDisqualified, AwardEventXp
<1>2. rows \subseteq rows' /\ excused \subseteq excused'
  BY DEF DeltaStep, Stamp, InsertDelta, CommitDelta, CheckDisqualified, AwardEventXp
<1>3. \A e \in Deltas \ {d} : delta'[e] = delta[e]
  BY DEF DeltaStep, Stamp, InsertDelta, CommitDelta, CheckDisqualified, AwardEventXp, Put
<1>4. Covering' = Covering
  BY <1>1, Zenon DEF Covering
<1>5. d \in Settled' /\ Covering => d \in rows'
  <2> SUFFICES ASSUME d \in Settled', Covering
               PROVE  d \in rows'
    OBVIOUS
  <2>1. delta'[d].phase = "settled" /\ d \notin excused' /\ InWindow(d)'
    BY DEF Settled
  <2>2. AwardEventXp(d)
    BY <2>1 DEF DeltaStep, Stamp, InsertDelta, CommitDelta, CheckDisqualified, Put, Aborted, NoDelta
  <2>3. delta'[d].at = delta[d].at
    BY <2>2 DEF AwardEventXp, Put
  <2>4. InWindow(d)
    BY <1>1, <2>1, <2>3 DEF InWindow
  <2>5. seeded /\ event.status \in {"active", "ended", "deleted"}
    BY DEF Arranged, Covering
  <2> QED
    BY <2>1, <2>2, <2>4, <2>5 DEF AwardEventXp, Awardable
<1>6. Covering => Settled' \subseteq Settled \cup rows'
  <2> SUFFICES ASSUME Covering, NEW e \in Settled', e # d
               PROVE  e \in Settled
    BY <1>5 DEF Settled
  <2>1. delta'[e] = delta[e]
    BY <1>3 DEF Settled
  <2> QED
    BY <1>1, <1>2, <2>1 DEF Settled, InWindow
<1> QED
  BY <1>1, <1>2, <1>4, <1>6 DEF NothingLost

\* From LoadEvent on the backfill owes what was settled before it.
LEMMA LoadCovers ==
  ASSUME Covered, LoadEvent("new")
  PROVE  NothingLost'
<1> USE EventTypes DEF Covered
<1> SUFFICES ASSUME Covering', NEW d \in Settled'
             PROVE  d \in rows' \cup backfill'["new"].owed
  BY DEF NothingLost
<1>1. UNCHANGED <<clock, event, seeded, delta, creation, rows, excused>>
  BY DEF LoadEvent, Unchanged
<1>2. d \in Deltas /\ Committed(d) /\ event.start <= delta[d].at /\ delta[d].at < event.end
  BY <1>1 DEF Settled, InWindow, Committed
<1>3. delta[d].at <= clock /\ delta[d].at \in Nat
  BY <1>2 DEF InThePast
<1>4. d \in Window(event.start, Lesser(event.end, clock))
  BY <1>2, <1>3 DEF Window, Lesser
<1>5. seeded
  BY <1>1 DEF Arranged, Covering
<1>6. backfill'["new"] \in {[backfill["new"] EXCEPT !.phase = "reading", !.from = event.start,
                                !.to = Lesser(event.end, clock),
                                !.owed = Window(event.start, Lesser(event.end, clock))], Failed}
  BY <1>5 DEF LoadEvent
<1>7. Failed.phase = "failed"
  BY DEF Failed, NoBackfill
<1>8. PICK b : b = backfill["new"]
  OBVIOUS
<1>9. b \in BackfillStates
  BY <1>8
<1>10. backfill'["new"].owed = Window(event.start, Lesser(event.end, clock))
  BY <1>6, <1>7, <1>8, <1>9 DEF Covering, BackfillStates
<1> QED
  BY <1>4, <1>10

LEMMA BackfillCovers ==
  ASSUME Covered, NEW k \in Backfills, BackfillStep(k)
  PROVE  NothingLost'
<1> USE EventTypes DEF Covered
<1>1. UNCHANGED <<clock, event, seeded, delta, creation>> /\ rows \subseteq rows' /\ excused \subseteq excused'
  BY NewMoves DEF Unchanged
<1>2. Settled' \subseteq Settled
  BY <1>1 DEF Settled, InWindow
<1>3. CASE backfill'["new"] = backfill["new"]
  <2>1. Covering' => Covering
    BY <1>1, <1>3, Zenon DEF Covering
  <2> QED
    BY <1>1, <1>2, <1>3, <2>1, StaysCovered
<1>4. CASE k = "new" /\ ~LoadEvent(k)
  <2>1. PICK b : b = backfill["new"]
    OBVIOUS
  <2>2. b \in BackfillStates
    BY <2>1
  <2>3. b.phase \in {"reading", "batch"}
    BY <1>4, <2>1 DEF BackfillStep, ReadBatch, ProcessBatch, RetryBatch
  <2>4. Covering' => Covering
    BY <1>1, <2>1, <2>3, Zenon DEF Covering
  <2>5. \A r : Done(r).owed = r.owed
    BY DEF Done, NoBackfill
  <2>6. Failed.phase = "failed"
    BY DEF Failed, NoBackfill
  <2>7. Covering' => b.owed \subseteq backfill'["new"].owed \cup excused'
    <3>1. CASE ReadBatch(k)
      <4>1. PICK batch : batch = FirstOf({d \in Window(b.from, b.to) : d > b.cursor})
        OBVIOUS
      <4>2. PICK next : next = [b EXCEPT !.phase = "batch", !.batch = batch,
                                         !.cursor = NextCursor(batch)]
        OBVIOUS
      <4>3. next.owed = b.owed
        BY <2>2, <4>2 DEF BackfillStates
      <4>4. backfill'["new"] \in {Done(b), next, Failed}
        BY <1>4, <2>1, <3>1, <4>1, <4>2 DEF ReadBatch
      <4> QED
        BY <2>5, <2>6, <4>3, <4>4 DEF Covering
    <3>2. CASE ProcessBatch(k)
      <4>1. PICK given : given = IF allowed THEN b.batch ELSE {}
        OBVIOUS
      <4>2. PICK rest : rest = [b EXCEPT !.phase = "reading", !.batch = {}, !.tries = 0,
                                         !.owed = b.owed \ (b.batch \ given)]
        OBVIOUS
      <4>3. rest.owed = b.owed \ (b.batch \ given)
        BY <2>2, <4>2 DEF BackfillStates
      <4>4. backfill'["new"] \in {Done(rest), rest} /\ excused' = excused \cup (b.batch \ given)
        BY <1>4, <2>1, <3>2, <4>1, <4>2 DEF ProcessBatch
      <4> QED
        BY <2>5, <4>3, <4>4
    <3>3. CASE RetryBatch(k)
      BY <1>4, <2>1, <2>2, <2>6, <3>3 DEF RetryBatch, BackfillStates, Covering
    <3> QED
      BY <1>4, <3>1, <3>2, <3>3 DEF BackfillStep
  <2> QED
    BY <1>1, <1>2, <2>1, <2>4, <2>7 DEF NothingLost, Settled
<1>5. CASE LoadEvent("new")
  BY <1>5, LoadCovers
<1> QED
  BY <1>3, <1>4, <1>5, NewMoves

LEMMA CoveredKept == Covered /\ [Next]_vars => NothingLost'
<1> SUFFICES ASSUME Covered, [Next]_vars
             PROVE  NothingLost'
  OBVIOUS
<1> USE EventTypes DEF Covered
<1>1. CASE Tick \/ Punish \/ UpdateEventStatuses \/ ForceStart \/ ForceEnd \/ StartManual
           \/ Quiet \/ UNCHANGED vars
  <2>1. /\ backfill'["new"] = backfill["new"]
        /\ UNCHANGED <<creation, delta, rows, excused>>
        /\ event'.start = event.start /\ event'.end = event.end
    BY <1>1 DEF Tick, Punish, UpdateEventStatuses, ForceStart, ForceEnd, StartManual, Unchanged,
       Quiet, vars
  <2>2. event.status = "deleted" => event'.status = "deleted"
    BY <1>1 DEF Tick, Punish, UpdateEventStatuses, UpdatedStatus, ForceStart, ForceEnd, Exists,
       StartManual, Unchanged, Quiet, vars
  <2>3. Covering' => Covering
    BY <2>1, <2>2, Zenon DEF Covering
  <2>4. Settled' \subseteq Settled
    BY <2>1 DEF Settled, InWindow
  <2> QED
    BY <2>1, <2>3, <2>4, StaysCovered
<1>2. CASE DeleteEvent \/ \E start, end \in Times : EditEvent(start, end) \/ CreateEvent(start, end)
  <2>1. ~Covering'
    BY <1>2 DEF DeleteEvent, EditEvent, CreateEvent, Arranged, Covering
  <2> QED
    BY <2>1 DEF NothingLost
<1>3. CASE CreationStep
  <2>1. backfill["new"].phase = "idle"
    BY <1>3 DEF CreationStep, SeedEventStats, UpdateOnCreation, ReplyAndSpawn, Arranged
  <2>2. backfill'["new"].phase \in {"idle", "spawned"}
    BY <1>3, <2>1 DEF CreationStep, SeedEventStats, UpdateOnCreation, ReplyAndSpawn, NoBackfill
  <2> QED
    BY <2>2 DEF NothingLost, Covering
<1>4. CASE \E d \in Deltas : DeltaStep(d)
  BY <1>4, DeltaCovers
<1>5. CASE \E k \in Backfills : BackfillStep(k)
  BY <1>5, BackfillCovers
<1>6. CASE Crash
  <2>1. backfill'["new"] = backfill["new"] \/ backfill'["new"].phase = "idle"
    BY <1>6 DEF Crash, NoBackfill
  <2>2. creation'.due = creation.due /\ creation'.edited = creation.edited /\ UNCHANGED <<event, rows>>
    BY <1>6 DEF Crash
  <2>3. Covering' => Covering /\ backfill'["new"] = backfill["new"]
    BY <2>1, <2>2 DEF Covering
  <2>4. \A d \in Deltas : delta'[d].phase = "settled" /\ d \notin excused' => delta'[d] = delta[d]
    BY <1>6 DEF Crash, Aborted, NoDelta
  <2>5. excused \subseteq excused'
    BY <1>6 DEF Crash
  <2>6. Settled' \subseteq Settled
    BY <2>2, <2>4, <2>5 DEF Settled, InWindow
  <2> QED
    BY <2>2, <2>3, <2>6 DEF NothingLost
<1> QED
  BY <1>1, <1>2, <1>3, <1>4, <1>5, <1>6 DEF Next

LEMMA CoveredImplies == Covered => CreationCovers
<1> SUFFICES ASSUME Covered, backfill["new"].phase = "done", creation.due, ~creation.edited,
                    event.status # "deleted",
                    NEW d \in Deltas \ excused, delta[d].phase = "settled", InWindow(d)
             PROVE  d \in rows
  BY DEF CreationCovers
<1>1. backfill["new"].owed \subseteq rows
  BY SoundImpliesComplete DEF Covered, BackfillComplete, Backfills
<1>2. d \in Settled /\ Covering
  BY DEF Settled, Covering
<1> QED
  BY <1>1, <1>2 DEF Covered, NothingLost

(***************************************************************************)
(* The theorems.                                                           *)
(***************************************************************************)

\* The inductive invariant of the award and the backfill holds whatever the bounds.
LEMMA InvHolds == Spec => []Inv
<1> QED
  BY InitSound, StepSound, PTL DEF Spec

\* Types, times and phases are as declared, and event_xp has a row only for a
\* committed delta (award_event_xp_for_delta, process_batch).
THEOREM EventXpTypes == Spec => []TypeOK
<1>1. Inv => TypeOK
  BY DEF Inv
<1> QED
  BY <1>1, InvHolds, PTL

\* A backfill that finishes has covered every delta of its window that was
\* committed when it started, for every batch size and however awards, punishments,
\* retries, failures and restarts interleave with it (backfill_event_xp).
THEOREM BackfillAlwaysComplete == Spec => []BackfillComplete
<1> QED
  BY InvHolds, SoundImpliesComplete, PTL

\* No command, tick or restart brings back an event that has ended
\* (update_event_statuses, force_start_event, update_event).
THEOREM EndedStaysEnded == Spec => EndedForGood
<1>1. Init => Uncreated
  BY DEF Init, Uncreated
<1>2. Inv /\ Uncreated /\ [Next]_vars => [event.status = "ended" => event'.status = "ended"]_vars
  BY EndedKept
<1> QED
  BY <1>1, <1>2, InvHolds, UncreatedKept, PTL DEF Spec, EndedForGood

\* An event created after its start loses nothing to the time it took to set it
\* up: once the backfill of /edit-event new is over, every settled delta of the
\* window has its row or was excused, for any number of deltas, any batch size
\* and every order of commits, awards, batches, ticks and commands (new,
\* update_event_statuses, award_event_xp_for_delta, backfill_event_xp).
THEOREM CreationAlwaysCovers == Spec => []CreationCovers
<1>1. Init => Uncreated /\ Arranged /\ InThePast /\ NothingLost
  BY BoundsAssumption DEF Init, Uncreated, Arranged, InThePast, NothingLost, Covering, NoBackfill, Backfills,
     NoDelta
<1>2. Init => Covered
  BY <1>1, InitSound DEF Covered
<1>3. Covered /\ [Next]_vars => Covered'
  BY StepSound, UncreatedKept, ArrangedKept, PastKept, CoveredKept DEF Covered
<1> QED
  BY <1>2, <1>3, CoveredImplies, PTL DEF Spec

=============================================================================
