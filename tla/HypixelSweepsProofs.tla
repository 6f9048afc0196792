------------------------- MODULE HypixelSweepsProofs -------------------------
(***************************************************************************)
(* The flag of the full sweeps, the line of players the stale sweep serves *)
(* and its batches, for any number of boundaries and users.                *)
(***************************************************************************)
EXTENDS HypixelSweeps, FiniteSetTheorems, WellFoundedInduction, TLAPS

FlagInv ==
  /\ full \in [Boundaries -> FullStates]
  /\ active \subseteq Users
  /\ FlagTracksSweeps

LEMMA FlagInit == Init => FlagInv
BY DEF Init, FlagInv, FlagTracksSweeps, InFlight, NoFull, FullStates

\* A step of one full sweep that leaves it in flight and the flag alone.
LEMMA StaysInFlight ==
  ASSUME FlagInv, active' \subseteq Users, flag' = flag,
         NEW b \in Boundaries, InFlight(b),
         NEW r \in FullStates, r.phase # "idle",
         full' = [full EXCEPT ![b] = r]
  PROVE  FlagInv'
<1>1. full' \in [Boundaries -> FullStates]
  BY DEF FlagInv
<1>2. \A a \in Boundaries : InFlight(a)' <=> InFlight(a)
  BY DEF InFlight, FlagInv
<1> QED
  BY <1>1, <1>2, Zenon DEF FlagInv, FlagTracksSweeps

\* Whatever neither launches nor ends a full sweep.
LEMMA SweepsAlone ==
  ASSUME FlagInv, active' \subseteq Users, UNCHANGED <<flag, full>>
  PROVE  FlagInv'
BY DEF FlagInv, FlagTracksSweeps, InFlight

LEMMA PollStep ==
  ASSUME FlagInv, NEW b \in Boundaries, Poll(b)
  PROVE  FlagInv'
<1>1. active' \subseteq Users
  BY DEF Poll, people, FlagInv
<1>2. CASE flag
  BY <1>1, <1>2, SweepsAlone DEF Poll, Launched, people
<1>3. CASE ~flag
  <2>1. \A a \in Boundaries : ~InFlight(a)
    BY <1>3 DEF FlagInv, FlagTracksSweeps
  <2>2. full' = [full EXCEPT ![b] = [phase |-> "spawned", todo |-> {}]] /\ flag'
    BY <1>3 DEF Poll, Launched
  <2>3. full' \in [Boundaries -> FullStates]
    BY <2>2 DEF FlagInv, FullStates
  <2>4. \A a \in Boundaries : InFlight(a)' <=> a = b
    BY <2>1, <2>2 DEF InFlight, FlagInv
  <2> QED
    BY <1>1, <2>2, <2>3, <2>4, Zenon DEF FlagInv, FlagTracksSweeps
<1> QED
  BY <1>2, <1>3

LEMMA FullSelectStep ==
  ASSUME FlagInv, NEW b \in Boundaries, FullSelect(b)
  PROVE  FlagInv'
<1>1. active' \subseteq Users /\ flag' = flag /\ InFlight(b)
  BY DEF FullSelect, people, FlagInv, InFlight
<1>2. PICK U \in SUBSET Users :
        full' = [full EXCEPT ![b] = [phase |-> "sweeping", todo |-> U]]
  BY DEF FullSelect, FlagInv
<1>3. [phase |-> "sweeping", todo |-> U] \in FullStates
  BY DEF FullStates
<1> QED
  BY <1>1, <1>2, <1>3, StaysInFlight

LEMMA FullRefreshStep ==
  ASSUME FlagInv, NEW b \in Boundaries, NEW u \in Users, FullRefresh(b, u)
  PROVE  FlagInv'
<1> DEFINE r == [full[b] EXCEPT !.todo = @ \ {u}]
<1>1. active' \subseteq Users /\ flag' = flag /\ InFlight(b)
  BY DEF FullRefresh, FlagInv, InFlight
<1>2. full' = [full EXCEPT ![b] = r]
  BY DEF FullRefresh
<1>3. r \in FullStates /\ r.phase # "idle"
  <2>1. full[b] \in FullStates /\ full[b].phase # "idle"
    BY <1>1 DEF FlagInv, InFlight
  <2> QED
    BY <2>1 DEF FullStates
<1> HIDE DEF r
<1> QED
  BY <1>1, <1>2, <1>3, StaysInFlight

LEMMA FullDoneStep ==
  ASSUME FlagInv, NEW b \in Boundaries, FullDone(b)
  PROVE  FlagInv'
<1>1. active' \subseteq Users /\ ~flag' /\ full' = [full EXCEPT ![b] = NoFull]
  BY DEF FullDone, Released, people, FlagInv
<1>2. InFlight(b)
  BY DEF FullDone, InFlight
<1>3. \A a \in Boundaries : a # b => ~InFlight(a)
  BY <1>2 DEF FlagInv, FlagTracksSweeps
<1>4. full' \in [Boundaries -> FullStates]
  BY <1>1 DEF FlagInv, NoFull, FullStates
<1>5. \A a \in Boundaries : ~InFlight(a)'
  BY <1>1, <1>3 DEF InFlight, NoFull, FlagInv
<1> QED
  BY <1>1, <1>4, <1>5, Zenon DEF FlagInv, FlagTracksSweeps

LEMMA RestartStep ==
  ASSUME FlagInv, Restart
  PROVE  FlagInv'
BY DEF Restart, people, FlagInv, FlagTracksSweeps, InFlight, NoFull, FullStates

LEMMA FlagStep == FlagInv /\ [Next]_vars => FlagInv'
<1> SUFFICES ASSUME FlagInv, [Next]_vars
             PROVE  FlagInv'
  OBVIOUS
<1>1. ASSUME NEW u \in Users, Play(u) \/ Leave(u) \/ Return(u) \/ Command(u)
      PROVE  FlagInv'
  BY <1>1, SweepsAlone, UsersAssumption
  DEF Play, Leave, Return, Command, sweeps, FlagInv
<1>2. CASE Age
  BY <1>2, SweepsAlone DEF Age, sweeps, FlagInv
<1>3. CASE StaleStep
  BY <1>3, SweepsAlone DEF StaleStep, StaleCheck, StaleSelect, StaleRefresh, people, FlagInv
<1>4. ASSUME NEW b \in Boundaries, Open(b) \/ Pass(b) \/ Poll(b) \/ FullStep(b)
      PROVE  FlagInv'
  <2>1. CASE Open(b) \/ Pass(b)
    BY <2>1, SweepsAlone DEF Open, Pass, people, sweeps, FlagInv
  <2>2. CASE Poll(b)
    BY <2>2, PollStep
  <2>3. CASE FullStep(b)
    BY <2>3, FullSelectStep, FullRefreshStep, FullDoneStep DEF FullStep
  <2> QED
    BY <1>4, <2>1, <2>2, <2>3
<1>5. CASE Restart
  BY <1>5, RestartStep
<1>6. CASE UNCHANGED vars
  BY <1>6, SweepsAlone DEF vars, people, sweeps, FlagInv
<1> QED
  BY <1>1, <1>2, <1>3, <1>4, <1>5, <1>6 DEF Next

\* The flag is up exactly while one full sweep is in flight, for any number of
\* events, users and restarts (swap and store of is_full_sweep_running).
THEOREM FlagAlwaysTracksSweeps == Spec => []FlagTracksSweeps
<1>1. FlagInv => FlagTracksSweeps
  BY DEF FlagInv
<1> QED
  BY <1>1, FlagInit, FlagStep, PTL DEF Spec
-----------------------------------------------------------------------------
(***************************************************************************)
(* The line of players.                                                    *)
(***************************************************************************)
Count == Cardinality(Users)
Lined(q) == q \in [1..Count -> Users] /\ \A a, b \in 1..Count : q[a] = q[b] => a = b
\* The n players first in line.
First(q, n) == {q[i] : i \in 1..n}
LineOK == Lined(queue) /\ \E n \in 0..Count : expired = First(queue, n)

LEMMA CountType == Count \in Nat
BY FS_CardinalityType, UsersAssumption DEF Count

\* Everyone is somewhere in line.
LEMMA Somewhere ==
  ASSUME NEW q, Lined(q), NEW u \in Users
  PROVE  \E i \in 1..Count : q[i] = u
<1>1. Count \in Nat
  BY CountType
<1>2. q \in Injection(1..Count, Users)
  BY DEF Lined, Injection, IsInjective
<1>3. Cardinality(1..Count) = Count
  BY <1>1, FS_Interval
<1>4. q \in Surjection(1..Count, Users)
  BY <1>2, <1>3, UsersAssumption, FS_Injection DEF Count
<1> QED BY <1>4 DEF Surjection

\* A player who is refreshed goes to the end, those behind move up.
LEMMA WithoutIs ==
  ASSUME NEW q, Lined(q), NEW u \in Users
  PROVE  \E p \in 1..Count :
           /\ q[p] = u
           /\ Append(Without(q, u), u) =
                [i \in 1..Count |-> IF i < p THEN q[i] ELSE IF i < Count THEN q[i + 1] ELSE u]
<1>1. PICK n \in Nat : n = Count
  BY CountType
<1>2. q \in Seq(Users) /\ Len(q) = n /\ DOMAIN q = 1..n
  BY <1>1 DEF Lined
<1>3. PICK p : p = CHOOSE i \in DOMAIN q : q[i] = u
  OBVIOUS
<1>4. p \in 1..n /\ q[p] = u
  BY <1>1, <1>2, <1>3, Somewhere
<1>5. PICK a : a = SubSeq(q, 1, p - 1)
  OBVIOUS
<1>6. PICK b : b = SubSeq(q, p + 1, n)
  OBVIOUS
<1>7. a \in Seq(Users) /\ Len(a) = p - 1 /\ \A i \in 1..(p - 1) : a[i] = q[i]
  BY <1>2, <1>4, <1>5
<1>8. b \in Seq(Users) /\ Len(b) = n - p /\ \A i \in 1..(n - p) : b[i] = q[p + i]
  BY <1>2, <1>4, <1>6
<1>9. PICK c : c = a \o b
  OBVIOUS
<1>10. Without(q, u) = c
  BY <1>2, <1>3, <1>5, <1>6, <1>9 DEF Without, RemoveAt
<1>11. c \in Seq(Users) /\ Len(c) = n - 1
  BY <1>4, <1>7, <1>8, <1>9
<1>12. \A i \in 1..(n - 1) : c[i] = IF i < p THEN q[i] ELSE q[i + 1]
  <2> TAKE i \in 1..(n - 1)
  <2>1. CASE i < p
    BY <1>4, <1>7, <1>8, <1>9, <2>1
  <2>2. CASE i >= p
    <3>1. i - (p - 1) \in 1..(n - p) /\ p + (i - (p - 1)) = i + 1
      BY <1>4, <2>2
    <3>2. c[i] = b[i - (p - 1)]
      BY <1>4, <1>7, <1>8, <1>9, <2>2
    <3> QED BY <1>4, <1>8, <2>2, <3>1, <3>2
  <2> QED BY <1>4, <2>1, <2>2
<1>13. PICK d : d = Append(c, u)
  OBVIOUS
<1>14. d \in Seq(Users) /\ Len(d) = n /\ d[n] = u /\ \A i \in 1..(n - 1) : d[i] = c[i]
  BY <1>4, <1>11, <1>13
<1>15. d = [i \in 1..n |-> IF i < p THEN q[i] ELSE IF i < n THEN q[i + 1] ELSE u]
  <2>1. \A i \in 1..n : d[i] = IF i < p THEN q[i] ELSE IF i < n THEN q[i + 1] ELSE u
    BY <1>4, <1>12, <1>14
  <2>2. d \in [1..n -> Users]
    BY <1>14
  <2> QED BY <2>1, <2>2
<1> QED BY <1>1, <1>4, <1>10, <1>13, <1>15

LEMMA StampKeeps ==
  ASSUME LineOK, NEW u \in Users, NEW ok, Stamped(u, ok)
  PROVE  LineOK'
<1>1. PICK n \in Nat : n = Count
  BY CountType
<1>2. PICK p \in 1..n :
        /\ queue[p] = u
        /\ queue' = [i \in 1..n |-> IF i < p THEN queue[i]
                                    ELSE IF i < n THEN queue[i + 1] ELSE u]
  BY <1>1, WithoutIs DEF LineOK, Stamped
<1>3. queue \in [1..n -> Users] /\ \A a, b \in 1..n : queue[a] = queue[b] => a = b
  BY <1>1 DEF LineOK, Lined
<1>4. queue' \in [1..n -> Users]
  BY <1>2, <1>3
<1>5. /\ \A i \in 1..n : i < p => queue'[i] = queue[i]
      /\ \A i \in 1..n : p <= i /\ i < n => i + 1 \in 1..n /\ queue'[i] = queue[i + 1]
      /\ queue'[n] = queue[p]
  BY <1>2
<1>6. \A a, b \in 1..n : queue'[a] = queue'[b] => a = b
  <2> SUFFICES ASSUME NEW a \in 1..n, NEW b \in 1..n, a < b PROVE queue'[a] # queue'[b]
    OBVIOUS
  <2>1. CASE b < p
    BY <1>3, <1>5, <2>1
  <2>2. CASE a < p /\ p <= b /\ b < n
    BY <1>3, <1>5, <2>2
  <2>3. CASE a < p /\ b = n
    BY <1>3, <1>5, <2>3
  <2>4. CASE p <= a /\ b < n
    BY <1>3, <1>5, <2>4
  <2>5. CASE p <= a /\ b = n
    BY <1>3, <1>5, <2>5
  <2> QED BY <2>1, <2>2, <2>3, <2>4, <2>5
<1>7. PICK k \in 0..n : expired = First(queue, k)
  BY <1>1 DEF LineOK
<1>8. expired' = expired \ {u}
  BY DEF Stamped
<1>9. CASE p <= k
  <2>1. k - 1 \in 0..n /\ \A i \in 1..k : i \in 1..n
    BY <1>9
  <2>2. \A i \in 1..(k - 1) : i < p => queue'[i] = queue[i] /\ i \in 1..k /\ i # p
    BY <1>5
  <2>3. \A i \in 1..(k - 1) : p <= i => queue'[i] = queue[i + 1] /\ i + 1 \in 1..k /\ i + 1 # p
    BY <1>5, <1>9
  <2>4. First(queue, k - 1)' \subseteq expired \ {u}
    BY <1>2, <1>3, <1>7, <2>1, <2>2, <2>3 DEF First
  <2>5. ASSUME NEW x \in expired \ {u} PROVE x \in First(queue, k - 1)'
    <3>1. PICK i \in 1..k : queue[i] = x /\ i # p
      BY <1>2, <1>7 DEF First
    <3>2. CASE i < p
      <4>1. i \in 1..(k - 1) /\ queue'[i] = x
        BY <1>5, <1>9, <3>1, <3>2
      <4> QED BY <4>1 DEF First
    <3>3. CASE i > p
      <4>1. i - 1 \in 1..(k - 1) /\ queue'[i - 1] = x
        <5>1. i - 1 \in 1..n /\ p <= i - 1 /\ i - 1 < n /\ (i - 1) + 1 = i
          BY <3>3
        <5> QED BY <1>5, <3>1, <3>3, <5>1
      <4> QED BY <4>1 DEF First
    <3> QED BY <3>1, <3>2, <3>3
  <2>6. expired' = First(queue, k - 1)'
    BY <1>8, <2>4, <2>5
  <2> QED BY <1>1, <1>4, <1>6, <2>1, <2>6 DEF LineOK, Lined, Count
<1>10. CASE k < p
  <2>1. \A i \in 1..k : queue'[i] = queue[i] /\ queue[i] # u
    BY <1>2, <1>3, <1>5, <1>10
  <2>2. expired' = First(queue, k)'
    BY <1>7, <1>8, <2>1 DEF First
  <2> QED BY <1>1, <1>4, <1>6, <2>2 DEF LineOK, Lined, Count
<1> QED BY <1>9, <1>10

LEMMA RefreshKeeps ==
  ASSUME LineOK, NEW u \in Users, NEW mayBeCached, RefreshUser(u, mayBeCached),
         failures \in 0..MaxFailures, behind \subseteq Users
  PROVE  LineOK' /\ failures' \in 0..MaxFailures /\ behind' \subseteq Users
<1>1. LineOK'
  <2>1. CASE UNCHANGED <<queue, expired>>
    BY <2>1 DEF LineOK, Lined, First
  <2> QED BY <2>1, StampKeeps DEF RefreshUser
<1>2. failures' \in 0..MaxFailures
  <2>1. UNCHANGED failures \/ Charge
    BY DEF RefreshUser
  <2> QED BY <2>1, BoundsAssumption DEF Charge
<1>3. behind' \subseteq Users
  BY DEF RefreshUser
<1> QED BY <1>1, <1>2, <1>3

\* The next in line has not been refreshed for two hours.
LEMMA AgeKeeps ==
  ASSUME LineOK, Age
  PROVE  LineOK'
<1>1. PICK n \in Nat : n = Count
  BY CountType
<1>2. queue \in [1..n -> Users] /\ \A a, b \in 1..n : queue[a] = queue[b] => a = b
  BY <1>1 DEF LineOK, Lined
<1>3. PICK i \in 1..n : /\ queue[i] \notin expired
                        /\ \A j \in 1..(i - 1) : queue[j] \in expired
                        /\ expired' = expired \cup {queue[i]}
  BY <1>2 DEF Age
<1>4. PICK k \in 0..n : expired = First(queue, k)
  BY <1>1 DEF LineOK
<1>5. k < i
  BY <1>3, <1>4 DEF First
<1>6. i <= k + 1
  <2> SUFFICES ASSUME k + 1 < i PROVE FALSE
    OBVIOUS
  <2>1. k + 1 \in 1..(i - 1) /\ k + 1 \in 1..n
    OBVIOUS
  <2>2. PICK j \in 1..k : queue[j] = queue[k + 1]
    BY <1>3, <1>4, <2>1 DEF First
  <2> QED BY <1>2, <2>1, <2>2
<1>7. i = k + 1
  BY <1>5, <1>6
<1>8. expired' = First(queue, k + 1)
  <2>1. 1..(k + 1) = 1..k \cup {k + 1}
    OBVIOUS
  <2> QED BY <1>3, <1>4, <1>7, <2>1 DEF First
<1> QED BY <1>1, <1>2, <1>7, <1>8 DEF LineOK, Lined, First, Age
-----------------------------------------------------------------------------
(***************************************************************************)
(* The batch.  Induction is by the least element of a set of naturals.     *)
(***************************************************************************)
Earlier == {p \in Nat \X Nat : p[1] < p[2]}

\* Every nonempty set of naturals has a least element.
LEMMA Least ==
  ASSUME NEW T, T \subseteq Nat, T # {}
  PROVE  \E m \in T : \A k \in T : m <= k
<1>1. IsWellFoundedOn(Earlier, Nat)
  BY NatLessThanWellFounded DEF OpToRel, Earlier
<1>2. PICK m \in T : \A k \in T : ~ (<<k, m>> \in Earlier)
  BY <1>1, WFMin
<1>3. \A k \in T : ~(k < m)
  BY <1>2 DEF Earlier
<1> QED BY <1>3

\* The batch after one more player in line.
More(s, u) == IF u \in active \cap expired /\ Len(s) < Batch THEN Append(s, u) ELSE s
\* Batches grow along the first n in line.
Batches(d, n) ==
  /\ d \in [0..n -> Seq(Users)]
  /\ d[0] = <<>> /\ \A i \in 1..n : d[i] = More(d[i - 1], queue[i])
  /\ \A i \in 0..n : Len(d[i]) <= Batch

LEMMA MoreType ==
  ASSUME NEW s \in Seq(Users), Len(s) <= Batch, NEW u \in Users
  PROVE  More(s, u) \in Seq(Users) /\ Len(More(s, u)) <= Batch
BY BatchAssumption DEF More

LEMMA BatchesExist ==
  ASSUME NEW n \in Nat, \A i \in 1..n : queue[i] \in Users
  PROVE  \E d : Batches(d, n)
<1> DEFINE Bad == {k \in 0..n : ~ \E d : Batches(d, k)}
<1>1. SUFFICES ASSUME Bad # {} PROVE FALSE
  OBVIOUS
<1>2. Bad \subseteq Nat
  OBVIOUS
<1>3. PICK m \in Bad : \A k \in Bad : m <= k
  BY <1>1, <1>2, Least
<1>4. m \in 0..n /\ ~ \E d : Batches(d, m)
  OBVIOUS
<1>5. CASE m = 0
  <2>1. PICK z : z = [i \in 0..0 |-> <<>>]
    OBVIOUS
  <2>2. z \in [0..0 -> Seq(Users)] /\ z[0] = <<>>
    BY <2>1
  <2>3. Batches(z, 0)
    BY <2>2, BatchAssumption DEF Batches
  <2> QED BY <1>4, <1>5, <2>3
<1>6. CASE m # 0
  <2>1. m \in Nat /\ m >= 1 /\ m \in 1..n /\ m - 1 \in 0..n /\ m - 1 \notin Bad
    BY <1>3, <1>4, <1>6
  <2>2. PICK d : Batches(d, m - 1)
    BY <2>1
  <2>3. PICK s : s = More(d[m - 1], queue[m])
    OBVIOUS
  <2>4. d[m - 1] \in Seq(Users) /\ Len(d[m - 1]) <= Batch
    BY <2>1, <2>2 DEF Batches
  <2>5. s \in Seq(Users) /\ Len(s) <= Batch
    BY <2>1, <2>3, <2>4, MoreType
  <2>6. PICK e : e = [i \in 0..m |-> IF i = m THEN s ELSE d[i]]
    OBVIOUS
  <2>7. e[m] = s /\ \A i \in 0..(m - 1) : e[i] = d[i]
    BY <2>1, <2>6
  <2>8. /\ d \in [0..(m - 1) -> Seq(Users)] /\ d[0] = <<>>
        /\ \A i \in 1..(m - 1) : d[i] = More(d[i - 1], queue[i])
        /\ \A i \in 0..(m - 1) : Len(d[i]) <= Batch
    BY <2>2 DEF Batches
  <2>9. e \in [0..m -> Seq(Users)]
    BY <2>1, <2>5, <2>6, <2>8
  <2>10. e[0] = <<>> /\ \A i \in 0..m : Len(e[i]) <= Batch
    <3>1. e[0] = <<>>
      BY <2>1, <2>7, <2>8
    <3>2. ASSUME NEW i \in 0..m PROVE Len(e[i]) <= Batch
      <4>1. CASE i = m
        BY <2>5, <2>7, <4>1
      <4>2. CASE i # m
        <5>1. i \in 0..(m - 1)
          BY <2>1, <4>2
        <5> QED BY <2>7, <2>8, <5>1
      <4> QED BY <4>1, <4>2
    <3> QED BY <3>1, <3>2
  <2>11. ASSUME NEW i \in 1..m PROVE e[i] = More(e[i - 1], queue[i])
    <3>1. i - 1 \in 0..(m - 1) /\ e[i - 1] = d[i - 1]
      BY <2>1, <2>7
    <3>2. CASE i = m
      BY <2>3, <2>7, <3>1, <3>2
    <3>3. CASE i # m
      <4>1. i \in 1..(m - 1) /\ e[i] = d[i]
        BY <2>1, <2>7, <3>3
      <4> QED BY <2>8, <3>1, <4>1
    <3> QED BY <3>2, <3>3
  <2>12. Batches(e, m)
    BY <2>9, <2>10, <2>11 DEF Batches
  <2> QED BY <1>4, <2>12
<1> QED BY <1>5, <1>6

\* The batch of the stale sweep holds users, and no more than the LIMIT.
LEMMA ExpiredUsersType ==
  ASSUME LineOK
  PROVE  ExpiredUsers \in Seq(Users) /\ Len(ExpiredUsers) <= Batch
<1>1. PICK n \in Nat : n = Count
  BY CountType
<1>2. queue \in Seq(Users) /\ Len(queue) = n /\ \A i \in 1..n : queue[i] \in Users
  BY <1>1 DEF LineOK, Lined
<1> DEFINE P(f) == f = [i \in 0..n |-> IF i = 0 THEN <<>> ELSE More(f[i - 1], queue[i])]
<1>3. Due = CHOOSE f : P(f)
  BY <1>2 DEF Due, More
<1>4. PICK d : Batches(d, n)
  BY <1>2, BatchesExist
<1>5. /\ d \in [0..n -> Seq(Users)] /\ d[0] = <<>>
      /\ \A i \in 1..n : d[i] = More(d[i - 1], queue[i])
  BY <1>4 DEF Batches
<1>6. P(d)
  BY <1>5
<1>7. P(Due)
  BY <1>3, <1>6
<1>8. Due[0] = <<>> /\ \A i \in 1..n : Due[i] = More(Due[i - 1], queue[i])
  BY <1>7
<1> HIDE DEF P
<1>9. \A i \in 0..n : Due[i] = d[i]
  <2> DEFINE Bad == {k \in 0..n : Due[k] # d[k]}
  <2>1. SUFFICES ASSUME Bad # {} PROVE FALSE
    OBVIOUS
  <2>2. Bad \subseteq Nat
    OBVIOUS
  <2>3. PICK m \in Bad : \A k \in Bad : m <= k
    BY <2>1, <2>2, Least
  <2>4. m # 0 /\ m \in 1..n /\ m - 1 \in 0..n /\ m - 1 \notin Bad
    BY <1>5, <1>8, <2>3
  <2>5. Due[m - 1] = d[m - 1]
    BY <2>4
  <2> QED BY <1>5, <1>8, <2>3, <2>4, <2>5
<1>10. ExpiredUsers = d[n]
  BY <1>2, <1>9 DEF ExpiredUsers
<1> QED BY <1>4, <1>10 DEF Batches
-----------------------------------------------------------------------------
(***************************************************************************)
(* The types.                                                              *)
(***************************************************************************)
Stales == [phase : {"idle", "checked", "sweeping"}, todo : Seq(Users)]
SInv ==
  /\ LineOK
  /\ active \subseteq Users /\ behind \subseteq Users
  /\ flag \in BOOLEAN
  /\ stale \in Stales /\ Len(stale.todo) <= Batch
  /\ stale.phase = "sweeping" => stale.todo # <<>>
  /\ full \in [Boundaries -> FullStates]
  /\ window \in [Boundaries -> {"ahead", "open", "past"}]
  /\ triggered \subseteq Boundaries
  /\ failures \in 0..MaxFailures
  /\ restarts \in 0..MaxRestarts

LEMMA SInvIsTypeOK == SInv => TypeOK
<1> SUFFICES ASSUME SInv PROVE TypeOK
  OBVIOUS
<1>1. PICK n \in Nat : n = Count
  BY CountType
<1>2. queue \in [1..n -> Users] /\ Len(queue) = n /\ IsInjective(queue)
  BY <1>1 DEF SInv, LineOK, Lined, IsInjective
<1>3. \E k \in 0..Len(queue) : expired = {queue[i] : i \in 1..k}
  BY <1>1, <1>2 DEF SInv, LineOK, First
<1>4. stale.phase \in {"idle", "checked", "sweeping"} /\ stale.todo \in Seq(Users)
  BY DEF SInv, Stales
<1> QED BY <1>1, <1>2, <1>3, <1>4 DEF SInv, TypeOK, Count

LEMMA NoStaleType == NoStale \in Stales /\ Len(NoStale.todo) <= Batch /\ NoStale.phase = "idle"
BY BatchAssumption DEF NoStale, Stales

LEMMA SInvInit == Init => SInv
<1> SUFFICES ASSUME Init PROVE SInv
  OBVIOUS
<1>1. PICK n \in Nat : n = Count
  BY CountType
<1>2. Lined(queue)
  BY DEF Init, Lined, IsInjective, Count
<1>3. expired = First(queue, Count)
  <2>1. Users \subseteq First(queue, Count)
    BY <1>2, Somewhere DEF First
  <2>2. First(queue, Count) \subseteq Users
    BY <1>2 DEF First, Lined
  <2> QED BY <2>1, <2>2 DEF Init
<1>4. LineOK
  BY <1>1, <1>2, <1>3 DEF LineOK
<1>5. full \in [Boundaries -> FullStates]
  BY DEF Init, NoFull, FullStates
<1>6. active \subseteq Users /\ behind \subseteq Users /\ triggered \subseteq Boundaries
      /\ flag \in BOOLEAN /\ window \in [Boundaries -> {"ahead", "open", "past"}]
  BY DEF Init
<1>7. failures \in 0..MaxFailures /\ restarts \in 0..MaxRestarts
  BY BoundsAssumption DEF Init
<1>8. stale = NoStale
  BY DEF Init
<1> QED BY <1>4, <1>5, <1>6, <1>7, <1>8, NoStaleType DEF SInv

\* What changes neither the line nor the stale sweep.
LEMMA LineAlone ==
  ASSUME SInv, UNCHANGED <<queue, expired>>
  PROVE  LineOK'
BY DEF SInv, LineOK, Lined, First

LEMMA PeopleStep ==
  ASSUME SInv, NEW u \in Users, Play(u) \/ Leave(u) \/ Return(u) \/ Command(u)
  PROVE  SInv'
<1>1. CASE Play(u) \/ Leave(u) \/ Return(u)
  BY <1>1, LineAlone, UsersAssumption DEF Play, Leave, Return, sweeps, SInv
<1>2. CASE Command(u)
  <2>1. RefreshUser(u, FALSE) /\ UNCHANGED <<active, sweeps, window, restarts>>
    BY <1>2 DEF Command
  <2>2. LineOK' /\ failures' \in 0..MaxFailures /\ behind' \subseteq Users
    BY <2>1, RefreshKeeps DEF SInv
  <2> QED BY <2>1, <2>2 DEF SInv, sweeps
<1> QED BY <1>1, <1>2

LEMMA StaleSelectStep ==
  ASSUME SInv, StaleSelect
  PROVE  SInv'
<1>1. UNCHANGED <<people, flag, full, triggered, window, restarts>> /\ LineOK'
  BY LineAlone DEF StaleSelect, people
<1>2. failures' \in 0..MaxFailures
  <2>1. UNCHANGED failures \/ Charge
    BY DEF StaleSelect
  <2> QED BY <2>1, BoundsAssumption DEF Charge, SInv
<1>3. CASE stale' = NoStale
  BY <1>1, <1>2, <1>3, NoStaleType DEF SInv, people
<1>4. CASE stale' = [phase |-> "sweeping", todo |-> ExpiredUsers] /\ ExpiredUsers # <<>>
  <2>1. stale' \in Stales /\ Len(stale'.todo) <= Batch /\ stale'.todo # <<>>
    BY <1>4, ExpiredUsersType DEF Stales, SInv
  <2> QED BY <1>1, <1>2, <2>1 DEF SInv, people
<1> QED BY <1>3, <1>4 DEF StaleSelect

LEMMA StaleRefreshStep ==
  ASSUME SInv, StaleRefresh
  PROVE  SInv'
<1>1. PICK s \in Seq(Users) : s = stale.todo
  BY DEF SInv, Stales
<1>2. s # <<>> /\ Len(s) <= Batch /\ stale.phase = "sweeping"
  BY <1>1 DEF SInv, StaleRefresh
<1>3. Head(s) \in Users /\ Tail(s) \in Seq(Users) /\ Len(Tail(s)) <= Batch
  BY <1>2, BatchAssumption
<1>4. /\ RefreshUser(Head(s), TRUE)
      /\ stale' = IF Tail(s) = <<>> THEN NoStale ELSE [stale EXCEPT !.todo = Tail(s)]
      /\ UNCHANGED <<active, flag, full, triggered, window, restarts>>
  BY <1>1 DEF StaleRefresh
<1>5. LineOK' /\ failures' \in 0..MaxFailures /\ behind' \subseteq Users
  BY <1>3, <1>4, RefreshKeeps DEF SInv
<1>6. stale' \in Stales /\ Len(stale'.todo) <= Batch
      /\ (stale'.phase = "sweeping" => stale'.todo # <<>>)
  <2>1. CASE Tail(s) = <<>>
    BY <1>4, <2>1, NoStaleType
  <2>2. CASE Tail(s) # <<>>
    BY <1>3, <1>4, <2>2 DEF SInv, Stales
  <2> QED BY <2>1, <2>2
<1> QED BY <1>4, <1>5, <1>6 DEF SInv

LEMMA BoundaryStep ==
  ASSUME SInv, NEW b \in Boundaries, Open(b) \/ Pass(b) \/ Poll(b) \/ FullDone(b)
  PROVE  SInv'
<1>1. CASE Open(b) \/ Pass(b)
  BY <1>1, LineAlone DEF Open, Pass, people, sweeps, SInv
<1>2. CASE Poll(b)
  <2>1. UNCHANGED <<people, stale, window, failures, restarts>> /\ flag' \in BOOLEAN /\ Launched(b)
    BY <1>2 DEF Poll
  <2>2. full' \in [Boundaries -> FullStates] /\ triggered' \subseteq Boundaries
    BY <2>1 DEF Launched, SInv, FullStates
  <2> QED BY <2>1, <2>2, LineAlone DEF SInv, people
<1>3. CASE FullDone(b)
  <2>1. UNCHANGED <<people, stale, triggered, window, failures, restarts>> /\ flag' \in BOOLEAN
    BY <1>3 DEF FullDone, Released
  <2>2. full' \in [Boundaries -> FullStates]
    BY <1>3 DEF FullDone, SInv, FullStates, NoFull
  <2> QED BY <2>1, <2>2, LineAlone DEF SInv, people
<1> QED BY <1>1, <1>2, <1>3

LEMMA FullSelectTypes ==
  ASSUME SInv, NEW b \in Boundaries, FullSelect(b)
  PROVE  SInv'
<1>1. UNCHANGED <<people, flag, stale, triggered, window, restarts>> /\ LineOK'
  BY LineAlone DEF FullSelect, people
<1>2. failures' \in 0..MaxFailures
  <2>1. UNCHANGED failures \/ Charge
    BY DEF FullSelect
  <2> QED BY <2>1, BoundsAssumption DEF Charge, SInv
<1>3. full' \in [Boundaries -> FullStates]
  <2>1. PICK U \in SUBSET Users : full' = [full EXCEPT ![b] = [phase |-> "sweeping", todo |-> U]]
    BY DEF FullSelect, SInv
  <2> QED BY <2>1 DEF SInv, FullStates
<1> QED BY <1>1, <1>2, <1>3 DEF SInv, people

LEMMA FullRefreshTypes ==
  ASSUME SInv, NEW b \in Boundaries, NEW u \in Users, FullRefresh(b, u)
  PROVE  SInv'
<1>1. RefreshUser(u, TRUE) /\ UNCHANGED <<active, flag, stale, triggered, window, restarts>>
  BY DEF FullRefresh
<1>2. LineOK' /\ failures' \in 0..MaxFailures /\ behind' \subseteq Users
  BY <1>1, RefreshKeeps DEF SInv
<1>3. full' \in [Boundaries -> FullStates]
  <2>1. PICK r : r = [full[b] EXCEPT !.todo = @ \ {u}]
    OBVIOUS
  <2>2. r \in FullStates
    BY <2>1 DEF SInv, FullStates
  <2>3. full' = [full EXCEPT ![b] = r]
    BY <2>1 DEF FullRefresh
  <2> QED BY <2>2, <2>3 DEF SInv
<1> QED BY <1>1, <1>2, <1>3 DEF SInv

LEMMA SInvStep == SInv /\ [Next]_vars => SInv'
<1> SUFFICES ASSUME SInv, [Next]_vars PROVE SInv'
  OBVIOUS
<1>1. CASE Age
  <2>1. LineOK'
    BY <1>1, AgeKeeps DEF SInv
  <2> QED BY <1>1, <2>1 DEF Age, sweeps, SInv
<1>2. CASE StaleCheck
  <2>1. stale' \in Stales /\ stale'.phase = "checked" /\ stale'.todo = stale.todo
    BY <1>2 DEF StaleCheck, SInv, Stales
  <2> QED BY <1>2, <2>1, LineAlone DEF StaleCheck, people, SInv
<1>3. CASE Restart
  <2>1. full' \in [Boundaries -> FullStates]
    BY <1>3 DEF Restart, NoFull, FullStates
  <2>2. restarts' \in 0..MaxRestarts
    BY <1>3, BoundsAssumption DEF Restart, SInv
  <2> QED BY <1>3, <2>1, <2>2, LineAlone, NoStaleType DEF Restart, people, SInv
<1>4. CASE UNCHANGED vars
  BY <1>4, LineAlone DEF vars, people, sweeps, SInv
<1> QED BY <1>1, <1>2, <1>3, <1>4, PeopleStep, StaleSelectStep, StaleRefreshStep, BoundaryStep,
           FullSelectTypes, FullRefreshTypes DEF Next, StaleStep, FullStep

\* The types of the variables; the queue stays a line of all players, in which
\* those due for a refresh come first, and the stale sweep's batch within its
\* LIMIT (update_last_hypixel_refresh, get_users_with_expired_hypixel_stats).
THEOREM SweepTypes == Spec => []TypeOK
<1> QED BY SInvInit, SInvStep, SInvIsTypeOK, PTL DEF Spec
=============================================================================
