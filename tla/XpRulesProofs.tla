--------------------------- MODULE XpRulesProofs ---------------------------
(***************************************************************************)
(* What SeqSum and xp/calculator.rs compute, for every ledger, curve and   *)
(* batch: the facts about adding up a ledger that the XP proofs cite, and  *)
(* that calculate_level and xp_for_level are inverse to each other.        *)
(*                                                                         *)
(* A balance of q is a function that starts at 0 and adds one entry at a   *)
(* time; it exists, it is unique, and SeqSum(q) is its last value.         *)
(* Induction is by the least element of a set of naturals, since the       *)
(* library's induction schemes take an operator parameter.                 *)
(***************************************************************************)
EXTENDS XpRules, TLAPS, WellFoundedInduction, SequenceTheorems

Below == {p \in Nat \X Nat : p[1] < p[2]}

\* Every nonempty set of naturals has a least element.
LEMMA NatLeast ==
  ASSUME NEW T, T \subseteq Nat, T # {}
  PROVE  \E m \in T : \A k \in T : m <= k
<1>1. IsWellFoundedOn(Below, Nat)
  BY NatLessThanWellFounded DEF OpToRel, Below
<1>2. PICK m \in T : \A k \in T : ~ (<<k, m>> \in Below)
  BY <1>1, WFMin
<1>3. \A k \in T : ~(k < m)
  BY <1>2 DEF Below
<1> QED BY <1>3

Follows(b, q, n) ==
  /\ b[0] = 0
  /\ \A i \in 1..n : b[i] = b[i - 1] + q[i]

IsBalance(b, q, n) ==
  /\ b \in [0..n -> Int]
  /\ Follows(b, q, n)

\* Integers indexed from 1 have a balance over each prefix.
LEMMA BalanceExists ==
  ASSUME NEW q, NEW n \in Nat, \A i \in 1..n : q[i] \in Int
  PROVE  \E b : IsBalance(b, q, n)
<1> DEFINE Bad == {k \in 0..n : ~ \E b : IsBalance(b, q, k)}
<1>1. SUFFICES ASSUME Bad # {} PROVE FALSE
  OBVIOUS
<1>2. Bad \subseteq Nat
  OBVIOUS
<1>3. PICK m \in Bad : \A k \in Bad : m <= k
  BY <1>1, <1>2, NatLeast
<1>4. m \in 0..n /\ ~ \E b : IsBalance(b, q, m)
  OBVIOUS
<1>5. CASE m = 0
  <2> DEFINE z == [i \in 0..0 |-> 0]
  <2>1. z \in [0..0 -> Int] /\ z[0] = 0 /\ \A i \in 1..0 : z[i] = z[i - 1] + q[i]
    OBVIOUS
  <2>2. IsBalance(z, q, 0)
    BY <2>1 DEF IsBalance, Follows
  <2> QED BY <1>4, <1>5, <2>2
<1>6. CASE m # 0
  <2>1. m \in Nat /\ m >= 1 /\ m \in 1..n /\ m - 1 \in 0..n /\ m - 1 \notin Bad
    BY <1>3, <1>4, <1>6
  <2>2. PICK b : IsBalance(b, q, m - 1)
    BY <2>1
  <2>3. b \in [0..(m - 1) -> Int] /\ b[0] = 0 /\ \A i \in 1..(m - 1) : b[i] = b[i - 1] + q[i]
    BY <2>2 DEF IsBalance, Follows
  <2> DEFINE c == [i \in 0..m |-> IF i = m THEN b[m - 1] + q[m] ELSE b[i]]
  <2>4. q[m] \in Int /\ b[m - 1] \in Int
    BY <2>1, <2>3
  <2>5. c \in [0..m -> Int]
    BY <2>1, <2>3, <2>4
  <2>6. c[0] = 0
    BY <2>1, <2>3
  <2>7. ASSUME NEW i \in 1..m PROVE c[i] = c[i - 1] + q[i]
    <3>1. i - 1 \in 0..m /\ i - 1 # m /\ c[i - 1] = b[i - 1]
      BY <2>1
    <3>2. CASE i = m
      BY <2>1, <3>1, <3>2
    <3>3. CASE i # m
      <4>1. i \in 1..(m - 1) /\ c[i] = b[i]
        BY <2>1, <3>3
      <4> QED BY <2>3, <3>1, <4>1
    <3> QED BY <3>2, <3>3
  <2> HIDE DEF c
  <2>8. IsBalance(c, q, m)
    BY <2>5, <2>6, <2>7 DEF IsBalance, Follows
  <2> QED BY <1>4, <2>8
<1> QED BY <1>5, <1>6

\* Two functions that obey the recursion of a balance agree everywhere.
LEMMA BalanceUnique ==
  ASSUME NEW q, NEW n \in Nat, NEW b, NEW c,
         Follows(b, q, n), Follows(c, q, n)
  PROVE  \A i \in 0..n : b[i] = c[i]
<1> DEFINE Bad == {k \in 0..n : b[k] # c[k]}
<1>1. SUFFICES ASSUME Bad # {} PROVE FALSE
  OBVIOUS
<1>2. Bad \subseteq Nat
  OBVIOUS
<1>3. PICK m \in Bad : \A k \in Bad : m <= k
  BY <1>1, <1>2, NatLeast
<1>4. m # 0 /\ m \in 1..n /\ m - 1 \in 0..n /\ m - 1 \notin Bad
  BY <1>3 DEF Follows
<1>5. b[m - 1] = c[m - 1]
  BY <1>4
<1> QED BY <1>3, <1>4, <1>5 DEF Follows

\* SeqSum is the last value of any balance of the sequence.
LEMMA SeqSumIsBalance ==
  ASSUME NEW q \in Seq(Int), NEW b, IsBalance(b, q, Len(q))
  PROVE  SeqSum(q) = b[Len(q)]
<1> DEFINE n == Len(q)
           P(s) == s = [i \in 0..n |-> IF i = 0 THEN 0 ELSE s[i - 1] + q[i]]
           p == PartialSums(q)
<1>1. n \in Nat
  OBVIOUS
<1> HIDE DEF n
<1>2. /\ b \in [0..n -> Int]
      /\ b[0] = 0
      /\ \A i \in 1..n : b[i] = b[i - 1] + q[i]
  BY DEF IsBalance, Follows, n
<1>3. P(b)
  BY <1>1, <1>2
<1>4. p = CHOOSE s : P(s)
  BY DEF PartialSums, n
<1> HIDE DEF p
<1>5. P(p)
  BY <1>3, <1>4
<1>6. p[0] = 0 /\ \A i \in 1..n : p[i] = p[i - 1] + q[i]
  BY <1>1, <1>5
<1> HIDE DEF P
<1>7. \A i \in 0..n : p[i] = b[i]
  <2>1. Follows(p, q, n) /\ Follows(b, q, n)
    BY <1>2, <1>6 DEF Follows
  <2> QED BY <1>1, <2>1, BalanceUnique
<1>8. p[n] = b[n]
  BY <1>1, <1>7
<1> QED BY <1>8 DEF SeqSum, p, n

\* A sequence of integers has a balance, an integer at every place.
LEMMA SeqBalance ==
  ASSUME NEW q \in Seq(Int)
  PROVE  \E b : /\ IsBalance(b, q, Len(q))
                /\ b \in [0..Len(q) -> Int]
                /\ SeqSum(q) = b[Len(q)]
<1>1. PICK b : IsBalance(b, q, Len(q))
  BY BalanceExists
<1>2. b \in [0..Len(q) -> Int]
  BY <1>1 DEF IsBalance, Follows
<1>3. SeqSum(q) = b[Len(q)]
  BY <1>1, SeqSumIsBalance
<1> QED BY <1>1, <1>2, <1>3

\* The sum of a sequence of integers is an integer, and 0 for no entries.
LEMMA SeqSumType ==
  ASSUME NEW q \in Seq(Int)
  PROVE  SeqSum(q) \in Int
<1>1. PICK b : b \in [0..Len(q) -> Int] /\ SeqSum(q) = b[Len(q)]
  BY SeqBalance
<1> QED BY <1>1

LEMMA SeqSumEmpty == SeqSum(<<>>) = 0
<1> DEFINE z == [i \in 0..0 |-> 0]
<1>1. z \in [0..0 -> Int] /\ z[0] = 0 /\ Len(<<>>) = 0
  OBVIOUS
<1>2. IsBalance(z, <<>>, Len(<<>>))
  BY <1>1 DEF IsBalance, Follows
<1> QED BY <1>1, <1>2, SeqSumIsBalance

\* A balance of natural numbers never falls below 0.
LEMMA SeqSumNat ==
  ASSUME NEW q \in Seq(Nat)
  PROVE  SeqSum(q) \in Nat
<1> DEFINE n == Len(q)
<1>1. n \in Nat /\ q \in Seq(Int) /\ \A i \in 1..n : q[i] \in Nat
  OBVIOUS
<1>2. PICK b : IsBalance(b, q, n) /\ b \in [0..n -> Int] /\ SeqSum(q) = b[n]
  BY <1>1, SeqBalance
<1>3. b[0] = 0 /\ \A i \in 1..n : b[i] = b[i - 1] + q[i]
  BY <1>2 DEF IsBalance, Follows
<1> HIDE DEF n
<1> DEFINE Bad == {k \in 0..n : b[k] < 0}
<1>4. CASE Bad = {}
  <2>1. n \in 0..n /\ b[n] \in Int
    BY <1>1, <1>2
  <2>2. n \notin Bad
    BY <1>4
  <2>3. ~(b[n] < 0)
    BY <2>1, <2>2
  <2>4. b[n] \in Nat
    BY <2>1, <2>3
  <2> QED BY <1>2, <2>4
<1>5. CASE Bad # {}
  <2>1. PICK m \in Bad : \A k \in Bad : m <= k
    <3>1. Bad \subseteq Nat
      BY <1>1
    <3> QED BY <1>5, <3>1, NatLeast
  <2>2. m # 0 /\ m \in 1..n /\ m - 1 \in 0..n /\ m - 1 \notin Bad
    BY <1>1, <1>3, <2>1
  <2>3. b[m - 1] \in Int /\ b[m - 1] >= 0 /\ q[m] \in Nat /\ b[m] = b[m - 1] + q[m]
    BY <1>1, <1>2, <1>3, <2>2
  <2> QED BY <2>1, <2>3
<1> QED BY <1>4, <1>5

\* Adding up two batches one after the other adds their sums.
LEMMA SeqSumConcat ==
  ASSUME NEW q \in Seq(Int), NEW r \in Seq(Int)
  PROVE  SeqSum(q \o r) = SeqSum(q) + SeqSum(r)
<1> DEFINE n == Len(q)
           m == Len(r)
           t == q \o r
<1>1. n \in Nat /\ m \in Nat /\ t \in Seq(Int) /\ Len(t) = n + m
  OBVIOUS
<1>2. \A i \in 1..n : t[i] = q[i]
  OBVIOUS
<1>3. \A i \in 1..m : t[n + i] = r[i]
  OBVIOUS
<1>4. PICK b : IsBalance(b, q, n) /\ b \in [0..n -> Int] /\ SeqSum(q) = b[n]
  BY SeqBalance
<1>5. PICK c : IsBalance(c, r, m) /\ c \in [0..m -> Int] /\ SeqSum(r) = c[m]
  BY SeqBalance
<1> HIDE DEF n, m, t
<1>6. b[0] = 0 /\ \A i \in 1..n : b[i] = b[i - 1] + q[i]
  BY <1>4 DEF IsBalance, Follows
<1>7. c[0] = 0 /\ \A i \in 1..m : c[i] = c[i - 1] + r[i]
  BY <1>5 DEF IsBalance, Follows
<1> DEFINE d == [i \in 0..(n + m) |-> IF i <= n THEN b[i] ELSE b[n] + c[i - n]]
<1>8. b[n] \in Int /\ c[m] \in Int
  BY <1>1, <1>4, <1>5
<1>9. d \in [0..(n + m) -> Int]
  BY <1>1, <1>4, <1>5, <1>8
<1>10. d[0] = 0
  BY <1>1, <1>6
<1>11. ASSUME NEW i \in 1..(n + m)
       PROVE  d[i] = d[i - 1] + t[i]
  <2>1. CASE i <= n
    <3>1. i \in 1..n /\ d[i] = b[i] /\ d[i - 1] = b[i - 1]
      BY <1>1, <2>1
    <3> QED BY <1>2, <1>6, <3>1
  <2>2. CASE i > n
    <3> DEFINE j == i - n
    <3>1. j \in 1..m /\ j - 1 \in 0..m /\ i = n + j
      BY <1>1, <2>2
    <3>2. c[j] = c[j - 1] + r[j] /\ t[i] = r[j]
      BY <1>3, <1>7, <3>1
    <3>3. d[i] = b[n] + c[j]
      BY <1>1, <2>2
    <3>4. d[i - 1] = b[n] + c[j - 1]
      <4>1. CASE j = 1
        <5>1. i - 1 = n /\ i - 1 \in 0..(n + m)
          BY <1>1, <3>1, <4>1
        <5>2. d[i - 1] = b[n]
          BY <1>1, <5>1
        <5> QED BY <1>7, <1>8, <4>1, <5>2
      <4>2. CASE j # 1
        BY <1>1, <3>1, <4>2
      <4> QED BY <4>1, <4>2
    <3>5. c[j] \in Int /\ c[j - 1] \in Int
      BY <1>5, <3>1
    <3>6. c[j - 1] + r[j] = c[j]
      BY <3>2
    <3>7. r[j] \in Int
      BY <3>1 DEF m
    <3> HIDE DEF j
    <3> QED BY <1>8, <3>2, <3>3, <3>4, <3>5, <3>7
  <2> QED BY <1>1, <2>1, <2>2
<1>12. d[n + m] = b[n] + c[m]
  <2>1. CASE m = 0
    <3>1. d[n + m] = b[n]
      BY <1>1, <2>1
    <3> QED BY <1>7, <1>8, <2>1, <3>1
  <2>2. CASE m # 0
    BY <1>1, <2>2
  <2> QED BY <2>1, <2>2
<1> HIDE DEF d
<1>13. IsBalance(d, t, Len(t))
  BY <1>1, <1>9, <1>10, <1>11 DEF IsBalance, Follows
<1>14. SeqSum(t) = d[n + m]
  BY <1>1, <1>13, SeqSumIsBalance
<1> QED BY <1>4, <1>5, <1>12, <1>14 DEF t

LEMMA SeqSumOne ==
  ASSUME NEW x \in Int
  PROVE  SeqSum(<<x>>) = x
<1> DEFINE z == [i \in 0..1 |-> IF i = 0 THEN 0 ELSE x]
<1>1. z \in [0..1 -> Int] /\ z[0] = 0 /\ z[1] = x
  OBVIOUS
<1>2. \A i \in 1..1 : z[i] = z[i - 1] + <<x>>[i]
  BY <1>1
<1> HIDE DEF z
<1>3. <<x>> \in Seq(Int) /\ Len(<<x>>) = 1
  OBVIOUS
<1>4. IsBalance(z, <<x>>, Len(<<x>>))
  BY <1>1, <1>2, <1>3 DEF IsBalance, Follows
<1> QED BY <1>1, <1>3, <1>4, SeqSumIsBalance

\* One more entry adds its value.
LEMMA SeqSumAppend ==
  ASSUME NEW q \in Seq(Int), NEW x \in Int
  PROVE  SeqSum(Append(q, x)) = SeqSum(q) + x
<1>1. <<x>> \in Seq(Int)
  OBVIOUS
<1>2. Append(q, x) = q \o <<x>>
  OBVIOUS
<1> QED BY <1>1, <1>2, SeqSumConcat, SeqSumOne

\* Changing one entry changes the sum by as much.
LEMMA SeqSumChanged ==
  ASSUME NEW q \in Seq(Int), NEW k \in DOMAIN q, NEW x \in Int
  PROVE  SeqSum([q EXCEPT ![k] = x]) = SeqSum(q) - q[k] + x
<1>1. PICK n \in Nat : n = Len(q)
  OBVIOUS
<1>2. k \in 1..n /\ \A i \in 1..n : q[i] \in Int
  BY <1>1
<1>3. PICK r : r = [q EXCEPT ![k] = x]
  OBVIOUS
<1>4. r \in Seq(Int) /\ Len(r) = n
  BY <1>1, <1>3
<1>5. r[k] = x /\ \A i \in 1..n : i # k => r[i] = q[i]
  BY <1>1, <1>2, <1>3
<1>6. PICK b : IsBalance(b, q, n) /\ SeqSum(q) = b[n]
  BY <1>1, SeqBalance
<1>7. b \in [0..n -> Int] /\ b[0] = 0 /\ \A i \in 1..n : b[i] = b[i - 1] + q[i]
  BY <1>6 DEF IsBalance, Follows
<1>8. PICK y \in Int : y = x - q[k]
  BY <1>2
<1> DEFINE d == [i \in 0..n |-> IF i < k THEN b[i] ELSE b[i] + y]
<1>9. d \in [0..n -> Int]
  BY <1>7, <1>8
<1>10. d[0] = 0 /\ d[n] = b[n] + y
  BY <1>2, <1>7
<1>11. ASSUME NEW i \in 1..n
       PROVE  d[i] = d[i - 1] + r[i]
  <2>1. /\ i - 1 \in 0..n /\ i \in 0..n /\ b[i] = b[i - 1] + q[i]
        /\ b[i - 1] \in Int /\ q[i] \in Int /\ k \in Int
    BY <1>2, <1>7
  <2>2. CASE i < k
    <3>1. d[i] = b[i] /\ d[i - 1] = b[i - 1] /\ r[i] = q[i]
      BY <1>5, <2>1, <2>2
    <3> QED BY <2>1, <3>1
  <2>3. CASE i = k
    <3>1. d[i] = b[i] + y /\ d[i - 1] = b[i - 1] /\ r[i] = x
      BY <1>5, <2>1, <2>3
    <3> QED BY <1>8, <2>1, <2>3, <3>1
  <2>4. CASE i > k
    <3>1. d[i] = b[i] + y /\ d[i - 1] = b[i - 1] + y /\ r[i] = q[i]
      BY <1>5, <2>1, <2>4
    <3> QED BY <1>8, <2>1, <3>1
  <2> QED BY <2>1, <2>2, <2>3, <2>4
<1> HIDE DEF d
<1>12. IsBalance(d, r, Len(r))
  BY <1>4, <1>9, <1>10, <1>11 DEF IsBalance, Follows
<1>13. SeqSum(r) = d[n]
  BY <1>4, <1>12, SeqSumIsBalance
<1>14. b[n] \in Int /\ q[k] \in Int
  BY <1>2, <1>7
<1> QED BY <1>3, <1>6, <1>8, <1>10, <1>13, <1>14

\* Entries of p that are not 0 sit in places of q of their own, none of them
\* smaller: p adds up to no more than q.
Within(p, q, at) ==
  /\ p \in Seq(Nat) /\ q \in Seq(Nat)
  /\ \A i \in 1..Len(p) : p[i] # 0 =>
       /\ at[i] \in DOMAIN q /\ p[i] <= q[at[i]]
       /\ \A j \in 1..Len(p) : j # i /\ p[j] # 0 => at[j] # at[i]

LEMMA SeqSumWithin ==
  ASSUME NEW p, NEW q, NEW at, Within(p, q, at)
  PROVE  SeqSum(p) <= SeqSum(q)
<1> DEFINE Over(r, s) == Within(r, s, at) /\ SeqSum(r) > SeqSum(s)
           Bad == {n \in Nat : \E r, s : Over(r, s) /\ Len(r) = n}
<1>1. ASSUME NEW r, NEW s, Within(r, s, at)
      PROVE  /\ SeqSum(r) \in Nat /\ SeqSum(s) \in Nat /\ Len(r) \in Nat
             /\ r \in Seq(Nat) /\ s \in Seq(Nat)
  BY <1>1, SeqSumNat DEF Within
<1> SUFFICES ASSUME Over(p, q) PROVE FALSE
  BY <1>1
<1>2. Bad \subseteq Nat /\ Bad # {}
  BY <1>1
<1>3. PICK m \in Bad : \A n \in Bad : m <= n
  <2> HIDE DEF Bad
  <2> QED BY <1>2, NatLeast
<1>4. PICK r, s : Over(r, s) /\ Len(r) = m
  OBVIOUS
<1>5. ASSUME NEW f, NEW t, Within(f, t, at), Len(f) < m
      PROVE  SeqSum(f) <= SeqSum(t)
  <2>1. SeqSum(f) \in Nat /\ SeqSum(t) \in Nat /\ Len(f) \in Nat /\ m \in Nat
    BY <1>1, <1>2, <1>3, <1>5
  <2>2. Len(f) \notin Bad
    BY <1>3, <1>5, <2>1
  <2>3. ~Over(f, t)
    BY <2>1, <2>2
  <2> QED BY <1>5, <2>1, <2>3
<1>6. m \in Nat /\ Within(r, s, at) /\ SeqSum(r) > SeqSum(s)
  BY <1>4
<1> HIDE DEF Bad, Over
<1>7. r \in Seq(Nat) /\ s \in Seq(Nat) /\ SeqSum(r) \in Nat /\ SeqSum(s) \in Nat
  BY <1>1, <1>6
<1>8. m # 0
  <2>1. m = 0 => r = <<>>
    BY <1>4, <1>7
  <2> QED BY <1>6, <1>7, <2>1, SeqSumEmpty
<1>9. PICK f : f = SubSeq(r, 1, m - 1)
  OBVIOUS
<1>10. /\ f \in Seq(Nat) /\ Len(f) = m - 1 /\ Len(f) < m
       /\ \A i \in 1..(m - 1) : f[i] = r[i] /\ i \in 1..m
  BY <1>4, <1>6, <1>7, <1>8, <1>9
<1>11. m \in 1..Len(r) /\ r[m] \in Nat
  BY <1>4, <1>6, <1>7, <1>8
<1>12. PICK x \in Nat : x = r[m]
  BY <1>11
<1>13. SeqSum(r) = SeqSum(f) + x
  <2>1. r = Append(f, x)
    BY <1>4, <1>6, <1>7, <1>8, <1>10, <1>12
  <2>2. f \in Seq(Int) /\ x \in Int
    BY <1>10
  <2> QED BY <2>1, <2>2, SeqSumAppend
<1>14. \A i \in 1..m : r[i] # 0 =>
         /\ at[i] \in DOMAIN s /\ r[i] <= s[at[i]]
         /\ \A j \in 1..m : j # i /\ r[j] # 0 => at[j] # at[i]
  BY <1>4, <1>6 DEF Within
<1>15. SeqSum(f) \in Nat
  BY <1>10, SeqSumNat
<1>16. CASE x = 0
  <2>1. \A i \in 1..(m - 1) : f[i] # 0 =>
          /\ at[i] \in DOMAIN s /\ f[i] <= s[at[i]]
          /\ \A j \in 1..(m - 1) : j # i /\ f[j] # 0 => at[j] # at[i]
    BY <1>10, <1>14
  <2>2. Within(f, s, at)
    BY <1>7, <1>10, <2>1 DEF Within
  <2>3. SeqSum(f) <= SeqSum(s)
    BY <1>5, <1>10, <2>2
  <2> QED BY <1>6, <1>7, <1>13, <1>15, <1>16, <2>3
<1>17. CASE x # 0
  <2>1. PICK k : k = at[m]
    OBVIOUS
  <2>2. k \in DOMAIN s /\ x <= s[k] /\ \A j \in 1..(m - 1) : r[j] # 0 => at[j] # k
    BY <1>6, <1>8, <1>10, <1>12, <1>14, <1>17, <2>1
  <2>3. s[k] \in Nat
    BY <1>7, <2>2
  <2>4. PICK y \in Nat : y = s[k] - x
    BY <2>2, <2>3
  <2>5. PICK t : t = [s EXCEPT ![k] = y]
    OBVIOUS
  <2>6. /\ t \in Seq(Nat) /\ DOMAIN t = DOMAIN s
        /\ \A i \in DOMAIN s : i # k => t[i] = s[i]
    BY <1>7, <2>2, <2>5
  <2>7. \A i \in 1..(m - 1) : f[i] # 0 =>
          /\ at[i] \in DOMAIN t /\ f[i] <= t[at[i]]
          /\ \A j \in 1..(m - 1) : j # i /\ f[j] # 0 => at[j] # at[i]
    BY <1>10, <1>14, <2>2, <2>6
  <2>8. Within(f, t, at)
    BY <1>10, <2>6, <2>7 DEF Within
  <2>9. SeqSum(t) = SeqSum(s) - s[k] + y
    <3>1. s \in Seq(Int) /\ y \in Int
      BY <1>7
    <3> QED BY <2>2, <2>5, <3>1, SeqSumChanged
  <2>10. SeqSum(f) <= SeqSum(t)
    BY <1>5, <1>10, <2>8
  <2> QED BY <1>6, <1>7, <1>13, <1>15, <2>3, <2>4, <2>9, <2>10
<1> QED BY <1>16, <1>17

\* A function applied to every entry of a sequence.
Mapped(f, q) == [i \in DOMAIN q |-> f[q[i]]]

\* Mapping two batches and adding up is adding up each.
LEMMA MappedSum ==
  ASSUME NEW R, NEW f \in [R -> Int], NEW p \in Seq(R), NEW q \in Seq(R)
  PROVE  SeqSum(Mapped(f, p \o q)) = SeqSum(Mapped(f, p)) + SeqSum(Mapped(f, q))
<1>1. ASSUME NEW x \in Seq(R)
      PROVE  /\ Mapped(f, x) \in Seq(Int)
             /\ Len(Mapped(f, x)) = Len(x)
             /\ \A i \in 1..Len(x) : Mapped(f, x)[i] = f[x[i]]
  <2>1. Len(x) \in Nat /\ DOMAIN x = 1..Len(x) /\ x \in [1..Len(x) -> R]
    BY LenProperties
  <2> DEFINE n == Len(x)
  <2> HIDE DEF n
  <2>2. n \in Nat /\ x \in [1..n -> R] /\ Mapped(f, x) = [i \in 1..n |-> f[x[i]]]
    BY <2>1 DEF Mapped, n
  <2>3. \A i \in 1..n : f[x[i]] \in Int
    BY <2>2
  <2>4. Mapped(f, x) \in [1..n -> Int]
    BY <2>2, <2>3
  <2>5. Mapped(f, x) \in Seq(Int) /\ Len(Mapped(f, x)) = n
    BY <2>2, <2>4
  <2>6. \A i \in 1..n : Mapped(f, x)[i] = f[x[i]]
    BY <2>2
  <2> QED BY <2>5, <2>6 DEF n
<1> DEFINE pq == p \o q
           mp == Mapped(f, p)
           mq == Mapped(f, q)
           mpq == Mapped(f, pq)
           sum == mp \o mq
<1>2. /\ pq \in Seq(R)
      /\ Len(pq) = Len(p) + Len(q)
      /\ \A i \in 1..Len(p) + Len(q) :
           pq[i] = IF i <= Len(p) THEN p[i] ELSE q[i - Len(p)]
  BY ConcatProperties
<1> HIDE DEF pq
<1>3. /\ mp \in Seq(Int) /\ Len(mp) = Len(p)
      /\ \A i \in 1..Len(p) : mp[i] = f[p[i]]
  BY <1>1
<1>4. /\ mq \in Seq(Int) /\ Len(mq) = Len(q)
      /\ \A i \in 1..Len(q) : mq[i] = f[q[i]]
  BY <1>1
<1>5. /\ mpq \in Seq(Int) /\ Len(mpq) = Len(pq)
      /\ \A i \in 1..Len(pq) : mpq[i] = f[pq[i]]
  BY <1>1, <1>2
<1> HIDE DEF mp, mq, mpq
<1>6. /\ sum \in Seq(Int)
      /\ Len(sum) = Len(mp) + Len(mq)
      /\ \A i \in 1..Len(mp) + Len(mq) :
           sum[i] = IF i <= Len(mp) THEN mp[i] ELSE mq[i - Len(mp)]
  BY <1>3, <1>4, ConcatProperties
<1> HIDE DEF sum
<1>7. Len(p) \in Nat /\ Len(q) \in Nat
  OBVIOUS
<1>8. ASSUME NEW i \in 1..Len(mpq)
      PROVE  mpq[i] = sum[i]
  <2>1. i \in 1..Len(p) + Len(q) /\ i \in 1..Len(pq) /\ mpq[i] = f[pq[i]]
    BY <1>2, <1>5
  <2>2. CASE i <= Len(p)
    <3>1. i \in 1..Len(p)
      BY <1>7, <2>1, <2>2
    <3>2. pq[i] = p[i]
      BY <1>2, <2>1, <2>2
    <3>3. sum[i] = mp[i]
      BY <1>3, <1>4, <1>6, <2>1, <2>2
    <3> QED BY <1>3, <2>1, <3>1, <3>2, <3>3
  <2>3. CASE ~(i <= Len(p))
    <3>1. i - Len(p) \in 1..Len(q)
      BY <1>7, <2>1, <2>3
    <3>2. pq[i] = q[i - Len(p)]
      BY <1>2, <2>1, <2>3
    <3>3. sum[i] = mq[i - Len(p)]
      BY <1>3, <1>4, <1>6, <2>1, <2>3
    <3> QED BY <1>4, <2>1, <3>1, <3>2, <3>3
  <2> QED BY <2>2, <2>3
<1>9. Len(mpq) = Len(sum)
  BY <1>2, <1>3, <1>4, <1>5, <1>6
<1>10. mpq = sum
  BY <1>5, <1>6, <1>8, <1>9, SeqEqual
<1>11. SeqSum(sum) = SeqSum(mp) + SeqSum(mq)
  BY <1>3, <1>4, SeqSumConcat DEF sum
<1> QED BY <1>10, <1>11 DEF mpq, pq, mp, mq
-----------------------------------------------------------------------------
(* The levels *)

\* A total has a level within the cap, and it lies in the band xp_for_level
\* gives that level: calculate_level and xp_for_level are inverse to each other.
THEOREM CalculateLevelInBand ==
  ASSUME NEW total \in Nat
  PROVE  /\ CalculateLevel(total) \in 1..LevelCap
         /\ InItsBand([total |-> total, level |-> CalculateLevel(total)])
<1> DEFINE Stops == {l \in 1..LevelCap : l < LevelCap => total < Threshold[l]}
<1>1. LevelCap \in Stops /\ Stops \subseteq Nat
  BY LevelAssumption
<1>2. PICK m \in Stops : \A k \in Stops : m <= k
  BY <1>1, NatLeast
<1>3. m \in 1..LevelCap /\ (m < LevelCap => total < Threshold[m])
  OBVIOUS
<1>4. \A l \in 1..(m - 1) : total >= Threshold[l]
  <2> SUFFICES ASSUME NEW l \in 1..(m - 1)
               PROVE  total >= Threshold[l]
    OBVIOUS
  <2>1. l \in 1..LevelCap /\ l < LevelCap /\ l < m
    BY <1>3, LevelAssumption
  <2>2. l \notin Stops
    BY <1>2, <2>1
  <2>3. Threshold[l] \in Nat
    BY <2>1, LevelAssumption
  <2> QED BY <2>1, <2>2, <2>3
<1> DEFINE level == CalculateLevel(total)
<1>5. /\ level \in 1..LevelCap
      /\ \A l \in 1..(level - 1) : total >= Threshold[l]
      /\ level < LevelCap => total < Threshold[level]
  BY <1>3, <1>4 DEF CalculateLevel
<1> HIDE DEF level
<1>6. XpForLevel(level) <= total
  <2>1. CASE level <= 1
    BY <2>1 DEF XpForLevel
  <2>2. CASE level > 1
    <3>1. level - 1 \in 1..(level - 1) /\ level - 1 \in 1..LevelCap
      BY <1>5, <2>2, LevelAssumption
    <3>2. Threshold[level - 1] \in Nat
      BY <3>1, LevelAssumption
    <3> QED BY <1>5, <2>2, <3>1, <3>2 DEF XpForLevel
  <2> QED BY <1>5, <2>1, <2>2
<1>7. level < LevelCap => total < XpForLevel(level + 1)
  BY <1>5 DEF XpForLevel
<1> QED BY <1>5, <1>6, <1>7 DEF InItsBand, level

\* A member who has earned nothing is at the first level.
LEMMA FirstLevel == CalculateLevel(0) = 1
<1>1. /\ 1 \in 1..LevelCap
      /\ \A l \in 1..(1 - 1) : 0 >= Threshold[l]
      /\ 1 < LevelCap => 0 < Threshold[1]
  BY LevelAssumption
<1>2. ASSUME NEW level \in 1..LevelCap, level # 1
      PROVE  ~(\A l \in 1..(level - 1) : 0 >= Threshold[l])
  <2>1. 1 \in 1..(level - 1) /\ 1 \in 1..LevelCap
    BY <1>2, LevelAssumption
  <2>2. Threshold[1] \in Nat \ {0}
    BY <2>1, LevelAssumption
  <2> QED BY <2>1, <2>2
<1> QED BY <1>1, <1>2 DEF CalculateLevel

\* The rewards of a batch, row by row.
LEMMA EarnedRows ==
  ASSUME NEW R, \A r \in R : r.earned \in Int, NEW q \in Seq(R)
  PROVE  /\ Earned(q) \in Seq(Int)
         /\ Len(Earned(q)) = Len(q)
         /\ \A i \in 1..Len(q) : Earned(q)[i] = q[i].earned
BY DEF Earned

\* What a batch of rows earns is an integer.
LEMMA TotalEarnedInt ==
  ASSUME NEW R, \A r \in R : r.earned \in Int, NEW q \in Seq(R)
  PROVE  TotalEarned(q) \in Int
BY EarnedRows, SeqSumType DEF TotalEarned

\* Appending a batch adds what it earned.
LEMMA TotalEarnedConcat ==
  ASSUME NEW R, \A r \in R : r.earned \in Int, NEW p \in Seq(R), NEW q \in Seq(R)
  PROVE  TotalEarned(p \o q) = TotalEarned(p) + TotalEarned(q)
<1> DEFINE f == [r \in R |-> r.earned]
<1>1. f \in [R -> Int]
  OBVIOUS
<1>2. p \o q \in Seq(R)
  OBVIOUS
<1>3. \A s \in Seq(R) : Earned(s) = Mapped(f, s)
  BY DEF Earned, Mapped
<1> HIDE DEF f
<1>4. SeqSum(Mapped(f, p \o q)) = SeqSum(Mapped(f, p)) + SeqSum(Mapped(f, q))
  BY <1>1, MappedSum
<1> QED BY <1>2, <1>3, <1>4 DEF TotalEarned

\* A batch of one row earns what the row does.
LEMMA TotalEarnedOne ==
  ASSUME NEW row, row.earned \in Int
  PROVE  TotalEarned(<<row>>) = row.earned
<1>1. Earned(<<row>>) = <<row.earned>>
  BY DEF Earned
<1> QED BY <1>1, SeqSumOne DEF TotalEarned

\* Nothing is earned before the first row.
LEMMA TotalEarnedEmpty == TotalEarned(<<>>) = 0
<1>1. Earned(<<>>) = <<>>
  BY DEF Earned
<1> QED BY <1>1, SeqSumEmpty DEF TotalEarned
=============================================================================
