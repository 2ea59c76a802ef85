-------------------------- MODULE TimedWaitProofs --------------------------
(***************************************************************************)
(* Theorems about TimedWait, for any number of tasks, any time limits and  *)
(* any size of the pool of watchdogs.                                      *)
(*                                                                         *)
(* The list of watchdogs is first shown to be what it stands for, a table  *)
(* of ticks left: by induction over its length, Now is the running sum of  *)
(* the lags; wd_start() adds one row to the table, wd_cancel() removes     *)
(* one, and wd_timer() takes one from every row and removes those that     *)
(* had one.  The invariant relates the table to the time each task has     *)
(* waited, and from there on the list is not looked at again.              *)
(***************************************************************************)
EXTENDS TimedWait, FiniteSetTheorems, SequenceTheorems, WellFoundedInduction, TLAPS

-----------------------------------------------------------------------------
(***************************************************************************)
(* Induction over the naturals, for sets of them.                          *)
(***************************************************************************)

Less == {ss \in Nat \X Nat : ss[1] < ss[2]}

\* A set of naturals that is not empty has a smallest element.
LEMMA Smallest ==
  ASSUME NEW T \in SUBSET Nat, T # {}
  PROVE  \E x \in T : \A y \in T : x <= y
  <1>1. IsWellFoundedOn(Less, Nat)
    BY NatLessThanWellFounded DEF OpToRel, Less
  <1>2. PICK x \in T : \A y \in T : ~(<<y, x>> \in Less)
    BY <1>1, WFMin
  <1>3. \A y \in T : ~(y < x)
    BY <1>2 DEF Less
  <1>4. \A y \in T : x <= y
    BY <1>3
  <1> QED BY <1>4

\* A set of naturals that has 0 and, with each number, the next one has all.
LEMMA Induction ==
  ASSUME NEW G \in SUBSET Nat, 0 \in G, \A n \in G : n + 1 \in G
  PROVE  \A n \in Nat : n \in G
  <1> SUFFICES ASSUME NEW m \in Nat, m \notin G PROVE FALSE
    OBVIOUS
  <1>1. PICK x \in Nat \ G : \A y \in Nat \ G : x <= y
    <2>1. Nat \ G \in SUBSET Nat /\ Nat \ G # {}
      OBVIOUS
    <2> QED BY <2>1, Smallest
  <1>2. x - 1 \in Nat /\ x = (x - 1) + 1
    BY <1>1
  <1>3. x - 1 \in G
    BY <1>1, <1>2
  <1> QED BY <1>1, <1>2, <1>3

-----------------------------------------------------------------------------
(***************************************************************************)
(* The running sum of a list.                                              *)
(***************************************************************************)

\* The recursive definition of Now computes what it says.
LEMMA NowFacts ==
  ASSUME NEW list, Len(list) \in Nat, \A i \in 1 .. Len(list) : list[i].lag \in Int
  PROVE  /\ Now(list, 0) = 0
         /\ \A k \in 1 .. Len(list) : Now(list, k) = Now(list, k - 1) + list[k].lag
         /\ \A k \in 0 .. Len(list) : Now(list, k) \in Int
  <1> DEFINE n == Len(list)
             Good(f, m) == /\ f \in [0 .. m -> Int] /\ f[0] = 0
                           /\ \A i \in 1 .. m : f[i] = f[i - 1] + list[i].lag
             G == {m \in Nat : m <= n => \E f : Good(f, m)}
  <1>0. n \in Nat /\ \A i \in 1 .. n : list[i].lag \in Int
    OBVIOUS
  <1>1. 0 \in G
    <2>1. Good([i \in 0 .. 0 |-> 0], 0)
      OBVIOUS
    <2> QED BY <2>1
  <1>2. ASSUME NEW m \in G PROVE m + 1 \in G
    <2> HIDE DEF Good
    <2> SUFFICES ASSUME m + 1 <= n PROVE \E f : Good(f, m + 1)
      OBVIOUS
    <2>1. PICK f : Good(f, m)
      BY <1>0
    <2> USE DEF Good
    <2> DEFINE g == [i \in 0 .. m + 1 |-> IF i <= m THEN f[i] ELSE f[m] + list[m + 1].lag]
    <2>2. m + 1 \in 1 .. n
      BY <1>0
    <2>3. list[m + 1].lag \in Int
      BY <1>0, <2>2
    <2>4. g \in [0 .. m + 1 -> Int] /\ g[0] = 0
      BY <2>1, <2>3
    <2>5. \A i \in 1 .. m + 1 : g[i] = g[i - 1] + list[i].lag
      BY <2>1, <2>3
    <2> QED BY <2>4, <2>5
  <1>3. n \in G
    <2> HIDE DEF G
    <2>1. G \in SUBSET Nat
      BY DEF G
    <2> QED BY <1>0, <1>1, <1>2, <2>1, Induction
  <1>4. PICK f : Good(f, n)
    BY <1>0, <1>3
  <1> DEFINE Rec(g) == g = [i \in 0 .. n |-> IF i = 0 THEN 0 ELSE g[i - 1] + list[i].lag]
             now == CHOOSE g : Rec(g)
  <1>5. Rec(f)
    BY <1>0, <1>4
  <1>6. Rec(now)
    BY <1>5
  <1>7. \A k : Now(list, k) = now[k]
    BY DEF Now
  <1> HIDE DEF now
  <1>8. now[0] = 0 /\ \A k \in 1 .. n : now[k] = now[k - 1] + list[k].lag
    BY <1>0, <1>6
  <1> DEFINE H == {m \in Nat : m <= n => now[m] \in Int}
  <1>9. 0 \in H
    BY <1>8
  <1>10. ASSUME NEW m \in H PROVE m + 1 \in H
    <2> SUFFICES ASSUME m + 1 <= n PROVE now[m + 1] \in Int
      OBVIOUS
    <2>1. m + 1 \in 1 .. n /\ now[m] \in Int /\ list[m + 1].lag \in Int /\ (m + 1) - 1 = m
      BY <1>0
    <2> QED BY <1>8, <2>1
  <1>11. \A m \in Nat : m \in H
    <2> HIDE DEF H
    <2>1. H \in SUBSET Nat
      BY DEF H
    <2> QED BY <1>9, <1>10, <2>1, Induction
  <1>12. \A k \in 0 .. n : now[k] \in Int
    BY <1>0, <1>11
  <1> HIDE DEF H
  <1>13. Now(list, 0) = 0 /\ \A k \in 0 .. n : Now(list, k) \in Int
    BY <1>7, <1>8, <1>12
  <1>14. \A k \in 1 .. n : Now(list, k) = Now(list, k - 1) + list[k].lag
    BY <1>7, <1>8
  <1> QED BY <1>13, <1>14

\* Two differences stay equal when the same is added to both.
LEMMA SameStep ==
  \A a, b, c, d, e, a1, c1 :
     (/\ a \in Int /\ b \in Int /\ c \in Int /\ d \in Int /\ e \in Int
      /\ a - b = c - d /\ a1 = a + e /\ c1 = c + e) => a1 - b = c1 - d
  OBVIOUS

\* Lists that have ticks to add up.
Lags(list) == Len(list) \in Nat /\ \A x \in 1 .. Len(list) : list[x].lag \in Int

\* The n entries behind entry i of l, and behind entry j of m, have the same lags.
Alike(l, i, m, j, n) ==
    /\ i \in Nat /\ j \in Nat /\ n \in Nat /\ i + n <= Len(l) /\ j + n <= Len(m)
    /\ \A k \in 1 .. n : l[i + k].lag = m[j + k].lag

\* Stretches of two lists with the same lags take the same time.
LEMMA NowShift ==
  ASSUME NEW l, NEW m, NEW i, NEW j, NEW n, Lags(l), Lags(m), Alike(l, i, m, j, n)
  PROVE  \A k \in 0 .. n : Now(l, i + k) - Now(l, i) = Now(m, j + k) - Now(m, j)
  <1> USE DEF Lags, Alike
  <1> DEFINE G == {k \in Nat : k <= n => Now(l, i + k) - Now(l, i) = Now(m, j + k) - Now(m, j)}
  <1>1. /\ \A k \in 1 .. Len(l) : Now(l, k) = Now(l, k - 1) + l[k].lag
        /\ \A k \in 0 .. Len(l) : Now(l, k) \in Int
    BY NowFacts
  <1>2. /\ \A k \in 1 .. Len(m) : Now(m, k) = Now(m, k - 1) + m[k].lag
        /\ \A k \in 0 .. Len(m) : Now(m, k) \in Int
    BY NowFacts
  <1>3. 0 \in G
    <2>1. Now(l, i) \in Int /\ Now(m, j) \in Int
      BY <1>1, <1>2
    <2> QED BY <2>1
  <1>4. ASSUME NEW k \in G PROVE k + 1 \in G
    <2> SUFFICES ASSUME k + 1 <= n
                 PROVE  Now(l, i + (k + 1)) - Now(l, i) = Now(m, j + (k + 1)) - Now(m, j)
      OBVIOUS
    <2>1. /\ i + (k + 1) \in 1 .. Len(l) /\ j + (k + 1) \in 1 .. Len(m) /\ k + 1 \in 1 .. n
          /\ i + (k + 1) - 1 = i + k /\ j + (k + 1) - 1 = j + k
          /\ i + k \in 0 .. Len(l) /\ j + k \in 0 .. Len(m) /\ i \in 0 .. Len(l) /\ j \in 0 .. Len(m)
      OBVIOUS
    <2>2. Now(l, i + (k + 1)) = Now(l, i + k) + l[i + (k + 1)].lag
      BY <1>1, <2>1
    <2>3. Now(m, j + (k + 1)) = Now(m, j + k) + m[j + (k + 1)].lag
      BY <1>2, <2>1
    <2>4. Now(l, i + k) - Now(l, i) = Now(m, j + k) - Now(m, j)
      OBVIOUS
    <2>5. l[i + (k + 1)].lag = m[j + (k + 1)].lag /\ l[i + (k + 1)].lag \in Int
      BY <2>1
    <2>6. Now(l, i + k) \in Int /\ Now(m, j + k) \in Int /\ Now(l, i) \in Int /\ Now(m, j) \in Int
      BY <1>1, <1>2, <2>1
    <2>7. Now(m, j + (k + 1)) = Now(m, j + k) + l[i + (k + 1)].lag
      BY <2>3, <2>5, Zenon
    <2> HIDE DEF G
    <2> DEFINE a == Now(l, i + k)
               b == Now(l, i)
               c == Now(m, j + k)
               d == Now(m, j)
               e == l[i + (k + 1)].lag
               a1 == Now(l, i + (k + 1))
               c1 == Now(m, j + (k + 1))
    <2>8. /\ a \in Int /\ b \in Int /\ c \in Int /\ d \in Int /\ e \in Int
          /\ a - b = c - d /\ a1 = a + e /\ c1 = c + e
      BY <2>2, <2>4, <2>5, <2>6, <2>7, Zenon
    <2> HIDE DEF a, b, c, d, e, a1, c1
    <2>9. a1 - b = c1 - d
      BY <2>8, SameStep
    <2> QED BY <2>9 DEF a1, b, c1, d
  <1>5. \A k \in Nat : k \in G
    <2> HIDE DEF G
    <2>1. G \in SUBSET Nat
      BY DEF G
    <2> QED BY <1>3, <1>4, <2>1, Induction
  <1> QED BY <1>5

\* Such stretches move together: by b ticks when their starts are that far apart.
LEMMA NowMoved ==
  ASSUME NEW l, NEW m, NEW i, NEW j, NEW n, NEW b, Lags(l), Lags(m), Alike(l, i, m, j, n),
         b \in Int, Now(m, j) = Now(l, i) + b
  PROVE  \A k \in 0 .. n : Now(m, j + k) = Now(l, i + k) + b
  <1> USE DEF Lags, Alike
  <1>1. \A k \in 0 .. n : Now(l, i + k) - Now(l, i) = Now(m, j + k) - Now(m, j)
    <2> HIDE DEF Lags, Alike
    <2> QED BY NowShift
  <1>2. \A k \in 0 .. Len(l) : Now(l, k) \in Int
    BY NowFacts
  <1>3. \A k \in 0 .. Len(m) : Now(m, k) \in Int
    BY NowFacts
  <1> SUFFICES ASSUME NEW k \in 0 .. n PROVE Now(m, j + k) = Now(l, i + k) + b
    OBVIOUS
  <1>4. /\ Now(l, i + k) \in Int /\ Now(l, i) \in Int
        /\ Now(m, j + k) \in Int /\ Now(m, j) \in Int
    <2>1. i + k \in 0 .. Len(l) /\ i \in 0 .. Len(l) /\ j + k \in 0 .. Len(m) /\ j \in 0 .. Len(m)
      OBVIOUS
    <2> QED BY <1>2, <1>3, <2>1
  <1>5. Now(l, i + k) - Now(l, i) = Now(m, j + k) - Now(m, j)
    BY <1>1, Zenon
  <1> HIDE DEF Lags, Alike
  <1> DEFINE p == Now(l, i + k)
             q == Now(l, i)
             r == Now(m, j + k)
             s == Now(m, j)
  <1>6. /\ p \in Int /\ q \in Int /\ r \in Int /\ s \in Int /\ b \in Int
        /\ p - q = r - s /\ s = q + b
    BY <1>4, <1>5, Zenon
  <1> HIDE DEF p, q, r, s
  <1>7. r = p + b
    BY <1>6
  <1> QED BY <1>7 DEF r, p

\* Likewise without a distance.
LEMMA NowSame ==
  ASSUME NEW l, NEW m, NEW i, NEW j, NEW n, Lags(l), Lags(m), Alike(l, i, m, j, n),
         Now(m, j) = Now(l, i)
  PROVE  \A k \in 0 .. n : Now(m, j + k) = Now(l, i + k)
  <1>1. /\ i \in 0 .. Len(l) /\ n \in Nat /\ \A k \in 0 .. n : i + k \in 0 .. Len(l)
    BY DEF Alike, Lags
  <1>2. \A k \in 0 .. Len(l) : Now(l, k) \in Int
    BY NowFacts DEF Lags
  <1>3. Now(m, j) = Now(l, i) + 0 /\ 0 \in Int
    BY <1>1, <1>2
  <1>4. \A k \in 0 .. n : Now(m, j + k) = Now(l, i + k) + 0
    <2> DEFINE b == 0
    <2>1. Now(m, j) = Now(l, i) + b /\ b \in Int
      BY <1>3
    <2> HIDE DEF b
    <2>2. \A k \in 0 .. n : Now(m, j + k) = Now(l, i + k) + b
      BY <2>1, NowMoved
    <2> QED BY <2>2 DEF b
  <1> QED BY <1>1, <1>2, <1>4

-----------------------------------------------------------------------------
(***************************************************************************)
(* The list of watchdogs as a table of ticks left.                         *)
(***************************************************************************)

\* No watchdog is in the list twice, and the first one has not expired.
WdList(list) ==
    /\ list \in Seq([wd : Task, lag : Nat])
    /\ \A i, j \in 1 .. Len(list) : list[i].wd = list[j].wd => i = j
    /\ list # <<>> => list[1].lag >= 1

\* Ticks left until the watchdog expires.
Left(list, wd) == Now(list, IndexOf(list, wd))

\* What the entries are, one by one.
LEMMA WdListFacts ==
  ASSUME NEW list, WdList(list)
  PROVE  /\ Len(list) \in Nat /\ DOMAIN list = 1 .. Len(list)
         /\ \A i \in 1 .. Len(list) : list[i].lag \in Nat /\ list[i].wd \in Task
         /\ \A i \in 1 .. Len(list) : list[i].lag \in Int
         /\ \A i \in 1 .. Len(list) : list[i] = [wd |-> list[i].wd, lag |-> list[i].lag]
  <1>1. list \in Seq([wd : Task, lag : Nat])
    BY DEF WdList
  <1>2. \A i \in 1 .. Len(list) : list[i] \in [wd : Task, lag : Nat]
    BY <1>1, ElementOfSeq
  <1> QED BY <1>1, <1>2, LenProperties

\* Entries expire in the order of the list, and none is overdue.
LEMMA NowOrdered ==
  ASSUME NEW list, WdList(list)
  PROVE  /\ \A k \in 0 .. Len(list) : Now(list, k) \in Nat
         /\ \A k \in 1 .. Len(list) : Now(list, k) >= 1
         /\ \A j, k \in 0 .. Len(list) : j <= k => Now(list, j) <= Now(list, k)
  <1> DEFINE n == Len(list)
             G == {d \in Nat : \A j \in 0 .. n : j + d <= n => Now(list, j) <= Now(list, j + d)}
  <1>1. n \in Nat /\ \A i \in 1 .. n : list[i].lag \in Nat
    BY WdListFacts
  <1>2. /\ Now(list, 0) = 0
        /\ \A k \in 1 .. n : Now(list, k) = Now(list, k - 1) + list[k].lag
        /\ \A k \in 0 .. n : Now(list, k) \in Int
    BY <1>1, NowFacts
  <1>3. 0 \in G
    BY <1>1, <1>2
  <1>4. ASSUME NEW d \in G PROVE d + 1 \in G
    <2> SUFFICES ASSUME NEW j \in 0 .. n, j + (d + 1) <= n PROVE Now(list, j) <= Now(list, j + (d + 1))
      BY <1>1
    <2>1. j + (d + 1) \in 1 .. n /\ j + (d + 1) - 1 = j + d /\ j + d \in 0 .. n /\ j + d <= n
      BY <1>1
    <2>2. Now(list, j + (d + 1)) = Now(list, j + d) + list[j + (d + 1)].lag
      BY <1>2, <2>1
    <2>3. list[j + (d + 1)].lag \in Nat /\ Now(list, j) \in Int /\ Now(list, j + d) \in Int
      BY <1>1, <1>2, <2>1
    <2>4. Now(list, j) <= Now(list, j + d)
      BY <2>1
    <2> QED BY <2>2, <2>3, <2>4
  <1>5. \A d \in Nat : d \in G
    <2> HIDE DEF G
    <2>1. G \in SUBSET Nat
      BY DEF G
    <2> QED BY <1>3, <1>4, <2>1, Induction
  <1>6. ASSUME NEW j \in 0 .. n, NEW k \in 0 .. n, j <= k
        PROVE  Now(list, j) <= Now(list, k)
    <2>1. k - j \in Nat /\ j + (k - j) = k /\ j + (k - j) <= n
      BY <1>1, <1>6
    <2>2. k - j \in G
      BY <1>5, <2>1
    <2> QED BY <2>1, <2>2
  <1>7. ASSUME NEW k \in 1 .. n
        PROVE  Now(list, k) >= 1
    <2>1. n >= 1 /\ 1 \in 1 .. n /\ 1 \in 0 .. n /\ k \in 0 .. n /\ 1 <= k /\ 1 - 1 = 0
      BY <1>1
    <2>2. list # <<>>
      BY <2>1
    <2>3. list[1].lag >= 1
      BY <2>2 DEF WdList
    <2>4. Now(list, 1) = list[1].lag
      BY <1>1, <1>2, <2>1
    <2>5. Now(list, 1) <= Now(list, k)
      BY <1>6, <2>1
    <2> QED BY <1>1, <1>2, <2>1, <2>3, <2>4, <2>5
  <1>8. ASSUME NEW k \in 0 .. n
        PROVE  Now(list, k) \in Nat
    <2>1. 0 \in 0 .. n /\ 0 <= k
      BY <1>1
    <2>2. Now(list, 0) <= Now(list, k)
      BY <1>6, <2>1
    <2> QED BY <1>2, <2>2
  <1> QED BY <1>6, <1>7, <1>8

\* A watchdog's ticks are those of its only entry.
LEMMA LeftAt ==
  ASSUME NEW list, WdList(list), NEW k \in 1 .. Len(list)
  PROVE  list[k].wd \in Wds(list) /\ Left(list, list[k].wd) = Now(list, k)
  <1>1. DOMAIN list = 1 .. Len(list)
    BY WdListFacts
  <1>2. IndexOf(list, list[k].wd) = k
    <2>1. \E j \in DOMAIN list : list[j].wd = list[k].wd
      BY <1>1
    <2>2. /\ IndexOf(list, list[k].wd) \in 1 .. Len(list)
          /\ list[IndexOf(list, list[k].wd)].wd = list[k].wd
      BY <1>1, <2>1 DEF IndexOf
    <2> QED BY <2>2 DEF WdList
  <1> QED BY <1>1, <1>2 DEF Wds, Left

-----------------------------------------------------------------------------
(***************************************************************************)
(* An entry goes into a list, or out of it.                                *)
(***************************************************************************)

\* Entries behind the new one move up.
LEMMA InsertAtFacts ==
  ASSUME NEW S, NEW s \in Seq(S), NEW i \in 1 .. Len(s) + 1, NEW e \in S
  PROVE  /\ InsertAt(s, i, e) \in Seq(S)
         /\ Len(InsertAt(s, i, e)) = Len(s) + 1
         /\ \A k \in 1 .. i - 1 : InsertAt(s, i, e)[k] = s[k]
         /\ InsertAt(s, i, e)[i] = e
         /\ \A k \in i .. Len(s) : InsertAt(s, i, e)[k + 1] = s[k]
  <1> DEFINE front == SubSeq(s, 1, i - 1)
             back == SubSeq(s, i, Len(s))
             mid == front \o <<e>>
  <1>1. /\ Len(s) \in Nat /\ i \in Int /\ i - 1 \in Int /\ Len(s) \in Int
        /\ \A k \in 1 .. Len(s) : s[k] \in S
    BY LenProperties, ElementOfSeq
  <1>2. /\ front \in Seq(S) /\ Len(front) = i - 1
        /\ \A k \in 1 .. i - 1 : front[k] = s[k]
    <2>1. \A k \in 1 .. i - 1 : s[k] \in S
      BY <1>1
    <2>2. /\ front \in Seq(S) /\ Len(front) = IF 1 <= i - 1 THEN (i - 1) - 1 + 1 ELSE 0
          /\ \A k \in 1 .. (i - 1) - 1 + 1 : front[k] = s[1 + k - 1]
      BY <1>1, <2>1, SubSeqProperties
    <2> HIDE DEF front
    <2> QED BY <1>1, <2>2
  <1>3. /\ back \in Seq(S) /\ Len(back) = Len(s) - i + 1
        /\ \A k \in 1 .. Len(s) - i + 1 : back[k] = s[i + k - 1]
    <2>1. \A k \in i .. Len(s) : s[k] \in S
      BY <1>1
    <2>2. /\ back \in Seq(S) /\ Len(back) = IF i <= Len(s) THEN Len(s) - i + 1 ELSE 0
          /\ \A k \in 1 .. Len(s) - i + 1 : back[k] = s[i + k - 1]
      BY <1>1, <2>1, SubSeqProperties
    <2> HIDE DEF back
    <2> QED BY <1>1, <2>2
  <1>4. <<e>> \in Seq(S) /\ Len(<<e>>) = 1 /\ <<e>>[1] = e
    OBVIOUS
  <1> HIDE DEF front, back
  <1>5. /\ mid \in Seq(S) /\ Len(mid) = i
        /\ \A k \in 1 .. i - 1 : mid[k] = s[k]
        /\ mid[i] = e
    <2>1. /\ mid \in Seq(S) /\ Len(mid) = Len(front) + 1
          /\ \A k \in 1 .. Len(front) + 1 :
                mid[k] = IF k <= Len(front) THEN front[k] ELSE <<e>>[k - Len(front)]
      BY <1>2, <1>4, ConcatProperties
    <2> HIDE DEF mid
    <2> QED BY <1>1, <1>2, <1>4, <2>1
  <1> HIDE DEF mid
  <1> DEFINE r == mid \o back
  <1>6. /\ r \in Seq(S) /\ Len(r) = Len(mid) + Len(back)
        /\ \A k \in 1 .. Len(mid) + Len(back) :
              r[k] = IF k <= Len(mid) THEN mid[k] ELSE back[k - Len(mid)]
    BY <1>3, <1>5, ConcatProperties
  <1>7. InsertAt(s, i, e) = r
    BY DEF InsertAt, mid, front, back
  <1> HIDE DEF r
  <1>8. \A k \in i .. Len(s) : r[k + 1] = s[k]
    <2> SUFFICES ASSUME NEW k \in i .. Len(s) PROVE r[k + 1] = s[k]
      OBVIOUS
    <2>1. r[k + 1] = back[k + 1 - i]
      BY <1>1, <1>3, <1>5, <1>6
    <2>2. k + 1 - i \in 1 .. Len(s) - i + 1 /\ i + (k + 1 - i) - 1 = k
      BY <1>1
    <2> QED BY <1>3, <2>1, <2>2
  <1>9. Len(r) = Len(s) + 1 /\ r[i] = e /\ \A k \in 1 .. i - 1 : r[k] = s[k]
    BY <1>1, <1>3, <1>5, <1>6
  <1> QED BY <1>6, <1>7, <1>8, <1>9

\* Entries behind the one that is gone move down.
LEMMA RemoveAtFacts ==
  ASSUME NEW S, NEW s \in Seq(S), NEW i \in 1 .. Len(s)
  PROVE  /\ RemoveAt(s, i) \in Seq(S)
         /\ Len(RemoveAt(s, i)) = Len(s) - 1
         /\ \A k \in 1 .. i - 1 : RemoveAt(s, i)[k] = s[k]
         /\ \A k \in i .. Len(s) - 1 : RemoveAt(s, i)[k] = s[k + 1]
  <1> DEFINE front == SubSeq(s, 1, i - 1)
             back == SubSeq(s, i + 1, Len(s))
             r == front \o back
  <1>1. /\ Len(s) \in Nat /\ i \in Int /\ i - 1 \in Int /\ i + 1 \in Int /\ Len(s) \in Int
        /\ \A k \in 1 .. Len(s) : s[k] \in S
    BY LenProperties, ElementOfSeq
  <1>2. /\ front \in Seq(S) /\ Len(front) = i - 1
        /\ \A k \in 1 .. i - 1 : front[k] = s[k]
    <2>1. \A k \in 1 .. i - 1 : s[k] \in S
      BY <1>1
    <2>2. /\ front \in Seq(S) /\ Len(front) = IF 1 <= i - 1 THEN (i - 1) - 1 + 1 ELSE 0
          /\ \A k \in 1 .. (i - 1) - 1 + 1 : front[k] = s[1 + k - 1]
      BY <1>1, <2>1, SubSeqProperties
    <2> HIDE DEF front
    <2> QED BY <1>1, <2>2
  <1>3. /\ back \in Seq(S) /\ Len(back) = Len(s) - i
        /\ \A k \in 1 .. Len(s) - i : back[k] = s[i + k]
    <2>1. \A k \in i + 1 .. Len(s) : s[k] \in S
      BY <1>1
    <2>2. /\ back \in Seq(S) /\ Len(back) = IF i + 1 <= Len(s) THEN Len(s) - (i + 1) + 1 ELSE 0
          /\ \A k \in 1 .. Len(s) - (i + 1) + 1 : back[k] = s[(i + 1) + k - 1]
      BY <1>1, <2>1, SubSeqProperties
    <2> HIDE DEF back
    <2> QED BY <1>1, <2>2
  <1> HIDE DEF front, back
  <1>4. /\ r \in Seq(S) /\ Len(r) = Len(front) + Len(back)
        /\ \A k \in 1 .. Len(front) + Len(back) :
              r[k] = IF k <= Len(front) THEN front[k] ELSE back[k - Len(front)]
    BY <1>2, <1>3, ConcatProperties
  <1>5. RemoveAt(s, i) = r
    BY DEF RemoveAt, front, back
  <1> HIDE DEF r
  <1>6. \A k \in i .. Len(s) - 1 : r[k] = s[k + 1]
    <2> SUFFICES ASSUME NEW k \in i .. Len(s) - 1 PROVE r[k] = s[k + 1]
      OBVIOUS
    <2>1. k \in 1 .. Len(front) + Len(back) /\ ~(k <= Len(front)) /\ k - Len(front) = k - (i - 1)
      BY <1>1, <1>2, <1>3
    <2>2. r[k] = back[k - (i - 1)]
      BY <1>4, <2>1
    <2>3. k - (i - 1) \in 1 .. Len(s) - i /\ i + (k - (i - 1)) = k + 1
      BY <1>1
    <2> QED BY <1>3, <2>2, <2>3
  <1>7. Len(r) = Len(s) - 1
    BY <1>1, <1>2, <1>3, <1>4
  <1>8. \A k \in 1 .. i - 1 : r[k] = s[k]
    <2> SUFFICES ASSUME NEW k \in 1 .. i - 1 PROVE r[k] = s[k]
      OBVIOUS
    <2>1. k \in 1 .. Len(front) + Len(back) /\ k <= Len(front)
      BY <1>1, <1>2, <1>3
    <2> QED BY <1>2, <1>4, <2>1
  <1> QED BY <1>4, <1>5, <1>6, <1>7, <1>8

-----------------------------------------------------------------------------
(***************************************************************************)
(* What wd_start(), wd_cancel() and wd_timer() do to the ticks left.       *)
(***************************************************************************)

\* The list new is list with an entry for t in place c, whose lag the entry
\* behind it does not have to wait any more.
Enters(list, t, due, new, c) ==
    /\ t \in Task /\ t \notin Wds(list) /\ due \in Nat /\ due >= 1
    /\ new \in Seq([wd : Task, lag : Nat]) /\ Len(new) = Len(list) + 1
    /\ c \in 1 .. Len(list) + 1
    /\ \A k \in 1 .. c - 1 : new[k] = list[k]
    /\ new[c].wd = t /\ new[c].lag = due - Now(list, c - 1)
    /\ c <= Len(list) => new[c + 1].wd = list[c].wd /\ new[c + 1].lag = Now(list, c) - due
    /\ \A k \in c + 1 .. Len(list) : new[k + 1] = list[k]

\* Such an entry moves nobody's expiry.
LEMMA Inserted ==
  ASSUME NEW list, NEW t, NEW due, NEW new, NEW c, WdList(list), Enters(list, t, due, new, c)
  PROVE  /\ WdList(new) /\ Wds(new) = Wds(list) \cup {t}
         /\ Left(new, t) = due
         /\ \A w \in Wds(list) : Left(new, w) = Left(list, w)
  <1> USE DEF Enters
  <1> DEFINE n == Len(list)
  <1>1. /\ n \in Nat /\ DOMAIN list = 1 .. n
        /\ \A i \in 1 .. n : list[i].lag \in Int
    BY WdListFacts
  <1>2. DOMAIN new = 1 .. n + 1 /\ Lags(new) /\ Lags(list)
    <2>1. \A i \in 1 .. Len(new) : new[i] \in [wd : Task, lag : Nat]
      BY ElementOfSeq
    <2> QED BY <1>1, <2>1, LenProperties DEF Lags
  <1>3. Now(list, 0) = 0 /\ \A k \in 0 .. n : Now(list, k) \in Int
    BY <1>1, NowFacts
  <1>4. /\ Now(new, 0) = 0
        /\ \A k \in 1 .. n + 1 : Now(new, k) = Now(new, k - 1) + new[k].lag
        /\ \A k \in 0 .. n + 1 : Now(new, k) \in Int
    BY <1>1, <1>2, NowFacts DEF Lags
  <1>5. \A k \in 0 .. c - 1 : Now(new, k) = Now(list, k)
    <2>1. \A k \in 0 .. c - 1 : Now(new, 0 + k) = Now(list, 0 + k)
      <3>1. Alike(list, 0, new, 0, c - 1)
        BY <1>1 DEF Alike
      <3>2. Now(new, 0) = Now(list, 0)
        BY <1>3, <1>4
      <3> DEFINE z == 0
                 d == c - 1
      <3>3. Alike(list, z, new, z, d) /\ Now(new, z) = Now(list, z)
        BY <3>1, <3>2
      <3> HIDE DEF z, d
      <3>4. \A k \in 0 .. d : Now(new, z + k) = Now(list, z + k)
        BY <1>2, <3>3, NowSame
      <3> QED BY <3>4 DEF z, d
    <2> SUFFICES ASSUME NEW k \in 0 .. c - 1 PROVE Now(new, k) = Now(list, k)
      OBVIOUS
    <2>2. 0 + k = k /\ k \in 0 .. n
      BY <1>1
    <2> QED BY <1>3, <2>1, <2>2
  <1>6. Now(new, c) = due
    <2>1. c \in 1 .. n + 1 /\ c - 1 \in 0 .. n /\ c - 1 \in 0 .. c - 1
      BY <1>1
    <2>2. Now(new, c) = Now(list, c - 1) + (due - Now(list, c - 1))
      BY <1>4, <1>5, <2>1
    <2>3. Now(list, c - 1) \in Int /\ due \in Int
      BY <1>3, <2>1
    <2> HIDE DEF Enters
    <2> QED BY <2>2, <2>3
  <1>7. \A k \in c .. n : Now(new, k + 1) = Now(list, k)
    <2> SUFFICES ASSUME NEW q \in c .. n PROVE Now(new, q + 1) = Now(list, q)
      OBVIOUS
    <2>1. /\ c + 1 \in 1 .. n + 1 /\ (c + 1) - 1 = c /\ c \in 0 .. n /\ c <= n
          /\ c \in Nat /\ c + 1 \in Nat /\ n - c \in Nat /\ q - c \in 0 .. n - c
          /\ c + (n - c) <= n /\ (c + 1) + (n - c) <= Len(new) /\ 0 \in Int
          /\ c + (q - c) = q /\ (c + 1) + (q - c) = q + 1 /\ q \in 0 .. n
      BY <1>1
    <2>2. Now(new, c + 1) = Now(list, c)
      <3>1. Now(new, c + 1) = due + (Now(list, c) - due)
        BY <1>4, <1>6, <2>1
      <3> QED BY <1>3, <2>1, <3>1
    <2>3. \A k \in 1 .. n - c : list[c + k].lag = new[(c + 1) + k].lag
      <3> SUFFICES ASSUME NEW k \in 1 .. n - c PROVE list[c + k].lag = new[(c + 1) + k].lag
        OBVIOUS
      <3>1. c + k \in c + 1 .. n /\ (c + 1) + k = (c + k) + 1
        BY <1>1
      <3> QED BY <3>1
    <2>4. Alike(list, c, new, c + 1, n - c)
      BY <2>1, <2>3 DEF Alike
    <2>5. \A k \in 0 .. n - c : Now(new, (c + 1) + k) = Now(list, c + k)
      <3> DEFINE z == c + 1
                 d == n - c
      <3>1. Alike(list, c, new, z, d) /\ Now(new, z) = Now(list, c)
        BY <2>2, <2>4
      <3> HIDE DEF z, d
      <3>2. \A k \in 0 .. d : Now(new, z + k) = Now(list, c + k)
        BY <1>2, <3>1, NowSame
      <3> QED BY <3>2 DEF z, d
    <2> QED BY <2>1, <2>5
  <1>8. \A k \in 1 .. n : list[k].wd # t
    BY <1>1 DEF Wds
  <1>9. \A k \in c .. n : new[k + 1].wd = list[k].wd
    <2> SUFFICES ASSUME NEW k \in c .. n PROVE new[k + 1].wd = list[k].wd
      OBVIOUS
    <2>1. CASE k = c
      BY <2>1
    <2>2. CASE k # c
      <3>1. k \in c + 1 .. n
        BY <1>1, <2>2
      <3> QED BY <3>1
    <2> QED BY <2>1, <2>2
  <1>10. \A x \in 1 .. n + 1 : \/ x \in 1 .. c - 1 /\ new[x].wd = list[x].wd
                               \/ x = c /\ new[x].wd = t
                               \/ x - 1 \in c .. n /\ new[x].wd = list[x - 1].wd
    <2> SUFFICES ASSUME NEW x \in 1 .. n + 1, ~(x \in 1 .. c - 1), x # c
                 PROVE  x - 1 \in c .. n /\ new[x].wd = list[x - 1].wd
      OBVIOUS
    <2>1. x - 1 \in c .. n /\ (x - 1) + 1 = x
      BY <1>1
    <2> QED BY <1>9, <2>1
  <1>11. WdList(new)
    <2>1. ASSUME NEW x \in 1 .. n + 1, NEW y \in 1 .. n + 1, new[x].wd = new[y].wd
          PROVE  x = y
      <3>1. \A i, j \in 1 .. n : list[i].wd = list[j].wd => i = j
        BY DEF WdList
      <3>2. \A i \in 1 .. c - 1 : i \in 1 .. n
        BY <1>1
      <3>3. \A i \in c .. n : i \in 1 .. n
        BY <1>1
      <3>4. CASE x = c
        BY <1>1, <1>8, <1>10, <2>1, <3>2, <3>3, <3>4
      <3>5. CASE y = c
        BY <1>1, <1>8, <1>10, <2>1, <3>2, <3>3, <3>5
      <3>6. CASE x # c /\ y # c
        <4>1. \/ x \in 1 .. n /\ new[x].wd = list[x].wd /\ x < c
              \/ x - 1 \in 1 .. n /\ new[x].wd = list[x - 1].wd /\ x > c
          BY <1>1, <1>10, <3>2, <3>3, <3>6
        <4>2. \/ y \in 1 .. n /\ new[y].wd = list[y].wd /\ y < c
              \/ y - 1 \in 1 .. n /\ new[y].wd = list[y - 1].wd /\ y > c
          BY <1>1, <1>10, <3>2, <3>3, <3>6
        <4>3. x \in Int /\ y \in Int /\ c \in Int
          BY <1>1
        <4> HIDE DEF Enters
        <4>4. CASE x < c /\ y < c
          BY <2>1, <3>1, <4>1, <4>2, <4>3, <4>4
        <4>5. CASE x < c /\ y > c
          <5>1. x = y - 1
            BY <2>1, <3>1, <4>1, <4>2, <4>3, <4>5
          <5> QED BY <4>3, <4>5, <5>1
        <4>6. CASE x > c /\ y < c
          <5>1. x - 1 = y
            BY <2>1, <3>1, <4>1, <4>2, <4>3, <4>6
          <5> QED BY <4>3, <4>6, <5>1
        <4>7. CASE x > c /\ y > c
          <5>1. x - 1 = y - 1
            BY <2>1, <3>1, <4>1, <4>2, <4>3, <4>7
          <5> QED BY <4>3, <5>1
        <4> QED BY <4>1, <4>2, <4>4, <4>5, <4>6, <4>7
      <3> QED BY <3>4, <3>5, <3>6
    <2>2. new[1].lag >= 1
      <3>1. CASE c = 1
        BY <1>3, <3>1
      <3>2. CASE c # 1
        <4>1. 1 \in 1 .. c - 1 /\ n >= 1
          BY <1>1, <3>2
        <4>2. list # <<>>
          BY <4>1
        <4> QED BY <4>1, <4>2 DEF WdList
      <3> QED BY <3>1, <3>2
    <2> QED BY <2>1, <2>2 DEF WdList
  <1>12. \A x \in 1 .. n + 1 : new[x].wd \in Wds(new) /\ Left(new, new[x].wd) = Now(new, x)
    BY <1>11, LeftAt
  <1>13. \A x \in 1 .. n : list[x].wd \in Wds(list) /\ Left(list, list[x].wd) = Now(list, x)
    BY LeftAt
  <1>14. Left(new, t) = due /\ t \in Wds(new)
    BY <1>6, <1>12
  <1>15. ASSUME NEW k \in 1 .. n
         PROVE  list[k].wd \in Wds(new) /\ Left(new, list[k].wd) = Now(list, k)
    <2>1. CASE k \in 1 .. c - 1
      <3>1. k \in 1 .. n + 1 /\ k \in 0 .. c - 1 /\ new[k].wd = list[k].wd
        BY <1>1, <2>1
      <3> QED BY <1>5, <1>12, <3>1
    <2>2. CASE k \in c .. n
      <3>1. k + 1 \in 1 .. n + 1
        BY <1>1
      <3> QED BY <1>7, <1>9, <1>12, <2>2, <3>1
    <2> QED BY <1>1, <2>1, <2>2
  <1>16. \A w \in Wds(list) : \E k \in 1 .. n : w = list[k].wd
    BY <1>1 DEF Wds
  <1>17. \A w \in Wds(list) : w \in Wds(new) /\ Left(new, w) = Left(list, w)
    <2> HIDE DEF Enters
    <2> QED BY <1>13, <1>15, <1>16
  <1>18. \A w \in Wds(new) : w = t \/ w \in Wds(list)
    <2> SUFFICES ASSUME NEW x \in 1 .. n + 1 PROVE new[x].wd = t \/ new[x].wd \in Wds(list)
      BY <1>2 DEF Wds
    <2>1. (x \in 1 .. c - 1 => x \in 1 .. n) /\ (x - 1 \in c .. n => x - 1 \in 1 .. n)
      BY <1>1
    <2> QED BY <1>10, <1>13, <2>1
  <1> QED BY <1>11, <1>14, <1>17, <1>18

\* wd_start(): the watchdog is due one tick later than asked for, the others are
\* due when they were.
LEMMA StartFacts ==
  ASSUME NEW list, WdList(list), NEW t \in Task, t \notin Wds(list), NEW d \in Nat
  PROVE  /\ WdList(WdStart(list, t, d))
         /\ Wds(WdStart(list, t, d)) = Wds(list) \cup {t}
         /\ Left(WdStart(list, t, d), t) = d + 1
         /\ \A w \in Wds(list) : Left(WdStart(list, t, d), w) = Left(list, w)
  <1> DEFINE due == d + 1
             n == Len(list)
             later == {k \in DOMAIN list : Now(list, k) > due}
             new == WdStart(list, t, d)
             E == [wd : Task, lag : Nat]
  <1>1. /\ n \in Nat /\ DOMAIN list = 1 .. n /\ list \in Seq(E)
        /\ \A i \in 1 .. n : list[i].lag \in Nat /\ list[i].wd \in Task
        /\ \A i \in 1 .. n : list[i] = [wd |-> list[i].wd, lag |-> list[i].lag]
    BY WdListFacts DEF WdList
  <1>2. /\ \A k \in 0 .. n : Now(list, k) \in Nat
        /\ Now(list, 0) = 0
        /\ \A k \in 1 .. n : Now(list, k) = Now(list, k - 1) + list[k].lag
    BY <1>1, NowOrdered, NowFacts, WdListFacts
  <1>3. due \in Nat /\ due >= 1
    OBVIOUS
  <1>4. CASE later = {}
    <2> DEFINE e == [wd |-> t, lag |-> due - Now(list, n)]
    <2>1. new = Append(list, e)
      BY <1>4 DEF WdStart
    <2>2. Now(list, n) <= due
      <3>1. CASE n = 0
        BY <1>2, <3>1
      <3>2. CASE n # 0
        <4>1. n \in 1 .. n /\ n \in 0 .. n
          BY <1>1, <3>2
        <4> QED BY <1>1, <1>2, <1>4, <4>1
      <3> QED BY <3>1, <3>2
    <2>3. n \in 0 .. n /\ Now(list, n) \in Nat
      BY <1>1, <1>2
    <2>4. e \in E
      BY <2>2, <2>3
    <2> HIDE DEF new
    <2>5. /\ new \in Seq(E) /\ Len(new) = n + 1 /\ new[n + 1] = e
          /\ \A k \in 1 .. n : new[k] = list[k]
      BY <1>1, <2>1, <2>4
    <2> DEFINE c == n + 1
    <2>6. c \in 1 .. n + 1 /\ c - 1 = n /\ ~(c <= n) /\ \A k \in c + 1 .. n : FALSE
      BY <1>1
    <2>7. new[c].wd = t /\ new[c].lag = due - Now(list, c - 1)
      BY <2>5, <2>6
    <2>8. \A k \in 1 .. c - 1 : new[k] = list[k]
      BY <2>5, <2>6
    <2>9. /\ c <= n => new[c + 1].wd = list[c].wd /\ new[c + 1].lag = Now(list, c) - due
          /\ \A k \in c + 1 .. n : new[k + 1] = list[k]
      BY <2>6
    <2> HIDE DEF c, due
    <2>10. /\ WdList(new) /\ Wds(new) = Wds(list) \cup {t}
           /\ Left(new, t) = due
           /\ \A w \in Wds(list) : Left(new, w) = Left(list, w)
      <3>1. Enters(list, t, due, new, c)
        BY <1>3, <2>5, <2>6, <2>7, <2>8, <2>9 DEF Enters
      <3> QED BY <3>1, Inserted
    <2> QED BY <2>10 DEF new, due
  <1>5. CASE later # {}
    <2> DEFINE c == Min(later)
               lag == due - Now(list, c - 1)
               cut == [list EXCEPT ![c].lag = @ - lag]
               e == [wd |-> t, lag |-> lag]
    <2>1. c \in later /\ \A y \in later : c <= y
      <3>1. later \in SUBSET Nat
        BY <1>1
      <3>2. \E x \in later : \A y \in later : x <= y
        BY <1>5, <3>1, Smallest
      <3> HIDE DEF later
      <3> QED BY <3>2 DEF Min
    <2>2. new = InsertAt(cut, c, e)
      BY <1>5 DEF WdStart
    <2>3. c \in 1 .. n /\ Now(list, c) > due /\ c - 1 \in 0 .. n /\ c \in 0 .. n /\ c \in Nat
      BY <1>1, <2>1
    <2>4. Now(list, c - 1) <= due
      <3>1. CASE c = 1
        BY <1>2, <3>1
      <3>2. CASE c # 1
        <4>1. c - 1 \in 1 .. n /\ ~(c <= c - 1)
          BY <1>1, <2>3, <3>2
        <4>2. c - 1 \notin later
          BY <2>1, <4>1
        <4> QED BY <1>1, <1>2, <2>3, <4>1, <4>2
      <3> QED BY <3>1, <3>2
    <2> HIDE DEF c, new, later
    <2>5. lag \in Nat /\ e \in E
      BY <1>2, <2>3, <2>4
    <2>6. list[c].lag - lag = Now(list, c) - due
      <3>1. Now(list, c) = Now(list, c - 1) + list[c].lag /\ list[c].lag \in Nat
        BY <1>1, <1>2, <2>3
      <3> QED BY <1>2, <2>3, <3>1
    <2>7. [wd |-> list[c].wd, lag |-> list[c].lag - lag] \in E
      BY <1>1, <1>2, <2>3, <2>6
    <2>8. cut = [list EXCEPT ![c] = [wd |-> list[c].wd, lag |-> list[c].lag - lag]]
      <3>1. [list[c] EXCEPT !.lag = @ - lag] = [wd |-> list[c].wd, lag |-> list[c].lag - lag]
        <4>1. list[c] = [wd |-> list[c].wd, lag |-> list[c].lag]
          BY <1>1, <2>3
        <4> HIDE DEF lag
        <4> QED BY <4>1
      <3> HIDE DEF lag
      <3> QED BY <3>1
    <2>9. /\ cut \in Seq(E) /\ Len(cut) = n
          /\ cut[c] = [wd |-> list[c].wd, lag |-> list[c].lag - lag]
          /\ \A k \in 1 .. n : k # c => cut[k] = list[k]
      <3> HIDE DEF cut, lag
      <3> QED BY <1>1, <2>3, <2>7, <2>8, ExceptSeq
    <2> HIDE DEF cut
    <2>10. c \in 1 .. Len(cut) + 1
      BY <1>1, <2>3, <2>9
    <2>11. /\ new \in Seq(E) /\ Len(new) = n + 1 /\ new[c] = e
           /\ \A k \in 1 .. c - 1 : new[k] = cut[k]
           /\ \A k \in c .. n : new[k + 1] = cut[k]
      <3> HIDE DEF e, E
      <3> DEFINE ins == InsertAt(cut, c, e)
      <3>1. /\ ins \in Seq(E) /\ Len(ins) = Len(cut) + 1 /\ ins[c] = e
            /\ \A k \in 1 .. c - 1 : ins[k] = cut[k]
            /\ \A k \in c .. Len(cut) : ins[k + 1] = cut[k]
        <4>1. cut \in Seq(E) /\ e \in E
          BY <2>5, <2>9
        <4> QED BY <2>10, <4>1, InsertAtFacts
      <3>2. new = ins /\ Len(cut) = n
        BY <2>2, <2>9
      <3> HIDE DEF ins
      <3> QED BY <3>1, <3>2
    <2>12. \A k \in 1 .. c - 1 : new[k] = list[k]
      <3>1. \A k \in 1 .. c - 1 : k \in 1 .. n /\ k # c
        BY <1>1, <2>3
      <3> QED BY <2>9, <2>11, <3>1
    <2>13. \A k \in c + 1 .. n : new[k + 1] = list[k]
      <3>1. \A k \in c + 1 .. n : k \in 1 .. n /\ k \in c .. n /\ k # c
        BY <1>1, <2>3
      <3> QED BY <2>9, <2>11, <3>1
    <2>14. new[c + 1].wd = list[c].wd /\ new[c + 1].lag = Now(list, c) - due
      <3>1. new[c + 1] = cut[c]
        BY <2>3, <2>11
      <3> HIDE DEF lag, due
      <3> QED BY <2>6, <2>9, <3>1
    <2>15. new[c].wd = t /\ new[c].lag = due - Now(list, c - 1)
      BY <2>11
    <2>16. c \in 1 .. n + 1
      BY <1>1, <2>3
    <2> HIDE DEF due, lag, e
    <2>17. /\ WdList(new) /\ Wds(new) = Wds(list) \cup {t}
           /\ Left(new, t) = due
           /\ \A w \in Wds(list) : Left(new, w) = Left(list, w)
      <3>1. Enters(list, t, due, new, c)
        BY <1>3, <2>11, <2>12, <2>13, <2>14, <2>15, <2>16 DEF Enters
      <3> QED BY <3>1, Inserted
    <2> QED BY <2>17 DEF new, due
  <1> QED BY <1>4, <1>5

\* The list new is list without entry c, whose lag the entry behind it inherits.
Leaves(list, t, new, c) ==
    /\ c \in 1 .. Len(list) /\ list[c].wd = t
    /\ new \in Seq([wd : Task, lag : Nat]) /\ Len(new) = Len(list) - 1
    /\ \A k \in 1 .. c - 1 : new[k] = list[k]
    /\ c < Len(list) => /\ new[c].wd = list[c + 1].wd
                        /\ new[c].lag = list[c + 1].lag + list[c].lag
    /\ \A k \in c + 1 .. Len(list) - 1 : new[k] = list[k + 1]

\* The others are due when they were.
LEMMA Removed ==
  ASSUME NEW list, NEW t, NEW new, NEW c, WdList(list), Leaves(list, t, new, c)
  PROVE  /\ WdList(new) /\ Wds(new) = Wds(list) \ {t}
         /\ \A w \in Wds(new) : Left(new, w) = Left(list, w)
  <1> USE DEF Leaves
  <1> DEFINE n == Len(list)
  <1>1. /\ n \in Nat /\ DOMAIN list = 1 .. n /\ c \in Nat /\ n >= 1
        /\ \A i \in 1 .. n : list[i].lag \in Nat
    BY WdListFacts
  <1>2. DOMAIN new = 1 .. n - 1 /\ Lags(new) /\ Lags(list)
    <2>1. \A i \in 1 .. Len(new) : new[i] \in [wd : Task, lag : Nat]
      BY ElementOfSeq
    <2> QED BY <1>1, <2>1, LenProperties DEF Lags
  <1>3. /\ Now(list, 0) = 0 /\ \A k \in 0 .. n : Now(list, k) \in Int
        /\ \A k \in 1 .. n : Now(list, k) = Now(list, k - 1) + list[k].lag
    BY <1>2, NowFacts DEF Lags
  <1>4. /\ Now(new, 0) = 0
        /\ \A k \in 1 .. n - 1 : Now(new, k) = Now(new, k - 1) + new[k].lag
    BY <1>2, NowFacts DEF Lags
  <1>5. \A k \in 0 .. c - 1 : Now(new, k) = Now(list, k)
    <2> DEFINE z == 0
               d == c - 1
    <2>1. Alike(list, z, new, z, d) /\ Now(new, z) = Now(list, z)
      BY <1>1, <1>3, <1>4 DEF Alike
    <2> HIDE DEF z, d, Leaves
    <2>2. \A k \in 0 .. d : Now(new, z + k) = Now(list, z + k)
      BY <1>2, <2>1, NowSame
    <2> QED BY <1>1, <2>2 DEF z, d
  <1>6. \A k \in c .. n - 1 : Now(new, k) = Now(list, k + 1)
    <2> SUFFICES ASSUME NEW q \in c .. n - 1 PROVE Now(new, q) = Now(list, q + 1)
      OBVIOUS
    <2>1. /\ c \in 1 .. n - 1 /\ c - 1 \in 0 .. c - 1 /\ c + 1 \in 1 .. n /\ (c + 1) - 1 = c
          /\ c \in 1 .. n /\ c - 1 \in 0 .. n /\ c < n
          /\ c + (q - c) = q /\ (c + 1) + (q - c) = q + 1 /\ q - c \in 0 .. n - 1 - c
      BY <1>1
    <2>2. Now(new, c) = Now(list, c + 1)
      <3>1. Now(new, c) = Now(list, c - 1) + (list[c + 1].lag + list[c].lag)
        BY <1>4, <1>5, <2>1
      <3>2. Now(list, c + 1) = (Now(list, c - 1) + list[c].lag) + list[c + 1].lag
        BY <1>3, <2>1
      <3>3. Now(list, c - 1) \in Int
        BY <1>3, <2>1
      <3>4. list[c].lag \in Nat /\ list[c + 1].lag \in Nat
        BY <1>1, <2>1, Zenon
      <3> HIDE DEF Leaves
      <3> QED BY <3>1, <3>2, <3>3, <3>4
    <2>3. Alike(list, c + 1, new, c, n - 1 - c)
      <3>1. \A k \in 1 .. n - 1 - c : list[(c + 1) + k].lag = new[c + k].lag
        <4> SUFFICES ASSUME NEW k \in 1 .. n - 1 - c PROVE list[(c + 1) + k].lag = new[c + k].lag
          OBVIOUS
        <4>1. c + k \in c + 1 .. n - 1 /\ (c + 1) + k = (c + k) + 1
          BY <1>1
        <4> QED BY <4>1
      <3>2. /\ c + 1 \in Nat /\ c \in Nat /\ n - 1 - c \in Nat
            /\ (c + 1) + (n - 1 - c) <= n /\ c + (n - 1 - c) <= Len(new)
        BY <1>1, <2>1
      <3> QED BY <3>1, <3>2 DEF Alike
    <2>4. \A k \in 0 .. n - 1 - c : Now(new, c + k) = Now(list, (c + 1) + k)
      <3> DEFINE z == c + 1
                 d == n - 1 - c
      <3>1. Alike(list, z, new, c, d) /\ Now(new, c) = Now(list, z)
        BY <2>2, <2>3
      <3> HIDE DEF z, d, Leaves
      <3>2. \A k \in 0 .. d : Now(new, c + k) = Now(list, z + k)
        BY <1>2, <3>1, NowSame
      <3> QED BY <3>2 DEF z, d
    <2> QED BY <2>1, <2>4
  <1>7. \A k \in c .. n - 1 : new[k].wd = list[k + 1].wd
    <2> SUFFICES ASSUME NEW k \in c .. n - 1 PROVE new[k].wd = list[k + 1].wd
      OBVIOUS
    <2>1. (k = c /\ c < n) \/ k \in c + 1 .. n - 1
      BY <1>1
    <2> QED BY <2>1
  <1>8. \A x \in 1 .. n - 1 : \/ x \in 1 .. n /\ x < c /\ new[x].wd = list[x].wd
                              \/ x + 1 \in 1 .. n /\ x >= c /\ new[x].wd = list[x + 1].wd
    <2> SUFFICES ASSUME NEW x \in 1 .. n - 1
                 PROVE  \/ x \in 1 .. n /\ x < c /\ new[x].wd = list[x].wd
                        \/ x + 1 \in 1 .. n /\ x >= c /\ new[x].wd = list[x + 1].wd
      OBVIOUS
    <2>1. x \in 1 .. n /\ x + 1 \in 1 .. n /\ (x < c => x \in 1 .. c - 1) /\ (x >= c => x \in c .. n - 1)
          /\ (x < c \/ x >= c)
      BY <1>1
    <2> QED BY <1>7, <2>1
  <1>9. \A i, j \in 1 .. n : list[i].wd = list[j].wd => i = j
    BY DEF WdList
  <1>10. WdList(new)
    <2>1. ASSUME NEW x \in 1 .. n - 1, NEW y \in 1 .. n - 1, new[x].wd = new[y].wd
          PROVE  x = y
      <3>1. x \in Int /\ y \in Int /\ c \in Int
        BY <1>1
      <3> HIDE DEF Leaves
      <3> QED BY <1>8, <1>9, <2>1, <3>1
    <2>2. ASSUME new # <<>> PROVE new[1].lag >= 1
      <3>1. n - 1 >= 1
        <4>1. Len(new) # 0
          BY <2>2, EmptySeq
        <4> QED BY <1>1, <4>1
      <3>2. list[1].lag >= 1
        <4>1. list # <<>>
          BY <1>1
        <4> QED BY <4>1 DEF WdList
      <3>3. CASE c = 1
        <4>1. list[2].lag \in Nat /\ list[1].lag \in Nat /\ new[1].lag = list[2].lag + list[1].lag
          BY <1>1, <3>1, <3>3
        <4> QED BY <3>2, <4>1
      <3>4. CASE c # 1
        <4>1. 1 \in 1 .. c - 1
          BY <1>1, <3>4
        <4> QED BY <3>2, <4>1
      <3> QED BY <3>3, <3>4
    <2> QED BY <2>1, <2>2 DEF WdList
  <1>11. \A x \in 1 .. n - 1 : new[x].wd \in Wds(new) /\ Left(new, new[x].wd) = Now(new, x)
    BY <1>10, LeftAt
  <1>12. \A x \in 1 .. n : list[x].wd \in Wds(list) /\ Left(list, list[x].wd) = Now(list, x)
    BY LeftAt
  <1>13. ASSUME NEW x \in 1 .. n - 1
         PROVE  /\ new[x].wd \in Wds(list) /\ new[x].wd # t
                /\ Left(new, new[x].wd) = Left(list, new[x].wd)
    <2>1. x \in Int /\ c \in Int /\ c \in 1 .. n /\ list[c].wd = t
      BY <1>1
    <2>2. CASE x \in 1 .. n /\ x < c /\ new[x].wd = list[x].wd
      <3>1. x \in 0 .. c - 1
        BY <2>1, <2>2
      <3>2. Now(new, x) = Now(list, x) /\ x # c
        BY <1>5, <2>1, <2>2, <3>1
      <3> HIDE DEF Leaves
      <3> QED BY <1>9, <1>11, <1>12, <2>1, <2>2, <3>2
    <2>3. CASE x + 1 \in 1 .. n /\ x >= c /\ new[x].wd = list[x + 1].wd
      <3>1. x \in c .. n - 1
        BY <2>1, <2>3
      <3>2. Now(new, x) = Now(list, x + 1) /\ x + 1 # c
        BY <1>6, <2>1, <2>3, <3>1
      <3> HIDE DEF Leaves
      <3> QED BY <1>9, <1>11, <1>12, <2>1, <2>3, <3>2
    <2> HIDE DEF Leaves
    <2> QED BY <1>8, <2>2, <2>3
  <1>14. \A w \in Wds(new) : \E x \in 1 .. n - 1 : w = new[x].wd
    BY <1>2 DEF Wds
  <1>15. \A w \in Wds(new) : w \in Wds(list) /\ w # t /\ Left(new, w) = Left(list, w)
    <2> HIDE DEF Leaves
    <2> QED BY <1>13, <1>14
  <1>16. \A w \in Wds(list) : w # t => w \in Wds(new)
    <2> SUFFICES ASSUME NEW x \in 1 .. n, list[x].wd # t PROVE list[x].wd \in Wds(new)
      BY <1>1 DEF Wds
    <2>1. CASE x < c
      <3>1. x \in 1 .. c - 1 /\ x \in 1 .. n - 1
        BY <1>1, <2>1
      <3> QED BY <1>11, <3>1
    <2>2. CASE x > c
      <3>1. x - 1 \in c .. n - 1 /\ x - 1 \in 1 .. n - 1 /\ (x - 1) + 1 = x
        BY <1>1, <2>2
      <3>2. new[x - 1].wd = list[x].wd
        BY <1>7, <3>1
      <3>3. new[x - 1].wd \in Wds(new)
        BY <1>11, <3>1
      <3> QED BY <3>2, <3>3
    <2>3. x # c
      OBVIOUS
    <2> QED BY <1>1, <2>1, <2>2, <2>3
  <1> HIDE DEF Leaves
  <1> QED BY <1>10, <1>15, <1>16

\* wd_cancel(): one watchdog less, if it was running at all.
LEMMA CancelFacts ==
  ASSUME NEW list, WdList(list), NEW t
  PROVE  /\ WdList(WdCancel(list, t))
         /\ Wds(WdCancel(list, t)) = Wds(list) \ {t}
         /\ \A w \in Wds(list) \ {t} : Left(WdCancel(list, t), w) = Left(list, w)
  <1>1. CASE t \notin Wds(list)
    BY <1>1 DEF WdCancel
  <1>2. CASE t \in Wds(list)
    <2> DEFINE n == Len(list)
               E == [wd : Task, lag : Nat]
               c == IndexOf(list, t)
               lent == [i \in DOMAIN list |->
                          IF i = c + 1 THEN [list[i] EXCEPT !.lag = @ + list[c].lag] ELSE list[i]]
               new == RemoveAt(lent, c)
    <2>1. /\ n \in Nat /\ DOMAIN list = 1 .. n /\ list \in Seq(E)
          /\ \A i \in 1 .. n : list[i].lag \in Nat /\ list[i].wd \in Task
          /\ \A i \in 1 .. n : list[i] = [wd |-> list[i].wd, lag |-> list[i].lag]
      BY WdListFacts DEF WdList
    <2>2. c \in 1 .. n /\ list[c].wd = t
      <3>1. \E k \in DOMAIN list : list[k].wd = t
        BY <1>2 DEF Wds
      <3> QED BY <2>1, <3>1 DEF IndexOf
    <2>3. new = WdCancel(list, t)
      BY <1>2 DEF WdCancel
    <2> HIDE DEF c
    <2>4. \A i \in 1 .. n : i # c + 1 => lent[i] = list[i]
      BY <2>1
    <2>5. c + 1 \in 1 .. n => lent[c + 1] = [wd |-> list[c + 1].wd, lag |-> list[c + 1].lag + list[c].lag]
      <3> SUFFICES ASSUME c + 1 \in 1 .. n
                   PROVE  lent[c + 1] = [wd |-> list[c + 1].wd, lag |-> list[c + 1].lag + list[c].lag]
        OBVIOUS
      <3>1. lent[c + 1] = [list[c + 1] EXCEPT !.lag = @ + list[c].lag]
        BY <2>1
      <3>2. list[c + 1] = [wd |-> list[c + 1].wd, lag |-> list[c + 1].lag]
        BY <2>1
      <3> HIDE DEF lent
      <3> QED BY <3>1, <3>2
    <2>6. lent \in Seq(E) /\ Len(lent) = n
      <3>1. DOMAIN lent = 1 .. n
        BY <2>1
      <3>2. \A i \in 1 .. n : lent[i] \in E
        <4> SUFFICES ASSUME NEW i \in 1 .. n PROVE lent[i] \in E
          OBVIOUS
        <4>1. CASE i = c + 1
          <5>1. list[i].wd \in Task /\ list[i].lag \in Nat /\ list[c].lag \in Nat
            BY <2>1, <2>2, Zenon
          <5>2. lent[i] = [wd |-> list[i].wd, lag |-> list[i].lag + list[c].lag]
            BY <2>5, <4>1
          <5> HIDE DEF lent
          <5> QED BY <5>1, <5>2
        <4>2. CASE i # c + 1
          <5>1. list[i] \in E
            BY <2>1, ElementOfSeq
          <5> QED BY <2>4, <4>2, <5>1
        <4> QED BY <4>1, <4>2
      <3>3. lent \in [1 .. n -> E]
        <4>1. lent = [i \in 1 .. n |-> lent[i]]
          BY <2>1
        <4> HIDE DEF lent, E
        <4> QED BY <3>2, <4>1
      <3> HIDE DEF lent, E
      <3> QED BY <2>1, <3>3
    <2>7. /\ new \in Seq(E) /\ Len(new) = n - 1
          /\ \A k \in 1 .. c - 1 : new[k] = lent[k]
          /\ \A k \in c .. n - 1 : new[k] = lent[k + 1]
      <3> HIDE DEF lent, E
      <3> QED BY <2>2, <2>6, RemoveAtFacts
    <2> HIDE DEF new, lent
    <2>8. Leaves(list, t, new, c)
      <3>1. \A k \in 1 .. c - 1 : new[k] = list[k]
        <4>1. \A k \in 1 .. c - 1 : k \in 1 .. n /\ k # c + 1
          BY <2>1, <2>2
        <4> QED BY <2>4, <2>7, <4>1
      <3>2. \A k \in c + 1 .. n - 1 : new[k] = list[k + 1]
        <4>1. \A k \in c + 1 .. n - 1 : k \in c .. n - 1 /\ k + 1 \in 1 .. n /\ k + 1 # c + 1
          BY <2>1, <2>2
        <4> QED BY <2>4, <2>7, <4>1
      <3>3. c < n => /\ new[c].wd = list[c + 1].wd
                     /\ new[c].lag = list[c + 1].lag + list[c].lag
        <4> SUFFICES ASSUME c < n
                     PROVE  /\ new[c].wd = list[c + 1].wd
                            /\ new[c].lag = list[c + 1].lag + list[c].lag
          OBVIOUS
        <4>1. c \in c .. n - 1 /\ c + 1 \in 1 .. n
          BY <2>1, <2>2
        <4>2. new[c] = [wd |-> list[c + 1].wd, lag |-> list[c + 1].lag + list[c].lag]
          BY <2>5, <2>7, <4>1
        <4> QED BY <4>2
      <3> QED BY <2>2, <2>7, <3>1, <3>2, <3>3 DEF Leaves
    <2>9. /\ WdList(new) /\ Wds(new) = Wds(list) \ {t}
          /\ \A w \in Wds(new) : Left(new, w) = Left(list, w)
      BY <2>8, Removed
    <2> QED BY <2>3, <2>9
  <1> QED BY <1>1, <1>2

\* Counting entries counts watchdogs.
LEMMA EntryCount ==
  ASSUME NEW list, WdList(list), NEW m \in 0 .. Len(list)
  PROVE  /\ IsFiniteSet({list[k].wd : k \in 1 .. m})
         /\ Cardinality({list[k].wd : k \in 1 .. m}) = m
  <1> DEFINE T == {list[k].wd : k \in 1 .. m}
             f == [k \in 1 .. m |-> list[k].wd]
  <1>1. m \in Nat /\ Len(list) \in Nat
    BY WdListFacts
  <1>2. \A i, j \in 1 .. m : f[i] = f[j] => i = j
    <2>1. \A i \in 1 .. m : i \in 1 .. Len(list)
      BY <1>1
    <2> QED BY <2>1 DEF WdList
  <1>3. f \in Bijection(1 .. m, T)
    BY <1>2 DEF Bijection, Injection, Surjection, IsInjective
  <1>4. ExistsBijection(1 .. m, T)
    BY <1>3 DEF ExistsBijection
  <1>5. IsFiniteSet(1 .. m) /\ Cardinality(1 .. m) = m
    BY <1>1, FS_Interval
  <1> QED BY <1>4, <1>5, FS_Bijection

\* The decrement of wd_timer() brings every expiry one tick nearer.
LEMMA TickedFacts ==
  ASSUME NEW list, WdList(list), list # <<>>
  PROVE  \A k \in 1 .. Len(list) : Now(Ticked(list), k) = Now(list, k) - 1
  <1> DEFINE n == Len(list)
             E == [wd : Task, lag : Nat]
             new == Ticked(list)
  <1>1. /\ n \in Nat /\ n >= 1 /\ list \in Seq(E) /\ 1 \in 1 .. n
        /\ \A i \in 1 .. n : list[i].lag \in Nat /\ list[i].wd \in Task
        /\ \A i \in 1 .. n : list[i] = [wd |-> list[i].wd, lag |-> list[i].lag]
    <2>1. n \in Nat /\ list \in Seq(E)
      BY WdListFacts DEF WdList
    <2>2. n # 0
      BY <2>1, EmptySeq
    <2> QED BY <2>1, <2>2, WdListFacts
  <1>2. new = [list EXCEPT ![1] = [wd |-> list[1].wd, lag |-> list[1].lag - 1]]
    <2>1. new = [list EXCEPT ![1] = [list[1] EXCEPT !.lag = @ - 1]]
      BY DEF Ticked
    <2>2. list[1] = [wd |-> list[1].wd, lag |-> list[1].lag]
      BY <1>1
    <2>3. [list[1] EXCEPT !.lag = @ - 1] = [wd |-> list[1].wd, lag |-> list[1].lag - 1]
      BY <2>2
    <2> QED BY <2>1, <2>3
  <1>3. [wd |-> list[1].wd, lag |-> list[1].lag - 1] \in E
    <2>1. list[1].lag >= 1
      BY DEF WdList
    <2> QED BY <1>1, <2>1
  <1> HIDE DEF new
  <1>4. /\ new \in Seq(E) /\ Len(new) = n
        /\ new[1] = [wd |-> list[1].wd, lag |-> list[1].lag - 1]
        /\ \A k \in 2 .. n : new[k] = list[k]
    <2> HIDE DEF E
    <2> QED BY <1>1, <1>2, <1>3, ExceptSeq
  <1>5. Lags(list) /\ Lags(new)
    <2>1. \A i \in 1 .. n : new[i] \in E
      BY <1>4, ElementOfSeq
    <2> QED BY <1>1, <1>4, <2>1 DEF Lags
  <1>6. Now(new, 1) = Now(list, 1) + (-1)
    <2>1. Now(list, 0) = 0 /\ Now(list, 1) = Now(list, 0) + list[1].lag
      BY <1>1, <1>5, NowFacts DEF Lags
    <2>2. Now(new, 0) = 0 /\ Now(new, 1) = Now(new, 0) + new[1].lag
      BY <1>1, <1>4, <1>5, NowFacts DEF Lags
    <2> QED BY <1>1, <1>4, <2>1, <2>2
  <1>7. Alike(list, 1, new, 1, n - 1)
    <2>1. \A k \in 1 .. n - 1 : list[1 + k].lag = new[1 + k].lag
      <3>1. \A k \in 1 .. n - 1 : 1 + k \in 2 .. n
        BY <1>1
      <3> QED BY <1>4, <3>1
    <2> QED BY <1>1, <1>4, <2>1 DEF Alike
  <1>8. \A k \in 0 .. n - 1 : Now(new, 1 + k) = Now(list, 1 + k) + (-1)
    <2> DEFINE z == 1
               d == n - 1
               b == -1
    <2>1. Alike(list, z, new, z, d) /\ Now(new, z) = Now(list, z) + b /\ b \in Int
      BY <1>6, <1>7
    <2> HIDE DEF z, d, b
    <2>2. \A k \in 0 .. d : Now(new, z + k) = Now(list, z + k) + b
      BY <1>5, <2>1, NowMoved
    <2> QED BY <2>2 DEF z, d, b
  <1>9. \A k \in 0 .. n : Now(list, k) \in Int
    BY <1>5, NowFacts DEF Lags
  <1> SUFFICES ASSUME NEW k \in 1 .. n PROVE Now(new, k) = Now(list, k) - 1
    BY DEF new
  <1>10. k - 1 \in 0 .. n - 1 /\ 1 + (k - 1) = k /\ k \in 0 .. n
    BY <1>1
  <1>11. Now(new, k) = Now(list, k) + (-1)
    BY <1>8, <1>10
  <1> QED BY <1>9, <1>10, <1>11

\* wd_timer(): those with no more than one tick left expire, the others have
\* one tick less.
LEMMA TimerFacts ==
  ASSUME NEW list, WdList(list)
  PROVE  /\ Expired(list) = {w \in Wds(list) : Left(list, w) <= 1}
         /\ WdList(WdTimer(list))
         /\ Wds(WdTimer(list)) = Wds(list) \ Expired(list)
         /\ \A w \in Wds(WdTimer(list)) : Left(WdTimer(list), w) = Left(list, w) - 1
  <1> DEFINE n == Len(list)
             E == [wd : Task, lag : Nat]
             new == WdTimer(list)
  <1>1. /\ n \in Nat /\ DOMAIN list = 1 .. n /\ list \in Seq(E)
        /\ \A i \in 1 .. n : list[i].lag \in Nat /\ list[i].wd \in Task
        /\ \A i \in 1 .. n : list[i] = [wd |-> list[i].wd, lag |-> list[i].lag]
    BY WdListFacts DEF WdList
  <1>0. n \in Nat
    BY <1>1
  <1>2. \A x \in 1 .. n : list[x].wd \in Wds(list) /\ Left(list, list[x].wd) = Now(list, x)
    BY LeftAt
  <1>3. CASE list = <<>>
    <2>1. n = 0 /\ DOMAIN list = {}
      BY <1>1, <1>3
    <2>2. Expired(list) = {} /\ Wds(list) = {}
      BY <2>1 DEF Expired, Wds
    <2>3. new = <<>>
      <3>1. Cardinality(Expired(list)) = n
        BY <2>1, <2>2, FS_EmptySet
      <3> QED BY <3>1 DEF WdTimer
    <2> QED BY <1>3, <2>2, <2>3
  <1>4. CASE list # <<>>
    <2>1. n >= 1
      <3>1. n # 0
        BY <1>1, <1>4, EmptySeq
      <3> QED BY <1>1, <3>1
    <2>2. \A k \in 1 .. n : Now(Ticked(list), k) = Now(list, k) - 1
      BY <1>4, TickedFacts
    <2>3. /\ \A k \in 0 .. n : Now(list, k) \in Nat
          /\ \A j, k \in 0 .. n : j <= k => Now(list, j) <= Now(list, k)
          /\ Now(list, 0) = 0
          /\ \A k \in 1 .. n : Now(list, k) = Now(list, k - 1) + list[k].lag
      BY <1>1, NowOrdered, NowFacts, WdListFacts
    <2>4. PICK m \in 0 .. n : /\ \A k \in 1 .. m : Now(list, k) <= 1
                              /\ \A k \in m + 1 .. n : Now(list, k) > 1
      <3> DEFINE G == {k \in Nat : k = n \/ (k < n /\ Now(list, k + 1) > 1)}
      <3>1. PICK m \in G : \A y \in G : m <= y
        <4>1. G \in SUBSET Nat /\ n \in G
          BY <1>1
        <4>2. G # {}
          BY <4>1
        <4> HIDE DEF G
        <4> QED BY <4>1, <4>2, Smallest
      <3>2. m \in 0 .. n
        BY <1>0
      <3>3. ASSUME NEW k \in 1 .. m PROVE Now(list, k) <= 1
        <4>1. k - 1 \in Nat /\ k - 1 < n /\ ~(m <= k - 1) /\ (k - 1) + 1 = k /\ k \in 0 .. n
          BY <1>0, <3>2
        <4>2. k - 1 \notin G
          BY <3>1, <4>1
        <4>3. ~(Now(list, k) > 1)
          BY <4>1, <4>2
        <4> QED BY <2>3, <4>1, <4>3
      <3>4. ASSUME NEW k \in m + 1 .. n PROVE Now(list, k) > 1
        <4>1. m < n /\ m + 1 \in 0 .. n /\ k \in 0 .. n /\ m + 1 <= k
          BY <1>0, <3>2
        <4>2. Now(list, m + 1) > 1
          <5>1. m # n
            BY <1>0, <3>2, <4>1
          <5> QED BY <5>1
        <4>3. Now(list, m + 1) <= Now(list, k) /\ Now(list, m + 1) \in Nat /\ Now(list, k) \in Nat
          BY <2>3, <4>1
        <4> HIDE DEF G
        <4> QED BY <4>2, <4>3
      <3> QED BY <3>2, <3>3, <3>4
    <2>5. \A k \in 1 .. n : k <= m <=> Now(list, k) <= 1
      <3> SUFFICES ASSUME NEW k \in 1 .. n PROVE k <= m <=> Now(list, k) <= 1
        OBVIOUS
      <3>1. (k <= m => k \in 1 .. m) /\ (~(k <= m) => k \in m + 1 .. n) /\ k \in 0 .. n
        BY <1>1
      <3>2. Now(list, k) \in Nat
        BY <2>3, <3>1
      <3> QED BY <2>4, <3>1, <3>2
    <2>6. {j \in DOMAIN list : \A i \in 1 .. j : Now(Ticked(list), i) <= 0} = 1 .. m
      <3>1. ASSUME NEW j \in 1 .. n
            PROVE  (\A i \in 1 .. j : Now(Ticked(list), i) <= 0) <=> j <= m
        <4>1. \A i \in 1 .. j : i \in 1 .. n
          BY <1>1
        <4>2. \A i \in 1 .. n : Now(Ticked(list), i) <= 0 <=> i <= m
          <5> SUFFICES ASSUME NEW i \in 1 .. n PROVE Now(Ticked(list), i) <= 0 <=> i <= m
            OBVIOUS
          <5>1. Now(list, i) \in Nat /\ Now(Ticked(list), i) = Now(list, i) - 1
            <6>1. i \in 0 .. n
              BY <1>1
            <6> QED BY <2>2, <2>3, <6>1
          <5>2. i <= m <=> Now(list, i) <= 1
            BY <2>5
          <5> QED BY <5>1, <5>2
        <4>3. j \in 1 .. j /\ \A i \in 1 .. j : j <= m => i <= m
          BY <1>1
        <4> QED BY <4>1, <4>2, <4>3
      <3>2. \A j : j \in 1 .. m <=> j \in 1 .. n /\ j <= m
        BY <1>1
      <3> QED BY <1>1, <3>1, <3>2
    <2>7. Expired(list) = {list[k].wd : k \in 1 .. m}
      BY <2>6 DEF Expired
    <2>8. Expired(list) = {w \in Wds(list) : Left(list, w) <= 1}
      <3>1. \A w \in Wds(list) : \E k \in 1 .. n : w = list[k].wd
        BY <1>1 DEF Wds
      <3>2. ASSUME NEW k \in 1 .. n
            PROVE  list[k].wd \in Expired(list) <=> Left(list, list[k].wd) <= 1
        <4>1. list[k].wd \in Expired(list) <=> k \in 1 .. m
          <5>1. \A i \in 1 .. m : i \in 1 .. n
            BY <1>1
          <5>2. \A i \in 1 .. m : list[i].wd = list[k].wd => i = k
            BY <5>1 DEF WdList
          <5> QED BY <2>7, <5>2
        <4>2. k \in 1 .. m <=> k <= m
          BY <1>1
        <4> QED BY <1>2, <2>5, <4>1, <4>2
      <3>3. \A w \in Expired(list) : w \in Wds(list)
        <4>1. \A i \in 1 .. m : i \in 1 .. n
          BY <1>1
        <4> QED BY <1>2, <2>7, <4>1
      <3> QED BY <3>1, <3>2, <3>3
    <2>9. Cardinality(Expired(list)) = m
      BY <2>7, EntryCount
    <2>10. CASE m = n
      <3>1. new = <<>>
        BY <2>9, <2>10 DEF WdTimer
      <3>2. WdList(new) /\ Wds(new) = {}
        BY <3>1 DEF WdList, Wds
      <3>3. Wds(list) \ Expired(list) = {}
        BY <1>1, <2>7, <2>10 DEF Wds
      <3> HIDE DEF new
      <3>4. new = WdTimer(list)
        BY DEF new
      <3> QED BY <2>8, <3>2, <3>3, <3>4
    <2>11. CASE m < n
      <3> DEFINE back == SubSeq(list, m + 1, n)
                 e == [wd |-> list[m + 1].wd, lag |-> Now(list, m + 1) - 1]
      <3>1. new = [back EXCEPT ![1].lag = Now(Ticked(list), m + 1)]
        <4>1. m # n
          BY <1>1, <2>11
        <4> QED BY <2>9, <4>1 DEF WdTimer
      <3>2. m + 1 \in 1 .. n /\ n - m \in Nat /\ n - m >= 1 /\ m + 1 \in m + 1 .. n /\ m + 1 \in 0 .. n /\ m \in Nat
        BY <1>1, <2>11
      <3>3. back \in Seq(E) /\ Len(back) = n - m /\ \A k \in 1 .. n - m : back[k] = list[m + k]
        <4>1. \A i \in m + 1 .. n : list[i] \in E
          <5>1. \A i \in m + 1 .. n : i \in 1 .. n
            BY <1>1
          <5> QED BY <1>1, <5>1, ElementOfSeq
        <4>2. /\ back \in Seq(E) /\ Len(back) = IF m + 1 <= n THEN n - (m + 1) + 1 ELSE 0
              /\ \A k \in 1 .. n - (m + 1) + 1 : back[k] = list[(m + 1) + k - 1]
          <5>1. m + 1 \in Int /\ n \in Int
            BY <1>1, <3>2
          <5> HIDE DEF E
          <5> QED BY <4>1, <5>1, SubSeqProperties
        <4>3. n - (m + 1) + 1 = n - m /\ m + 1 <= n /\ \A k \in 1 .. n - m : (m + 1) + k - 1 = m + k
          BY <1>1, <3>2
        <4> HIDE DEF back, E
        <4> QED BY <4>2, <4>3
      <3> HIDE DEF back, new
      <3>4. new = [back EXCEPT ![1] = e]
        <4>1. back[1] = [wd |-> list[m + 1].wd, lag |-> list[m + 1].lag]
          <5>1. 1 \in 1 .. n - m
            BY <3>2
          <5> QED BY <1>1, <3>2, <3>3, <5>1
        <4>2. [back[1] EXCEPT !.lag = Now(list, m + 1) - 1] = e
          BY <4>1
        <4>3. new = [back EXCEPT ![1] = [back[1] EXCEPT !.lag = Now(Ticked(list), m + 1)]]
          BY <3>1
        <4>4. Now(Ticked(list), m + 1) = Now(list, m + 1) - 1
          BY <2>2, <3>2
        <4> HIDE DEF e
        <4> QED BY <4>2, <4>3, <4>4
      <3>5. e \in E /\ e.lag >= 1
        <4>1. Now(list, m + 1) \in Nat /\ Now(list, m + 1) > 1
          BY <2>3, <2>4, <3>2
        <4> QED BY <1>1, <3>2, <4>1
      <3>6. /\ new \in Seq(E) /\ Len(new) = n - m /\ new[1] = e
            /\ \A k \in 1 .. n - m : k # 1 => new[k] = list[m + k]
        <4>1. 1 \in 1 .. Len(back)
          BY <3>2, <3>3
        <4> HIDE DEF e, E
        <4> QED BY <3>3, <3>4, <3>5, <4>1, ExceptSeq
      <3>7. \A k \in 1 .. n - m : new[k].wd = list[m + k].wd
        <4>1. new[1].wd = list[m + 1].wd
          BY <3>6
        <4> QED BY <3>2, <3>6, <4>1
      <3>8. WdList(new)
        <4>1. ASSUME NEW x \in 1 .. n - m, NEW y \in 1 .. n - m, new[x].wd = new[y].wd
              PROVE  x = y
          <5>1. m + x \in 1 .. n /\ m + y \in 1 .. n
            BY <1>1, <3>2
          <5>2. list[m + x].wd = list[m + y].wd
            BY <3>7, <4>1
          <5>3. m + x = m + y
            BY <5>1, <5>2 DEF WdList
          <5> QED BY <3>2, <5>3
        <4>2. new[1].lag >= 1
          BY <3>5, <3>6
        <4> QED BY <3>6, <4>1, <4>2 DEF WdList
      <3>9. Lags(list) /\ Lags(new)
        <4>1. \A i \in 1 .. n - m : new[i] \in E
          BY <3>6, ElementOfSeq
        <4> QED BY <1>1, <3>2, <3>6, <4>1 DEF Lags
      <3>10. Now(new, 1) = Now(list, m + 1) + (-1)
        <4>1. Now(new, 0) = 0 /\ Now(new, 1) = Now(new, 0) + new[1].lag
          <5>1. 1 \in 1 .. Len(new) /\ 1 - 1 = 0
            BY <3>2, <3>6
          <5> HIDE DEF e
          <5> QED BY <3>9, <5>1, NowFacts DEF Lags
        <4>2. new[1].lag = Now(list, m + 1) - 1 /\ Now(list, m + 1) \in Nat
          BY <2>3, <3>2, <3>6
        <4> HIDE DEF e
        <4> QED BY <4>1, <4>2
      <3>11. Alike(list, m + 1, new, 1, n - m - 1)
        <4>1. \A k \in 1 .. n - m - 1 : list[(m + 1) + k].lag = new[1 + k].lag
          <5> SUFFICES ASSUME NEW k \in 1 .. n - m - 1 PROVE list[(m + 1) + k].lag = new[1 + k].lag
            OBVIOUS
          <5>1. 1 + k \in 1 .. n - m /\ 1 + k # 1 /\ m + (1 + k) = (m + 1) + k
            BY <1>1, <3>2
          <5> QED BY <3>6, <5>1
        <4> QED BY <1>1, <3>2, <3>6, <4>1 DEF Alike
      <3>12. \A k \in 0 .. n - m - 1 : Now(new, 1 + k) = Now(list, (m + 1) + k) + (-1)
        <4> DEFINE y == m + 1
                   z == 1
                   d == n - m - 1
                   b == -1
        <4>1. Alike(list, y, new, z, d) /\ Now(new, z) = Now(list, y) + b /\ b \in Int
          BY <3>10, <3>11
        <4> HIDE DEF y, z, d, b
        <4>2. \A k \in 0 .. d : Now(new, z + k) = Now(list, y + k) + b
          BY <3>9, <4>1, NowMoved
        <4> QED BY <4>2 DEF y, z, d, b
      <3>13. ASSUME NEW k \in 1 .. n - m
             PROVE  /\ list[m + k].wd \in Wds(new)
                    /\ Left(new, list[m + k].wd) = Left(list, list[m + k].wd) - 1
        <4>1. /\ k - 1 \in 0 .. n - m - 1 /\ 1 + (k - 1) = k /\ (m + 1) + (k - 1) = m + k
              /\ m + k \in 1 .. n /\ m + k \in 0 .. n
          BY <1>1, <3>2
        <4>2. Now(new, k) = Now(list, m + k) + (-1) /\ Now(list, m + k) \in Nat
          BY <2>3, <3>12, <4>1
        <4>3. new[k].wd = list[m + k].wd /\ new[k].wd \in Wds(new) /\ Left(new, new[k].wd) = Now(new, k)
          BY <3>6, <3>7, <3>8, LeftAt
        <4>4. Left(list, list[m + k].wd) = Now(list, m + k)
          BY <1>2, <4>1
        <4> QED BY <4>2, <4>3, <4>4
      <3>14. \A w \in Wds(new) : \E k \in 1 .. n - m : w = list[m + k].wd
        <4>1. DOMAIN new = 1 .. n - m
          BY <3>6, LenProperties
        <4> QED BY <3>7, <4>1 DEF Wds
      <3>15. ASSUME NEW k \in 1 .. n
             PROVE  list[k].wd \in Expired(list) <=> k <= m
        <4>1. Left(list, list[k].wd) = Now(list, k) /\ list[k].wd \in Wds(list)
          BY <1>2
        <4> QED BY <2>5, <2>8, <4>1
      <3>16. \A w \in Wds(new) : w \in Wds(list) \ Expired(list)
        <4>1. \A k \in 1 .. n - m : m + k \in 1 .. n /\ ~(m + k <= m)
          BY <1>1, <3>2
        <4> QED BY <1>2, <3>14, <3>15, <4>1
      <3>17. \A w \in Wds(list) \ Expired(list) : w \in Wds(new)
        <4> SUFFICES ASSUME NEW k \in 1 .. n, list[k].wd \notin Expired(list)
                     PROVE  list[k].wd \in Wds(new)
          BY <1>1 DEF Wds
        <4>1. k - m \in 1 .. n - m /\ m + (k - m) = k
          BY <1>1, <3>2, <3>15
        <4> QED BY <3>13, <4>1
      <3>18. Wds(new) = Wds(list) \ Expired(list)
        BY <3>16, <3>17
      <3>19. \A w \in Wds(new) : Left(new, w) = Left(list, w) - 1
        BY <3>13, <3>14
      <3>20. new = WdTimer(list)
        BY DEF new
      <3> QED BY <2>8, <3>8, <3>18, <3>19, <3>20
    <2>12. m = n \/ m < n
      BY <1>0
    <2> QED BY <2>10, <2>11, <2>12, Zenon
  <1> QED BY <1>3, <1>4

-----------------------------------------------------------------------------
(***************************************************************************)
(* The inductive invariant.                                                *)
(***************************************************************************)

Pooled == {t \in Task : waitdog[t] = "pool"}

\* A watchdog is in the pool, or one call has it.
PoolKept == nfree + Cardinality(Pooled) = Prealloc

\* What the code of a call has come to, and what the caller will see.
InStep(t) ==
    /\ pc[t] = "idle" <=> ret[t] = "idle"
    /\ pc[t] \in {"enter", "wait"} <=> ret[t] = "busy"

\* A call that is over, or has not been made, has no time limit.
Over(t) == ret[t] # "busy" => limit[t] = Forever /\ waited[t] = 0

\* A call with a time limit, and one whose watchdog runs, has a watchdog; one
\* that has not begun to wait has not started it.
Owned(t) ==
    /\ pc[t] = "idle" => waitdog[t] = "none"
    /\ limit[t] # Forever => waitdog[t] # "none"
    /\ t \in Wds(active) => waitdog[t] # "none"
    /\ pc[t] \in {"idle", "enter"} => t \notin Wds(active)

\* A task that waits with a time limit has its watchdog running, for the rest of
\* the limit and the tick that had begun; one that waits without has none.
Due(t) ==
    pc[t] = "wait" =>
        /\ t \in Wds(active) <=> limit[t] # Forever
        /\ t \in Wds(active) => waited[t] + Left(active, t) = limit[t] + 1

Phase(t) == InStep(t) /\ Over(t) /\ Owned(t) /\ Due(t)

IInv ==
    /\ TypeOK
    /\ WdList(active)
    /\ WaitersCounted
    /\ PoolKept
    /\ \A t \in Task : Phase(t)

\* A step that leaves a task's part of the state alone leaves it in its phase.
LEMMA PhaseSame ==
  ASSUME NEW u \in Task, Phase(u), pc'[u] = pc[u], ret'[u] = ret[u], limit'[u] = limit[u],
         waited'[u] = waited[u], waitdog'[u] = waitdog[u],
         u \in Wds(active') <=> u \in Wds(active),
         u \in Wds(active) => Left(active', u) = Left(active, u)
  PROVE  Phase(u)'
  BY DEF Phase, InStep, Over, Owned, Due

\* The set of tasks that wait is finite, and so is the pool.
LEMMA Finite ==
  /\ IsFiniteSet(Blocked) /\ Cardinality(Blocked) \in Nat
  /\ Cardinality(Blocked) <= Cardinality(Task) /\ Cardinality(Task) \in Nat
  /\ IsFiniteSet(Pooled) /\ Cardinality(Pooled) \in Nat
  <1>1. Blocked \in SUBSET Task /\ Pooled \in SUBSET Task
    BY DEF Blocked, Pooled
  <1> QED BY <1>1, TaskAssumption, FS_Subset, FS_CardinalityType

\* The initial state has the invariant.
LEMMA InitInv ==
  ASSUME Init PROVE IInv
  <1>1. WdList(active) /\ Wds(active) = {}
    BY DEF Init, WdList, Wds
  <1>2. TypeOK
    <2>1. 0 \in -Cardinality(Task) .. MaxCount
      BY Finite, CountAssumption
    <2>2. active \in Seq([wd : Task, lag : Nat])
      BY DEF Init
    <2> QED BY <2>1, <2>2, PoolAssumption DEF Init, TypeOK
  <1>3. WaitersCounted
    BY DEF Init, WaitersCounted, Blocked, At
  <1>4. PoolKept
    <2>1. Pooled = {}
      BY DEF Init, Pooled
    <2> QED BY <2>1, FS_EmptySet, PoolAssumption DEF Init, PoolKept
  <1>5. \A t \in Task : Phase(t)
    BY <1>1 DEF Init, Phase, InStep, Over, Owned, Due
  <1> QED BY <1>1, <1>2, <1>3, <1>4, <1>5 DEF IInv

-----------------------------------------------------------------------------
(***************************************************************************)
(* The number of tasks that wait.                                          *)
(***************************************************************************)

\* While there is nobody to wake, or for as many as wait, the count is right.
LEMMA Counts ==
  ASSUME TypeOK, WaitersCounted
  PROVE  /\ semcount \in Int
         /\ semcount < 0 => Cardinality(Blocked) = -semcount
         /\ semcount >= 0 => Blocked = {}
         /\ Blocked # {} => semcount < 0
  BY CountAssumption, Finite DEF TypeOK, WaitersCounted

\* A task begins to wait.
LEMMA OneMore ==
  ASSUME TypeOK, WaitersCounted, NEW t \in Task, t \notin Blocked, semcount <= 0,
         Blocked' = Blocked \cup {t}, semcount' = semcount - 1
  PROVE  WaitersCounted' /\ semcount' \in -Cardinality(Task) .. MaxCount
  <1>1. Cardinality(Blocked') = Cardinality(Blocked) + 1
    BY Finite, FS_AddElement
  <1>2. Cardinality(Blocked) = -semcount
    <2>1. CASE semcount < 0
      BY <2>1, Counts
    <2>2. CASE semcount = 0
      BY <2>2, Counts, FS_EmptySet
    <2> QED BY <2>1, <2>2, Counts
  <1>3. Cardinality(Blocked') <= Cardinality(Task)
    <2>1. Blocked' \in SUBSET Task
      BY DEF Blocked
    <2> QED BY <2>1, TaskAssumption, FS_Subset
  <1> QED BY <1>1, <1>2, <1>3, Counts, Finite, CountAssumption DEF WaitersCounted

\* Tasks that wait are woken, and each is counted.
LEMMA SomeLess ==
  ASSUME TypeOK, WaitersCounted, NEW T \in SUBSET Blocked,
         Blocked' = Blocked \ T, semcount' = semcount + Cardinality(T)
  PROVE  /\ WaitersCounted' /\ semcount' \in -Cardinality(Task) .. MaxCount
         /\ T # {} => semcount < 0 /\ semcount' <= 0
         /\ T = {} => semcount' = semcount
  <1>1. IsFiniteSet(T) /\ Cardinality(T) \in Nat
    BY Finite, FS_Subset, FS_CardinalityType
  <1>2. Cardinality(Blocked') = Cardinality(Blocked) - Cardinality(T) /\ IsFiniteSet(Blocked')
    <2>1. Blocked \cap T = T
      OBVIOUS
    <2>2. /\ Cardinality(Blocked \ T) = Cardinality(Blocked) - Cardinality(Blocked \cap T)
          /\ IsFiniteSet(Blocked \ T)
      BY Finite, FS_Difference
    <2> QED BY <2>1, <2>2
  <1>3. CASE T = {}
    <2>1. Cardinality(T) = 0
      BY <1>3, FS_EmptySet
    <2>2. semcount' = semcount /\ Blocked' = Blocked
      BY <1>3, <2>1, Counts
    <2> QED BY <1>3, <2>2 DEF WaitersCounted, TypeOK
  <1>4. CASE T # {}
    <2>1. semcount < 0 /\ Cardinality(Blocked) = -semcount
      BY <1>4, Counts
    <2>2. semcount' = -Cardinality(Blocked') /\ Cardinality(Blocked') \in Nat
      BY <1>1, <1>2, <2>1, Counts, FS_CardinalityType
    <2>3. Cardinality(Blocked') = 0 => Blocked' = {}
      BY <1>2, FS_EmptySet
    <2>4. WaitersCounted'
      BY <2>2, <2>3 DEF WaitersCounted
    <2>5. Cardinality(Blocked') <= Cardinality(Task)
      BY <1>1, <1>2, Finite
    <2> QED BY <1>4, <2>1, <2>2, <2>4, <2>5, Finite, CountAssumption
  <1> QED BY <1>3, <1>4

-----------------------------------------------------------------------------
(***************************************************************************)
(* Every step keeps the invariant.                                         *)
(***************************************************************************)

\* sem_wait() is called.
LEMMA SemWaitInv ==
  ASSUME IInv, NEW t \in Task, SemWait(t) PROVE IInv'
  <1> USE DEF IInv, SemWait, At, GoTo, call, pool
  <1>1. TypeOK'
    BY DEF TypeOK
  <1>2. WdList(active')
    OBVIOUS
  <1>3. WaitersCounted'
    <2>1. Blocked' = Blocked
      BY DEF Blocked, TypeOK
    <2> QED BY <2>1 DEF WaitersCounted
  <1>4. PoolKept'
    BY DEF PoolKept, Pooled
  <1>5. Phase(t)'
    BY DEF Phase, InStep, Over, Owned, Due, TypeOK
  <1>6. ASSUME NEW u \in Task, u # t PROVE Phase(u)'
    BY <1>6, PhaseSame DEF TypeOK
  <1> QED BY <1>1, <1>2, <1>3, <1>4, <1>5, <1>6

\* sem_tickwait() is called, and takes a watchdog or fails.
LEMMA SemTickWaitInv ==
  ASSUME IInv, NEW t \in Task, NEW d \in Delay, SemTickWait(t, d) PROVE IInv'
  <1> USE DEF IInv, SemTickWait, At, GoTo, pool
  <1>1. /\ pc[t] = "idle" /\ waitdog[t] = "none" /\ limit[t] = Forever /\ waited[t] = 0
        /\ t \notin Wds(active) /\ d # Forever
    BY DelayAssumption DEF Phase, InStep, Over, Owned
  <1>2. TypeOK'
    <2>1. nfree' \in 0 .. Prealloc
      BY PoolAssumption DEF TypeOK
    <2>2. waitdog' \in [Task -> {"none", "pool", "heap"}]
      BY DEF TypeOK
    <2>3. limit' \in [Task -> Delay \cup {Forever}]
      BY DEF TypeOK
    <2>4. /\ pc' \in [Task -> {"idle", "enter", "wait", "ready", "return"}]
          /\ ret' \in [Task -> {"idle", "busy", "ok", "failed", "timedout"}]
      BY DEF TypeOK
    <2>5. semcount' = semcount /\ waited' = waited /\ active' = active
      OBVIOUS
    <2> HIDE DEF SemTickWait
    <2> QED BY <2>1, <2>2, <2>3, <2>4, <2>5 DEF TypeOK
  <1>3. WdList(active')
    OBVIOUS
  <1>4. WaitersCounted'
    <2>1. Blocked' = Blocked
      BY <1>1 DEF Blocked, TypeOK
    <2> QED BY <2>1 DEF WaitersCounted
  <1>5. PoolKept'
    <2>1. CASE waitdog' = [waitdog EXCEPT ![t] = "pool"] /\ nfree' = nfree - 1
      <3>1. Pooled' = Pooled \cup {t} /\ t \notin Pooled
        BY <1>1, <2>1 DEF Pooled, TypeOK
      <3>2. Cardinality(Pooled') = Cardinality(Pooled) + 1
        BY <3>1, Finite, FS_AddElement
      <3>3. nfree \in Int /\ Prealloc \in Int
        BY PoolAssumption DEF TypeOK
      <3>4. nfree + Cardinality(Pooled) = Prealloc
        BY DEF PoolKept
      <3>5. nfree' + Cardinality(Pooled') = Prealloc
        <4> HIDE DEF IInv, SemTickWait
        <4> QED BY <2>1, <3>2, <3>3, <3>4, Finite
      <3> QED BY <3>5 DEF PoolKept
    <2>2. CASE waitdog' = [waitdog EXCEPT ![t] = "heap"] /\ nfree' = nfree
      <3>1. Pooled' = Pooled
        BY <1>1, <2>2 DEF Pooled, TypeOK
      <3> QED BY <2>2, <3>1 DEF PoolKept
    <2>3. CASE waitdog' = waitdog /\ nfree' = nfree
      BY <2>3 DEF PoolKept, Pooled
    <2>4. \/ waitdog' = [waitdog EXCEPT ![t] = "pool"] /\ nfree' = nfree - 1
          \/ waitdog' = [waitdog EXCEPT ![t] = "heap"] /\ nfree' = nfree
          \/ waitdog' = waitdog /\ nfree' = nfree
      BY Zenon
    <2> HIDE DEF SemTickWait
    <2> QED BY <2>1, <2>2, <2>3, <2>4
  <1>6. Phase(t)'
    BY <1>1 DEF Phase, InStep, Over, Owned, Due, TypeOK
  <1>7. ASSUME NEW u \in Task, u # t PROVE Phase(u)'
    <2>1. /\ pc'[u] = pc[u] /\ ret'[u] = ret[u] /\ limit'[u] = limit[u]
          /\ waited'[u] = waited[u] /\ waitdog'[u] = waitdog[u] /\ active' = active
      BY <1>7 DEF TypeOK
    <2> QED BY <2>1, PhaseSame
  <1> QED BY <1>2, <1>3, <1>4, <1>5, <1>6, <1>7

\* A post is taken at once.
LEMMA TakenInv ==
  ASSUME IInv, NEW t \in Task, Taken(t) PROVE IInv'
  <1> USE DEF IInv, Taken, Ends, At, GoTo, pool
  <1>1. TypeOK'
    <2>1. semcount' \in -Cardinality(Task) .. MaxCount
      BY Finite, CountAssumption DEF TypeOK
    <2> QED BY <2>1 DEF TypeOK
  <1>2. WdList(active')
    OBVIOUS
  <1>3. WaitersCounted'
    <2>1. Blocked' = Blocked
      BY DEF Blocked, TypeOK
    <2>2. Blocked = {} /\ semcount' >= 0
      BY Counts
    <2> QED BY <1>1, <2>1, <2>2, Finite, CountAssumption DEF WaitersCounted, TypeOK
  <1>4. PoolKept'
    BY DEF PoolKept, Pooled
  <1>5. Phase(t)'
    BY DEF Phase, InStep, Over, Owned, Due, TypeOK
  <1>6. ASSUME NEW u \in Task, u # t PROVE Phase(u)'
    <2>1. /\ pc'[u] = pc[u] /\ ret'[u] = ret[u] /\ limit'[u] = limit[u]
          /\ waited'[u] = waited[u] /\ waitdog'[u] = waitdog[u] /\ active' = active
      BY <1>6 DEF TypeOK
    <2> QED BY <2>1, PhaseSame
  <1> QED BY <1>1, <1>2, <1>3, <1>4, <1>5, <1>6

\* There is no post and no time to wait for one.
LEMMA NotTakenInv ==
  ASSUME IInv, NEW t \in Task, NotTaken(t) PROVE IInv'
  <1> USE DEF IInv, NotTaken, Ends, At, GoTo, pool
  <1>1. TypeOK'
    BY DEF TypeOK
  <1>2. WdList(active')
    OBVIOUS
  <1>3. WaitersCounted'
    <2>1. Blocked' = Blocked
      BY DEF Blocked, TypeOK
    <2> QED BY <2>1 DEF WaitersCounted
  <1>4. PoolKept'
    BY DEF PoolKept, Pooled
  <1>5. Phase(t)'
    BY DEF Phase, InStep, Over, Owned, Due, TypeOK
  <1>6. ASSUME NEW u \in Task, u # t PROVE Phase(u)'
    <2>1. /\ pc'[u] = pc[u] /\ ret'[u] = ret[u] /\ limit'[u] = limit[u]
          /\ waited'[u] = waited[u] /\ waitdog'[u] = waitdog[u] /\ active' = active
      BY <1>6 DEF TypeOK
    <2> QED BY <2>1, PhaseSame
  <1> QED BY <1>1, <1>2, <1>3, <1>4, <1>5, <1>6

\* The watchdog is started, and the task waits.
LEMMA BlockInv ==
  ASSUME IInv, NEW t \in Task, Block(t) PROVE IInv'
  <1> USE DEF IInv, Block, At, GoTo, call, pool
  <1>1. pc[t] = "enter" /\ ret[t] = "busy" /\ t \notin Wds(active)
    BY DEF Phase, InStep, Owned
  <1>2. /\ WdList(active')
        /\ limit[t] = Forever => active' = active
        /\ limit[t] # Forever =>
              /\ Wds(active') = Wds(active) \cup {t}
              /\ waited[t] + Left(active', t) = limit[t] + 1
        /\ \A w \in Wds(active) : w \in Wds(active') /\ Left(active', w) = Left(active, w)
        /\ \A w \in Wds(active') : w \in Wds(active) \/ w = t
    <2>1. CASE limit[t] = Forever
      BY <2>1
    <2>2. CASE limit[t] # Forever
      <3> DEFINE d == limit[t] - waited[t]
      <3>0. limit[t] \in Nat /\ waited[t] \in Nat /\ waited[t] < limit[t]
        BY <2>2, DelayAssumption DEF TypeOK
      <3>1. d \in Nat /\ waited[t] + (d + 1) = limit[t] + 1
        <4> HIDE DEF IInv, Block
        <4> QED BY <3>0
      <3>2. active' = WdStart(active, t, d)
        BY <2>2
      <3> HIDE DEF d
      <3>3. /\ WdList(active')
            /\ Wds(active') = Wds(active) \cup {t}
            /\ Left(active', t) = d + 1
            /\ \A w \in Wds(active) : Left(active', w) = Left(active, w)
        BY <1>1, <3>1, <3>2, StartFacts
      <3> QED BY <2>2, <3>1, <3>3
    <2> QED BY <2>1, <2>2
  <1>3. WaitersCounted' /\ semcount' \in -Cardinality(Task) .. MaxCount
    <2>1. Blocked' = Blocked \cup {t} /\ t \notin Blocked
      BY DEF Blocked, TypeOK
    <2> QED BY <2>1, OneMore
  <1>4. TypeOK'
    BY <1>2, <1>3 DEF TypeOK, WdList
  <1>5. PoolKept'
    BY DEF PoolKept, Pooled
  <1>6. Phase(t)'
    <2>1. pc'[t] = "wait" /\ ret'[t] = ret[t] /\ limit'[t] = limit[t] /\ waited'[t] = waited[t]
          /\ waitdog'[t] = waitdog[t]
      BY DEF TypeOK
    <2>2. t \in Wds(active') <=> limit[t] # Forever
      BY <1>1, <1>2
    <2> QED BY <1>1, <1>2, <2>1, <2>2 DEF Phase, InStep, Over, Owned, Due
  <1>7. ASSUME NEW u \in Task, u # t PROVE Phase(u)'
    <2>1. /\ pc'[u] = pc[u] /\ ret'[u] = ret[u] /\ limit'[u] = limit[u]
          /\ waited'[u] = waited[u] /\ waitdog'[u] = waitdog[u]
      BY <1>7 DEF TypeOK
    <2>2. /\ u \in Wds(active') <=> u \in Wds(active)
          /\ u \in Wds(active) => Left(active', u) = Left(active, u)
      BY <1>2, <1>7
    <2> QED BY <2>1, <2>2, PhaseSame
  <1> QED BY <1>2, <1>3, <1>4, <1>5, <1>6, <1>7

\* The task runs again; after a success the watchdog is cancelled.
LEMMA ResumeInv ==
  ASSUME IInv, NEW t \in Task, Resume(t) PROVE IInv'
  <1> USE DEF IInv, Resume, At, GoTo, call, pool
  <1>1. /\ WdList(active')
        /\ \A w \in Wds(active') : w \in Wds(active)
        /\ \A w \in Wds(active) \ {t} : w \in Wds(active') /\ Left(active', w) = Left(active, w)
    <2>1. CASE active' = active
      BY <2>1
    <2>2. CASE active' = WdCancel(active, t)
      BY <2>2, CancelFacts
    <2> QED BY <2>1, <2>2
  <1>2. TypeOK'
    BY <1>1 DEF TypeOK, WdList
  <1>3. WaitersCounted'
    <2>1. Blocked' = Blocked
      BY DEF Blocked, TypeOK
    <2> QED BY <2>1 DEF WaitersCounted
  <1>4. PoolKept'
    BY DEF PoolKept, Pooled
  <1>5. Phase(t)'
    BY <1>1 DEF Phase, InStep, Over, Owned, Due, TypeOK
  <1>6. ASSUME NEW u \in Task, u # t PROVE Phase(u)'
    <2>1. /\ pc'[u] = pc[u] /\ ret'[u] = ret[u] /\ limit'[u] = limit[u]
          /\ waited'[u] = waited[u] /\ waitdog'[u] = waitdog[u]
      BY <1>6 DEF TypeOK
    <2>2. /\ u \in Wds(active') <=> u \in Wds(active)
          /\ u \in Wds(active) => Left(active', u) = Left(active, u)
      BY <1>1, <1>6
    <2> QED BY <2>1, <2>2, PhaseSame
  <1> QED BY <1>1, <1>2, <1>3, <1>4, <1>5, <1>6

\* The call returns: its watchdog is cancelled and goes back to where it is from.
LEMMA ReturnInv ==
  ASSUME IInv, NEW t \in Task, Return(t) PROVE IInv'
  <1> USE DEF IInv, Return, Ends, At, GoTo
  <1>1. /\ WdList(active')
        /\ Wds(active') = Wds(active) \ {t}
        /\ \A w \in Wds(active) \ {t} : Left(active', w) = Left(active, w)
    BY CancelFacts
  <1>2. PoolKept' /\ nfree' \in 0 .. Prealloc
    <2>1. nfree \in Int /\ Prealloc \in Int /\ nfree + Cardinality(Pooled) = Prealloc /\ nfree >= 0
      BY PoolAssumption DEF TypeOK, PoolKept
    <2>2. Pooled' = Pooled \ {t}
      BY DEF Pooled, TypeOK
    <2>3. Cardinality(Pooled') = IF t \in Pooled THEN Cardinality(Pooled) - 1 ELSE Cardinality(Pooled)
      BY <2>2, Finite, FS_RemoveElement
    <2>4. Cardinality(Pooled') \in Nat
      BY <2>2, Finite, FS_RemoveElement, FS_CardinalityType
    <2>5. nfree' = IF t \in Pooled THEN nfree + 1 ELSE nfree
      BY DEF Pooled
    <2>6. nfree' + Cardinality(Pooled') = Prealloc
      <3> HIDE DEF IInv, Return
      <3> QED BY <2>1, <2>3, <2>5, Finite
    <2> HIDE DEF IInv, Return
    <2> QED BY <2>1, <2>4, <2>5, <2>6 DEF PoolKept
  <1>3. TypeOK'
    <2>1. active' \in Seq([wd : Task, lag : Nat])
      BY <1>1 DEF WdList
    <2>2. /\ waitdog' \in [Task -> {"none", "pool", "heap"}]
          /\ limit' \in [Task -> Delay \cup {Forever}]
          /\ waited' \in [Task -> Nat]
      BY DEF TypeOK
    <2>3. /\ pc' \in [Task -> {"idle", "enter", "wait", "ready", "return"}]
          /\ ret' \in [Task -> {"idle", "busy", "ok", "failed", "timedout"}]
      BY DEF TypeOK
    <2>4. semcount' = semcount
      OBVIOUS
    <2> HIDE DEF Return
    <2> QED BY <1>2, <2>1, <2>2, <2>3, <2>4 DEF TypeOK
  <1>4. WaitersCounted'
    <2>1. Blocked' = Blocked
      BY DEF Blocked, TypeOK
    <2> QED BY <2>1 DEF WaitersCounted
  <1>5. Phase(t)'
    <2>1. /\ pc'[t] = "idle" /\ ret'[t] = "idle" /\ limit'[t] = Forever /\ waited'[t] = 0
          /\ waitdog'[t] = "none"
      BY DEF TypeOK
    <2>2. t \notin Wds(active')
      BY <1>1
    <2> QED BY <2>1, <2>2 DEF Phase, InStep, Over, Owned, Due
  <1>6. ASSUME NEW u \in Task, u # t PROVE Phase(u)'
    <2>1. /\ pc'[u] = pc[u] /\ ret'[u] = ret[u] /\ limit'[u] = limit[u]
          /\ waited'[u] = waited[u] /\ waitdog'[u] = waitdog[u]
      BY <1>6 DEF TypeOK
    <2>2. /\ u \in Wds(active') <=> u \in Wds(active)
          /\ u \in Wds(active) => Left(active', u) = Left(active, u)
      BY <1>1, <1>6
    <2> QED BY <2>1, <2>2, PhaseSame
  <1> QED BY <1>1, <1>2, <1>3, <1>4, <1>5, <1>6

\* A task that waits is woken by a post or a signal; its watchdog runs on.
LEMMA WokenInv ==
  ASSUME IInv, NEW t \in Task, NEW r \in {"ok", "failed"},
         At(t, "wait"), GoTo(t, "ready"), Ends(t, r), semcount' = semcount + 1,
         UNCHANGED <<active, pool>>
  PROVE  IInv' /\ semcount < 0 /\ semcount' <= 0
  <1> USE DEF IInv, Ends, At, GoTo, pool
  <1>1. WdList(active')
    OBVIOUS
  <1>2. /\ WaitersCounted' /\ semcount' \in -Cardinality(Task) .. MaxCount
        /\ semcount < 0 /\ semcount' <= 0
    <2>1. Blocked' = Blocked \ {t} /\ {t} \in SUBSET Blocked /\ {t} # {}
      BY DEF Blocked, TypeOK
    <2>2. Cardinality({t}) = 1
      BY FS_Singleton
    <2> QED BY <2>1, <2>2, SomeLess
  <1>3. TypeOK'
    BY <1>2 DEF TypeOK
  <1>4. PoolKept'
    BY DEF PoolKept, Pooled
  <1>5. Phase(t)'
    BY DEF Phase, InStep, Over, Owned, Due, TypeOK
  <1>6. ASSUME NEW u \in Task, u # t PROVE Phase(u)'
    <2>1. /\ pc'[u] = pc[u] /\ ret'[u] = ret[u] /\ limit'[u] = limit[u]
          /\ waited'[u] = waited[u] /\ waitdog'[u] = waitdog[u] /\ active' = active
      BY <1>6 DEF TypeOK
    <2> QED BY <2>1, PhaseSame
  <1> QED BY <1>1, <1>2, <1>3, <1>4, <1>5, <1>6

\* sem_post() wakes a task that waits, if there is one.
LEMMA PostInv ==
  ASSUME IInv, Post PROVE IInv'
  <1>1. CASE semcount < 0
    <2>1. PICK t \in Blocked : GoTo(t, "ready") /\ Ends(t, "ok")
      BY <1>1 DEF Post
    <2>2. t \in Task /\ At(t, "wait")
      BY <2>1 DEF Blocked
    <2> QED BY <2>1, <2>2, WokenInv DEF Post
  <1>2. CASE ~(semcount < 0)
    <2> USE DEF Post, IInv, call, pool
    <2>1. TypeOK'
      <3>1. semcount' \in -Cardinality(Task) .. MaxCount
        BY <1>2, Finite, CountAssumption DEF TypeOK
      <3> QED BY <1>2, <3>1 DEF TypeOK
    <2>2. WaitersCounted'
      <3>1. Blocked' = Blocked
        BY <1>2 DEF Blocked, At
      <3>2. Blocked = {} /\ ~(semcount' < 0)
        BY <1>2, Counts
      <3> QED BY <3>1, <3>2 DEF WaitersCounted
    <2>3. PoolKept'
      BY DEF PoolKept, Pooled
    <2>4. ASSUME NEW u \in Task PROVE Phase(u)'
      BY <1>2, PhaseSame
    <2> QED BY <2>1, <2>2, <2>3, <2>4
  <1> QED BY <1>1, <1>2

\* A signal wakes a task that waits.
LEMMA SignalInv ==
  ASSUME IInv, NEW t \in Task, Signal(t) PROVE IInv'
  BY WokenInv DEF Signal

\* A task whose watchdog expires while it waits has waited for all of its limit.
LEMMA TimedOutFacts ==
  ASSUME IInv, NEW t \in TimedOut
  PROVE  /\ t \in Task /\ pc[t] = "wait" /\ ret[t] = "busy" /\ limit[t] # Forever
         /\ waited[t] >= limit[t]
  <1> USE DEF IInv
  <1>1. t \in Task /\ pc[t] = "wait" /\ t \in Wds(active) /\ Left(active, t) <= 1
    BY TimerFacts DEF TimedOut, Blocked, At
  <1>2. ret[t] = "busy" /\ limit[t] # Forever /\ waited[t] + Left(active, t) = limit[t] + 1
    BY <1>1 DEF Phase, InStep, Due
  <1>3. limit[t] \in Nat /\ waited[t] \in Nat
    BY <1>1, <1>2, DelayAssumption DEF TypeOK
  <1>4. Left(active, t) \in Nat
    <2>1. PICK k \in DOMAIN active : active[k].wd = t
      BY <1>1 DEF Wds
    <2>2. k \in 1 .. Len(active) /\ k \in 0 .. Len(active)
      BY WdListFacts
    <2>3. Left(active, t) = Now(active, k)
      BY <2>1, <2>2, LeftAt
    <2> QED BY <2>2, <2>3, NowOrdered
  <1> HIDE DEF IInv
  <1> QED BY <1>1, <1>2, <1>3, <1>4

\* The clock interrupt.
LEMMA TickInv ==
  ASSUME IInv, Tick PROVE IInv'
  <1> USE DEF IInv, Tick, pool
  <1>1. /\ WdList(active')
        /\ Wds(active') = Wds(active) \ Expired(active)
        /\ \A w \in Wds(active') : Left(active', w) = Left(active, w) - 1
        /\ Expired(active) = {w \in Wds(active) : Left(active, w) <= 1}
    BY TimerFacts
  <1>2. WaitersCounted' /\ semcount' \in -Cardinality(Task) .. MaxCount
    <2>1. Blocked' = Blocked \ TimedOut /\ TimedOut \in SUBSET Blocked
      BY DEF Blocked, At, TimedOut
    <2> QED BY <2>1, SomeLess
  <1>3. TypeOK'
    <2>1. active' \in Seq([wd : Task, lag : Nat])
      BY <1>1 DEF WdList
    <2>2. waited' \in [Task -> Nat]
      BY DEF TypeOK
    <2>3. limit' \in [Task -> Delay \cup {Forever}]
      BY DEF TypeOK
    <2>4. /\ pc' \in [Task -> {"idle", "enter", "wait", "ready", "return"}]
          /\ ret' \in [Task -> {"idle", "busy", "ok", "failed", "timedout"}]
      BY DEF TypeOK
    <2>5. UNCHANGED <<waitdog, nfree>>
      OBVIOUS
    <2> HIDE DEF Tick
    <2> QED BY <1>2, <2>1, <2>2, <2>3, <2>4, <2>5 DEF TypeOK
  <1>4. PoolKept'
    BY DEF PoolKept, Pooled
  <1>5. ASSUME NEW u \in Task PROVE Phase(u)'
    <2>1. CASE u \in TimedOut
      <3>1. pc[u] = "wait" /\ waited[u] >= limit[u] /\ limit[u] # Forever
        BY <2>1, TimedOutFacts
      <3>2. limit[u] \in Nat /\ waited[u] \in Nat
        BY <3>1, DelayAssumption DEF TypeOK
      <3>3. waited'[u] = 0
        <4>1. waited'[u] = CASE u \in TimedOut -> 0
                             [] limit[u] # Forever /\ waited[u] < limit[u] -> waited[u] + 1
                             [] OTHER -> waited[u]
          OBVIOUS
        <4>2. ~(waited[u] < limit[u])
          BY <3>1, <3>2
        <4> HIDE DEF Tick, IInv
        <4> QED BY <2>1, <4>1, <4>2
      <3>4. /\ pc'[u] = "ready" /\ ret'[u] = "timedout" /\ limit'[u] = Forever /\ waited'[u] = 0
            /\ waitdog'[u] = waitdog[u] /\ pc[u] = "wait"
        BY <2>1, <3>1, <3>3
      <3>5. u \in Wds(active') => u \in Wds(active)
        BY <1>1
      <3> HIDE DEF Tick
      <3> QED BY <3>4, <3>5 DEF Phase, InStep, Over, Owned, Due
    <2>2. CASE u \notin TimedOut
      <3>1. /\ pc'[u] = pc[u] /\ ret'[u] = ret[u] /\ limit'[u] = limit[u] /\ waitdog'[u] = waitdog[u]
        BY <2>2
      <3>2. waited'[u] = IF limit[u] # Forever /\ waited[u] < limit[u] THEN waited[u] + 1 ELSE waited[u]
        <4>1. waited'[u] = CASE u \in TimedOut -> 0
                             [] limit[u] # Forever /\ waited[u] < limit[u] -> waited[u] + 1
                             [] OTHER -> waited[u]
          OBVIOUS
        <4> HIDE DEF Tick, IInv
        <4>2. CASE limit[u] # Forever /\ waited[u] < limit[u]
          BY <2>2, <4>1, <4>2
        <4>3. CASE ~(limit[u] # Forever /\ waited[u] < limit[u])
          BY <2>2, <4>1, <4>3
        <4> QED BY <4>2, <4>3
      <3>3. u \in Wds(active') => u \in Wds(active)
        BY <1>1
      <3>4. InStep(u)' /\ Over(u)' /\ Owned(u)'
        <4> HIDE DEF Tick
        <4> QED BY <3>1, <3>2, <3>3 DEF Phase, InStep, Over, Owned
      <3>5. ASSUME pc[u] = "wait"
            PROVE  /\ u \in Wds(active') <=> limit[u] # Forever
                   /\ u \in Wds(active') => waited'[u] + Left(active', u) = limit[u] + 1
        <4>1. u \in Wds(active) <=> limit[u] # Forever
          BY <3>5 DEF Phase, Due
        <4>2. CASE u \notin Wds(active)
          BY <3>3, <4>1, <4>2
        <4>3. CASE u \in Wds(active)
          <5>1. u \notin Expired(active)
            BY <2>2, <3>5 DEF TimedOut, Blocked, At
          <5>2. u \in Wds(active') /\ ~(Left(active, u) <= 1) /\ Left(active', u) = Left(active, u) - 1
            BY <1>1, <4>3, <5>1
          <5>3. waited[u] + Left(active, u) = limit[u] + 1
            BY <3>5, <4>3 DEF Phase, Due
          <5>4. limit[u] \in Nat /\ waited[u] \in Nat
            BY <4>1, <4>3, DelayAssumption DEF TypeOK
          <5>5. Left(active, u) \in Nat
            <6>1. PICK k \in DOMAIN active : active[k].wd = u
              BY <4>3 DEF Wds
            <6>2. k \in 1 .. Len(active) /\ k \in 0 .. Len(active)
              BY WdListFacts
            <6>3. Left(active, u) = Now(active, k)
              BY <6>1, <6>2, LeftAt
            <6> QED BY <6>2, <6>3, NowOrdered
          <5> HIDE DEF IInv, Tick
          <5>6. waited[u] < limit[u]
            BY <5>2, <5>3, <5>4, <5>5
          <5>7. waited'[u] = waited[u] + 1
            BY <3>2, <4>1, <4>3, <5>6
          <5>8. waited'[u] + Left(active', u) = limit[u] + 1
            BY <5>2, <5>3, <5>4, <5>5, <5>7
          <5> QED BY <4>1, <4>3, <5>2, <5>8
        <4> QED BY <4>2, <4>3
      <3>6. Due(u)'
        <4> HIDE DEF Tick, IInv
        <4> QED BY <3>1, <3>5 DEF Due
      <3> QED BY <3>4, <3>6 DEF Phase
    <2> QED BY <2>1, <2>2
  <1> QED BY <1>1, <1>2, <1>3, <1>4, <1>5

-----------------------------------------------------------------------------
(***************************************************************************)
(* The theorems.                                                           *)
(***************************************************************************)

\* Every step, and every stutter, keeps the invariant.
LEMMA NextInv ==
  ASSUME IInv, [Next]_vars PROVE IInv'
  <1>1. CASE Next
    <2>1. ASSUME NEW t \in Task, Waits(t) PROVE IInv'
      BY <2>1, TakenInv, NotTakenInv, BlockInv, ResumeInv, ReturnInv DEF Waits
    <2> QED BY <1>1, <2>1, PostInv, TickInv, SemWaitInv, SemTickWaitInv, SignalInv DEF Next
  <1>2. CASE UNCHANGED vars
    <2> USE <1>2 DEF vars, call, pool
    <2>1. TypeOK'
      BY DEF IInv, TypeOK
    <2>2. WaitersCounted'
      BY DEF IInv, WaitersCounted, Blocked, At
    <2>3. PoolKept'
      BY DEF IInv, PoolKept, Pooled
    <2>4. ASSUME NEW u \in Task PROVE Phase(u)'
      BY PhaseSame DEF IInv
    <2> QED BY <2>1, <2>2, <2>3, <2>4 DEF IInv
  <1> QED BY <1>1, <1>2

\* The inductive invariant, for any tasks, limits and sizes of the pool.
THEOREM Invariance == Spec => []IInv
  BY InitInv, NextInv, PTL DEF Spec

\* Types; the count is never below the number of tasks or above the posts, and
\* g_wdnfree never exceeds CONFIG_PREALLOC_WDOGS.
THEOREM TypeCorrect == Spec => []TypeOK
  <1>1. IInv => TypeOK
    BY DEF IInv
  <1> QED BY <1>1, Invariance, PTL

\* A negative semcount is the number of tasks that wait, whatever posts,
\* time-outs and signals there are between a wake-up and a return.
THEOREM Waiters == Spec => []WaitersCounted
  <1>1. IInv => WaitersCounted
    BY DEF IInv
  <1> QED BY <1>1, Invariance, PTL

\* The watchdog of a task that waits with a limit is in g_wdactivelist, and the
\* lags up to it add up to the rest of the limit and the tick that had begun.
THEOREM DueOnTime == Spec => []OnTime
  <1>1. IInv => OnTime
    BY DEF IInv, OnTime, Phase, Due, Blocked, At, Left
  <1> QED BY <1>1, Invariance, PTL

\* No watchdog is in the list twice, every one that runs belongs to a call, and
\* none is lost from the pool.
THEOREM PoolComplete == Spec => []WatchdogsOwned
  <1>1. ASSUME IInv PROVE WatchdogsOwned
    <2>1. WdList(active)
      BY <1>1 DEF IInv
    <2>2. Len(active) \in Nat /\ DOMAIN active = 1 .. Len(active)
      BY <2>1, WdListFacts
    <2>3. Wds(active) = {active[k].wd : k \in 1 .. Len(active)}
      BY <2>2 DEF Wds
    <2>4. Len(active) = Cardinality(Wds(active))
      <3>1. Len(active) \in 0 .. Len(active)
        BY <2>2
      <3> QED BY <2>1, <2>3, <3>1, EntryCount
    <2>5. \A t \in Wds(active) : waitdog[t] # "none"
      <3>1. \A t \in Wds(active) : t \in Task
        BY <2>1, <2>3, WdListFacts
      <3> QED BY <1>1, <3>1 DEF IInv, Phase, Owned
    <2> QED BY <1>1, <2>4, <2>5 DEF IInv, WatchdogsOwned, PoolKept, Pooled
  <1> QED BY <1>1, Invariance, PTL

-----------------------------------------------------------------------------
(***************************************************************************)
(* The semaphore implements TimedSem.                                      *)
(***************************************************************************)

Count == IF semcount > 0 THEN semcount ELSE 0

\* A call of sem_wait() or sem_tickwait() is a call, or one that fails at once.
LEMMA CallStep ==
  ASSUME IInv, NEW t \in Task, SemWait(t) \/ \E d \in Delay : SemTickWait(t, d)
  PROVE  Sem!Next
  <1>1. /\ ret[t] = "idle" /\ limit[t] = Forever /\ waited[t] = 0
        /\ limit \in [Task -> Delay \cup {Forever}] /\ waited \in [Task -> Nat]
    BY DEF IInv, Phase, InStep, Over, SemWait, SemTickWait, At, TypeOK
  <1>2. CASE SemWait(t)
    <2>1. Sem!Call(t, Forever)
      BY <1>1, <1>2 DEF SemWait, call, Sem!Call
    <2> QED BY <2>1 DEF Sem!Next
  <1>3. ASSUME NEW d \in Delay, SemTickWait(t, d) PROVE Sem!Next
    <2>1. Sem!Call(t, d) \/ Sem!Fail(t)
      BY <1>1, <1>3 DEF SemTickWait, pool, Sem!Call, Sem!Fail, Sem!Ends
    <2> QED BY <2>1 DEF Sem!Next
  <1> QED BY <1>2, <1>3

\* A task's own steps take a post, fail, time out or return, or are internal.
LEMMA WaitsStep ==
  ASSUME IInv, NEW t \in Task, Waits(t)
  PROVE  Sem!Next \/ UNCHANGED Sem!vars
  <1>1. semcount \in Int
    BY CountAssumption, Finite DEF IInv, TypeOK
  <1>2. /\ pc[t] = "enter" => ret[t] = "busy"
        /\ pc[t] = "return" => ret[t] \notin {"idle", "busy"}
    BY DEF IInv, Phase, InStep
  <1>3. CASE Taken(t)
    <2>1. Sem!Take(t)
      BY <1>1, <1>2, <1>3 DEF Taken, At, Ends, Sem!Take, Sem!Busy, Sem!Ends
    <2> QED BY <2>1 DEF Sem!Next
  <1>4. CASE NotTaken(t)
    <2>1. CASE limit[t] = 0
      <3>1. Sem!Fail(t)
        BY <1>1, <1>2, <1>4, <2>1 DEF NotTaken, At, Ends, Sem!Fail, Sem!Busy, Sem!Ends
      <3> QED BY <3>1 DEF Sem!Next
    <2>2. CASE limit[t] # 0
      <3>1. Sem!TimeOut(t)
        BY <1>1, <1>2, <1>4, <2>2 DEF NotTaken, At, Ends, Sem!TimeOut, Sem!Overdue, Sem!Busy, Sem!Ends
      <3> QED BY <3>1 DEF Sem!Next
    <2> QED BY <2>1, <2>2
  <1>5. CASE Block(t)
    BY <1>1, <1>5 DEF Block, call, Sem!vars
  <1>6. CASE Resume(t)
    BY <1>6 DEF Resume, call, Sem!vars
  <1>7. CASE Return(t)
    <2>1. Sem!Return(t)
      BY <1>2, <1>7 DEF Return, At, Ends, Sem!Return, Sem!Ends
    <2> QED BY <2>1 DEF Sem!Next
  <1> QED BY <1>3, <1>4, <1>5, <1>6, <1>7 DEF Waits

\* A post is kept or handed over, a signal makes a wait fail.
LEMMA WakeStep ==
  ASSUME IInv, Post \/ \E t \in Task : Signal(t)
  PROVE  Sem!Next
  <1>1. semcount \in Int
    BY CountAssumption, Finite DEF IInv, TypeOK
  <1>2. \A t \in Task : pc[t] = "wait" => ret[t] = "busy"
    BY DEF IInv, Phase, InStep
  <1>3. ASSUME NEW t \in Task, Signal(t) PROVE Sem!Next
    <2>1. semcount < 0
      BY <1>3, Counts DEF IInv, Signal, Blocked
    <2>2. Sem!Fail(t)
      BY <1>1, <1>2, <1>3, <2>1 DEF Signal, At, Ends, Sem!Fail, Sem!Busy, Sem!Ends
    <2> QED BY <2>2 DEF Sem!Next
  <1>4. CASE Post /\ semcount < 0
    <2>1. PICK t \in Blocked : Ends(t, "ok")
      BY <1>4 DEF Post
    <2>2. Sem!HandOver(t) /\ t \in Task
      BY <1>1, <1>2, <1>4, <2>1 DEF Post, Blocked, At, Ends, Sem!HandOver, Sem!Busy, Sem!Ends
    <2> QED BY <2>2 DEF Sem!Next
  <1>5. CASE Post /\ ~(semcount < 0)
    <2>1. Sem!Post
      BY <1>1, <1>5 DEF Post, call, Sem!Post
    <2> QED BY <2>1 DEF Sem!Next
  <1> QED BY <1>3, <1>4, <1>5

\* The clock interrupt ends waits whose time is over, and no others.
LEMMA TickStep ==
  ASSUME IInv, Tick PROVE Sem!Next
  <1>1. TimedOut \in SUBSET {t \in Task : Sem!Overdue(t)}
    BY TimedOutFacts DEF Sem!Overdue, Sem!Busy
  <1>2. /\ TimedOut # {} => semcount < 0 /\ semcount' <= 0
        /\ TimedOut = {} => semcount' = semcount
    <2>1. Blocked' = Blocked \ TimedOut /\ TimedOut \in SUBSET Blocked
      BY DEF Tick, Blocked, At, TimedOut
    <2> QED BY <2>1, SomeLess DEF IInv, Tick
  <1>3. semcount \in Int
    BY CountAssumption, Finite DEF IInv, TypeOK
  <1>4. semcount' \in Int
    BY TickInv, CountAssumption, Finite DEF IInv, TypeOK
  <1>5. (TimedOut # {} => Count = 0) /\ Count' = Count
    BY <1>2, <1>3, <1>4 DEF Count
  <1>6. Sem!Tick
    <2> DEFINE T == TimedOut
    <2>1. T \in SUBSET {t \in Task : Sem!Overdue(t)}
      BY <1>1
    <2>2. T # {} => Count = 0
      BY <1>5
    <2>3. /\ ret' = [t \in Task |-> IF t \in T THEN "timedout" ELSE ret[t]]
          /\ limit' = [t \in Task |-> IF t \in T THEN Forever ELSE limit[t]]
          /\ waited' = [t \in Task |->
                           CASE t \in T -> 0
                             [] limit[t] # Forever /\ waited[t] < limit[t] -> waited[t] + 1
                             [] OTHER -> waited[t]]
      BY DEF Tick
    <2> HIDE DEF T
    <2> QED BY <1>5, <2>1, <2>2, <2>3, Zenon DEF Sem!Tick, Count
  <1> QED BY <1>6 DEF Sem!Next

\* sem_tickwait(), sem_wait() and sem_post() with the watchdogs behave like a
\* counting semaphore with time limits: no post is lost or taken twice, and a
\* wait that times out has waited for all of its limit, with no post to be had.
THEOREM Refinement == Spec => SemKept
  <1>1. Init => Sem!Init
    BY DEF Init, Sem!Init
  <1>2. IInv /\ [Next]_vars => [Sem!Next]_(Sem!vars)
    <2> SUFFICES ASSUME IInv, [Next]_vars PROVE Sem!Next \/ UNCHANGED Sem!vars
      OBVIOUS
    <2>1. CASE Next
      BY <2>1, CallStep, WaitsStep, WakeStep, TickStep DEF Next
    <2>2. CASE UNCHANGED vars
      BY <2>2 DEF vars, call, Sem!vars
    <2> QED BY <2>1, <2>2
  <1> QED BY <1>1, <1>2, Invariance, PTL DEF Spec, SemKept, Sem!Spec
=============================================================================
