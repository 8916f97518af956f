--------------------------- MODULE NutTimerProofs ---------------------------
(***************************************************************************)
(* For any timers, intervals and width of the tick counter, whatever       *)
(* threads and callbacks start and stop and whenever the interrupt comes:  *)
(* the differences in the list of os/timer.c add up to the time each timer *)
(* really has left, the list stays intact, and timers fire neither early   *)
(* nor out of order.                                                       *)
(*                                                                         *)
(* That the differences add up is inductive only together with the shape   *)
(* of the list while ProcessElapsed works on its first timer (TimerInv):   *)
(* that timer has no ticks left, so that whatever a callback puts in goes  *)
(* behind it, and taking it off shifts no other.                           *)
(***************************************************************************)
EXTENDS NutTimer, ListLemmas

-----------------------------------------------------------------------------
(* The differences of a list add up                                        *)

\* The differences in the order of the list.
Steps(s, left) == [i \in 1 .. Len(s) |-> left[s[i]]]

\* Timers of a list.
LEMMA TimersOf ==
    ASSUME NEW s \in Seq(Timers)
    PROVE  /\ Len(s) \in Nat /\ DOMAIN s = 1 .. Len(s)
           /\ \A i \in 1 .. Len(s) : s[i] \in Timers
  BY LenProperties, ElementOfSeq

\* Elapse is the function its definition describes: the partial sums exist.
LEMMA ElapseSums ==
    ASSUME NEW s \in Seq(Timers), NEW left \in [Timers -> Nat]
    PROVE  PartialSums(Elapse(s, left), Steps(s, left), Len(s))
  <1>. DEFINE n == Len(s)
              f == Steps(s, left)
              Sum(g) == [i \in 0 .. n |-> IF i = 0 THEN 0 ELSE g[i - 1] + left[s[i]]]
              e == CHOOSE g : g = Sum(g)
  <1>1. n \in Nat /\ \A i \in 1 .. n : f[i] = left[s[i]] /\ f[i] \in Int
    BY TimersOf DEF Steps
  <1>2. Elapse(s, left) = e
    BY DEF Elapse
  <1>. HIDE DEF n, f
  <1>3. PICK p : PartialSums(p, f, n)
    BY <1>1, PartialSumsExist
  <1>4. p = Sum(p)
    <2>1. \A i \in 0 .. n : p[i] = IF i = 0 THEN 0 ELSE p[i - 1] + left[s[i]]
      <3>1. SUFFICES ASSUME NEW i \in 0 .. n, i # 0
                     PROVE  p[i] = p[i - 1] + left[s[i]]
        BY <1>3 DEF PartialSums
      <3>2. i - 1 \in 0 .. (n - 1) /\ (i - 1) + 1 = i /\ i \in 1 .. n
        BY <1>1, <3>1
      <3>3. p[(i - 1) + 1] = p[i - 1] + f[(i - 1) + 1]
        BY <1>3, <3>2 DEF PartialSums
      <3> QED
        BY <1>1, <3>2, <3>3
    <2>2. p \in [0 .. n -> Int]
      BY <1>3 DEF PartialSums
    <2> QED
      BY <2>1, <2>2
  <1>. HIDE DEF Sum
  <1>5. e = Sum(e)
    BY <1>4
  <1>. HIDE DEF e
  <1>6. \A i \in 0 .. n : e[i] = IF i = 0 THEN 0 ELSE e[i - 1] + left[s[i]]
    BY <1>5 DEF Sum
  <1>. DEFINE T == {k \in 0 .. n : e[k] = p[k]}
  <1>7. 0 \in T
    BY <1>1, <1>3, <1>6 DEF PartialSums
  <1>8. ASSUME NEW k \in 0 .. (n - 1), k \in T
        PROVE  k + 1 \in T
    <2>1. k + 1 \in 0 .. n /\ k + 1 # 0 /\ (k + 1) - 1 = k /\ k + 1 \in 1 .. n
      BY <1>1
    <2>2. e[k + 1] = e[k] + left[s[k + 1]]
      BY <1>6, <2>1
    <2>3. p[k + 1] = p[k] + f[k + 1]
      BY <1>3 DEF PartialSums
    <2> QED
      BY <1>1, <1>8, <2>1, <2>2, <2>3
  <1>. HIDE DEF T
  <1>9. \A k \in 0 .. n : k \in T
    BY <1>1, <1>7, <1>8, CountUp
  <1>10. e = p
    <2>1. \A k \in 0 .. n : e[k] = p[k]
      BY <1>9 DEF T
    <2>2. e = [i \in 0 .. n |-> e[i]] /\ p = [i \in 0 .. n |-> p[i]]
      BY <1>3, <1>5 DEF PartialSums, Sum
    <2> QED
      BY <2>1, <2>2
  <1> QED
    BY <1>2, <1>3, <1>10 DEF n, f

\* Step by step, and never backwards.
LEMMA ElapseSteps ==
    ASSUME NEW s \in Seq(Timers), NEW left \in [Timers -> Nat]
    PROVE  /\ Elapse(s, left)[0] = 0
           /\ \A k \in 0 .. Len(s) : Elapse(s, left)[k] \in Nat
           /\ \A k \in 0 .. (Len(s) - 1) :
                Elapse(s, left)[k + 1] = Elapse(s, left)[k] + left[s[k + 1]]
           /\ \A k \in 1 .. Len(s) : Elapse(s, left)[1] <= Elapse(s, left)[k]
  <1>. DEFINE n == Len(s)
              e == Elapse(s, left)
  <1>1. n \in Nat /\ \A k \in 1 .. n : left[s[k]] \in Nat
    BY TimersOf
  <1>2. PartialSums(e, Steps(s, left), n)
    BY ElapseSums
  <1>. HIDE DEF e
  <1>3. e[0] = 0 /\ \A k \in 0 .. (n - 1) : e[k + 1] = e[k] + left[s[k + 1]]
    <2>1. \A k \in 0 .. (n - 1) : k + 1 \in 1 .. n /\ Steps(s, left)[k + 1] = left[s[k + 1]]
      BY <1>1 DEF Steps
    <2> QED
      BY <1>2, <2>1 DEF PartialSums
  <1>. HIDE DEF n
  <1>. DEFINE T == {k \in 0 .. n : e[k] \in Nat /\ (k >= 1 => e[1] <= e[k])}
  <1>4. 0 \in T
    BY <1>1, <1>3
  <1>5. ASSUME NEW k \in 0 .. (n - 1), k \in T
        PROVE  k + 1 \in T
    <2>1. k + 1 \in 0 .. n /\ k + 1 \in 1 .. n
      BY <1>1
    <2>2. e[k + 1] = e[k] + left[s[k + 1]] /\ left[s[k + 1]] \in Nat /\ e[k] \in Nat
      BY <1>1, <1>3, <1>5, <2>1
    <2>3. e[k + 1] \in Nat /\ e[k] <= e[k + 1]
      BY <2>2
    <2>4. CASE k = 0
      BY <2>1, <2>3, <2>4
    <2>5. CASE k # 0
      <3>1. e[1] <= e[k] /\ 1 \in 0 .. n
        BY <1>1, <1>5, <2>5
      <3>2. e[1] \in Int
        <4>1. 0 \in 0 .. (n - 1) /\ 1 \in 1 .. n
          BY <1>1
        <4>2. e[0 + 1] = e[0] + left[s[0 + 1]]
          BY <1>3, <4>1
        <4> QED
          BY <1>1, <1>3, <4>1, <4>2
      <3>3. e[1] <= e[k + 1]
        BY <2>2, <2>3, <3>1, <3>2
      <3> QED
        BY <2>1, <2>3, <3>3
    <2> QED
      BY <2>4, <2>5
  <1>. HIDE DEF T
  <1>6. \A k \in 0 .. n : k \in T
    BY <1>1, <1>4, <1>5, CountUp
  <1>7. \A k \in 0 .. n : e[k] \in Nat
    BY <1>6 DEF T
  <1>8. \A k \in 1 .. n : e[1] <= e[k]
    BY <1>1, <1>6 DEF T
  <1> QED
    BY <1>3, <1>7, <1>8 DEF n, e
-----------------------------------------------------------------------------
(* A timer is put in                                                       *)

\* The walk of NutTimerInsert ends behind the timers that expire no later.
LEMMA InsertPlace ==
    ASSUME NEW s \in Seq(Timers), NEW left \in [Timers -> Nat], NEW ticks \in Nat
    PROVE  LET i == InsertPosition(s, left, ticks)
           IN  /\ i \in 1 .. (Len(s) + 1)
               /\ \A j \in 1 .. (i - 1) : Elapse(s, left)[j] <= ticks
               /\ i <= Len(s) => ticks < Elapse(s, left)[i]
  <1>. DEFINE n == Len(s)
              e == Elapse(s, left)
              P == {i \in 1 .. (n + 1) : i <= n => ticks < e[i]}
              Ends(i) == /\ \A j \in 1 .. (i - 1) : e[j] <= ticks
                         /\ i <= n => ticks < e[i]
  <1>1. n \in Nat /\ \A k \in 0 .. n : e[k] \in Nat
    BY TimersOf, ElapseSteps
  <1>2. InsertPosition(s, left, ticks) = CHOOSE i \in 1 .. (n + 1) : Ends(i)
    BY DEF InsertPosition
  <1>. HIDE DEF n, e
  <1>3. P \in SUBSET Nat /\ n + 1 \in P
    BY <1>1
  <1>4. PICK i \in P : \A k \in P : i <= k
    <2>. HIDE DEF P
    <2> QED
      BY <1>3, LeastIndex
  <1>5. i \in 1 .. (n + 1) /\ Ends(i)
    <2>1. ASSUME NEW j \in 1 .. (i - 1)
          PROVE  e[j] <= ticks
      <3>1. i \in 1 .. (n + 1) /\ j \in 1 .. n /\ j \in 1 .. (n + 1) /\ ~(i <= j)
        BY <1>1
      <3>2. j \notin P
        BY <1>4, <3>1
      <3>3. e[j] \in Nat
        BY <1>1, <3>1
      <3> QED
        BY <3>1, <3>2, <3>3
    <2> QED
      BY <2>1
  <1>. HIDE DEF Ends
  <1>6. /\ InsertPosition(s, left, ticks) \in 1 .. (n + 1)
        /\ Ends(InsertPosition(s, left, ticks))
    BY <1>2, <1>5
  <1> QED
    BY <1>6 DEF Ends, n, e

\* The differences after NutTimerInsert.
InsertedLeft(s, left, t, ticks) ==
    LET i    == InsertPosition(s, left, ticks)
        own  == ticks - Elapse(s, left)[i - 1]
        mine == [left EXCEPT ![t] = own]
    IN  IF i <= Len(s) THEN [mine EXCEPT ![s[i]] = @ - own] ELSE mine

\* A timer in its place in a list ...
PutAt(s, i, t, r) ==
    /\ i \in 1 .. (Len(s) + 1) /\ r \in Seq(Timers) /\ Len(r) = Len(s) + 1
    /\ \A j \in 1 .. (Len(s) + 1) :
           r[j] = IF j < i THEN s[j] ELSE IF j = i THEN t ELSE s[j - 1]

\* ... and the differences that go with it.
Differs(s, left, t, ticks, i, new) ==
    /\ new \in [Timers -> Nat]
    /\ new[t] = ticks - Elapse(s, left)[i - 1]
    /\ i <= Len(s) => new[s[i]] = Elapse(s, left)[i] - ticks
    /\ \A u \in Timers : u # t /\ (i <= Len(s) => u # s[i]) => new[u] = left[u]

\* They are differences again, of the timer put in and its successor.
LEMMA InsertedDifferences ==
    ASSUME NEW s \in Seq(Timers), NEW left \in [Timers -> Nat], NEW ticks \in Nat,
           NEW t \in Timers, t \notin ToSet(s)
    PROVE  Differs(s, left, t, ticks, InsertPosition(s, left, ticks),
                   InsertedLeft(s, left, t, ticks))
  <1>. DEFINE i == InsertPosition(s, left, ticks)
              n == Len(s)
              e == Elapse(s, left)
              new == InsertedLeft(s, left, t, ticks)
  <1>1. /\ n \in Nat /\ DOMAIN s = 1 .. n /\ \A k \in 1 .. n : s[k] \in Timers
        /\ \A k \in 0 .. n : e[k] \in Nat
        /\ e[0] = 0 /\ \A k \in 0 .. (n - 1) : e[k + 1] = e[k] + left[s[k + 1]]
    BY TimersOf, ElapseSteps
  <1>2. /\ i \in 1 .. (n + 1) /\ \A j \in 1 .. (i - 1) : e[j] <= ticks
        /\ i <= n => ticks < e[i]
    BY InsertPlace
  <1>. DEFINE own == ticks - e[i - 1]
              mine == [left EXCEPT ![t] = own]
  <1>3. new = IF i <= n THEN [mine EXCEPT ![s[i]] = @ - own] ELSE mine
    BY DEF InsertedLeft
  <1>. HIDE DEF n, e, new, i
  <1>4. i - 1 \in 0 .. n /\ e[i - 1] \in Nat /\ e[i - 1] <= ticks
    <2>1. i - 1 \in 0 .. n /\ i \in Nat
      BY <1>1, <1>2
    <2>2. CASE i - 1 = 0
      BY <1>1, <2>1, <2>2
    <2>3. CASE i - 1 # 0
      <3>1. i - 1 \in 1 .. (i - 1)
        BY <2>1, <2>3
      <3> QED
        BY <1>1, <1>2, <2>1, <3>1
    <2> QED
      BY <2>2, <2>3
  <1>5. own \in Nat
    BY <1>4
  <1>. HIDE DEF own
  <1>6. mine \in [Timers -> Nat] /\ mine[t] = own /\ \A u \in Timers : u # t => mine[u] = left[u]
    BY <1>5
  <1>. HIDE DEF mine
  <1>7. CASE i <= n
    <2>1. i \in 1 .. n /\ s[i] \in Timers /\ s[i] # t
      <3>1. i \in 1 .. n
        BY <1>1, <1>2, <1>7
      <3>2. s[i] \in ToSet(s)
        BY <1>1, <3>1 DEF ToSet
      <3> QED
        BY <1>1, <3>1, <3>2
    <2>2. e[i] = e[i - 1] + left[s[i]]
      <3>1. i - 1 \in 0 .. (n - 1) /\ (i - 1) + 1 = i
        BY <1>1, <2>1
      <3>2. e[(i - 1) + 1] = e[i - 1] + left[s[(i - 1) + 1]]
        BY <1>1, <3>1
      <3> QED
        BY <3>1, <3>2
    <2>3. left[s[i]] - own = e[i] - ticks /\ e[i] - ticks \in Nat
      <3>1. left[s[i]] \in Nat /\ e[i] \in Nat /\ ticks < e[i]
        BY <1>1, <1>2, <2>1
      <3>2. PICK a \in Nat, b \in Nat : a = e[i - 1] /\ b = left[s[i]]
        BY <1>4, <3>1
      <3>3. e[i] = a + b /\ own = ticks - a
        BY <2>2, <3>2 DEF own
      <3>4. b - (ticks - a) = (a + b) - ticks
        OBVIOUS
      <3>5. e[i] - ticks \in Nat
        BY <3>1
      <3> QED
        BY <3>2, <3>3, <3>4, <3>5
    <2>4. new = [mine EXCEPT ![s[i]] = mine[s[i]] - own]
      BY <1>3, <1>7
    <2>5. mine[s[i]] = left[s[i]]
      BY <1>6, <2>1
    <2>6. new = [mine EXCEPT ![s[i]] = e[i] - ticks]
      BY <2>3, <2>4, <2>5
    <2>7. /\ new \in [Timers -> Nat] /\ new[t] = own /\ new[s[i]] = e[i] - ticks
          /\ \A u \in Timers : u # t /\ u # s[i] => new[u] = left[u]
      BY <1>6, <2>1, <2>3, <2>6
    <2> QED
      BY <1>7, <2>7 DEF Differs, n, e, new, own, i
  <1>8. CASE ~(i <= n)
    <2>1. new = mine
      BY <1>3, <1>8
    <2> QED
      BY <1>6, <1>8, <2>1 DEF Differs, n, e, new, own, i
  <1> QED
    BY <1>7, <1>8

\* The list with the timer in its place.
LEMMA TimerPutIn ==
    ASSUME NEW s \in Seq(Timers), NEW i \in 1 .. (Len(s) + 1), NEW t \in Timers
    PROVE  PutAt(s, i, t, InsertAt(s, i, t))
  <1>1. InsertAt(s, i, t) \in Seq(Timers)
    BY InsertAtElements
  <1>2. Len(InsertAt(s, i, t)) = Len(s) + 1
    BY InsertAtElements
  <1>3. \A j \in 1 .. (Len(s) + 1) :
          InsertAt(s, i, t)[j] = IF j < i THEN s[j] ELSE IF j = i THEN t ELSE s[j - 1]
    BY InsertAtElements
  <1> QED
    BY <1>1, <1>2, <1>3 DEF PutAt

\* The timer put in expires after the ticks given, every other one when it
\* did before.
LEMMA InsertedElapse ==
    ASSUME NEW s \in Seq(Timers), NEW left \in [Timers -> Nat], NEW ticks \in Nat,
           NEW t \in Timers, t \notin ToSet(s), IsInjective(s),
           NEW i, NEW r, PutAt(s, i, t, r), NEW new, Differs(s, left, t, ticks, i, new)
    PROVE  /\ IsInjective(r)
           /\ \A k \in 0 .. Len(r) :
                Elapse(r, new)[k] = IF k < i THEN Elapse(s, left)[k]
                                    ELSE IF k = i THEN ticks ELSE Elapse(s, left)[k - 1]
  <1>. DEFINE n == Len(s)
              e == Elapse(s, left)
              q == Elapse(r, new)
  <1>1. /\ n \in Nat /\ DOMAIN s = 1 .. n /\ \A k \in 1 .. n : s[k] \in Timers
        /\ \A k \in 0 .. n : e[k] \in Nat
        /\ e[0] = 0 /\ \A k \in 0 .. (n - 1) : e[k + 1] = e[k] + left[s[k + 1]]
    BY TimersOf, ElapseSteps
  <1>2. i \in 1 .. (n + 1)
    BY DEF PutAt
  <1>3. /\ r \in Seq(Timers) /\ Len(r) = n + 1
        /\ \A j \in 1 .. (n + 1) : r[j] = IF j < i THEN s[j] ELSE IF j = i THEN t ELSE s[j - 1]
    BY DEF PutAt
  <1>4. /\ new \in [Timers -> Nat] /\ new[t] = ticks - e[i - 1]
        /\ i <= n => new[s[i]] = e[i] - ticks
        /\ \A u \in Timers : u # t /\ (i <= n => u # s[i]) => new[u] = left[u]
    BY DEF Differs
  <1>5. q[0] = 0 /\ \A k \in 0 .. n : q[k + 1] = q[k] + new[r[k + 1]]
    <2>1. q[0] = 0 /\ \A k \in 0 .. (Len(r) - 1) : q[k + 1] = q[k] + new[r[k + 1]]
      BY <1>3, <1>4, ElapseSteps
    <2> QED
      BY <1>1, <1>3, <2>1
  <1>6. \A j, k \in 1 .. n : s[j] = s[k] => j = k
    BY <1>1 DEF IsInjective
  <1>7. \A k \in 1 .. n : s[k] # t
    BY <1>1 DEF ToSet
  <1>. HIDE DEF n, e, q
  <1>. DEFINE T == {k \in 0 .. (n + 1) : q[k] = IF k < i THEN e[k]
                                                ELSE IF k = i THEN ticks ELSE e[k - 1]}
  <1>8. 0 \in T
    BY <1>1, <1>2, <1>5
  <1>9. ASSUME NEW k \in 0 .. ((n + 1) - 1), k \in T
        PROVE  k + 1 \in T
    <2>1. /\ k \in 0 .. n /\ k + 1 \in 1 .. (n + 1) /\ k + 1 \in 0 .. (n + 1)
          /\ q[k + 1] = q[k] + new[r[k + 1]]
      BY <1>1, <1>5
    <2>2. r[k + 1] = IF k + 1 < i THEN s[k + 1] ELSE IF k + 1 = i THEN t ELSE s[(k + 1) - 1]
      BY <1>3, <2>1
    <2>3. q[k] = IF k < i THEN e[k] ELSE IF k = i THEN ticks ELSE e[k - 1]
      BY <1>9
    <2>4. CASE k + 1 < i
      <3>1. k + 1 \in 1 .. n /\ k \in 0 .. (n - 1) /\ k < i
        BY <1>1, <1>2, <2>1, <2>4
      <3>2. r[k + 1] = s[k + 1] /\ new[s[k + 1]] = left[s[k + 1]]
        <4>1. r[k + 1] = s[k + 1] /\ s[k + 1] \in Timers /\ s[k + 1] # t
          BY <1>1, <1>7, <2>2, <2>4, <3>1
        <4>2. i <= n => s[k + 1] # s[i]
          BY <1>2, <1>6, <2>4, <3>1
        <4> QED
          BY <1>4, <4>1, <4>2
      <3>3. e[k + 1] = e[k] + left[s[k + 1]]
        BY <1>1, <3>1
      <3> QED
        BY <2>1, <2>3, <2>4, <3>1, <3>2, <3>3
    <2>5. CASE k + 1 = i
      <3>1. r[k + 1] = t /\ k < i /\ i - 1 = k /\ e[k] \in Nat
        BY <1>1, <1>2, <2>1, <2>2, <2>5
      <3>2. q[k + 1] = e[k] + (ticks - e[k])
        BY <1>4, <2>1, <2>3, <3>1
      <3>3. q[k + 1] = ticks
        BY <3>1, <3>2
      <3> QED
        BY <1>2, <2>1, <2>5, <3>3
    <2>6. CASE k = i
      <3>1. i \in 1 .. n /\ r[k + 1] = s[i] /\ e[i] \in Nat
        BY <1>1, <1>2, <2>1, <2>2, <2>6
      <3>2. q[k + 1] = ticks + (e[i] - ticks)
        BY <1>4, <2>1, <2>3, <2>6, <3>1
      <3>3. q[k + 1] = e[(k + 1) - 1]
        BY <2>6, <3>1, <3>2
      <3> QED
        BY <1>2, <2>1, <2>6, <3>3
    <2>7. CASE k > i
      <3>1. k \in 1 .. n /\ k - 1 \in 0 .. (n - 1) /\ (k - 1) + 1 = k /\ (k + 1) - 1 = k
        BY <1>1, <1>2, <2>1, <2>7
      <3>2. r[k + 1] = s[k] /\ new[s[k]] = left[s[k]]
        <4>1. r[k + 1] = s[k] /\ s[k] \in Timers /\ s[k] # t
          BY <1>1, <1>2, <1>7, <2>1, <2>2, <2>7, <3>1
        <4>2. i <= n => s[k] # s[i]
          BY <1>2, <1>6, <2>7, <3>1
        <4> QED
          BY <1>4, <4>1, <4>2
      <3>3. e[(k - 1) + 1] = e[k - 1] + left[s[(k - 1) + 1]]
        BY <1>1, <3>1
      <3>4. q[k] = e[k - 1]
        BY <1>2, <2>3, <2>7, <3>1
      <3>5. q[k + 1] = e[(k + 1) - 1]
        BY <2>1, <3>1, <3>2, <3>3, <3>4
      <3> QED
        BY <1>2, <2>1, <2>7, <3>1, <3>5
    <2> QED
      BY <1>2, <2>1, <2>4, <2>5, <2>6, <2>7
  <1>. HIDE DEF T
  <1>10. \A k \in 0 .. (n + 1) : k \in T
    <2>. DEFINE m == n + 1
    <2>1. m \in Nat
      BY <1>1
    <2>2. \A k \in 0 .. (m - 1) : k \in T => k + 1 \in T
      BY <1>9
    <2>. HIDE DEF m
    <2>3. \A k \in 0 .. m : k \in T
      BY <1>8, <2>1, <2>2, CountUp
    <2> QED
      BY <2>3 DEF m
  <1>11. \A k \in 0 .. (n + 1) : q[k] = IF k < i THEN e[k] ELSE IF k = i THEN ticks ELSE e[k - 1]
    BY <1>10 DEF T
  <1>12. IsInjective(r)
    <2>1. SUFFICES ASSUME NEW j \in 1 .. (n + 1), NEW k \in 1 .. (n + 1), j < k, r[j] = r[k]
                   PROVE  FALSE
      <3>1. DOMAIN r = 1 .. (n + 1)
        BY <1>3, TimersOf
      <3> QED
        BY <1>1, <3>1 DEF IsInjective
    <2>2. CASE k < i
      <3>1. j \in 1 .. n /\ k \in 1 .. n /\ j < i /\ j # k
        BY <1>1, <1>2, <2>1, <2>2
      <3>2. r[j] = s[j] /\ r[k] = s[k]
        BY <1>3, <2>2, <3>1
      <3> QED
        BY <1>6, <2>1, <3>1, <3>2
    <2>3. CASE k = i
      <3>1. j \in 1 .. n /\ r[j] = s[j] /\ r[k] = t
        BY <1>1, <1>2, <1>3, <2>1, <2>3
      <3> QED
        BY <1>7, <2>1, <3>1
    <2>4. CASE k > i
      <3>1. k - 1 \in 1 .. n /\ r[k] = s[k - 1]
        <4>1. k - 1 \in 1 .. n /\ ~(k < i) /\ k # i
          BY <1>1, <1>2, <2>4
        <4> QED
          BY <1>3, <4>1
      <3>2. CASE j < i
        <4>1. j \in 1 .. n /\ j # k - 1
          BY <1>1, <1>2, <2>4, <3>2
        <4>2. r[j] = s[j]
          BY <1>3, <3>2
        <4> QED
          BY <1>6, <2>1, <3>1, <4>1, <4>2
      <3>3. CASE j = i
        <4>1. r[j] = t
          BY <1>2, <1>3, <3>3
        <4> QED
          BY <1>7, <2>1, <3>1, <4>1
      <3>4. CASE j > i
        <4>1. j - 1 \in 1 .. n /\ r[j] = s[j - 1] /\ j - 1 # k - 1
          BY <1>1, <1>2, <1>3, <2>1, <3>4
        <4> QED
          BY <1>6, <2>1, <3>1, <4>1
      <3> QED
        BY <1>2, <3>2, <3>3, <3>4
    <2> QED
      BY <1>2, <2>2, <2>3, <2>4
  <1> QED
    BY <1>3, <1>11, <1>12 DEF n, e, q
-----------------------------------------------------------------------------
(* A timer is taken out                                                    *)

\* A list without its p-th timer ...
TakenOut(s, p, r) ==
    /\ p \in 1 .. Len(s) /\ r \in Seq(Timers) /\ Len(r) = Len(s) - 1
    /\ \A j \in 1 .. (Len(s) - 1) : r[j] = IF j < p THEN s[j] ELSE s[j + 1]

\* ... and the differences when its successor inherits its ticks.
RemovedLeft(s, left, p) ==
    IF p < Len(s) THEN [left EXCEPT ![s[p + 1]] = @ + left[s[p]]] ELSE left

Inherits(s, left, p, new) ==
    /\ new \in [Timers -> Nat]
    /\ p < Len(s) => new[s[p + 1]] = left[s[p + 1]] + left[s[p]]
    /\ \A u \in Timers : (p < Len(s) => u # s[p + 1]) => new[u] = left[u]

\* What RemoveAt leaves.
LEMMA TimerTakenOut ==
    ASSUME NEW s \in Seq(Timers), NEW p \in 1 .. Len(s)
    PROVE  TakenOut(s, p, RemoveAt(s, p))
  <1>1. RemoveAt(s, p) \in Seq(Timers)
    BY RemoveAtElements
  <1>2. Len(RemoveAt(s, p)) = Len(s) - 1
    BY RemoveAtElements
  <1>3. \A j \in 1 .. (Len(s) - 1) : RemoveAt(s, p)[j] = IF j < p THEN s[j] ELSE s[j + 1]
    BY RemoveAtElements
  <1> QED
    BY <1>1, <1>2, <1>3 DEF TakenOut

\* What Tail leaves.
LEMMA TimerPopped ==
    ASSUME NEW s \in Seq(Timers), s # <<>>
    PROVE  TakenOut(s, 1, Tail(s)) /\ Head(s) = s[1]
  <1>1. Len(s) \in Nat /\ 1 \in 1 .. Len(s)
    BY EmptySeq, LenProperties
  <1>2. /\ Tail(s) \in Seq(Timers) /\ Len(Tail(s)) = Len(s) - 1 /\ Head(s) = s[1]
        /\ \A j \in 1 .. Len(Tail(s)) : Tail(s)[j] = s[j + 1]
    BY HeadTailProperties
  <1> QED
    BY <1>1, <1>2 DEF TakenOut

\* What the successor holds.
LEMMA RemovedInherits ==
    ASSUME NEW s \in Seq(Timers), NEW left \in [Timers -> Nat], NEW p \in 1 .. Len(s)
    PROVE  Inherits(s, left, p, RemovedLeft(s, left, p))
  <1>1. Len(s) \in Nat /\ \A k \in 1 .. Len(s) : s[k] \in Timers
    BY TimersOf
  <1>2. CASE p < Len(s)
    <2>. DEFINE u == s[p + 1]
                mine == left[s[p]]
                his == left[u]
    <2>1. p + 1 \in 1 .. Len(s)
      BY <1>1, <1>2
    <2>2. u \in Timers /\ mine \in Nat /\ his \in Nat /\ his + mine \in Nat
      BY <1>1, <2>1
    <2>3. RemovedLeft(s, left, p) = [left EXCEPT ![u] = his + mine]
      BY <1>2 DEF RemovedLeft
    <2>4. Inherits(s, left, p, RemovedLeft(s, left, p)) <=>
            LET new == RemovedLeft(s, left, p)
            IN  /\ new \in [Timers -> Nat] /\ new[u] = his + mine
                /\ \A v \in Timers : v # u => new[v] = left[v]
      BY <1>2 DEF Inherits
    <2>. HIDE DEF u, mine, his
    <2> QED
      BY <2>2, <2>3, <2>4
  <1>3. CASE ~(p < Len(s))
    BY <1>3 DEF RemovedLeft, Inherits
  <1> QED
    BY <1>2, <1>3

\* Every timer left in the list expires when it did before.
LEMMA RemovedElapse ==
    ASSUME NEW s \in Seq(Timers), NEW left \in [Timers -> Nat], IsInjective(s),
           NEW p, NEW r, TakenOut(s, p, r), NEW new, Inherits(s, left, p, new)
    PROVE  /\ IsInjective(r) /\ s[p] \notin ToSet(r)
           /\ \A k \in 0 .. Len(r) :
                Elapse(r, new)[k] = IF k < p THEN Elapse(s, left)[k] ELSE Elapse(s, left)[k + 1]
  <1>. DEFINE n == Len(s)
              e == Elapse(s, left)
              q == Elapse(r, new)
  <1>1. /\ n \in Nat /\ DOMAIN s = 1 .. n /\ \A k \in 1 .. n : s[k] \in Timers
        /\ \A k \in 0 .. n : e[k] \in Nat
        /\ e[0] = 0 /\ \A k \in 0 .. (n - 1) : e[k + 1] = e[k] + left[s[k + 1]]
    BY TimersOf, ElapseSteps
  <1>2. /\ p \in 1 .. n /\ r \in Seq(Timers) /\ Len(r) = n - 1
        /\ \A j \in 1 .. (n - 1) : r[j] = IF j < p THEN s[j] ELSE s[j + 1]
    BY DEF TakenOut
  <1>3. /\ new \in [Timers -> Nat]
        /\ p < n => new[s[p + 1]] = left[s[p + 1]] + left[s[p]]
        /\ \A u \in Timers : (p < n => u # s[p + 1]) => new[u] = left[u]
    BY DEF Inherits
  <1>4. q[0] = 0 /\ \A k \in 0 .. (n - 2) : q[k + 1] = q[k] + new[r[k + 1]]
    <2>1. q[0] = 0 /\ \A k \in 0 .. (Len(r) - 1) : q[k + 1] = q[k] + new[r[k + 1]]
      BY <1>2, <1>3, ElapseSteps
    <2>2. Len(r) - 1 = n - 2
      BY <1>1, <1>2
    <2> QED
      BY <2>1, <2>2
  <1>5. \A j, k \in 1 .. n : s[j] = s[k] => j = k
    BY <1>1 DEF IsInjective
  <1>6. DOMAIN r = 1 .. (n - 1)
    BY <1>2, TimersOf
  <1>. HIDE DEF n, e, q
  <1>. DEFINE T == {k \in 0 .. (n - 1) : q[k] = IF k < p THEN e[k] ELSE e[k + 1]}
  <1>7. 0 \in T
    BY <1>1, <1>2, <1>4
  <1>8. ASSUME NEW k \in 0 .. ((n - 1) - 1), k \in T
        PROVE  k + 1 \in T
    <2>1. /\ k \in 0 .. (n - 2) /\ k + 1 \in 1 .. (n - 1) /\ k + 1 \in 0 .. (n - 1)
          /\ k + 1 \in 1 .. n /\ (k + 1) + 1 \in 1 .. n /\ k \in 0 .. (n - 1)
          /\ k + 1 \in 0 .. (n - 1)
      BY <1>1
    <2>2. q[k + 1] = q[k] + new[r[k + 1]]
      BY <1>4, <2>1
    <2>3. r[k + 1] = IF k + 1 < p THEN s[k + 1] ELSE s[(k + 1) + 1]
      BY <1>2, <2>1
    <2>4. e[k + 1] = e[k] + left[s[k + 1]] /\ e[(k + 1) + 1] = e[k + 1] + left[s[(k + 1) + 1]]
      BY <1>1, <2>1
    <2>5. /\ left[s[k + 1]] \in Nat /\ left[s[(k + 1) + 1]] \in Nat
          /\ s[k + 1] \in Timers /\ s[(k + 1) + 1] \in Timers
          /\ e[k] \in Nat /\ e[k + 1] \in Nat /\ e[(k + 1) + 1] \in Nat
      BY <1>1, <2>1
    <2>6. CASE k + 1 < p
      <3>1. p < n => s[k + 1] # s[p + 1]
        <4>1. SUFFICES ASSUME p < n PROVE s[k + 1] # s[p + 1]
          OBVIOUS
        <4>2. p + 1 \in 1 .. n /\ k + 1 # p + 1
          BY <1>1, <1>2, <2>1, <2>6, <4>1
        <4> QED
          BY <1>5, <2>1, <4>2
      <3>2. new[s[k + 1]] = left[s[k + 1]]
        BY <1>3, <2>5, <3>1
      <3>3. q[k] = e[k]
        BY <1>2, <1>8, <2>1, <2>6
      <3>4. q[k + 1] = e[k + 1]
        BY <2>2, <2>3, <2>4, <2>6, <3>2, <3>3
      <3> QED
        BY <2>1, <2>6, <3>4
    <2>7. CASE k + 1 = p
      <3>1. p < n /\ s[(k + 1) + 1] = s[p + 1] /\ s[k + 1] = s[p]
        <4>1. k + 1 < n
          BY <1>1, <2>1
        <4> QED
          BY <2>7, <4>1
      <3>2. new[s[(k + 1) + 1]] = left[s[(k + 1) + 1]] + left[s[k + 1]]
        BY <1>3, <3>1
      <3>3. q[k] = e[k]
        BY <1>2, <1>8, <2>1, <2>7
      <3>4. r[k + 1] = s[(k + 1) + 1]
        BY <1>2, <2>3, <2>7
      <3>5. PICK a \in Nat, b \in Nat, c \in Nat :
              a = e[k] /\ b = left[s[k + 1]] /\ c = left[s[(k + 1) + 1]]
        BY <2>5
      <3>6. q[k + 1] = a + (c + b) /\ e[(k + 1) + 1] = (a + b) + c
        BY <2>2, <2>4, <3>2, <3>3, <3>4, <3>5
      <3>7. q[k + 1] = e[(k + 1) + 1]
        BY <3>6
      <3> QED
        BY <1>2, <2>1, <2>7, <3>7
    <2>8. CASE k + 1 > p
      <3>1. p < n => s[(k + 1) + 1] # s[p + 1]
        <4>1. SUFFICES ASSUME p < n PROVE s[(k + 1) + 1] # s[p + 1]
          OBVIOUS
        <4>2. p + 1 \in 1 .. n /\ (k + 1) + 1 # p + 1
          BY <1>1, <1>2, <2>1, <2>8, <4>1
        <4> QED
          BY <1>5, <2>1, <4>2
      <3>2. new[s[(k + 1) + 1]] = left[s[(k + 1) + 1]]
        BY <1>3, <2>5, <3>1
      <3>3. q[k] = e[k + 1]
        BY <1>2, <1>8, <2>1, <2>8
      <3>4. r[k + 1] = s[(k + 1) + 1]
        BY <1>2, <2>3, <2>8
      <3>5. q[k + 1] = e[(k + 1) + 1]
        BY <2>2, <2>4, <2>5, <3>2, <3>3, <3>4
      <3> QED
        BY <1>2, <2>1, <2>8, <3>5
    <2> QED
      BY <1>2, <2>1, <2>6, <2>7, <2>8
  <1>. HIDE DEF T
  <1>9. \A k \in 0 .. (n - 1) : k \in T
    <2>. DEFINE m == n - 1
    <2>1. m \in Nat
      BY <1>1, <1>2
    <2>2. \A k \in 0 .. (m - 1) : k \in T => k + 1 \in T
      BY <1>8
    <2>. HIDE DEF m
    <2>3. \A k \in 0 .. m : k \in T
      BY <1>7, <2>1, <2>2, CountUp
    <2> QED
      BY <2>3 DEF m
  <1>10. \A k \in 0 .. (n - 1) : q[k] = IF k < p THEN e[k] ELSE e[k + 1]
    BY <1>9 DEF T
  \* Where a timer of the new list was in the old one.
  <1>. DEFINE Old(j) == IF j < p THEN j ELSE j + 1
  <1>11. ASSUME NEW j \in 1 .. (n - 1)
         PROVE  Old(j) \in 1 .. n /\ Old(j) # p /\ r[j] = s[Old(j)]
    <2>1. j \in 1 .. n /\ j + 1 \in 1 .. n
      BY <1>1
    <2>2. CASE j < p
      <3>1. Old(j) = j /\ r[j] = s[j] /\ j # p
        BY <1>2, <2>2
      <3> QED
        BY <2>1, <3>1
    <2>3. CASE ~(j < p)
      <3>1. Old(j) = j + 1 /\ r[j] = s[j + 1] /\ j + 1 # p
        BY <1>2, <2>3
      <3> QED
        BY <2>1, <3>1
    <2> QED
      BY <2>2, <2>3
  <1>12. ASSUME NEW j \in 1 .. (n - 1), NEW k \in 1 .. (n - 1), Old(j) = Old(k)
         PROVE  j = k
    <2>1. j \in Int /\ k \in Int /\ p \in Int
      BY <1>1, <1>2
    <2>2. CASE j < p
      BY <1>12, <2>1, <2>2
    <2>3. CASE ~(j < p)
      BY <1>12, <2>1, <2>3
    <2> QED
      BY <2>2, <2>3
  <1>. HIDE DEF Old
  <1>13. IsInjective(r)
    <2>1. ASSUME NEW j \in 1 .. (n - 1), NEW k \in 1 .. (n - 1), r[j] = r[k]
          PROVE  j = k
      <3>1. s[Old(j)] = s[Old(k)] /\ Old(j) \in 1 .. n /\ Old(k) \in 1 .. n
        BY <1>11, <2>1
      <3>2. Old(j) = Old(k)
        BY <1>5, <3>1
      <3> QED
        BY <1>12, <3>2
    <2> QED
      BY <1>6, <2>1 DEF IsInjective
  <1>14. s[p] \notin ToSet(r)
    <2>1. ASSUME NEW j \in 1 .. (n - 1)
          PROVE  r[j] # s[p]
      <3>1. Old(j) \in 1 .. n /\ Old(j) # p /\ r[j] = s[Old(j)]
        BY <1>11
      <3> QED
        BY <1>2, <1>5, <3>1
    <2> QED
      BY <1>6, <2>1 DEF ToSet
  <1> QED
    BY <1>2, <1>10, <1>13, <1>14 DEF n, e, q

-----------------------------------------------------------------------------
(* The first timer is wound down                                           *)

EarlierBy(d, s, left, new) ==
    \A k \in 1 .. Len(s) : Elapse(s, new)[k] = Elapse(s, left)[k] - d

\* Every timer of the list expires that much earlier.
LEMMA SpentElapse ==
    ASSUME NEW s \in Seq(Timers), NEW left \in [Timers -> Nat], IsInjective(s), s # <<>>,
           NEW h, h = s[1], NEW d \in Nat, d <= left[h],
           NEW new, new = [left EXCEPT ![h] = left[h] - d]
    PROVE  new \in [Timers -> Nat] /\ EarlierBy(d, s, left, new)
  <1>. DEFINE n == Len(s)
              e == Elapse(s, left)
              q == Elapse(s, new)
  <1>1. /\ n \in Nat /\ DOMAIN s = 1 .. n /\ \A k \in 1 .. n : s[k] \in Timers
        /\ \A k \in 0 .. n : e[k] \in Nat
        /\ e[0] = 0 /\ \A k \in 0 .. (n - 1) : e[k + 1] = e[k] + left[s[k + 1]]
    BY TimersOf, ElapseSteps
  <1>2. 1 \in 1 .. n
    BY <1>1, EmptySeq
  <1>. DEFINE v == left[h]
  <1>3. h \in Timers /\ v \in Nat /\ v - d \in Nat
    BY <1>1, <1>2
  <1>4. /\ new \in [Timers -> Nat] /\ new[h] = v - d
        /\ \A u \in Timers : u # h => new[u] = left[u]
    <2>1. new = [left EXCEPT ![h] = v - d]
      OBVIOUS
    <2>. HIDE DEF v
    <2> QED
      BY <1>3, <2>1
  <1>5. q[0] = 0 /\ \A k \in 0 .. (n - 1) : q[k + 1] = q[k] + new[s[k + 1]]
    BY <1>4, ElapseSteps
  <1>6. \A j, k \in 1 .. n : s[j] = s[k] => j = k
    BY <1>1 DEF IsInjective
  <1>. HIDE DEF n, e, q
  <1>. DEFINE T == {k \in 0 .. n : k >= 1 => q[k] = e[k] - d}
  <1>7. 0 \in T
    BY <1>1
  <1>8. ASSUME NEW k \in 0 .. (n - 1), k \in T
        PROVE  k + 1 \in T
    <2>1. /\ k + 1 \in 1 .. n /\ k + 1 \in 0 .. n
          /\ q[k + 1] = q[k] + new[s[k + 1]] /\ e[k + 1] = e[k] + left[s[k + 1]]
          /\ left[s[k + 1]] \in Nat /\ e[k] \in Nat /\ e[k + 1] \in Nat /\ s[k + 1] \in Timers
      BY <1>1, <1>5
    <2>2. CASE k = 0
      <3>1. q[1] = v - d /\ e[1] = v
        BY <1>1, <1>3, <1>4, <1>5, <2>1, <2>2
      <3> QED
        BY <2>1, <2>2, <3>1
    <2>3. CASE k # 0
      <3>1. k + 1 # 1
        BY <2>3
      <3>2. new[s[k + 1]] = left[s[k + 1]]
        BY <1>2, <1>4, <1>6, <2>1, <3>1
      <3>3. q[k] = e[k] - d
        BY <1>8, <2>3
      <3>4. PICK a \in Nat, b \in Nat : a = e[k] /\ b = left[s[k + 1]]
        BY <2>1
      <3>5. q[k + 1] = (a - d) + b /\ e[k + 1] = a + b
        BY <2>1, <3>2, <3>3, <3>4
      <3>6. q[k + 1] = e[k + 1] - d
        BY <3>5
      <3> QED
        BY <2>1, <3>6
    <2> QED
      BY <2>2, <2>3
  <1>. HIDE DEF T
  <1>9. \A k \in 0 .. n : k \in T
    BY <1>1, <1>7, <1>8, CountUp
  <1>10. \A k \in 1 .. n : q[k] = e[k] - d
    BY <1>1, <1>9 DEF T
  <1> QED
    BY <1>4, <1>10 DEF EarlierBy, n, e, q

-----------------------------------------------------------------------------
(* Lists whose differences add up                                          *)

Listing(s, left) == s \in Seq(Timers) /\ IsInjective(s) /\ left \in [Timers -> Nat]

\* The timers of counts expire after what rest says of them.
AddsUp(s, left, counts, rest) ==
    \A k \in 1 .. Len(s) : s[k] \in counts => Elapse(s, left)[k] = rest[s[k]]

\* What was said of the timers other than t is still said of them.
Carries(counts, rest, counts2, rest2, t) ==
    \A u \in counts2 : u # t => u \in counts /\ rest2[u] = rest[u]

\* The first timer of a list is still on top and as far from its expiry.
KeepsTop(s, left, r, new) ==
    r # <<>> /\ Head(r) = Head(s) /\ new[Head(s)] = left[Head(s)]

\* The top of a list.
LEMMA TopTimer ==
    ASSUME NEW s \in Seq(Timers), s # <<>>
    PROVE  Head(s) = s[1] /\ 1 \in 1 .. Len(s) /\ s[1] \in Timers /\ Len(s) \in Nat
  <1>1. Len(s) \in Nat /\ 1 \in 1 .. Len(s)
    BY EmptySeq, LenProperties
  <1> QED
    BY <1>1, TimersOf, TimerPopped

\* NutTimerInsert: the differences add up again, and a timer on top that
\* expires no later than the one put in stays there.
LEMMA InsertAddsUp ==
    ASSUME NEW s, NEW left, Listing(s, left), NEW ticks \in Nat,
           NEW t \in Timers, t \notin ToSet(s),
           NEW counts, NEW rest, AddsUp(s, left, counts, rest),
           NEW counts2, NEW rest2, Carries(counts, rest, counts2, rest2, t),
           t \in counts2 => rest2[t] = ticks,
           NEW r, r = InsertAt(s, InsertPosition(s, left, ticks), t),
           NEW new, new = InsertedLeft(s, left, t, ticks)
    PROVE  /\ Listing(r, new) /\ AddsUp(r, new, counts2, rest2)
           /\ s # <<>> /\ left[Head(s)] <= ticks => KeepsTop(s, left, r, new)
  <1>. DEFINE i == InsertPosition(s, left, ticks)
              n == Len(s)
              e == Elapse(s, left)
  <1>1. s \in Seq(Timers) /\ left \in [Timers -> Nat] /\ IsInjective(s)
    BY DEF Listing
  <1>2. /\ n \in Nat /\ DOMAIN s = 1 .. n /\ \A k \in 1 .. n : s[k] \in Timers
        /\ e[0] = 0 /\ \A k \in 0 .. (n - 1) : e[k + 1] = e[k] + left[s[k + 1]]
        /\ \A k \in 0 .. n : e[k] \in Nat
    BY <1>1, TimersOf, ElapseSteps
  <1>3. i \in 1 .. (n + 1) /\ i <= n => ticks < e[i]
    BY <1>1, InsertPlace
  <1>4. i \in 1 .. (n + 1)
    BY <1>1, InsertPlace
  <1>5. PutAt(s, i, t, r)
    BY <1>1, <1>4, TimerPutIn
  <1>6. Differs(s, left, t, ticks, i, new)
    BY <1>1, InsertedDifferences
  <1>. HIDE DEF i
  <1>7. /\ IsInjective(r)
        /\ \A k \in 0 .. Len(r) :
             Elapse(r, new)[k] = IF k < i THEN e[k] ELSE IF k = i THEN ticks ELSE e[k - 1]
    BY <1>1, <1>5, <1>6, InsertedElapse
  <1>8. /\ r \in Seq(Timers) /\ Len(r) = n + 1 /\ new \in [Timers -> Nat]
        /\ \A j \in 1 .. (n + 1) : r[j] = IF j < i THEN s[j] ELSE IF j = i THEN t ELSE s[j - 1]
    BY <1>5, <1>6 DEF PutAt, Differs
  <1>9. \A k \in 1 .. n : s[k] # t
    BY <1>2 DEF ToSet
  <1>10. \A k \in 1 .. n : s[k] \in counts => e[k] = rest[s[k]]
    BY DEF AddsUp
  <1>. DEFINE q == Elapse(r, new)
  <1>. HIDE DEF n, e, q
  <1>11. AddsUp(r, new, counts2, rest2)
    <2>1. SUFFICES ASSUME NEW k \in 1 .. (n + 1), r[k] \in counts2
                   PROVE  q[k] = rest2[r[k]]
      BY <1>8 DEF AddsUp, q
    <2>2. k \in 0 .. (n + 1)
      BY <1>2
    <2>3. q[k] = IF k < i THEN e[k] ELSE IF k = i THEN ticks ELSE e[k - 1]
      BY <1>7, <1>8, <2>2 DEF q
    <2>4. CASE k < i
      <3>1. k \in 1 .. n /\ r[k] = s[k] /\ q[k] = e[k]
        BY <1>2, <1>4, <1>8, <2>3, <2>4
      <3>2. r[k] # t
        BY <1>9, <3>1
      <3>3. r[k] \in counts /\ rest2[r[k]] = rest[r[k]]
        BY <2>1, <3>2 DEF Carries
      <3> QED
        BY <1>10, <3>1, <3>3
    <2>5. CASE k = i
      <3>1. r[k] = t /\ q[k] = ticks
        BY <1>4, <1>8, <2>3, <2>5
      <3> QED
        BY <2>1, <3>1
    <2>6. CASE k > i
      <3>1. k - 1 \in 1 .. n /\ ~(k < i) /\ k # i
        BY <1>2, <1>4, <2>6
      <3>2. r[k] = s[k - 1] /\ q[k] = e[k - 1]
        BY <1>8, <2>3, <3>1
      <3>3. r[k] # t
        BY <1>9, <3>1, <3>2
      <3>4. r[k] \in counts /\ rest2[r[k]] = rest[r[k]]
        BY <2>1, <3>3 DEF Carries
      <3> QED
        BY <1>10, <3>1, <3>2, <3>4
    <2> QED
      BY <1>4, <2>4, <2>5, <2>6
  <1>12. ASSUME s # <<>>, left[Head(s)] <= ticks
         PROVE  KeepsTop(s, left, r, new)
    <2>1. Head(s) = s[1] /\ 1 \in 1 .. n /\ s[1] \in Timers
      BY <1>1, <1>12, TopTimer DEF n
    <2>2. e[1] = left[s[1]]
      <3>1. 0 \in 0 .. (n - 1)
        BY <1>2, <2>1
      <3>2. e[0 + 1] = e[0] + left[s[0 + 1]]
        BY <1>2, <3>1
      <3>3. left[s[1]] \in Nat
        BY <1>1, <2>1
      <3> QED
        BY <1>2, <3>2, <3>3
    <2>3. i # 1
      <3>1. SUFFICES ASSUME i = 1 PROVE FALSE
        OBVIOUS
      <3>2. ticks < e[1]
        BY <1>2, <1>3, <1>4, <2>1, <3>1
      <3>3. e[1] \in Nat /\ e[1] <= ticks
        BY <1>1, <1>12, <2>1, <2>2
      <3> QED
        BY <3>2, <3>3
    <2>4. 1 < i /\ 1 \in 1 .. (n + 1)
      BY <1>2, <1>4, <2>3
    <2>5. r[1] = s[1]
      BY <1>8, <2>4
    <2>6. r # <<>>
      BY <1>2, <1>8, EmptySeq
    <2>7. Head(r) = s[1]
      BY <1>8, <2>5, <2>6, TopTimer
    <2>8. s[1] # t
      BY <1>9, <2>1
    <2>9. i <= n => s[1] # s[i]
      <3>1. SUFFICES ASSUME i <= n PROVE s[1] # s[i]
        OBVIOUS
      <3>2. i \in 1 .. n
        BY <1>4, <3>1
      <3> QED
        BY <1>1, <1>2, <2>1, <2>3, <3>2 DEF IsInjective
    <2>10. new[s[1]] = left[s[1]]
      BY <1>6, <2>1, <2>8, <2>9 DEF Differs, n
    <2> QED
      BY <2>1, <2>6, <2>7, <2>10 DEF KeepsTop
  <1> QED
    BY <1>7, <1>8, <1>11, <1>12 DEF Listing

\* NutTimerStop: without a timer whose ticks its successor inherits.
LEMMA RemoveAddsUp ==
    ASSUME NEW s, NEW left, Listing(s, left), NEW p, NEW r, TakenOut(s, p, r),
           NEW new, Inherits(s, left, p, new),
           NEW counts, NEW rest, AddsUp(s, left, counts, rest)
    PROVE  /\ Listing(r, new) /\ AddsUp(r, new, counts, rest) /\ s[p] \notin ToSet(r)
           /\ p # 1 => s # <<>> /\ KeepsTop(s, left, r, new)
  <1>. DEFINE n == Len(s)
              e == Elapse(s, left)
              q == Elapse(r, new)
  <1>1. s \in Seq(Timers) /\ left \in [Timers -> Nat] /\ IsInjective(s)
    BY DEF Listing
  <1>2. n \in Nat /\ DOMAIN s = 1 .. n
    BY <1>1, TimersOf
  <1>3. /\ IsInjective(r) /\ s[p] \notin ToSet(r)
        /\ \A k \in 0 .. Len(r) : q[k] = IF k < p THEN e[k] ELSE e[k + 1]
    BY <1>1, RemovedElapse
  <1>4. /\ p \in 1 .. n /\ r \in Seq(Timers) /\ Len(r) = n - 1 /\ new \in [Timers -> Nat]
        /\ \A j \in 1 .. (n - 1) : r[j] = IF j < p THEN s[j] ELSE s[j + 1]
    BY DEF TakenOut, Inherits
  <1>5. \A k \in 1 .. n : s[k] \in counts => e[k] = rest[s[k]]
    BY DEF AddsUp
  <1>. HIDE DEF n, e, q
  <1>6. AddsUp(r, new, counts, rest)
    <2>1. SUFFICES ASSUME NEW k \in 1 .. (n - 1), r[k] \in counts
                   PROVE  q[k] = rest[r[k]]
      BY <1>4 DEF AddsUp, q
    <2>2. k \in 0 .. (n - 1) /\ k \in 1 .. n /\ k + 1 \in 1 .. n
      BY <1>2
    <2>3. q[k] = IF k < p THEN e[k] ELSE e[k + 1]
      BY <1>3, <1>4, <2>2
    <2>4. CASE k < p
      <3>1. r[k] = s[k] /\ q[k] = e[k]
        BY <1>4, <2>3, <2>4
      <3> QED
        BY <1>5, <2>1, <2>2, <3>1
    <2>5. CASE ~(k < p)
      <3>1. r[k] = s[k + 1] /\ q[k] = e[k + 1]
        BY <1>4, <2>3, <2>5
      <3> QED
        BY <1>5, <2>1, <2>2, <3>1
    <2> QED
      BY <2>4, <2>5
  <1>7. ASSUME p # 1
        PROVE  s # <<>> /\ KeepsTop(s, left, r, new)
    <2>1. 1 \in 1 .. (n - 1) /\ 1 < p /\ n # 0
      BY <1>2, <1>4, <1>7
    <2>2. s # <<>>
      BY <1>1, <2>1, EmptySeq DEF n
    <2>3. r # <<>>
      BY <1>2, <1>4, <2>1, EmptySeq
    <2>4. r[1] = s[1]
      BY <1>4, <2>1
    <2>5. Head(s) = s[1] /\ 1 \in 1 .. n /\ s[1] \in Timers
      BY <1>1, <2>2, TopTimer DEF n
    <2>6. Head(r) = s[1]
      BY <1>4, <2>3, <2>4, TopTimer
    <2>7. p < n => s[1] # s[p + 1]
      <3>1. SUFFICES ASSUME p < n PROVE s[1] # s[p + 1]
        OBVIOUS
      <3>2. p + 1 \in 1 .. n /\ p + 1 # 1
        BY <1>2, <1>4, <3>1
      <3> QED
        BY <1>1, <1>2, <2>5, <3>2 DEF IsInjective
    <2>8. new[s[1]] = left[s[1]]
      BY <2>5, <2>7 DEF Inherits, n
    <2> QED
      BY <2>2, <2>3, <2>5, <2>6, <2>8 DEF KeepsTop
  <1> QED
    BY <1>1, <1>3, <1>4, <1>6, <1>7 DEF Listing

\* NutTimerProcessElapsed takes the expired timer off the top.
LEMMA PopAddsUp ==
    ASSUME NEW s, NEW left, Listing(s, left), s # <<>>, left[Head(s)] = 0,
           NEW counts, NEW rest, AddsUp(s, left, counts, rest)
    PROVE  /\ Listing(Tail(s), left) /\ AddsUp(Tail(s), left, counts, rest)
           /\ Head(s) \notin ToSet(Tail(s))
           /\ Head(s) \in counts => rest[Head(s)] = 0
  <1>1. s \in Seq(Timers) /\ left \in [Timers -> Nat] /\ IsInjective(s)
    BY DEF Listing
  <1>2. Head(s) = s[1] /\ 1 \in 1 .. Len(s) /\ s[1] \in Timers /\ Len(s) \in Nat
    BY <1>1, TopTimer
  <1>3. TakenOut(s, 1, Tail(s))
    BY <1>1, TimerPopped
  <1>4. Inherits(s, left, 1, left)
    <2>1. ASSUME 1 < Len(s)
          PROVE  left[s[1 + 1]] = left[s[1 + 1]] + left[s[1]]
      <3>1. 1 + 1 \in 1 .. Len(s)
        BY <1>2, <2>1
      <3>2. left[s[1 + 1]] \in Nat
        BY <1>1, <3>1, TimersOf
      <3> QED
        BY <1>2, <3>2
    <2> QED
      BY <1>1, <2>1 DEF Inherits
  <1>5. Listing(Tail(s), left) /\ AddsUp(Tail(s), left, counts, rest) /\ s[1] \notin ToSet(Tail(s))
    BY <1>3, <1>4, RemoveAddsUp
  <1>6. Elapse(s, left)[1] = 0
    <2>1. 0 \in 0 .. (Len(s) - 1)
      BY <1>2
    <2>2. Elapse(s, left)[0 + 1] = Elapse(s, left)[0] + left[s[0 + 1]] /\ Elapse(s, left)[0] = 0
      BY <1>1, <2>1, ElapseSteps
    <2> QED
      BY <1>2, <2>2
  <1> QED
    BY <1>2, <1>5, <1>6 DEF AddsUp

\* d ticks are taken from a timer that has as many ...
WoundDown(d, left, h, new) == d <= left[h] /\ new = [left EXCEPT ![h] = left[h] - d]

\* ... and every one has d ticks less to go.
LessBy(d, counts, rest, rest2) == \A u \in counts : rest2[u] = rest[u] - d

\* NutTimerProcessElapsed winds the first timer down.
LEMMA SpendAddsUp ==
    ASSUME NEW s, NEW left, Listing(s, left), s # <<>>,
           NEW d \in Nat, NEW new, WoundDown(d, left, Head(s), new),
           NEW counts, NEW rest, AddsUp(s, left, counts, rest),
           NEW rest2, LessBy(d, counts, rest, rest2)
    PROVE  Listing(s, new) /\ AddsUp(s, new, counts, rest2)
  <1>1. s \in Seq(Timers) /\ left \in [Timers -> Nat] /\ IsInjective(s)
    BY DEF Listing
  <1>2. Head(s) = s[1]
    BY <1>1, TopTimer
  <1>3. /\ new \in [Timers -> Nat]
        /\ \A k \in 1 .. Len(s) : Elapse(s, new)[k] = Elapse(s, left)[k] - d
    <2>. DEFINE h == Head(s)
    <2>1. h = s[1] /\ d <= left[h] /\ new = [left EXCEPT ![h] = left[h] - d]
      BY <1>2 DEF WoundDown
    <2>. HIDE DEF h
    <2>2. new \in [Timers -> Nat]
      BY <1>1, <2>1, SpentElapse
    <2>3. EarlierBy(d, s, left, new)
      BY <1>1, <2>1, SpentElapse
    <2> QED
      BY <2>2, <2>3 DEF EarlierBy
  <1>4. ASSUME NEW k \in 1 .. Len(s), s[k] \in counts
        PROVE  Elapse(s, new)[k] = rest2[s[k]]
    <2>1. Elapse(s, left)[k] = rest[s[k]]
      BY <1>4 DEF AddsUp
    <2>2. Elapse(s, new)[k] = Elapse(s, left)[k] - d
      BY <1>3
    <2>3. rest2[s[k]] = rest[s[k]] - d
      BY <1>4 DEF LessBy
    <2> QED
      BY <2>1, <2>2, <2>3
  <1>5. AddsUp(s, new, counts, rest2)
    BY <1>4 DEF AddsUp
  <1> QED
    BY <1>1, <1>3, <1>5 DEF Listing

\* Fewer timers count, or the same is said of those in the list.
LEMMA StillAddsUp ==
    ASSUME NEW s, NEW left, NEW counts, NEW rest, AddsUp(s, left, counts, rest),
           NEW counts2, NEW rest2,
           \A k \in 1 .. Len(s) : s[k] \in counts2 => s[k] \in counts /\ rest2[s[k]] = rest[s[k]]
    PROVE  AddsUp(s, left, counts2, rest2)
  BY DEF AddsUp

-----------------------------------------------------------------------------
(* The invariant                                                           *)

\* The timers of which the list tells the time that is really left ...
Counting == {u \in Timers : tn_callback[u] /\ u \notin charged}

\* ... and this time, counted from the last tick that has been spent.
Rest == [u \in Timers |-> due[u] + Gap + ticks_new]

\* ProcessElapsed leaves no ticks behind, and the timer whose callback runs
\* or that is to be taken off has none left.
AtWork ==
    /\ pc = "idle" => ticks_new = 0
    /\ pc \in {"callback", "remove"} => tn \in Timers /\ tn_ticks_left[tn] = 0

TimerInv ==
    TypeOK /\ ListIntact /\ AtWork /\ AddsUp(nutTimerList, tn_ticks_left, Counting, Rest)

\* The parts of TimerInv that a step changes together.
LEMMA InvParts ==
    ASSUME TimerInv
    PROVE  /\ Listing(nutTimerList, tn_ticks_left)
           /\ AddsUp(nutTimerList, tn_ticks_left, Counting, Rest)
           /\ Gap \in Nat /\ ticks_new \in Nat /\ due \in [Timers -> Int]
           /\ \A u \in Timers : Rest[u] = due[u] + Gap + ticks_new
  <1>1. Gap \in Nat
    <2>1. (nut_ticks - nut_ticks_resume) \in Int /\ TickModulus \in Nat \ {0}
      BY TimerAssumption DEF TimerInv, TypeOK
    <2> QED
      BY <2>1 DEF Gap
  <1>2. ticks_new \in Nat
    BY TimerAssumption DEF TimerInv, TypeOK
  <1> QED
    BY <1>1, <1>2 DEF TimerInv, TypeOK, ListIntact, Listing, Rest

\* What the Insert of an action does.
LEMMA InsertStep ==
    ASSUME NEW s, NEW left, NEW t, NEW ticks, Insert(s, left, t, ticks)
    PROVE  /\ nutTimerList' = InsertAt(s, InsertPosition(s, left, ticks), t)
           /\ tn_ticks_left' = InsertedLeft(s, left, t, ticks)
  BY DEF Insert, InsertedLeft

\* The clock read later without a tick or a ProcessElapsed in between.
LEMMA GapStays ==
    ASSUME UNCHANGED <<nut_ticks, nut_ticks_resume>>
    PROVE  Gap' = Gap
  BY DEF Gap

\* NutTimerStart, by a thread or by a callback.
LEMMA StartKeeps ==
    ASSUME TimerInv, NEW t \in Timers, NEW ticks \in Ticks, NEW oneshot \in BOOLEAN,
           StartTicks(t, ticks, oneshot),
           UNCHANGED <<nut_ticks, nut_ticks_resume, ticks_new, tn, pc>>,
           charged' \in SUBSET Timers, \A u \in charged : u # t => u \in charged',
           t \notin charged' => ticks_new = 0
    PROVE  TimerInv'
  <1>. DEFINE s == nutTimerList
              left == tn_ticks_left
              own == StartLeft(ticks)
  <1>1. /\ Listing(s, left) /\ AddsUp(s, left, Counting, Rest)
        /\ Gap \in Nat /\ ticks_new \in Nat /\ due \in [Timers -> Int]
        /\ \A u \in Timers : Rest[u] = due[u] + Gap + ticks_new
    BY InvParts
  <1>2. ticks \in Nat /\ own = ticks + Gap /\ own \in Nat
    BY <1>1, TimerAssumption DEF StartLeft
  <1>3. t \notin ToSet(s)
    BY DEF StartTicks, Listed
  <1>4. /\ nutTimerList' = InsertAt(s, InsertPosition(s, left, own), t)
        /\ tn_ticks_left' = InsertedLeft(s, left, t, own)
    BY InsertStep DEF StartTicks
  <1>5. Gap' = Gap /\ ticks_new' = ticks_new
    BY GapStays
  <1>6. due' = [due EXCEPT ![t] = ticks] /\ tn_callback' = [tn_callback EXCEPT ![t] = TRUE]
    BY DEF StartTicks
  <1>7. tn_callback \in [Timers -> BOOLEAN]
    BY DEF TimerInv, TypeOK
  <1>8. \A u \in Timers : Rest'[u] = due'[u] + Gap + ticks_new
    BY <1>5 DEF Rest
  <1>9. Carries(Counting, Rest, Counting', Rest', t)
    <2>1. SUFFICES ASSUME NEW u \in Counting', u # t
                   PROVE  u \in Counting /\ Rest'[u] = Rest[u]
      BY DEF Carries
    <2>2. u \in Timers /\ tn_callback'[u] /\ u \notin charged'
      BY DEF Counting
    <2>3. tn_callback[u] /\ u \notin charged /\ due'[u] = due[u]
      BY <1>1, <1>6, <1>7, <2>1, <2>2
    <2> QED
      BY <1>1, <1>8, <2>2, <2>3 DEF Counting
  <1>10. t \in Counting' => Rest'[t] = own
    <2>1. SUFFICES ASSUME t \in Counting' PROVE Rest'[t] = own
      OBVIOUS
    <2>2. ticks_new = 0
      BY <2>1 DEF Counting
    <2>3. due'[t] = ticks
      BY <1>1, <1>6
    <2> QED
      BY <1>1, <1>2, <1>8, <2>2, <2>3
  <1>11. /\ Listing(nutTimerList', tn_ticks_left')
         /\ AddsUp(nutTimerList', tn_ticks_left', Counting', Rest')
         /\ s # <<>> /\ left[Head(s)] <= own => KeepsTop(s, left, nutTimerList', tn_ticks_left')
    <2>. HIDE DEF own
    <2> QED
      BY <1>1, <1>2, <1>3, <1>4, <1>9, <1>10, InsertAddsUp
  <1>12. pc \in {"callback", "remove"} =>
           nutTimerList' # <<>> /\ Head(nutTimerList') = tn /\ tn_ticks_left'[tn] = 0 /\ tn \in Timers
    <2>1. SUFFICES ASSUME pc \in {"callback", "remove"}
                   PROVE  /\ nutTimerList' # <<>> /\ Head(nutTimerList') = tn
                          /\ tn_ticks_left'[tn] = 0 /\ tn \in Timers
      OBVIOUS
    <2>2. s # <<>> /\ Head(s) = tn /\ left[tn] = 0 /\ tn \in Timers
      BY <2>1 DEF TimerInv, ListIntact, AtWork
    <2>3. left[Head(s)] <= own
      BY <1>2, <2>2
    <2> QED
      BY <1>11, <2>2, <2>3 DEF KeepsTop
  <1>13. TypeOK'
    <2>1. nut_ticks' \in 0 .. (TickModulus - 1) /\ nut_ticks_resume' \in 0 .. (TickModulus - 1)
      BY DEF TimerInv, TypeOK
    <2>2. nutTimerList' \in Seq(Timers) /\ tn_ticks_left' \in [Timers -> Nat]
      BY <1>11 DEF Listing
    <2>3. tn_ticks' \in [Timers -> Ticks \cup {0}]
      BY DEF TimerInv, TypeOK, StartTicks
    <2>4. tn_callback' \in [Timers -> BOOLEAN]
      BY <1>6, <1>7
    <2>5. ticks_new' \in 0 .. (TickModulus - 1) /\ tn' \in Timers \cup {NoTimer}
      BY DEF TimerInv, TypeOK
    <2>6. pc' \in {"idle", "loop", "callback", "remove"}
      BY DEF TimerInv, TypeOK
    <2>7. due' \in [Timers -> Int]
      BY <1>1, <1>2, <1>6
    <2>8. charged' \subseteq Timers
      OBVIOUS
    <2> QED
      BY <2>1, <2>2, <2>3, <2>4, <2>5, <2>6, <2>7, <2>8 DEF TypeOK
  <1>14. ListIntact'
    BY <1>11, <1>12 DEF ListIntact, Listing
  <1>15. AtWork'
    BY <1>12 DEF AtWork, TimerInv
  <1> QED
    BY <1>11, <1>13, <1>14, <1>15 DEF TimerInv

\* Where a timer of the list is.
LEMMA PositionOf ==
    ASSUME TimerInv, NEW t \in Listed
    PROVE  Position(t) \in 1 .. Len(nutTimerList) /\ nutTimerList[Position(t)] = t
  <1>1. nutTimerList \in Seq(Timers) /\ DOMAIN nutTimerList = 1 .. Len(nutTimerList)
    BY TimersOf DEF TimerInv, TypeOK
  <1>2. \E i \in DOMAIN nutTimerList : nutTimerList[i] = t
    BY DEF Listed, ToSet
  <1> QED
    BY <1>1, <1>2 DEF Position

\* NutTimerStop, by a thread or by a callback.
LEMMA StopKeeps ==
    ASSUME TimerInv, NEW t \in Timers, Stop(t),
           UNCHANGED <<nut_ticks, nut_ticks_resume, ticks_new, tn, pc, charged>>
    PROVE  TimerInv'
  <1>. DEFINE s == nutTimerList
              left == tn_ticks_left
              p == Position(t)
  <1>1. /\ Listing(s, left) /\ AddsUp(s, left, Counting, Rest)
        /\ Gap \in Nat /\ ticks_new \in Nat /\ due \in [Timers -> Int]
        /\ \A u \in Timers : Rest[u] = due[u] + Gap + ticks_new
    BY InvParts
  <1>2. t \in Listed /\ p \in 1 .. Len(s) /\ s[p] = t
    BY PositionOf DEF Stop
  <1>3. Gap' = Gap /\ ticks_new' = ticks_new
    BY GapStays
  <1>4. /\ due' = [due EXCEPT ![t] = 0] /\ tn_callback' = [tn_callback EXCEPT ![t] = FALSE]
        /\ tn_ticks' = [tn_ticks EXCEPT ![t] = 0]
    BY DEF Stop, Disarm
  <1>5. tn_callback \in [Timers -> BOOLEAN] /\ s \in Seq(Timers) /\ left \in [Timers -> Nat]
    BY DEF TimerInv, TypeOK
  <1>6. \A u \in Timers : Rest'[u] = due'[u] + Gap + ticks_new
    BY <1>3 DEF Rest
  <1>7. t \notin Counting'
    BY <1>4, <1>5 DEF Counting
  <1>8. Carries(Counting, Rest, Counting', Rest', t)
    <2>1. SUFFICES ASSUME NEW u \in Counting', u # t
                   PROVE  u \in Counting /\ Rest'[u] = Rest[u]
      BY DEF Carries
    <2>2. u \in Timers /\ tn_callback'[u] /\ u \notin charged'
      BY DEF Counting
    <2>3. tn_callback[u] /\ u \notin charged /\ due'[u] = due[u]
      BY <1>1, <1>4, <1>5, <2>1, <2>2
    <2> QED
      BY <1>1, <1>6, <2>2, <2>3 DEF Counting
  <1>9. pc \in {"callback", "remove"} =>
           s # <<>> /\ Head(s) = tn /\ left[tn] = 0 /\ tn \in Timers
    BY DEF TimerInv, ListIntact, AtWork
  <1>. DEFINE Kept == /\ Listing(nutTimerList', tn_ticks_left')
                      /\ AddsUp(nutTimerList', tn_ticks_left', Counting', Rest')
                      /\ pc \in {"callback", "remove"} =>
                           /\ nutTimerList' # <<>> /\ Head(nutTimerList') = tn
                           /\ tn_ticks_left'[tn] = 0 /\ tn \in Timers
  <1>10. ASSUME left[t] > 0 PROVE Kept
    <2>. DEFINE r == RemoveAt(s, p)
                mid == Unlinked(t)
    <2>1. Insert(r, mid, t, 0)
      BY <1>10 DEF Stop
    <2>2. mid = RemovedLeft(s, left, p)
      BY <1>2 DEF Unlinked, RemovedLeft
    <2>3. TakenOut(s, p, r)
      BY <1>2, <1>5, TimerTakenOut
    <2>4. Inherits(s, left, p, mid)
      BY <1>2, <1>5, <2>2, RemovedInherits
    <2>. HIDE DEF r, mid
    <2>5. /\ Listing(r, mid) /\ AddsUp(r, mid, Counting, Rest) /\ t \notin ToSet(r)
          /\ p # 1 => s # <<>> /\ KeepsTop(s, left, r, mid)
      <3>1. s[p] \notin ToSet(r)
        BY <1>1, <2>3, <2>4, RemoveAddsUp
      <3>2. /\ Listing(r, mid) /\ AddsUp(r, mid, Counting, Rest)
            /\ p # 1 => s # <<>> /\ KeepsTop(s, left, r, mid)
        BY <1>1, <2>3, <2>4, RemoveAddsUp
      <3> QED
        BY <1>2, <3>1, <3>2
    <2>6. /\ nutTimerList' = InsertAt(r, InsertPosition(r, mid, 0), t)
          /\ tn_ticks_left' = InsertedLeft(r, mid, t, 0)
      BY <2>1, InsertStep
    <2>7. /\ Listing(nutTimerList', tn_ticks_left')
          /\ AddsUp(nutTimerList', tn_ticks_left', Counting', Rest')
          /\ r # <<>> /\ mid[Head(r)] <= 0 => KeepsTop(r, mid, nutTimerList', tn_ticks_left')
      <3>. DEFINE ticks == 0
      <3>1. ticks \in Nat /\ (t \in Counting' => Rest'[t] = ticks)
        BY <1>7
      <3>2. /\ nutTimerList' = InsertAt(r, InsertPosition(r, mid, ticks), t)
            /\ tn_ticks_left' = InsertedLeft(r, mid, t, ticks)
        BY <2>6
      <3>. HIDE DEF ticks
      <3>3. /\ Listing(nutTimerList', tn_ticks_left')
            /\ AddsUp(nutTimerList', tn_ticks_left', Counting', Rest')
            /\ r # <<>> /\ mid[Head(r)] <= ticks => KeepsTop(r, mid, nutTimerList', tn_ticks_left')
        BY <1>8, <2>5, <3>1, <3>2, InsertAddsUp
      <3> QED
        BY <3>3 DEF ticks
    <2>8. pc \in {"callback", "remove"} =>
            /\ nutTimerList' # <<>> /\ Head(nutTimerList') = tn
            /\ tn_ticks_left'[tn] = 0 /\ tn \in Timers
      <3>1. SUFFICES ASSUME pc \in {"callback", "remove"}
                     PROVE  /\ nutTimerList' # <<>> /\ Head(nutTimerList') = tn
                            /\ tn_ticks_left'[tn] = 0 /\ tn \in Timers
        OBVIOUS
      <3>2. s # <<>> /\ Head(s) = tn /\ left[tn] = 0 /\ tn \in Timers
        BY <1>9, <3>1
      <3>3. p # 1
        <4>1. s[1] = tn /\ t # tn
          BY <1>5, <1>10, <3>2, TopTimer
        <4> QED
          BY <1>2, <4>1
      <3>4. r # <<>> /\ Head(r) = tn /\ mid[tn] = 0
        BY <2>5, <3>2, <3>3 DEF KeepsTop
      <3>5. mid[Head(r)] <= 0
        BY <3>4
      <3> QED
        BY <2>7, <3>2, <3>4, <3>5 DEF KeepsTop
    <2> QED
      BY <2>7, <2>8
  <1>11. ASSUME ~(left[t] > 0) PROVE Kept
    <2>1. nutTimerList' = s /\ tn_ticks_left' = left
      BY <1>11 DEF Stop
    <2>2. AddsUp(s, left, Counting', Rest')
      <3>1. \A k \in 1 .. Len(s) :
              s[k] \in Counting' => s[k] \in Counting /\ Rest'[s[k]] = Rest[s[k]]
        BY <1>7, <1>8 DEF Carries
      <3> QED
        BY <1>1, <3>1, StillAddsUp
    <2> QED
      BY <1>1, <1>9, <2>1, <2>2
  <1>12. Kept
    BY <1>10, <1>11
  <1>13. TypeOK'
    <2>1. nut_ticks' \in 0 .. (TickModulus - 1) /\ nut_ticks_resume' \in 0 .. (TickModulus - 1)
      BY DEF TimerInv, TypeOK
    <2>2. nutTimerList' \in Seq(Timers) /\ tn_ticks_left' \in [Timers -> Nat]
      BY <1>12 DEF Listing
    <2>3. tn_ticks' \in [Timers -> Ticks \cup {0}]
      BY <1>4 DEF TimerInv, TypeOK
    <2>4. tn_callback' \in [Timers -> BOOLEAN]
      BY <1>4, <1>5
    <2>5. ticks_new' \in 0 .. (TickModulus - 1) /\ tn' \in Timers \cup {NoTimer}
      BY DEF TimerInv, TypeOK
    <2>6. pc' \in {"idle", "loop", "callback", "remove"}
      BY DEF TimerInv, TypeOK
    <2>7. due' \in [Timers -> Int]
      BY <1>1, <1>4
    <2>8. charged' \subseteq Timers
      BY DEF TimerInv, TypeOK
    <2> QED
      BY <2>1, <2>2, <2>3, <2>4, <2>5, <2>6, <2>7, <2>8 DEF TypeOK
  <1>14. ListIntact'
    BY <1>12 DEF ListIntact, Listing
  <1>15. AtWork'
    BY <1>12 DEF AtWork, TimerInv
  <1> QED
    BY <1>12, <1>13, <1>14, <1>15 DEF TimerInv

\* A tick is one more in the width of the counter, also when it wraps.
LEMMA TickCounts ==
    ASSUME TimerInv, Tick
    PROVE  Gap' = Gap + 1
  <1>1. PICK a \in Int, b \in Int, M \in Nat \ {0} :
          a = nut_ticks /\ b = nut_ticks_resume /\ M = TickModulus
    BY TimerAssumption DEF TimerInv, TypeOK
  <1>2. Gap = (a - b) % M
    BY <1>1 DEF Gap
  <1>3. Gap' = (((a + 1) % M) - b) % M
    BY <1>1 DEF Gap, Tick
  <1>4. Gap \in Nat /\ Gap < MaxGap
    BY InvParts DEF Tick
  <1>5. PICK g \in Nat : g = Gap /\ g + 1 \in 0 .. (M - 1)
    <2>1. MaxGap \in 1 .. (M - 1)
      BY <1>1, TimerAssumption
    <2> QED
      BY <1>4, <2>1
  <1>6. PICK x \in Int, y \in Int, z \in Int, one \in Int :
          x = a + 1 /\ y = -b /\ z = a - b /\ one = 1
    OBVIOUS
  <1>7. ((x % M) + y) % M = (x + y) % M
    BY ModAdd
  <1>8. ((z % M) + one) % M = (z + one) % M
    BY ModAdd
  <1>9. x + y = z + one
    BY <1>6
  <1>10. (x % M) - b = (x % M) + y
    <2>1. x % M \in Int
      BY ModSmall
    <2> QED
      BY <1>6, <2>1
  <1>11. Gap' = (g + 1) % M
    BY <1>2, <1>3, <1>5, <1>6, <1>7, <1>8, <1>9, <1>10
  <1>12. (g + 1) % M = g + 1
    BY <1>5, ModSmall
  <1> QED
    BY <1>5, <1>11, <1>12

\* NutTimerIntr.
LEMMA TickKeeps ==
    ASSUME TimerInv, Tick
    PROVE  TimerInv'
  <1>1. /\ Listing(nutTimerList, tn_ticks_left)
        /\ AddsUp(nutTimerList, tn_ticks_left, Counting, Rest)
        /\ Gap \in Nat /\ ticks_new \in Nat /\ due \in [Timers -> Int]
        /\ \A u \in Timers : Rest[u] = due[u] + Gap + ticks_new
    BY InvParts
  <1>2. Gap' = Gap + 1
    BY TickCounts
  <1>3. /\ due' = [t \in Timers |-> IF t \in Listed /\ tn_callback[t] THEN due[t] - 1 ELSE due[t]]
        /\ UNCHANGED <<nut_ticks_resume, nutTimerList, tn_ticks_left, tn_ticks,
                       tn_callback, ticks_new, tn, pc, charged>>
    BY DEF Tick
  <1>4. Counting' = Counting
    BY <1>3 DEF Counting
  <1>5. ASSUME NEW k \in 1 .. Len(nutTimerList), nutTimerList[k] \in Counting'
        PROVE  nutTimerList[k] \in Counting /\ Rest'[nutTimerList[k]] = Rest[nutTimerList[k]]
    <2>. DEFINE u == nutTimerList[k]
    <2>1. u \in Counting /\ u \in Timers /\ tn_callback[u]
      BY <1>4, <1>5 DEF Counting
    <2>2. u \in Listed
      <3>1. DOMAIN nutTimerList = 1 .. Len(nutTimerList)
        BY TimersOf DEF TimerInv, TypeOK
      <3> QED
        BY <3>1 DEF Listed, ToSet
    <2>. HIDE DEF u
    <2>3. due'[u] = due[u] - 1
      BY <1>3, <2>1, <2>2
    <2>4. Rest'[u] = due'[u] + Gap' + ticks_new'
      BY <2>1 DEF Rest
    <2>5. Rest[u] = due[u] + Gap + ticks_new
      BY <1>1, <2>1
    <2>6. PICK d \in Int, g \in Int, n \in Int : d = due[u] /\ g = Gap /\ n = ticks_new
      BY <1>1, <2>1
    <2>7. Rest'[u] = (d - 1) + (g + 1) + n
      BY <1>2, <1>3, <2>3, <2>4, <2>6
    <2>8. Rest[u] = d + g + n
      BY <2>5, <2>6
    <2>9. (d - 1) + (g + 1) + n = d + g + n
      OBVIOUS
    <2>10. u \in Counting /\ Rest'[u] = Rest[u]
      BY <2>1, <2>7, <2>8, <2>9
    <2> QED
      BY <2>10 DEF u
  <1>6. AddsUp(nutTimerList, tn_ticks_left, Counting', Rest')
    BY <1>1, <1>5, StillAddsUp
  <1>7. AddsUp(nutTimerList, tn_ticks_left, Counting, Rest)'
    BY <1>3, <1>6
  <1>8. TypeOK'
    <2>1. nut_ticks' \in 0 .. (TickModulus - 1)
      <3>1. PICK a \in Int, M \in Nat \ {0} : a = nut_ticks /\ M = TickModulus
        BY TimerAssumption DEF TimerInv, TypeOK
      <3>2. nut_ticks' = (a + 1) % M
        BY <3>1 DEF Tick
      <3>3. (a + 1) % M \in 0 .. (M - 1)
        BY ModSmall
      <3> QED
        BY <3>1, <3>2, <3>3
    <2>2. tn_callback' \in [Timers -> BOOLEAN]
      BY <1>3 DEF TimerInv, TypeOK
    <2>3. due' \in [Timers -> Int]
      BY <1>1, <1>3
    <2> QED
      BY <1>3, <2>1, <2>2, <2>3 DEF TimerInv, TypeOK
  <1>9. ListIntact' /\ AtWork'
    BY <1>3 DEF ListIntact, AtWork, TimerInv
  <1> QED
    BY <1>7, <1>8, <1>9 DEF TimerInv

\* NutTimerProcessElapsed reads the clock.
LEMMA ProcessKeeps ==
    ASSUME TimerInv, Process
    PROVE  TimerInv'
  <1>1. /\ AddsUp(nutTimerList, tn_ticks_left, Counting, Rest)
        /\ Gap \in Nat /\ ticks_new \in Nat /\ due \in [Timers -> Int]
        /\ \A u \in Timers : Rest[u] = due[u] + Gap + ticks_new
    BY InvParts
  <1>2. /\ ticks_new' = Gap /\ ticks_new = 0 /\ pc' = "loop" /\ nut_ticks_resume' = nut_ticks
        /\ UNCHANGED <<nut_ticks, nutTimerList, tn_ticks_left, tn_ticks, tn_callback, tn,
                       due, charged>>
    BY DEF Process, TimerInv, AtWork
  <1>3. Gap' = 0
    <2>1. PICK a \in Int, M \in Nat \ {0} : a = nut_ticks /\ M = TickModulus
      BY TimerAssumption DEF TimerInv, TypeOK
    <2>2. Gap' = (a - a) % M
      BY <1>2, <2>1 DEF Gap
    <2>3. a - a = 0 /\ 0 \in 0 .. (M - 1)
      OBVIOUS
    <2> QED
      BY <2>2, <2>3, ModSmall
  <1>4. Counting' = Counting
    BY <1>2 DEF Counting
  <1>5. Rest' = Rest
    <2>1. ASSUME NEW u \in Timers
          PROVE  due'[u] + Gap' + ticks_new' = due[u] + Gap + ticks_new
      <3>1. PICK d \in Int, g \in Int : d = due[u] /\ g = Gap
        BY <1>1
      <3>2. due'[u] + Gap' + ticks_new' = d + 0 + g /\ due[u] + Gap + ticks_new = d + g + 0
        BY <1>2, <1>3, <3>1
      <3> QED
        BY <3>2
    <2> QED
      BY <2>1 DEF Rest
  <1>6. AddsUp(nutTimerList, tn_ticks_left, Counting, Rest)'
    BY <1>1, <1>2, <1>4, <1>5
  <1>7. TypeOK'
    <2>1. ticks_new' \in 0 .. (TickModulus - 1)
      <3>1. PICK c \in Int, M \in Nat \ {0} : c = nut_ticks - nut_ticks_resume /\ M = TickModulus
        BY TimerAssumption DEF TimerInv, TypeOK
      <3>2. ticks_new' = c % M
        BY <1>2, <3>1 DEF Gap
      <3> QED
        BY <3>1, <3>2, ModSmall
    <2>2. tn_callback' \in [Timers -> BOOLEAN] /\ nut_ticks_resume' \in 0 .. (TickModulus - 1)
      BY <1>2 DEF TimerInv, TypeOK
    <2> QED
      BY <1>2, <2>1, <2>2 DEF TimerInv, TypeOK
  <1>8. ListIntact' /\ AtWork'
    BY <1>2 DEF ListIntact, AtWork, TimerInv
  <1> QED
    BY <1>6, <1>7, <1>8 DEF TimerInv

\* NutTimerProcessElapsed spends ticks on the first timer.
LEMMA SpendKeeps ==
    ASSUME TimerInv, Spend
    PROVE  TimerInv'
  <1>. DEFINE s == nutTimerList
              left == tn_ticks_left
              h == Head(s)
  <1>1. /\ Listing(s, left) /\ AddsUp(s, left, Counting, Rest)
        /\ Gap \in Nat /\ ticks_new \in Nat /\ due \in [Timers -> Int]
        /\ \A u \in Timers : Rest[u] = due[u] + Gap + ticks_new
    BY InvParts
  <1>2. UNCHANGED <<nut_ticks, nut_ticks_resume, nutTimerList, tn_ticks, tn_callback, due, charged>>
    BY DEF Spend
  <1>3. Gap' = Gap /\ Counting' = Counting
    BY <1>2, GapStays DEF Counting
  <1>4. \A u \in Timers : Rest'[u] = due[u] + Gap + ticks_new'
    BY <1>2, <1>3 DEF Rest
  <1>5. tn_callback \in [Timers -> BOOLEAN] /\ tn_callback' \in [Timers -> BOOLEAN]
    BY <1>2 DEF TimerInv, TypeOK
  <1>6. CASE s = <<>> \/ ticks_new = 0
    <2>1. pc' = "idle" /\ ticks_new' = 0 /\ tn' = NoTimer /\ tn_ticks_left' = left
      BY <1>6 DEF Spend
    <2>2. AddsUp(nutTimerList, tn_ticks_left, Counting, Rest)'
      <3>1. ASSUME NEW k \in 1 .. Len(s), s[k] \in Counting'
            PROVE  s[k] \in Counting /\ Rest'[s[k]] = Rest[s[k]]
        <4>1. s # <<>>
          <5>1. SUFFICES ASSUME s = <<>> PROVE FALSE
            OBVIOUS
          <5>2. Len(s) = 0
            BY <5>1
          <5> QED
            BY <5>2
        <4>2. ticks_new = 0
          BY <1>6, <4>1
        <4>3. s[k] \in Counting /\ s[k] \in Timers
          BY <1>3, <3>1 DEF Counting
        <4> QED
          BY <1>1, <1>4, <2>1, <4>2, <4>3
      <3>2. AddsUp(s, left, Counting', Rest')
        BY <1>1, <3>1, StillAddsUp
      <3> QED
        BY <1>2, <2>1, <3>2
    <2>3. ticks_new' \in 0 .. (TickModulus - 1)
      BY <2>1, TimerAssumption
    <2>4. TypeOK'
      BY <1>2, <1>5, <2>1, <2>3 DEF TimerInv, TypeOK
    <2>5. ListIntact' /\ AtWork'
      BY <1>2, <2>1 DEF ListIntact, AtWork, TimerInv
    <2> QED
      BY <2>2, <2>4, <2>5 DEF TimerInv
  <1>7. CASE ~(s = <<>> \/ ticks_new = 0)
    <2>1. /\ tn' = h /\ s # <<>> /\ h \in Timers /\ left[h] \in Nat /\ pc = "loop"
          /\ IF ticks_new < left[h]
             THEN /\ tn_ticks_left' = [left EXCEPT ![h] = @ - ticks_new]
                  /\ ticks_new' = 0 /\ pc' = pc
             ELSE /\ ticks_new' = ticks_new - left[h]
                  /\ tn_ticks_left' = [left EXCEPT ![h] = 0]
                  /\ pc' = IF tn_callback[h] THEN "callback" ELSE "remove"
      BY <1>1, <1>7, TopTimer DEF Spend, Listing
    <2>2. PICK n \in Nat, v \in Nat, g \in Nat : n = ticks_new /\ v = left[h] /\ g = Gap
      BY <1>1, <2>1
    <2>3. PICK d \in Nat : /\ d <= left[h] /\ d <= n
                           /\ tn_ticks_left' = [left EXCEPT ![h] = left[h] - d]
                           /\ ticks_new' = n - d
                           /\ pc' # "loop" => d = v
      <3>1. CASE n < v
        <4>1. /\ tn_ticks_left' = [left EXCEPT ![h] = left[h] - n]
              /\ ticks_new' = 0 /\ pc' = "loop"
          BY <2>1, <2>2, <3>1
        <4>2. n <= left[h] /\ n <= n /\ n - n = 0
          BY <2>2, <3>1
        <4> QED
          BY <4>1, <4>2
      <3>2. CASE ~(n < v)
        <4>1. /\ tn_ticks_left' = [left EXCEPT ![h] = 0] /\ ticks_new' = n - v
          BY <2>1, <2>2, <3>2
        <4>2. left[h] - v = 0 /\ v <= left[h] /\ v <= n
          BY <2>2, <3>2
        <4> QED
          BY <4>1, <4>2
      <3> QED
        BY <3>1, <3>2
    <2>4. \A u \in Counting : Rest'[u] = Rest[u] - d
      <3>1. SUFFICES ASSUME NEW u \in Counting PROVE Rest'[u] = Rest[u] - d
        OBVIOUS
      <3>2. u \in Timers
        BY DEF Counting
      <3>3. PICK y \in Int : y = due[u]
        BY <1>1, <3>2
      <3>4. Rest'[u] = y + g + (n - d) /\ Rest[u] = y + g + n
        BY <1>1, <1>4, <2>2, <2>3, <3>2, <3>3
      <3> QED
        BY <3>4
    <2>5. Listing(s, tn_ticks_left') /\ AddsUp(s, tn_ticks_left', Counting, Rest')
      <3>1. PICK new, rest2 : new = tn_ticks_left' /\ rest2 = Rest'
        OBVIOUS
      <3>2. WoundDown(d, left, h, new)
        BY <2>3, <3>1 DEF WoundDown
      <3>3. LessBy(d, Counting, Rest, rest2)
        BY <2>4, <3>1 DEF LessBy
      <3>4. s # <<>>
        BY <2>1
      <3>5. Listing(s, new) /\ AddsUp(s, new, Counting, rest2)
        BY <1>1, <3>2, <3>3, <3>4, SpendAddsUp
      <3> QED
        BY <3>1, <3>5
    <2>6. AddsUp(nutTimerList, tn_ticks_left, Counting, Rest)'
      BY <1>2, <1>3, <2>5
    <2>7. TypeOK'
      <3>1. ticks_new' \in 0 .. (TickModulus - 1)
        <4>1. PICK M \in Nat : M = TickModulus /\ n \in 0 .. (M - 1)
          BY <2>2, TimerAssumption DEF TimerInv, TypeOK
        <4>2. n - d \in 0 .. (M - 1)
          BY <2>3, <4>1
        <4> QED
          BY <2>3, <4>1, <4>2
      <3>2. tn_ticks_left' \in [Timers -> Nat] /\ tn' \in Timers \cup {NoTimer}
        BY <2>1, <2>5 DEF Listing
      <3>3. pc' \in {"idle", "loop", "callback", "remove"}
        BY <2>1
      <3> QED
        BY <1>2, <1>5, <3>1, <3>2, <3>3 DEF TimerInv, TypeOK
    <2>8. ListIntact'
      BY <1>2, <2>1 DEF ListIntact, TimerInv
    <2>9. AtWork'
      <3>1. pc' # "idle"
        BY <2>1
      <3>2. pc' # "loop" => tn_ticks_left'[tn'] = 0
        <4>1. SUFFICES ASSUME pc' # "loop" PROVE tn_ticks_left'[tn'] = 0
          OBVIOUS
        <4>2. left[h] - d = 0
          BY <2>2, <2>3, <4>1
        <4> QED
          BY <1>1, <2>1, <2>3, <4>2 DEF Listing
      <3> QED
        BY <2>1, <3>1, <3>2 DEF AtWork
    <2> QED
      BY <2>6, <2>7, <2>8, <2>9 DEF TimerInv
  <1> QED
    BY <1>6, <1>7

\* NutTimerProcessElapsed takes the top off and puts a periodic timer in again.
LEMMA RemoveTopKeeps ==
    ASSUME TimerInv, RemoveTop
    PROVE  TimerInv'
  <1>. DEFINE s == nutTimerList
              left == tn_ticks_left
              r == Tail(s)
  <1>1. /\ Listing(s, left) /\ AddsUp(s, left, Counting, Rest)
        /\ Gap \in Nat /\ ticks_new \in Nat /\ due \in [Timers -> Int]
        /\ \A u \in Timers : Rest[u] = due[u] + Gap + ticks_new
    BY InvParts
  <1>2. pc = "remove" /\ s # <<>> /\ Head(s) = tn /\ tn \in Timers /\ left[tn] = 0
    BY DEF RemoveTop, TimerInv, ListIntact, AtWork
  <1>3. /\ Listing(r, left) /\ AddsUp(r, left, Counting, Rest) /\ tn \notin ToSet(r)
        /\ tn \in Counting => Rest[tn] = 0
    BY <1>1, <1>2, PopAddsUp
  <1>4. /\ pc' = "loop"
        /\ UNCHANGED <<nut_ticks, nut_ticks_resume, tn_ticks, ticks_new, tn, charged>>
    BY DEF RemoveTop
  <1>5. Gap' = Gap
    BY <1>4, GapStays
  <1>6. \A u \in Timers : Rest'[u] = due'[u] + Gap + ticks_new
    BY <1>4, <1>5 DEF Rest
  <1>7. tn_callback \in [Timers -> BOOLEAN] /\ left \in [Timers -> Nat]
    BY DEF TimerInv, TypeOK
  <1>. HIDE DEF r
  <1>. DEFINE Kept == /\ Listing(nutTimerList', tn_ticks_left')
                      /\ AddsUp(nutTimerList', tn_ticks_left', Counting', Rest')
                      /\ tn_callback' \in [Timers -> BOOLEAN] /\ due' \in [Timers -> Int]
  <1>8. ASSUME tn_ticks[tn] = 0
        PROVE  Kept
    <2>1. /\ nutTimerList' = r /\ tn_ticks_left' = [left EXCEPT ![tn] = 0]
          /\ tn_callback' = [tn_callback EXCEPT ![tn] = FALSE]
          /\ due' = [due EXCEPT ![tn] = 0]
      BY <1>8 DEF RemoveTop, r
    <2>2. tn_ticks_left' = left
      BY <1>2, <1>7, <2>1
    <2>3. ASSUME NEW k \in 1 .. Len(r), r[k] \in Counting'
          PROVE  r[k] \in Counting /\ Rest'[r[k]] = Rest[r[k]]
      <3>1. r[k] \in Timers /\ tn_callback'[r[k]] /\ r[k] \notin charged
        BY <1>4, <2>3 DEF Counting
      <3>2. r[k] # tn
        BY <1>2, <1>7, <2>1, <3>1
      <3>3. tn_callback[r[k]] /\ due'[r[k]] = due[r[k]]
        BY <1>1, <1>7, <2>1, <3>1, <3>2
      <3> QED
        BY <1>1, <1>6, <3>1, <3>3 DEF Counting
    <2>4. AddsUp(r, left, Counting', Rest')
      BY <1>3, <2>3, StillAddsUp
    <2>5. tn_callback' \in [Timers -> BOOLEAN]
      BY <1>7, <2>1
    <2>6. due' \in [Timers -> Int]
      <3>1. PICK h \in Timers, none \in Int : h = tn /\ none = 0
        BY <1>2
      <3>2. due \in [Timers -> Int] /\ due' = [due EXCEPT ![h] = none]
        BY <1>1, <2>1, <3>1
      <3> QED
        BY <3>2
    <2> QED
      BY <1>3, <2>1, <2>2, <2>4, <2>5, <2>6
  <1>9. ASSUME tn_ticks[tn] # 0
        PROVE  Kept
    <2>. DEFINE ticks == tn_ticks[tn]
    <2>1. /\ Insert(r, left, tn, ticks) /\ due' = [due EXCEPT ![tn] = @ + ticks]
          /\ tn_callback' = tn_callback
      BY <1>9 DEF RemoveTop, r
    <2>2. ticks \in Nat
      BY <1>2, TimerAssumption DEF TimerInv, TypeOK
    <2>3. /\ nutTimerList' = InsertAt(r, InsertPosition(r, left, ticks), tn)
          /\ tn_ticks_left' = InsertedLeft(r, left, tn, ticks)
      BY <2>1, InsertStep
    <2>4. Carries(Counting, Rest, Counting', Rest', tn)
      <3>1. SUFFICES ASSUME NEW u \in Counting', u # tn
                     PROVE  u \in Counting /\ Rest'[u] = Rest[u]
        BY DEF Carries
      <3>2. u \in Timers /\ tn_callback[u] /\ u \notin charged
        BY <1>4, <2>1 DEF Counting
      <3>3. due'[u] = due[u]
        BY <1>1, <2>1, <3>1, <3>2
      <3> QED
        BY <1>1, <1>6, <3>2, <3>3 DEF Counting
    <2>5. tn \in Counting' => Rest'[tn] = ticks
      <3>1. SUFFICES ASSUME tn \in Counting' PROVE Rest'[tn] = ticks
        OBVIOUS
      <3>2. tn \in Counting
        BY <1>4, <2>1, <3>1 DEF Counting
      <3>3. PICK d \in Int, g \in Int, n \in Int, p \in Int :
              d = due[tn] /\ g = Gap /\ n = ticks_new /\ p = ticks
        BY <1>1, <1>2, <2>2
      <3>4. d + g + n = 0
        BY <1>1, <1>2, <1>3, <3>2, <3>3
      <3>5. due'[tn] = d + p
        BY <1>1, <1>2, <2>1, <3>3
      <3>6. Rest'[tn] = (d + p) + g + n
        BY <1>2, <1>6, <3>3, <3>5
      <3> QED
        BY <3>3, <3>4, <3>6
    <2>6. tn_callback' \in [Timers -> BOOLEAN] /\ due' \in [Timers -> Int]
      BY <1>1, <1>2, <1>7, <2>1, <2>2
    <2>. HIDE DEF ticks
    <2>7. Listing(nutTimerList', tn_ticks_left')
      BY <1>2, <1>3, <2>2, <2>3, <2>4, <2>5, InsertAddsUp
    <2>8. AddsUp(nutTimerList', tn_ticks_left', Counting', Rest')
      BY <1>2, <1>3, <2>2, <2>3, <2>4, <2>5, InsertAddsUp
    <2> QED
      BY <2>6, <2>7, <2>8
  <1>10. Kept
    BY <1>8, <1>9
  <1>11. TypeOK'
    <2>1. nutTimerList' \in Seq(Timers) /\ tn_ticks_left' \in [Timers -> Nat]
      BY <1>10 DEF Listing
    <2>2. tn_callback' \in [Timers -> BOOLEAN] /\ due' \in [Timers -> Int]
      BY <1>10
    <2> QED
      BY <1>4, <2>1, <2>2 DEF TimerInv, TypeOK
  <1>12. ListIntact' /\ AtWork'
    BY <1>4, <1>10 DEF ListIntact, Listing, AtWork
  <1> QED
    BY <1>10, <1>11, <1>12 DEF TimerInv

\* A callback is over.
LEMMA CallbackReturnsKeeps ==
    ASSUME TimerInv, CallbackReturns
    PROVE  TimerInv'
  <1>1. /\ pc = "callback" /\ pc' = "remove"
        /\ UNCHANGED <<nut_ticks, nut_ticks_resume, nutTimerList, tn_ticks_left,
                       tn_ticks, tn_callback, ticks_new, tn, due, charged>>
    BY DEF CallbackReturns
  <1>2. Rest' = Rest /\ Counting' = Counting
    <2>1. Gap' = Gap
      BY <1>1, GapStays
    <2> QED
      BY <1>1, <2>1 DEF Rest, Counting
  <1>3. AddsUp(nutTimerList, tn_ticks_left, Counting, Rest)'
    BY <1>1, <1>2, InvParts
  <1>4. TypeOK'
    <2>1. tn_callback' \in [Timers -> BOOLEAN]
      BY <1>1 DEF TimerInv, TypeOK
    <2> QED
      BY <1>1, <2>1 DEF TimerInv, TypeOK
  <1>5. ListIntact' /\ AtWork'
    BY <1>1 DEF ListIntact, AtWork, TimerInv
  <1> QED
    BY <1>3, <1>4, <1>5 DEF TimerInv

-----------------------------------------------------------------------------
(* What follows                                                            *)

\* The empty list adds up.
LEMMA InitTimerInv ==
    ASSUME Init
    PROVE  TimerInv
  <1>1. nutTimerList = <<>> /\ Len(nutTimerList) = 0
    BY DEF Init
  <1>2. AddsUp(nutTimerList, tn_ticks_left, Counting, Rest)
    BY <1>1 DEF AddsUp
  <1>3. TypeOK
    <2>1. tn_callback \in [Timers -> BOOLEAN]
      BY DEF Init
    <2>2. nut_ticks \in 0 .. (TickModulus - 1) /\ 0 \in 0 .. (TickModulus - 1)
      BY TimerAssumption DEF Init
    <2>3. nutTimerList \in Seq(Timers)
      BY <1>1
    <2> QED
      BY <2>1, <2>2, <2>3 DEF Init, TypeOK
  <1>4. ListIntact /\ AtWork
    BY <1>1 DEF Init, ListIntact, AtWork, IsInjective
  <1> QED
    BY <1>2, <1>3, <1>4 DEF TimerInv

\* Every step of threads, callbacks and the interrupt keeps the invariant.
LEMMA TimerInvariance ==
    Spec => []TimerInv
  <1>1. Init => TimerInv
    BY InitTimerInv
  <1>2. TimerInv /\ [Next]_vars => TimerInv'
    <2>1. SUFFICES ASSUME TimerInv, [Next]_vars PROVE TimerInv'
      OBVIOUS
    <2>2. CASE Tick
      BY <2>1, <2>2, TickKeeps
    <2>3. CASE Start
      <3>1. PICK t \in Timers, ticks \in Ticks, oneshot \in BOOLEAN :
              StartTicks(t, ticks, oneshot) /\ charged' = charged \ {t}
        BY <2>3 DEF Start
      <3>2. UNCHANGED <<nut_ticks, nut_ticks_resume, ticks_new, tn, pc>>
        BY <2>3 DEF Start
      <3>3. charged' \in SUBSET Timers /\ \A u \in charged : u # t => u \in charged'
        BY <2>1, <3>1 DEF TimerInv, TypeOK
      <3>4. t \notin charged' => ticks_new = 0
        BY <2>1, <2>3 DEF Start, TimerInv, AtWork
      <3> QED
        BY <2>1, <3>1, <3>2, <3>3, <3>4, StartKeeps
    <2>4. CASE CallbackStart
      <3>1. PICK t \in Timers, ticks \in Ticks :
              /\ StartTicks(t, ticks, TRUE)
              /\ charged' = IF ticks_new > 0 THEN charged \cup {t} ELSE charged \ {t}
        BY <2>4 DEF CallbackStart
      <3>2. UNCHANGED <<nut_ticks, nut_ticks_resume, ticks_new, tn, pc>>
        BY <2>4 DEF CallbackStart
      <3>3. charged' \in SUBSET Timers /\ \A u \in charged : u # t => u \in charged'
        BY <2>1, <3>1 DEF TimerInv, TypeOK
      <3>4. ticks_new \in Nat
        BY <2>1, InvParts
      <3>5. t \notin charged' => ticks_new = 0
        BY <3>1, <3>4
      <3>6. TRUE \in BOOLEAN
        OBVIOUS
      <3> QED
        BY <2>1, <3>1, <3>2, <3>3, <3>5, <3>6, StartKeeps
    <2>5. CASE ThreadStop
      BY <2>1, <2>5, StopKeeps DEF ThreadStop
    <2>6. CASE CallbackStop
      BY <2>1, <2>6, StopKeeps DEF CallbackStop
    <2>7. CASE Process
      BY <2>1, <2>7, ProcessKeeps
    <2>8. CASE Spend
      BY <2>1, <2>8, SpendKeeps
    <2>9. CASE CallbackReturns
      BY <2>1, <2>9, CallbackReturnsKeeps
    <2>10. CASE RemoveTop
      BY <2>1, <2>10, RemoveTopKeeps
    <2>11. CASE UNCHANGED vars
      <3>1. /\ UNCHANGED <<nut_ticks, nut_ticks_resume, nutTimerList, tn_ticks_left, tn_ticks>>
            /\ UNCHANGED <<tn_callback, ticks_new, tn, pc, due, charged>>
        BY <2>11 DEF vars
      <3>2. Rest' = Rest /\ Counting' = Counting
        <4>1. Gap' = Gap
          BY <3>1, GapStays
        <4> QED
          BY <3>1, <4>1 DEF Rest, Counting
      <3>3. AddsUp(nutTimerList, tn_ticks_left, Counting, Rest)'
        BY <2>1, <3>1, <3>2 DEF TimerInv
      <3>4. TypeOK'
        <4>1. tn_callback' \in [Timers -> BOOLEAN]
          BY <2>1, <3>1 DEF TimerInv, TypeOK
        <4> QED
          BY <2>1, <3>1, <4>1 DEF TimerInv, TypeOK
      <3>5. ListIntact' /\ AtWork'
        BY <2>1, <3>1 DEF ListIntact, AtWork, TimerInv
      <3> QED
        BY <3>3, <3>4, <3>5 DEF TimerInv
    <2> QED
      BY <2>1, <2>2, <2>3, <2>4, <2>5, <2>6, <2>7, <2>8, <2>9, <2>10, <2>11 DEF Next
  <1> QED
    BY <1>1, <1>2, PTL DEF Spec

\* Only the first timer of the list fires, when its ticks have been spent.
LEMMA FirstFires ==
    ASSUME TimerInv, [Next]_vars, NEW t, Fires(t)
    PROVE  /\ nutTimerList # <<>> /\ t = Head(nutTimerList) /\ t \in Timers
           /\ tn_callback[t] /\ tn_ticks_left[t] <= ticks_new
           /\ tn_ticks_left[t] \in Nat /\ ticks_new \in Nat
  <1>1. pc = "loop" /\ pc' = "callback" /\ t = tn'
    BY DEF Fires
  <1>2. Spend
    <2>1. ~Tick /\ ~Start /\ ~CallbackStart
      BY <1>1 DEF Tick, Start, CallbackStart
    <2>2. ~ThreadStop /\ ~CallbackStop
      BY <1>1 DEF ThreadStop, CallbackStop
    <2>3. ~Process /\ ~CallbackReturns /\ ~RemoveTop
      BY <1>1 DEF Process, CallbackReturns, RemoveTop
    <2>4. ~UNCHANGED vars
      BY <1>1 DEF vars
    <2> QED
      BY <2>1, <2>2, <2>3, <2>4 DEF Next
  <1>3. ~(nutTimerList = <<>> \/ ticks_new = 0)
    BY <1>1, <1>2 DEF Spend
  <1>4. /\ tn' = Head(nutTimerList)
        /\ IF ticks_new < tn_ticks_left[tn'] THEN pc' = pc
           ELSE pc' = IF tn_callback[tn'] THEN "callback" ELSE "remove"
    BY <1>2, <1>3 DEF Spend
  <1>5. t \in Timers /\ tn_ticks_left[t] \in Nat /\ ticks_new \in Nat
    BY <1>1, <1>3, <1>4, InvParts, TopTimer DEF Listing
  <1>6. tn_callback[t] /\ ~(ticks_new < tn_ticks_left[t])
    BY <1>1, <1>4
  <1> QED
    BY <1>1, <1>3, <1>4, <1>5, <1>6

\* The first timer of the list has as long as its difference says.
LEMMA TopRest ==
    ASSUME TimerInv, nutTimerList # <<>>, Head(nutTimerList) \in Counting
    PROVE  /\ Rest[Head(nutTimerList)] = tn_ticks_left[Head(nutTimerList)]
           /\ \A k \in 1 .. Len(nutTimerList) :
                nutTimerList[k] \in Counting =>
                    Rest[Head(nutTimerList)] <= Rest[nutTimerList[k]]
  <1>. DEFINE s == nutTimerList
              e == Elapse(s, tn_ticks_left)
  <1>1. /\ Head(s) = s[1] /\ 1 \in 1 .. Len(s) /\ Len(s) \in Nat
        /\ s \in Seq(Timers) /\ tn_ticks_left \in [Timers -> Nat] /\ s[1] \in Timers
    BY TopTimer DEF TimerInv, TypeOK
  <1>2. /\ e[0] = 0 /\ \A k \in 0 .. (Len(s) - 1) : e[k + 1] = e[k] + tn_ticks_left[s[k + 1]]
        /\ \A k \in 1 .. Len(s) : e[1] <= e[k]
    BY <1>1, ElapseSteps
  <1>3. \A k \in 1 .. Len(s) : s[k] \in Counting => e[k] = Rest[s[k]]
    BY DEF TimerInv, AddsUp
  <1>. HIDE DEF e
  <1>4. e[1] = tn_ticks_left[s[1]]
    <2>1. 0 \in 0 .. (Len(s) - 1)
      BY <1>1
    <2>2. e[0 + 1] = e[0] + tn_ticks_left[s[0 + 1]]
      BY <1>2, <2>1
    <2>3. tn_ticks_left[s[1]] \in Nat
      BY <1>1
    <2> QED
      BY <1>2, <2>2, <2>3
  <1>5. e[1] = Rest[s[1]]
    BY <1>1, <1>3
  <1>6. ASSUME NEW k \in 1 .. Len(s), s[k] \in Counting
        PROVE  Rest[s[1]] <= Rest[s[k]]
    BY <1>2, <1>3, <1>5, <1>6
  <1> QED
    BY <1>1, <1>4, <1>5, <1>6

\* The variables stay of their types: the remaining ticks of a timer are
\* never negative, although its predecessors and Stop subtract from them.
THEOREM TimerTypes == Spec => []TypeOK
  BY TimerInvariance, PTL DEF TimerInv

\* The timer on top is still the one whose callback runs when it is taken
\* off and freed, and no timer is linked twice, whatever callbacks start and
\* stop.
THEOREM ListStaysIntact == Spec => []ListIntact
  BY TimerInvariance, PTL DEF TimerInv

\* What the list says about a timer, less the ticks not yet spent, is the
\* time really left, across starts, stops, catching up and wrapping.
THEOREM DifferencesAddUp == Spec => []DeltasAddUp
  <1>1. TimerInv => DeltasAddUp
    <2>1. SUFFICES ASSUME TimerInv, NEW i \in DOMAIN nutTimerList,
                          tn_callback[nutTimerList[i]], nutTimerList[i] \notin charged
                   PROVE  Elapse(nutTimerList, tn_ticks_left)[i] =
                            due[nutTimerList[i]] + Gap + ticks_new
      BY DEF DeltasAddUp
    <2>2. i \in 1 .. Len(nutTimerList) /\ nutTimerList[i] \in Timers
      BY <2>1, TimersOf DEF TimerInv, TypeOK
    <2>3. nutTimerList[i] \in Counting
      BY <2>1, <2>2 DEF Counting
    <2>4. Elapse(nutTimerList, tn_ticks_left)[i] = Rest[nutTimerList[i]]
      BY <2>1, <2>2, <2>3 DEF TimerInv, AddsUp
    <2> QED
      BY <2>1, <2>2, <2>4, InvParts
  <1> QED
    BY <1>1, TimerInvariance, PTL

\* No timer fires before its ticks have passed, but for those that a
\* callback starts while ticks are still to be spent.
THEOREM NoOtherIsEarly == Spec => OthersNeverEarly
  <1>1. TimerInv /\ [Next]_vars => [\A t \in Timers \ charged : Fires(t) => due[t] <= 0]_vars
    <2>1. SUFFICES ASSUME TimerInv, [Next]_vars, NEW t \in Timers \ charged, Fires(t)
                   PROVE  due[t] <= 0
      OBVIOUS
    <2>2. /\ nutTimerList # <<>> /\ t = Head(nutTimerList) /\ t \in Counting
          /\ tn_ticks_left[t] <= ticks_new /\ tn_ticks_left[t] \in Nat
      BY <2>1, FirstFires DEF Counting
    <2>3. Rest[t] = tn_ticks_left[t]
      BY <2>1, <2>2, TopRest
    <2>4. /\ Rest[t] = due[t] + Gap + ticks_new
          /\ Gap \in Nat /\ ticks_new \in Nat /\ due[t] \in Int
      BY <2>1, InvParts
    <2> QED
      BY <2>2, <2>3, <2>4
  <1> QED
    BY <1>1, TimerInvariance, PTL DEF Spec, OthersNeverEarly

\* The timers fire in the order in which they were due, however many ticks
\* ProcessElapsed has to catch up with (but for the same exception).
THEOREM TimersFireInOrder == Spec => FiresInOrder
  <1>1. TimerInv /\ [Next]_vars =>
          [\A t \in Timers \ charged : Fires(t) =>
              \A u \in Listed : u \notin charged /\ tn_callback[u] => due[t] <= due[u]]_vars
    <2>1. SUFFICES ASSUME TimerInv, [Next]_vars, NEW t \in Timers \ charged, Fires(t),
                          NEW u \in Listed, u \notin charged, tn_callback[u]
                   PROVE  due[t] <= due[u]
      OBVIOUS
    <2>2. nutTimerList # <<>> /\ t = Head(nutTimerList) /\ t \in Counting
      BY <2>1, FirstFires DEF Counting
    <2>3. PICK k \in 1 .. Len(nutTimerList) : nutTimerList[k] = u
      <3>1. DOMAIN nutTimerList = 1 .. Len(nutTimerList)
        BY <2>1, TimersOf DEF TimerInv, TypeOK
      <3> QED
        BY <3>1 DEF Listed, ToSet
    <2>4. u \in Timers
      BY <2>1, <2>3, TimersOf DEF TimerInv, TypeOK
    <2>5. u \in Counting
      BY <2>1, <2>4 DEF Counting
    <2>6. Rest[t] <= Rest[u]
      BY <2>1, <2>2, <2>3, <2>5, TopRest
    <2>7. /\ Rest[t] = due[t] + Gap + ticks_new /\ Rest[u] = due[u] + Gap + ticks_new
          /\ Gap \in Nat /\ ticks_new \in Nat /\ due[t] \in Int /\ due[u] \in Int
      BY <2>1, <2>4, InvParts
    <2> QED
      BY <2>6, <2>7
  <1> QED
    BY <1>1, TimerInvariance, PTL DEF Spec, FiresInOrder


=============================================================================
