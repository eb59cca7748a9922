-------------------------- MODULE SoftTimerProofs --------------------------
(***************************************************************************)
(* Theorems about SoftTimer.  The two loops of the bubble sort are unrolled*)
(* into runs, about which least counterexamples replace induction.  Ticks  *)
(* that lie within a window around the present one compare like integers   *)
(* (Ahead), and the invariant says that all timers stay in that window.    *)
(***************************************************************************)
EXTENDS SoftTimer, TLAPS, SequenceTheorems, WellFoundedInduction

\* What a tick difference is modulo Wrap, for the differences the code takes.
LEMMA ModWrap ==
    ASSUME NEW a \in (-Wrap)..(2 * Wrap - 1)
    PROVE  a % Wrap = IF a < 0 THEN a + Wrap ELSE IF a >= Wrap THEN a - Wrap ELSE a
<1>1. Wrap \in Nat \ {0}
  BY TimerAssumption
<1>2. CASE a < 0
  BY <1>1, <1>2
<1>3. CASE a >= Wrap
  BY <1>1, <1>3
<1>4. CASE 0 <= a /\ a < Wrap
  BY <1>1, <1>4
<1>5. QED
  BY <1>1, <1>2, <1>3, <1>4

\* Induction over a set of numbers.
LEMMA Climb ==
    ASSUME NEW m \in Nat, NEW T, 0 \in T, \A j \in 1..m : j - 1 \in T => j \in T
    PROVE  \A j \in 0..m : j \in T
<1> DEFINE Bad == {j \in Nat : j \in 0..m /\ j \notin T}
<1>1. SUFFICES ASSUME Bad # {} PROVE FALSE
  BY <1>1
<1>2. \E x \in Bad : \A y \in Bad : <<y, x>> \notin OpToRel(<, Nat)
  BY <1>1, WFMin, NatLessThanWellFounded
<1>3. PICK x \in Bad : \A y \in Bad : ~(y < x)
  BY <1>2 DEF OpToRel
<1>4. x \in 1..m /\ x - 1 \in 0..m /\ x - 1 \notin Bad
  BY <1>3
<1>5. QED
  BY <1>3, <1>4

\* g is what m steps of F make of b.
Steps(g, S, F, b, m) ==
    /\ g \in [0..m -> S] /\ g[0] = b
    /\ \A j \in 1..m : g[j] = F[<<g[j - 1], j>>]

\* A loop that takes b through F has a run of every length.
LEMMA Iterate ==
    ASSUME NEW S, NEW F \in [S \X Nat -> S], NEW b \in S, NEW m \in Nat
    PROVE  \E g : Steps(g, S, F, b, m)
<1> DEFINE P(k) == \E g \in [0..k -> S] : g[0] = b /\ \A j \in 1..k : g[j] = F[<<g[j - 1], j>>]
           T == {k \in Nat : P(k)}
<1>1. P(0)
  <2> DEFINE h == [i \in 0..0 |-> b]
  <2>1. h \in [0..0 -> S] /\ h[0] = b /\ \A j \in 1..0 : h[j] = F[<<h[j - 1], j>>]
    OBVIOUS
  <2>2. QED
    BY <2>1
<1>2. ASSUME NEW k \in 1..m, P(k - 1) PROVE P(k)
  <2>1. PICK g \in [0..(k - 1) -> S] :
              g[0] = b /\ \A j \in 1..(k - 1) : g[j] = F[<<g[j - 1], j>>]
    BY <1>2
  <2> DEFINE h == [i \in 0..k |-> IF i = k THEN F[<<g[k - 1], k>>] ELSE g[i]]
  <2>2. F[<<g[k - 1], k>>] \in S
    BY <2>1
  <2>3. h \in [0..k -> S]
    BY <2>1, <2>2
  <2>4. h[0] = b
    BY <2>1
  <2>5. ASSUME NEW j \in 1..k PROVE h[j] = F[<<h[j - 1], j>>]
    <3>1. j - 1 \in 0..k /\ j - 1 # k /\ h[j - 1] = g[j - 1]
      OBVIOUS
    <3>2. CASE j = k
      BY <3>1, <3>2
    <3>3. CASE j # k
      BY <2>1, <3>1, <3>3
    <3>4. QED
      BY <3>2, <3>3
  <2>6. QED
    BY <2>3, <2>4, <2>5
<1>3. 0 \in T /\ \A k \in 1..m : k - 1 \in T => k \in T
  BY <1>1, <1>2
<1> HIDE DEF T
<1>4. m \in T
  BY <1>3, Climb
<1>5. QED
  BY <1>4 DEF T, Steps

-----------------------------------------------------------------------------
(* The loops of blt_soft_timer_sort.                                       *)

Table(n) == {tab \in Seq(Timer) : Len(tab) = n}

\* Every entry of a is one of b.
Holds(b, a) == \A i \in 1..Len(a) : \E k \in 1..Len(a) : b[k] = a[i]

\* b holds the entries of a, each once.
Permuted(a, b) ==
    /\ Len(b) = Len(a)
    /\ \E p \in [1..Len(a) -> 1..Len(a)] :
          /\ \A i, k \in 1..Len(a) : p[i] = p[k] => i = k
          /\ \A k \in 1..Len(a) : b[k] = a[p[k]]
Shuffled(a, b) == Permuted(a, b) /\ Holds(b, a)

LEMMA ShuffledSelf ==
    ASSUME NEW a \in Seq(Timer)
    PROVE  Shuffled(a, a)
<1> DEFINE p == [k \in 1..Len(a) |-> k]
<1>1. p \in [1..Len(a) -> 1..Len(a)] /\ \A k \in 1..Len(a) : p[k] = k
  OBVIOUS
<1> HIDE DEF p
<1>2. Holds(a, a)
  BY DEF Holds
<1>3. QED
  BY <1>1, <1>2 DEF Shuffled, Permuted

LEMMA ShuffledTrans ==
    ASSUME NEW a, NEW b, NEW c, Len(a) \in Nat, Shuffled(a, b), Shuffled(b, c)
    PROVE  Shuffled(a, c)
<1> DEFINE N == 1..Len(a)
<1>1. Len(b) = Len(a) /\ Len(c) = Len(a)
  BY DEF Shuffled, Permuted
<1>2. PICK p \in [N -> N] : (\A i, k \in N : p[i] = p[k] => i = k) /\ \A k \in N : b[k] = a[p[k]]
  BY DEF Shuffled, Permuted
<1>3. PICK q \in [N -> N] : (\A i, k \in N : q[i] = q[k] => i = k) /\ \A k \in N : c[k] = b[q[k]]
  BY <1>1 DEF Shuffled, Permuted
<1> DEFINE r == [k \in N |-> p[q[k]]]
<1>4. r \in [N -> N] /\ \A i, k \in N : r[i] = r[k] => i = k
  BY <1>2, <1>3
<1>5. \A k \in N : c[k] = a[r[k]]
  BY <1>2, <1>3
<1> HIDE DEF r
<1>6. Holds(c, a)
  <2>1. \A i \in N : \E j \in N : b[j] = a[i]
    BY DEF Shuffled, Holds
  <2>2. \A j \in N : \E k \in N : c[k] = b[j]
    BY <1>1 DEF Shuffled, Holds
  <2>3. QED
    BY <2>1, <2>2 DEF Holds
<1>7. QED
  BY <1>1, <1>4, <1>5, <1>6 DEF Shuffled, Permuted

\* One comparison: the two entries change places or do not.
LEMMA SortStepTable ==
    ASSUME NEW n \in Nat, NEW tab \in Table(n), NEW j \in 1..(n - 1)
    PROVE  /\ SortStep(tab, j) \in Table(n)
           /\ Shuffled(tab, SortStep(tab, j))
           /\ \A k \in 1..n : SortStep(tab, j)[k] =
                 IF TimeBig(tab[j].t, tab[j + 1].t)
                 THEN IF k = j THEN tab[j + 1] ELSE IF k = j + 1 THEN tab[j] ELSE tab[k]
                 ELSE tab[k]
<1>1. tab \in Seq(Timer) /\ Len(tab) = n /\ j \in 1..n /\ j + 1 \in 1..n
  BY DEF Table
<1>2. CASE ~TimeBig(tab[j].t, tab[j + 1].t)
  <2>1. SortStep(tab, j) = tab
    BY <1>2 DEF SortStep
  <2>2. QED
    BY <1>1, <1>2, <2>1, ShuffledSelf
<1>3. CASE TimeBig(tab[j].t, tab[j + 1].t)
  <2> DEFINE u == [tab EXCEPT ![j] = tab[j + 1], ![j + 1] = tab[j]]
             p == [k \in 1..n |-> IF k = j THEN j + 1 ELSE IF k = j + 1 THEN j ELSE k]
  <2>1. SortStep(tab, j) = u
    BY <1>3 DEF SortStep
  <2>2. tab \in [1..n -> Timer]
    BY <1>1
  <2>3. u \in [1..n -> Timer] /\ \A k \in 1..n : u[k] =
           IF k = j THEN tab[j + 1] ELSE IF k = j + 1 THEN tab[j] ELSE tab[k]
    BY <1>1, <2>2
  <2>4. u \in Seq(Timer) /\ Len(u) = n
    <3>1. tab[j] \in Timer /\ tab[j + 1] \in Timer
      BY <1>1, <2>2
    <3> DEFINE v == [tab EXCEPT ![j] = tab[j + 1]]
    <3>2. v \in Seq(Timer) /\ Len(v) = n
      BY <1>1, <3>1, ExceptSeq
    <3> HIDE DEF v
    <3>3. [v EXCEPT ![j + 1] = tab[j]] \in Seq(Timer) /\ Len([v EXCEPT ![j + 1] = tab[j]]) = n
      BY <1>1, <3>1, <3>2, ExceptSeq
    <3>4. QED
      BY <3>3 DEF v
  <2>5. p \in [1..n -> 1..n] /\ \A i, k \in 1..n : p[i] = p[k] => i = k
    BY <1>1
  <2>6. \A k \in 1..n : u[k] = tab[p[k]]
    BY <1>1, <2>3
  <2> HIDE DEF p
  <2> HIDE DEF u
  <2>7. Shuffled(tab, u)
    <3>1. n = Len(tab)
      BY <1>1
    <3>2. \A i \in 1..n : \E k \in 1..n : u[k] = tab[i]
      BY <1>1, <2>3
    <3>3. Holds(u, tab)
      BY <3>1, <3>2 DEF Holds
    <3>4. QED
      BY <2>4, <2>5, <2>6, <3>1, <3>3 DEF Shuffled, Permuted
  <2>8. QED
    BY <1>3, <2>1, <2>3, <2>4, <2>7 DEF Table
<1>4. QED
  BY <1>2, <1>3

\* The inner loop as the tables it goes through.
Passes(g, tab, n, m) ==
    /\ g \in [0..m -> Table(n)]
    /\ g[0] = tab /\ SortPass(tab, m) = g[m]
    /\ \A j \in 1..m : g[j] = SortStep(g[j - 1], j)

LEMMA PassRun ==
    ASSUME NEW n \in Nat, NEW tab \in Table(n), NEW m \in 0..(n - 1)
    PROVE  \E g : Passes(g, tab, n, m)
<1> DEFINE S == Table(n)
           F == [q \in S \X Nat |-> IF q[2] \in 1..m THEN SortStep(q[1], q[2]) ELSE q[1]]
           Rec(g) == g = [j \in 0..m |-> IF j = 0 THEN tab ELSE SortStep(g[j - 1], j)]
<1>1. \A u \in S : \A j \in 1..m : SortStep(u, j) \in S
  <2>1. \A j \in 1..m : j \in 1..(n - 1)
    OBVIOUS
  <2>2. QED
    BY <2>1, SortStepTable
<1>2. F \in [S \X Nat -> S] /\ \A u \in S : \A j \in 1..m : F[<<u, j>>] = SortStep(u, j)
  BY <1>1
<1> HIDE DEF F, S
<1>3. PICK h : Steps(h, S, F, tab, m)
  <2>1. m \in Nat /\ tab \in S
    BY DEF S
  <2>2. F \in [S \X Nat -> S]
    BY <1>2
  <2>3. QED
    BY <2>1, <2>2, Iterate
<1>4. Rec(h)
  <2>1. ASSUME NEW j \in 1..m PROVE h[j] = SortStep(h[j - 1], j)
    <3>1. j - 1 \in 0..m
      OBVIOUS
    <3>2. h[j - 1] \in S
      BY <1>3, <3>1 DEF Steps
    <3>3. QED
      BY <1>2, <1>3, <3>2 DEF Steps
  <2>2. QED
    BY <1>3, <2>1 DEF Steps
<1> DEFINE pass == CHOOSE g : Rec(g)
<1>5. Rec(pass)
  BY <1>4
<1>6. SortPass(tab, m) = pass[m]
  BY DEF SortPass
<1> HIDE DEF pass
<1>7. pass[0] = tab /\ \A j \in 1..m : pass[j] = SortStep(pass[j - 1], j)
  BY <1>5
<1> DEFINE T == {j \in 0..m : pass[j] \in S}
<1>8. 0 \in T /\ \A j \in 1..m : j - 1 \in T => j \in T
  BY <1>1, <1>7 DEF S
<1>9. \A j \in 0..m : pass[j] \in S
  <2> HIDE DEF T
  <2>1. m \in Nat
    OBVIOUS
  <2>2. \A j \in 0..m : j \in T
    BY <1>8, <2>1, Climb
  <2>3. QED
    BY <2>2 DEF T
<1>10. pass \in [0..m -> S]
  BY <1>5, <1>9
<1>11. QED
  BY <1>6, <1>7, <1>10 DEF S, Passes

\* The outer loop likewise.
Rounds(g, tab, n) ==
    /\ g \in [0..(n - 1) -> Table(n)]
    /\ g[0] = tab /\ Sort(tab) = g[n - 1]
    /\ \A i \in 1..(n - 1) : g[i] = SortPass(g[i - 1], n - i)

LEMMA SortRun ==
    ASSUME NEW n \in Nat \ {0}, NEW tab \in Table(n)
    PROVE  \E g : Rounds(g, tab, n)
<1> DEFINE S == Table(n)
           F == [q \in S \X Nat |->
                   IF q[2] \in 1..(n - 1) THEN SortPass(q[1], n - q[2]) ELSE q[1]]
           Rec(g) == g = [i \in 0..(n - 1) |->
                            IF i = 0 THEN tab ELSE SortPass(g[i - 1], n - i)]
<1>1. ASSUME NEW u \in S, NEW i \in 1..(n - 1) PROVE SortPass(u, n - i) \in S
  <2>1. n - i \in 0..(n - 1)
    OBVIOUS
  <2>2. n \in Nat /\ u \in Table(n)
    OBVIOUS
  <2>3. PICK g : Passes(g, u, n, n - i)
    BY <2>1, <2>2, PassRun
  <2>4. QED
    BY <2>1, <2>3 DEF Passes
<1>2. F \in [S \X Nat -> S] /\ \A u \in S : \A i \in 1..(n - 1) : F[<<u, i>>] = SortPass(u, n - i)
  BY <1>1
<1> HIDE DEF F, S
<1>3. PICK h : Steps(h, S, F, tab, n - 1)
  <2>1. n - 1 \in Nat /\ tab \in S
    BY DEF S
  <2>2. F \in [S \X Nat -> S]
    BY <1>2
  <2>3. QED
    BY <2>1, <2>2, Iterate
<1>4. Rec(h)
  <2>1. ASSUME NEW i \in 1..(n - 1) PROVE h[i] = SortPass(h[i - 1], n - i)
    <3>1. i - 1 \in 0..(n - 1)
      OBVIOUS
    <3>2. h[i - 1] \in S
      BY <1>3, <3>1 DEF Steps
    <3>3. QED
      BY <1>2, <1>3, <3>2 DEF Steps
  <2>2. QED
    BY <1>3, <2>1 DEF Steps
<1> DEFINE round == CHOOSE g : Rec(g)
<1>5. Rec(round)
  BY <1>4
<1>6. Sort(tab) = round[n - 1]
  <2>1. Len(tab) = n
    BY DEF Table
  <2>2. QED
    BY <2>1 DEF Sort
<1> HIDE DEF round
<1>7. round[0] = tab /\ \A i \in 1..(n - 1) : round[i] = SortPass(round[i - 1], n - i)
  BY <1>5
<1> DEFINE T == {i \in 0..(n - 1) : round[i] \in S}
<1>8. 0 \in T /\ \A i \in 1..(n - 1) : i - 1 \in T => i \in T
  BY <1>1, <1>7 DEF S
<1>9. \A i \in 0..(n - 1) : round[i] \in S
  <2> HIDE DEF T
  <2>1. n - 1 \in Nat
    OBVIOUS
  <2>2. \A i \in 0..(n - 1) : i \in T
    BY <1>8, <2>1, Climb
  <2>3. QED
    BY <2>2 DEF T
<1>10. round \in [0..(n - 1) -> S]
  BY <1>5, <1>9
<1>11. QED
  BY <1>6, <1>7, <1>10 DEF S, Rounds

\* The inner loop moves entries about among the first m + 1.
LEMMA PassShuffles ==
    ASSUME NEW n \in Nat, NEW tab \in Table(n), NEW m \in 0..(n - 1)
    PROVE  /\ SortPass(tab, m) \in Table(n) /\ Shuffled(tab, SortPass(tab, m))
           /\ \A k \in 1..n : k > m + 1 => SortPass(tab, m)[k] = tab[k]
           /\ \A k \in 1..(m + 1) : \E i \in 1..(m + 1) : SortPass(tab, m)[k] = tab[i]
<1>1. PICK g : Passes(g, tab, n, m)
  BY PassRun
<1> DEFINE Q(u) == /\ Shuffled(tab, u)
                   /\ \A k \in 1..n : k > m + 1 => u[k] = tab[k]
                   /\ \A k \in 1..(m + 1) : \E i \in 1..(m + 1) : u[k] = tab[i]
           T == {j \in 0..m : Q(g[j])}
<1>2. tab \in Seq(Timer) /\ Len(tab) = n /\ g[0] = tab
  BY <1>1 DEF Passes, Table
<1>3. Q(tab)
  BY <1>2, ShuffledSelf
<1>4. ASSUME NEW j \in 1..m, Q(g[j - 1]) PROVE Q(g[j])
  <2> DEFINE u == g[j - 1]
  <2>1. j \in 1..(n - 1) /\ u \in Table(n) /\ g[j] = SortStep(u, j)
    BY <1>1 DEF Passes
  <2> HIDE DEF u
  <2>2. /\ Shuffled(u, g[j])
        /\ \A k \in 1..n : g[j][k] =
             IF TimeBig(u[j].t, u[j + 1].t)
             THEN IF k = j THEN u[j + 1] ELSE IF k = j + 1 THEN u[j] ELSE u[k]
             ELSE u[k]
    BY <2>1, SortStepTable
  <2>3. Shuffled(tab, u) /\ Len(tab) \in Nat
    BY <1>2, <1>4 DEF u
  <2>4. Shuffled(tab, g[j])
    BY <2>2, <2>3, ShuffledTrans
  <2>5. \A k \in 1..n : k > m + 1 => g[j][k] = tab[k]
    BY <1>4, <2>2 DEF u
  <2>6. \A k \in 1..(m + 1) : \E i \in 1..(m + 1) : g[j][k] = u[i]
    BY <2>2
  <2>7. \A k \in 1..(m + 1) : \E i \in 1..(m + 1) : g[j][k] = tab[i]
    BY <1>4, <2>6 DEF u
  <2>8. QED
    BY <2>4, <2>5, <2>7
<1> HIDE DEF Q
<1>5. m \in Nat /\ 0 \in T /\ \A j \in 1..m : j - 1 \in T => j \in T
  BY <1>2, <1>3, <1>4
<1> HIDE DEF T
<1>6. m \in T
  BY <1>5, Climb
<1>7. Q(g[m])
  BY <1>6 DEF T
<1>8. SortPass(tab, m) = g[m] /\ g[m] \in Table(n)
  BY <1>1 DEF Passes
<1>9. QED
  BY <1>7, <1>8 DEF Q

\* blt_soft_timer_sort loses and doubles no timer.
LEMMA SortShuffles ==
    ASSUME NEW tab \in Seq(Timer)
    PROVE  Sort(tab) \in Seq(Timer) /\ Shuffled(tab, Sort(tab))
<1> DEFINE n == Len(tab)
<1>1. n \in Nat /\ tab \in Table(n)
  BY DEF Table
<1> HIDE DEF n
<1>2. CASE n = 0
  <2>1. Sort(tab) = tab
    BY <1>2 DEF Sort, n
  <2>2. QED
    BY <2>1, ShuffledSelf
<1>3. CASE n # 0
  <2>1. PICK g : Rounds(g, tab, n)
    BY <1>1, <1>3, SortRun
  <2> DEFINE T == {i \in 0..(n - 1) : Shuffled(tab, g[i])}
  <2>2. g[0] = tab /\ Sort(tab) = g[n - 1] /\ n - 1 \in Nat
        /\ \A i \in 0..(n - 1) : g[i] \in Table(n)
    BY <1>1, <1>3, <2>1 DEF Rounds
  <2>3. 0 \in T
    BY <1>1, <2>2, ShuffledSelf
  <2>4. ASSUME NEW i \in 1..(n - 1), i - 1 \in T PROVE i \in T
    <3>1. n - i \in 0..(n - 1) /\ g[i - 1] \in Table(n) /\ g[i] = SortPass(g[i - 1], n - i)
      BY <1>1, <2>1 DEF Rounds
    <3>2. Shuffled(g[i - 1], g[i])
      BY <1>1, <3>1, PassShuffles
    <3>3. Shuffled(tab, g[i]) 
      BY <1>1, <2>4, <3>2, ShuffledTrans DEF n
    <3>4. QED
      BY <1>1, <3>3
  <2> HIDE DEF T
  <2>5. n - 1 \in T
    <3>1. n - 1 \in 0..(n - 1)
      BY <2>2
    <3>2. QED
      BY <2>2, <2>3, <2>4, <3>1, Climb
  <2>6. QED
    BY <2>2, <2>5 DEF T, Table
<1>4. QED
  BY <1>2, <1>3

-----------------------------------------------------------------------------
(* The order of ticks that lie close together.                             *)

\* The ticks until t, seen from c; negative when t has passed.
Ahead(t, c) ==
    LET d == t - c
    IN  IF 2 * d >= Wrap THEN d - Wrap ELSE IF 2 * d < -Wrap THEN d + Wrap ELSE d

\* How far ahead a timer may be due.
Horizon ==
    IF MaySleep /\ Near < Quarter - MaxLate THEN Near - 1 ELSE Quarter - MaxLate - 1

Within(tab, c) ==
    \A k \in 1..Len(tab) : Ahead(tab[k].t, c) \in (-MaxLate)..Horizon

InOrder(tab) ==
    \A l \in 1..Len(tab) : \A k \in 1..l : (tab[l].t - tab[k].t) % Wrap < Quarter

\* TIME_COMPARE_BIG compares two ticks seen from any third one near both.
LEMMA Compare ==
    ASSUME NEW t1 \in Tick, NEW t2 \in Tick, NEW c \in Tick,
           Ahead(t1, c) \in (-MaxLate)..Horizon, Ahead(t2, c) \in (-MaxLate)..Horizon
    PROVE  TimeBig(t1, t2) <=> Ahead(t1, c) >= Ahead(t2, c)
<1>1. /\ Wrap \in Nat /\ Quarter \in Nat /\ MaxLate \in Nat /\ Near \in Nat
      /\ 2 * Quarter <= Wrap /\ 1 <= Quarter
  BY TimerAssumption
<1>2. Horizon \in Int /\ Horizon + MaxLate < Quarter
  BY <1>1 DEF Horizon
<1>3. t1 - t2 \in (-Wrap)..(2 * Wrap - 1) /\ t1 \in 0..(Wrap - 1) /\ t2 \in 0..(Wrap - 1)
      /\ c \in 0..(Wrap - 1)
  BY <1>1 DEF Tick
<1>4. (t1 - t2) % Wrap = IF t1 - t2 < 0 THEN t1 - t2 + Wrap ELSE
                         IF t1 - t2 >= Wrap THEN t1 - t2 - Wrap ELSE t1 - t2
  BY <1>3, ModWrap
<1> DEFINE x1 == Ahead(t1, c)
           x2 == Ahead(t2, c)
<1>5. x1 \in Int /\ x2 \in Int
      /\ (t1 = c + x1 \/ t1 = c + x1 + Wrap \/ t1 = c + x1 - Wrap)
      /\ (t2 = c + x2 \/ t2 = c + x2 + Wrap \/ t2 = c + x2 - Wrap)
  BY <1>1, <1>3 DEF Ahead
<1>6. x1 - x2 < Quarter /\ x2 - x1 < Quarter
  BY <1>1, <1>2, <1>5
<1> HIDE DEF x1, x2
<1>7. ((t1 - t2) % Wrap < Quarter) <=> x1 >= x2
  BY <1>1, <1>3, <1>4, <1>5, <1>6
<1>8. QED
  BY <1>7 DEF TimeBig, x1, x2

LEMMA ShuffledWithin ==
    ASSUME NEW a \in Seq(Timer), NEW b, NEW c, Shuffled(a, b), Within(a, c)
    PROVE  Within(b, c)
<1>1. Len(a) \in Nat /\ Len(b) = Len(a)
  BY DEF Shuffled, Permuted
<1>2. ASSUME NEW k \in 1..Len(b) PROVE \E i \in 1..Len(a) : b[k] = a[i]
  BY <1>1 DEF Shuffled, Permuted
<1>3. QED
  BY <1>1, <1>2 DEF Within

\* The inner loop carries the last timer to the end of what it looks at.
LEMMA PassSorts ==
    ASSUME NEW n \in Nat, NEW tab \in Table(n), NEW m \in 0..(n - 1),
           NEW c \in Tick, Within(tab, c)
    PROVE  \A k \in 1..m :
             Ahead(SortPass(tab, m)[k].t, c) <= Ahead(SortPass(tab, m)[m + 1].t, c)
<1>1. PICK g : Passes(g, tab, n, m)
  BY PassRun
<1> DEFINE Key(u, k) == Ahead(u[k].t, c)
           Q(u, j) == Within(u, c) /\ \A k \in 1..j : Key(u, k) <= Key(u, j + 1)
           T == {j \in 0..m : Q(g[j], j)}
<1>2. ASSUME NEW j \in 1..m, Q(g[j - 1], j - 1) PROVE Q(g[j], j)
  <2> DEFINE u == g[j - 1]
  <2>1. j \in 1..(n - 1) /\ u \in Table(n) /\ g[j] = SortStep(u, j)
    BY <1>1 DEF Passes
  <2> HIDE DEF u
  <2>2. u \in Seq(Timer) /\ Len(u) = n /\ j \in 1..n /\ j + 1 \in 1..n
    BY <2>1 DEF Table
  <2>3. /\ Shuffled(u, g[j])
        /\ \A k \in 1..n : g[j][k] =
             IF TimeBig(u[j].t, u[j + 1].t)
             THEN IF k = j THEN u[j + 1] ELSE IF k = j + 1 THEN u[j] ELSE u[k]
             ELSE u[k]
    BY <2>1, SortStepTable
  <2>4. Within(u, c) /\ Within(g[j], c)
    BY <1>2, <2>2, <2>3, ShuffledWithin DEF u
  <2>5. \A k \in 1..n : u[k].t \in Tick /\ Key(u, k) \in (-MaxLate)..Horizon
    <3>1. \A k \in 1..n : u[k] \in Timer
      BY <2>2
    <3>2. \A k \in 1..n : u[k].t \in Tick
      BY <3>1 DEF Timer
    <3>3. \A k \in 1..n : Key(u, k) \in (-MaxLate)..Horizon
      BY <2>2, <2>4 DEF Within
    <3>4. QED
      BY <3>2, <3>3
  <2>6. TimeBig(u[j].t, u[j + 1].t) <=> Key(u, j) >= Key(u, j + 1)
    BY <2>2, <2>5, Compare
  <2>7. \A k \in 1..(j - 1) : Key(u, k) <= Key(u, j)
    BY <1>2 DEF u
  <2>8. \A k \in 1..n : Key(u, k) \in Int
    BY <2>5, TimerAssumption DEF Horizon
  <2>9. ASSUME NEW k \in 1..j PROVE Key(g[j], k) <= Key(g[j], j + 1)
    <3>1. k \in 1..n
      BY <2>2
    <3> HIDE DEF Key
    <3>2. Key(g[j], k) = (IF Key(u, j) >= Key(u, j + 1)
                          THEN IF k = j THEN Key(u, j + 1) ELSE Key(u, k)
                          ELSE Key(u, k))
      BY <2>2, <2>3, <2>6, <3>1 DEF Key
    <3>3. Key(g[j], j + 1) = (IF Key(u, j) >= Key(u, j + 1) THEN Key(u, j) ELSE Key(u, j + 1))
      BY <2>2, <2>3, <2>6 DEF Key
    <3>4. k # j => Key(u, k) <= Key(u, j)
      BY <2>7
    <3>5. QED
      BY <2>2, <2>8, <3>1, <3>2, <3>3, <3>4
  <2>10. QED
    BY <2>4, <2>9
<1>3. Q(g[0], 0)
  BY <1>1 DEF Passes
<1> HIDE DEF Q
<1>4. m \in Nat /\ 0 \in T /\ \A j \in 1..m : j - 1 \in T => j \in T
  BY <1>2, <1>3
<1> HIDE DEF T
<1>5. m \in T
  BY <1>4, Climb
<1>6. Q(g[m], m)
  BY <1>5 DEF T
<1>7. SortPass(tab, m) = g[m]
  BY <1>1 DEF Passes
<1>8. QED
  BY <1>6, <1>7 DEF Q

\* Ticks that are in order seen from c are in order.
LEMMA KeysInOrder ==
    ASSUME NEW tab \in Seq(Timer), NEW c \in Tick, Within(tab, c)
    PROVE  InOrder(tab) <=>
             \A l \in 1..Len(tab) : \A k \in 1..l : Ahead(tab[k].t, c) <= Ahead(tab[l].t, c)
<1>1. ASSUME NEW l \in 1..Len(tab), NEW k \in 1..l
      PROVE  (tab[l].t - tab[k].t) % Wrap < Quarter <=> Ahead(tab[k].t, c) <= Ahead(tab[l].t, c)
  <2>1. k \in 1..Len(tab)
    OBVIOUS
  <2>2. /\ tab[l].t \in Tick /\ Ahead(tab[l].t, c) \in (-MaxLate)..Horizon
        /\ tab[k].t \in Tick /\ Ahead(tab[k].t, c) \in (-MaxLate)..Horizon
    <3>1. tab[l] \in Timer /\ tab[k] \in Timer
      BY <2>1
    <3>2. tab[l].t \in Tick /\ tab[k].t \in Tick
      BY <3>1 DEF Timer
    <3>3. QED
      BY <2>1, <3>2 DEF Within
  <2>3. TimeBig(tab[l].t, tab[k].t) <=> Ahead(tab[l].t, c) >= Ahead(tab[k].t, c)
    BY <2>2, Compare
  <2>4. Ahead(tab[l].t, c) \in Int /\ Ahead(tab[k].t, c) \in Int
    BY <2>2, TimerAssumption DEF Horizon
  <2>5. QED
    BY <2>3, <2>4 DEF TimeBig
<1>2. QED
  BY <1>1 DEF InOrder

\* blt_soft_timer_sort puts timers that lie close together in the order they are
\* due, across the wrap of the tick counter.
LEMMA SortSorts ==
    ASSUME NEW tab \in Seq(Timer), NEW c \in Tick, Within(tab, c)
    PROVE  Within(Sort(tab), c) /\ InOrder(Sort(tab))
<1>1. Sort(tab) \in Seq(Timer) /\ Shuffled(tab, Sort(tab))
  BY SortShuffles
<1>2. Within(Sort(tab), c)
  BY <1>1, ShuffledWithin
<1> DEFINE n == Len(tab)
<1>3. n \in Nat /\ tab \in Table(n) /\ Len(Sort(tab)) = n
  BY <1>1 DEF Table, Shuffled, Permuted
<1> HIDE DEF n
<1>4. CASE n = 0
  BY <1>2, <1>3, <1>4 DEF InOrder
<1>5. CASE n # 0
  <2>1. PICK g : Rounds(g, tab, n)
    BY <1>3, <1>5, SortRun
  <2> DEFINE Key(u, k) == Ahead(u[k].t, c)
             Q(u, i) == \A l \in 1..n : l > n - i => \A k \in 1..l : Key(u, k) <= Key(u, l)
             T == {i \in 0..(n - 1) : Within(g[i], c) /\ Q(g[i], i)}
  <2>2. /\ g[0] = tab /\ Sort(tab) = g[n - 1] /\ n - 1 \in Nat
        /\ \A i \in 0..(n - 1) : g[i] \in Table(n)
    BY <1>3, <1>5, <2>1 DEF Rounds
  <2>3. 0 \in T
    BY <1>3, <2>2
  <2>4. ASSUME NEW i \in 1..(n - 1), i - 1 \in T PROVE i \in T
    <3> DEFINE u == g[i - 1]
               v == g[i]
               m == n - i
    <3>1. m \in 0..(n - 1) /\ u \in Table(n) /\ v = SortPass(u, m) /\ m + 1 \in 1..n
      BY <1>3, <2>1 DEF Rounds
    <3>2. Within(u, c) /\ \A l \in 1..n : l > m + 1 => \A k \in 1..l : Key(u, k) <= Key(u, l)
      BY <1>3, <2>4
    <3> HIDE DEF u, v, m, Key
    <3>3. /\ v \in Table(n) /\ Shuffled(u, v)
          /\ \A k \in 1..n : k > m + 1 => v[k] = u[k]
          /\ \A k \in 1..(m + 1) : \E x \in 1..(m + 1) : v[k] = u[x]
      <4>1. n \in Nat /\ u \in Table(n) /\ m \in 0..(n - 1)
        BY <1>3, <3>1
      <4>2. /\ SortPass(u, m) \in Table(n) /\ Shuffled(u, SortPass(u, m))
            /\ \A k \in 1..n : k > m + 1 => SortPass(u, m)[k] = u[k]
            /\ \A k \in 1..(m + 1) : \E x \in 1..(m + 1) : SortPass(u, m)[k] = u[x]
        BY <4>1, PassShuffles, Zenon
      <4>3. QED
        BY <3>1, <4>2, Zenon
    <3>4. \A k \in 1..m : Key(v, k) <= Key(v, m + 1)
      BY <1>3, <3>1, <3>2, PassSorts DEF Key
    <3>5. Within(v, c)
      BY <3>1, <3>2, <3>3, ShuffledWithin DEF Table
    <3>6. \A k \in 1..n : Key(v, k) \in Int
      <4>1. \A k \in 1..n : Key(v, k) \in (-MaxLate)..Horizon
        BY <3>3, <3>5 DEF Within, Key, Table
      <4>2. QED
        BY <4>1, TimerAssumption DEF Horizon
    <3>7. ASSUME NEW l \in 1..n, l > m, NEW k \in 1..l PROVE Key(v, k) <= Key(v, l)
      <4>1. k \in 1..n
        BY <1>3
      <4>2. CASE l = m + 1
        BY <1>3, <3>1, <3>4, <3>6, <4>1, <4>2
      <4>3. CASE l > m + 1
        <5>1. Key(v, l) = Key(u, l)
          BY <3>3, <4>3 DEF Key
        <5>2. CASE k > m + 1
          BY <3>2, <3>3, <4>1, <4>3, <5>1, <5>2 DEF Key
        <5>3. CASE k <= m + 1
          <6>1. PICK x \in 1..(m + 1) : v[k] = u[x]
            BY <1>3, <3>1, <3>3, <4>1, <5>3
          <6>2. x \in 1..l /\ Key(v, k) = Key(u, x)
            BY <1>3, <3>1, <4>3, <6>1 DEF Key
          <6>3. QED
            BY <3>2, <4>3, <5>1, <6>2
        <5>4. QED
          BY <1>3, <3>1, <4>1, <5>2, <5>3
      <4>4. QED
        BY <1>3, <3>1, <3>7, <4>2, <4>3
    <3>8. QED
      BY <1>3, <3>5, <3>7 DEF v, m
  <2> HIDE DEF T
  <2>5. n - 1 \in T
    <3>1. n - 1 \in 0..(n - 1)
      BY <2>2
    <3>2. QED
      BY <2>2, <2>3, <2>4, <3>1, Climb
  <2>6. Q(g[n - 1], n - 1)
    BY <2>5 DEF T
  <2>7. \A l \in 1..n : \A k \in 1..l : Key(Sort(tab), k) <= Key(Sort(tab), l)
    <3>1. \A l \in 1..n : l # 1 => \A k \in 1..l : Key(Sort(tab), k) <= Key(Sort(tab), l)
      BY <1>3, <2>2, <2>6
    <3>2. 1 \in 1..n => Key(Sort(tab), 1) \in (-MaxLate)..Horizon
      BY <1>2, <1>3 DEF Within
    <3>3. QED
      BY <1>3, <3>1, <3>2, TimerAssumption DEF Horizon
  <2>8. QED
    BY <1>1, <1>2, <1>3, <2>7, KeysInOrder
<1>6. QED
  BY <1>4, <1>5

-----------------------------------------------------------------------------
(* The invariant.                                                          *)

\* Intervals are short against BIT(30), so that TIME_COMPARE_BIG orders them.
Short == \A iv \in Interval : iv + MaxLate < Quarter

\* An application that sleeps asks for intervals below the 5 s beyond which no
\* wake-up is set, and its callbacks do no more than delete their own timers.
Careful == MaySleep => (\A iv \in Interval : iv < Near) /\ Uses \subseteq {"own"}

\* No callback has two timers.
OneEach(tab) == \A k, l \in 1..Len(tab) : tab[k].cb = tab[l].cb => k = l

\* The local variables of blt_soft_timer_process.
Locals ==
    /\ pc \in {"loop", "callback"} => idx >= 1 /\ pnow = now
    /\ pc = "callback" => idx <= MaxTimer

TableInv == TypeOK /\ OneEach(timers) /\ Locals

\* The order survives as long as no timer has been set again.
Sorted == pc \in {"app", "asleep"} \/ ~chg => InOrder(timers)

\* What the loop has passed lies ahead; what it has yet to look at does, or is due.
\* The callback that runs has its timer in slot idx, or nowhere.
Looked ==
    MaySleep /\ pc \in {"loop", "callback"} =>
        /\ \A k \in 1..Len(timers) : Expired(timers[k].t, now) \/ Ahead(timers[k].t, now) > 0
        /\ \A k \in 1..Len(timers) : k < idx => Ahead(timers[k].t, now) > 0
        /\ pc = "callback" => \A k \in 1..Len(timers) : timers[k].cb = cur => k = idx

\* The wake-up is that of the first timer, awake or asleep, and asleep it is still to come.
WakeSet ==
    MaySleep /\ pc \in {"app", "asleep"} /\ timers # << >> =>
        /\ wake = At(timers[1].t)
        /\ pc = "asleep" => Ahead(timers[1].t, now) >= 0

\* When the timers are due, and what is known of them.
DueInv ==
    /\ Within(timers, now) /\ Sorted /\ Looked /\ WakeSet
    /\ pc = "asleep" => MaySleep

TimerInv == TableInv /\ DueInv

-----------------------------------------------------------------------------
(* What the operations make of a table.                                    *)

\* b holds entries of a, none twice.
Picks(a, b) ==
    \E p \in [1..Len(b) -> 1..Len(a)] :
        /\ \A i, k \in 1..Len(b) : p[i] = p[k] => i = k
        /\ \A k \in 1..Len(b) : b[k] = a[p[k]]

LEMMA ShuffledPicks ==
    ASSUME NEW a, NEW b, Shuffled(a, b)
    PROVE  Picks(a, b)
BY DEF Shuffled, Permuted, Picks

LEMMA PicksKeeps ==
    ASSUME NEW a \in Seq(Timer), NEW b \in Seq(Timer), Picks(a, b), OneEach(a)
    PROVE  /\ OneEach(b)
           /\ \A k \in 1..Len(a), l \in 1..Len(b) : a[k].cb = b[l].cb => a[k] = b[l]
           /\ \A c : Within(a, c) => Within(b, c)
<1>1. PICK p \in [1..Len(b) -> 1..Len(a)] :
            /\ \A i, k \in 1..Len(b) : p[i] = p[k] => i = k
            /\ \A k \in 1..Len(b) : b[k] = a[p[k]]
  BY DEF Picks
<1>2. OneEach(b)
  BY <1>1 DEF OneEach
<1>3. \A k \in 1..Len(a), l \in 1..Len(b) : a[k].cb = b[l].cb => a[k] = b[l]
  BY <1>1 DEF OneEach
<1>4. \A c : Within(a, c) => Within(b, c)
  BY <1>1 DEF Within
<1>5. QED
  BY <1>2, <1>3, <1>4

\* Sorting keeps the timers.
LEMMA SortKeeps ==
    ASSUME NEW a \in Seq(Timer), OneEach(a)
    PROVE  /\ Sort(a) \in Seq(Timer) /\ Len(Sort(a)) = Len(a) /\ OneEach(Sort(a))
           /\ \A k \in 1..Len(a) : \E l \in 1..Len(Sort(a)) : Sort(a)[l] = a[k]
<1>1. Sort(a) \in Seq(Timer) /\ Shuffled(a, Sort(a))
  BY SortShuffles
<1>2. Picks(a, Sort(a)) /\ Len(Sort(a)) = Len(a)
  BY <1>1, ShuffledPicks DEF Shuffled, Permuted
<1>3. \A k \in 1..Len(a) : \E l \in 1..Len(Sort(a)) : Sort(a)[l] = a[k]
  BY <1>1, <1>2 DEF Shuffled, Holds
<1>4. QED
  BY <1>1, <1>2, <1>3, PicksKeeps

\* The entries behind the one deleted move up.
LEMMA Removed ==
    ASSUME NEW a \in Seq(Timer), NEW i \in 1..Len(a)
    PROVE  /\ DeleteByIndex(a, i) \in Seq(Timer) /\ Picks(a, DeleteByIndex(a, i))
           /\ Len(DeleteByIndex(a, i)) = Len(a) - 1
           /\ \A k \in 1..(Len(a) - 1) : DeleteByIndex(a, i)[k] = IF k < i THEN a[k] ELSE a[k + 1]
           /\ \A k \in 1..Len(a) : k # i =>
                 \E l \in 1..Len(DeleteByIndex(a, i)) : DeleteByIndex(a, i)[l] = a[k]
<1> DEFINE b == DeleteByIndex(a, i)
           x == SubSeq(a, 1, i - 1)
           y == SubSeq(a, i + 1, Len(a))
<1>1. Len(a) \in Nat /\ i \in Nat /\ \A k \in 1..Len(a) : a[k] \in Timer
  OBVIOUS
<1>2. b = x \o y
  <2>1. ~(i > Len(a))
    BY <1>1
  <2>2. QED
    BY <2>1, Zenon DEF DeleteByIndex, RemoveAt
<1>3. x \in Seq(Timer) /\ Len(x) = i - 1 /\ \A k \in 1..(i - 1) : x[k] = a[k]
  <2>1. \A k \in 1..(i - 1) : a[k] \in Timer
    BY <1>1
  <2>2. QED
    BY <1>1, <2>1, SubSeqProperties
<1>4. y \in Seq(Timer) /\ Len(y) = Len(a) - i /\ \A k \in 1..(Len(a) - i) : y[k] = a[i + k]
  <2>1. \A k \in (i + 1)..Len(a) : a[k] \in Timer
    BY <1>1
  <2>2. /\ y \in Seq(Timer) /\ Len(y) = (IF i + 1 <= Len(a) THEN Len(a) - (i + 1) + 1 ELSE 0)
        /\ \A k \in 1..(Len(a) - (i + 1) + 1) : y[k] = a[i + 1 + k - 1]
    BY <1>1, <2>1, SubSeqProperties
  <2>3. QED
    BY <1>1, <2>2
<1> HIDE DEF b, x, y
<1>5. /\ b \in Seq(Timer) /\ Len(b) = Len(a) - 1
      /\ \A k \in 1..Len(b) : b[k] = IF k < i THEN x[k] ELSE y[k - (i - 1)]
  <2>1. /\ x \o y \in Seq(Timer) /\ Len(x \o y) = Len(x) + Len(y)
        /\ \A k \in 1..(Len(x) + Len(y)) : (x \o y)[k] = IF k <= Len(x) THEN x[k] ELSE y[k - Len(x)]
    BY <1>3, <1>4, ConcatProperties
  <2>2. QED
    BY <1>1, <1>2, <1>3, <1>4, <2>1
<1>6. \A k \in 1..Len(b) : b[k] = IF k < i THEN a[k] ELSE a[k + 1]
  <2>1. ASSUME NEW k \in 1..Len(b), k < i PROVE b[k] = a[k]
    <3>1. k \in 1..(i - 1) /\ b[k] = x[k]
      BY <1>1, <1>5, <2>1
    <3>2. QED
      BY <1>3, <3>1
  <2>2. ASSUME NEW k \in 1..Len(b), ~(k < i) PROVE b[k] = a[k + 1]
    <3>1. k - (i - 1) \in 1..(Len(a) - i) /\ b[k] = y[k - (i - 1)] /\ i + (k - (i - 1)) = k + 1
      BY <1>1, <1>5, <2>2
    <3>2. QED
      BY <1>4, <3>1
  <2>3. QED
    BY <2>1, <2>2
<1> DEFINE p == [k \in 1..Len(b) |-> IF k < i THEN k ELSE k + 1]
<1>7. p \in [1..Len(b) -> 1..Len(a)] /\ (\A j, k \in 1..Len(b) : p[j] = p[k] => j = k)
      /\ \A k \in 1..Len(b) : b[k] = a[p[k]]
  <2>1. p \in [1..Len(b) -> 1..Len(a)]
    BY <1>1, <1>5
  <2>2. \A j, k \in 1..Len(b) : p[j] = p[k] => j = k
    BY <1>1, <1>5
  <2>3. \A k \in 1..Len(b) : b[k] = a[p[k]]
    BY <1>6
  <2>4. QED
    BY <2>1, <2>2, <2>3
<1> HIDE DEF p
<1>8. Picks(a, b)
  BY <1>7 DEF Picks
<1>9. ASSUME NEW k \in 1..Len(a), k # i PROVE \E l \in 1..Len(b) : b[l] = a[k]
  <2>1. CASE k < i
    BY <1>1, <1>5, <1>6, <2>1
  <2>2. CASE k > i
    <3>1. k - 1 \in 1..Len(b) /\ ~(k - 1 < i) /\ k - 1 + 1 = k
      BY <1>1, <1>5, <2>2
    <3>2. QED
      BY <1>6, <3>1
  <2>3. QED
    BY <1>1, <1>9, <2>1, <2>2
<1>10. QED
  BY <1>5, <1>6, <1>8, <1>9 DEF b

LEMMA RemovedInOrder ==
    ASSUME NEW a \in Seq(Timer), NEW i \in 1..Len(a), InOrder(a)
    PROVE  InOrder(DeleteByIndex(a, i))
<1> DEFINE b == DeleteByIndex(a, i)
<1>1. /\ Len(a) \in Nat /\ Len(b) = Len(a) - 1
      /\ \A k \in 1..Len(b) : b[k] = IF k < i THEN a[k] ELSE a[k + 1]
  BY Removed
<1> HIDE DEF b
<1>2. ASSUME NEW l \in 1..Len(b), NEW k \in 1..l
      PROVE  \E v \in 1..Len(a) : \E u \in 1..v : b[l] = a[v] /\ b[k] = a[u]
  <2>1. k \in 1..Len(b)
    BY <1>1
  <2>2. CASE l < i
    BY <1>1, <2>1, <2>2
  <2>3. CASE l >= i
    <3>1. l + 1 \in 1..Len(a) /\ b[l] = a[l + 1]
      BY <1>1, <2>3
    <3>2. CASE k < i
      BY <1>1, <2>1, <3>1, <3>2
    <3>3. CASE k >= i
      <4>1. k + 1 \in 1..(l + 1) /\ b[k] = a[k + 1]
        BY <1>1, <2>1, <3>3
      <4>2. QED
        BY <3>1, <4>1
    <3>4. QED
      BY <3>2, <3>3
  <2>4. QED
    BY <2>2, <2>3
<1>3. QED
  BY <1>2 DEF InOrder, b

\* A timer that is set again.
ResetAt(a, i, iv, t) == [a EXCEPT ![i].interval = iv, ![i].t = t]

LEMMA ResetKeeps ==
    ASSUME NEW a \in Seq(Timer), NEW i \in 1..Len(a), NEW iv \in Interval, NEW t \in Tick
    PROVE  LET b == ResetAt(a, i, iv, t) IN
           /\ b \in Seq(Timer) /\ Len(b) = Len(a)
           /\ \A k \in 1..Len(a) : b[k] =
                 IF k = i THEN [cb |-> a[i].cb, t |-> t, interval |-> iv] ELSE a[k]
<1> DEFINE e == [cb |-> a[i].cb, t |-> t, interval |-> iv]
           b == ResetAt(a, i, iv, t)
<1>1. a[i] \in Timer /\ a \in [1..Len(a) -> Timer] /\ Len(a) \in Nat
  OBVIOUS
<1>2. e \in Timer
  BY <1>1 DEF Timer
<1>3. b = [a EXCEPT ![i] = e]
  <2> DEFINE d == [a[i] EXCEPT !.interval = iv]
             f == [d EXCEPT !.t = t]
  <2>1. d = [cb |-> a[i].cb, t |-> a[i].t, interval |-> iv]
    BY <1>1 DEF Timer
  <2>2. f = e
    <3>1. d \in Timer
      BY <1>1, <2>1 DEF Timer
    <3> HIDE DEF d
    <3>2. f = [cb |-> d.cb, t |-> t, interval |-> d.interval]
      BY <3>1 DEF Timer
    <3>3. QED
      BY <2>1, <3>2
  <2>3. b = [a EXCEPT ![i] = f]
    BY <1>1 DEF ResetAt
  <2>4. QED
    BY <2>2, <2>3
<1> HIDE DEF e, b
<1>4. b \in Seq(Timer) /\ Len(b) = Len(a) /\ \A k \in 1..Len(a) : b[k] = IF k = i THEN e ELSE a[k]
  BY <1>2, <1>3, ExceptSeq
<1>5. QED
  BY <1>4 DEF b, e

-----------------------------------------------------------------------------
(* Types, and the timers that move.                                        *)

\* OnlyOwnMove, of one step.
Moved ==
    \A k \in 1..Len(timers) :
        \/ Stays(k)
        \/ ReturnInOwn /\ timers[k].cb = cur
        \/ Deletes(timers[k].cb) /\ pc' = pc /\ timers' = DeleteByIndex(timers, k)
        \/ ReturnElsewhere

WakeType == [on : BOOLEAN, t : Tick]

LEMMA Ticks ==
    /\ Wrap \in Nat \ {0} /\ 0 \in Tick /\ Off \in WakeType /\ NoCb \notin Cb
    /\ \A t \in Tick : At(t) \in WakeType
    /\ \A t \in Tick, d \in Nat : Plus(t, d) \in Tick
<1>1. Wrap \in Nat \ {0} /\ 0 \in Tick
  BY TimerAssumption DEF Tick
<1>2. Off \in WakeType /\ \A t \in Tick : At(t) \in WakeType
  BY <1>1 DEF Off, At, WakeType
<1>3. \A t \in Tick, d \in Nat : Plus(t, d) \in Tick
  BY <1>1 DEF Plus, Tick
<1>4. NoCb \notin Cb
  BY TimerAssumption DEF NoCb
<1>5. QED
  BY <1>1, <1>2, <1>3, <1>4

LEMMA TimerFields ==
    ASSUME NEW tab \in Seq(Timer), NEW k \in 1..Len(tab)
    PROVE  tab[k] \in Timer /\ tab[k].cb \in Cb /\ tab[k].t \in Tick /\ tab[k].interval \in Interval
<1>1. tab[k] \in Timer
  OBVIOUS
<1>2. QED
  BY <1>1 DEF Timer

LEMMA WakeForType ==
    ASSUME NEW tab \in Seq(Timer), NEW c
    PROVE  WakeFor(tab, c) \in WakeType
<1>1. tab # << >> => tab[1].t \in Tick
  <2>1. tab # << >> => 1 \in 1..Len(tab)
    OBVIOUS
  <2>2. QED
    BY <2>1, TimerFields
<1>2. QED
  BY <1>1, Ticks DEF WakeFor

LEMMA InitTable == Init => TableInv
<1>1. SUFFICES ASSUME Init PROVE TableInv
  OBVIOUS
<1>2. timers = << >> /\ << >> \in Seq(Timer) /\ Len(timers) = 0
  BY <1>1 DEF Init
<1>3. MaxTimer \in Nat
  BY TimerAssumption
<1>4. TypeOK
  <2>1. wake \in WakeType /\ now \in Tick /\ pnow \in Tick /\ cur \in Cb \cup {NoCb}
    BY <1>1, Ticks DEF Init
  <2>2. pc \in {"app", "asleep", "loop", "callback"} /\ chg \in BOOLEAN /\ idx \in 0..(MaxTimer + 1)
    <3>1. 0 \in 0..(MaxTimer + 1)
      BY <1>3
    <3>2. QED
      BY <1>1, <3>1, Zenon DEF Init
  <2>3. timers \in Seq(Timer) /\ Len(timers) <= MaxTimer
    BY <1>2, <1>3
  <2>4. QED
    BY <2>1, <2>2, <2>3, Zenon DEF TypeOK, WakeType
<1>5. QED
  BY <1>1, <1>2, <1>4 DEF Init, TableInv, OneEach, Locals

LEMMA AddTable ==
    ASSUME TableInv, NEW c \in Cb, NEW iv \in Interval, Add(c, iv)
    PROVE  TableInv' /\ Moved
<1>1. /\ timers \in Seq(Timer) /\ Len(timers) \in Nat /\ OneEach(timers) /\ now \in Tick
      /\ MaxTimer \in Nat /\ Interval \subseteq Nat
  BY TimerAssumption DEF TableInv, TypeOK
<1>2. UNCHANGED <<now, pc, pnow, idx, chg, cur>>
  BY DEF Add, localVars
<1>3. CASE Len(timers) >= MaxTimer
  <2>1. UNCHANGED <<timers, wake>>
    BY <1>1, <1>3 DEF Add
  <2>2. TableInv'
    BY <1>2, <2>1 DEF TableInv, TypeOK, OneEach, Locals
  <2>3. QED
    BY <1>1, <2>1, <2>2 DEF Moved, Stays
<1>4. CASE Len(timers) < MaxTimer
  <2> DEFINE e == [cb |-> c, t |-> Plus(now, iv), interval |-> iv]
             a == Append(timers, e)
  <2>1. e \in Timer
    BY <1>1, Ticks DEF Timer
  <2>2. /\ a \in Seq(Timer) /\ Len(a) = Len(timers) + 1 /\ a[Len(a)] = e
        /\ \A k \in 1..Len(timers) : a[k] = timers[k]
    BY <1>1, <2>1
  <2>3. \A k \in 1..Len(timers) : timers[k].cb # c
    BY DEF Add, Armed
  <2>4. OneEach(a)
    <3>1. e.cb = c
      OBVIOUS
    <3> HIDE DEF a, e
    <3>2. QED
      BY <1>1, <2>2, <2>3, <3>1 DEF OneEach
  <2>5. timers' = Sort(a) /\ wake' = At(timers'[1].t)
    BY <1>1, <1>4 DEF Add, Added
  <2> HIDE DEF a, e
  <2>6. /\ timers' \in Seq(Timer) /\ Len(timers') = Len(a) /\ OneEach(timers')
        /\ \A k \in 1..Len(a) : \E l \in 1..Len(timers') : timers'[l] = a[k]
    BY <2>2, <2>4, <2>5, SortKeeps
  <2>7. wake' \in WakeType
    <3>1. 1 \in 1..Len(timers')
      BY <1>1, <2>2, <2>6
    <3>2. QED
      BY <2>5, <2>6, <3>1, TimerFields, Ticks
  <2>8. TypeOK'
    BY <1>1, <1>2, <1>4, <2>2, <2>6, <2>7, Ticks DEF TableInv, TypeOK, WakeType
  <2>9. Moved
    <3>1. ASSUME NEW k \in 1..Len(timers) PROVE Stays(k)
      <4>1. k \in 1..Len(a) /\ a[k] = timers[k]
        BY <1>1, <2>2
      <4>2. QED
        BY <2>6, <4>1 DEF Stays
    <3>2. QED
      BY <3>1 DEF Moved
  <2>10. QED
    BY <1>2, <2>6, <2>8, <2>9 DEF TableInv, OneEach, Locals
<1>5. QED
  BY <1>1, <1>3, <1>4

LEMMA DeleteTable ==
    ASSUME TableInv, NEW c \in Cb, Delete(c)
    PROVE  TableInv' /\ Moved
<1> DEFINE i == IndexOf(timers, c)
<1>1. /\ timers \in Seq(Timer) /\ Len(timers) \in Nat /\ OneEach(timers) /\ now \in Tick
      /\ Len(timers) <= MaxTimer /\ MaxTimer \in Nat
  BY TimerAssumption DEF TableInv, TypeOK
<1>2. UNCHANGED <<now, pc, pnow, idx, chg, cur>> /\ Deletes(c)
      /\ timers' = DeleteByIndex(timers, i) /\ wake' \in {wake, WakeFor(timers', now)}
  BY DEF Delete, localVars
<1>3. i \in 1..Len(timers) /\ timers[i].cb = c
  BY DEF Delete, Armed, IndexOf
<1> HIDE DEF i
<1>4. /\ timers' \in Seq(Timer) /\ Picks(timers, timers') /\ Len(timers') = Len(timers) - 1
      /\ \A k \in 1..Len(timers) : k # i => \E l \in 1..Len(timers') : timers'[l] = timers[k]
  BY <1>1, <1>2, <1>3, Removed
<1>5. OneEach(timers')
  BY <1>1, <1>4, PicksKeeps
<1>6. wake' \in WakeType
  BY <1>2, <1>4, WakeForType DEF TableInv, TypeOK, WakeType
<1>7. TypeOK'
  BY <1>1, <1>2, <1>4, <1>6, Ticks DEF TableInv, TypeOK, WakeType
<1>8. Moved
  <2>1. ASSUME NEW k \in 1..Len(timers), k # i PROVE Stays(k)
    BY <1>4, <2>1 DEF Stays
  <2>2. Deletes(timers[i].cb) /\ pc' = pc /\ timers' = DeleteByIndex(timers, i)
    BY <1>2, <1>3
  <2>3. QED
    BY <2>1, <2>2, Zenon DEF Moved
<1>9. QED
  BY <1>2, <1>5, <1>7, <1>8 DEF TableInv, OneEach, Locals

\* The callback returns: slot idx is deleted or set again.
LEMMA ReturnsTable ==
    ASSUME NEW tab \in Seq(Timer), OneEach(tab), idx \in Nat \ {0}, pnow \in Tick,
           chg \in BOOLEAN, Returns(tab)
    PROVE  /\ timers' \in Seq(Timer) /\ Len(timers') <= Len(tab) /\ OneEach(timers')
           /\ chg' \in BOOLEAN
           /\ \A k \in 1..Len(tab) : k # idx => \E l \in 1..Len(timers') :
                 timers'[l].cb = tab[k].cb /\ timers'[l].t = tab[k].t
<1>1. Len(tab) \in Nat
  OBVIOUS
<1>2. CASE timers' = tab /\ chg' \in BOOLEAN
  BY <1>1, <1>2
<1>3. CASE idx <= Len(tab) /\ timers' = DeleteByIndex(tab, idx) /\ UNCHANGED chg
  <2>1. idx \in 1..Len(tab)
    BY <1>1, <1>3
  <2>2. timers' \in Seq(Timer) /\ Picks(tab, timers') /\ Len(timers') = Len(tab) - 1
    BY <1>3, <2>1, Removed
  <2>3. OneEach(timers')
    BY <2>2, PicksKeeps
  <2>4. \A k \in 1..Len(tab) : k # idx => \E l \in 1..Len(timers') : timers'[l] = tab[k]
    BY <1>3, <2>1, Removed
  <2>5. Len(timers') <= Len(tab)
    BY <1>1, <2>2
  <2>6. chg' \in BOOLEAN
    BY <1>3
  <2>7. QED
    BY <2>2, <2>3, <2>4, <2>5, <2>6
<1>4. CASE /\ chg' = TRUE /\ idx <= Len(tab)
           /\ \E iv \in Interval \cup {tab[idx].interval} :
                 timers' = ResetAt(tab, idx, iv, Plus(pnow, iv))
  <2>1. idx \in 1..Len(tab)
    BY <1>1, <1>4
  <2>2. PICK iv \in Interval : timers' = ResetAt(tab, idx, iv, Plus(pnow, iv))
    BY <1>4, <2>1, TimerFields
  <2>3. Plus(pnow, iv) \in Tick
    BY TimerAssumption, Ticks
  <2> DEFINE e == [cb |-> tab[idx].cb, t |-> Plus(pnow, iv), interval |-> iv]
  <2>4. /\ timers' \in Seq(Timer) /\ Len(timers') = Len(tab)
        /\ \A k \in 1..Len(tab) : timers'[k] = IF k = idx THEN e ELSE tab[k]
    BY <2>1, <2>2, <2>3, ResetKeeps
  <2>5. e.cb = tab[idx].cb
    OBVIOUS
  <2> HIDE DEF e
  <2>6. \A k \in 1..Len(tab) : timers'[k].cb = tab[k].cb /\ (timers'[k].t = tab[k].t \/ k = idx)
    BY <2>4, <2>5
  <2>7. OneEach(timers')
    BY <2>4, <2>6 DEF OneEach
  <2>8. QED
    BY <1>1, <1>4, <2>4, <2>6, <2>7
<1>5. \/ UNCHANGED chg /\ timers' = DeleteByIndex(tab, idx)
      \/ chg' = TRUE /\ timers' = tab
      \/ /\ chg' = TRUE /\ idx <= Len(tab)
         /\ \E iv \in Interval \cup {tab[idx].interval} :
               timers' = ResetAt(tab, idx, iv, Plus(pnow, iv))
  BY Zenon DEF Returns, ResetAt
<1>6. idx > Len(tab) => DeleteByIndex(tab, idx) = tab
  BY DEF DeleteByIndex
<1>7. idx <= Len(tab) \/ idx > Len(tab)
  BY <1>1
<1>8. QED
  BY <1>2, <1>3, <1>4, <1>5, <1>6, <1>7, Zenon

LEMMA LoopFireTable ==
    ASSUME TableInv, LoopFire
    PROVE  TableInv' /\ Moved
<1>1. /\ timers \in Seq(Timer) /\ Len(timers) \in Nat /\ OneEach(timers)
      /\ Len(timers) <= MaxTimer /\ MaxTimer \in Nat /\ idx \in Nat
  BY TimerAssumption DEF TableInv, TypeOK
<1>2. pc = "loop" /\ idx \in 1..Len(timers) /\ pnow = now /\ cur' = timers[idx].cb
      /\ pc' = "callback" /\ UNCHANGED <<timers, now, wake, pnow, idx, chg>>
  BY <1>1 DEF LoopFire, TableInv, Locals, localVars
<1>3. cur' \in Cb
  BY <1>1, <1>2, TimerFields
<1>4. TypeOK'
  BY <1>2, <1>3, Zenon DEF TableInv, TypeOK
<1>5. Moved
  BY <1>1, <1>2 DEF Moved, Stays
<1>6. Locals'
  BY <1>1, <1>2 DEF Locals
<1>7. QED
  BY <1>1, <1>2, <1>4, <1>5, <1>6 DEF TableInv, OneEach

\* A callback that has its timer in slot idx leaves the other timers alone.
LEMMA LoopReturnTable ==
    ASSUME TableInv, LoopReturn
    PROVE  TableInv' /\ Moved
<1>1. /\ timers \in Seq(Timer) /\ Len(timers) \in Nat /\ OneEach(timers) /\ now \in Tick
      /\ Len(timers) <= MaxTimer /\ MaxTimer \in Nat /\ chg \in BOOLEAN /\ wake \in WakeType
  BY TimerAssumption DEF TableInv, TypeOK, WakeType
<1>2. pc = "callback" /\ idx \in 1..MaxTimer /\ idx \in Nat \ {0} /\ pnow = now /\ pnow \in Tick
  BY <1>1 DEF LoopReturn, TableInv, TypeOK, Locals
<1>3. /\ pc' = "loop" /\ idx' = idx + 1 /\ cur' = NoCb /\ UNCHANGED <<now, wake, pnow>>
      /\ Returns(timers)
  BY DEF LoopReturn
<1>4. /\ timers' \in Seq(Timer) /\ Len(timers') <= Len(timers) /\ OneEach(timers')
      /\ chg' \in BOOLEAN
      /\ \A k \in 1..Len(timers) : k # idx => \E l \in 1..Len(timers') :
            timers'[l].cb = timers[k].cb /\ timers'[l].t = timers[k].t
  BY <1>1, <1>2, <1>3, ReturnsTable
<1>5. TypeOK'
  <2>1. idx' \in 0..(MaxTimer + 1) /\ Len(timers') \in Nat
    BY <1>1, <1>2, <1>3, <1>4
  <2>2. Len(timers') <= MaxTimer
    BY <1>1, <1>4, <2>1
  <2>3. QED
    BY <1>1, <1>2, <1>3, <1>4, <2>1, <2>2, Zenon DEF TypeOK, WakeType
<1>6. Locals'
  BY <1>2, <1>3 DEF Locals
<1>7. Moved
  <2>1. CASE idx <= Len(timers) /\ timers[idx].cb = cur
    <3>1. ReturnInOwn
      BY <1>2, <1>3, <2>1 DEF ReturnInOwn
    <3>2. ASSUME NEW k \in 1..Len(timers), k # idx PROVE Stays(k)
      BY <1>4, <3>2 DEF Stays
    <3>3. QED
      BY <2>1, <3>1, <3>2, Zenon DEF Moved
  <2>2. CASE ~(idx <= Len(timers) /\ timers[idx].cb = cur)
    BY <1>2, <1>3, <2>2, Zenon DEF Moved, ReturnElsewhere
  <2>3. QED
    BY <2>1, <2>2
<1>8. QED
  BY <1>4, <1>5, <1>6, <1>7 DEF TableInv, OneEach

LEMMA LoopEndTable ==
    ASSUME TableInv, LoopEnd
    PROVE  TableInv' /\ Moved
<1>1. /\ timers \in Seq(Timer) /\ Len(timers) \in Nat /\ OneEach(timers) /\ now \in Tick
      /\ Len(timers) <= MaxTimer /\ MaxTimer \in Nat
  BY TimerAssumption DEF TableInv, TypeOK
<1>2. /\ timers' \in {timers, Sort(timers)} /\ wake' = WakeFor(timers', pnow)
      /\ pc' = "app" /\ pnow' = 0 /\ idx' = 0 /\ chg' = FALSE /\ UNCHANGED <<now, cur>>
  BY DEF LoopEnd
<1>3. /\ timers' \in Seq(Timer) /\ Len(timers') = Len(timers) /\ OneEach(timers')
      /\ \A k \in 1..Len(timers) : \E l \in 1..Len(timers') : timers'[l] = timers[k]
  <2>1. CASE timers' = timers
    BY <1>1, <2>1
  <2>2. CASE timers' = Sort(timers)
    BY <1>1, <2>2, SortKeeps
  <2>3. QED
    BY <1>2, <2>1, <2>2
<1>4. wake' \in WakeType /\ idx' \in 0..(MaxTimer + 1)
  BY <1>1, <1>2, <1>3, WakeForType
<1>5. TypeOK'
  <2>1. pnow' \in Tick /\ now' \in Tick /\ cur' \in Cb \cup {NoCb}
    BY <1>1, <1>2, Ticks DEF TableInv, TypeOK
  <2>2. timers' \in Seq(Timer) /\ Len(timers') <= MaxTimer
    BY <1>1, <1>3
  <2>3. QED
    BY <1>2, <1>4, <2>1, <2>2, Zenon DEF TypeOK, WakeType
<1>6. Moved
  BY <1>3 DEF Moved, Stays
<1>7. QED
  BY <1>2, <1>3, <1>5, <1>6 DEF TableInv, OneEach, Locals

\* The steps that leave the table alone.
LEMMA OtherTable ==
    ASSUME TableInv, Process \/ LoopSkip \/ Sleep \/ Clock \/ UNCHANGED vars
    PROVE  TableInv' /\ (UNCHANGED vars \/ Moved)
<1>1. /\ timers \in Seq(Timer) /\ Len(timers) \in Nat /\ OneEach(timers) /\ now \in Tick
      /\ Len(timers) <= MaxTimer /\ MaxTimer \in Nat /\ idx \in Nat
  BY TimerAssumption DEF TableInv, TypeOK
<1>2. UNCHANGED timers
  BY DEF Process, ProcessNothing, ProcessStart, LoopSkip, Sleep, Clock, vars
<1>3. Moved
  BY <1>1, <1>2 DEF Moved, Stays
<1>4. OneEach(timers')
  BY <1>1, <1>2
<1>5. CASE Process
  <2>1. wake' \in WakeType
    BY <1>5, Ticks DEF Process, ProcessNothing, ProcessStart, TableInv, TypeOK, WakeType
  <2>2. /\ pc' \in {"app", "loop"} /\ pnow' \in Tick /\ idx' \in 0..(MaxTimer + 1)
        /\ UNCHANGED <<now, cur>>
        /\ pc' = "loop" => idx' = 1 /\ pnow' = now
    BY <1>1, <1>5 DEF Process, ProcessNothing, ProcessStart, TableInv, TypeOK, localVars
  <2>3. chg' \in BOOLEAN
    BY <1>5, Zenon DEF Process, ProcessNothing, ProcessStart, TableInv, TypeOK, localVars
  <2>4. TypeOK'
    BY <1>1, <1>2, <2>1, <2>2, <2>3 DEF TableInv, TypeOK, WakeType
  <2>5. QED
    BY <1>3, <1>4, <2>2, <2>4 DEF TableInv, OneEach, Locals
<1>6. CASE LoopSkip
  <2>1. idx' \in 0..(MaxTimer + 1) /\ idx' = idx + 1 /\ UNCHANGED <<now, wake, pc, pnow, chg, cur>>
        /\ pc = "loop"
    BY <1>1, <1>6 DEF LoopSkip
  <2>2. TypeOK'
    BY <1>2, <2>1, Zenon DEF TableInv, TypeOK
  <2>3. QED
    BY <1>1, <1>3, <1>4, <2>1, <2>2 DEF TableInv, OneEach, Locals
<1>7. CASE Sleep \/ Clock
  <2>1. /\ now' \in Tick /\ pc' \in {"app", "asleep"} /\ UNCHANGED <<wake, pnow, idx, chg, cur>>
    BY <1>1, <1>7, Ticks DEF Sleep, Clock, TableInv, TypeOK, localVars
  <2>2. TypeOK'
    BY <1>2, <2>1, Zenon DEF TableInv, TypeOK
  <2>3. QED
    BY <1>3, <1>4, <2>1, <2>2 DEF TableInv, OneEach, Locals
<1>8. CASE UNCHANGED vars
  BY <1>8 DEF TableInv, TypeOK, OneEach, Locals, vars, localVars
<1>9. QED
  BY <1>5, <1>6, <1>7, <1>8

LEMMA TableStep ==
    ASSUME TableInv, [Next]_vars
    PROVE  TableInv' /\ [Moved]_vars
<1>1. CASE \E c \in Cb, iv \in Interval : Add(c, iv)
  BY <1>1, AddTable
<1>2. CASE \E c \in Cb : Delete(c)
  BY <1>2, DeleteTable
<1>3. CASE LoopFire
  BY <1>3, LoopFireTable
<1>4. CASE LoopReturn
  BY <1>4, LoopReturnTable
<1>5. CASE LoopEnd
  BY <1>5, LoopEndTable
<1>6. CASE Process \/ LoopSkip \/ Sleep \/ Clock \/ UNCHANGED vars
  BY <1>6, OtherTable
<1>7. QED
  BY <1>1, <1>2, <1>3, <1>4, <1>5, <1>6 DEF Next

\* The timer table never outgrows MAX_TIMER_NUM, and the loop of
\* blt_soft_timer_process does not leave it, however the callbacks it calls add and
\* delete timers.
THEOREM TimerTypeCorrect == Spec => []TypeOK
<1>1. TableInv /\ [Next]_vars => TableInv'
  BY TableStep
<1>2. TableInv => TypeOK
  BY DEF TableInv
<1>3. QED
  BY <1>1, <1>2, InitTable, PTL DEF Spec

\* blt_soft_timer_process sets timers again by their slot, and yet a timer leaves
\* the table or is put off only by its own callback and by its deletion: whatever
\* callbacks add and delete, as long as the one that returns still has its timer in
\* the slot it was called for.
THEOREM TimerOnlyOwnMove == Spec => OnlyOwnMove
<1>1. TableInv /\ [Next]_vars => TableInv' /\ [Moved]_vars
  BY TableStep
<1>2. QED
  BY <1>1, InitTable, PTL DEF Spec, OnlyOwnMove, Moved

-----------------------------------------------------------------------------
(* Order and wake-up.                                                      *)

LEMMA Bounds ==
    /\ Wrap \in Nat /\ Quarter \in Nat /\ MaxLate \in Nat /\ Near \in Nat /\ Pre \in Nat
    /\ Post \in Nat /\ 2 * Quarter <= Wrap /\ 1 <= Quarter /\ Pre <= Quarter /\ 1 <= Post
    /\ Post <= Wrap /\ Near <= Wrap
    /\ Horizon \in Int /\ Horizon + MaxLate < Quarter /\ (MaySleep => Horizon < Near)
    /\ \A iv \in Interval : iv \in 1..(Wrap - 1)
<1>1. /\ Wrap \in Nat /\ Quarter \in Nat /\ MaxLate \in Nat /\ Near \in Nat /\ Pre \in Nat
      /\ Post \in Nat /\ 2 * Quarter <= Wrap /\ 1 <= Quarter /\ Pre <= Quarter /\ 1 <= Post
      /\ Post <= Wrap /\ Near <= Wrap
      /\ \A iv \in Interval : iv \in 1..(Wrap - 1)
  BY TimerAssumption
<1>2. QED
  BY <1>1 DEF Horizon

\* Where t lies, without the modulus.
LEMMA AheadDef ==
    ASSUME NEW t \in Tick, NEW c \in Tick
    PROVE  /\ Ahead(t, c) \in Int /\ t \in 0..(Wrap - 1) /\ c \in 0..(Wrap - 1)
           /\ t = c + Ahead(t, c) \/ t = c + Ahead(t, c) + Wrap \/ t = c + Ahead(t, c) - Wrap
           /\ 2 * Ahead(t, c) < Wrap /\ 2 * Ahead(t, c) >= -Wrap
BY Bounds DEF Ahead, Tick

\* A timer set for an interval from now on.
LEMMA AheadNew ==
    ASSUME NEW c \in Tick, NEW iv \in Interval, Short, Careful
    PROVE  Plus(c, iv) \in Tick /\ Ahead(Plus(c, iv), c) = iv
           /\ iv \in (-MaxLate)..Horizon /\ iv > 0
<1>1. /\ iv \in 1..(Wrap - 1) /\ iv + MaxLate < Quarter /\ c \in 0..(Wrap - 1)
      /\ (MaySleep => iv < Near)
  BY Bounds DEF Short, Careful, Tick
<1>2. c + iv \in (-Wrap)..(2 * Wrap - 1)
  BY <1>1, Bounds
<1>3. Plus(c, iv) = IF c + iv >= Wrap THEN c + iv - Wrap ELSE c + iv
  BY <1>1, <1>2, ModWrap, Bounds DEF Plus
<1>4. Plus(c, iv) \in Tick
  BY <1>1, <1>3, Bounds DEF Tick
<1>5. Ahead(Plus(c, iv), c) = iv
  BY <1>1, <1>3, Bounds DEF Ahead
<1>6. iv \in (-MaxLate)..Horizon
  BY <1>1, Bounds DEF Horizon
<1>7. QED
  BY <1>1, <1>4, <1>5, <1>6

\* The clock comes one tick nearer.
LEMMA AheadTick ==
    ASSUME NEW t \in Tick, NEW c \in Tick, MaxLate < Quarter,
           Ahead(t, c) \in (-MaxLate)..Horizon
    PROVE  Ahead(t, Plus(c, 1)) = Ahead(t, c) - 1
<1>1. c + 1 \in (-Wrap)..(2 * Wrap - 1) /\ c \in 0..(Wrap - 1) /\ t \in 0..(Wrap - 1)
  BY Bounds DEF Tick
<1>2. Plus(c, 1) = IF c + 1 >= Wrap THEN c + 1 - Wrap ELSE c + 1
  <2> DEFINE d == c + 1
  <2>1. d \in (-Wrap)..(2 * Wrap - 1) /\ d >= 0
    BY <1>1, Bounds
  <2> HIDE DEF d
  <2>2. d % Wrap = IF d < 0 THEN d + Wrap ELSE IF d >= Wrap THEN d - Wrap ELSE d
    BY <2>1, ModWrap
  <2>3. d % Wrap = IF d >= Wrap THEN d - Wrap ELSE d
    BY <2>1, <2>2, Bounds
  <2>4. QED
    BY <1>1, <2>3, Bounds DEF d, Plus
<1>3. Ahead(t, c) \in Int /\ Ahead(t, c) > -Quarter
  BY AheadDef, Bounds
<1>4. QED
  BY <1>1, <1>2, <1>3, Bounds DEF Ahead

\* The differences of ticks that the code takes, in terms of Ahead.
LEMMA AheadMod ==
    ASSUME NEW t \in Tick, NEW c \in Tick, MaxLate < Quarter,
           Ahead(t, c) \in (-MaxLate)..Horizon
    PROVE  /\ (t - c) % Wrap = IF Ahead(t, c) >= 0 THEN Ahead(t, c) ELSE Ahead(t, c) + Wrap
           /\ (c - t) % Wrap = IF Ahead(t, c) <= 0 THEN -Ahead(t, c) ELSE Wrap - Ahead(t, c)
           /\ Expired(t, c) <=> IF Ahead(t, c) <= Pre THEN Pre - Ahead(t, c) < Post
                                 ELSE Pre - Ahead(t, c) + Wrap < Post
<1> DEFINE x == Ahead(t, c)
<1>1. /\ x \in Int /\ t \in 0..(Wrap - 1) /\ c \in 0..(Wrap - 1)
      /\ t = c + x \/ t = c + x + Wrap \/ t = c + x - Wrap
  BY AheadDef
<1>2. x > -Quarter /\ x < Quarter
  BY <1>1, Bounds
<1> HIDE DEF x
<1>3. /\ t - c \in (-Wrap)..(2 * Wrap - 1) /\ c - t \in (-Wrap)..(2 * Wrap - 1)
      /\ c + Pre - t \in (-Wrap)..(2 * Wrap - 1)
  BY <1>1, Bounds
<1>4. (t - c) % Wrap = IF x >= 0 THEN x ELSE x + Wrap
  <2>1. (t - c) % Wrap = IF t - c < 0 THEN t - c + Wrap ELSE IF t - c >= Wrap THEN t - c - Wrap ELSE t - c
    BY <1>3, ModWrap
  <2>2. QED
    BY <1>1, <1>2, <2>1, Bounds
<1>5. (c - t) % Wrap = IF x <= 0 THEN -x ELSE Wrap - x
  <2>1. (c - t) % Wrap = IF c - t < 0 THEN c - t + Wrap ELSE IF c - t >= Wrap THEN c - t - Wrap ELSE c - t
    BY <1>3, ModWrap
  <2>2. QED
    BY <1>1, <1>2, <2>1, Bounds
<1>6. (c + Pre - t) % Wrap = IF x <= Pre THEN Pre - x ELSE Pre - x + Wrap
  <2>1. (c + Pre - t) % Wrap = IF c + Pre - t < 0 THEN c + Pre - t + Wrap
                               ELSE IF c + Pre - t >= Wrap THEN c + Pre - t - Wrap ELSE c + Pre - t
    <3> DEFINE d == c + Pre - t
    <3>1. d \in (-Wrap)..(2 * Wrap - 1)
      BY <1>3
    <3> HIDE DEF d
    <3>2. d % Wrap = IF d < 0 THEN d + Wrap ELSE IF d >= Wrap THEN d - Wrap ELSE d
      BY <3>1, ModWrap
    <3>3. QED
      BY <1>1, <3>2, Bounds DEF d
  <2>2. CASE t = c + x
    BY <1>1, <1>2, <2>1, <2>2, Bounds
  <2>3. CASE t = c + x + Wrap
    <3>1. x < 0
      BY <1>1, <2>3, Bounds
    <3>2. c + Pre - t = Pre - x - Wrap
      BY <1>1, <2>3, Bounds
    <3>3. Pre - x < Wrap
      BY <1>1, <1>2, Bounds
    <3>4. QED
      BY <1>1, <2>1, <3>1, <3>2, <3>3, Bounds
  <2>4. CASE t = c + x - Wrap
    <3>1. c + Pre - t = Pre - x + Wrap /\ Pre - x > -Wrap
      BY <1>1, <1>2, <2>4, Bounds
    <3>2. QED
      BY <1>1, <2>1, <3>1, Bounds
  <2>5. QED
    BY <1>1, <2>2, <2>3, <2>4
<1>7. Expired(t, c) <=> IF x <= Pre THEN Pre - x < Post ELSE Pre - x + Wrap < Post
  BY <1>6 DEF Expired
<1>8. QED
  BY <1>4, <1>5, <1>7 DEF x

\* What the invariant says of each timer.
LEMMA TimersNear ==
    ASSUME TimerInv, Short, NEW k \in 1..Len(timers)
    PROVE  /\ timers[k].t \in Tick /\ now \in Tick /\ MaxLate < Quarter
           /\ Ahead(timers[k].t, now) \in (-MaxLate)..Horizon /\ Ahead(timers[k].t, now) \in Int
<1>1. timers \in Seq(Timer) /\ now \in Tick /\ Within(timers, now)
  BY DEF TimerInv, TableInv, TypeOK, DueInv
<1>2. timers[k].t \in Tick /\ timers[k].interval \in Interval
  BY <1>1, TimerFields
<1>3. MaxLate < Quarter
  BY <1>2, Bounds DEF Short
<1>4. QED
  BY <1>1, <1>2, <1>3, AheadDef DEF Within

\* In a table in order the first timer is due first.
LEMMA FirstIsFirst ==
    ASSUME NEW tab \in Seq(Timer), NEW c \in Tick, Within(tab, c), InOrder(tab),
           NEW k \in 1..Len(tab)
    PROVE  1 \in 1..Len(tab) /\ Ahead(tab[1].t, c) <= Ahead(tab[k].t, c)
<1>1. 1 \in 1..k /\ 1 \in 1..Len(tab)
  OBVIOUS
<1>2. QED
  BY <1>1, KeysInOrder

\* A first timer that is to come, and near, gets the wake-up.
LEMMA WakeForFirst ==
    ASSUME NEW tab \in Seq(Timer), tab # << >>, NEW c \in Tick, Within(tab, c), MaySleep,
           MaxLate < Quarter, Ahead(tab[1].t, c) > 0
    PROVE  WakeFor(tab, c) = At(tab[1].t)
<1>1. 1 \in 1..Len(tab)
  OBVIOUS
<1>2. tab[1].t \in Tick /\ Ahead(tab[1].t, c) \in (-MaxLate)..Horizon
  BY <1>1, TimerFields DEF Within
<1>3. (tab[1].t - c) % Wrap = Ahead(tab[1].t, c)
  BY <1>2, AheadMod, AheadDef
<1>4. (tab[1].t - c) % Wrap < Near
  BY <1>2, <1>3, AheadDef, Bounds
<1>5. QED
  BY <1>4 DEF WakeFor

LEMMA InitDue == Init => DueInv
<1>1. SUFFICES ASSUME Init PROVE DueInv
  OBVIOUS
<1>2. timers = << >> /\ Len(timers) = 0 /\ pc = "app"
  BY <1>1 DEF Init
<1>3. QED
  BY <1>2 DEF DueInv, Within, Sorted, InOrder, Looked, WakeSet

LEMMA AddDue ==
    ASSUME TimerInv, Short, Careful, NEW c \in Cb, NEW iv \in Interval, Add(c, iv)
    PROVE  DueInv'
<1>1. /\ timers \in Seq(Timer) /\ Len(timers) \in Nat /\ now \in Tick /\ MaxTimer \in Nat
      /\ Within(timers, now) /\ DueInv
  BY TimerAssumption DEF TimerInv, TableInv, TypeOK, DueInv
<1>2. UNCHANGED <<now, pc, idx, chg, cur>> /\ (pc = "app" \/ ~MaySleep)
  BY DEF Add, Adds, localVars, Careful
<1>3. CASE Len(timers) >= MaxTimer
  <2>1. UNCHANGED <<timers, wake>>
    BY <1>1, <1>3 DEF Add
  <2>2. QED
    BY <1>1, <1>2, <2>1 DEF DueInv, Within, Sorted, InOrder, Looked, WakeSet
<1>4. CASE Len(timers) < MaxTimer
  <2> DEFINE e == [cb |-> c, t |-> Plus(now, iv), interval |-> iv]
             a == Append(timers, e)
  <2>1. Plus(now, iv) \in Tick /\ Ahead(Plus(now, iv), now) \in (-MaxLate)..Horizon
    BY <1>1, AheadNew
  <2>2. e \in Timer /\ e.t = Plus(now, iv)
    BY <2>1 DEF Timer
  <2>3. /\ a \in Seq(Timer) /\ Len(a) = Len(timers) + 1 /\ a[Len(a)] = e
        /\ \A k \in 1..Len(timers) : a[k] = timers[k]
    BY <1>1, <2>2
  <2>4. timers' = Sort(a) /\ wake' = At(timers'[1].t)
    BY <1>1, <1>4 DEF Add, Added
  <2> HIDE DEF a, e
  <2>5. Within(a, now)
    <3>1. ASSUME NEW k \in 1..Len(a) PROVE Ahead(a[k].t, now) \in (-MaxLate)..Horizon
      <4>1. CASE k \in 1..Len(timers)
        BY <1>1, <2>3, <4>1 DEF Within
      <4>2. CASE k = Len(a)
        BY <2>1, <2>2, <2>3, <4>2
      <4>3. QED
        BY <1>1, <2>3, <4>1, <4>2
    <3>2. QED
      BY <3>1 DEF Within
  <2>6. Within(timers', now) /\ InOrder(timers')
    BY <1>1, <2>3, <2>4, <2>5, SortSorts
  <2>7. QED
    BY <1>1, <1>2, <2>4, <2>6 DEF DueInv, Within, Sorted, InOrder, Looked, WakeSet
<1>5. QED
  BY <1>1, <1>3, <1>4

LEMMA DeleteDue ==
    ASSUME TimerInv, Short, Careful, NEW c \in Cb, Delete(c)
    PROVE  DueInv'
<1> DEFINE i == IndexOf(timers, c)
<1>1. /\ timers \in Seq(Timer) /\ OneEach(timers) /\ Within(timers, now) /\ Sorted /\ Looked
      /\ pc = "asleep" => MaySleep
  BY DEF TimerInv, TableInv, TypeOK, DueInv
<1>2. /\ UNCHANGED <<now, pc, idx, chg, cur>> /\ timers' = DeleteByIndex(timers, i)
      /\ pc \in {"app", "callback"} /\ (MaySleep => pc = "callback" /\ c = cur)
  BY DEF Delete, Deletes, localVars, Careful
<1>3. i \in 1..Len(timers) /\ timers[i].cb = c
  BY DEF Delete, Armed, IndexOf
<1> HIDE DEF i
<1>4. /\ timers' \in Seq(Timer) /\ Picks(timers, timers') /\ Len(timers') = Len(timers) - 1
      /\ \A k \in 1..(Len(timers) - 1) : timers'[k] = IF k < i THEN timers[k] ELSE timers[k + 1]
  BY <1>1, <1>2, <1>3, Removed
<1>5. Within(timers', now)
  BY <1>1, <1>4, PicksKeeps
<1>6. Sorted'
  <2>1. CASE pc \in {"app", "asleep"} \/ ~chg
    <3>1. InOrder(timers)
      BY <1>1, <2>1 DEF Sorted
    <3>2. QED
      BY <1>1, <1>2, <1>3, <3>1, RemovedInOrder DEF Sorted, InOrder
  <2>2. QED
    BY <1>2, <2>1 DEF Sorted
<1>7. Looked'
  <2>1. SUFFICES ASSUME MaySleep PROVE Looked'
    BY DEF Looked
  <2>2. i = idx /\ pc = "callback" /\ timers[i].cb = cur
    BY <1>1, <1>2, <1>3, <2>1 DEF Looked
  <2>3. ASSUME NEW k \in 1..Len(timers')
        PROVE  /\ Expired(timers'[k].t, now) \/ Ahead(timers'[k].t, now) > 0
               /\ k < idx => Ahead(timers'[k].t, now) > 0
               /\ timers'[k].cb # cur
    <3>1. CASE k < idx
      <4>1. k \in 1..Len(timers) /\ timers'[k] = timers[k] /\ k # idx
        BY <1>1, <1>4, <2>2, <3>1
      <4>2. QED
        BY <1>1, <2>1, <2>2, <3>1, <4>1 DEF Looked
    <3>2. CASE ~(k < idx)
      <4>1. k + 1 \in 1..Len(timers) /\ timers'[k] = timers[k + 1] /\ k + 1 # idx
        BY <1>1, <1>3, <1>4, <2>2, <3>2
      <4>2. QED
        BY <1>1, <2>1, <2>2, <3>2, <4>1 DEF Looked
    <3>3. QED
      BY <3>1, <3>2
  <2>4. QED
    BY <1>2, <2>3 DEF Looked
<1>8. QED
  BY <1>1, <1>2, <1>5, <1>6, <1>7 DEF DueInv, Within, WakeSet

\* The first timer is due: so are those behind it whose time has come.
LEMMA ProcessDue ==
    ASSUME TimerInv, Short, Careful, Process
    PROVE  DueInv'
<1>1. /\ timers \in Seq(Timer) /\ now \in Tick /\ Within(timers, now) /\ Sorted /\ WakeSet
  BY DEF TimerInv, TableInv, TypeOK, DueInv
<1>2. UNCHANGED <<timers, now>> /\ pc \in {"app", "asleep"} /\ InOrder(timers)
  BY <1>1 DEF Process, ProcessNothing, ProcessStart, Sorted
<1>3. CASE ProcessNothing
  <2>1. pc' = "app" /\ (timers # << >> => UNCHANGED wake)
    BY <1>3 DEF ProcessNothing
  <2>2. QED
    BY <1>1, <1>2, <2>1 DEF DueInv, Within, Sorted, InOrder, Looked, WakeSet
<1>4. CASE ProcessStart
  <2>1. pc' = "loop" /\ idx' = 1 /\ timers # << >> /\ Expired(timers[1].t, now)
    BY <1>4 DEF ProcessStart
  <2>2. ASSUME NEW k \in 1..Len(timers)
        PROVE  Expired(timers[k].t, now) \/ Ahead(timers[k].t, now) > 0
    <3>1. 1 \in 1..Len(timers) /\ Ahead(timers[1].t, now) <= Ahead(timers[k].t, now)
      BY <1>1, <1>2, FirstIsFirst
    <3>2. /\ timers[k].t \in Tick /\ timers[1].t \in Tick /\ MaxLate < Quarter
          /\ Ahead(timers[k].t, now) \in (-MaxLate)..Horizon
          /\ Ahead(timers[1].t, now) \in (-MaxLate)..Horizon
          /\ Ahead(timers[k].t, now) \in Int /\ Ahead(timers[1].t, now) \in Int
      BY <3>1, TimersNear
    <3>3. CASE Ahead(timers[k].t, now) <= 0
      <4>1. Ahead(timers[1].t, now) <= Pre /\ Ahead(timers[k].t, now) <= Pre
        BY <3>1, <3>2, <3>3, Bounds
      <4>2. Pre - Ahead(timers[1].t, now) < Post
        BY <1>1, <2>1, <3>2, <4>1, AheadMod
      <4>3. Pre - Ahead(timers[k].t, now) < Post
        BY <3>1, <3>2, <4>2, Bounds
      <4>4. QED
        BY <1>1, <3>2, <4>1, <4>3, AheadMod
    <3>4. QED
      BY <3>2, <3>3
  <2>3. QED
    BY <1>1, <1>2, <2>1, <2>2 DEF DueInv, Within, Sorted, InOrder, Looked, WakeSet
<1>5. QED
  BY <1>3, <1>4 DEF Process

LEMMA LoopSkipDue ==
    ASSUME TimerInv, Short, Careful, LoopSkip
    PROVE  DueInv'
<1>1. /\ timers \in Seq(Timer) /\ now \in Tick /\ Within(timers, now) /\ Sorted /\ Looked
      /\ pc = "loop" /\ idx \in 1..Len(timers) /\ pnow = now
  BY DEF TimerInv, TableInv, TypeOK, DueInv, LoopSkip, Locals
<1>2. UNCHANGED <<timers, now, pc, chg>> /\ idx' = idx + 1 /\ ~Expired(timers[idx].t, now)
  BY <1>1 DEF LoopSkip
<1>3. Looked'
  <2>1. ASSUME MaySleep, NEW k \in 1..Len(timers), k < idx + 1 PROVE Ahead(timers[k].t, now) > 0
    <3>1. k < idx \/ k = idx
      BY <1>1, <2>1
    <3>2. QED
      BY <1>1, <1>2, <2>1, <3>1 DEF Looked
  <2>2. QED
    BY <1>1, <1>2, <2>1 DEF Looked
<1>4. QED
  BY <1>1, <1>2, <1>3 DEF DueInv, Within, Sorted, InOrder, WakeSet

\* What the loop has to keep, of a table whose entries are old ones or set again.
LEMMA FiredDue ==
    ASSUME NEW tab \in Seq(Timer), OneEach(tab), Within(tab, now), now \in Tick,
           Short, Careful, pc' = "loop", idx \in Nat \ {0}, pnow = now,
           chg \in BOOLEAN, ~chg => InOrder(tab), UNCHANGED now, idx' = idx + 1, Returns(tab),
           MaySleep => \A k \in 1..Len(tab) :
                           /\ Expired(tab[k].t, now) \/ Ahead(tab[k].t, now) > 0
                           /\ k < idx => Ahead(tab[k].t, now) > 0
    PROVE  DueInv'
<1>1. Len(tab) \in Nat
  OBVIOUS
<1>2. SUFFICES /\ Within(timers', now) /\ (~chg' => InOrder(timers'))
               /\ MaySleep => \A k \in 1..Len(timers') :
                           /\ Expired(timers'[k].t, now) \/ Ahead(timers'[k].t, now) > 0
                           /\ k < idx + 1 => Ahead(timers'[k].t, now) > 0
  BY <1>2 DEF DueInv, Within, Sorted, InOrder, Looked, WakeSet
<1>3. CASE "return" \in Uses /\ timers' = DeleteByIndex(tab, idx) /\ UNCHANGED chg
  <2>1. ~MaySleep
    BY <1>3 DEF Careful
  <2>2. CASE idx > Len(tab)
    <3>1. timers' = tab
      BY <1>3, <2>2 DEF DeleteByIndex
    <3>2. QED
      BY <1>3, <2>1, <3>1
  <2>3. CASE idx <= Len(tab)
    <3>1. idx \in 1..Len(tab)
      BY <1>1, <2>3
    <3>2. timers' \in Seq(Timer) /\ Picks(tab, timers')
      BY <1>3, <3>1, Removed
    <3>3. Within(timers', now)
      BY <3>2, PicksKeeps
    <3>4. ~chg => InOrder(timers')
      BY <1>3, <3>1, RemovedInOrder
    <3>5. QED
      BY <1>3, <2>1, <3>3, <3>4
  <2>4. QED
    BY <1>1, <2>2, <2>3
<1>4. CASE chg' = TRUE /\ idx > Len(tab) /\ timers' = tab
  <2>1. MaySleep => \A k \in 1..Len(tab) : k < idx
    BY <1>1, <1>4
  <2>2. QED
    BY <1>4, <2>1
<1>5. CASE /\ chg' = TRUE /\ idx <= Len(tab)
           /\ \E iv \in Interval \cup {tab[idx].interval} :
                 timers' = ResetAt(tab, idx, iv, Plus(pnow, iv))
  <2>1. idx \in 1..Len(tab)
    BY <1>1, <1>5
  <2>2. PICK iv \in Interval : timers' = ResetAt(tab, idx, iv, Plus(now, iv))
    BY <1>5, <2>1, TimerFields
  <2>3. /\ Plus(now, iv) \in Tick /\ Ahead(Plus(now, iv), now) = iv
        /\ iv \in (-MaxLate)..Horizon /\ iv > 0
    BY AheadNew
  <2> DEFINE e == [cb |-> tab[idx].cb, t |-> Plus(now, iv), interval |-> iv]
  <2>4. /\ Len(timers') = Len(tab)
        /\ \A k \in 1..Len(tab) : timers'[k] = IF k = idx THEN e ELSE tab[k]
    <3> DEFINE t == Plus(now, iv)
               b == ResetAt(tab, idx, iv, t)
    <3>1. t \in Tick /\ timers' = b
      BY <2>2, <2>3
    <3> HIDE DEF t
    <3>2. /\ Len(b) = Len(tab)
          /\ \A k \in 1..Len(tab) :
               b[k] = IF k = idx THEN [cb |-> tab[idx].cb, t |-> t, interval |-> iv] ELSE tab[k]
      BY <2>1, <3>1, ResetKeeps
    <3>3. QED
      BY <3>1, <3>2 DEF t
  <2>5. e.t = Plus(now, iv)
    OBVIOUS
  <2> HIDE DEF e
  <2>6. Ahead(timers'[idx].t, now) = iv
    BY <2>1, <2>3, <2>4, <2>5
  <2>7. \A k \in 1..Len(tab) : k # idx => timers'[k] = tab[k]
    BY <2>4
  <2>8. Within(timers', now)
    <3>1. ASSUME NEW k \in 1..Len(timers') PROVE Ahead(timers'[k].t, now) \in (-MaxLate)..Horizon
      BY <2>3, <2>4, <2>6, <2>7 DEF Within
    <3>2. QED
      BY <3>1 DEF Within
  <2>9. ASSUME MaySleep, NEW k \in 1..Len(timers')
        PROVE  /\ Expired(timers'[k].t, now) \/ Ahead(timers'[k].t, now) > 0
               /\ k < idx + 1 => Ahead(timers'[k].t, now) > 0
    <3>1. CASE k = idx
      BY <2>3, <2>6, <3>1
    <3>2. CASE k # idx
      <4>1. k \in 1..Len(tab) /\ timers'[k] = tab[k] /\ (k < idx + 1 => k < idx)
        BY <2>4, <2>7, <3>2
      <4>2. QED
        BY <2>9, <4>1
    <3>3. QED
      BY <3>1, <3>2
  <2>10. QED
    BY <1>5, <2>8, <2>9
<1>6. \/ "return" \in Uses /\ timers' = DeleteByIndex(tab, idx) /\ UNCHANGED chg
      \/ chg' = TRUE /\ idx > Len(tab) /\ timers' = tab
      \/ /\ chg' = TRUE /\ idx <= Len(tab)
         /\ \E iv \in Interval \cup {tab[idx].interval} :
               timers' = ResetAt(tab, idx, iv, Plus(pnow, iv))
  BY Zenon DEF Returns, ResetAt
<1>7. QED
  BY <1>3, <1>4, <1>5, <1>6, Zenon

LEMMA LoopFireDue ==
    ASSUME TimerInv, Short, Careful, LoopFire
    PROVE  DueInv'
<1>1. /\ timers \in Seq(Timer) /\ Len(timers) \in Nat /\ OneEach(timers) /\ Within(timers, now)
      /\ Sorted /\ Looked /\ idx \in Nat /\ pc = "loop" /\ idx >= 1
  BY DEF TimerInv, TableInv, TypeOK, DueInv, LoopFire, Locals
<1>2. /\ idx \in 1..Len(timers) /\ pc' = "callback" /\ cur' = timers[idx].cb
      /\ UNCHANGED <<timers, now, idx, chg>>
  BY <1>1 DEF LoopFire, localVars
<1>3. \A k \in 1..Len(timers) : timers[k].cb = timers[idx].cb => k = idx
  BY <1>1, <1>2 DEF OneEach
<1>4. Looked'
  BY <1>1, <1>2, <1>3 DEF Looked
<1>5. QED
  BY <1>1, <1>2, <1>4 DEF DueInv, Within, Sorted, InOrder, WakeSet

LEMMA LoopReturnDue ==
    ASSUME TimerInv, Short, Careful, LoopReturn
    PROVE  DueInv'
<1>1. /\ timers \in Seq(Timer) /\ OneEach(timers) /\ now \in Tick /\ Within(timers, now)
      /\ pc = "callback" /\ idx \in Nat \ {0} /\ pnow = now
  BY DEF TimerInv, TableInv, TypeOK, DueInv, LoopReturn, Locals
<1>2. chg \in BOOLEAN /\ (~chg => InOrder(timers))
  BY Zenon DEF TimerInv, TableInv, TypeOK, DueInv, Sorted
<1>3. pc' = "loop" /\ idx' = idx + 1 /\ UNCHANGED now /\ Returns(timers)
  BY DEF LoopReturn
<1>4. MaySleep => \A k \in 1..Len(timers) :
                           /\ Expired(timers[k].t, now) \/ Ahead(timers[k].t, now) > 0
                           /\ k < idx => Ahead(timers[k].t, now) > 0
  BY <1>1 DEF TimerInv, DueInv, Looked
<1>5. QED
  BY <1>1, <1>2, <1>3, <1>4, FiredDue

\* At the end of the loop every timer lies ahead, and the first gets the wake-up.
LEMMA LoopEndDue ==
    ASSUME TimerInv, Short, Careful, LoopEnd
    PROVE  DueInv'
<1>1. /\ timers \in Seq(Timer) /\ Len(timers) \in Nat /\ now \in Tick /\ Within(timers, now)
      /\ idx \in Nat
  BY DEF TimerInv, TableInv, TypeOK, DueInv
<1>2. pc = "loop" /\ idx > Len(timers) /\ pnow = now
  BY DEF LoopEnd, TimerInv, TableInv, Locals
<1>3. pc' = "app" /\ UNCHANGED now /\ wake' = WakeFor(timers', now)
  BY <1>2 DEF LoopEnd
<1>4. timers' \in Seq(Timer) /\ Shuffled(timers, timers') /\ Within(timers', now) /\ InOrder(timers')
  <2>1. CASE chg
    <3>1. timers' = Sort(timers)
      BY <2>1 DEF LoopEnd
    <3>2. QED
      BY <1>1, <3>1, SortShuffles, SortSorts
  <2>2. CASE ~chg
    <3>1. timers' = timers
      BY <2>2 DEF LoopEnd
    <3>2. InOrder(timers)
      BY <2>2 DEF TimerInv, DueInv, Sorted
    <3>3. QED
      BY <1>1, <3>1, <3>2, ShuffledSelf
  <2>3. QED
    BY <2>1, <2>2
<1>5. ASSUME MaySleep, timers' # << >> PROVE wake' = At(timers'[1].t)
  <2>1. 1 \in 1..Len(timers')
    BY <1>4, <1>5
  <2>2. PICK i \in 1..Len(timers) : timers'[1] = timers[i]
    BY <1>1, <1>4, <2>1 DEF Shuffled, Permuted
  <2>3. i < idx
    BY <1>1, <1>2
  <2>4. Ahead(timers[i].t, now) > 0
    BY <1>2, <1>5, <2>3 DEF TimerInv, DueInv, Looked
  <2>5. MaxLate < Quarter
    BY TimersNear
  <2>6. QED
    BY <1>1, <1>3, <1>4, <1>5, <2>2, <2>4, <2>5, WakeForFirst
<1>6. QED
  BY <1>3, <1>4, <1>5 DEF DueInv, Within, Sorted, InOrder, Looked, WakeSet

LEMMA SleepDue ==
    ASSUME TimerInv, Short, Careful, Sleep
    PROVE  DueInv'
<1>1. /\ timers \in Seq(Timer) /\ now \in Tick /\ Within(timers, now) /\ Sorted /\ WakeSet
  BY DEF TimerInv, TableInv, TypeOK, DueInv
<1>2. /\ MaySleep /\ pc = "app" /\ pc' = "asleep" /\ UNCHANGED <<timers, now, wake>>
      /\ wake.on => (wake.t - now) % Wrap \in 1..(Wrap \div 2)
  BY DEF Sleep
<1>3. ASSUME timers # << >> PROVE wake = At(timers[1].t) /\ Ahead(timers[1].t, now) >= 0
  <2>1. 1 \in 1..Len(timers)
    BY <1>1, <1>3
  <2>2. wake = At(timers[1].t)
    BY <1>1, <1>2, <1>3 DEF WakeSet
  <2>3. (timers[1].t - now) % Wrap \in 1..(Wrap \div 2)
    BY <1>2, <2>2 DEF At
  <2>4. /\ timers[1].t \in Tick /\ MaxLate < Quarter /\ Ahead(timers[1].t, now) \in Int
        /\ Ahead(timers[1].t, now) \in (-MaxLate)..Horizon
    BY <2>1, TimersNear
  <2>5. (timers[1].t - now) % Wrap =
            IF Ahead(timers[1].t, now) >= 0 THEN Ahead(timers[1].t, now)
            ELSE Ahead(timers[1].t, now) + Wrap
    BY <1>1, <2>4, AheadMod
  <2>6. 2 * (Wrap \div 2) <= Wrap /\ Wrap \div 2 \in Nat
    BY Bounds
  <2>7. Ahead(timers[1].t, now) >= 0
    BY <2>3, <2>4, <2>5, <2>6, Bounds
  <2>8. QED
    BY <2>2, <2>7
<1>4. QED
  BY <1>1, <1>2, <1>3 DEF DueInv, Within, Sorted, InOrder, Looked, WakeSet

\* Awake no timer gets later than MaxLate; asleep none gets late.
LEMMA ClockDue ==
    ASSUME TimerInv, Short, Careful, Clock
    PROVE  DueInv'
<1>1. /\ timers \in Seq(Timer) /\ now \in Tick /\ Within(timers, now) /\ Sorted /\ WakeSet
      /\ pc = "asleep" => MaySleep
  BY DEF TimerInv, TableInv, TypeOK, DueInv
<1>2. pc \in {"app", "asleep"} /\ now' = Plus(now, 1) /\ UNCHANGED <<timers, wake, pc>>
  BY DEF Clock
<1>3. ASSUME NEW k \in 1..Len(timers)
      PROVE  /\ Ahead(timers[k].t, now') \in (-MaxLate)..Horizon
             /\ pc = "asleep" => Ahead(timers[k].t, now') >= 0
  <2> DEFINE x == Ahead(timers[k].t, now)
  <2>1. /\ timers[k].t \in Tick /\ MaxLate < Quarter /\ x \in Int /\ x \in (-MaxLate)..Horizon
    BY TimersNear
  <2>2. Ahead(timers[k].t, now') = x - 1
    BY <1>1, <1>2, <2>1, AheadTick
  <2>3. CASE pc = "app"
    <3>1. Late(timers[k].t) < MaxLate
      BY <2>3 DEF Clock
    <3>2. (now - timers[k].t) % Wrap = IF x <= 0 THEN -x ELSE Wrap - x
      BY <1>1, <2>1, AheadMod
    <3> HIDE DEF x
    <3>3. CASE x <= 0
      <4>1. (now - timers[k].t) % Wrap = -x /\ 2 * (-x) < Wrap
        BY <2>1, <3>2, <3>3, Bounds
      <4>2. Late(timers[k].t) = -x
        BY <4>1 DEF Late
      <4>3. QED
        BY <2>1, <2>2, <2>3, <3>1, <4>2, Bounds
    <3>4. CASE x > 0
      BY <2>1, <2>2, <2>3, <3>4, Bounds
    <3>5. QED
      BY <2>1, <3>3, <3>4
  <2>4. CASE pc = "asleep"
    <3>1. 1 \in 1..Len(timers) /\ Ahead(timers[1].t, now) <= x
      BY <1>1, <2>4, FirstIsFirst DEF Sorted
    <3>2. timers # << >>
      BY <3>1
    <3>3. wake = At(timers[1].t) /\ Ahead(timers[1].t, now) >= 0
      BY <1>1, <2>4, <3>2 DEF WakeSet
    <3>4. timers[1].t # now
      BY <2>4, <3>3 DEF Clock, At
    <3>5. timers[1].t \in Tick
      BY <1>1, <3>1, TimerFields
    <3>6. Ahead(timers[1].t, now) # 0 /\ Ahead(timers[1].t, now) \in Int
      <4>1. /\ timers[1].t \in 0..(Wrap - 1) /\ now \in 0..(Wrap - 1)
        BY <1>1, <3>5 DEF Tick
      <4> DEFINE u == timers[1].t
      <4>2. u \in 0..(Wrap - 1) /\ u # now
        BY <3>4, <4>1
      <4> HIDE DEF u
      <4>3. Ahead(u, now) # 0 /\ Ahead(u, now) \in Int
        BY <4>1, <4>2, Bounds DEF Ahead
      <4>4. QED
        BY <4>3 DEF u
    <3>7. x >= 1
      BY <2>1, <3>1, <3>3, <3>6
    <3> HIDE DEF x
    <3>8. QED
      BY <2>1, <2>2, <3>7, Bounds
  <2>5. QED
    BY <1>2, <2>3, <2>4
<1>4. Within(timers', now')
  BY <1>2, <1>3 DEF Within
<1>5. pc = "asleep" /\ timers # << >> => Ahead(timers[1].t, now') >= 0
  <2>1. timers # << >> => 1 \in 1..Len(timers)
    BY <1>1
  <2>2. QED
    BY <1>3, <2>1
<1>6. QED
  BY <1>1, <1>2, <1>4, <1>5 DEF DueInv, Within, Sorted, InOrder, Looked, WakeSet

LEMMA TimerStep ==
    ASSUME Short, Careful, TimerInv, [Next]_vars
    PROVE  TimerInv'
<1>1. SUFFICES DueInv'
  BY TableStep DEF TimerInv
<1>2. CASE \E c \in Cb, iv \in Interval : Add(c, iv)
  BY <1>2, AddDue
<1>3. CASE \E c \in Cb : Delete(c)
  BY <1>3, DeleteDue
<1>4. CASE Process
  BY <1>4, ProcessDue
<1>5. CASE LoopSkip
  BY <1>5, LoopSkipDue
<1>6. CASE LoopFire
  BY <1>6, LoopFireDue
<1>7. CASE LoopReturn
  BY <1>7, LoopReturnDue
<1>8. CASE LoopEnd
  BY <1>8, LoopEndDue
<1>9. CASE Sleep
  BY <1>9, SleepDue
<1>10. CASE Clock
  BY <1>10, ClockDue
<1>11. CASE UNCHANGED vars
  BY <1>11 DEF TimerInv, DueInv, Within, Sorted, InOrder, Looked, WakeSet, vars, localVars
<1>12. QED
  BY <1>2, <1>3, <1>4, <1>5, <1>6, <1>7, <1>8, <1>9, <1>10, <1>11 DEF Next

\* Whatever is added, deleted and set again, and however often the tick counter
\* wraps, the table that the main loop leaves behind is in the order the timers
\* are due: with intervals short against BIT(30) the modular comparison of
\* blt_soft_timer_sort is a linear order.
THEOREM TimerOrdered ==
    ASSUME Short, Careful
    PROVE  Spec => []Ordered
<1>1. Init => TimerInv
  BY InitTable, InitDue DEF TimerInv
<1>2. TimerInv /\ [Next]_vars => TimerInv'
  BY TimerStep
<1>3. TimerInv => Ordered
  BY DEF TimerInv, DueInv, Sorted, InOrder, Ordered
<1>4. QED
  BY <1>1, <1>2, <1>3, PTL DEF Spec

\* The MCU never sleeps past its first timer: an application that keeps its
\* intervals below 5 s, and removes timers only by a call in their own callbacks, always
\* goes to sleep with the wake-up of blt_soft_timer_process set for it.
THEOREM TimerWakeArmed ==
    ASSUME Short, Careful
    PROVE  Spec => []WakeArmed
<1>1. Init => TimerInv
  BY InitTable, InitDue DEF TimerInv
<1>2. TimerInv /\ [Next]_vars => TimerInv'
  BY TimerStep
<1>3. TimerInv => WakeArmed
  BY DEF TimerInv, DueInv, WakeSet, WakeArmed
<1>4. QED
  BY <1>1, <1>2, <1>3, PTL DEF Spec
=============================================================================
