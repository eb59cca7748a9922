--------------------------- MODULE TlQueueProofs ---------------------------
(***************************************************************************)
(* The list of TlQueue is well formed after any sequence of calls, and it   *)
(* implements OrderedQueue, for any set of items and any priorities.        *)
(***************************************************************************)
EXTENDS TlQueue, TLAPS, FiniteSetTheorems, SequenceTheorems, WellFoundedInduction

\* A set of naturals has a least member.
LEMMA LeastNat ==
  ASSUME NEW T, T \subseteq Nat, T # {}
  PROVE  \E x \in T : \A y \in T : x <= y
<1>1. \E x \in T : \A y \in T : ~(<<y, x>> \in OpToRel(<, Nat))
  BY NatLessThanWellFounded, WFMin
<1>2. PICK x \in T : \A y \in T : ~(<<y, x>> \in OpToRel(<, Nat))
  BY <1>1
<1>3. \A y \in T : ~(y < x)
  BY <1>2 DEF OpToRel
<1> QED BY <1>3

\* A function on 1..n is a sequence of length n.
LEMMA FcnIsSeq ==
  ASSUME NEW S, NEW n \in Nat, NEW s \in [1..n -> S]
  PROVE  s \in Seq(S) /\ Len(s) = n /\ (s = <<>> <=> n = 0)
<1>1. s \in Seq(S) BY SeqDef
<1>2. Len(s) = n BY <1>1, LenProperties
<1>3. s = <<>> <=> n = 0 BY <1>1, <1>2, EmptySeq
<1> QED BY <1>1, <1>2, <1>3

\* What a search loop has passed is the front of the queue.
LEMMA PassedIsPrefix ==
  ASSUME TypeOK, NEW n \in Nat, NEW s \in [1..n -> Item], Chain(s),
         NEW m \in Nat, NEW p \in [1..m -> Item], Passed(p)
  PROVE  m <= n /\ \A i \in 1..m : p[i] = s[i]
<1>1. Len(s) = n /\ (s = <<>> <=> n = 0) BY FcnIsSeq
<1>2. Len(p) = m /\ (p = <<>> <=> m = 0) BY FcnIsSeq
<1>3. Nil \notin Item BY ItemAssumption
<1> DEFINE T == {i \in 1..m : i > n \/ p[i] # s[i]}
<1>4. SUFFICES ASSUME T # {} PROVE FALSE
  OBVIOUS
<1>5. PICK k \in T : \A j \in T : k <= j
  <2>1. T \subseteq Nat OBVIOUS
  <2> HIDE DEF T
  <2> QED BY <2>1, <1>4, LeastNat
<1>6. k # 1
  <2> SUFFICES ASSUME k = 1 PROVE FALSE OBVIOUS
  <2>1. 1 \in 1..m /\ p[1] \in Item /\ p[1] = head BY <1>2, <1>5 DEF Passed
  <2>2. n # 0 BY <2>1, <1>1, <1>3 DEF Chain
  <2>3. s[1] = head BY <2>2, <1>1 DEF Chain
  <2> QED BY <2>1, <2>2, <2>3, <1>5
<1>7. k - 1 \in 1..m /\ k - 1 \notin T
  BY <1>5, <1>6
<1>8. k - 1 <= n /\ p[k - 1] = s[k - 1] /\ next[p[k - 1]] = p[k]
  BY <1>2, <1>5, <1>7 DEF Passed
<1>9. CASE k - 1 = n
  BY <1>1, <1>3, <1>5, <1>7, <1>8, <1>9 DEF Chain
<1>10. CASE k - 1 < n
  BY <1>1, <1>5, <1>7, <1>8, <1>10 DEF Chain
<1> QED BY <1>8, <1>9, <1>10

\* The pointers determine the queue.
LEMMA ContentsIs ==
  ASSUME TypeOK, NEW s, Queue(s)
  PROVE  Contents = s
<1>1. curNum \in Nat /\ s \in [1..curNum -> Item] /\ Chain(s) BY DEF TypeOK, Queue
<1>2. Contents \in [1..curNum -> Item] /\ Chain(Contents)
  BY <1>1 DEF Contents
<1>3. Len(Contents) = curNum /\ (Contents = <<>> <=> curNum = 0) BY <1>1, <1>2, FcnIsSeq
<1>4. Passed(Contents) BY <1>2, <1>3 DEF Passed, Chain
<1>5. \A i \in 1..curNum : Contents[i] = s[i] BY <1>1, <1>2, <1>4, PassedIsPrefix
<1> QED BY <1>1, <1>2, <1>5

PutAfter(s, k, x) == Abstract!PutAfter(s, k, x)
TakeOut(s, k) == Abstract!TakeOut(s, k)

\* Linking an item in behind the first k.
LEMMA LinkStep ==
  ASSUME TypeOK, NEW s, Queue(s), NEW x \in held, NEW k \in 0..curNum,
         head' = IF k = 0 THEN x ELSE head,
         next' = [y \in Item |-> IF y = x THEN IF k = 0 THEN head ELSE next[s[k]]
                                 ELSE IF k # 0 /\ y = s[k] THEN x ELSE next[y]],
         tail' = IF k = curNum THEN x ELSE tail,
         curNum' = curNum + 1, held' = held \ {x}, pri' = pri
  PROVE  TypeOK' /\ Queue(PutAfter(s, k, x))'
<1> DEFINE n == curNum
           t == PutAfter(s, k, x)
<1>1. n \in Nat /\ s \in [1..n -> Item] /\ Chain(s) /\ x \in Item
  BY DEF TypeOK, Queue
<1>2. Len(s) = n /\ (s = <<>> <=> n = 0) BY <1>1, FcnIsSeq
<1>3. /\ t \in [1..n + 1 -> Item]
      /\ \A i \in 1..n + 1 :
           t[i] = IF i <= k THEN s[i] ELSE IF i = k + 1 THEN x ELSE s[i - 1]
  BY <1>1, <1>2 DEF PutAfter, Abstract!PutAfter
<1>4. Len(t) = n + 1 /\ t # <<>> BY <1>1, <1>3, FcnIsSeq
<1>5. \A i \in 1..n : s[i] # x /\ s[i] \in Item BY <1>1 DEF Queue
<1>6. \A i, j \in 1..n : i # j => s[i] # s[j] BY DEF Queue
<1>7. TypeOK'
  BY <1>1 DEF TypeOK, Pointer
<1>8. head' = t[1]
  BY <1>1, <1>2, <1>3 DEF Chain
<1>9. tail' = t[n + 1]
  BY <1>1, <1>2, <1>3 DEF Chain
<1>10. next'[t[n + 1]] = Nil
  <2>1. CASE k = n BY <2>1, <1>1, <1>2, <1>3 DEF Chain
  <2>2. CASE k < n
    <3>1. t[n + 1] = s[n] /\ n \in 1..n BY <2>2, <1>1, <1>3
    <3>2. s[n] # x /\ s[n] \in Item BY <3>1, <1>5
    <3>3. k # 0 => s[n] # s[k] BY <2>2, <3>1, <1>6
    <3>4. next'[s[n]] = next[s[n]] BY <3>2, <3>3
    <3> QED BY <3>1, <3>4, <1>1, <1>2 DEF Chain
  <2> QED BY <2>1, <2>2, <1>1
<1>11. \A i \in 1..n : next'[t[i]] = t[i + 1]
  <2> TAKE i \in 1..n
  <2>1. CASE i < k
    <3>1. t[i] = s[i] /\ t[i + 1] = s[i + 1] BY <2>1, <1>1, <1>3
    <3>2. s[i] # x /\ s[i] \in Item /\ s[i] # s[k] BY <2>1, <1>5, <1>6
    <3> QED BY <2>1, <3>1, <3>2, <1>1, <1>2 DEF Chain
  <2>2. CASE i = k BY <2>2, <1>1, <1>3, <1>5
  <2>3. CASE i = k + 1 BY <2>3, <1>1, <1>2, <1>3 DEF Chain
  <2>4. CASE i > k + 1
    <3>1. t[i] = s[i - 1] /\ t[i + 1] = s[i] /\ i - 1 \in 1..n - 1 BY <2>4, <1>1, <1>3
    <3>2. s[i - 1] # x /\ s[i - 1] \in Item
      <4>1. i - 1 \in 1..n BY <3>1, <1>1
      <4> QED BY <4>1, <1>5
    <3>3. k # 0 => s[i - 1] # s[k]
      <4>1. k # 0 => k \in 1..n /\ i - 1 \in 1..n /\ i - 1 # k BY <2>4, <3>1, <1>1
      <4> QED BY <4>1, <1>6
    <3>4. next'[s[i - 1]] = next[s[i - 1]]
      <4> DEFINE z == s[i - 1]
      <4>1. z \in Item /\ z # x /\ ~(k # 0 /\ z = s[k]) BY <3>2, <3>3
      <4> HIDE DEF z
      <4>2. next'[z] = next[z] BY <4>1
      <4> QED BY <4>2 DEF z
    <3> QED BY <3>1, <3>4, <1>1, <1>2 DEF Chain
  <2> QED BY <2>1, <2>2, <2>3, <2>4
<1>12. Chain(t)'
  BY <1>1, <1>4, <1>8, <1>9, <1>10, <1>11 DEF Chain
<1>13. \A i, j \in 1..n + 1 : i # j => t[i] # t[j]
  BY <1>1, <1>3, <1>5, <1>6
<1>14. {t[i] : i \in 1..n + 1} = Item \ (held \ {x})
  <2>1. {s[i] : i \in 1..n} = Item \ held BY DEF Queue
  <2>2. \A i \in 1..n + 1 : t[i] \in Item \ (held \ {x})
    BY <1>1, <1>3, <2>1
  <2>3. ASSUME NEW y \in Item \ (held \ {x}) PROVE \E i \in 1..n + 1 : t[i] = y
    <3>1. CASE y = x
      <4>1. k + 1 \in 1..n + 1 /\ ~(k + 1 <= k) BY <1>1
      <4>2. t[k + 1] = x BY <4>1, <1>3
      <4> QED BY <3>1, <4>1, <4>2
    <3>2. CASE y # x
      <4>1. PICK j \in 1..n : s[j] = y BY <3>2, <2>1
      <4>2. CASE j <= k
        <5>1. j \in 1..n + 1 /\ t[j] = s[j] BY <4>2, <1>1, <1>3
        <5> QED BY <5>1, <4>1
      <4>3. CASE j > k
        <5>1. j + 1 \in 1..n + 1 /\ ~(j + 1 <= k) /\ j + 1 # k + 1 /\ (j + 1) - 1 = j
          BY <4>3, <1>1
        <5>2. t[j + 1] = s[j] BY <5>1, <1>3
        <5> QED BY <5>1, <5>2, <4>1
      <4> QED BY <4>2, <4>3, <1>1
    <3> QED BY <3>1, <3>2
  <2> QED BY <2>2, <2>3
<1> QED BY <1>3, <1>7, <1>12, <1>13, <1>14 DEF Queue

\* Taking item number k out.
LEMMA UnlinkStep ==
  ASSUME TypeOK, NEW s, Queue(s), NEW k \in 1..curNum,
         head' = IF k = 1 THEN next[s[k]] ELSE head,
         next' = IF k = 1 THEN next ELSE [next EXCEPT ![s[k - 1]] = next[s[k]]],
         tail' = IF k = curNum THEN IF k = 1 THEN Nil ELSE s[k - 1] ELSE tail,
         curNum' = curNum - 1, held' = held \cup {s[k]}, pri' = pri
  PROVE  TypeOK' /\ Queue(TakeOut(s, k))'
<1> DEFINE n == curNum
           t == TakeOut(s, k)
<1>1. n \in Nat /\ n > 0 /\ s \in [1..n -> Item] /\ Chain(s)
  BY DEF TypeOK, Queue
<1>2. Len(s) = n /\ s # <<>> BY <1>1, FcnIsSeq
<1>3. /\ t \in [1..n - 1 -> Item]
      /\ \A i \in 1..n - 1 : t[i] = IF i < k THEN s[i] ELSE s[i + 1]
  BY <1>1, <1>2 DEF TakeOut, Abstract!TakeOut
<1>4. Len(t) = n - 1 /\ (t = <<>> <=> n = 1) BY <1>1, <1>3, FcnIsSeq
<1>5. \A i \in 1..n : s[i] \in Item BY <1>1
<1>6. \A i, j \in 1..n : i # j => s[i] # s[j] BY DEF Queue
<1>7. TypeOK'
  BY <1>1, <1>5 DEF TypeOK, Pointer
<1>8. CASE n = 1
  <2>1. head' = Nil /\ tail' = Nil BY <1>8, <1>1, <1>2 DEF Chain
  <2>2. Chain(t)' BY <1>8, <2>1, <1>4 DEF Chain
  <2>3. {s[i] : i \in 1..n} = Item \ held BY DEF Queue
  <2>4. {t[i] : i \in 1..n - 1} = Item \ (held \cup {s[k]}) BY <1>8, <2>3
  <2> QED BY <1>8, <2>2, <2>4, <1>3, <1>7 DEF Queue
<1>9. CASE n > 1
  <2>1. head' = t[1]
    BY <1>9, <1>1, <1>2, <1>3 DEF Chain
  <2>2. tail' = t[n - 1]
    BY <1>9, <1>1, <1>2, <1>3 DEF Chain
  <2>3. next'[t[n - 1]] = Nil
    <3>1. CASE k = n BY <3>1, <1>9, <1>1, <1>2, <1>3, <1>5 DEF Chain, TypeOK
    <3>2. CASE k < n BY <3>2, <1>9, <1>1, <1>2, <1>3, <1>5, <1>6 DEF Chain, TypeOK
    <3> QED BY <3>1, <3>2, <1>1
  <2>4. \A i \in 1..n - 2 : next'[t[i]] = t[i + 1]
    <3> TAKE i \in 1..n - 2
    <3>1. CASE i < k - 1 BY <3>1, <1>1, <1>2, <1>3, <1>5, <1>6 DEF Chain, TypeOK
    <3>2. CASE i = k - 1 BY <3>2, <1>1, <1>2, <1>3, <1>5 DEF Chain, TypeOK
    <3>3. CASE i > k - 1 BY <3>3, <1>1, <1>2, <1>3, <1>5, <1>6 DEF Chain, TypeOK
    <3> QED BY <3>1, <3>2, <3>3
  <2>5. Chain(t)'
    BY <1>9, <1>1, <1>4, <2>1, <2>2, <2>3, <2>4 DEF Chain
  <2>6. \A i, j \in 1..n - 1 : i # j => t[i] # t[j]
    BY <1>1, <1>3, <1>6
  <2>7. {t[i] : i \in 1..n - 1} = Item \ (held \cup {s[k]})
    <3>1. {s[i] : i \in 1..n} = Item \ held BY DEF Queue
    <3>2. \A i \in 1..n - 1 : t[i] \in Item \ (held \cup {s[k]})
      BY <1>1, <1>3, <1>6, <3>1
    <3>3. ASSUME NEW y \in Item \ (held \cup {s[k]}) PROVE \E i \in 1..n - 1 : t[i] = y
      <4>1. PICK j \in 1..n : s[j] = y BY <3>1
      <4>2. j # k BY <4>1
      <4>3. t[IF j < k THEN j ELSE j - 1] = y BY <4>1, <4>2, <1>1, <1>3
      <4> QED BY <4>1, <4>2, <4>3, <1>1
    <3> QED BY <3>2, <3>3
  <2> QED BY <2>5, <2>6, <2>7, <1>1, <1>3, <1>7 DEF Queue
<1> QED BY <1>1, <1>8, <1>9

(***************************************************************************)
(* Each call that adds an item is LinkStep for some k, each that takes one  *)
(* out UnlinkStep.                                                          *)
(***************************************************************************)

\* Adds(s, k, x) and Takes(s, k): what the two lemmas give.
Adds(s, k, x) ==
  /\ k \in 0..curNum /\ x \in held
  /\ TypeOK' /\ Queue(PutAfter(s, k, x))'
  /\ pri' = pri

Takes(s, k) ==
  /\ k \in 1..curNum
  /\ TypeOK' /\ Queue(TakeOut(s, k))'
  /\ pri' = pri

\* queue_enq puts the item where its priority says.
LEMMA EnqAdds ==
  ASSUME TypeOK, NEW s, Queue(s), NEW x \in held, Enq(x)
  PROVE  \E k \in 0..curNum :
           /\ Adds(s, k, x)
           /\ pri => /\ \A i \in 1..k : Rank[s[i]] <= Rank[x]
                     /\ k < curNum => Rank[x] < Rank[s[k + 1]]
           /\ ~pri => k = curNum
<1>1. curNum \in Nat /\ s \in [1..curNum -> Item] /\ Chain(s) /\ Nil \notin Item
  BY ItemAssumption DEF TypeOK, Queue
<1>2. Len(s) = curNum /\ (s = <<>> <=> curNum = 0) BY <1>1, FcnIsSeq
<1>3. x \in held /\ curNum' = curNum + 1 /\ held' = held \ {x} /\ pri' = pri
  BY DEF Enq
<1>4. CASE EnqEmpty(x)
  <2>1. curNum = 0 BY <1>1, <1>2, <1>4 DEF Chain, EnqEmpty
  <2>2. /\ head' = x /\ tail' = x
        /\ next' = [y \in Item |-> IF y = x THEN head ELSE next[y]]
    BY <1>4 DEF EnqEmpty, TypeOK
  <2>3. TypeOK' /\ Queue(PutAfter(s, 0, x))'
    BY <2>1, <2>2, <1>1, <1>3, LinkStep
  <2> QED BY <2>1, <2>3, <1>1, <1>3 DEF Adds
<1>5. CASE EnqFifo(x)
  <2>1. curNum # 0 /\ tail = s[curNum] /\ next[s[curNum]] = Nil
    BY <1>1, <1>2, <1>5 DEF Chain, EnqFifo
  <2>2. /\ head' = head /\ tail' = x /\ ~pri
        /\ next' = [y \in Item |-> IF y = x THEN next[s[curNum]]
                                   ELSE IF y = s[curNum] THEN x ELSE next[y]]
    BY <1>5, <2>1 DEF EnqFifo
  <2>3. PICK k \in 0..curNum : k = curNum BY <1>1
  <2>4. /\ head' = IF k = 0 THEN x ELSE head
        /\ tail' = IF k = curNum THEN x ELSE tail
        /\ next' = [y \in Item |-> IF y = x THEN IF k = 0 THEN head ELSE next[s[k]]
                                   ELSE IF k # 0 /\ y = s[k] THEN x ELSE next[y]]
    BY <2>1, <2>2, <2>3
  <2>5. TypeOK' /\ Queue(PutAfter(s, k, x))' BY <2>4, <1>3, LinkStep
  <2>6. Adds(s, k, x) BY <2>5, <1>3 DEF Adds
  <2> QED BY <2>2, <2>3, <2>6
<1>6. CASE EnqPri(x)
  <2>1. PICK p \in Walks : /\ Passed(p)
                           /\ \A i \in 1..Len(p) : Rank[p[i]] <= Rank[x]
                           /\ At(p) # Nil => Rank[x] < Rank[At(p)]
                           /\ LinkAfter(p, x)
    BY <1>6 DEF EnqPri
  <2>2. PICK k \in 0..Cardinality(Item) : p \in [1..k -> Item] BY <2>1 DEF Walks
  <2>3. Cardinality(Item) \in Nat BY ItemAssumption, FS_CardinalityType
  <2>4. k \in Nat BY <2>2, <2>3
  <2>5. Len(p) = k /\ (p = <<>> <=> k = 0) BY <2>2, <2>4, FcnIsSeq
  <2>6. k <= curNum /\ \A i \in 1..k : p[i] = s[i]
    BY <1>1, <2>1, <2>2, <2>4, PassedIsPrefix
  <2>7. At(p) = IF k = 0 THEN head ELSE next[s[k]]
    BY <2>4, <2>5, <2>6 DEF At
  <2>8. At(p) = IF k < curNum THEN s[k + 1] ELSE Nil
    BY <2>4, <2>6, <2>7, <1>1, <1>2 DEF Chain
  <2>9. /\ head' = IF k = 0 THEN x ELSE head
        /\ next' = [y \in Item |-> IF y = x THEN At(p)
                                   ELSE IF k # 0 /\ y = s[k] THEN x ELSE next[y]]
        /\ tail' = IF At(p) = Nil THEN x ELSE tail
    BY <2>1, <2>4, <2>5, <2>6 DEF LinkAfter
  <2>10. tail' = IF k = curNum THEN x ELSE tail
    BY <2>4, <2>6, <2>8, <2>9, <1>1
  <2>11. next' = [y \in Item |-> IF y = x THEN IF k = 0 THEN head ELSE next[s[k]]
                                ELSE IF k # 0 /\ y = s[k] THEN x ELSE next[y]]
    BY <2>7, <2>9
  <2>12. k \in 0..curNum BY <2>4, <2>6, <1>1
  <2>13. TypeOK' /\ Queue(PutAfter(s, k, x))'
    BY <2>9, <2>10, <2>11, <2>12, <1>3, LinkStep
  <2>14. \A i \in 1..k : Rank[s[i]] <= Rank[x] BY <2>1, <2>5, <2>6
  <2>15. k < curNum => Rank[x] < Rank[s[k + 1]] BY <2>1, <2>4, <2>8, <1>1
  <2>16. pri BY <1>6 DEF EnqPri
  <2> QED BY <2>12, <2>13, <2>14, <2>15, <2>16, <1>3 DEF Adds
<1> QED BY <1>4, <1>5, <1>6 DEF Enq

\* queue_insert behind an item that is not the last.
LEMMA InsertAdds ==
  ASSUME TypeOK, NEW s, Queue(s), NEW x \in Item, NEW prev \in Pointer,
         queue_insert(x, prev), ~(head = Nil \/ prev = tail)
  PROVE  \E k \in 0..curNum - 1 :
           Adds(s, k, x) /\ prev = IF k = 0 THEN Nil ELSE s[k]
<1>1. curNum \in Nat /\ s \in [1..curNum -> Item] /\ Chain(s) /\ Nil \notin Item
  BY ItemAssumption DEF TypeOK, Queue
<1>2. Len(s) = curNum /\ (s = <<>> <=> curNum = 0) BY <1>1, FcnIsSeq
<1>3. /\ x \in held /\ prev \notin held /\ head # Nil /\ prev # tail
      /\ IF prev = Nil
         THEN head' = x /\ next' = [next EXCEPT ![x] = head]
         ELSE head' = head /\ next' = [next EXCEPT ![x] = next[prev], ![prev] = x]
      /\ curNum' = curNum + 1 /\ held' = held \ {x} /\ pri' = pri /\ tail' = tail
  BY DEF queue_insert
<1>4. curNum # 0 BY <1>1, <1>2, <1>3 DEF Chain
<1>5. CASE prev = Nil
  <2>1. head' = x /\ next' = [y \in Item |-> IF y = x THEN head ELSE next[y]]
    BY <1>3, <1>5 DEF TypeOK
  <2>2. TypeOK' /\ Queue(PutAfter(s, 0, x))'
    BY <2>1, <1>1, <1>3, <1>4, LinkStep
  <2> QED BY <2>2, <1>1, <1>3, <1>4, <1>5 DEF Adds
<1>6. CASE prev # Nil
  <2>1. prev \in Item \ held BY <1>3, <1>6 DEF Pointer
  <2>2. PICK k \in 1..curNum : s[k] = prev
    BY <2>1 DEF Queue
  <2>3. k # curNum BY <2>2, <1>1, <1>2, <1>3, <1>4 DEF Chain
  <2>4. x # prev BY <1>3
  <2>5. next' = [y \in Item |-> IF y = x THEN next[s[k]]
                               ELSE IF y = s[k] THEN x ELSE next[y]]
    BY <1>3, <1>6, <2>1, <2>2, <2>4 DEF TypeOK
  <2>6. TypeOK' /\ Queue(PutAfter(s, k, x))'
    BY <2>2, <2>3, <2>5, <1>1, <1>3, <1>6, LinkStep
  <2> QED BY <2>2, <2>3, <2>6, <1>1, <1>3 DEF Adds
<1> QED BY <1>5, <1>6

\* Unlink takes out the item the search or the iteration has found.
LEMMA UnlinkTakes ==
  ASSUME TypeOK, NEW s, Queue(s), NEW k \in 1..curNum,
         Unlink(s[k], IF k = 1 THEN Nil ELSE s[k - 1])
  PROVE  Takes(s, k)
<1> DEFINE x == s[k]
           prev == IF k = 1 THEN Nil ELSE s[k - 1]
<1>1. curNum \in Nat /\ s \in [1..curNum -> Item] /\ Chain(s) /\ Nil \notin Item
  BY ItemAssumption DEF TypeOK, Queue
<1>2. Len(s) = curNum /\ s # <<>> BY <1>1, FcnIsSeq
<1>3. head = s[1] /\ tail = s[curNum] BY <1>2, <1>1 DEF Chain
<1>4. (head = x <=> k = 1) /\ (tail = x <=> k = curNum)
  BY <1>1, <1>3 DEF Queue
<1>5. k # 1 => prev \in Item BY <1>1
<1>6. /\ head' = IF k = 1 THEN next[s[k]] ELSE head
      /\ next' = IF k = 1 THEN next ELSE [next EXCEPT ![s[k - 1]] = next[s[k]]]
      /\ tail' = IF k = curNum THEN IF k = 1 THEN Nil ELSE s[k - 1] ELSE tail
      /\ curNum' = curNum - 1 /\ held' = held \cup {s[k]} /\ pri' = pri
  BY <1>1, <1>4, <1>5 DEF Unlink
<1>7. TypeOK' /\ Queue(TakeOut(s, k))' BY <1>6, UnlinkStep
<1> QED BY <1>6, <1>7 DEF Takes

LEMMA RemoveTakes ==
  ASSUME TypeOK, NEW s, Queue(s), NEW x \in Item, NEW prev \in Pointer, queue_remove(x, prev)
  PROVE  \E k \in 1..curNum :
           Takes(s, k) /\ x = s[k] /\ prev = IF k = 1 THEN Nil ELSE s[k - 1]
<1>1. curNum \in Nat /\ s \in [1..curNum -> Item] /\ Chain(s) /\ Nil \notin Item
  BY ItemAssumption DEF TypeOK, Queue
<1>2. Len(s) = curNum /\ (s = <<>> <=> curNum = 0) BY <1>1, FcnIsSeq
<1>3. /\ head # Nil /\ prev \notin held /\ Unlink(x, prev)
      /\ x = IF prev = Nil THEN head ELSE next[prev]
  BY DEF queue_remove
<1>4. curNum # 0 BY <1>1, <1>2, <1>3 DEF Chain
<1>5. PICK k \in 1..curNum : x = s[k] /\ prev = IF k = 1 THEN Nil ELSE s[k - 1]
  <2>1. CASE prev = Nil
    <3>1. 1 \in 1..curNum /\ x = s[1] BY <2>1, <1>1, <1>2, <1>3, <1>4 DEF Chain
    <3> QED BY <3>1, <2>1
  <2>2. CASE prev # Nil
    <3>1. prev \in Item \ held BY <1>3, <2>2 DEF Pointer
    <3>2. PICK j \in 1..curNum : s[j] = prev BY <3>1 DEF Queue
    <3>3. j # curNum
      BY <3>2, <2>2, <1>1, <1>2, <1>3, <1>4 DEF Chain
    <3>4. j + 1 \in 1..curNum /\ j + 1 # 1 /\ (j + 1) - 1 = j /\ x = s[j + 1]
      BY <3>2, <3>3, <2>2, <1>1, <1>2, <1>3 DEF Chain
    <3> QED BY <3>2, <3>4
  <2> QED BY <2>1, <2>2
<1> QED BY <1>3, <1>5, UnlinkTakes

\* queue_delete of an item the search finds.
LEMMA DeleteTakes ==
  ASSUME TypeOK, NEW s, Queue(s), NEW x \in Item, DeleteFound(x)
  PROVE  \E k \in 1..curNum : Takes(s, k) /\ x = s[k]
<1>1. curNum \in Nat /\ s \in [1..curNum -> Item] /\ Chain(s) /\ Nil \notin Item
  BY ItemAssumption DEF TypeOK, Queue
<1>2. Len(s) = curNum /\ (s = <<>> <=> curNum = 0) BY <1>1, FcnIsSeq
<1>3. PICK p \in Walks : /\ Passed(p) /\ At(p) = x
                         /\ Unlink(x, IF p = <<>> THEN Nil ELSE p[Len(p)])
  BY DEF DeleteFound
<1>4. PICK m \in 0..Cardinality(Item) : p \in [1..m -> Item] BY <1>3 DEF Walks
<1>5. m \in Nat BY <1>4, ItemAssumption, FS_CardinalityType
<1>6. Len(p) = m /\ (p = <<>> <=> m = 0) BY <1>4, <1>5, FcnIsSeq
<1>7. m <= curNum /\ \A i \in 1..m : p[i] = s[i]
  BY <1>1, <1>3, <1>4, <1>5, PassedIsPrefix
<1>8. At(p) = IF m < curNum THEN s[m + 1] ELSE Nil
  BY <1>1, <1>2, <1>5, <1>6, <1>7 DEF At, Chain
<1>9. m < curNum /\ x = s[m + 1] BY <1>1, <1>3, <1>8
<1>10. PICK k \in 1..curNum : k = m + 1 BY <1>1, <1>5, <1>9
<1>11. (IF p = <<>> THEN Nil ELSE p[Len(p)]) = IF k = 1 THEN Nil ELSE s[k - 1]
  BY <1>5, <1>6, <1>7, <1>10
<1>12. Unlink(s[k], IF k = 1 THEN Nil ELSE s[k - 1]) BY <1>3, <1>9, <1>10, <1>11
<1> QED BY <1>9, <1>10, <1>12, UnlinkTakes

\* queue_delete answers that the item is missing only if it is.
LEMMA MissingIsMissing ==
  ASSUME TypeOK, NEW s, Queue(s), NEW x \in Item, DeleteMissing(x)
  PROVE  /\ \A i \in 1..curNum : s[i] # x
         /\ out' = Ret(<<"delete", x>>, IF curNum = 0 THEN "QUEUE_EMPTY" ELSE "QUEUE_NOT_FOUND")
         /\ UNCHANGED <<head, tail, curNum, pri, next, held>>
<1>1. curNum \in Nat /\ s \in [1..curNum -> Item] /\ Chain(s) /\ Nil \notin Item
  BY ItemAssumption DEF TypeOK, Queue
<1>2. Len(s) = curNum /\ (s = <<>> <=> curNum = 0) BY <1>1, FcnIsSeq
<1>3. PICK p \in Walks : /\ Passed(p) /\ At(p) = Nil
                         /\ x \notin {p[i] : i \in 1..Len(p)}
  BY DEF DeleteMissing
<1>4. PICK m \in 0..Cardinality(Item) : p \in [1..m -> Item] BY <1>3 DEF Walks
<1>5. m \in Nat BY <1>4, ItemAssumption, FS_CardinalityType
<1>6. Len(p) = m /\ (p = <<>> <=> m = 0) BY <1>4, <1>5, FcnIsSeq
<1>7. m <= curNum /\ \A i \in 1..m : p[i] = s[i]
  BY <1>1, <1>3, <1>4, <1>5, PassedIsPrefix
<1>8. At(p) = IF m < curNum THEN s[m + 1] ELSE Nil
  BY <1>1, <1>2, <1>5, <1>6, <1>7 DEF At, Chain
<1>9. m = curNum BY <1>1, <1>3, <1>5, <1>7, <1>8
<1>10. \A i \in 1..curNum : s[i] # x BY <1>3, <1>6, <1>7, <1>9
<1>11. head = Nil <=> curNum = 0 BY <1>1, <1>2 DEF Chain
<1> QED BY <1>10, <1>11 DEF DeleteMissing

\* queue_deq takes the first item.
LEMMA DeqTakes ==
  ASSUME TypeOK, NEW s, Queue(s), queue_deq, curNum # 0
  PROVE  Takes(s, 1) /\ out' = Ret(<<"deq">>, s[1])
<1>1. curNum \in Nat /\ s \in [1..curNum -> Item] /\ Chain(s) /\ Nil \notin Item
  BY ItemAssumption DEF TypeOK, Queue
<1>2. Len(s) = curNum /\ s # <<>> BY <1>1, FcnIsSeq
<1>3. PICK k \in 1..curNum : k = 1 BY <1>1
<1>4. head = s[k] /\ tail = s[curNum] /\ head # Nil BY <1>1, <1>2, <1>3 DEF Chain
<1>5. next[s[k]] = Nil <=> k = curNum
  <2>1. k = curNum => next[s[k]] = Nil BY <1>1, <1>2 DEF Chain
  <2>2. k # curNum => next[s[k]] = s[k + 1] /\ s[k + 1] \in Item BY <1>1, <1>2 DEF Chain
  <2> QED BY <2>1, <2>2, <1>1
<1>6. /\ head' = next[s[k]] /\ next' = next
      /\ tail' = IF k = curNum THEN Nil ELSE tail
      /\ curNum' = curNum - 1 /\ held' = held \cup {s[k]} /\ pri' = pri
      /\ out' = Ret(<<"deq">>, s[k])
  BY <1>4, <1>5 DEF queue_deq
<1>7. TypeOK' /\ Queue(TakeOut(s, k))' BY <1>3, <1>6, UnlinkStep
<1> QED BY <1>3, <1>6, <1>7 DEF Takes

-----------------------------------------------------------------------------
(* The inductive invariant, and the step of OrderedQueue each call makes. *)

IInv == TypeOK /\ Linked

LEMMA ContentsNow == TypeOK => \A s : Queue(s) => Contents = s
  BY ContentsIs

LEMMA ContentsThen == (TypeOK => \A s : Queue(s) => Contents = s)'
  BY ContentsNow, PTL

\* The state of OrderedQueue before and after a step that ends in queue t.
LEMMA MapsTo ==
  ASSUME TypeOK, NEW s, Queue(s), TypeOK', NEW t, Queue(t)'
  PROVE  /\ Contents = s /\ Contents' = t
         /\ Len(s) = curNum /\ Linked'
         /\ (s = <<>> <=> curNum = 0)
         /\ Abstract!Members(s) = Item \ held
<1>1. curNum \in Nat /\ s \in [1..curNum -> Item] BY DEF TypeOK, Queue
<1>2. Len(s) = curNum /\ (s = <<>> <=> curNum = 0) BY <1>1, FcnIsSeq
<1>3. Contents = s BY ContentsNow
<1>4. Contents' = t BY ContentsThen
<1>5. Linked'
  <2>1. t \in [1..curNum' -> Item] BY DEF Queue
  <2> QED BY <2>1 DEF Linked
<1>6. Abstract!Members(s) = Item \ held BY <1>2 DEF Queue, Abstract!Members
<1> QED BY <1>2, <1>3, <1>4, <1>5, <1>6

\* A call that adds an item or takes one out changes the sequence as the
\* operations of OrderedQueue do.
LEMMA AddsMaps ==
  ASSUME TypeOK, NEW s, Queue(s), NEW x \in Item, NEW k \in 0..curNum, Adds(s, k, x)
  PROVE  /\ TypeOK' /\ Linked' /\ pri' = pri
         /\ Contents = s /\ Len(s) = curNum
         /\ x \notin Abstract!Members(Contents)
         /\ Contents' = Abstract!PutAfter(Contents, k, x)
<1>1. TypeOK' /\ Queue(PutAfter(s, k, x))' /\ x \in held /\ pri' = pri
  BY DEF Adds
<1>2. /\ Contents = s /\ Contents' = PutAfter(s, k, x)
      /\ Len(s) = curNum /\ Linked'
      /\ Abstract!Members(s) = Item \ held
  BY <1>1, MapsTo
<1>3. x \notin Abstract!Members(Contents) BY <1>1, <1>2
<1>4. Contents' = Abstract!PutAfter(Contents, k, x) BY <1>2 DEF PutAfter
<1> QED BY <1>1, <1>2, <1>3, <1>4

\* Enq puts the item in its place.
LEMMA EnqMaps ==
  ASSUME TypeOK, NEW s, Queue(s), NEW x \in held, Enq(x)
  PROVE  /\ TypeOK' /\ Linked' /\ pri' = pri
         /\ x \notin Abstract!Members(Contents)
         /\ Abstract!PutInPlace(x)
<1>1. x \in Item BY DEF TypeOK
<1>2. PICK k \in 0..curNum :
        /\ Adds(s, k, x)
        /\ pri => /\ \A i \in 1..k : Rank[s[i]] <= Rank[x]
                  /\ k < curNum => Rank[x] < Rank[s[k + 1]]
        /\ ~pri => k = curNum
  BY EnqAdds
<1>3. /\ TypeOK' /\ Linked' /\ pri' = pri
      /\ Contents = s /\ Len(s) = curNum
      /\ x \notin Abstract!Members(Contents)
      /\ Contents' = Abstract!PutAfter(Contents, k, x)
  BY <1>1, <1>2, AddsMaps
<1>4. Abstract!InPlace(Contents, k, x)
  <2>1. CASE pri
    <3>1. \A i \in 1..k : Rank[Contents[i]] <= Rank[x] BY <1>2, <1>3, <2>1
    <3>2. k < Len(Contents) => Rank[x] < Rank[Contents[k + 1]] BY <1>2, <1>3, <2>1
    <3> QED BY <3>1, <3>2, <2>1, Zenon DEF Abstract!InPlace
  <2>2. CASE ~pri BY <1>2, <1>3, <2>2, Zenon DEF Abstract!InPlace
  <2> QED BY <2>1, <2>2
<1>5. k \in 0..Len(Contents) BY <1>2, <1>3
<1> QED BY <1>3, <1>4, <1>5 DEF Abstract!PutInPlace

LEMMA TakesMaps ==
  ASSUME TypeOK, NEW s, Queue(s), NEW k \in 1..curNum, Takes(s, k)
  PROVE  /\ TypeOK' /\ Linked' /\ pri' = pri
         /\ Contents = s /\ Contents # <<>> /\ k \in 1..Len(Contents)
         /\ Contents' = Abstract!TakeOut(Contents, k)
<1>1. TypeOK' /\ Queue(TakeOut(s, k))' /\ pri' = pri
  BY DEF Takes
<1>2. /\ Contents = s /\ Contents' = TakeOut(s, k)
      /\ Len(s) = curNum /\ Linked'
      /\ (s = <<>> <=> curNum = 0)
  BY <1>1, MapsTo
<1>3. Contents' = Abstract!TakeOut(Contents, k) BY <1>2 DEF TakeOut
<1> QED BY <1>1, <1>2, <1>3

\* A call that leaves the list alone.
LEMMA QuietMaps ==
  ASSUME TypeOK, NEW s, Queue(s), UNCHANGED <<head, tail, curNum, pri, next, held>>
  PROVE  TypeOK' /\ Linked' /\ Contents' = Contents /\ Contents = s /\ Len(s) = curNum
         /\ (s = <<>> <=> curNum = 0) /\ Abstract!Members(s) = Item \ held
<1>1. TypeOK' BY DEF TypeOK
<1>2. Queue(s)' BY DEF Queue, Chain
<1> QED BY <1>1, <1>2, MapsTo

\* tl_queue.c: every call keeps the list whole and, if what is inserted behind the
\* tail belongs there, does what OrderedQueue says.
LEMMA StepMaps ==
  ASSUME IInv, Next
  PROVE  IInv' /\ (TailInPlace => Abstract!Next)
<1>1. TypeOK /\ curNum \in Nat BY DEF IInv, TypeOK
<1>2. PICK s : Queue(s) BY DEF IInv, Linked
<1>3. s \in [1..curNum -> Item] /\ Chain(s) BY <1>2 DEF Queue
<1>4. Len(s) = curNum /\ (s = <<>> <=> curNum = 0) BY <1>1, <1>3, FcnIsSeq
<1>5. head = Nil <=> curNum = 0
  BY <1>1, <1>3, <1>4, ItemAssumption DEF Chain
<1>6. Contents = s BY <1>1, <1>2, ContentsNow
<1>7. CASE queue_init
  <2>1. TypeOK' BY <1>1, <1>7 DEF queue_init, TypeOK, Pointer
  <2>2. curNum' = 0 /\ head' = Nil /\ tail' = Nil /\ held' = Item BY <1>7 DEF queue_init
  <2>3. <<>> \in [1..0 -> Item] /\ Len(<<>>) = 0 OBVIOUS
  <2>4. Queue(<<>>)' BY <2>2, <2>3 DEF Queue, Chain
  <2>5. Linked' /\ Contents' = <<>> BY <1>1, <1>2, <2>1, <2>4, MapsTo
  <2>6. Abstract!Clear BY <1>7, <2>5 DEF queue_init, Abstract!Clear, Ret, Abstract!Ret
  <2> QED BY <2>1, <2>5, <2>6 DEF IInv, Abstract!Next
<1>8. CASE queue_deq
  <2>1. CASE curNum = 0
    <3>1. UNCHANGED <<head, tail, curNum, pri, next, held>> /\ out' = Ret(<<"deq">>, Nil)
      BY <1>5, <1>8, <2>1 DEF queue_deq
    <3>2. TypeOK' /\ Linked' /\ Contents' = Contents BY <1>1, <1>2, <3>1, QuietMaps
    <3>3. Abstract!Dequeue
      BY <1>4, <1>6, <2>1, <3>1, <3>2 DEF Abstract!Dequeue, Ret, Abstract!Ret
    <3> QED BY <3>2, <3>3 DEF IInv, Abstract!Next
  <2>2. CASE curNum # 0
    <3>1. Takes(s, 1) /\ out' = Ret(<<"deq">>, s[1]) BY <1>1, <1>2, <1>8, <2>2, DeqTakes
    <3>2. 1 \in 1..curNum BY <1>1, <2>2
    <3>3. /\ TypeOK' /\ Linked' /\ pri' = pri /\ Contents # <<>>
          /\ Contents' = Abstract!TakeOut(Contents, 1)
      BY <1>1, <1>2, <3>1, <3>2, TakesMaps
    <3>4. Abstract!Dequeue BY <1>6, <3>1, <3>3 DEF Abstract!Dequeue, Ret, Abstract!Ret
    <3> QED BY <3>3, <3>4 DEF IInv, Abstract!Next
  <2> QED BY <2>1, <2>2
<1>9. CASE queue_isempty
  <2>1. TypeOK' /\ Linked' /\ Contents' = Contents
    BY <1>1, <1>2, <1>9, QuietMaps DEF queue_isempty
  <2>2. out' = Ret(<<"isempty">>, head = Nil) /\ pri' = pri BY <1>9 DEF queue_isempty
  <2>3. (head = Nil) = (Contents = <<>>) BY <1>4, <1>5, <1>6
  <2>4. Abstract!Empty BY <2>1, <2>2, <2>3 DEF Abstract!Empty, Ret, Abstract!Ret
  <2> QED BY <2>1, <2>4 DEF IInv, Abstract!Next
<1>10. CASE queue_count
  <2>1. TypeOK' /\ Linked' /\ Contents' = Contents
    BY <1>1, <1>2, <1>10, QuietMaps DEF queue_count
  <2>2. Abstract!Count BY <1>4, <1>6, <1>10, <2>1 DEF queue_count, Abstract!Count, Ret, Abstract!Ret
  <2> QED BY <2>1, <2>2 DEF IInv, Abstract!Next
<1>11. ASSUME NEW x \in Item, queue_enq(x) PROVE IInv' /\ (TailInPlace => Abstract!Next)
  <2>1. x \in held /\ Enq(x) /\ out' = Ret(<<"enq", x>>, "QUEUE_SUCCESS")
    BY <1>11 DEF queue_enq
  <2>2. /\ TypeOK' /\ Linked' /\ pri' = pri
        /\ x \notin Abstract!Members(Contents) /\ Abstract!PutInPlace(x)
    BY <1>1, <1>2, <2>1, EnqMaps
  <2>3. Abstract!Enqueue(x) BY <2>1, <2>2 DEF Abstract!Enqueue, Ret, Abstract!Ret
  <2> QED BY <2>2, <2>3 DEF IInv, Abstract!Next
<1>12. ASSUME NEW x \in Item, queue_delete(x) PROVE IInv' /\ (TailInPlace => Abstract!Next)
  <2>1. CASE DeleteFound(x)
    <3>1. PICK k \in 1..curNum : Takes(s, k) /\ x = s[k] BY <1>1, <1>2, <2>1, DeleteTakes
    <3>2. /\ TypeOK' /\ Linked' /\ pri' = pri /\ k \in 1..Len(Contents)
          /\ Contents' = Abstract!TakeOut(Contents, k)
      BY <1>1, <1>2, <3>1, TakesMaps
    <3>3. out' = Ret(<<"delete", x>>, "QUEUE_SUCCESS") BY <2>1 DEF DeleteFound
    <3>4. Abstract!Delete(x)
      BY <1>6, <3>1, <3>2, <3>3 DEF Abstract!Delete, Ret, Abstract!Ret
    <3> QED BY <3>2, <3>4 DEF IInv, Abstract!Next
  <2>2. CASE DeleteMissing(x)
    <3>1. /\ \A i \in 1..curNum : s[i] # x
          /\ out' = Ret(<<"delete", x>>, IF curNum = 0 THEN "QUEUE_EMPTY" ELSE "QUEUE_NOT_FOUND")
          /\ UNCHANGED <<head, tail, curNum, pri, next, held>>
      BY <1>1, <1>2, <2>2, MissingIsMissing
    <3>2. TypeOK' /\ Linked' /\ Contents' = Contents BY <1>1, <1>2, <3>1, QuietMaps
    <3>3. x \notin Abstract!Members(Contents) BY <1>4, <1>6, <3>1 DEF Abstract!Members
    <3>4. Abstract!DeleteMissing(x)
      BY <1>4, <1>6, <3>1, <3>2, <3>3 DEF Abstract!DeleteMissing, Ret, Abstract!Ret
    <3> QED BY <3>2, <3>4 DEF IInv, Abstract!Next
  <2> QED BY <1>12, <2>1, <2>2 DEF queue_delete
<1>13. ASSUME NEW x \in Item, NEW prev \in Pointer, queue_insert(x, prev)
       PROVE  IInv' /\ (TailInPlace => Abstract!Next)
  <2>1. x \in held /\ prev \notin held /\ out' = Ret(<<"insert", x, prev>>, "QUEUE_SUCCESS")
    BY <1>13 DEF queue_insert
  <2>2. CASE head = Nil \/ prev = tail
    <3>1. Enq(x) BY <1>13, <2>2 DEF queue_insert
    <3>2. PICK k \in 0..curNum :
            /\ Adds(s, k, x)
            /\ pri => /\ \A i \in 1..k : Rank[s[i]] <= Rank[x]
                      /\ k < curNum => Rank[x] < Rank[s[k + 1]]
            /\ ~pri => k = curNum
      BY <1>1, <1>2, <2>1, <3>1, EnqAdds
    <3>3. /\ TypeOK' /\ Linked' /\ pri' = pri
          /\ x \notin Abstract!Members(Contents)
          /\ Contents' = Abstract!PutAfter(Contents, k, x)
      BY <1>1, <1>2, <3>2, AddsMaps
    <3>4. /\ curNum = 0 => prev = Nil
          /\ curNum # 0 => prev = s[curNum]
          /\ head = Nil => curNum = 0
      <4>1. CASE curNum = 0
        <5>1. {s[i] : i \in 1..curNum} = {} BY <4>1
        <5>2. prev \notin Item BY <1>2, <2>1, <5>1 DEF Queue
        <5> QED BY <4>1, <5>2 DEF Pointer
      <4>2. CASE curNum # 0 BY <1>3, <1>4, <1>5, <2>2, <4>2 DEF Chain
      <4> QED BY <4>1, <4>2
    <3>5. ASSUME TailInPlace PROVE k = curNum
      <4>1. CASE curNum = 0 BY <3>2, <4>1
      <4>2. CASE curNum # 0 /\ pri
        <5>1. prev = tail BY <2>2, <3>4, <4>2
        <5>2. \A y \in Item \ held : Rank[y] <= Rank[x]
          BY <1>13, <3>5, <4>2, <5>1 DEF queue_insert
        <5>3. \A i \in 1..curNum : s[i] \in Item \ held BY <1>2 DEF Queue
        <5>4. SUFFICES ASSUME k < curNum PROVE FALSE BY <1>1, <3>2
        <5>5. k + 1 \in 1..curNum BY <1>1, <3>2, <5>4
        <5>6. Rank[s[k + 1]] <= Rank[x] /\ Rank[x] < Rank[s[k + 1]]
          BY <3>2, <4>2, <5>2, <5>3, <5>4, <5>5
        <5>7. Rank[s[k + 1]] \in Nat /\ Rank[x] \in Nat
          BY <5>3, <5>5, ItemAssumption
        <5> QED BY <5>6, <5>7
      <4>3. CASE ~pri BY <3>2, <4>3
      <4> QED BY <4>1, <4>2, <4>3
    <3>6. ASSUME TailInPlace PROVE Abstract!Insert(x, prev)
      <4>1. k \in 0..Len(Contents) BY <1>4, <1>6
      <4>2. prev = Abstract!Nth(Contents, k)
        BY <1>1, <1>6, <3>4, <3>5, <3>6 DEF Abstract!Nth
      <4> QED BY <2>1, <3>3, <4>1, <4>2 DEF Abstract!Insert, Ret, Abstract!Ret
    <3> QED BY <3>3, <3>6 DEF IInv, Abstract!Next, Pointer
  <2>3. CASE ~(head = Nil \/ prev = tail)
    <3>1. PICK k \in 0..curNum - 1 : Adds(s, k, x) /\ prev = IF k = 0 THEN Nil ELSE s[k]
      BY <1>1, <1>2, <1>13, <2>3, InsertAdds
    <3>2. k \in 0..curNum /\ k \in 0..Len(Contents) BY <1>1, <1>4, <1>6, <3>1
    <3>3. /\ TypeOK' /\ Linked' /\ pri' = pri
          /\ x \notin Abstract!Members(Contents)
          /\ Contents' = Abstract!PutAfter(Contents, k, x)
      BY <1>1, <1>2, <3>1, <3>2, AddsMaps
    <3>4. prev = Abstract!Nth(Contents, k) BY <1>6, <3>1 DEF Abstract!Nth
    <3>5. Abstract!Insert(x, prev)
      BY <2>1, <3>2, <3>3, <3>4 DEF Abstract!Insert, Ret, Abstract!Ret
    <3> QED BY <3>3, <3>5 DEF IInv, Abstract!Next, Pointer
  <2> QED BY <2>2, <2>3
<1>14. ASSUME NEW x \in Item, NEW prev \in Pointer, queue_remove(x, prev)
       PROVE  IInv' /\ (TailInPlace => Abstract!Next)
  <2>1. PICK k \in 1..curNum : Takes(s, k) /\ x = s[k] /\ prev = IF k = 1 THEN Nil ELSE s[k - 1]
    BY <1>1, <1>2, <1>14, RemoveTakes
  <2>2. /\ TypeOK' /\ Linked' /\ pri' = pri /\ k \in 1..Len(Contents)
        /\ Contents' = Abstract!TakeOut(Contents, k)
    BY <1>1, <1>2, <2>1, TakesMaps
  <2>3. prev = Abstract!Nth(Contents, k - 1) BY <1>1, <1>6, <2>1 DEF Abstract!Nth
  <2>4. out' = Ret(<<"remove", x, prev>>, "QUEUE_SUCCESS") BY <1>14 DEF queue_remove
  <2>5. Abstract!Remove(x, prev)
    BY <1>6, <2>1, <2>2, <2>3, <2>4 DEF Abstract!Remove, Ret, Abstract!Ret
  <2> QED BY <2>2, <2>5 DEF IInv, Abstract!Next, Pointer
<1> QED BY <1>7, <1>8, <1>9, <1>10, <1>11, <1>12, <1>13, <1>14 DEF Next

LEMMA InitMaps == Init => IInv /\ Abstract!Init
<1> SUFFICES ASSUME Init PROVE IInv /\ Abstract!Init OBVIOUS
<1>1. TypeOK BY ItemAssumption DEF Init, TypeOK, Pointer
<1>2. <<>> \in [1..0 -> Item] /\ Len(<<>>) = 0 OBVIOUS
<1>3. Queue(<<>>) BY <1>2 DEF Init, Queue, Chain
<1>4. Linked BY <1>2, <1>3 DEF Init, Linked
<1>5. Contents = <<>> BY <1>1, <1>3, ContentsNow
<1>6. Abstract!Init BY <1>5 DEF Init, Abstract!Init, Ret, Abstract!Ret
<1> QED BY <1>1, <1>4, <1>6 DEF IInv

\* A step that changes nothing.
LEMMA StutterMaps ==
  ASSUME IInv, UNCHANGED vars
  PROVE  IInv' /\ UNCHANGED Abstract!vars
<1>1. PICK s : Queue(s) BY DEF IInv, Linked
<1>2. TypeOK BY DEF IInv
<1>3. TypeOK' /\ Linked' /\ Contents' = Contents /\ pri' = pri /\ out' = out
  BY <1>1, <1>2, QuietMaps DEF vars
<1> QED BY <1>3 DEF IInv, Abstract!vars

\* The inductive invariant holds in every reachable state.
LEMMA IInvAlways == Spec => []IInv
<1>1. Init => IInv BY InitMaps
<1>2. IInv /\ [Next]_vars => IInv' BY StepMaps, StutterMaps
<1> QED BY <1>1, <1>2, PTL DEF Spec

\* tl_queue.c: head, tail and every link are items or NULL, and curNum never
\* goes below 0.
THEOREM QueueTypeCorrect == Spec => []TypeOK
<1>1. IInv => TypeOK BY DEF IInv
<1> QED BY <1>1, IInvAlways, PTL

\* tl_queue.c: whatever calls are made, in whatever order, head, tail, the links
\* and curNum describe exactly the items that are in the queue.
THEOREM QueueLinked == Spec => []Linked
<1>1. IInv => Linked BY DEF IInv
<1> QED BY <1>1, IInvAlways, PTL

\* tl_queue.c: the linked list implements the ordered sequence, its answers
\* included, for any number of items and any priorities, with the predecessor of
\* queue_insert as it is documented; the callers insert behind the tail of a
\* priority queue only what belongs there, for the code does not look at pPrev then.
THEOREM QueueImplements ==
    ASSUME TailInPlace
    PROVE  Spec => Implements
<1>1. Init => IInv /\ Abstract!Init BY InitMaps
<1>2. IInv /\ [Next]_vars => IInv' /\ [Abstract!Next]_Abstract!vars
  BY StepMaps, StutterMaps
<1> QED BY <1>1, <1>2, PTL DEF Spec, Implements, Abstract!Spec
=============================================================================
