------------------------------ MODULE TlQueue ------------------------------
(***************************************************************************)
(* common/tl_queue.c: an intrusive singly linked list with a tail pointer   *)
(* and a counter. Every operation but queue_init runs with interrupts       *)
(* disabled, so each is one action, callable from the main loop and from    *)
(* interrupts alike; queue_init is called while nobody uses the queue.      *)
(*                                                                          *)
(* The callers (the BLE stack, a prebuilt library) keep two rules the code  *)
(* cannot check: an item is put into a queue only while it is in none, and  *)
(* queue_insert and queue_remove get the predecessor an iteration over the  *)
(* list finds. `held` is what the callers know of their items. A third rule *)
(* is optional, TailInPlace: behind the tail of a priority queue they       *)
(* insert only what belongs there, for queue_insert does not look at pPrev  *)
(* then and sorts the item in.                                              *)
(***************************************************************************)
EXTENDS Naturals, Sequences, FiniteSets

CONSTANTS Item,  \* the queue_item_t objects
          Nil,   \* the null pointer
          Rank,  \* Rank[x]: priCmpCb of item x; a small value goes first
          TailInPlace  \* whether inserting behind the tail respects the priorities

ASSUME ItemAssumption ==
  /\ IsFiniteSet(Item)
  /\ Nil \notin Item
  /\ Rank \in [Item -> Nat]
  /\ TailInPlace \in BOOLEAN

VARIABLES head, tail, curNum,  \* the fields of queue_t
          pri,                 \* priCmpCb # NULL
          next,                \* next[x]: the link of item x
          out,                 \* the value the last call returned
          held                 \* the items no queue has, as the callers know

vars == <<head, tail, curNum, pri, next, out, held>>

\* A call with its arguments, and what it returned.
Ret(call, val) == [call |-> call, ret |-> val]

Pointer == Item \cup {Nil}

TypeOK ==
  /\ head \in Pointer /\ tail \in Pointer
  /\ curNum \in Nat
  /\ pri \in BOOLEAN
  /\ next \in [Item -> Pointer]
  /\ held \in SUBSET Item

-----------------------------------------------------------------------------
(* The search loops: `current` runs from head along next. A loop that has   *)
(* passed the items of p has previous = the last of p and current = At(p).  *)

Walks == UNION {[1..k -> Item] : k \in 0..Cardinality(Item)}

\* The item behind the ones in p.
At(p) == IF p = <<>> THEN head ELSE next[p[Len(p)]]

Passed(p) ==
  /\ p # <<>> => p[1] = head
  /\ \A i \in 1..Len(p) - 1 : next[p[i]] = p[i + 1]

-----------------------------------------------------------------------------
Init ==
  /\ head = Nil /\ tail = Nil /\ curNum = 0
  /\ pri \in BOOLEAN
  /\ next = [x \in Item |-> Nil]
  /\ out = Ret(<<"init">>, "QUEUE_SUCCESS")
  /\ held = Item

queue_init ==
  /\ head' = Nil /\ tail' = Nil /\ curNum' = 0
  /\ pri' \in BOOLEAN
  /\ out' = Ret(<<"init">>, "QUEUE_SUCCESS")
  /\ held' = Item
  /\ UNCHANGED next

\* x is linked in behind the items of p, which the loop has passed.
LinkAfter(p, x) ==
  LET current == At(p) IN
  /\ head' = IF p = <<>> THEN x ELSE head
  /\ next' = [y \in Item |-> IF y = x THEN current
                             ELSE IF p # <<>> /\ y = p[Len(p)] THEN x
                             ELSE next[y]]
  /\ tail' = IF current = Nil THEN x ELSE tail

EnqEmpty(x) ==
  /\ head = Nil
  /\ head' = x /\ tail' = x
  /\ next' = [next EXCEPT ![x] = Nil]

EnqFifo(x) ==
  /\ head # Nil /\ ~pri
  /\ next' = [y \in Item |-> IF y = x THEN Nil ELSE IF y = tail THEN x ELSE next[y]]
  /\ tail' = x
  /\ UNCHANGED head

\* Mutant of EnqPri: the loop stops in front of an item of the same value.
EnqPriUnstable(x) ==
  /\ head # Nil /\ pri
  /\ \E p \in Walks :
       /\ Passed(p)
       /\ \A i \in 1..Len(p) : Rank[p[i]] < Rank[x]
       /\ At(p) # Nil => Rank[x] <= Rank[At(p)]
       /\ LinkAfter(p, x)

\* The loop stops in front of the first item of a larger value.
EnqPri(x) ==
  /\ head # Nil /\ pri
  /\ \E p \in Walks :
       /\ Passed(p)
       /\ \A i \in 1..Len(p) : Rank[p[i]] <= Rank[x]
       /\ At(p) # Nil => Rank[x] < Rank[At(p)]
       /\ LinkAfter(p, x)

\* The part of queue_enq that queue_insert calls it for.
Enq(x) ==
  /\ EnqEmpty(x) \/ EnqFifo(x) \/ EnqPri(x)
  /\ curNum' = curNum + 1
  /\ held' = held \ {x}
  /\ UNCHANGED pri

queue_enq(x) ==
  /\ x \in held
  /\ Enq(x)
  /\ out' = Ret(<<"enq", x>>, "QUEUE_SUCCESS")

\* Mutant of queue_deq: an empty queue is counted down too.
DeqCountsEmpty ==
  /\ out' = Ret(<<"deq">>, head)
  /\ IF head = Nil
     THEN curNum' = curNum - 1 /\ UNCHANGED <<head, tail, held>>
     ELSE /\ head' = next[head]
          /\ tail' = IF next[head] = Nil THEN Nil ELSE tail
          /\ curNum' = curNum - 1
          /\ held' = held \cup {head}
  /\ UNCHANGED <<pri, next>>

queue_deq ==
  /\ out' = Ret(<<"deq">>, head)
  /\ IF head = Nil
     THEN UNCHANGED <<head, tail, curNum, held>>
     ELSE /\ head' = next[head]
          /\ tail' = IF next[head] = Nil THEN Nil ELSE tail
          /\ curNum' = curNum - 1
          /\ held' = held \cup {head}
  /\ UNCHANGED <<pri, next>>

\* x behind prev, or first if prev is Nil; behind the tail queue_enq decides.
queue_insert(x, prev) ==
  /\ x \in held /\ prev \notin held
  /\ TailInPlace /\ pri /\ prev = tail => \A y \in Item \ held : Rank[y] <= Rank[x]
  /\ \/ /\ head = Nil \/ prev = tail
        /\ Enq(x)
     \/ /\ head # Nil /\ prev # tail
        /\ IF prev = Nil
           THEN head' = x /\ next' = [next EXCEPT ![x] = head]
           ELSE /\ next' = [next EXCEPT ![x] = next[prev], ![prev] = x]
                /\ UNCHANGED head
        /\ curNum' = curNum + 1
        /\ held' = held \ {x}
        /\ UNCHANGED <<tail, pri>>
  /\ out' = Ret(<<"insert", x, prev>>, "QUEUE_SUCCESS")

\* Mutant of Unlink: the tail stays with the item that leaves.
UnlinkKeepsTail(x, prev) ==
  /\ IF head = x
     THEN head' = next[x] /\ UNCHANGED next
     ELSE /\ next' = IF prev # Nil THEN [next EXCEPT ![prev] = next[x]] ELSE next
          /\ UNCHANGED head
  /\ tail' = IF next[x] = Nil /\ prev = Nil THEN Nil ELSE tail
  /\ curNum' = curNum - 1
  /\ held' = held \cup {x}
  /\ UNCHANGED pri

\* x is taken out; prev is the item before it, Nil if there is none.
Unlink(x, prev) ==
  /\ IF head = x
     THEN head' = next[x] /\ UNCHANGED next
     ELSE /\ next' = IF prev # Nil THEN [next EXCEPT ![prev] = next[x]] ELSE next
          /\ UNCHANGED head
  /\ tail' = IF tail = x THEN prev ELSE tail
  /\ curNum' = curNum - 1
  /\ held' = held \cup {x}
  /\ UNCHANGED pri

\* An iteration has found x behind prev.
queue_remove(x, prev) ==
  /\ head # Nil
  /\ prev \notin held
  /\ x = IF prev = Nil THEN head ELSE next[prev]
  /\ Unlink(x, prev)
  /\ out' = Ret(<<"remove", x, prev>>, "QUEUE_SUCCESS")

DeleteFound(x) ==
  /\ \E p \in Walks :
       /\ Passed(p)
       /\ x \notin {p[i] : i \in 1..Len(p)}
       /\ At(p) = x
       /\ Unlink(x, IF p = <<>> THEN Nil ELSE p[Len(p)])
  /\ out' = Ret(<<"delete", x>>, "QUEUE_SUCCESS")

DeleteMissing(x) ==
  /\ \E p \in Walks :
       /\ Passed(p)
       /\ x \notin {p[i] : i \in 1..Len(p)}
       /\ At(p) = Nil
  /\ out' = Ret(<<"delete", x>>, IF head = Nil THEN "QUEUE_EMPTY" ELSE "QUEUE_NOT_FOUND")
  /\ UNCHANGED <<head, tail, curNum, pri, next, held>>

queue_delete(x) == DeleteFound(x) \/ DeleteMissing(x)

queue_isempty ==
  /\ out' = Ret(<<"isempty">>, head = Nil)
  /\ UNCHANGED <<head, tail, curNum, pri, next, held>>

queue_count ==
  /\ out' = Ret(<<"count">>, curNum)
  /\ UNCHANGED <<head, tail, curNum, pri, next, held>>

Next ==
  \/ queue_init \/ queue_deq \/ queue_isempty \/ queue_count
  \/ \E x \in Item : queue_enq(x) \/ queue_delete(x)
  \/ \E x \in Item, prev \in Pointer : queue_insert(x, prev) \/ queue_remove(x, prev)

Spec == Init /\ [][Next]_vars

-----------------------------------------------------------------------------
(* Properties *)

\* s is the sequence of items that the links lay out between head and tail.
Chain(s) ==
  /\ s = <<>> => head = Nil /\ tail = Nil
  /\ s # <<>> => /\ head = s[1] /\ tail = s[Len(s)]
                 /\ next[s[Len(s)]] = Nil
  /\ \A i \in 1..Len(s) - 1 : next[s[i]] = s[i + 1]

\* The queue as its callers see it.
Contents == CHOOSE s \in [1..curNum -> Item] : Chain(s)

\* s is the queue: every item the callers have put in and not got back, once.
Queue(s) ==
  /\ s \in [1..curNum -> Item]
  /\ Chain(s)
  /\ \A i, j \in 1..curNum : i # j => s[i] # s[j]
  /\ {s[i] : i \in 1..curNum} = Item \ held

\* tl_queue.c: after any sequence of calls the links from head to tail pass every
\* item the callers have put in and not got back, once, and curNum counts
\* them; no item is lost, shared or left behind a tail that is off.
Linked == \E s \in [1..curNum -> Item] : Queue(s)

\* The pointers and the counter implement the ordered sequence: each call
\* changes the sequence, and answers, as OrderedQueue says. queue_insert does so
\* only under TailInPlace.
Abstract == INSTANCE OrderedQueue WITH list <- Contents
Implements == Abstract!Spec
=============================================================================
