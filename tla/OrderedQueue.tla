---------------------------- MODULE OrderedQueue ----------------------------
(***************************************************************************)
(* What common/tl_queue.c promises its callers: a queue is a sequence of    *)
(* distinct items. Without a priority function it is first in, first out;   *)
(* with one a new item goes in front of the first item of a larger priority *)
(* value, behind those of its own. Pointers and counters do not exist here. *)
(***************************************************************************)
EXTENDS Naturals, Sequences

CONSTANTS Item,  \* the queue_item_t objects of the callers
          Nil,   \* the null pointer
          Rank   \* Rank[x]: the value of the priority function for item x

VARIABLES list,  \* the items of the queue, the next one to leave first
          pri,   \* whether the queue was initialised with a priority function
          out    \* the answer of the last call

vars == <<list, pri, out>>

\* A call with its arguments, and what it returned.
Ret(call, val) == [call |-> call, ret |-> val]

\* The members of a sequence.
Members(s) == {s[i] : i \in 1..Len(s)}

\* x behind the first k items of s.
PutAfter(s, k, x) ==
  [i \in 1..Len(s) + 1 |-> IF i <= k THEN s[i] ELSE IF i = k + 1 THEN x ELSE s[i - 1]]

\* s without its item number k.
TakeOut(s, k) == [i \in 1..Len(s) - 1 |-> IF i < k THEN s[i] ELSE s[i + 1]]

\* An item x with k items before it is in its place.
InPlace(s, k, x) ==
  IF pri
  THEN /\ \A i \in 1..k : Rank[s[i]] <= Rank[x]
       /\ k < Len(s) => Rank[x] < Rank[s[k + 1]]
  ELSE k = Len(s)

\* The item with k items before it takes its place.
PutInPlace(x) ==
  \E k \in 0..Len(list) : InPlace(list, k, x) /\ list' = PutAfter(list, k, x)

\* The item number k, the null pointer for k = 0.
Nth(s, k) == IF k = 0 THEN Nil ELSE s[k]

Init == list = <<>> /\ pri \in BOOLEAN /\ out = Ret(<<"init">>, "QUEUE_SUCCESS")

Clear ==
  /\ list' = <<>>
  /\ pri' \in BOOLEAN
  /\ out' = Ret(<<"init">>, "QUEUE_SUCCESS")

Enqueue(x) ==
  /\ x \notin Members(list)
  /\ PutInPlace(x)
  /\ out' = Ret(<<"enq", x>>, "QUEUE_SUCCESS")
  /\ UNCHANGED pri

\* queue_insert as its documentation has it (common/tl_queue.h, "pPrev - The
\* element in the queue before the new element"): behind prev, first for Nil.
Insert(x, prev) ==
  /\ x \notin Members(list)
  /\ \E k \in 0..Len(list) :
       prev = Nth(list, k) /\ list' = PutAfter(list, k, x)
  /\ out' = Ret(<<"insert", x, prev>>, "QUEUE_SUCCESS")
  /\ UNCHANGED pri

Dequeue ==
  /\ out' = Ret(<<"deq">>, IF list = <<>> THEN Nil ELSE list[1])
  /\ list' = IF list = <<>> THEN list ELSE TakeOut(list, 1)
  /\ UNCHANGED pri

Remove(x, prev) ==
  /\ \E k \in 1..Len(list) :
       x = list[k] /\ prev = Nth(list, k - 1) /\ list' = TakeOut(list, k)
  /\ out' = Ret(<<"remove", x, prev>>, "QUEUE_SUCCESS")
  /\ UNCHANGED pri

Delete(x) ==
  /\ \E k \in 1..Len(list) : x = list[k] /\ list' = TakeOut(list, k)
  /\ out' = Ret(<<"delete", x>>, "QUEUE_SUCCESS")
  /\ UNCHANGED pri

DeleteMissing(x) ==
  /\ x \notin Members(list)
  /\ out' = Ret(<<"delete", x>>, IF list = <<>> THEN "QUEUE_EMPTY" ELSE "QUEUE_NOT_FOUND")
  /\ UNCHANGED <<list, pri>>

Count == out' = Ret(<<"count">>, Len(list)) /\ UNCHANGED <<list, pri>>

Empty == out' = Ret(<<"isempty">>, list = <<>>) /\ UNCHANGED <<list, pri>>

Next ==
  \/ Clear \/ Dequeue \/ Count \/ Empty
  \/ \E x \in Item : Enqueue(x) \/ Delete(x) \/ DeleteMissing(x)
  \/ \E x \in Item, prev \in Item \cup {Nil} : Insert(x, prev) \/ Remove(x, prev)

Spec == Init /\ [][Next]_vars
=============================================================================
