----------------------------- MODULE HciH4Proofs -----------------------------
(***************************************************************************)
(* Proofs about the receiving half of the H4 transport. The types, and that   *)
(* the flush timer runs whenever a packet waits in the backup buffer, hold    *)
(* for every stream. That the packets come out as the host sent them is       *)
(* proved for packets of every size and chunks of every length, when          *)
(*   - no packet is of a type the receiver skips (Plain),                     *)
(*   - no packet is longer than the eight bits of backupCnt count (Narrow),   *)
(*   - the host has no more packets outstanding than the HCI Rx FIFO holds    *)
(*     (Metered).                                                             *)
(* Each condition is needed: lines 381-403 leave pPacket where it is,         *)
(* backupCnt wraps, and a chunk that meets a full FIFO is begun again.        *)
(***************************************************************************)
EXTENDS HciH4, TLAPS, SequenceTheorems, WellFoundedInduction

Plain == \A p \in Packet : p.kind # "SKIP"
Narrow == MaxSize < Wrap
Metered == Credit <= RxNum

\* All bytes of q belong to packets of ps.
Known(ps, q) == \A i \in 1..Len(q) : q[i][1] \in 1..Len(ps)

\* Every byte on its way belongs to a packet the host has sent since it last
\* restarted, or a chunk has been lost.
BytesKnown ==
  ~lost => /\ Known(sent, wire) /\ Known(sent, dma) /\ Known(sent, cur) /\ Known(sent, bk)
           /\ \A k \in 1..Len(uart) : Known(sent, uart[k])

\* The handler leaves nothing in hand, and has a chunk while it works on one.
InHand ==
  /\ pc \in {"rx", "hci"} => cur = <<>>
  /\ pc \in {"loop", "switch"} => uart # <<>>

\* The inductive invariant of the types and the timer.
H4Inv == TypeOK /\ BytesKnown /\ InHand /\ BackupTimed

-----------------------------------------------------------------------------
(* The stream. A place in it is the byte that comes next.                    *)

\* The byte behind b in the stream of the packets ps.
After(ps, b) == IF b[2] < ps[b[1]].size THEN <<b[1], b[2] + 1>> ELSE <<b[1] + 1, 1>>

\* q holds the bytes from place c up to place d, in order and without a gap.
Run(ps, q, c, d) ==
  /\ \A i \in 1..Len(q) : q[i][1] \in 1..Len(ps) /\ q[i][2] \in 1..ps[q[i][1]].size
  /\ \A i \in 1..Len(q) - 1 : q[i + 1] = After(ps, q[i])
  /\ IF q = <<>> THEN c = d ELSE q[1] = c /\ After(ps, q[Len(q)]) = d

\* The places where the wire, the chunk in reception and chunk k of the FIFO begin.
AtEnd == <<Len(sent) + 1, 1>>
AtWire == IF wire = <<>> THEN AtEnd ELSE wire[1]
AtDma == IF dma = <<>> THEN AtWire ELSE dma[1]
AtChunk(k) == IF k <= Len(uart) THEN uart[k][1] ELSE AtDma

\* The packets that have come out, and the place of the main loop: in the packet
\* behind them, behind what the backup buffer holds.
Arrived == Len(got) + Len(fifo)
Place == <<Arrived + 1, Len(bk) + 1>>

\* What is on its way is the rest of the stream, cut into chunks.
Queued ==
  /\ Run(sent, wire, AtWire, AtEnd) /\ Run(sent, dma, AtDma, AtWire)
  /\ \A k \in 1..Len(uart) : uart[k] # <<>> /\ Run(sent, uart[k], AtChunk(k), AtChunk(k + 1))
  /\ dma # <<>> => Len(uart) < UartNum

\* The main loop stands at its beginning.
Placed ==
  /\ pc \in {"rx", "hci"} => Place = AtChunk(1)
  /\ pc \in {"loop", "switch"} => Run(sent, cur, Place, AtChunk(2))
  /\ pc = "switch" => bk = <<>>
  /\ pc # "wild"

\* The backup buffer holds the beginning of the next packet, not all of it.
Begun ==
  bk # <<>> => /\ Arrived < Len(sent) /\ Len(bk) < sent[Arrived + 1].size
               /\ \A i \in 1..Len(bk) : bk[i] = <<Arrived + 1, i>>

\* The bytes of packet p.
Content(ps, p) == [i \in 1..ps[p].size |-> <<p, i>>]

\* What has come out is what was sent, and flow control bounds the rest.
CameOut ==
  /\ \A p \in 1..Len(got) : got[p] = Content(sent, p)
  /\ \A p \in 1..Len(fifo) : fifo[p] = Content(sent, Len(got) + p)
  /\ Arrived <= Len(sent) /\ Len(sent) <= Len(got) + Credit

Stream == Queued /\ Placed /\ Begun /\ CameOut

\* The inductive invariant of the stream, on top of H4Inv.
StreamInv == ~lost => Stream

-----------------------------------------------------------------------------
(* Sequences of bytes.                                                       *)

\* The first n elements of a sequence, and the rest.
LEMMA Cut ==
  ASSUME NEW S, NEW q \in Seq(S), NEW n \in Nat, n <= Len(q)
  PROVE  /\ SubSeq(q, 1, n) \in Seq(S) /\ Len(SubSeq(q, 1, n)) = n
         /\ \A i \in 1..n : SubSeq(q, 1, n)[i] = q[i]
         /\ SubSeq(q, n + 1, Len(q)) \in Seq(S)
         /\ Len(SubSeq(q, n + 1, Len(q))) = Len(q) - n
         /\ \A i \in 1..Len(q) - n : SubSeq(q, n + 1, Len(q))[i] = q[n + i]
<1>1. Len(q) \in Nat /\ \A i \in 1..Len(q) : q[i] \in S
  BY LenProperties, ElementOfSeq
<1>2. 1 \in Int /\ n \in Int /\ n + 1 \in Int /\ Len(q) \in Int
  BY <1>1
<1>3. /\ SubSeq(q, 1, n) \in Seq(S)
      /\ Len(SubSeq(q, 1, n)) = IF 1 <= n THEN n - 1 + 1 ELSE 0
      /\ \A i \in 1..n - 1 + 1 : SubSeq(q, 1, n)[i] = q[1 + i - 1]
  <2>1. \A i \in 1..n : q[i] \in S
    BY <1>1
  <2>2. QED
    BY <1>2, <2>1, SubSeqProperties
<1>4. /\ SubSeq(q, n + 1, Len(q)) \in Seq(S)
      /\ Len(SubSeq(q, n + 1, Len(q))) = IF n + 1 <= Len(q) THEN Len(q) - (n + 1) + 1 ELSE 0
      /\ \A i \in 1..Len(q) - (n + 1) + 1 :
           SubSeq(q, n + 1, Len(q))[i] = q[(n + 1) + i - 1]
  <2>1. \A i \in n + 1..Len(q) : q[i] \in S
    BY <1>1
  <2>2. QED
    BY <1>2, <2>1, SubSeqProperties
<1>5. n - 1 + 1 = n /\ Len(q) - (n + 1) + 1 = Len(q) - n
  BY <1>1
<1>6. \A i \in 1..n : 1 + i - 1 = i
  BY <1>1
<1>7. \A i \in 1..Len(q) - n : (n + 1) + i - 1 = n + i
  BY <1>1
<1>8. Len(SubSeq(q, 1, n)) = n /\ Len(SubSeq(q, n + 1, Len(q))) = Len(q) - n
  BY <1>1, <1>3, <1>4
<1>9. QED
  BY <1>3, <1>4, <1>5, <1>6, <1>7, <1>8

\* A sequence behind another one.
LEMMA Joined ==
  ASSUME NEW S, NEW a \in Seq(S), NEW b \in Seq(S)
  PROVE  /\ a \o b \in Seq(S) /\ Len(a \o b) = Len(a) + Len(b)
         /\ Len(a) \in Nat /\ Len(b) \in Nat
         /\ \A i \in 1..Len(a) : (a \o b)[i] = a[i]
         /\ \A i \in 1..Len(b) : (a \o b)[Len(a) + i] = b[i]
<1>1. Len(a) \in Nat /\ Len(b) \in Nat
  BY LenProperties
<1>2. /\ a \o b \in Seq(S) /\ Len(a \o b) = Len(a) + Len(b)
      /\ \A i \in 1..Len(a) + Len(b) : (a \o b)[i] =
           IF i <= Len(a) THEN a[i] ELSE b[i - Len(a)]
  BY ConcatProperties
<1>3. \A i \in 1..Len(a) : i \in 1..Len(a) + Len(b) /\ i <= Len(a)
  BY <1>1
<1>4. \A i \in 1..Len(b) : /\ Len(a) + i \in 1..Len(a) + Len(b) /\ ~(Len(a) + i <= Len(a))
                           /\ (Len(a) + i) - Len(a) = i
  BY <1>1
<1>5. \A i \in 1..Len(b) : (a \o b)[Len(a) + i] = b[i]
  <2>1. TAKE i \in 1..Len(b)
  <2>2. (a \o b)[Len(a) + i] = IF Len(a) + i <= Len(a) THEN a[Len(a) + i]
                               ELSE b[(Len(a) + i) - Len(a)]
    BY <1>2, <1>4
  <2>3. QED
    BY <1>4, <2>2
<1>6. QED
  BY <1>1, <1>2, <1>3, <1>5

\* Every set of naturals has a least element.
LEMMA Least ==
  ASSUME NEW T, T \subseteq Nat, T # {}
  PROVE  \E x \in T : \A y \in T : x <= y
<1>1. \E x \in T : \A y \in T : <<y, x>> \notin OpToRel(<, Nat)
  BY WFMin, NatLessThanWellFounded
<1>2. PICK x \in T : \A y \in T : <<y, x>> \notin OpToRel(<, Nat)
  BY <1>1
<1>3. \A y \in T : ~(y < x)
  BY <1>2 DEF OpToRel
<1>4. QED
  BY <1>3

\* From place <<p, t>> on come the bytes of packet p, as far as it goes. (By
\* induction: the first byte that does not would follow one that does.)
LEMMA RunPacket ==
  ASSUME NEW ps, NEW q \in Seq(Byte), NEW p \in Nat, NEW t \in Nat \ {0}, NEW d,
         Run(ps, q, <<p, t>>, d), ps[p].size \in Nat
  PROVE  \A i \in 1..Len(q) : t + i - 1 <= ps[p].size => q[i] = <<p, t + i - 1>>
<1> DEFINE Bad == {i \in Nat : i \in 1..Len(q) /\ t + i - 1 <= ps[p].size
                               /\ q[i] # <<p, t + i - 1>>}
<1>1. SUFFICES ASSUME Bad # {} PROVE FALSE
  <2>1. Len(q) \in Nat
    BY LenProperties
  <2>2. \A i \in 1..Len(q) : i \in Nat
    BY <2>1
  <2>3. QED
    BY <1>1, <2>2
<1>2. PICK x \in Bad : \A y \in Bad : x <= y
  BY <1>1, Least
<1>3. x \in Nat /\ x \in 1..Len(q) /\ t + x - 1 <= ps[p].size /\ q[x] # <<p, t + x - 1>>
  OBVIOUS
<1>4. Len(q) \in Nat /\ q # <<>>
  BY <1>3, LenProperties
<1>5. CASE x = 1
  <2>1. q[1] = <<p, t>> /\ t + 1 - 1 = t
    BY <1>4 DEF Run
  <2>2. QED
    BY <1>3, <1>5, <2>1
<1>6. CASE x # 1
  <2>1. /\ x - 1 \in Nat /\ x - 1 \in 1..Len(q) /\ x - 1 \in 1..Len(q) - 1
        /\ t + (x - 1) - 1 <= ps[p].size /\ ~(x <= x - 1) /\ (x - 1) + 1 = x
        /\ t + (x - 1) - 1 < ps[p].size /\ (t + (x - 1) - 1) + 1 = t + x - 1
    BY <1>3, <1>4, <1>6
  <2>2. x - 1 \notin Bad
    BY <1>2, <2>1
  <2>3. q[x - 1] = <<p, t + (x - 1) - 1>>
    BY <2>1, <2>2
  <2>4. q[(x - 1) + 1] = After(ps, q[x - 1])
    BY <2>1 DEF Run
  <2>5. q[x] = <<p, t + x - 1>>
    BY <2>1, <2>3, <2>4 DEF After
  <2>6. QED
    BY <1>3, <2>5
<1>7. QED
  BY <1>5, <1>6

\* A run is cut into two.
LEMMA RunCut ==
  ASSUME NEW ps, NEW q \in Seq(Byte), NEW c, NEW d, Run(ps, q, c, d),
         NEW n \in Nat, n <= Len(q)
  PROVE  LET e == IF n < Len(q) THEN q[n + 1] ELSE d IN
         /\ Run(ps, SubSeq(q, 1, n), c, e)
         /\ Run(ps, SubSeq(q, n + 1, Len(q)), e, d)
<1> DEFINE e == IF n < Len(q) THEN q[n + 1] ELSE d
           a == SubSeq(q, 1, n)
           b == SubSeq(q, n + 1, Len(q))
<1>1. /\ a \in Seq(Byte) /\ Len(a) = n /\ \A i \in 1..n : a[i] = q[i]
      /\ b \in Seq(Byte) /\ Len(b) = Len(q) - n
      /\ \A i \in 1..Len(q) - n : b[i] = q[n + i]
  BY Cut
<1>2. Len(q) \in Nat /\ (q = <<>> <=> Len(q) = 0) /\ (a = <<>> <=> n = 0)
      /\ (b = <<>> <=> n = Len(q))
  <2>1. Len(q) \in Nat
    BY LenProperties
  <2>2. \A r \in Seq(Byte) : r = <<>> <=> Len(r) = 0
    BY EmptySeq
  <2>3. (q = <<>> <=> Len(q) = 0) /\ (a = <<>> <=> Len(a) = 0) /\ (b = <<>> <=> Len(b) = 0)
    BY <1>1, <2>2
  <2>4. QED
    BY <1>1, <2>1, <2>3
<1>3. /\ \A i \in 1..Len(q) : q[i][1] \in 1..Len(ps) /\ q[i][2] \in 1..ps[q[i][1]].size
      /\ \A i \in 1..Len(q) - 1 : q[i + 1] = After(ps, q[i])
      /\ IF q = <<>> THEN c = d ELSE q[1] = c /\ After(ps, q[Len(q)]) = d
  BY DEF Run
<1> HIDE DEF a, b
<1>4. Run(ps, a, c, e)
  <2>1. \A i \in 1..Len(a) : i \in 1..Len(q) /\ a[i] = q[i]
    BY <1>1, <1>2
  <2>2. \A i \in 1..Len(a) - 1 : i \in 1..Len(q) - 1 /\ i \in 1..n /\ i + 1 \in 1..n
    BY <1>1, <1>2
  <2>3. \A i \in 1..Len(a) - 1 : a[i + 1] = After(ps, a[i])
    BY <1>1, <1>3, <2>2
  <2>4. CASE n = 0
    <3>1. a = <<>> /\ c = e
      <4>1. CASE Len(q) = 0
        BY <1>2, <1>3, <2>4, <4>1
      <4>2. CASE Len(q) # 0
        BY <1>2, <1>3, <2>4, <4>2
      <4>3. QED
        BY <1>2, <2>4, <4>1, <4>2
    <3>2. QED
      BY <1>3, <2>1, <2>3, <3>1 DEF Run
  <2>5. CASE n # 0
    <3>1. a # <<>> /\ q # <<>> /\ 1 \in 1..n /\ n \in 1..n
      BY <1>2, <2>5
    <3>2. a[1] = c
      BY <1>1, <1>3, <3>1
    <3>3. After(ps, a[n]) = e
      <4>1. CASE n < Len(q)
        <5>1. n \in 1..Len(q) - 1
          BY <1>2, <2>5, <4>1
        <5>2. QED
          BY <1>1, <1>3, <3>1, <4>1, <5>1
      <4>2. CASE n = Len(q)
        BY <1>1, <1>3, <3>1, <4>2
      <4>3. QED
        BY <1>2, <4>1, <4>2
    <3>4. QED
      BY <1>1, <1>3, <2>1, <2>3, <3>1, <3>2, <3>3 DEF Run
  <2>6. QED
    BY <2>4, <2>5
<1>5. Run(ps, b, e, d)
  <2>1. \A i \in 1..Len(b) : n + i \in 1..Len(q) /\ b[i] = q[n + i]
    BY <1>1, <1>2
  <2>2. \A i \in 1..Len(b) - 1 :
           /\ n + i \in 1..Len(q) - 1 /\ i \in 1..Len(b) /\ i + 1 \in 1..Len(b)
           /\ n + (i + 1) = (n + i) + 1
    BY <1>1, <1>2
  <2>3. \A i \in 1..Len(b) - 1 : b[i + 1] = After(ps, b[i])
    BY <1>3, <2>1, <2>2
  <2>4. CASE n = Len(q)
    <3>1. b = <<>> /\ e = d
      BY <1>2, <2>4
    <3>2. QED
      BY <1>3, <2>1, <2>3, <3>1 DEF Run
  <2>5. CASE n # Len(q)
    <3>1. /\ b # <<>> /\ q # <<>> /\ 1 \in 1..Len(b) /\ Len(b) \in 1..Len(b)
          /\ n + Len(b) = Len(q) /\ n < Len(q)
      BY <1>1, <1>2, <2>5
    <3>2. b[1] = e /\ b[Len(b)] = q[Len(q)]
      BY <2>1, <3>1
    <3>3. QED
      BY <1>3, <2>1, <2>3, <3>1, <3>2 DEF Run
  <2>6. QED
    BY <2>4, <2>5
<1>6. QED
  BY <1>4, <1>5 DEF a, b

\* Two runs that meet make one.
LEMMA RunJoin ==
  ASSUME NEW ps, NEW a \in Seq(Byte), NEW b \in Seq(Byte), NEW c, NEW e, NEW d,
         Run(ps, a, c, e), Run(ps, b, e, d)
  PROVE  Run(ps, a \o b, c, d)
<1>1. /\ a \o b \in Seq(Byte) /\ Len(a \o b) = Len(a) + Len(b)
      /\ Len(a) \in Nat /\ Len(b) \in Nat
      /\ \A i \in 1..Len(a) : (a \o b)[i] = a[i]
      /\ \A i \in 1..Len(b) : (a \o b)[Len(a) + i] = b[i]
  BY Joined
<1>2. CASE a = <<>>
  <2>1. a \o b = b /\ c = e
    BY <1>2, ConcatEmptySeq DEF Run
  <2>2. QED
    BY <2>1
<1>3. CASE b = <<>>
  <2>1. a \o b = a /\ e = d
    BY <1>3, ConcatEmptySeq DEF Run
  <2>2. QED
    BY <2>1
<1>4. CASE a # <<>> /\ b # <<>>
  <2>1. Len(a) # 0 /\ Len(b) # 0
    BY <1>4, EmptySeq
  <2> DEFINE r == a \o b
  <2>2. /\ \A i \in 1..Len(a) : a[i][1] \in 1..Len(ps) /\ a[i][2] \in 1..ps[a[i][1]].size
        /\ \A i \in 1..Len(a) - 1 : a[i + 1] = After(ps, a[i])
        /\ a[1] = c /\ After(ps, a[Len(a)]) = e
    BY <1>4 DEF Run
  <2>3. /\ \A i \in 1..Len(b) : b[i][1] \in 1..Len(ps) /\ b[i][2] \in 1..ps[b[i][1]].size
        /\ \A i \in 1..Len(b) - 1 : b[i + 1] = After(ps, b[i])
        /\ b[1] = e /\ After(ps, b[Len(b)]) = d
    BY <1>4 DEF Run
  <2>4. Len(r) = Len(a) + Len(b)
    BY <1>1
  <2>5. \A i \in 1..Len(r) : r[i][1] \in 1..Len(ps) /\ r[i][2] \in 1..ps[r[i][1]].size
    <3>1. TAKE i \in 1..Len(r)
    <3>2. CASE i \in 1..Len(a)
      BY <1>1, <2>2, <3>2
    <3>3. CASE i \notin 1..Len(a)
      <4>1. i - Len(a) \in 1..Len(b) /\ Len(a) + (i - Len(a)) = i
        BY <1>1, <2>4, <3>3
      <4>2. r[i] = b[i - Len(a)]
        BY <1>1, <4>1
      <4>3. QED
        BY <2>3, <4>1, <4>2
    <3>4. QED
      BY <3>2, <3>3
  <2>6. \A i \in 1..Len(r) - 1 : r[i + 1] = After(ps, r[i])
    <3>1. TAKE i \in 1..Len(r) - 1
    <3>2. CASE i \in 1..Len(a) - 1
      <4>1. i \in 1..Len(a) /\ i + 1 \in 1..Len(a)
        BY <1>1, <3>2
      <4>2. QED
        BY <1>1, <2>2, <3>2, <4>1
    <3>3. CASE i = Len(a)
      <4>1. i \in 1..Len(a) /\ 1 \in 1..Len(b)
        BY <1>1, <2>1, <3>3
      <4>2. r[i] = a[Len(a)] /\ r[i + 1] = b[1]
        BY <1>1, <3>3, <4>1
      <4>3. QED
        BY <2>2, <2>3, <4>2
    <3>4. CASE i \notin 1..Len(a)
      <4> DEFINE j == i - Len(a)
      <4>1. /\ j \in 1..Len(b) - 1 /\ j \in 1..Len(b) /\ j + 1 \in 1..Len(b)
            /\ Len(a) + j = i /\ Len(a) + (j + 1) = i + 1
        BY <1>1, <2>4, <3>4
      <4> HIDE DEF j
      <4>2. r[i] = b[j] /\ r[i + 1] = b[j + 1]
        BY <1>1, <4>1
      <4>3. QED
        BY <2>3, <4>1, <4>2
    <3>5. QED
      BY <1>1, <3>2, <3>3, <3>4
  <2>7. r # <<>> /\ r[1] = c /\ r[Len(r)] = b[Len(b)]
    <3>1. 1 \in 1..Len(a) /\ Len(b) \in 1..Len(b) /\ Len(r) # 0
      BY <1>1, <2>1
    <3>2. r # <<>>
      BY <3>1, EmptySeq
    <3>3. QED
      BY <1>1, <2>2, <3>1, <3>2
  <2>8. QED
    BY <2>3, <2>5, <2>6, <2>7 DEF Run
<1>5. QED
  BY <1>2, <1>3, <1>4

\* A run stays one when the host sends another packet.
LEMMA RunGrows ==
  ASSUME NEW ps \in Seq(Packet), NEW pkt \in Packet, NEW q \in Seq(Byte), NEW c, NEW d,
         Run(ps, q, c, d)
  PROVE  Run(Append(ps, pkt), q, c, d)
<1>1. /\ Len(Append(ps, pkt)) = Len(ps) + 1 /\ Len(ps) \in Nat
      /\ \A p \in 1..Len(ps) : Append(ps, pkt)[p] = ps[p]
  BY AppendProperties, LenProperties
<1>2. \A p \in 1..Len(ps) : p \in 1..Len(Append(ps, pkt))
  BY <1>1
<1>3. /\ \A i \in 1..Len(q) : q[i][1] \in 1..Len(ps) /\ q[i][2] \in 1..ps[q[i][1]].size
      /\ \A i \in 1..Len(q) - 1 : q[i + 1] = After(ps, q[i])
      /\ IF q = <<>> THEN c = d ELSE q[1] = c /\ After(ps, q[Len(q)]) = d
  BY DEF Run
<1>4. \A i \in 1..Len(q) : After(Append(ps, pkt), q[i]) = After(ps, q[i])
  BY <1>1, <1>3 DEF After
<1>5. Len(q) \in Nat /\ (q # <<>> => Len(q) \in 1..Len(q))
      /\ \A i \in 1..Len(q) - 1 : i \in 1..Len(q)
  <2>1. Len(q) \in Nat /\ (q # <<>> => Len(q) # 0)
    BY LenProperties, EmptySeq
  <2>2. QED
    BY <2>1
<1>6. \A i \in 1..Len(q) : /\ q[i][1] \in 1..Len(Append(ps, pkt))
                           /\ q[i][2] \in 1..Append(ps, pkt)[q[i][1]].size
  BY <1>1, <1>2, <1>3
<1>7. QED
  BY <1>3, <1>4, <1>5, <1>6 DEF Run

-----------------------------------------------------------------------------
(* What the receiver makes of bytes, and the backup handler.                 *)

LEMMA Mod ==
  ASSUME NEW n \in Nat, NEW k \in Nat \ {0}
  PROVE  n % k \in Nat /\ n % k < k /\ n % k <= n /\ (n < k => n % k = n)
OBVIOUS

LEMMA PacketTyped ==
  ASSUME sent \in Seq(Packet), NEW p \in 1..Len(sent)
  PROVE  /\ sent[p] \in Packet /\ sent[p].kind \in Kind /\ sent[p].size \in Nat
         /\ HeadLen[sent[p].kind] \in Nat \ {0} /\ HeadLen[sent[p].kind] <= sent[p].size
         /\ sent[p].size <= MaxSize /\ sent[p].size # 0
<1>1. sent[p] \in Packet
  BY ElementOfSeq
<1>2. sent[p].kind \in Kind /\ sent[p].size \in HeadLen[sent[p].kind]..MaxSize
  BY <1>1, H4Assumption
<1>3. HeadLen[sent[p].kind] \in Nat \ {0} /\ MaxSize \in Nat
  BY <1>2, H4Assumption
<1>4. QED
  BY <1>1, <1>2, <1>3

LEMMA TypesTyped ==
  ASSUME sent \in Seq(Packet), NEW b, ~lost => b[1] \in 1..Len(sent), NEW type \in Types(b)
  PROVE  type \in Kind \cup {"OTHER"}
BY PacketTyped DEF Types

LEMMA SizesTyped ==
  ASSUME sent \in Seq(Packet), NEW b \in Seq(Byte), ~lost => Known(sent, b),
         NEW type \in Kind, HeadLen[type] <= Len(b), NEW size \in Sizes(b, type)
  PROVE  size \in Nat
<1>1. HeadLen[type] \in Nat \ {0} /\ MaxSize \in Nat /\ Len(b) \in Nat
  BY H4Assumption, LenProperties
<1>2. CASE ~lost /\ \A i \in 1..HeadLen[type] : b[i] = <<b[1][1], i>>
  <2>1. 1 \in 1..Len(b)
    BY <1>1
  <2>2. b[1][1] \in 1..Len(sent)
    BY <1>2, <2>1 DEF Known
  <2>3. size = sent[b[1][1]].size
    BY <1>2 DEF Sizes
  <2>4. QED
    BY <2>2, <2>3, PacketTyped
<1>3. CASE ~(~lost /\ \A i \in 1..HeadLen[type] : b[i] = <<b[1][1], i>>)
  BY <1>1, <1>3 DEF Sizes
<1>4. QED
  BY <1>2, <1>3

LEMMA KeptTyped ==
  ASSUME NEW b \in Seq(Byte)
  PROVE  /\ Kept(b) \in Seq(Byte) /\ Len(Kept(b)) < Wrap
         /\ \A i \in 1..Len(Kept(b)) : i \in 1..Len(b) /\ Kept(b)[i] = b[i]
         /\ Len(b) < Wrap => Kept(b) = b
<1>1. Len(b) \in Nat /\ Wrap \in Nat \ {0}
  BY LenProperties, H4Assumption
<1> DEFINE n == Len(b) % Wrap
<1>2. n \in Nat /\ n < Wrap /\ n <= Len(b) /\ (Len(b) < Wrap => n = Len(b))
  BY <1>1, Mod
<1>3. Kept(b) = SubSeq(b, 1, n)
  BY DEF Kept
<1> HIDE DEF n
<1>4. /\ Kept(b) \in Seq(Byte) /\ Len(Kept(b)) = n
      /\ \A i \in 1..n : Kept(b)[i] = b[i]
  BY <1>2, <1>3, Cut
<1>5. \A i \in 1..n : i \in 1..Len(b)
  BY <1>1, <1>2
<1>6. Len(b) < Wrap => Kept(b) = b
  BY <1>2, <1>3, SubSeqFull
<1>7. QED
  BY <1>2, <1>4, <1>5, <1>6

LEMMA PutTyped ==
  ASSUME NEW f \in Seq(Seq(Byte)), NEW pkt \in Seq(Byte)
  PROVE  Put(f, pkt) \in Seq(Seq(Byte))
<1>1. Len(f) \in Nat /\ RxNum \in Nat \ {0}
  BY LenProperties, H4Assumption
<1>2. CASE Len(f) >= RxNum
  <2>1. Len(f) + 1 - RxNum \in 1..Len(f)
    BY <1>1, <1>2
  <2>2. [f EXCEPT ![Len(f) + 1 - RxNum] = pkt] \in Seq(Seq(Byte))
    BY <2>1, ExceptSeq
  <2>3. QED
    BY <1>2, <2>2, AppendProperties DEF Put
<1>3. CASE ~(Len(f) >= RxNum)
  BY <1>3, AppendProperties DEF Put
<1>4. QED
  BY <1>2, <1>3

\* A handler's answer that keeps the types and arms the timer with the buffer.
Sound(r, n) ==
  /\ r.used \in Nat /\ r.used <= n
  /\ r.bk \in Seq(Byte) /\ Len(r.bk) < Wrap /\ (~lost => Known(sent, r.bk))
  /\ r.timer \in BOOLEAN /\ (r.bk # <<>> => r.timer)
  /\ r.fifo \in Seq(Seq(Byte))

LEMMA PartialSound ==
  ASSUME TypeOK, NEW used \in Nat, NEW n, used <= n, NEW b \in Seq(Byte),
         ~lost => Known(sent, b)
  PROVE  Sound(Partial(used, b), n)
<1>1. fifo \in Seq(Seq(Byte))
  BY DEF TypeOK
<1>2. ~lost => Known(sent, Kept(b))
  BY KeptTyped DEF Known
<1>3. Kept(b) \in Seq(Byte) /\ Len(Kept(b)) < Wrap
  BY KeptTyped
<1>4. /\ Partial(used, b).used = used /\ Partial(used, b).bk = Kept(b)
      /\ Partial(used, b).timer = TRUE /\ Partial(used, b).fifo = fifo
  BY DEF Partial
<1>5. QED
  BY <1>1, <1>2, <1>3, <1>4 DEF Sound

LEMMA BackUpSound ==
  ASSUME H4Inv, NEW b \in Seq(Byte), ~lost => Known(sent, b), NEW r \in BackUpHandler(b)
  PROVE  Sound(r, Len(b))
<1>1. /\ sent \in Seq(Packet) /\ bk \in Seq(Byte) /\ Len(bk) < Wrap /\ fifo \in Seq(Seq(Byte))
      /\ timer \in BOOLEAN /\ (bk # <<>> => timer) /\ (~lost => Known(sent, bk))
      /\ Len(b) \in Nat /\ Len(bk) \in Nat
  BY LenProperties DEF H4Inv, TypeOK, BytesKnown, BackupTimed
<1>2. CASE bk = <<>>
  <2>1. r = Partial(Len(b), b)
    BY <1>2 DEF BackUpHandler
  <2>2. Len(b) <= Len(b)
    BY <1>1
  <2>3. QED
    BY <1>1, <2>1, <2>2, PartialSound DEF H4Inv
<1>3. CASE bk # <<>>
  <2>1. PICK type \in Types(bk[1]) : r \in BackUpPacket(b, type)
    BY <1>3 DEF BackUpHandler
  <2>2. 1 \in 1..Len(bk)
    BY <1>1, <1>3, EmptySeq
  <2>3. type \in Kind \cup {"OTHER"}
    BY <1>1, <2>2, TypesTyped DEF Known
  <2> DEFINE all == bk \o b
  <2>4. /\ all \in Seq(Byte) /\ Len(all) = Len(bk) + Len(b)
        /\ \A i \in 1..Len(bk) : all[i] = bk[i]
        /\ \A i \in 1..Len(b) : all[Len(bk) + i] = b[i]
    BY <1>1, Joined
  <2>5. ~lost => Known(sent, all)
    <3>1. SUFFICES ASSUME ~lost, NEW i \in 1..Len(all) PROVE all[i][1] \in 1..Len(sent)
      BY DEF Known
    <3>2. CASE i \in 1..Len(bk)
      BY <1>1, <2>4, <3>1, <3>2 DEF Known
    <3>3. CASE i \notin 1..Len(bk)
      <4>1. i - Len(bk) \in 1..Len(b) /\ Len(bk) + (i - Len(bk)) = i
        BY <1>1, <2>4, <3>3
      <4>2. all[i] = b[i - Len(bk)]
        BY <2>4, <4>1
      <4>3. QED
        BY <3>1, <4>1, <4>2 DEF Known
    <3>4. QED
      BY <3>2, <3>3
  <2>6. CASE type \in {"SKIP", "OTHER"}
    <3>1. r = [used |-> Len(b), bk |-> bk, timer |-> timer, fifo |-> fifo]
      BY <2>1, <2>6 DEF BackUpPacket
    <3>2. QED
      BY <1>1, <3>1 DEF Sound
  <2>7. CASE type \notin {"SKIP", "OTHER"} /\ Len(all) < HeadLen[type]
    <3>1. r = Partial(Len(b), all)
      BY <2>1, <2>7 DEF BackUpPacket
    <3>2. Len(b) <= Len(b)
      BY <1>1
    <3>3. QED
      BY <1>1, <2>4, <2>5, <3>1, <3>2, PartialSound DEF H4Inv
  <2>8. CASE type \notin {"SKIP", "OTHER"} /\ ~(Len(all) < HeadLen[type])
    <3>1. PICK size \in Sizes(all, type) :
             LET n == Missing(size, Len(bk), Len(b)) IN
             r = Completed(n, bk \o SubSeq(b, 1, n), size)
      BY <2>1, <2>8 DEF BackUpPacket
    <3>2. type \in Kind /\ HeadLen[type] <= Len(all)
      <4>1. type \in Kind
        BY <2>3, <2>8
      <4>2. HeadLen[type] \in Nat
        BY <4>1, H4Assumption
      <4>3. QED
        BY <1>1, <2>4, <2>8, <4>1, <4>2
    <3>3. size \in Nat
      BY <1>1, <2>4, <2>5, <3>1, <3>2, SizesTyped
    <3> DEFINE n == Missing(size, Len(bk), Len(b))
               c == bk \o SubSeq(b, 1, n)
    <3>4. n \in Nat /\ n <= Len(b)
      BY <1>1, <3>3 DEF Missing, Smaller
    <3>5. r = Completed(n, c, size)
      BY <3>1
    <3> HIDE DEF n
    <3>6. /\ SubSeq(b, 1, n) \in Seq(Byte) /\ Len(SubSeq(b, 1, n)) = n
          /\ \A i \in 1..n : SubSeq(b, 1, n)[i] = b[i]
      BY <3>4, Cut
    <3>7. /\ c \in Seq(Byte) /\ Len(c) = Len(bk) + n
          /\ \A i \in 1..Len(bk) : c[i] = bk[i]
          /\ \A i \in 1..n : c[Len(bk) + i] = b[i]
      BY <1>1, <3>6, Joined
    <3> HIDE DEF c
    <3>8. ~lost => Known(sent, c)
      <4>1. SUFFICES ASSUME ~lost, NEW i \in 1..Len(c) PROVE c[i][1] \in 1..Len(sent)
        BY DEF Known
      <4>2. CASE i \in 1..Len(bk)
        BY <1>1, <3>7, <4>1, <4>2 DEF Known
      <4>3. CASE i \notin 1..Len(bk)
        <5>1. /\ i - Len(bk) \in 1..n /\ i - Len(bk) \in 1..Len(b)
              /\ Len(bk) + (i - Len(bk)) = i
          BY <1>1, <3>4, <3>7, <4>3
        <5>2. c[i] = b[i - Len(bk)]
          BY <3>7, <5>1
        <5>3. QED
          BY <4>1, <5>1, <5>2 DEF Known
      <4>4. QED
        BY <4>2, <4>3
    <3>9. CASE Len(c) % Wrap = size
      <4>1. r = [used |-> n, bk |-> <<>>, timer |-> FALSE, fifo |-> Put(fifo, c)]
        BY <3>5, <3>9 DEF Completed
      <4>2. <<>> \in Seq(Byte) /\ Len(<<>>) = 0 /\ Wrap \in Nat \ {0}
        BY EmptySeq, H4Assumption
      <4>3. Known(sent, <<>>) /\ Put(fifo, c) \in Seq(Seq(Byte))
        BY <1>1, <3>7, PutTyped DEF Known
      <4>4. QED
        BY <3>4, <4>1, <4>2, <4>3 DEF Sound
    <3>10. CASE Len(c) % Wrap # size
      <4>1. r = Partial(n, c)
        BY <3>5, <3>10 DEF Completed
      <4>2. QED
        BY <3>4, <3>7, <3>8, <4>1, PartialSound DEF H4Inv
    <3>11. QED
      BY <3>9, <3>10
  <2>9. QED
    BY <2>6, <2>7, <2>8
<1>4. QED
  BY <1>2, <1>3

-----------------------------------------------------------------------------
(* The types and the timer.                                                  *)

\* The bytes of a packet.
LEMMA NewBytes ==
  ASSUME NEW p \in 1..MaxPkt, NEW n \in 0..MaxSize
  PROVE  /\ [i \in 1..n |-> <<p, i>>] \in Seq(Byte) /\ Len([i \in 1..n |-> <<p, i>>]) = n
         /\ \A i \in 1..n : [j \in 1..n |-> <<p, j>>][i] = <<p, i>>
<1>1. n \in Nat /\ \A i \in 1..n : <<p, i>> \in Byte
  BY H4Assumption DEF Byte
<1>2. [i \in 1..n |-> <<p, i>>] \in [1..n -> Byte]
  BY <1>1
<1>3. [i \in 1..n |-> <<p, i>>] \in Seq(Byte)
  BY <1>1, <1>2, SeqDef
<1>4. Len([i \in 1..n |-> <<p, i>>]) = n
  BY <1>1
<1>5. QED
  BY <1>3, <1>4

LEMMA KnownCut ==
  ASSUME NEW ps, NEW q \in Seq(Byte), NEW n \in Nat, n <= Len(q), Known(ps, q)
  PROVE  Known(ps, SubSeq(q, 1, n)) /\ Known(ps, SubSeq(q, n + 1, Len(q)))
<1>1. Len(q) \in Nat
  BY LenProperties
<1>2. (\A i \in 1..n : i \in 1..Len(q)) /\ \A i \in 1..Len(q) - n : n + i \in 1..Len(q)
  BY <1>1
<1> DEFINE a == SubSeq(q, 1, n)
           b == SubSeq(q, n + 1, Len(q))
<1>3. /\ Len(a) = n /\ \A i \in 1..n : a[i] = q[i]
      /\ Len(b) = Len(q) - n /\ \A i \in 1..Len(q) - n : b[i] = q[n + i]
  BY Cut
<1> HIDE DEF a, b
<1>4. Known(ps, a) /\ Known(ps, b)
  BY <1>2, <1>3 DEF Known
<1>5. QED
  BY <1>4 DEF a, b

LEMMA KnownEmpty == \A ps : Known(ps, <<>>)
BY DEF Known

LEMMA H4Send ==
  ASSUME H4Inv, NEW pkt \in Packet, HostSend(pkt)
  PROVE  H4Inv'
<1>1. /\ sent \in Seq(Packet) /\ wire \in Seq(Byte) /\ Len(sent) \in Nat
      /\ Len(sent) < MaxPkt /\ sent' = Append(sent, pkt)
      /\ wire' = wire \o [i \in 1..pkt.size |-> <<Len(sent) + 1, i>>]
      /\ UNCHANGED <<lost, dma, uart, pc, cur, bk, timer, fifo, got>>
  BY LenProperties DEF H4Inv, TypeOK, HostSend
<1>2. /\ sent' \in Seq(Packet) /\ Len(sent') = Len(sent) + 1 /\ Len(sent') <= MaxPkt
  <2>1. Append(sent, pkt) \in Seq(Packet) /\ Len(Append(sent, pkt)) = Len(sent) + 1
    BY <1>1, AppendProperties
  <2>2. QED
    BY <1>1, <2>1, H4Assumption
<1> DEFINE new == [i \in 1..pkt.size |-> <<Len(sent) + 1, i>>]
<1>3. pkt.size \in Nat /\ pkt.size \in 0..MaxSize /\ Len(sent) + 1 \in 1..MaxPkt
  <2>1. pkt.kind \in Kind /\ pkt.size \in HeadLen[pkt.kind]..MaxSize /\ MaxPkt \in Nat
        /\ MaxSize \in Nat
    BY H4Assumption
  <2>2. HeadLen[pkt.kind] \in Nat
    BY <2>1, H4Assumption
  <2>3. QED
    BY <1>1, <2>1, <2>2
<1>4. /\ new \in Seq(Byte) /\ Len(new) = pkt.size
      /\ \A i \in 1..pkt.size : new[i] = <<Len(sent) + 1, i>>
  BY <1>3, NewBytes
<1>0. wire' = wire \o new /\ wire \in Seq(Byte) /\ Len(sent) \in Nat
  BY <1>1
<1> HIDE DEF new
<1>5. /\ wire' \in Seq(Byte) /\ Len(wire') = Len(wire) + Len(new) /\ Len(wire) \in Nat
      /\ \A i \in 1..Len(wire) : wire'[i] = wire[i]
      /\ \A i \in 1..Len(new) : wire'[Len(wire) + i] = new[i]
  BY <1>4, <1>0, Joined
<1>6. TypeOK'
  BY <1>1, <1>2, <1>5 DEF H4Inv, TypeOK
<1>7. \A p \in 1..Len(sent) : p \in 1..Len(sent')
  BY <1>1, <1>2
<1>8. BytesKnown'
  <2>1. SUFFICES ASSUME ~lost PROVE /\ Known(sent', wire') /\ Known(sent', dma)
                                    /\ Known(sent', cur) /\ Known(sent', bk)
                                    /\ \A k \in 1..Len(uart) : Known(sent', uart[k])
    BY <1>1 DEF BytesKnown
  <2>2. /\ Known(sent, wire) /\ Known(sent, dma) /\ Known(sent, cur) /\ Known(sent, bk)
        /\ \A k \in 1..Len(uart) : Known(sent, uart[k])
    BY <2>1 DEF H4Inv, BytesKnown
  <2>3. Known(sent', wire')
    <3>1. SUFFICES ASSUME NEW i \in 1..Len(wire') PROVE wire'[i][1] \in 1..Len(sent')
      BY DEF Known
    <3>2. CASE i \in 1..Len(wire)
      BY <1>5, <1>7, <2>2, <3>2 DEF Known
    <3>3. CASE i \notin 1..Len(wire)
      <4>1. i - Len(wire) \in 1..Len(new) /\ Len(wire) + (i - Len(wire)) = i
        BY <1>3, <1>4, <1>5, <3>3
      <4>2. wire'[i] = <<Len(sent) + 1, i - Len(wire)>>
        BY <1>4, <1>5, <4>1
      <4>3. wire'[i][1] = Len(sent) + 1 /\ Len(sent) + 1 \in 1..Len(sent')
        BY <1>2, <1>0, <4>2
      <4>4. QED
        BY <4>3
    <3>4. QED
      BY <3>2, <3>3
  <2>4. QED
    BY <1>7, <2>2, <2>3 DEF Known
<1>9. InHand' /\ BackupTimed'
  BY <1>1 DEF H4Inv, InHand, BackupTimed
<1>10. QED
  BY <1>6, <1>8, <1>9 DEF H4Inv

LEMMA H4Receive ==
  ASSUME H4Inv, NEW n \in 1..Len(wire), UartReceive(n)
  PROVE  H4Inv'
<1>1. /\ wire \in Seq(Byte) /\ Len(wire) \in Nat /\ lost \in BOOLEAN
      /\ dma' = SubSeq(wire, 1, n) /\ wire' = SubSeq(wire, n + 1, Len(wire))
      /\ lost' = (lost \/ Len(uart) >= UartNum)
      /\ UNCHANGED <<sent, uart, pc, cur, bk, timer, fifo, got>>
  BY LenProperties DEF H4Inv, TypeOK, UartReceive
<1>2. n \in Nat /\ n <= Len(wire)
  BY <1>1
<1>3. dma' \in Seq(Byte) /\ wire' \in Seq(Byte) /\ lost' \in BOOLEAN
  BY <1>1, <1>2, Cut
<1>4. TypeOK'
  BY <1>1, <1>3 DEF H4Inv, TypeOK
<1>5. Known(sent, wire) => Known(sent, dma') /\ Known(sent, wire')
  BY <1>1, <1>2, KnownCut
<1>6. BytesKnown'
  BY <1>1, <1>5 DEF H4Inv, BytesKnown
<1>7. InHand' /\ BackupTimed'
  BY <1>1 DEF H4Inv, InHand, BackupTimed
<1>8. QED
  BY <1>4, <1>6, <1>7 DEF H4Inv

LEMMA H4Irq ==
  ASSUME H4Inv, UartRxIRQHandler
  PROVE  H4Inv'
<1>1. /\ uart \in Seq(Seq(Byte)) /\ Len(uart) \in Nat /\ Len(uart) <= UartNum
      /\ dma \in Seq(Byte) /\ dma' = <<>> /\ UartNum \in Nat \ {0}
      /\ uart' = IF UartFull THEN [uart EXCEPT ![1] = dma] ELSE Append(uart, dma)
      /\ UNCHANGED <<sent, wire, lost, pc, cur, bk, timer, fifo, got>>
  BY LenProperties, H4Assumption DEF H4Inv, TypeOK, UartRxIRQHandler
<1>2. /\ uart' \in Seq(Seq(Byte)) /\ Len(uart') <= UartNum /\ uart' # <<>>
      /\ \A k \in 1..Len(uart') : uart'[k] = dma \/ (k \in 1..Len(uart) /\ uart'[k] = uart[k])
  <2>1. CASE UartFull
    <3>1. 1 \in 1..Len(uart)
      BY <1>1, <2>1 DEF UartFull
    <3>2. /\ uart' \in Seq(Seq(Byte)) /\ Len(uart') = Len(uart)
          /\ \A k \in 1..Len(uart) : uart'[k] = IF k = 1 THEN dma ELSE uart[k]
      BY <1>1, <2>1, <3>1, ExceptSeq
    <3>3. uart' # <<>>
      BY <3>1, <3>2, EmptySeq
    <3>4. QED
      BY <1>1, <3>2, <3>3
  <2>2. CASE ~UartFull
    <3>1. /\ uart' \in Seq(Seq(Byte)) /\ Len(uart') = Len(uart) + 1
          /\ \A k \in 1..Len(uart) : uart'[k] = uart[k]
          /\ uart'[Len(uart) + 1] = dma
      BY <1>1, <2>2, AppendProperties
    <3>2. Len(uart') <= UartNum /\ Len(uart') # 0
      BY <1>1, <2>2, <3>1 DEF UartFull
    <3>3. uart' # <<>>
      BY <3>2, EmptySeq
    <3>4. \A k \in 1..Len(uart') : k = Len(uart) + 1 \/ k \in 1..Len(uart)
      BY <1>1, <3>1
    <3>5. QED
      BY <3>1, <3>2, <3>3, <3>4
  <2>3. QED
    BY <2>1, <2>2
<1>3. BytesKnown'
  BY <1>1, <1>2, KnownEmpty DEF H4Inv, BytesKnown
<1>4. InHand' /\ BackupTimed'
  BY <1>1, <1>2 DEF H4Inv, InHand, BackupTimed
<1>5. <<>> \in Seq(Byte)
  BY EmptySeq
<1>6. TypeOK'
  BY <1>1, <1>2, <1>5 DEF H4Inv, TypeOK
<1>7. QED
  BY <1>3, <1>4, <1>6 DEF H4Inv

LEMMA H4RxHandler ==
  ASSUME H4Inv, NEW expired \in BOOLEAN, RxHandler(expired)
  PROVE  H4Inv'
<1>1. /\ uart \in Seq(Seq(Byte)) /\ cur = <<>> /\ UNCHANGED <<sent, wire, lost, dma, uart, fifo, got>>
      /\ IF uart = <<>> THEN pc' = "hci" /\ cur' = cur ELSE pc' = "loop" /\ cur' = Head(uart)
      /\ \/ UNCHANGED <<timer, bk>>
         \/ timer' = FALSE /\ bk' = <<>>
  BY DEF H4Inv, TypeOK, InHand, RxHandler, FlushHandler
<1>2. <<>> \in Seq(Byte) /\ Len(<<>>) = 0 /\ Wrap \in Nat \ {0}
  BY EmptySeq, H4Assumption
<1>3. /\ bk' \in Seq(Byte) /\ Len(bk') < Wrap /\ timer' \in BOOLEAN
      /\ (~lost => Known(sent, bk')) /\ BackupTimed'
  <2>1. CASE UNCHANGED <<timer, bk>>
    BY <2>1 DEF H4Inv, TypeOK, BytesKnown, BackupTimed
  <2>2. CASE timer' = FALSE /\ bk' = <<>>
    <3>1. timer' \in BOOLEAN /\ BackupTimed'
      BY <2>2 DEF BackupTimed
    <3>2. Len(bk') = 0 /\ 0 < Wrap /\ bk' \in Seq(Byte) /\ Known(sent, bk')
      BY <1>2, <2>2, KnownEmpty
    <3>3. QED
      BY <3>1, <3>2
  <2>3. QED
    BY <1>1, <2>1, <2>2
<1>4. cur' \in Seq(Byte) /\ (~lost => Known(sent, cur')) /\ InHand'
      /\ pc' \in {"rx", "loop", "switch", "hci", "wild"}
  <2>1. CASE uart = <<>>
    BY <1>1, <1>2, <2>1, KnownEmpty DEF InHand
  <2>2. CASE uart # <<>>
    <3>1. Head(uart) \in Seq(Byte) /\ Head(uart) = uart[1] /\ 1 \in 1..Len(uart)
      <4>1. Len(uart) \in Nat \ {0}
        BY <1>1, <2>2, EmptySeq
      <4>2. QED
        BY <1>1, <2>2, <4>1, HeadTailProperties
    <3>2. ~lost => Known(sent, uart[1])
      BY <3>1 DEF H4Inv, BytesKnown
    <3>3. QED
      BY <1>1, <2>2, <3>1, <3>2 DEF InHand
  <2>3. QED
    BY <2>1, <2>2
<1>5. BytesKnown'
  BY <1>1, <1>3, <1>4 DEF H4Inv, BytesKnown
<1>6. TypeOK'
  BY <1>1, <1>3, <1>4 DEF H4Inv, TypeOK
<1>7. QED
  BY <1>3, <1>4, <1>5, <1>6 DEF H4Inv

LEMMA H4RxDone ==
  ASSUME H4Inv, RxDone
  PROVE  H4Inv'
<1>1. /\ uart \in Seq(Seq(Byte)) /\ uart # <<>> /\ cur = <<>> /\ Len(uart) <= UartNum
      /\ uart' = Tail(uart) /\ pc' = "hci"
      /\ UNCHANGED <<sent, wire, lost, dma, cur, bk, timer, fifo, got>>
  BY DEF H4Inv, TypeOK, InHand, RxDone
<1>2. /\ uart' \in Seq(Seq(Byte)) /\ Len(uart') = Len(uart) - 1 /\ Len(uart) \in Nat \ {0}
      /\ \A k \in 1..Len(uart') : uart'[k] = uart[k + 1]
  BY <1>1, HeadTailProperties, EmptySeq
<1>3. Len(uart') <= UartNum /\ \A k \in 1..Len(uart') : k + 1 \in 1..Len(uart)
  BY <1>1, <1>2, H4Assumption
<1>4. BytesKnown'
  BY <1>1, <1>2, <1>3 DEF H4Inv, BytesKnown
<1>5. InHand' /\ BackupTimed'
  BY <1>1 DEF H4Inv, InHand, BackupTimed
<1>6. TypeOK'
  BY <1>1, <1>2, <1>3 DEF H4Inv, TypeOK
<1>7. QED
  BY <1>4, <1>5, <1>6 DEF H4Inv

\* A round of the loop over the chunk, by what it makes of its variables.
LEMMA H4Round ==
  ASSUME H4Inv, UNCHANGED <<sent, wire, lost, dma, uart, got>>,
         cur' \in Seq(Byte), ~lost => Known(sent, cur'),
         bk' \in Seq(Byte), Len(bk') < Wrap, ~lost => Known(sent, bk'),
         timer' \in BOOLEAN, bk' # <<>> => timer', fifo' \in Seq(Seq(Byte)),
         \/ pc' = "loop" /\ uart # <<>>
         \/ pc' = "switch" /\ uart # <<>>
         \/ pc' = "wild"
         \/ pc' = "hci" /\ cur' = <<>>
  PROVE  H4Inv'
<1>1. BytesKnown' /\ InHand' /\ BackupTimed'
  BY DEF H4Inv, BytesKnown, InHand, BackupTimed
<1>2. TypeOK'
  BY DEF H4Inv, TypeOK
<1>3. QED
  BY <1>1, <1>2 DEF H4Inv

LEMMA H4RxBackup ==
  ASSUME H4Inv, RxBackup
  PROVE  H4Inv'
<1>1. /\ cur \in Seq(Byte) /\ Len(cur) \in Nat /\ (~lost => Known(sent, cur)) /\ uart # <<>>
      /\ UNCHANGED <<sent, wire, lost, dma, uart, got>>
      /\ pc' = IF cur' = <<>> THEN "loop" ELSE "switch"
  BY LenProperties DEF H4Inv, TypeOK, BytesKnown, InHand, RxBackup
<1>2. PICK r \in BackUpHandler(cur) :
        cur' = Rest(r.used) /\ bk' = r.bk /\ timer' = r.timer /\ fifo' = r.fifo
  BY DEF RxBackup
<1>3. Sound(r, Len(cur))
  BY <1>1, BackUpSound
<1>4. cur' \in Seq(Byte) /\ (~lost => Known(sent, cur'))
  <2> DEFINE n == r.used % Wrap
  <2>1. n \in Nat /\ n <= Len(cur)
    <3>1. r.used \in Nat /\ r.used <= Len(cur) /\ Wrap \in Nat \ {0}
      BY <1>3, H4Assumption DEF Sound
    <3>2. n \in Nat /\ n <= r.used
      BY <3>1, Mod
    <3>3. QED
      BY <1>1, <3>1, <3>2
  <2>2. cur' = SubSeq(cur, n + 1, Len(cur))
    BY <1>2 DEF Rest
  <2> HIDE DEF n
  <2>3. QED
    BY <1>1, <2>1, <2>2, Cut, KnownCut
<1>5. /\ bk' \in Seq(Byte) /\ Len(bk') < Wrap /\ (~lost => Known(sent, bk'))
      /\ timer' \in BOOLEAN /\ (bk' # <<>> => timer') /\ fifo' \in Seq(Seq(Byte))
  BY <1>2, <1>3 DEF Sound
<1>6. QED
  BY <1>1, <1>4, <1>5, H4Round

LEMMA H4RxSwitch ==
  ASSUME H4Inv, cur # <<>>, NEW type \in Types(cur[1]), RxSwitch(type)
  PROVE  H4Inv'
<1>1. /\ cur \in Seq(Byte) /\ Len(cur) \in Nat \ {0} /\ (~lost => Known(sent, cur))
      /\ uart # <<>> /\ UNCHANGED <<sent, wire, lost, dma, got>>
      /\ sent \in Seq(Packet)
  BY EmptySeq DEF H4Inv, TypeOK, BytesKnown, InHand, RxSwitch
<1>2. /\ bk \in Seq(Byte) /\ Len(bk) < Wrap /\ (~lost => Known(sent, bk))
      /\ timer \in BOOLEAN /\ (bk # <<>> => timer) /\ fifo \in Seq(Seq(Byte))
  BY DEF H4Inv, TypeOK, BytesKnown, BackupTimed
<1>3. type \in Kind \cup {"OTHER"}
  <2>1. ~lost => cur[1][1] \in 1..Len(sent)
    BY <1>1 DEF Known
  <2>2. QED
    BY <1>1, <2>1, TypesTyped
<1>4. <<>> \in Seq(Byte) /\ Known(sent, <<>>)
  BY EmptySeq, KnownEmpty
<1>5. ASSUME RxKeep PROVE H4Inv'
  <2>1. PICK r \in BackUpHandler(cur) : bk' = r.bk /\ timer' = r.timer /\ fifo' = r.fifo
    BY <1>5 DEF RxKeep
  <2>2. cur' = <<>> /\ pc' = "loop" /\ UNCHANGED uart
    BY <1>5 DEF RxKeep
  <2>3. Sound(r, Len(cur))
    BY <1>1, BackUpSound
  <2>4. /\ bk' \in Seq(Byte) /\ Len(bk') < Wrap /\ (~lost => Known(sent, bk'))
        /\ timer' \in BOOLEAN /\ (bk' # <<>> => timer') /\ fifo' \in Seq(Seq(Byte))
    BY <2>1, <2>3 DEF Sound
  <2>5. QED
    BY <1>1, <1>4, <2>2, <2>4, H4Round
<1>6. CASE type = "OTHER"
  <2>1. cur' = <<>> /\ pc' = "loop" /\ UNCHANGED <<uart, bk, timer, fifo>>
    BY <1>6 DEF RxSwitch
  <2>2. QED
    BY <1>1, <1>2, <1>4, <2>1, H4Round
<1>7. CASE type = "SKIP"
  <2>1. RxSkip
    BY <1>7 DEF RxSwitch
  <2>2. UNCHANGED <<uart, bk, timer, fifo>>
    BY <2>1 DEF RxSkip
  <2>3. CASE cur' = <<>> /\ pc' = "loop"
    BY <1>1, <1>2, <1>4, <2>2, <2>3, H4Round
  <2>4. CASE cur' = cur /\ pc' = "wild"
    BY <1>1, <1>2, <2>2, <2>4, H4Round
  <2>5. CASE ~(cur' = <<>> /\ pc' = "loop") /\ ~(cur' = cur /\ pc' = "wild")
    <3>1. ~(Len(cur) < HeadLen["SKIP"])
      BY <2>1, <2>5 DEF RxSkip
    <3>2. PICK size \in Sizes(cur, "SKIP") :
            size <= Len(cur) /\ cur' = SubSeq(cur, 1, Len(cur) - size) /\ pc' = "loop"
      BY <2>1, <2>5, <3>1 DEF RxSkip
    <3>3. "SKIP" \in Kind /\ HeadLen["SKIP"] <= Len(cur)
      <4>1. "SKIP" \in Kind
        BY DEF Kind
      <4>2. HeadLen["SKIP"] \in Nat
        BY <4>1, H4Assumption
      <4>3. QED
        BY <1>1, <3>1, <4>1, <4>2
    <3>4. size \in Nat
      BY <1>1, <3>3, SizesTyped
    <3> DEFINE n == Len(cur) - size
    <3>5. n \in Nat /\ n <= Len(cur)
      BY <1>1, <3>2, <3>4
    <3>6. cur' = SubSeq(cur, 1, n)
      BY <3>2
    <3> HIDE DEF n
    <3>7. cur' \in Seq(Byte) /\ (~lost => Known(sent, cur'))
      BY <1>1, <3>5, <3>6, Cut, KnownCut
    <3>8. QED
      BY <1>1, <1>2, <2>2, <3>2, <3>7, H4Round
  <2>6. QED
    BY <2>3, <2>4, <2>5
<1>8. CASE type \notin {"OTHER", "SKIP"}
  <2>1. IF Len(cur) < HeadLen[type] THEN RxKeep
        ELSE \E size \in Sizes(cur, type) : IF size <= Len(cur) THEN RxWhole(size) ELSE RxKeep
    BY <1>8 DEF RxSwitch
  <2>2. CASE RxKeep
    BY <1>5, <2>2
  <2>3. CASE ~RxKeep
    <3>1. ~(Len(cur) < HeadLen[type])
      BY <2>1, <2>3
    <3>2. PICK size \in Sizes(cur, type) : size <= Len(cur) /\ RxWhole(size)
      BY <2>1, <2>3, <3>1
    <3>3. type \in Kind /\ HeadLen[type] <= Len(cur)
      <4>1. type \in Kind
        BY <1>3, <1>8
      <4>2. HeadLen[type] \in Nat
        BY <4>1, H4Assumption
      <4>3. QED
        BY <1>1, <3>1, <4>1, <4>2
    <3>4. size \in Nat
      BY <1>1, <3>3, SizesTyped
    <3>5. /\ SubSeq(cur, 1, size) \in Seq(Byte) /\ SubSeq(cur, size + 1, Len(cur)) \in Seq(Byte)
          /\ ~lost => Known(sent, SubSeq(cur, size + 1, Len(cur)))
      BY <1>1, <3>2, <3>4, Cut, KnownCut
    <3>6. UNCHANGED <<uart, bk, timer>>
      BY <3>2 DEF RxWhole
    <3>7. CASE Len(fifo) >= RxNum
      <4>1. pc' = "hci" /\ cur' = <<>> /\ fifo' = fifo
        BY <3>2, <3>7 DEF RxWhole
      <4>2. QED
        BY <1>1, <1>2, <1>4, <3>6, <4>1, H4Round
    <3>8. CASE ~(Len(fifo) >= RxNum)
      <4>1. /\ fifo' = Put(fifo, SubSeq(cur, 1, size)) /\ pc' = "loop"
            /\ cur' = SubSeq(cur, size + 1, Len(cur))
        BY <3>2, <3>8 DEF RxWhole
      <4>2. fifo' \in Seq(Seq(Byte))
        BY <1>2, <3>5, <4>1, PutTyped
      <4>3. QED
        BY <1>1, <1>2, <3>5, <3>6, <4>1, <4>2, H4Round
    <3>9. QED
      BY <3>7, <3>8
  <2>4. QED
    BY <2>2, <2>3
<1>9. QED
  BY <1>6, <1>7, <1>8

LEMMA H4Hci ==
  ASSUME H4Inv, HciRxHandler
  PROVE  H4Inv'
<1>1. /\ fifo \in Seq(Seq(Byte)) /\ got \in Seq(Seq(Byte)) /\ cur = <<>> /\ pc' = "rx"
      /\ IF fifo = <<>> THEN UNCHANGED <<fifo, got>>
         ELSE fifo' = Tail(fifo) /\ got' = IF lost THEN got ELSE Append(got, Head(fifo))
      /\ UNCHANGED <<sent, wire, lost, dma, uart, cur, bk, timer>>
  BY DEF H4Inv, TypeOK, InHand, HciRxHandler
<1>2. fifo' \in Seq(Seq(Byte)) /\ got' \in Seq(Seq(Byte))
  <2>1. CASE fifo = <<>>
    BY <1>1, <2>1
  <2>2. CASE fifo # <<>>
    <3>1. Head(fifo) \in Seq(Byte) /\ Tail(fifo) \in Seq(Seq(Byte))
      BY <1>1, <2>2, HeadTailProperties
    <3>2. Append(got, Head(fifo)) \in Seq(Seq(Byte))
      BY <1>1, <3>1, AppendProperties
    <3>3. QED
      BY <1>1, <2>2, <3>1, <3>2
  <2>3. QED
    BY <2>1, <2>2
<1>3. BytesKnown' /\ InHand' /\ BackupTimed'
  BY <1>1 DEF H4Inv, BytesKnown, InHand, BackupTimed
<1>4. TypeOK'
  BY <1>1, <1>2 DEF H4Inv, TypeOK
<1>5. QED
  BY <1>3, <1>4 DEF H4Inv

\* A host that restarts finds every buffer empty, the backup buffer too.
LEMMA RestartEmpty ==
  ASSUME H4Inv, HostRestart
  PROVE  wire = <<>> /\ dma = <<>> /\ uart = <<>> /\ cur = <<>> /\ bk = <<>> /\ fifo = <<>>
BY DEF H4Inv, InHand, BackupTimed, HostRestart, Quiet

LEMMA H4Restart ==
  ASSUME H4Inv, HostRestart
  PROVE  H4Inv'
<1>1. /\ lost' = FALSE /\ sent' = <<>> /\ got' = <<>>
      /\ UNCHANGED <<wire, dma, uart, pc, cur, bk, timer, fifo>>
  BY DEF HostRestart
<1>2. /\ <<>> \in Seq(Packet) /\ <<>> \in Seq(Seq(Byte)) /\ Len(<<>>) = 0 /\ MaxPkt \in Nat
  BY EmptySeq, H4Assumption
<1>3. BytesKnown'
  BY <1>1, <1>2, RestartEmpty, KnownEmpty DEF BytesKnown
<1>4. InHand' /\ BackupTimed'
  BY <1>1 DEF H4Inv, InHand, BackupTimed
<1>5. TypeOK'
  <2>1. Len(sent') <= MaxPkt /\ sent' \in Seq(Packet) /\ got' \in Seq(Seq(Byte))
    BY <1>1, <1>2
  <2>2. lost' \in BOOLEAN
    BY <1>1
  <2>3. QED
    BY <1>1, <2>1, <2>2 DEF H4Inv, TypeOK
<1>6. QED
  BY <1>3, <1>4, <1>5 DEF H4Inv

LEMMA H4Init == Init => H4Inv
<1>1. SUFFICES ASSUME Init PROVE H4Inv
  OBVIOUS
<1>2. /\ <<>> \in Seq(Packet) /\ <<>> \in Seq(Seq(Byte)) /\ <<>> \in Seq(Byte)
      /\ Len(<<>>) = 0 /\ MaxPkt \in Nat /\ Wrap \in Nat \ {0} /\ UartNum \in Nat
  BY EmptySeq, H4Assumption
<1>3. 0 <= MaxPkt /\ 0 < Wrap /\ 0 <= UartNum
  BY <1>2
<1>4. TypeOK
  BY <1>1, <1>2, <1>3 DEF Init, TypeOK
<1>5. BytesKnown /\ InHand /\ BackupTimed
  BY <1>1, <1>2, KnownEmpty DEF Init, BytesKnown, InHand, BackupTimed
<1>6. QED
  BY <1>4, <1>5 DEF H4Inv

\* The round of the loop that looks at the type of a packet has a byte to look at.
LEMMA SwitchByte ==
  ASSUME H4Inv, NEW type \in UNION {Types(cur[1]) : i \in 1..Len(cur)}
  PROVE  cur # <<>> /\ type \in Types(cur[1])
<1>1. PICK i \in 1..Len(cur) : type \in Types(cur[1])
  OBVIOUS
<1>2. cur # <<>>
  BY <1>1, EmptySeq DEF H4Inv, TypeOK
<1>3. QED
  BY <1>1, <1>2

LEMMA H4Step ==
  ASSUME H4Inv, [Next]_vars
  PROVE  H4Inv'
<1>1. ASSUME NEW pkt \in Packet, HostSend(pkt) PROVE H4Inv'
  BY <1>1, H4Send
<1>2. ASSUME NEW n \in 1..Len(wire), UartReceive(n) PROVE H4Inv'
  BY <1>2, H4Receive
<1>3. CASE UartRxIRQHandler
  BY <1>3, H4Irq
<1>4. ASSUME NEW expired \in BOOLEAN, RxHandler(expired) PROVE H4Inv'
  BY <1>4, H4RxHandler
<1>5. CASE RxDone
  BY <1>5, H4RxDone
<1>6. CASE RxBackup
  BY <1>6, H4RxBackup
<1>7. ASSUME NEW type \in UNION {Types(cur[1]) : i \in 1..Len(cur)}, RxSwitch(type)
      PROVE  H4Inv'
  BY <1>7, SwitchByte, H4RxSwitch
<1>8. CASE HciRxHandler
  BY <1>8, H4Hci
<1>9. CASE HostRestart
  BY <1>9, H4Restart
<1>10. CASE UNCHANGED vars
  <2>1. TypeOK'
    BY <1>10 DEF H4Inv, TypeOK, vars
  <2>2. BytesKnown' /\ InHand' /\ BackupTimed'
    BY <1>10 DEF H4Inv, BytesKnown, InHand, BackupTimed, vars
  <2>3. QED
    BY <2>1, <2>2 DEF H4Inv
<1>11. QED
  BY <1>1, <1>2, <1>3, <1>4, <1>5, <1>6, <1>7, <1>8, <1>9, <1>10 DEF Next, Poll

LEMMA H4Inductive == Spec => []H4Inv
<1>1. H4Inv /\ [Next]_vars => H4Inv'
  BY H4Step
<1>2. QED
  BY <1>1, H4Init, PTL DEF Spec

-----------------------------------------------------------------------------
(* The stream: the host and the UART.                                        *)

\* Where a sequence has a first byte, it begins there.
LEMMA Facts ==
  ASSUME H4Inv
  PROVE  /\ sent \in Seq(Packet) /\ Len(sent) \in Nat
         /\ wire \in Seq(Byte) /\ dma \in Seq(Byte) /\ cur \in Seq(Byte) /\ bk \in Seq(Byte)
         /\ Len(wire) \in Nat /\ Len(dma) \in Nat /\ Len(cur) \in Nat /\ Len(bk) \in Nat
         /\ wire # <<>> => Len(wire) # 0
         /\ dma # <<>> => Len(dma) # 0
         /\ cur # <<>> => Len(cur) # 0
         /\ bk # <<>> => Len(bk) # 0
         /\ uart \in Seq(Seq(Byte)) /\ Len(uart) \in Nat /\ (uart # <<>> => Len(uart) # 0)
         /\ \A k \in 1..Len(uart) : uart[k] \in Seq(Byte)
         /\ fifo \in Seq(Seq(Byte)) /\ got \in Seq(Seq(Byte))
         /\ Len(fifo) \in Nat /\ Len(got) \in Nat /\ Arrived \in Nat
<1>1. /\ sent \in Seq(Packet) /\ uart \in Seq(Seq(Byte))
      /\ wire \in Seq(Byte) /\ dma \in Seq(Byte) /\ cur \in Seq(Byte) /\ bk \in Seq(Byte)
      /\ fifo \in Seq(Seq(Byte)) /\ got \in Seq(Seq(Byte))
  BY DEF H4Inv, TypeOK
<1>2. /\ Len(wire) \in Nat /\ Len(dma) \in Nat /\ Len(cur) \in Nat /\ Len(bk) \in Nat
      /\ Len(sent) \in Nat /\ Len(uart) \in Nat /\ Len(fifo) \in Nat /\ Len(got) \in Nat
  BY <1>1, LenProperties
<1>3. \A q \in Seq(Byte) : q # <<>> => Len(q) # 0
  BY EmptySeq
<1>4. uart # <<>> => Len(uart) # 0
  BY <1>1, EmptySeq
<1>5. \A k \in 1..Len(uart) : uart[k] \in Seq(Byte)
  BY <1>1, ElementOfSeq
<1>6. QED
  BY <1>1, <1>2, <1>3, <1>4, <1>5 DEF Arrived

LEMMA StreamSend ==
  ASSUME H4Inv, Stream, NEW pkt \in Packet, HostSend(pkt)
  PROVE  Stream'
<1>1. /\ Len(sent) < MaxPkt /\ Len(sent) < Len(got) + Credit
      /\ sent' = Append(sent, pkt) /\ UNCHANGED <<lost, dma, uart, pc, cur, bk, timer, fifo, got>>
  BY DEF HostSend
<1> DEFINE new == [i \in 1..pkt.size |-> <<Len(sent) + 1, i>>]
           end == <<Len(sent) + 2, 1>>
<1>2. wire' = wire \o new
  BY DEF HostSend
<1>3. /\ Len(sent') = Len(sent) + 1 /\ \A p \in 1..Len(sent) : sent'[p] = sent[p]
      /\ sent'[Len(sent) + 1] = pkt
  BY <1>1, Facts, AppendProperties
<1>4. pkt.size \in Nat /\ pkt.size # 0 /\ pkt.size \in 0..MaxSize /\ Len(sent) + 1 \in 1..MaxPkt
  <2>1. pkt.kind \in Kind /\ pkt.size \in HeadLen[pkt.kind]..MaxSize /\ MaxPkt \in Nat
        /\ MaxSize \in Nat
    BY H4Assumption
  <2>2. HeadLen[pkt.kind] \in Nat \ {0} /\ Len(sent) \in Nat
    BY <2>1, H4Assumption, Facts
  <2>3. QED
    BY <1>1, <2>1, <2>2
<1>5. /\ new \in Seq(Byte) /\ Len(new) = pkt.size
      /\ \A i \in 1..pkt.size : new[i] = <<Len(sent) + 1, i>>
  BY <1>4, NewBytes
<1> HIDE DEF new
<1>6. new # <<>> /\ 1 \in 1..pkt.size /\ pkt.size \in 1..pkt.size /\ Len(sent) \in Nat
  BY <1>4, <1>5, EmptySeq, Facts
<1>7. Run(sent', new, AtEnd, end)
  <2>1. \A i \in 1..Len(new) : /\ new[i][1] = Len(sent) + 1 /\ new[i][2] = i
                               /\ sent'[new[i][1]].size = pkt.size
    BY <1>3, <1>5
  <2>2. \A i \in 1..Len(new) : new[i][1] \in 1..Len(sent')
                               /\ new[i][2] \in 1..sent'[new[i][1]].size
    BY <1>3, <1>5, <1>6, <2>1
  <2>3. \A i \in 1..Len(new) - 1 : new[i + 1] = After(sent', new[i])
    <3>1. TAKE i \in 1..Len(new) - 1
    <3>2. i \in 1..pkt.size /\ i + 1 \in 1..pkt.size /\ i < pkt.size
      BY <1>4, <1>5
    <3>3. new[i + 1] = <<Len(sent) + 1, i + 1>> /\ new[i] = <<Len(sent) + 1, i>>
      BY <1>5, <3>2
    <3>4. QED
      BY <1>3, <3>2, <3>3 DEF After
  <2>4. new[1] = AtEnd
    BY <1>5, <1>6 DEF AtEnd
  <2>5. After(sent', new[Len(new)]) = end
    <3>1. new[Len(new)] = <<Len(sent) + 1, pkt.size>>
      BY <1>5, <1>6
    <3>2. ~(pkt.size < pkt.size) /\ (Len(sent) + 1) + 1 = Len(sent) + 2
      BY <1>4, <1>6
    <3>3. QED
      BY <1>3, <3>1, <3>2 DEF After
  <2>6. QED
    BY <1>6, <2>2, <2>3, <2>4, <2>5 DEF Run
<1>8. \A q \in Seq(Byte) : \A c, d : Run(sent, q, c, d) => Run(sent', q, c, d)
  BY <1>1, Facts, RunGrows
<1>9. AtEnd' = end /\ AtWire' = AtWire
  <2>1. AtEnd' = end
    BY <1>3, <1>6 DEF AtEnd
  <2>2. /\ wire' # <<>> /\ wire'[1] = IF wire = <<>> THEN new[1] ELSE wire[1]
    <3>1. /\ wire' \in Seq(Byte) /\ Len(wire') = Len(wire) + Len(new) /\ Len(wire) \in Nat
          /\ \A i \in 1..Len(wire) : wire'[i] = wire[i]
      BY <1>2, <1>5, Facts, Joined
    <3>2. wire' # <<>>
      BY <1>4, <1>5, <3>1, EmptySeq
    <3>3. CASE wire = <<>>
      BY <1>2, <1>5, <3>2, <3>3, ConcatEmptySeq
    <3>4. CASE wire # <<>>
      <4>1. 1 \in 1..Len(wire)
        BY <3>1, <3>4, Facts
      <4>2. QED
        BY <3>1, <3>2, <3>4, <4>1
    <3>5. QED
      BY <3>3, <3>4
  <2>3. new[1] = AtEnd
    BY <1>5, <1>6 DEF AtEnd
  <2>4. QED
    BY <2>1, <2>2, <2>3 DEF AtWire
<1>10. AtDma' = AtDma /\ \A k : AtChunk(k)' = AtChunk(k)
  BY <1>1, <1>9 DEF AtDma, AtChunk
<1>11. Queued'
  <2>1. Run(sent', wire', AtWire', AtEnd')
    <3>1. Run(sent', wire, AtWire, AtEnd)
      BY <1>8, Facts DEF Stream, Queued
    <3>2. QED
      BY <1>2, <1>5, <1>7, <1>9, <3>1, Facts, RunJoin
  <2>2. Run(sent', dma', AtDma', AtWire')
    BY <1>1, <1>8, <1>9, <1>10, Facts DEF Stream, Queued
  <2>3. \A k \in 1..Len(uart') : uart'[k] # <<>> /\ Run(sent', uart'[k], AtChunk(k)', AtChunk(k + 1)')
    BY <1>1, <1>8, <1>10, Facts DEF Stream, Queued
  <2>4. QED
    BY <1>1, <2>1, <2>2, <2>3 DEF Stream, Queued
<1>12. Arrived' = Arrived /\ Place' = Place
  BY <1>1 DEF Arrived, Place
<1>13. Placed'
  <2>1. pc \in {"loop", "switch"} => Run(sent', cur, Place, AtChunk(2))
    BY <1>8, Facts DEF Stream, Placed
  <2>2. QED
    BY <1>1, <1>10, <1>12, <2>1 DEF Stream, Placed
<1>14. Begun'
  <2>1. Arrived < Len(sent) => Arrived + 1 \in 1..Len(sent) /\ Arrived < Len(sent')
    BY <1>3, <1>6, Facts
  <2>2. QED
    BY <1>1, <1>3, <1>12, <2>1 DEF Stream, Begun
<1>15. CameOut'
  <2>1. Arrived \in Nat /\ Len(got) \in Nat /\ Len(fifo) \in Nat /\ Credit \in Nat
        /\ Arrived = Len(got) + Len(fifo) /\ Arrived <= Len(sent)
    BY Facts, H4Assumption DEF Stream, CameOut, Arrived
  <2>2. \A p \in 1..Len(sent) : Content(sent', p) = Content(sent, p)
    BY <1>3 DEF Content
  <2>3. (\A p \in 1..Len(got) : p \in 1..Len(sent))
        /\ \A p \in 1..Len(fifo) : Len(got) + p \in 1..Len(sent)
    BY <1>6, <2>1
  <2>4. \A p \in 1..Len(got) : got[p] = Content(sent', p)
    BY <2>2, <2>3 DEF Stream, CameOut
  <2>5. \A p \in 1..Len(fifo) : fifo[p] = Content(sent', Len(got) + p)
    BY <2>2, <2>3 DEF Stream, CameOut
  <2>6. Arrived' <= Len(sent') /\ Len(sent') <= Len(got) + Credit
    BY <1>1, <1>3, <1>6, <1>12, <2>1
  <2>7. QED
    BY <1>1, <2>4, <2>5, <2>6 DEF CameOut
<1>16. QED
  BY <1>11, <1>13, <1>14, <1>15 DEF Stream


\* What a step that moves no packet keeps.
LEMMA StreamSame ==
  ASSUME Stream, UNCHANGED <<sent, bk, fifo, got>>
  PROVE  AtEnd' = AtEnd /\ Arrived' = Arrived /\ Place' = Place /\ Begun' /\ CameOut'
<1>1. Arrived' = Arrived /\ Place' = Place /\ AtEnd' = AtEnd
  BY DEF Arrived, Place, AtEnd
<1>2. Begun'
  BY <1>1 DEF Stream, Begun
<1>3. CameOut'
  BY <1>1 DEF Stream, CameOut
<1>4. QED
  BY <1>1, <1>2, <1>3

LEMMA StreamReceive ==
  ASSUME H4Inv, Stream, NEW n \in 1..Len(wire), UartReceive(n), ~lost'
  PROVE  Stream'
<1>1. /\ dma = <<>> /\ ~(Len(uart) >= UartNum)
      /\ dma' = SubSeq(wire, 1, n) /\ wire' = SubSeq(wire, n + 1, Len(wire))
      /\ UNCHANGED <<sent, uart, pc, cur, bk, timer, fifo, got>>
  BY DEF UartReceive
<1>2. /\ wire \in Seq(Byte) /\ Len(wire) \in Nat /\ Len(uart) \in Nat /\ UartNum \in Nat
      /\ n \in Nat /\ n <= Len(wire) /\ wire # <<>> /\ 1 \in 1..n
  <2>1. wire \in Seq(Byte) /\ Len(wire) \in Nat /\ Len(uart) \in Nat /\ UartNum \in Nat
    BY Facts, H4Assumption
  <2>2. n \in Nat /\ n <= Len(wire) /\ Len(wire) # 0 /\ 1 \in 1..n
    BY <2>1
  <2>3. QED
    BY <2>1, <2>2, EmptySeq
<1>3. /\ dma' \in Seq(Byte) /\ Len(dma') = n /\ \A i \in 1..n : dma'[i] = wire[i]
      /\ wire' \in Seq(Byte) /\ Len(wire') = Len(wire) - n
      /\ \A i \in 1..Len(wire) - n : wire'[i] = wire[n + i]
  BY <1>1, <1>2, Cut
<1> DEFINE e == IF n < Len(wire) THEN wire[n + 1] ELSE AtEnd
<1>4. Run(sent, dma', AtWire, e) /\ Run(sent, wire', e, AtEnd)
  <2>1. Run(sent, wire, AtWire, AtEnd)
    BY DEF Stream, Queued
  <2>2. QED
    BY <1>1, <1>2, <2>1, RunCut
<1>5. AtEnd' = AtEnd /\ Place' = Place /\ Begun' /\ CameOut'
  BY <1>1, StreamSame
<1>6. AtWire' = e
  <2>1. CASE n < Len(wire)
    <3>1. 1 \in 1..Len(wire) - n /\ Len(wire) - n # 0
      BY <1>2, <2>1
    <3>2. wire' # <<>> /\ wire'[1] = wire[n + 1]
      BY <1>3, <3>1, EmptySeq
    <3>3. QED
      BY <2>1, <3>2 DEF AtWire
  <2>2. CASE ~(n < Len(wire))
    <3>1. Len(wire) - n = 0
      BY <1>2, <2>2
    <3>2. wire' = <<>>
      BY <1>3, <3>1, EmptySeq
    <3>3. QED
      BY <1>5, <2>2, <3>2 DEF AtWire
  <2>3. QED
    BY <2>1, <2>2
<1> HIDE DEF e
<1>7. AtDma' = AtWire /\ AtDma = AtWire
  <2>1. dma' # <<>> /\ dma'[1] = wire[1]
    BY <1>2, <1>3, EmptySeq
  <2>2. QED
    BY <1>1, <1>2, <2>1 DEF AtDma, AtWire
<1>8. \A k : AtChunk(k)' = AtChunk(k)
  BY <1>1, <1>7 DEF AtChunk
<1>9. Queued'
  <2>1. Len(uart) < UartNum
    BY <1>1, <1>2
  <2>2. \A k \in 1..Len(uart') : uart'[k] # <<>> /\ Run(sent', uart'[k], AtChunk(k)', AtChunk(k + 1)')
    BY <1>1, <1>8 DEF Stream, Queued
  <2>3. Run(sent', wire', AtWire', AtEnd') /\ Run(sent', dma', AtDma', AtWire')
    BY <1>1, <1>4, <1>5, <1>6, <1>7
  <2>4. QED
    BY <1>1, <2>1, <2>2, <2>3 DEF Queued
<1>10. Placed'
  BY <1>1, <1>5, <1>8 DEF Stream, Placed
<1>11. QED
  BY <1>5, <1>9, <1>10 DEF Stream

LEMMA StreamIrq ==
  ASSUME H4Inv, Stream, UartRxIRQHandler
  PROVE  Stream'
<1>1. /\ dma # <<>> /\ dma' = <<>>
      /\ UNCHANGED <<sent, wire, lost, pc, cur, bk, timer, fifo, got>>
  BY DEF UartRxIRQHandler
<1>2. dma \in Seq(Byte) /\ uart \in Seq(Seq(Byte)) /\ Len(uart) \in Nat /\ UartNum \in Nat
  BY Facts, H4Assumption
<1>3. uart' = Append(uart, dma)
  <2>1. Len(uart) < UartNum
    BY <1>1 DEF Stream, Queued
  <2>2. ~(Len(uart) >= UartNum)
    BY <1>2, <2>1
  <2>3. QED
    BY <2>2 DEF UartRxIRQHandler, UartFull
<1>4. /\ Len(uart') = Len(uart) + 1 /\ \A k \in 1..Len(uart) : uart'[k] = uart[k]
      /\ uart'[Len(uart) + 1] = dma
  BY <1>2, <1>3, AppendProperties
<1>5. AtEnd' = AtEnd /\ Place' = Place /\ Begun' /\ CameOut'
  BY <1>1, StreamSame
<1>6. AtWire' = AtWire /\ AtDma' = AtWire /\ AtDma = dma[1]
  BY <1>1, <1>5 DEF AtWire, AtDma
<1>7. \A k \in 1..Len(uart) + 1 : AtChunk(k)' = AtChunk(k)
  <2>1. TAKE k \in 1..Len(uart) + 1
  <2>2. CASE k \in 1..Len(uart)
    <3>1. k <= Len(uart) /\ k <= Len(uart')
      BY <1>2, <1>4, <2>2
    <3>2. QED
      BY <1>4, <2>2, <3>1 DEF AtChunk
  <2>3. CASE k = Len(uart) + 1
    <3>1. ~(k <= Len(uart)) /\ k <= Len(uart')
      BY <1>2, <1>4, <2>3
    <3>2. QED
      BY <1>4, <1>6, <2>3, <3>1 DEF AtChunk
  <2>4. QED
    BY <1>2, <2>2, <2>3
<1>8. \A k : ~(k <= Len(uart) + 1) => AtChunk(k)' = AtWire
  BY <1>4, <1>6 DEF AtChunk
<1>9. Queued'
  <2>1. Run(sent', wire', AtWire', AtEnd') /\ Run(sent', dma', AtDma', AtWire')
    <3>1. Run(sent, wire, AtWire, AtEnd)
      BY DEF Stream, Queued
    <3>2. Run(sent, <<>>, AtWire, AtWire)
      BY DEF Run
    <3>3. QED
      BY <1>1, <1>5, <1>6, <3>1, <3>2
  <2>2. ASSUME NEW k \in 1..Len(uart')
        PROVE  uart'[k] # <<>> /\ Run(sent', uart'[k], AtChunk(k)', AtChunk(k + 1)')
    <3>1. CASE k \in 1..Len(uart)
      <4>1. k \in 1..Len(uart) + 1 /\ k + 1 \in 1..Len(uart) + 1
        BY <1>2, <3>1
      <4>2. uart[k] # <<>> /\ Run(sent, uart[k], AtChunk(k), AtChunk(k + 1))
        BY <3>1 DEF Stream, Queued
      <4>3. QED
        BY <1>1, <1>4, <1>7, <3>1, <4>1, <4>2
    <3>2. CASE k = Len(uart) + 1
      <4>1. Run(sent, dma, AtDma, AtWire)
        BY DEF Stream, Queued
      <4>2. k \in 1..Len(uart) + 1 /\ ~(k + 1 <= Len(uart) + 1) /\ ~(k <= Len(uart))
        BY <1>2, <3>2
      <4>3. AtChunk(k) = AtDma
        BY <4>2 DEF AtChunk
      <4>4. uart'[k] = dma /\ AtChunk(k)' = AtDma
        BY <1>4, <1>7, <3>2, <4>2, <4>3
      <4>5. AtChunk(k + 1)' = AtWire
        BY <1>8, <4>2
      <4>6. QED
        BY <1>1, <4>1, <4>4, <4>5
    <3>3. QED
      BY <1>2, <1>4, <2>2, <3>1, <3>2
  <2>3. QED
    BY <1>1, <2>1, <2>2 DEF Queued
<1>10. Placed'
  <2>1. 1 \in 1..Len(uart) + 1 /\ (pc \in {"loop", "switch"} => 2 \in 1..Len(uart) + 1)
    BY <1>2, Facts DEF H4Inv, InHand
  <2>2. AtChunk(1)' = AtChunk(1) /\ (pc \in {"loop", "switch"} => AtChunk(2)' = AtChunk(2))
    BY <1>7, <2>1
  <2>3. QED
    BY <1>1, <1>5, <2>2 DEF Stream, Placed
<1>11. QED
  BY <1>5, <1>9, <1>10 DEF Stream


-----------------------------------------------------------------------------
(* The stream: the main loop around the chunks.                              *)

\* What a step keeps that leaves the chunks alone.
LEMMA StreamChunks ==
  ASSUME Stream, UNCHANGED <<sent, wire, dma, uart>>
  PROVE  AtEnd' = AtEnd /\ (\A k : AtChunk(k)' = AtChunk(k)) /\ Queued'
<1>1. AtEnd' = AtEnd /\ AtWire' = AtWire /\ AtDma' = AtDma
  BY DEF AtEnd, AtWire, AtDma
<1>2. \A k : AtChunk(k)' = AtChunk(k)
  BY <1>1 DEF AtChunk
<1>3. \A k \in 1..Len(uart') : uart'[k] # <<>> /\ Run(sent', uart'[k], AtChunk(k)', AtChunk(k + 1)')
  BY <1>2 DEF Stream, Queued
<1>4. QED
  BY <1>1, <1>2, <1>3 DEF Stream, Queued

\* When all has been read the flush timer finds an empty backup buffer: it never
\* throws a byte away.
LEMMA QuietEmpty ==
  ASSUME H4Inv, Stream, Quiet
  PROVE  bk = <<>>
<1>1. wire = <<>> /\ dma = <<>> /\ uart = <<>> /\ pc \in {"rx", "hci"}
  BY DEF Quiet
<1>2. Len(uart) = 0 /\ ~(1 <= 0)
  BY <1>1, EmptySeq, Facts
<1>3. AtChunk(1) = AtEnd
  BY <1>1, <1>2 DEF AtChunk, AtDma, AtWire
<1>4. Place = AtEnd
  BY <1>1, <1>3 DEF Stream, Placed
<1>5. Len(bk) + 1 = 1 /\ Len(bk) \in Nat
  BY <1>4, Facts DEF Place, AtEnd
<1>6. Len(bk) = 0
  BY <1>5
<1>7. QED
  BY <1>6, Facts

LEMMA StreamRxHandler ==
  ASSUME H4Inv, Stream, NEW expired \in BOOLEAN, RxHandler(expired)
  PROVE  Stream'
<1>1. pc = "rx" /\ UNCHANGED <<sent, wire, lost, dma, uart, fifo, got>>
  BY DEF RxHandler
<1>2. bk' = bk
  <2>1. CASE expired
    <3>1. Quiet /\ bk' = <<>>
      BY <2>1 DEF RxHandler, FlushHandler
    <3>2. QED
      BY <3>1, QuietEmpty
  <2>2. CASE ~expired
    BY <2>2 DEF RxHandler, FlushHandler
  <2>3. QED
    BY <2>1, <2>2
<1>3. Place' = Place /\ Begun' /\ CameOut'
  BY <1>1, <1>2, StreamSame
<1>4. Queued' /\ \A k : AtChunk(k)' = AtChunk(k)
  BY <1>1, StreamChunks
<1>5. Place = AtChunk(1)
  BY <1>1 DEF Stream, Placed
<1>6. Placed'
  <2>1. CASE uart = <<>>
    <3>1. pc' = "hci"
      BY <2>1 DEF RxHandler
    <3>2. QED
      BY <1>3, <1>4, <1>5, <3>1 DEF Placed
  <2>2. CASE uart # <<>>
    <3>1. pc' = "loop" /\ cur' = Head(uart)
      BY <2>2 DEF RxHandler
    <3>2. Head(uart) = uart[1] /\ 1 \in 1..Len(uart) /\ 1 + 1 = 2
      BY <2>2, Facts, HeadTailProperties
    <3>3. Run(sent, cur', AtChunk(1), AtChunk(2))
      BY <3>1, <3>2 DEF Stream, Queued
    <3>4. QED
      BY <1>1, <1>3, <1>4, <1>5, <3>1, <3>3 DEF Placed
  <2>3. QED
    BY <2>1, <2>2
<1>7. QED
  BY <1>3, <1>4, <1>6 DEF Stream

LEMMA StreamRxDone ==
  ASSUME H4Inv, Stream, RxDone
  PROVE  Stream'
<1>1. /\ pc = "loop" /\ cur = <<>> /\ uart' = Tail(uart) /\ pc' = "hci"
      /\ UNCHANGED <<sent, wire, lost, dma, cur, bk, timer, fifo, got>>
  BY DEF RxDone
<1>2. /\ uart \in Seq(Seq(Byte)) /\ uart # <<>> /\ Len(uart) \in Nat /\ Len(uart) # 0
      /\ UartNum \in Nat
  BY <1>1, Facts, H4Assumption DEF H4Inv, InHand
<1>3. Len(uart') = Len(uart) - 1 /\ \A k \in 1..Len(uart) - 1 : uart'[k] = uart[k + 1]
  BY <1>1, <1>2, HeadTailProperties
<1>4. Place' = Place /\ AtEnd' = AtEnd /\ Begun' /\ CameOut'
  BY <1>1, StreamSame
<1>5. AtWire' = AtWire /\ AtDma' = AtDma
  BY <1>1, <1>4 DEF AtWire, AtDma
<1>6. \A k \in Nat \ {0} : AtChunk(k)' = AtChunk(k + 1)
  <2>1. TAKE k \in Nat \ {0}
  <2>2. k <= Len(uart) - 1 <=> k + 1 <= Len(uart)
    BY <1>2
  <2>3. k <= Len(uart) - 1 => k \in 1..Len(uart) - 1
    BY <1>2
  <2>4. QED
    BY <1>3, <1>5, <2>2, <2>3 DEF AtChunk
<1>7. Queued'
  <2>1. ASSUME NEW k \in 1..Len(uart')
        PROVE  uart'[k] # <<>> /\ Run(sent', uart'[k], AtChunk(k)', AtChunk(k + 1)')
    <3>1. /\ k \in Nat \ {0} /\ k + 1 \in Nat \ {0} /\ k + 1 \in 1..Len(uart)
          /\ k \in 1..Len(uart) - 1
      BY <1>2, <1>3
    <3>2. uart[k + 1] # <<>> /\ Run(sent, uart[k + 1], AtChunk(k + 1), AtChunk((k + 1) + 1))
      BY <3>1 DEF Stream, Queued
    <3>3. uart'[k] = uart[k + 1] /\ AtChunk(k)' = AtChunk(k + 1)
          /\ AtChunk(k + 1)' = AtChunk((k + 1) + 1)
      BY <1>3, <1>6, <3>1
    <3>4. QED
      BY <1>1, <3>2, <3>3
  <2>2. dma' # <<>> => Len(uart') < UartNum
    <3>1. dma' # <<>> => Len(uart) < UartNum
      BY <1>1 DEF Stream, Queued
    <3>2. QED
      BY <1>2, <1>3, <3>1
  <2>3. Run(sent', wire', AtWire', AtEnd') /\ Run(sent', dma', AtDma', AtWire')
    BY <1>1, <1>4, <1>5 DEF Stream, Queued
  <2>4. QED
    BY <2>1, <2>2, <2>3 DEF Queued
<1>8. Placed'
  <2>1. Run(sent, <<>>, Place, AtChunk(2))
    BY <1>1 DEF Stream, Placed
  <2>2. Place = AtChunk(2)
    BY <2>1 DEF Run
  <2>3. AtChunk(1)' = AtChunk(2)
    <3>1. 1 \in Nat \ {0} /\ 1 + 1 = 2
      OBVIOUS
    <3>2. QED
      BY <1>6, <3>1
  <2>4. QED
    BY <1>1, <1>4, <2>2, <2>3 DEF Placed
<1>9. QED
  BY <1>4, <1>7, <1>8 DEF Stream

LEMMA StreamHci ==
  ASSUME H4Inv, Stream, ~lost, HciRxHandler
  PROVE  Stream'
<1>1. pc = "hci" /\ pc' = "rx" /\ UNCHANGED <<sent, wire, lost, dma, uart, cur, bk, timer>>
  BY DEF HciRxHandler
<1>2. Queued' /\ \A k : AtChunk(k)' = AtChunk(k)
  BY <1>1, StreamChunks
<1>3. Place = AtChunk(1)
  BY <1>1 DEF Stream, Placed
<1>4. CASE fifo = <<>>
  <2>1. UNCHANGED <<fifo, got>>
    BY <1>4 DEF HciRxHandler
  <2>2. Place' = Place /\ Begun' /\ CameOut'
    BY <1>1, <2>1, StreamSame
  <2>3. Placed'
    BY <1>1, <1>2, <1>3, <2>2 DEF Placed
  <2>4. QED
    BY <1>2, <2>2, <2>3 DEF Stream
<1>5. CASE fifo # <<>>
  <2>1. fifo' = Tail(fifo) /\ got' = Append(got, Head(fifo))
    BY <1>5 DEF HciRxHandler
  <2>2. /\ fifo \in Seq(Seq(Byte)) /\ got \in Seq(Seq(Byte)) /\ Len(fifo) \in Nat /\ Len(got) \in Nat
        /\ Len(fifo) # 0 /\ Len(sent) \in Nat /\ Credit \in Nat
    BY <1>5, Facts, EmptySeq, H4Assumption
  <2>3. /\ Head(fifo) = fifo[1] /\ Head(fifo) \in Seq(Byte) /\ Len(fifo') = Len(fifo) - 1
        /\ \A p \in 1..Len(fifo) - 1 : fifo'[p] = fifo[p + 1]
    BY <1>5, <2>1, <2>2, HeadTailProperties
  <2>4. /\ Len(got') = Len(got) + 1 /\ got'[Len(got) + 1] = fifo[1]
        /\ \A p \in 1..Len(got) : got'[p] = got[p]
    BY <2>1, <2>2, <2>3, AppendProperties
  <2>5. Arrived' = Arrived
    BY <2>2, <2>3, <2>4 DEF Arrived
  <2>6. Place' = Place
    BY <1>1, <2>5 DEF Place
  <2>7. Begun'
    BY <1>1, <2>5 DEF Stream, Begun
  <2>8. Placed'
    BY <1>1, <1>2, <1>3, <2>6 DEF Placed
  <2>9. CameOut'
    <3>1. ASSUME NEW p \in 1..Len(got') PROVE got'[p] = Content(sent, p)
      <4>1. CASE p \in 1..Len(got)
        BY <2>4, <4>1 DEF Stream, CameOut
      <4>2. CASE p = Len(got) + 1
        <5>1. 1 \in 1..Len(fifo)
          BY <2>2
        <5>2. QED
          BY <2>4, <4>2, <5>1 DEF Stream, CameOut
      <4>3. p \in 1..Len(got) \/ p = Len(got) + 1
        <5>1. Len(got') = Len(got) + 1 /\ p \in 1..Len(got')
          BY <2>4
        <5>2. QED
          BY <2>2, <5>1
      <4>4. QED
        BY <4>1, <4>2, <4>3
    <3>2. ASSUME NEW p \in 1..Len(fifo') PROVE fifo'[p] = Content(sent, Len(got') + p)
      <4>1. p \in 1..Len(fifo) - 1 /\ p + 1 \in 1..Len(fifo) /\ Len(got) + (p + 1) = Len(got') + p
        BY <2>2, <2>3, <2>4, <3>2
      <4>2. fifo[p + 1] = Content(sent, Len(got) + (p + 1))
        BY <4>1 DEF Stream, CameOut
      <4>3. QED
        BY <2>3, <4>1, <4>2
    <3>3. Arrived' <= Len(sent) /\ Len(sent) <= Len(got') + Credit
      <4>1. Arrived <= Len(sent) /\ Len(sent) <= Len(got) + Credit
        BY DEF Stream, CameOut
      <4>2. QED
        BY <2>2, <2>4, <2>5, <4>1
    <3>4. QED
      BY <1>1, <3>1, <3>2, <3>3 DEF CameOut
  <2>10. QED
    BY <1>2, <2>7, <2>8, <2>9 DEF Stream
<1>6. QED
  BY <1>4, <1>5

\* With every buffer empty the stream is at its beginning.
AllEmpty ==
  /\ sent = <<>> /\ wire = <<>> /\ dma = <<>> /\ uart = <<>> /\ bk = <<>> /\ fifo = <<>> /\ got = <<>>
  /\ pc \in {"rx", "hci"}

LEMMA StreamEmpty == AllEmpty => Stream
<1> SUFFICES ASSUME AllEmpty PROVE Stream
  OBVIOUS
<1> USE DEF AllEmpty
<1>1. Len(<<>>) = 0 /\ ~(1 <= 0) /\ 1..0 = {} /\ 0 + 1 = 1 /\ 0 + 0 = 0 /\ 0 <= 0 + Credit
  BY H4Assumption
<1>2. AtEnd = <<1, 1>> /\ AtWire = <<1, 1>> /\ AtDma = <<1, 1>> /\ AtChunk(1) = <<1, 1>>
  BY <1>1 DEF AtEnd, AtWire, AtDma, AtChunk
<1>3. Arrived = 0 /\ Place = <<1, 1>>
  BY <1>1 DEF Arrived, Place
<1>4. Run(sent, <<>>, <<1, 1>>, <<1, 1>>)
  BY DEF Run
<1>5. Queued
  BY <1>1, <1>2, <1>4 DEF Queued
<1>6. Placed
  BY <1>2, <1>3 DEF Placed
<1>7. CameOut
  BY <1>1, <1>3 DEF CameOut
<1>8. QED
  BY <1>5, <1>6, <1>7 DEF Stream, Begun

LEMMA StreamRestart ==
  ASSUME H4Inv, HostRestart
  PROVE  Stream'
<1>1. /\ sent' = <<>> /\ got' = <<>> /\ UNCHANGED <<wire, dma, uart, pc, bk, fifo>>
      /\ pc \in {"rx", "hci"}
  BY DEF HostRestart, Quiet
<1>2. wire' = <<>> /\ dma' = <<>> /\ uart' = <<>> /\ bk' = <<>> /\ fifo' = <<>> /\ pc' \in {"rx", "hci"}
  BY <1>1, RestartEmpty
<1>3. AllEmpty'
  BY <1>1, <1>2 DEF AllEmpty
<1>4. (AllEmpty => Stream)'
  BY StreamEmpty, PTL
<1>5. QED
  BY <1>3, <1>4


-----------------------------------------------------------------------------
(* The stream: cutting a chunk into packets.                                 *)

\* The chunk in hand goes on with the next packet, where the backup buffer ends,
\* and the HCI Rx FIFO has room for it.
LEMMA NextPacket ==
  ASSUME H4Inv, Stream, Metered, cur # <<>>, pc \in {"loop", "switch"}
  PROVE  /\ Arrived + 1 \in 1..Len(sent) /\ Len(bk) < sent[Arrived + 1].size
         /\ Len(fifo) < RxNum
         /\ \A i \in 1..Len(cur) : Len(bk) + i <= sent[Arrived + 1].size =>
                                     cur[i] = <<Arrived + 1, Len(bk) + i>>
<1>1. /\ cur \in Seq(Byte) /\ Len(cur) \in Nat /\ Len(cur) # 0 /\ Len(bk) \in Nat
      /\ Len(fifo) \in Nat /\ Len(got) \in Nat /\ Len(sent) \in Nat /\ sent \in Seq(Packet)
      /\ Arrived \in Nat
  BY Facts
<1>2. Run(sent, cur, <<Arrived + 1, Len(bk) + 1>>, AtChunk(2))
  BY DEF Stream, Placed, Place
<1>3. cur[1] = <<Arrived + 1, Len(bk) + 1>>
  BY <1>2 DEF Run
<1>4. Arrived + 1 \in 1..Len(sent) /\ Len(bk) + 1 \in 1..sent[Arrived + 1].size
  <2>1. 1 \in 1..Len(cur)
    BY <1>1
  <2>2. cur[1][1] \in 1..Len(sent) /\ cur[1][2] \in 1..sent[cur[1][1]].size
    BY <1>2, <2>1 DEF Run
  <2>3. QED
    BY <1>3, <2>2
<1>5. sent[Arrived + 1].size \in Nat
  BY <1>1, <1>4, PacketTyped
<1>6. Len(bk) < sent[Arrived + 1].size
  BY <1>1, <1>4, <1>5
<1>7. Len(fifo) < RxNum
  <2>1. Arrived < Len(sent) /\ Arrived = Len(got) + Len(fifo)
    BY <1>1, <1>4 DEF Arrived
  <2>2. Len(sent) <= Len(got) + Credit /\ Credit <= RxNum /\ Credit \in Nat /\ RxNum \in Nat
    BY H4Assumption DEF Stream, CameOut, Metered
  <2>3. QED
    BY <1>1, <2>1, <2>2
<1>8. \A i \in 1..Len(cur) : (Len(bk) + 1) + i - 1 <= sent[Arrived + 1].size =>
                               cur[i] = <<Arrived + 1, (Len(bk) + 1) + i - 1>>
  <2>1. Arrived + 1 \in Nat /\ Len(bk) + 1 \in Nat \ {0}
    BY <1>1
  <2>2. QED
    BY <1>1, <1>2, <1>5, <2>1, RunPacket
<1>9. \A i \in 1..Len(cur) : (Len(bk) + 1) + i - 1 = Len(bk) + i
  BY <1>1
<1>10. QED
  BY <1>4, <1>6, <1>7, <1>8, <1>9

\* The bytes of the next packet in the backup buffer and the first n in hand.
Together(n) == bk \o SubSeq(cur, 1, n)

LEMMA TogetherBytes ==
  ASSUME H4Inv, Stream, Metered, cur # <<>>, pc \in {"loop", "switch"},
         NEW n \in 1..Len(cur), Len(bk) + n <= sent[Arrived + 1].size
  PROVE  /\ Together(n) \in Seq(Byte) /\ Len(Together(n)) = Len(bk) + n
         /\ \A i \in 1..Len(bk) + n : Together(n)[i] = <<Arrived + 1, i>>
<1>1. /\ cur \in Seq(Byte) /\ bk \in Seq(Byte) /\ Len(cur) \in Nat /\ Len(bk) \in Nat
      /\ Arrived + 1 \in 1..Len(sent) /\ sent[Arrived + 1].size \in Nat
  <2>1. Arrived + 1 \in 1..Len(sent)
    BY NextPacket
  <2>2. QED
    BY <2>1, Facts, PacketTyped
<1>2. n \in Nat /\ n <= Len(cur)
  BY <1>1
<1> DEFINE a == SubSeq(cur, 1, n)
<1>3. a \in Seq(Byte) /\ Len(a) = n /\ \A i \in 1..n : a[i] = cur[i]
  BY <1>1, <1>2, Cut
<1> HIDE DEF a
<1>4. Together(n) = bk \o a
  BY DEF Together, a
<1>5. /\ Together(n) \in Seq(Byte) /\ Len(Together(n)) = Len(bk) + n
      /\ \A i \in 1..Len(bk) : Together(n)[i] = bk[i]
      /\ \A i \in 1..n : Together(n)[Len(bk) + i] = a[i]
  BY <1>1, <1>3, <1>4, Joined
<1>6. ASSUME NEW i \in 1..Len(bk) + n PROVE Together(n)[i] = <<Arrived + 1, i>>
  <2>1. CASE i \in 1..Len(bk)
    <3>1. bk # <<>>
      BY <1>1, <2>1, EmptySeq
    <3>2. bk[i] = <<Arrived + 1, i>>
      BY <2>1, <3>1 DEF Stream, Begun
    <3>3. QED
      BY <1>5, <2>1, <3>2
  <2>2. CASE i \notin 1..Len(bk)
    <3>1. /\ i - Len(bk) \in 1..n /\ Len(bk) + (i - Len(bk)) = i
          /\ i - Len(bk) \in 1..Len(cur) /\ i <= sent[Arrived + 1].size
      BY <1>1, <1>2, <2>2
    <3>2. cur[i - Len(bk)] = <<Arrived + 1, i>>
      BY <3>1, NextPacket
    <3>3. Together(n)[Len(bk) + (i - Len(bk))] = a[i - Len(bk)]
      BY <1>5, <3>1
    <3>4. a[i - Len(bk)] = cur[i - Len(bk)]
      BY <1>3, <3>1
    <3>5. QED
      BY <3>1, <3>2, <3>3, <3>4
  <2>3. QED
    BY <2>1, <2>2
<1>7. QED
  BY <1>5, <1>6

\* The place behind the first n bytes in hand.
LEMMA RestRun ==
  ASSUME H4Inv, Stream, Metered, cur # <<>>, pc \in {"loop", "switch"},
         NEW n \in 1..Len(cur), Len(bk) + n <= sent[Arrived + 1].size
  PROVE  Run(sent, SubSeq(cur, n + 1, Len(cur)),
             IF Len(bk) + n < sent[Arrived + 1].size THEN <<Arrived + 1, (Len(bk) + n) + 1>>
             ELSE <<(Arrived + 1) + 1, 1>>, AtChunk(2))
<1>1. /\ cur \in Seq(Byte) /\ Len(cur) \in Nat /\ n \in Nat /\ n <= Len(cur) /\ n # 0
      /\ n \in 1..n
  <2>1. cur \in Seq(Byte) /\ Len(cur) \in Nat
    BY Facts
  <2>2. QED
    BY <2>1
<1>2. Run(sent, cur, Place, AtChunk(2))
  BY DEF Stream, Placed
<1> DEFINE e == IF n < Len(cur) THEN cur[n + 1] ELSE AtChunk(2)
           a == SubSeq(cur, 1, n)
           b == SubSeq(cur, n + 1, Len(cur))
<1>3. Run(sent, a, Place, e) /\ Run(sent, b, e, AtChunk(2))
  BY <1>1, <1>2, RunCut
<1>4. a \in Seq(Byte) /\ Len(a) = n /\ \A i \in 1..n : a[i] = cur[i]
  BY <1>1, Cut
<1> HIDE DEF a, b, e
<1>5. After(sent, a[n]) = e
  <2>1. a # <<>>
    BY <1>1, <1>4, EmptySeq
  <2>2. QED
    BY <1>3, <1>4, <2>1 DEF Run
<1>6. a[n] = <<Arrived + 1, Len(bk) + n>>
  <2>1. cur[n] = <<Arrived + 1, Len(bk) + n>>
    BY NextPacket
  <2>2. QED
    BY <1>1, <1>4, <2>1
<1>7. e = IF Len(bk) + n < sent[Arrived + 1].size THEN <<Arrived + 1, (Len(bk) + n) + 1>>
          ELSE <<(Arrived + 1) + 1, 1>>
  BY <1>5, <1>6 DEF After
<1>8. QED
  BY <1>3, <1>7 DEF b


\* A step that takes n bytes of the chunk in hand: they complete the next packet,
\* which goes to the HCI Rx FIFO, or all of them go to the backup buffer.
LEMMA Consumed ==
  ASSUME H4Inv, Stream, Metered, cur # <<>>, pc \in {"loop", "switch"},
         NEW n \in 1..Len(cur), Len(bk) + n <= sent[Arrived + 1].size,
         UNCHANGED <<sent, wire, dma, uart, got>>, cur' = SubSeq(cur, n + 1, Len(cur)),
         \/ Len(bk) + n = sent[Arrived + 1].size /\ bk' = <<>> /\ fifo' = Append(fifo, Together(n))
         \/ Len(bk) + n < sent[Arrived + 1].size /\ bk' = Together(n) /\ fifo' = fifo,
         pc' \in {"loop", "switch"}, pc' = "switch" => bk' = <<>>
  PROVE  Stream'
<1>1. /\ Len(bk) \in Nat /\ Len(got) \in Nat /\ Len(fifo) \in Nat /\ Arrived \in Nat
      /\ Len(sent) \in Nat /\ sent \in Seq(Packet) /\ fifo \in Seq(Seq(Byte)) /\ n \in Nat /\ n # 0
      /\ Arrived = Len(got) + Len(fifo)
  <2>1. Len(cur) \in Nat
    BY Facts
  <2>2. n \in Nat /\ n # 0
    BY <2>1
  <2>3. QED
    BY <2>2, Facts DEF Arrived
<1>2. /\ Arrived + 1 \in 1..Len(sent) /\ sent[Arrived + 1].size \in Nat
      /\ sent[Arrived + 1].size \in 0..MaxSize /\ Arrived + 1 \in 1..MaxPkt
  <2>1. Arrived + 1 \in 1..Len(sent)
    BY NextPacket
  <2>2. sent[Arrived + 1].size \in Nat /\ sent[Arrived + 1].size <= MaxSize
    BY <1>1, <2>1, PacketTyped
  <2>3. Len(sent) <= MaxPkt /\ MaxPkt \in Nat /\ MaxSize \in Nat
    BY H4Assumption DEF H4Inv, TypeOK
  <2>4. QED
    BY <1>1, <2>1, <2>2, <2>3
<1>3. /\ Together(n) \in Seq(Byte) /\ Len(Together(n)) = Len(bk) + n
      /\ \A i \in 1..Len(bk) + n : Together(n)[i] = <<Arrived + 1, i>>
  BY TogetherBytes
<1>4. Run(sent, cur', IF Len(bk) + n < sent[Arrived + 1].size THEN <<Arrived + 1, (Len(bk) + n) + 1>>
                      ELSE <<(Arrived + 1) + 1, 1>>, AtChunk(2))
  BY RestRun
<1>5. Queued' /\ AtChunk(2)' = AtChunk(2)
  BY StreamChunks
<1>6. (\A p \in 1..Len(got) : got[p] = Content(sent, p)) /\ Len(sent) <= Len(got) + Credit
      /\ \A p \in 1..Len(fifo) : fifo[p] = Content(sent, Len(got) + p)
  BY DEF Stream, CameOut
<1>7. CASE Len(bk) + n = sent[Arrived + 1].size /\ bk' = <<>> /\ fifo' = Append(fifo, Together(n))
  <2>1. ~(Len(bk) + n < sent[Arrived + 1].size)
    BY <1>1, <1>2, <1>7
  <2>2. /\ Len(fifo') = Len(fifo) + 1 /\ fifo'[Len(fifo) + 1] = Together(n)
        /\ \A p \in 1..Len(fifo) : fifo'[p] = fifo[p]
    BY <1>1, <1>3, <1>7, AppendProperties
  <2>3. Arrived' = Arrived + 1 /\ Len(bk') = 0
    BY <1>1, <1>7, <2>2, EmptySeq DEF Arrived
  <2>4. Place' = <<(Arrived + 1) + 1, 1>>
    <3>1. 0 + 1 = 1
      OBVIOUS
    <3>2. QED
      BY <2>3, <3>1 DEF Place
  <2>5. Run(sent, cur', Place', AtChunk(2))
    BY <1>4, <2>1, <2>4
  <2>6. Placed'
    BY <1>5, <2>5 DEF Placed
  <2>7. Begun'
    BY <1>7 DEF Begun
  <2>8. Together(n) = Content(sent, Arrived + 1)
    <3> DEFINE m == sent[Arrived + 1].size
               c == [i \in 1..m |-> <<Arrived + 1, i>>]
    <3>1. c \in Seq(Byte) /\ Len(c) = m /\ \A i \in 1..m : c[i] = <<Arrived + 1, i>>
      BY <1>2, NewBytes
    <3>2. Content(sent, Arrived + 1) = c
      BY DEF Content
    <3> HIDE DEF c
    <3>3. Len(Together(n)) = Len(c) /\ \A i \in 1..Len(Together(n)) : Together(n)[i] = c[i]
      BY <1>3, <1>7, <3>1
    <3>4. QED
      BY <1>3, <3>1, <3>2, <3>3, SeqEqual
  <2>9. CameOut'
    <3>1. ASSUME NEW p \in 1..Len(fifo') PROVE fifo'[p] = Content(sent, Len(got) + p)
      <4>1. p \in 1..Len(fifo) \/ p = Len(fifo) + 1
        BY <1>1, <2>2
      <4>2. CASE p \in 1..Len(fifo)
        BY <1>6, <2>2, <4>2
      <4>3. CASE p = Len(fifo) + 1
        <5>1. Len(got) + p = Arrived + 1
          BY <1>1, <4>3
        <5>2. QED
          BY <2>2, <2>8, <4>3, <5>1
      <4>4. QED
        BY <4>1, <4>2, <4>3
    <3>2. Arrived' <= Len(sent)
      BY <1>1, <1>2, <2>3
    <3>3. QED
      BY <1>6, <3>1, <3>2 DEF CameOut
  <2>10. QED
    BY <1>5, <2>6, <2>7, <2>9 DEF Stream
<1>8. CASE Len(bk) + n < sent[Arrived + 1].size /\ bk' = Together(n) /\ fifo' = fifo
  <2>1. Arrived' = Arrived /\ Len(bk') = Len(bk) + n
    BY <1>3, <1>8 DEF Arrived
  <2>2. Place' = <<Arrived + 1, (Len(bk) + n) + 1>>
    BY <2>1 DEF Place
  <2>3. Run(sent, cur', Place', AtChunk(2))
    BY <1>4, <1>8, <2>2
  <2>4. Placed'
    BY <1>5, <2>3 DEF Placed
  <2>5. Begun'
    <3>1. Arrived < Len(sent)
      BY <1>1, <1>2
    <3>2. QED
      BY <1>3, <1>8, <2>1, <3>1 DEF Begun
  <2>6. CameOut'
    BY <1>8, <2>1 DEF Stream, CameOut
  <2>7. QED
    BY <1>5, <2>4, <2>5, <2>6 DEF Stream
<1>9. QED
  BY <1>7, <1>8

\* A complete header in front of a packet gives its size.
LEMMA HeadSize ==
  ASSUME H4Inv, ~lost, NEW p, NEW type \in Kind, NEW b,
         \A i \in 1..HeadLen[type] : b[i] = <<p, i>>
  PROVE  Sizes(b, type) = {sent[p].size}
<1>1. 1 \in 1..HeadLen[type]
  BY H4Assumption
<1>2. b[1] = <<p, 1>>
  BY <1>1
<1>3. b[1][1] = p
  BY <1>2
<1>4. QED
  BY <1>3 DEF Sizes

\* The packet the chunk goes on with is of a type that the receiver takes apart.
LEMMA NextKind ==
  ASSUME H4Inv, Stream, Metered, Plain, cur # <<>>, pc \in {"loop", "switch"}
  PROVE  LET k == sent[Arrived + 1].kind IN
         /\ k \in Kind /\ k \notin {"SKIP", "OTHER"} /\ HeadLen[k] \in Nat \ {0}
         /\ HeadLen[k] <= sent[Arrived + 1].size
<1>1. Arrived + 1 \in 1..Len(sent) /\ sent \in Seq(Packet)
  BY NextPacket, Facts
<1>2. sent[Arrived + 1] \in Packet
  BY <1>1, PacketTyped
<1>3. sent[Arrived + 1].kind # "SKIP"
  BY <1>2 DEF Plain
<1>4. sent[Arrived + 1].kind \in Kind
  BY <1>1, PacketTyped
<1>5. sent[Arrived + 1].kind # "OTHER"
  BY <1>4 DEF Kind
<1>6. QED
  BY <1>1, <1>3, <1>4, <1>5, PacketTyped


\* The backup handler's answer when it took n bytes.
Answer(r, n) ==
  /\ r.used = n /\ Len(bk) + n <= sent[Arrived + 1].size
  /\ \/ /\ Len(bk) + n = sent[Arrived + 1].size
        /\ r.bk = <<>> /\ r.fifo = Append(fifo, Together(n))
     \/ /\ Len(bk) + n < sent[Arrived + 1].size /\ n = Len(cur)
        /\ r.bk = Together(n) /\ r.fifo = fifo

\* An answer that keeps all in the buffer.
LEMMA AnswerPartial ==
  ASSUME H4Inv, Stream, Metered, Narrow, cur # <<>>, pc \in {"loop", "switch"},
         Len(bk) + Len(cur) < sent[Arrived + 1].size
  PROVE  /\ Answer(Partial(Len(cur), Together(Len(cur))), Len(cur))
         /\ Together(Len(cur)) = bk \o cur
<1> DEFINE n == Len(cur)
<1>1. /\ n \in Nat /\ n \in 1..Len(cur) /\ Len(bk) \in Nat /\ cur \in Seq(Byte)
      /\ sent[Arrived + 1].size \in Nat /\ sent[Arrived + 1].size <= MaxSize
      /\ MaxSize \in Nat /\ Wrap \in Nat /\ MaxSize < Wrap
  <2>1. Arrived + 1 \in 1..Len(sent) /\ sent \in Seq(Packet)
    BY NextPacket, Facts
  <2>2. n \in Nat /\ n # 0 /\ Len(bk) \in Nat /\ cur \in Seq(Byte)
    BY Facts
  <2>3. n \in 1..Len(cur)
    BY <2>2
  <2>4. QED
    BY <2>1, <2>2, <2>3, PacketTyped, H4Assumption DEF Narrow
<1>2. Len(bk) + n <= sent[Arrived + 1].size /\ Len(bk) + n < Wrap
  BY <1>1
<1>3. Together(n) \in Seq(Byte) /\ Len(Together(n)) = Len(bk) + n
  BY <1>1, <1>2, TogetherBytes
<1>4. Kept(Together(n)) = Together(n)
  BY <1>2, <1>3, KeptTyped
<1>5. /\ Partial(n, Together(n)).used = n /\ Partial(n, Together(n)).fifo = fifo
      /\ Partial(n, Together(n)).bk = Together(n)
  BY <1>4 DEF Partial
<1>6. Together(n) = bk \o cur
  <2>1. SubSeq(cur, 1, Len(cur)) = cur
    BY <1>1, SubSeqFull
  <2>2. QED
    BY <2>1 DEF Together
<1> HIDE DEF n
<1>7. Answer(Partial(n, Together(n)), n)
  BY <1>2, <1>5 DEF Answer, n
<1>8. QED
  BY <1>6, <1>7 DEF n

\* With a packet in the backup buffer the handler takes what the packet lacks, or
\* all there is.
LEMMA BackUpPlain ==
  ASSUME H4Inv, Stream, ~lost, Plain, Narrow, Metered, cur # <<>>, pc \in {"loop", "switch"},
         bk # <<>>, NEW r \in BackUpHandler(cur)
  PROVE  \E n \in 1..Len(cur) : Answer(r, n)
<1> DEFINE size == sent[Arrived + 1].size
           kind == sent[Arrived + 1].kind
<1>1. /\ cur \in Seq(Byte) /\ bk \in Seq(Byte) /\ Len(cur) \in Nat /\ Len(cur) # 0
      /\ Len(bk) \in Nat /\ Len(bk) # 0 /\ fifo \in Seq(Seq(Byte)) /\ Len(fifo) \in Nat
      /\ RxNum \in Nat /\ MaxSize \in Nat /\ Wrap \in Nat \ {0} /\ MaxSize < Wrap
  BY Facts, H4Assumption DEF Narrow
<1>2. /\ Arrived + 1 \in 1..Len(sent) /\ size \in Nat /\ size <= MaxSize /\ Len(bk) < size
      /\ Len(fifo) < RxNum
  <2>1. Arrived + 1 \in 1..Len(sent) /\ Len(bk) < size /\ Len(fifo) < RxNum
    BY NextPacket
  <2>2. sent \in Seq(Packet)
    BY Facts
  <2>3. QED
    BY <2>1, <2>2, PacketTyped
<1>3. kind \in Kind /\ kind \notin {"SKIP", "OTHER"} /\ HeadLen[kind] \in Nat \ {0} /\ HeadLen[kind] <= size
  BY NextKind
<1>4. Types(bk[1]) = {kind}
  <2>1. 1 \in 1..Len(bk)
    BY <1>1
  <2>2. bk[1] = <<Arrived + 1, 1>>
    BY <2>1 DEF Stream, Begun
  <2>3. QED
    BY <2>2 DEF Types
<1>5. r \in BackUpPacket(cur, kind)
  BY <1>4 DEF BackUpHandler
<1> DEFINE all == bk \o cur
<1>6. /\ all \in Seq(Byte) /\ Len(all) = Len(bk) + Len(cur)
      /\ \A i \in 1..Len(bk) : all[i] = bk[i]
      /\ \A i \in 1..Len(cur) : all[Len(bk) + i] = cur[i]
  BY <1>1, Joined
<1> HIDE DEF size, kind, all
<1>7. Len(cur) \in 1..Len(cur)
  BY <1>1
<1>8. CASE Len(all) < HeadLen[kind]
  <2>1. r = Partial(Len(cur), all)
    BY <1>3, <1>5, <1>8 DEF BackUpPacket, all
  <2>2. Len(bk) + Len(cur) < size
    BY <1>1, <1>2, <1>3, <1>6, <1>8
  <2>3. Answer(r, Len(cur))
    BY <2>1, <2>2, AnswerPartial DEF all, size
  <2>4. QED
    BY <1>7, <2>3
<1>9. CASE ~(Len(all) < HeadLen[kind])
  <2>1. \A i \in 1..HeadLen[kind] : all[i] = <<Arrived + 1, i>>
    <3>1. TAKE i \in 1..HeadLen[kind]
    <3>2. CASE i \in 1..Len(bk)
      <4>1. bk[i] = <<Arrived + 1, i>>
        BY <3>2 DEF Stream, Begun
      <4>2. QED
        BY <1>6, <3>2, <4>1
    <3>3. CASE i \notin 1..Len(bk)
      <4>1. i - Len(bk) \in 1..Len(cur) /\ Len(bk) + (i - Len(bk)) = i /\ i <= size
        BY <1>1, <1>2, <1>3, <1>6, <1>9, <3>3
      <4>2. cur[i - Len(bk)] = <<Arrived + 1, Len(bk) + (i - Len(bk))>>
        BY <4>1, NextPacket DEF size
      <4>3. all[Len(bk) + (i - Len(bk))] = cur[i - Len(bk)]
        BY <1>6, <4>1
      <4>4. QED
        BY <4>1, <4>2, <4>3
    <3>4. QED
      BY <3>2, <3>3
  <2>2. Sizes(all, kind) = {size}
    BY <1>3, <2>1, HeadSize DEF size
  <2> DEFINE n == Missing(size, Len(bk), Len(cur))
  <2>3. r = Completed(n, bk \o SubSeq(cur, 1, n), size)
    BY <1>3, <1>5, <1>9, <2>2 DEF BackUpPacket, all
  <2>4. n \in 1..Len(cur) /\ Len(bk) + n <= size /\ (Len(bk) + n # size => n = Len(cur))
    BY <1>1, <1>2 DEF Missing, Smaller
  <2> HIDE DEF n
  <2>5. r = Completed(n, Together(n), size)
    BY <2>3 DEF Together
  <2>6. Together(n) \in Seq(Byte) /\ Len(Together(n)) = Len(bk) + n
    BY <2>4, TogetherBytes DEF size
  <2>7. Len(Together(n)) % Wrap = Len(bk) + n
    <3>1. Len(bk) + n \in Nat /\ Len(bk) + n < Wrap
      BY <1>1, <1>2, <2>4
    <3>2. QED
      BY <1>1, <2>6, <3>1, Mod
  <2>8. CASE Len(bk) + n = size
    <3>1. Put(fifo, Together(n)) = Append(fifo, Together(n))
      <4>1. ~(Len(fifo) >= RxNum)
        BY <1>1, <1>2
      <4>2. QED
        BY <4>1 DEF Put
    <3>2. r = [used |-> n, bk |-> <<>>, timer |-> FALSE, fifo |-> Append(fifo, Together(n))]
      BY <2>5, <2>7, <2>8, <3>1 DEF Completed
    <3>3. r.used = n /\ r.bk = <<>> /\ r.fifo = Append(fifo, Together(n))
      BY <3>2
    <3>4. Answer(r, n)
      BY <2>4, <2>8, <3>3 DEF Answer, size
    <3>5. QED
      BY <2>4, <3>4
  <2>9. CASE Len(bk) + n # size
    <3>1. n = Len(cur) /\ Len(bk) + Len(cur) < size
      <4>1. n = Len(cur) /\ Len(bk) + n <= size
        BY <2>4, <2>9
      <4>2. Len(bk) + Len(cur) \in Nat /\ Len(bk) + Len(cur) <= size /\ Len(bk) + Len(cur) # size
        BY <1>1, <2>9, <4>1
      <4>3. size \in Nat
        BY <1>2
      <4>4. QED
        BY <4>1, <4>2, <4>3
    <3>2. r = Partial(n, Together(n))
      BY <2>5, <2>7, <2>9 DEF Completed
    <3>3. Answer(r, n)
      BY <3>1, <3>2, AnswerPartial DEF size
    <3>4. QED
      BY <2>4, <3>3
  <2>10. QED
    BY <2>8, <2>9
<1>10. QED
  BY <1>8, <1>9

LEMMA StreamRxBackup ==
  ASSUME H4Inv, Stream, ~lost, Plain, Narrow, Metered, RxBackup
  PROVE  Stream'
<1>1. /\ pc = "loop" /\ cur # <<>> /\ bk # <<>> /\ UNCHANGED <<sent, wire, lost, dma, uart, got>>
      /\ pc' = IF cur' = <<>> THEN "loop" ELSE "switch"
  BY DEF RxBackup
<1>2. PICK r \in BackUpHandler(cur) : cur' = Rest(r.used) /\ bk' = r.bk /\ fifo' = r.fifo
  BY DEF RxBackup
<1>3. PICK n \in 1..Len(cur) : Answer(r, n)
  BY <1>1, BackUpPlain
<1>4. /\ cur \in Seq(Byte) /\ Len(cur) \in Nat /\ n \in Nat /\ n < Wrap /\ Wrap \in Nat \ {0}
  <2>1. cur \in Seq(Byte) /\ Len(cur) \in Nat /\ Len(bk) \in Nat /\ sent \in Seq(Packet)
    BY Facts
  <2>2. Arrived + 1 \in 1..Len(sent)
    BY <1>1, NextPacket
  <2>3. /\ sent[Arrived + 1].size \in Nat /\ sent[Arrived + 1].size <= MaxSize
        /\ MaxSize \in Nat /\ Wrap \in Nat \ {0} /\ MaxSize < Wrap
    BY <2>1, <2>2, PacketTyped, H4Assumption DEF Narrow
  <2>4. Len(bk) + n <= sent[Arrived + 1].size
    BY <1>3 DEF Answer
  <2>5. QED
    BY <2>1, <2>3, <2>4
<1>5. cur' = SubSeq(cur, n + 1, Len(cur))
  <2>1. n % Wrap = n
    BY <1>4, Mod
  <2>2. r.used = n
    BY <1>3 DEF Answer
  <2>3. QED
    BY <1>2, <2>1, <2>2 DEF Rest
<1>6. \/ Len(bk) + n = sent[Arrived + 1].size /\ bk' = <<>> /\ fifo' = Append(fifo, Together(n))
      \/ Len(bk) + n < sent[Arrived + 1].size /\ bk' = Together(n) /\ fifo' = fifo
  BY <1>2, <1>3 DEF Answer
<1>7. pc' = "switch" => bk' = <<>>
  <2>1. CASE n = Len(cur)
    <3>1. Len(cur) < Len(cur) + 1 /\ Len(cur) + 1 \in Int /\ Len(cur) \in Int
      BY <1>4
    <3>2. cur' = <<>>
      BY <1>5, <2>1, <3>1, SubSeqEmpty
    <3>3. QED
      BY <1>1, <3>2
  <2>2. CASE n # Len(cur)
    BY <1>2, <1>3, <2>2 DEF Answer
  <2>3. QED
    BY <2>1, <2>2
<1>8. Len(bk) + n <= sent[Arrived + 1].size
  BY <1>3 DEF Answer
<1>9. pc' \in {"loop", "switch"} /\ pc \in {"loop", "switch"}
  BY <1>1
<1>10. QED
  BY <1>1, <1>5, <1>6, <1>7, <1>8, <1>9, Consumed


LEMMA StreamRxSwitch ==
  ASSUME H4Inv, Stream, ~lost, Plain, Narrow, Metered, cur # <<>>,
         NEW type \in Types(cur[1]), RxSwitch(type)
  PROVE  Stream'
<1> DEFINE size == sent[Arrived + 1].size
           kind == sent[Arrived + 1].kind
<1>1. pc \in {"loop", "switch"} /\ bk = <<>> /\ UNCHANGED <<sent, wire, lost, dma, got>>
  BY DEF RxSwitch, Stream, Placed
<1>2. /\ cur \in Seq(Byte) /\ Len(cur) \in Nat /\ Len(cur) # 0 /\ Len(bk) = 0
      /\ Len(fifo) \in Nat /\ RxNum \in Nat /\ Len(cur) \in 1..Len(cur)
  <2>1. cur \in Seq(Byte) /\ Len(cur) \in Nat /\ Len(cur) # 0 /\ Len(fifo) \in Nat /\ RxNum \in Nat
    BY Facts, H4Assumption
  <2>2. Len(bk) = 0
    BY <1>1, EmptySeq
  <2>3. Len(cur) \in 1..Len(cur)
    BY <2>1
  <2>4. QED
    BY <2>1, <2>2, <2>3
<1>3. /\ size \in Nat /\ 0 < size /\ Len(fifo) < RxNum
      /\ \A i \in 1..Len(cur) : i <= size => cur[i] = <<Arrived + 1, i>>
  <2>1. /\ Arrived + 1 \in 1..Len(sent) /\ Len(bk) < size /\ Len(fifo) < RxNum
        /\ \A i \in 1..Len(cur) : Len(bk) + i <= size => cur[i] = <<Arrived + 1, Len(bk) + i>>
    BY <1>1, NextPacket
  <2>2. \A i \in 1..Len(cur) : Len(bk) + i = i
    BY <1>2
  <2>3. sent \in Seq(Packet)
    BY Facts
  <2>4. size \in Nat
    BY <2>1, <2>3, PacketTyped
  <2>5. QED
    BY <1>2, <2>1, <2>2, <2>4
<1>4. kind \in Kind /\ kind \notin {"SKIP", "OTHER"} /\ HeadLen[kind] \in Nat \ {0} /\ HeadLen[kind] <= size
  BY <1>1, NextKind
<1>5. type = kind
  <2>1. 1 \in 1..Len(cur) /\ 1 <= size
    BY <1>2, <1>3
  <2>2. cur[1] = <<Arrived + 1, 1>>
    BY <1>3, <2>1
  <2>3. QED
    BY <2>2 DEF Types
<1>6. IF Len(cur) < HeadLen[kind] THEN RxKeep
      ELSE \E s \in Sizes(cur, kind) : IF s <= Len(cur) THEN RxWhole(s) ELSE RxKeep
  BY <1>4, <1>5 DEF RxSwitch
<1>7. ~(Len(cur) < HeadLen[kind]) => Sizes(cur, kind) = {size}
  <2>1. HAVE ~(Len(cur) < HeadLen[kind])
  <2>2. \A i \in 1..HeadLen[kind] : i \in 1..Len(cur) /\ i <= size
    BY <1>2, <1>3, <1>4, <2>1
  <2>3. \A i \in 1..HeadLen[kind] : cur[i] = <<Arrived + 1, i>>
    BY <1>3, <2>2
  <2>4. QED
    BY <1>4, <2>3, HeadSize
<1>8. (Len(cur) < size /\ RxKeep) \/ (size <= Len(cur) /\ RxWhole(size))
  <2>1. CASE Len(cur) < HeadLen[kind]
    <3>1. Len(cur) < size
      BY <1>2, <1>3, <1>4, <2>1
    <3>2. QED
      BY <1>6, <2>1, <3>1
  <2>2. CASE ~(Len(cur) < HeadLen[kind])
    <3>1. IF size <= Len(cur) THEN RxWhole(size) ELSE RxKeep
      BY <1>6, <1>7, <2>2
    <3>2. ~(size <= Len(cur)) => Len(cur) < size
      BY <1>2, <1>3
    <3>3. QED
      BY <3>1, <3>2
  <2>3. QED
    BY <2>1, <2>2
<1> HIDE DEF kind
<1>9. CASE Len(cur) < size /\ RxKeep
  <2> DEFINE n == Len(cur)
  <2>1. cur' = <<>> /\ pc' = "loop" /\ uart' = uart
    BY <1>9 DEF RxKeep
  <2>2. PICK r \in BackUpHandler(cur) : bk' = r.bk /\ fifo' = r.fifo
    BY <1>9 DEF RxKeep
  <2>3. Len(bk) + n = n
    BY <1>2
  <2>4. Answer(Partial(n, Together(n)), n) /\ Together(n) = bk \o cur
    BY <1>1, <1>9, <2>3, AnswerPartial
  <2>5. r = Partial(n, Together(n))
    <3>1. r = Partial(n, cur)
      BY <1>1, <2>2 DEF BackUpHandler
    <3>2. Together(n) = cur
      BY <1>1, <1>2, <2>4, ConcatEmptySeq
    <3>3. QED
      BY <3>1, <3>2
  <2>6. Answer(r, n)
    BY <2>4, <2>5
  <2>7. cur' = SubSeq(cur, n + 1, Len(cur))
    <3>1. n < n + 1 /\ n + 1 \in Int /\ n \in Int
      BY <1>2
    <3>2. QED
      BY <2>1, <3>1, SubSeqEmpty
  <2>8. \/ Len(bk) + n = size /\ bk' = <<>> /\ fifo' = Append(fifo, Together(n))
        \/ Len(bk) + n < size /\ bk' = Together(n) /\ fifo' = fifo
    BY <2>2, <2>6 DEF Answer
  <2>9. Len(bk) + n <= size
    BY <1>2, <1>3, <1>9, <2>3
  <2>10. QED
    BY <1>1, <1>2, <2>1, <2>7, <2>8, <2>9, Consumed
<1>10. CASE size <= Len(cur) /\ RxWhole(size)
  <2>1. size \in 1..Len(cur) /\ Len(bk) + size = size /\ ~(Len(fifo) >= RxNum)
    BY <1>2, <1>3, <1>10
  <2>2. /\ fifo' = Put(fifo, SubSeq(cur, 1, size)) /\ cur' = SubSeq(cur, size + 1, Len(cur))
        /\ pc' = "loop" /\ uart' = uart /\ bk' = <<>>
    BY <1>1, <1>10, <2>1 DEF RxWhole
  <2>3. Together(size) = SubSeq(cur, 1, size)
    <3>1. SubSeq(cur, 1, size) \in Seq(Byte)
      BY <1>2, <1>3, <1>10, Cut
    <3>2. QED
      BY <1>1, <3>1, ConcatEmptySeq DEF Together
  <2>4. fifo' = Append(fifo, Together(size))
    BY <2>1, <2>2, <2>3 DEF Put
  <2>5. Len(bk) + size <= size
    BY <1>3, <2>1
  <2>6. QED
    BY <1>1, <2>1, <2>2, <2>4, <2>5, Consumed
<1>11. QED
  BY <1>8, <1>9, <1>10

-----------------------------------------------------------------------------
(* The theorems.                                                             *)

LEMMA StreamStep ==
  ASSUME Plain, Narrow, Metered, H4Inv, StreamInv, [Next]_vars
  PROVE  StreamInv'
<1>1. SUFFICES ASSUME ~lost' PROVE Stream'
  BY DEF StreamInv
<1>2. CASE HostRestart
  BY <1>2, StreamRestart
<1>3. CASE ~HostRestart
  <2>1. ~lost /\ Stream
    <3>1. CASE UNCHANGED vars
      BY <1>1, <3>1 DEF StreamInv, vars
    <3>2. CASE Next
      <4>1. ~lost
        BY <1>1, <1>3, <3>2 DEF Next, Poll, HostSend, UartReceive, UartRxIRQHandler,
                                 RxHandler, RxDone, RxBackup, RxSwitch, HciRxHandler
      <4>2. QED
        BY <4>1 DEF StreamInv
    <3>3. QED
      BY <3>1, <3>2
  <2>2. ASSUME NEW pkt \in Packet, HostSend(pkt) PROVE Stream'
    BY <2>1, <2>2, StreamSend
  <2>3. ASSUME NEW n \in 1..Len(wire), UartReceive(n) PROVE Stream'
    BY <1>1, <2>1, <2>3, StreamReceive
  <2>4. CASE UartRxIRQHandler
    BY <2>1, <2>4, StreamIrq
  <2>5. ASSUME NEW expired \in BOOLEAN, RxHandler(expired) PROVE Stream'
    BY <2>1, <2>5, StreamRxHandler
  <2>6. CASE RxDone
    BY <2>1, <2>6, StreamRxDone
  <2>7. CASE RxBackup
    BY <2>1, <2>7, StreamRxBackup
  <2>8. ASSUME NEW type \in UNION {Types(cur[1]) : i \in 1..Len(cur)}, RxSwitch(type)
        PROVE  Stream'
    BY <2>1, <2>8, SwitchByte, StreamRxSwitch
  <2>9. CASE HciRxHandler
    BY <2>1, <2>9, StreamHci
  <2>10. CASE UNCHANGED vars
    <3>1. UNCHANGED <<sent, wire, dma, uart, pc, cur, bk, fifo, got>>
      BY <2>10 DEF vars
    <3>2. Queued' /\ \A k : AtChunk(k)' = AtChunk(k)
      BY <2>1, <3>1, StreamChunks
    <3>3. Place' = Place /\ Begun' /\ CameOut'
      BY <2>1, <3>1, StreamSame
    <3>4. Placed'
      BY <2>1, <3>1, <3>2, <3>3 DEF Stream, Placed
    <3>5. QED
      BY <3>2, <3>3, <3>4 DEF Stream
  <2>11. QED
    BY <1>3, <2>2, <2>3, <2>4, <2>5, <2>6, <2>7, <2>8, <2>9, <2>10 DEF Next, Poll
<1>4. QED
  BY <1>2, <1>3

LEMMA StreamReassembled ==
  ASSUME H4Inv, StreamInv
  PROVE  Reassembled
<1>1. SUFFICES ASSUME ~lost PROVE /\ Len(got \o fifo) <= Len(sent)
                                  /\ \A p \in 1..Len(got \o fifo) : (got \o fifo)[p] = Bytes(p)
  BY DEF Reassembled
<1>2. /\ got \in Seq(Seq(Byte)) /\ fifo \in Seq(Seq(Byte)) /\ Arrived <= Len(sent)
      /\ \A p \in 1..Len(got) : got[p] = Content(sent, p)
      /\ \A p \in 1..Len(fifo) : fifo[p] = Content(sent, Len(got) + p)
  BY <1>1, Facts DEF StreamInv, Stream, CameOut
<1>3. /\ Len(got \o fifo) = Len(got) + Len(fifo) /\ Len(got) \in Nat /\ Len(fifo) \in Nat
      /\ \A i \in 1..Len(got) : (got \o fifo)[i] = got[i]
      /\ \A i \in 1..Len(fifo) : (got \o fifo)[Len(got) + i] = fifo[i]
  BY <1>2, Joined
<1>4. Len(got \o fifo) <= Len(sent)
  BY <1>2, <1>3 DEF Arrived
<1>5. ASSUME NEW p \in 1..Len(got \o fifo) PROVE (got \o fifo)[p] = Bytes(p)
  <2>1. Bytes(p) = Content(sent, p)
    BY DEF Bytes, Content
  <2>2. CASE p \in 1..Len(got)
    BY <1>2, <1>3, <2>1, <2>2
  <2>3. CASE p \notin 1..Len(got)
    <3>1. p - Len(got) \in 1..Len(fifo) /\ Len(got) + (p - Len(got)) = p
      BY <1>3, <2>3
    <3>2. (got \o fifo)[Len(got) + (p - Len(got))] = fifo[p - Len(got)]
      BY <1>3, <3>1
    <3>3. fifo[p - Len(got)] = Content(sent, Len(got) + (p - Len(got)))
      BY <1>2, <3>1
    <3>4. QED
      BY <2>1, <3>1, <3>2, <3>3
  <2>4. QED
    BY <2>2, <2>3
<1>6. QED
  BY <1>4, <1>5

\* The types of the control block and its buffers: whatever the host sends and
\* however the UART cuts it, backupCnt stays below 2^8 and the chunk FIFO of
\* HCI_Tr_H4UartRxIRQHandler below its size.
THEOREM H4TypeCorrect == Spec => []TypeOK
<1>1. H4Inv => TypeOK
  BY DEF H4Inv
<1>2. QED
  BY <1>1, H4Inductive, PTL

\* A packet never waits in h4TrBackupBuf without the flush timer, on any path of
\* HCI_Tr_H4RxHandler and HCI_Tr_H4BackUpHandler.
THEOREM H4BackupTimed == Spec => []BackupTimed
<1>1. H4Inv => BackupTimed
  BY DEF H4Inv
<1>2. QED
  BY <1>1, H4Inductive, PTL

\* HCI_Tr_H4RxHandler hands the HCI the packets the host sent, whole, once and in
\* order, for packets of every size that backupCnt can count, chunks of every
\* length and every interleaving with the interrupt, until a chunk is
\* overwritten; and again after the host has been silent for the flush time.
THEOREM H4Reassembled ==
  ASSUME Plain, Narrow, Metered
  PROVE  Spec => []Reassembled
<1>1. Init => StreamInv
  <2>1. Init => AllEmpty
    BY DEF Init, AllEmpty
  <2>2. QED
    BY <2>1, StreamEmpty DEF StreamInv
<1>2. H4Inv /\ StreamInv /\ [Next]_vars => StreamInv'
  BY StreamStep
<1>3. H4Inv /\ StreamInv => Reassembled
  BY StreamReassembled
<1>4. QED
  BY <1>1, <1>2, <1>3, H4Inductive, PTL DEF Spec

=============================================================================
