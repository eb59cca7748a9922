------------------------ MODULE HciH5ExchangeProofs ------------------------
(***************************************************************************)
(* Proofs about the two sides of HciH5 together.                           *)
(*                                                                         *)
(* All of it holds as long as no side restarts and no frame finds the UART *)
(* Rx FIFO full (Undisturbed); then the wire keeps the order of the frames.*)
(*                                                                         *)
(* The handshake (any window, any number of damaged frames): no SYNC       *)
(* reaches an ACTIVE link, since a side answers CONFIG only when it has    *)
(* stopped sending SYNC.                                                   *)
(*                                                                         *)
(* The exchange of packets, with the window of one that the code           *)
(* configures (HCI_H5_SLIDING_WIN_SIZE) and reliable packets: a packet is  *)
(* acknowledged only when taken in and the HCI Rx FIFO never overruns;     *)
(* until, moreover, a resend timer runs out while the UART sends, a packet *)
(* is taken in once.  The exceptions are needed: TLC finds a silent loss   *)
(* with two restarts, a duplicate with one such resend, and a reset link   *)
(* with one frame that finds the UART Rx FIFO full.                        *)
(***************************************************************************)
EXTENDS HciH5Proofs

SingleWindow == \A s \in Side : Win[s] = 1
AllReliable == Unreliable = {}

-----------------------------------------------------------------------------
(* The frames on their way.                                                *)

\* Those in the UART Rx FIFO q of the receiver, then the one in transmission.
LineOf(q, t) == q \o (IF t.type = "NONE" THEN << >> ELSE <<t>>)

\* The frames on their way from s to its peer.
Line(s) == LineOf(uartRx[Peer[s]], uartTx[s])

\* d is c, perhaps without its first or its last frame, and perhaps with damaged
\* frames.
Part(d, c) ==
    \E k \in 0..1 : \A i \in 1..Len(d) :
        i + k \in 1..Len(c) /\ (d[i] = c[i + k] \/ d[i].type = "NONE")

\* Frames c from a side in state from to a side in state to: SYNC before
\* CONFIG_RSP.
Handshake(c, from, to) ==
    /\ from = "IDLE" => /\ to # "ACTIVE"
                        /\ \A i \in 1..Len(c) : c[i].type # "CONFIG_RSP"
    /\ to = "ACTIVE" => \A i \in 1..Len(c) : c[i].type # "SYNC"
    /\ \A i, j \in 1..Len(c) :
          i < j /\ c[i].type = "CONFIG_RSP" => c[j].type # "SYNC"

\* No side has restarted and no UART Rx FIFO was found full.
Undisturbed == reboots = 0 /\ overruns = 0

\* The invariant of the handshake.
Shaken == \A s \in Side : Handshake(Line(s), link[s], link[Peer[s]])
LinkInv == Undisturbed => Shaken

-----------------------------------------------------------------------------
(* The exchange of packets from a sender to a receiver.  Below, a is the   *)
(* number of the sender's first packet (rxAck), seq the number it sends    *)
(* next (txSeq), slid its window (txSlid), rs its resend timer (rsT), q    *)
(* its FIFO (txq); e is the number the receiver expects (txAck), rq its    *)
(* FIFO (rxq), tk what it has taken in.  b is 0 for what holds only while  *)
(* no resend timer has run out during a transmission (busy), 1 for what    *)
(* holds after that as well.                                               *)

\* Either the first packet has not been taken in, or it has, and is in the window.
\* A resend that the busy UART refuses takes it out of the window again; when its
\* acknowledgement then arrives, rxAck moves on and txSeq stays behind, and the
\* resend timer, which sets that right, is armed.
Numbers(a, slid, seq, e, rs, b) ==
    /\ slid \in 0..1
    /\ \/ seq = (IF slid = 0 THEN a ELSE Incr(a)) /\ e \in {a, Incr(a)}
       \/ b # 0 /\ slid = 0 /\ a = Incr(seq) /\ e = a /\ rs = TRUE
    /\ b = 0 => e = a \/ slid = 1

\* The first packet may be on its way.
Sent(a, slid, seq, b) == slid = 1 \/ (b # 0 /\ seq = a)

\* The data frames c on their way to the receiver: the first packet of the FIFO,
\* behind frames of the one before it, which the receiver will ignore.
DataOK(c, a, slid, seq, q, e, b) ==
    /\ \A i \in 1..Len(c) : c[i].type = "DATA" =>
          /\ c[i].rel
          /\ \/ c[i].seq = a /\ Sent(a, slid, seq, b) /\ q # << >> /\ c[i].msg = q[1]
             \/ c[i].seq # a /\ e = a
    /\ \A i, j \in 1..Len(c) :
          i < j /\ c[i].type = "DATA" /\ c[j].type = "DATA" /\ c[i].seq = a => c[j].seq = a

Acks(f) == f.type \in {"ACK", "DATA"}

\* The frames c on their way back: acknowledgements of what came before the
\* first packet, then those of the first packet, which the receiver sends only
\* when its FIFO is empty.
AckOK(c, a, e, rq) ==
    /\ \A i \in 1..Len(c) : Acks(c[i]) => c[i].ack = a \/ (c[i].ack = e /\ rq = << >>)
    /\ \A i, j \in 1..Len(c) :
          i < j /\ Acks(c[i]) /\ Acks(c[j]) /\ c[i].ack # a => c[j].ack # a
    /\ rq # << >> => e = Incr(a) /\ Len(rq) = 1

\* What has been released has been taken in, and so has the first packet of the
\* FIFO when the receiver expects the next number.  With b = 0 nothing else of the
\* FIFO has, and nothing has been taken in twice.  n packets have been queued.
Taken(a, e, q, n, tk, rel, drop, b) ==
    /\ \A i \in 1..Len(q) : q[i] = n - Len(q) + i
    /\ e # a => q # << >> /\ q[1] \in Elems(tk)
    /\ rel \subseteq Elems(tk) \cup drop
    /\ b = 0 => /\ \A i \in 1..Len(tk) : tk[i] <= n - Len(q) \/ (e # a /\ tk[i] = q[1])
                /\ \A i, j \in 1..Len(tk) : i # j => tk[i] # tk[j]

Exchange(s, b) ==
    LET p == Peer[s] IN
    /\ Numbers(rxAck[s], txSlid[s], txSeq[s], txAck[p], rsT[s], b)
    /\ DataOK(Line(s), rxAck[s], txSlid[s], txSeq[s], txq[s], txAck[p], b)
    /\ AckOK(Line(p), rxAck[s], txAck[p], rxq[p])
    /\ Taken(rxAck[s], txAck[p], txq[s], queued[s], TakenIn(p), released[s], dropped[p], b)

\* A link that is not ACTIVE has never carried a packet; one that is has a
\* window of one.
Own(s) ==
    /\ link[s] = "ACTIVE" => win[s] = 1
    /\ link[s] # "ACTIVE" =>
          /\ rxAck[s] = 0 /\ txSeq[s] = 0 /\ txSlid[s] = 0 /\ txAck[s] = 0 /\ rxq[s] = << >>
          /\ txAck[Peer[s]] = 0
          /\ \A i \in 1..Len(Line(s)) : ~Acks(Line(s)[i])
    /\ \A i \in 1..Len(Line(s)) : Line(s)[i].type = "CONFIG_RSP" => Line(s)[i].cfg = 1

\* The invariant of the exchange.
Talking(b) == \A s \in Side : Exchange(s, b) /\ Own(s)
ExchangeInv == Undisturbed => (busy = 0 => Talking(0)) /\ Talking(1)

-----------------------------------------------------------------------------
(* What the wire does to the frames on their way.                          *)

\* The frame in transmission is behind those in the UART Rx FIFO.
LEMMA LineEnd ==
    ASSUME NEW q \in Seq(Frame), NEW t \in Frame
    PROVE  /\ t.type = "NONE" => LineOf(q, t) = q
           /\ t.type # "NONE" => LineOf(q, t) = Append(q, t)
           /\ LineOf(q, t) \in Seq(Frame)
<1>1. q \o << >> = q
  BY ConcatEmptySeq
<1>2. q \o <<t>> = Append(q, t) /\ Append(q, t) \in Seq(Frame)
  BY AppendIsConcat, AppendProperties
<1> QED
  BY <1>1, <1>2 DEF LineOf

\* The receiver takes the first frame out of its UART Rx FIFO.
LEMMA LineTail ==
    ASSUME NEW q \in Seq(Frame), NEW t \in Frame, q # << >>
    PROVE  /\ LineOf(q, t) \in Seq(Frame) /\ LineOf(q, t) # << >> /\ LineOf(q, t)[1] = Head(q)
           /\ LineOf(Tail(q), t) = Tail(LineOf(q, t))
<1>1. Len(q) \in Nat /\ Len(q) # 0 /\ Head(q) = q[1] /\ Tail(q) \in Seq(Frame)
  BY LenProperties, EmptySeq, HeadTailProperties
<1>2. CASE t.type = "NONE"
  BY <1>1, <1>2, LineEnd
<1>3. CASE t.type # "NONE"
  <2>1. LineOf(q, t) = Append(q, t) /\ LineOf(Tail(q), t) = Append(Tail(q), t)
    BY <1>1, <1>3, LineEnd
  <2>2. /\ Append(q, t) \in Seq(Frame) /\ Append(q, t) # << >>
        /\ \A i \in 1..Len(q) : Append(q, t)[i] = q[i]
    BY AppendProperties
  <2>3. 1 \in 1..Len(q)
    BY <1>1
  <2>4. Tail(Append(q, t)) = Append(Tail(q), t)
    <3> DEFINE u == Tail(Append(q, t))
               v == Append(Tail(q), t)
    <3>1. /\ Len(Append(q, t)) = Len(q) + 1 /\ Append(q, t)[Len(q) + 1] = t
          /\ u \in Seq(Frame) /\ Len(u) = Len(Append(q, t)) - 1
          /\ \A i \in 1..Len(u) : u[i] = Append(q, t)[i + 1]
      BY <2>2, AppendProperties, HeadTailProperties
    <3>2. /\ Len(Tail(q)) = Len(q) - 1 /\ \A i \in 1..Len(q) - 1 : Tail(q)[i] = q[i + 1]
      BY HeadTailProperties
    <3>3. /\ v \in Seq(Frame) /\ Len(v) = Len(Tail(q)) + 1 /\ v[Len(Tail(q)) + 1] = t
          /\ \A i \in 1..Len(Tail(q)) : v[i] = Tail(q)[i]
      BY <1>1, AppendProperties
    <3> HIDE DEF u, v
    <3>4. Len(u) = Len(q) /\ Len(v) = Len(q)
      BY <1>1, <3>1, <3>2, <3>3
    <3>5. ASSUME NEW i \in 1..Len(u) PROVE u[i] = v[i]
      <4>1. u[i] = Append(q, t)[i + 1]
        BY <3>1
      <4>2. CASE i = Len(q)
        <5>1. i = Len(Tail(q)) + 1
          BY <1>1, <3>2, <4>2
        <5>2. v[i] = t
          BY <3>3, <5>1
        <5>3. u[i] = t
          BY <3>1, <4>1, <4>2
        <5> QED
          BY <5>2, <5>3
      <4>3. CASE i # Len(q)
        <5>1. i \in 1..Len(q) - 1 /\ i + 1 \in 1..Len(q) /\ i \in 1..Len(Tail(q))
          <6> DEFINE n == Len(q)
          <6>1. n \in Nat /\ i \in 1..n /\ i # n /\ Len(Tail(q)) = n - 1
            BY <1>1, <3>2, <3>4, <4>3
          <6> HIDE DEF n
          <6>2. i \in 1..n - 1 /\ i + 1 \in 1..n
            BY <6>1
          <6> QED
            BY <6>1, <6>2 DEF n
        <5>2. Append(q, t)[i + 1] = q[i + 1] /\ v[i] = Tail(q)[i] /\ Tail(q)[i] = q[i + 1]
          BY <2>2, <3>2, <3>3, <5>1
        <5> QED
          BY <4>1, <5>2
      <4> QED
        BY <4>2, <4>3
    <3>6. u = v
      BY <3>1, <3>3, <3>4, <3>5, SeqEqual
    <3> QED
      BY <3>6 DEF u, v
  <2> QED
    BY <1>1, <2>1, <2>2, <2>3, <2>4
<1> QED
  BY <1>2, <1>3

\* Losing the first frame or the last one leaves a part.
LEMMA PartTail ==
    ASSUME NEW c \in Seq(Frame), c # << >>
    PROVE  Part(Tail(c), c)
<1>1. Len(c) \in Nat /\ Len(Tail(c)) = Len(c) - 1 /\ \A i \in 1..Len(Tail(c)) : Tail(c)[i] = c[i + 1]
  BY LenProperties, HeadTailProperties
<1>2. \A i \in 1..Len(Tail(c)) : i + 1 \in 1..Len(c)
  BY <1>1
<1> QED
  BY <1>1, <1>2 DEF Part

LEMMA PartFront ==
    ASSUME NEW c \in Seq(Frame), NEW t \in Frame
    PROVE  Part(c, Append(c, t)) /\ Part(c, c)
<1>1. /\ Len(c) \in Nat /\ Len(Append(c, t)) = Len(c) + 1
      /\ \A i \in 1..Len(c) : Append(c, t)[i] = c[i]
  BY LenProperties, AppendProperties
<1>2. \A i \in 1..Len(c) : i + 0 \in 1..Len(Append(c, t)) /\ i + 0 \in 1..Len(c) /\ i + 0 = i
  BY <1>1
<1>3. 0 \in 0..1
  OBVIOUS
<1>4. \A i \in 1..Len(c) : c[i] = Append(c, t)[i + 0] /\ c[i] = c[i + 0]
  BY <1>1, <1>2
<1> QED
  BY <1>2, <1>3, <1>4 DEF Part

\* So does damaging the last one.
LEMMA PartDamaged ==
    ASSUME TypeOK, NEW s \in Side, NEW c \in Seq(Frame), NEW t \in Frame
    PROVE  /\ NoFrame.type = "NONE" /\ Append(c, NoFrame) \in Seq(Frame)
           /\ Part(Append(c, NoFrame), Append(c, t))
<1> DEFINE d == Append(c, NoFrame)
           o == Append(c, t)
<1>0. NoFrame.type = "NONE"
  BY DEF NoFrame
<1>1. NoFrame \in Frame /\ NoFrame.type = "NONE"
  BY <1>0, FrameTypes
<1>2. /\ Len(c) \in Nat /\ d \in Seq(Frame) /\ Len(d) = Len(c) + 1 /\ d[Len(c) + 1] = NoFrame
      /\ \A i \in 1..Len(c) : d[i] = c[i]
  BY <1>1, LenProperties, AppendProperties
<1>3. Len(o) = Len(c) + 1 /\ \A i \in 1..Len(c) : o[i] = c[i]
  BY AppendProperties
<1> HIDE DEF d, o
<1>4. \A i \in 1..Len(d) : /\ i + 0 = i /\ i + 0 \in 1..Len(o)
                           /\ i \in 1..Len(c) \/ i = Len(c) + 1
  BY <1>2, <1>3
<1>5. ASSUME NEW i \in 1..Len(d)
      PROVE  i + 0 \in 1..Len(o) /\ (d[i] = o[i + 0] \/ d[i].type = "NONE")
  <2>1. CASE i \in 1..Len(c)
    BY <1>2, <1>3, <1>4, <2>1
  <2>2. CASE i = Len(c) + 1
    BY <1>1, <1>2, <1>4, <2>2
  <2> QED
    BY <1>4, <2>1, <2>2
<1>6. 0 \in 0..1
  OBVIOUS
<1>7. Part(d, o)
  BY <1>5, <1>6 DEF Part
<1> QED
  BY <1>1, <1>2, <1>7 DEF d, o

\* The order of the handshake holds in a part.
LEMMA HandshakePart ==
    ASSUME NEW c \in Seq(Frame), NEW d \in Seq(Frame), Part(d, c), NEW from, NEW to,
           Handshake(c, from, to)
    PROVE  Handshake(d, from, to)
<1>1. PICK k \in 0..1 : \A i \in 1..Len(d) :
          i + k \in 1..Len(c) /\ (d[i] = c[i + k] \/ d[i].type = "NONE")
  BY DEF Part
<1>2. Len(c) \in Nat /\ Len(d) \in Nat
  BY LenProperties
<1>3. \A i, j \in 1..Len(d) : i < j => i + k < j + k
  BY <1>2
<1>4. \A i, j \in 1..Len(d) : i < j /\ d[i].type = "CONFIG_RSP" => d[j].type # "SYNC"
  BY <1>1, <1>3 DEF Handshake
<1> QED
  BY <1>1, <1>4 DEF Handshake

\* A frame may be sent at the end: SYNC while the link is IDLE, CONFIG_RSP when it
\* is not, any other frame.
LEMMA HandshakeSend ==
    ASSUME NEW c \in Seq(Frame), NEW f \in Frame, NEW from, NEW to, Handshake(c, from, to),
           f.type = "SYNC" => from = "IDLE", f.type = "CONFIG_RSP" => from # "IDLE"
    PROVE  Handshake(Append(c, f), from, to)
<1> DEFINE d == Append(c, f)
<1>1. /\ Len(c) \in Nat /\ Len(d) = Len(c) + 1 /\ d[Len(c) + 1] = f
      /\ \A i \in 1..Len(c) : d[i] = c[i]
  BY LenProperties, AppendProperties
<1> HIDE DEF d
<1>2. \A i \in 1..Len(d) : i \in 1..Len(c) \/ i = Len(c) + 1
  BY <1>1
<1>3. from = "IDLE" => to # "ACTIVE" /\ \A i \in 1..Len(d) : d[i].type # "CONFIG_RSP"
  BY <1>1, <1>2 DEF Handshake
<1>4. to = "ACTIVE" => \A i \in 1..Len(d) : d[i].type # "SYNC"
  BY <1>1, <1>2 DEF Handshake
<1>5. ASSUME NEW i \in 1..Len(d), NEW j \in 1..Len(d), i < j, d[i].type = "CONFIG_RSP"
      PROVE  d[j].type # "SYNC"
  <2>1. i \in 1..Len(c)
    BY <1>1, <1>5
  <2>2. CASE j \in 1..Len(c)
    BY <1>1, <1>5, <2>1, <2>2 DEF Handshake
  <2>3. CASE j = Len(c) + 1
    <3>1. from # "IDLE"
      BY <1>1, <1>5, <2>1 DEF Handshake
    <3> QED
      BY <1>1, <2>3, <3>1
  <2> QED
    BY <1>2, <2>2, <2>3
<1>6. Handshake(d, from, to)
  BY <1>3, <1>4, <1>5 DEF Handshake
<1> QED
  BY <1>6 DEF d

\* CONFIG_RSP arrives: behind it there is no SYNC.
LEMMA HandshakeTurn ==
    ASSUME NEW c \in Seq(Frame), c # << >>, NEW from, NEW to, Handshake(c, from, to),
           c[1].type = "CONFIG_RSP"
    PROVE  Handshake(Tail(c), from, "ACTIVE")
<1> DEFINE d == Tail(c)
<1>1. /\ Len(c) \in Nat /\ Len(c) # 0 /\ d \in Seq(Frame) /\ Len(d) = Len(c) - 1
      /\ \A i \in 1..Len(d) : d[i] = c[i + 1]
  BY LenProperties, EmptySeq, HeadTailProperties
<1>2. Part(d, c)
  BY PartTail
<1> HIDE DEF d
<1>3. 1 \in 1..Len(c) /\ \A i \in 1..Len(d) : i + 1 \in 1..Len(c) /\ 1 < i + 1
  BY <1>1
<1>4. Handshake(d, from, to)
  BY <1>1, <1>2, HandshakePart
<1>5. from # "IDLE"
  BY <1>3 DEF Handshake
<1>6. \A i \in 1..Len(d) : d[i].type # "SYNC"
  BY <1>1, <1>3 DEF Handshake
<1>7. Handshake(d, from, "ACTIVE")
  BY <1>4, <1>5, <1>6 DEF Handshake
<1> QED
  BY <1>7 DEF d

-----------------------------------------------------------------------------
(* The lines under the parts of the handlers.                              *)

LEMMA PeerFacts ==
    ASSUME TypeOK, NEW s \in Side
    PROVE  /\ Peer[s] \in Side /\ Peer[s] # s /\ Peer[Peer[s]] = s
           /\ \A r \in Side \ {s, Peer[s]} : Peer[r] \in Side /\ Peer[r] # s /\ Peer[r] # Peer[s]
           /\ uartRx[s] \in Seq(Frame) /\ uartTx[s] \in Frame /\ Line(s) \in Seq(Frame)
<1>1. Peer[s] \in Side /\ Peer[s] # s /\ Peer[Peer[s]] = s
  BY H5Assumption
<1>2. ASSUME NEW r \in Side, r # s, r # Peer[s]
      PROVE  Peer[r] \in Side /\ Peer[r] # s /\ Peer[r] # Peer[s]
  <2>1. Peer[r] \in Side /\ Peer[Peer[r]] = r
    BY H5Assumption
  <2> QED
    BY <1>1, <1>2, <2>1
<1>3. /\ uartRx[s] \in Seq(Frame) /\ uartTx[s] \in Frame /\ uartRx[Peer[s]] \in Seq(Frame)
  BY <1>1 DEF TypeOK, UartType
<1>4. Line(s) \in Seq(Frame)
  BY <1>3, LineEnd DEF Line
<1> QED
  BY <1>1, <1>2, <1>3, <1>4

\* A line stays when neither end of it changes.
LEMMA LineKept ==
    ASSUME NEW r \in Side, uartRx'[Peer[r]] = uartRx[Peer[r]], uartTx'[r] = uartTx[r]
    PROVE  Line(r)' = Line(r)
BY DEF Line

\* HCI_H5_Send appends the frame, or drops it.
LEMMA LineTransmit ==
    ASSUME TypeOK, NEW s \in Side, NEW f \in Frame, f.type # "NONE", Transmit(s, f) \/ UNCHANGED uartTx,
           uartRx'[Peer[s]] = uartRx[Peer[s]]
    PROVE  /\ Line(s)' = Line(s) \/ (Transmit(s, f) /\ Line(s)' = Append(Line(s), f))
           /\ \A r \in Side \ {s} : uartTx'[r] = uartTx[r]
<1>1. uartTx \in [Side -> Frame] /\ uartRx[Peer[s]] \in Seq(Frame)
  BY PeerFacts DEF TypeOK, UartType
<1>2. CASE UNCHANGED uartTx
  BY <1>2, LineKept
<1>3. CASE uartTx' # uartTx
  <2>1. uartTx[s].type = "NONE" /\ uartTx' = [uartTx EXCEPT ![s] = f] /\ Transmit(s, f)
    BY <1>3 DEF Transmit, UartIdle
  <2>2. uartTx'[s] = f /\ \A r \in Side \ {s} : uartTx'[r] = uartTx[r]
    BY <1>1, <2>1
  <2>3. Line(s) = uartRx[Peer[s]]
    BY <1>1, <2>1, LineEnd DEF Line
  <2>4. LineOf(uartRx[Peer[s]], f) = Append(uartRx[Peer[s]], f)
    BY <1>1, LineEnd
  <2>5. Line(s)' = Append(Line(s), f)
    BY <2>2, <2>3, <2>4 DEF Line
  <2> QED
    BY <2>1, <2>2, <2>5
<1> QED
  BY <1>2, <1>3

\* HCI_Tr_H5RxHandler takes a frame off the line of the peer, and perhaps sends one.
LEMMA RxLines ==
    ASSUME TypeOK, NEW s \in Side, NEW type, Arrived(s, type), TakeFrame(s),
           NEW f \in Frame, f.type # "NONE", Transmit(s, f) \/ UNCHANGED uartTx
    PROVE  LET p == Peer[s] IN
           /\ Line(p) \in Seq(Frame) /\ Line(p) # << >> /\ Line(p)[1] = Head(uartRx[s])
           /\ Line(p)' = Tail(Line(p)) /\ Line(p)' \in Seq(Frame) /\ Part(Line(p)', Line(p))
           /\ Line(s)' = Line(s) \/ (Transmit(s, f) /\ Line(s)' = Append(Line(s), f))
           /\ \A r \in Side \ {s, p} : Line(r)' = Line(r)
<1> DEFINE p == Peer[s]
<1>1. /\ p \in Side /\ p # s /\ Peer[p] = s /\ uartRx[s] \in Seq(Frame) /\ uartTx[p] \in Frame
      /\ \A r \in Side \ {s, p} : Peer[r] \in Side /\ Peer[r] # s
  <2>1. p \in Side /\ p # s /\ Peer[p] = s /\ uartRx[s] \in Seq(Frame)
        /\ \A r \in Side \ {s, p} : Peer[r] \in Side /\ Peer[r] # s
    BY PeerFacts
  <2>2. uartTx[p] \in Frame
    BY <2>1, PeerFacts
  <2> QED
    BY <2>1, <2>2
<1>2. uartRx[s] # << >>
  BY DEF Arrived
<1>3. /\ uartRx'[s] = Tail(uartRx[s]) /\ \A r \in Side \ {s} : uartRx'[r] = uartRx[r]
  BY DEF TakeFrame, TypeOK, UartType
<1>4. /\ Line(s)' = Line(s) \/ (Transmit(s, f) /\ Line(s)' = Append(Line(s), f))
      /\ \A r \in Side \ {s} : uartTx'[r] = uartTx[r]
  BY <1>1, <1>3, LineTransmit
<1>5. /\ Line(p) \in Seq(Frame) /\ Line(p) # << >> /\ Line(p)[1] = Head(uartRx[s])
      /\ LineOf(Tail(uartRx[s]), uartTx[p]) = Tail(Line(p))
  BY <1>1, <1>2, LineTail DEF Line
<1>6. Line(p)' = Tail(Line(p))
  BY <1>1, <1>3, <1>4, <1>5 DEF Line
<1>7. Line(p)' \in Seq(Frame) /\ Part(Line(p)', Line(p))
  <2>1. Tail(Line(p)) \in Seq(Frame) /\ Part(Tail(Line(p)), Line(p))
    BY <1>5, HeadTailProperties, PartTail
  <2> QED
    BY <1>6, <2>1
<1>8. \A r \in Side \ {s, p} : Line(r)' = Line(r)
  BY <1>1, <1>3, <1>4, LineKept
<1> QED
  BY <1>4, <1>5, <1>6, <1>7, <1>8

\* HCI_H5_Poll sends at most one frame.
LEMMA PollLines ==
    ASSUME TypeOK, NEW s \in Side, NEW f \in Frame, f.type # "NONE",
           Transmit(s, f) \/ UNCHANGED uartTx, UNCHANGED uartRx
    PROVE  /\ Line(s)' = Line(s) \/ (Transmit(s, f) /\ Line(s)' = Append(Line(s), f))
           /\ \A r \in Side \ {s} : Line(r)' = Line(r)
<1>1. /\ Line(s)' = Line(s) \/ (Transmit(s, f) /\ Line(s)' = Append(Line(s), f))
      /\ \A r \in Side \ {s} : uartTx'[r] = uartTx[r]
  BY LineTransmit
<1> QED
  BY <1>1, LineKept

\* The frame in transmission arrives, perhaps damaged.
LEMMA WireLines ==
    ASSUME TypeOK, NEW s \in Side, UartRxIRQ(s) \/ UartDamage(s), overruns' = overruns
    PROVE  /\ Line(s)' \in Seq(Frame) /\ Part(Line(s)', Line(s))
           /\ \A r \in Side \ {s} : Line(r)' = Line(r)
<1> DEFINE p == Peer[s]
           q == uartRx[p]
           t == uartTx[s]
<1>1. /\ p \in Side /\ q \in Seq(Frame) /\ t \in Frame /\ NoFrame \in Frame
      /\ uartTx \in [Side -> Frame] /\ uartRx \in [Side -> Seq(Frame)]
  <2>1. NoFrame \in Frame
    BY FrameTypes
  <2>2. p \in Side /\ t \in Frame
    BY PeerFacts
  <2> QED
    BY <2>1, <2>2 DEF TypeOK, UartType
<1>2. t.type # "NONE" /\ uartTx' = [uartTx EXCEPT ![s] = NoFrame]
  <2>1. CASE UartRxIRQ(s)
    BY <2>1 DEF UartRxIRQ, UartIdle
  <2>2. CASE UartDamage(s)
    BY <2>2, H5Assumption DEF UartDamage
  <2> QED
    BY <2>1, <2>2
<1>3. uartTx'[s] = NoFrame /\ \A r \in Side \ {s} : uartTx'[r] = uartTx[r]
  BY <1>1, <1>2
<1>4. /\ uartRx'[p] = Append(q, NoFrame) \/ uartRx'[p] = Append(q, t)
      /\ \A r \in Side \ {p} : uartRx'[r] = uartRx[r]
  <2>1. overruns \in Nat
    BY DEF TypeOK, CountType
  <2>2. PICK f \in {NoFrame, t} : Stored(p, f)
    BY DEF UartRxIRQ, UartDamage
  <2>3. uartRx' = [uartRx EXCEPT ![p] = Append(q, f)]
    BY <2>1, <2>2 DEF Stored
  <2> QED
    BY <1>1, <2>2, <2>3
<1>5. Line(s) = Append(q, t) /\ Append(q, t) \in Seq(Frame)
  BY <1>1, <1>2, LineEnd, AppendProperties DEF Line
<1>6. Line(s)' = uartRx'[p]
  <2>1. NoFrame.type = "NONE" /\ uartRx'[p] \in Seq(Frame)
    BY <1>1, <1>4, <1>5, PartDamaged
  <2>2. LineOf(uartRx'[p], NoFrame) = uartRx'[p]
    BY <1>1, <2>1, LineEnd
  <2> QED
    BY <1>3, <2>2 DEF Line
<1>7. /\ Append(q, NoFrame) \in Seq(Frame) /\ Part(Append(q, NoFrame), Append(q, t))
      /\ Part(Append(q, t), Append(q, t))
  BY <1>1, <1>5, PartFront, PartDamaged
<1>8. ASSUME NEW r \in Side, r # s PROVE Line(r)' = Line(r)
  <2>1. Peer[r] \in Side /\ Peer[r] # p
    BY <1>8, H5Assumption
  <2> QED
    BY <1>3, <1>4, <1>8, <2>1, LineKept
<1> HIDE DEF q, t
<1> QED
  BY <1>1, <1>4, <1>5, <1>6, <1>7, <1>8

-----------------------------------------------------------------------------
(* The handshake.                                                          *)

\* A step of side s that sends a frame it may send, or none, takes perhaps a frame
\* off the line of its peer, and becomes ACTIVE only by CONFIG_RSP.
LEMMA ShakenStep ==
    ASSUME TypeOK, Shaken, NEW s \in Side,
           \A r \in Side \ {s} : link'[r] = link[r],
           link'[s] = "IDLE" => link[s] = "IDLE",
           \/ Line(s)' \in Seq(Frame) /\ Part(Line(s)', Line(s))
           \/ \E f \in Frame : /\ Line(s)' = Append(Line(s), f)
                               /\ f.type = "SYNC" => link[s] = "IDLE"
                               /\ f.type = "CONFIG_RSP" => link[s] # "IDLE",
           Line(Peer[s])' \in Seq(Frame), Part(Line(Peer[s])', Line(Peer[s])),
           \/ link'[s] = "ACTIVE" => link[s] = "ACTIVE"
           \/ /\ Line(Peer[s]) # << >> /\ Line(Peer[s])[1].type = "CONFIG_RSP"
              /\ Line(Peer[s])' = Tail(Line(Peer[s])),
           \A r \in Side \ {s, Peer[s]} : Line(r)' = Line(r)
    PROVE  Shaken'
<1> DEFINE p == Peer[s]
<1>1. /\ p \in Side /\ p # s /\ Peer[p] = s /\ Line(s) \in Seq(Frame) /\ Line(p) \in Seq(Frame)
      /\ \A r \in Side \ {s, p} : Peer[r] \in Side /\ Peer[r] # s
  <2>1. /\ p \in Side /\ p # s /\ Peer[p] = s /\ Line(s) \in Seq(Frame)
        /\ \A r \in Side \ {s, p} : Peer[r] \in Side /\ Peer[r] # s
    BY PeerFacts
  <2>2. Line(p) \in Seq(Frame)
    BY <2>1, PeerFacts
  <2> QED
    BY <2>1, <2>2
<1>2. Handshake(Line(s), link[s], link[p]) /\ Handshake(Line(p), link[p], link[s])
  BY <1>1 DEF Shaken
<1>3. Handshake(Line(s)', link'[s], link'[p])
  <2>1. Handshake(Line(s)', link[s], link[p])
    <3>1. CASE Line(s)' \in Seq(Frame) /\ Part(Line(s)', Line(s))
      BY <1>1, <1>2, <3>1, HandshakePart
    <3>2. ASSUME NEW f \in Frame, Line(s)' = Append(Line(s), f),
                 f.type = "SYNC" => link[s] = "IDLE", f.type = "CONFIG_RSP" => link[s] # "IDLE"
          PROVE  Handshake(Line(s)', link[s], link[p])
      BY <1>1, <1>2, <3>2, HandshakeSend
    <3> QED
      BY <3>1, <3>2
  <2> QED
    BY <1>1, <2>1 DEF Handshake
<1>4. Handshake(Line(p)', link'[p], link'[s])
  <2>1. Handshake(Line(p)', link[p], link[s])
    BY <1>1, <1>2, HandshakePart
  <2>2. CASE link'[s] = "ACTIVE" => link[s] = "ACTIVE"
    BY <1>1, <2>1, <2>2 DEF Handshake
  <2>3. CASE ~(link'[s] = "ACTIVE" => link[s] = "ACTIVE")
    <3>1. link'[s] = "ACTIVE" /\ link'[p] = link[p]
      BY <1>1, <2>3
    <3>2. Handshake(Tail(Line(p)), link[p], "ACTIVE")
      BY <1>1, <1>2, <2>3, HandshakeTurn
    <3> QED
      BY <2>3, <3>1, <3>2
  <2> QED
    BY <2>2, <2>3
<1>5. ASSUME NEW r \in Side \ {s, p} PROVE Handshake(Line(r)', link'[r], link'[Peer[r]])
  <2>1. Line(r)' = Line(r) /\ link'[r] = link[r] /\ link'[Peer[r]] = link[Peer[r]]
    BY <1>1
  <2>2. Handshake(Line(r), link[r], link[Peer[r]])
    BY DEF Shaken
  <2> QED
    BY <2>1, <2>2
<1>6. ASSUME NEW r \in Side PROVE Handshake(Line(r)', link'[r], link'[Peer[r]])
  <2>1. CASE r = s
    BY <1>3, <2>1
  <2>2. CASE r = p
    BY <1>1, <1>4, <2>2
  <2>3. CASE r # s /\ r # p
    BY <1>5, <2>3
  <2> QED
    BY <2>1, <2>2, <2>3
<1> QED
  BY <1>6 DEF Shaken

\* A frame of link control is one that HCI_H5_PackHeader builds.
LEMMA LinkFrames ==
    ASSUME TypeOK, NEW s \in Side, NEW type \in LinkMsg
    PROVE  /\ LinkFrame(s, type) \in Frame /\ LinkFrame(s, type).type = type
           /\ LinkFrame(s, type).type # "NONE" /\ ~Acks(LinkFrame(s, type))
           /\ type = "CONFIG_RSP" => LinkFrame(s, type).cfg = Win[s]
<1>1. LinkFrame(s, type) \in Frame
  BY FrameTypes
<1>2. LinkFrame(s, type).type = type
  BY DEF LinkFrame
<1>3. type \notin {"NONE", "ACK", "DATA"}
  BY DEF LinkMsg
<1>4. type = "CONFIG_RSP" => LinkFrame(s, type).cfg = Win[s]
  BY DEF LinkFrame
<1> QED
  BY <1>1, <1>2, <1>3, <1>4 DEF Acks

\* An ACTIVE link receives no SYNC.
LEMMA NoLateSync ==
    ASSUME TypeOK, Shaken, NEW s \in Side, Arrived(s, "SYNC")
    PROVE  link[s] # "ACTIVE"
<1> DEFINE p == Peer[s]
<1>1. p \in Side /\ Peer[p] = s /\ uartRx[s] \in Seq(Frame)
  BY PeerFacts
<1>2. uartTx[p] \in Frame
  BY <1>1, PeerFacts
<1>3. uartRx[s] # << >> /\ Head(uartRx[s]).type = "SYNC"
  BY DEF Arrived
<1>4. Line(p) \in Seq(Frame) /\ Line(p) # << >> /\ Line(p)[1].type = "SYNC"
  <2>1. /\ LineOf(uartRx[s], uartTx[p]) \in Seq(Frame) /\ LineOf(uartRx[s], uartTx[p]) # << >>
        /\ LineOf(uartRx[s], uartTx[p])[1] = Head(uartRx[s])
    BY <1>1, <1>2, <1>3, LineTail
  <2> QED
    BY <1>1, <1>3, <2>1 DEF Line
<1>5. 1 \in 1..Len(Line(p))
  <2>1. Len(Line(p)) \in Nat /\ Len(Line(p)) # 0
    BY <1>4, LenProperties, EmptySeq
  <2> QED
    BY <2>1
<1>6. Handshake(Line(p), link[p], link[s])
  BY <1>1 DEF Shaken
<1> QED
  BY <1>4, <1>5, <1>6 DEF Handshake

\* What HCI_H5_SendData hands to the UART is a data frame.
LEMMA DataSent ==
    ASSUME IInv, NEW s \in Side, NEW seq \in SN, NEW slid \in Nat, slid <= Len(txq[s]),
           SendDone(s, seq, slid)
    PROVE  LET f == DataFrame(s, seq, txq[s][slid + 1]) IN
           f \in Frame /\ f.type = "DATA" /\ Transmit(s, f)
<1> DEFINE m == txq[s][slid + 1]
           f == DataFrame(s, seq, m)
<1>1. TypeOK /\ txq[s] \in Seq(Msg) /\ Len(txq[s]) \in Nat
  BY LenProperties DEF IInv, TypeOK, SendType
<1>2. Len(txq[s]) # slid /\ UartIdle(s) /\ uartTx' = [uartTx EXCEPT ![s] = f]
  BY DEF SendDone, HasData
<1>3. slid + 1 \in 1..Len(txq[s])
  BY <1>1, <1>2
<1>4. m \in Msg
  BY <1>1, <1>3, ElementOfSeq
<1>5. f \in Frame
  BY <1>1, <1>4, FrameTypes
<1>6. f.type = "DATA"
  BY DEF DataFrame
<1>7. Transmit(s, f)
  BY <1>2 DEF Transmit
<1> QED
  BY <1>5, <1>6, <1>7

LEMMA AckSent ==
    ASSUME TypeOK, NEW ack \in SN, NEW s \in Side
    PROVE  AckFrame(ack) \in Frame /\ AckFrame(ack).type = "ACK" /\ AckFrame(ack).ack = ack
<1>1. AckFrame(ack) \in Frame
  BY FrameTypes
<1> QED
  BY <1>1 DEF AckFrame

\* HCI_H5_Poll of an ACTIVE link sends data or an acknowledgement.
LEMMA PollSends ==
    ASSUME IInv, NEW s \in Side, PollResend(s) \/ PollSend(s)
    PROVE  \E f \in Frame : f.type \in {"DATA", "ACK"} /\ (Transmit(s, f) \/ UNCHANGED uartTx)
<1>1. /\ TypeOK /\ rxAck[s] \in SN /\ txSeq[s] \in SN /\ txAck[s] \in SN /\ txSlid[s] \in Nat
      /\ txSlid[s] <= Len(txq[s]) /\ txq[s] \in Seq(Msg)
  BY DEF IInv, TypeOK, SendType, RecvType, WindowInFifo
<1>2. 0 \in Nat /\ 0 <= Len(txq[s])
  BY <1>1, LenProperties
<1>3. CASE PollAck(s)
  <2>1. AckFrame(txAck[s]) \in Frame /\ AckFrame(txAck[s]).type = "ACK"
    BY <1>1, AckSent
  <2>2. Transmit(s, AckFrame(txAck[s])) \/ UNCHANGED uartTx
    BY <1>3 DEF PollAck
  <2> QED
    BY <2>1, <2>2
<1>4. CASE SendDone(s, rxAck[s], 0)
  BY <1>1, <1>2, <1>4, DataSent
<1>5. CASE SendDone(s, txSeq[s], txSlid[s])
  BY <1>1, <1>5, DataSent
<1>6. PollAck(s) \/ SendDone(s, rxAck[s], 0) \/ SendDone(s, txSeq[s], txSlid[s])
  BY DEF PollResend, PollSend, SendData
<1> QED
  BY <1>3, <1>4, <1>5, <1>6

\* HCI_H5_DecodeDataPdu sends at most an acknowledgement.
LEMMA ReliableSends ==
    ASSUME IInv, NEW s \in Side, RxReliable(s)
    PROVE  \E f \in Frame : f.type = "ACK" /\ (Transmit(s, f) \/ UNCHANGED uartTx)
<1>1. TypeOK /\ Incr(txAck[s]) \in SN
  <2>1. TypeOK /\ txAck[s] \in SN
    BY DEF IInv, TypeOK, RecvType
  <2> QED
    BY <2>1, SeqNumber
<1>2. AckFrame(Incr(txAck[s])) \in Frame /\ AckFrame(Incr(txAck[s])).type = "ACK"
  BY <1>1, AckSent
<1>3. Transmit(s, AckFrame(Incr(txAck[s]))) \/ UNCHANGED uartTx
  BY DEF RxReliable, AcceptReliable
<1> QED
  BY <1>2, <1>3

\* Every step that disturbs nothing keeps the order of the handshake.
LEMMA RxShaken ==
    ASSUME IInv, Shaken, NEW s \in Side, RxHandler(s), overruns' = overruns
    PROVE  Shaken' /\ (link[s] = "ACTIVE" => link'[s] = "ACTIVE")
           /\ \A r \in Side \ {s} : link'[r] = link[r]
<1> DEFINE p == Peer[s]
<1>1. TypeOK /\ link \in [Side -> {"IDLE", "INIT", "ACTIVE"}] /\ p \in Side /\ p # s
  BY PeerFacts DEF IInv, TypeOK, LinkType
<1>2. Line(s) \in Seq(Frame) /\ Part(Line(s), Line(s))
  <2>1. Line(s) \in Seq(Frame) /\ NoFrame \in Frame
    BY <1>1, PeerFacts, FrameTypes
  <2> QED
    BY <2>1, PartFront
<1>3. ASSUME NEW type, Arrived(s, type), TakeFrame(s), NEW f \in Frame, f.type # "NONE",
             Transmit(s, f) \/ UNCHANGED uartTx,
             f.type = "SYNC" => link[s] = "IDLE", f.type = "CONFIG_RSP" => link[s] # "IDLE",
             \A r \in Side \ {s} : link'[r] = link[r],
             link'[s] = "IDLE" => link[s] = "IDLE",
             (link'[s] = "ACTIVE" => link[s] = "ACTIVE") \/ type = "CONFIG_RSP"
      PROVE  Shaken'
  <2>1. /\ Line(p) # << >> /\ Line(p)[1] = Head(uartRx[s])
        /\ Line(p)' = Tail(Line(p)) /\ Line(p)' \in Seq(Frame) /\ Part(Line(p)', Line(p))
        /\ Line(s)' = Line(s) \/ Line(s)' = Append(Line(s), f)
        /\ \A r \in Side \ {s, p} : Line(r)' = Line(r)
    BY <1>1, <1>3, RxLines
  <2>2. type = "CONFIG_RSP" => Line(p)[1].type = "CONFIG_RSP"
    BY <1>3, <2>1 DEF Arrived
  <2>3. \/ Line(s)' \in Seq(Frame) /\ Part(Line(s)', Line(s))
        \/ Line(s)' = Append(Line(s), f)
    BY <1>2, <2>1
  <2> QED
    BY <1>1, <1>3, <2>1, <2>2, <2>3, ShakenStep
<1>4. CASE RxSync(s)
  <2>1. Arrived(s, "SYNC") /\ TakeFrame(s) /\ Transmit(s, LinkFrame(s, "SYNC_RSP"))
    BY <1>4 DEF RxSync
  <2>2. link[s] # "ACTIVE"
    BY <1>1, <2>1, NoLateSync
  <2>3. UNCHANGED link
    BY <1>4, <2>2 DEF RxSync
  <2>4. LinkFrame(s, "SYNC_RSP") \in Frame /\ LinkFrame(s, "SYNC_RSP").type = "SYNC_RSP"
    BY <1>1, LinkFrames DEF LinkMsg
  <2>5. Shaken'
    BY <1>3, <2>1, <2>3, <2>4
  <2> QED
    BY <2>3, <2>5
<1>5. CASE RxSyncRsp(s)
  <2>1. Arrived(s, "SYNC_RSP") /\ TakeFrame(s)
        /\ (Transmit(s, LinkFrame(s, "CONFIG")) \/ UNCHANGED uartTx)
    BY <1>5 DEF RxSyncRsp
  <2>2. LinkFrame(s, "CONFIG") \in Frame /\ LinkFrame(s, "CONFIG").type = "CONFIG"
    BY <1>1, LinkFrames DEF LinkMsg
  <2>3. /\ \A r \in Side \ {s} : link'[r] = link[r]
        /\ link'[s] = IF link[s] = "IDLE" THEN "INIT" ELSE link[s]
    BY <1>1, <1>5 DEF RxSyncRsp
  <2>4. Shaken'
    BY <1>3, <2>1, <2>2, <2>3
  <2> QED
    BY <2>3, <2>4
<1>6. CASE RxConfig(s)
  <2> DEFINE type == IF link[s] = "IDLE" THEN "SYNC" ELSE "CONFIG_RSP"
  <2>1. Arrived(s, "CONFIG") /\ TakeFrame(s) /\ Transmit(s, LinkFrame(s, type)) /\ UNCHANGED link
    BY <1>6 DEF RxConfig, linkVars
  <2>2. LinkFrame(s, type) \in Frame /\ LinkFrame(s, type).type = type
    BY <1>1, LinkFrames DEF LinkMsg
  <2>3. Shaken'
    BY <1>3, <2>1, <2>2
  <2> QED
    BY <2>1, <2>3
<1>7. CASE RxConfigRsp(s)
  <2>1. Arrived(s, "CONFIG_RSP") /\ TakeFrame(s)
    BY <1>7 DEF RxConfigRsp
  <2>2. LinkFrame(s, "SYNC") \in Frame /\ LinkFrame(s, "SYNC").type = "SYNC"
        /\ LinkFrame(s, "CONFIG") \in Frame /\ LinkFrame(s, "CONFIG").type = "CONFIG"
    BY <1>1, LinkFrames DEF LinkMsg
  <2>3. CASE link[s] = "IDLE"
    <3>1. Transmit(s, LinkFrame(s, "SYNC")) /\ UNCHANGED link
      BY <1>7, <2>3 DEF RxConfigRsp, linkVars
    <3>2. Shaken'
      BY <1>3, <2>1, <2>2, <2>3, <3>1
    <3> QED
      BY <3>1, <3>2
  <2>4. CASE link[s] # "IDLE"
    <3>1. UNCHANGED uartTx /\ link'[s] = "ACTIVE" /\ \A r \in Side \ {s} : link'[r] = link[r]
      BY <1>1, <1>7, <2>4 DEF RxConfigRsp, linkVars
    <3>2. Shaken'
      BY <1>3, <2>1, <2>2, <3>1
    <3> QED
      BY <3>1, <3>2
  <2> QED
    BY <2>3, <2>4
<1>8. CASE RxAck(s) \/ RxUnreliable(s) \/ RxDataEarly(s) \/ RxDamaged(s)
  <2>1. /\ Arrived(s, "ACK") \/ Arrived(s, "DATA") \/ Arrived(s, "NONE")
        /\ TakeFrame(s) /\ UNCHANGED <<link, uartTx>>
    BY <1>8 DEF RxAck, RxUnreliable, RxDataEarly, RxDamaged, linkVars
  <2>2. LinkFrame(s, "CONFIG") \in Frame /\ LinkFrame(s, "CONFIG").type = "CONFIG"
    BY <1>1, LinkFrames DEF LinkMsg
  <2>3. Shaken'
    BY <1>3, <2>1, <2>2
  <2> QED
    BY <2>1, <2>3
<1>9. CASE RxReliable(s)
  <2>1. Arrived(s, "DATA") /\ TakeFrame(s) /\ UNCHANGED link
    BY <1>9 DEF RxReliable, linkVars
  <2>2. PICK f \in Frame : f.type = "ACK" /\ (Transmit(s, f) \/ UNCHANGED uartTx)
    BY <1>9, ReliableSends
  <2>3. Shaken'
    BY <1>3, <2>1, <2>2
  <2> QED
    BY <2>1, <2>3
<1>10. ~RxSpoilt(s)
  BY <1>1 DEF RxSpoilt, TypeOK, CountType
<1> QED
  BY <1>4, <1>5, <1>6, <1>7, <1>8, <1>9, <1>10 DEF RxHandler

LEMMA OtherShaken ==
    ASSUME IInv, Shaken, NEW s \in Side, overruns' = overruns,
           \/ PollLink(s) \/ PollResend(s) \/ PollSend(s)
           \/ QueueTx(s) \/ UartRxIRQ(s) \/ UartDamage(s)
    PROVE  Shaken' /\ UNCHANGED link
<1> DEFINE p == Peer[s]
<1>1. TypeOK /\ p \in Side /\ p # s /\ Line(s) \in Seq(Frame)
  BY PeerFacts DEF IInv
<1>2. Line(p) \in Seq(Frame) /\ Part(Line(s), Line(s)) /\ Part(Line(p), Line(p))
  <2>1. Line(p) \in Seq(Frame) /\ NoFrame \in Frame
    BY <1>1, PeerFacts, FrameTypes
  <2> QED
    BY <1>1, <2>1, PartFront
<1>3. UNCHANGED link
  BY DEF PollLink, PollResend, PollSend, QueueTx, UartRxIRQ, UartDamage, linkVars
<1>4. ASSUME NEW f \in Frame, f.type # "NONE", Transmit(s, f) \/ UNCHANGED uartTx, UNCHANGED uartRx,
             f.type = "SYNC" => link[s] = "IDLE", f.type # "CONFIG_RSP"
      PROVE  Shaken'
  <2>1. /\ Line(s)' = Line(s) \/ Line(s)' = Append(Line(s), f)
        /\ \A r \in Side \ {s} : Line(r)' = Line(r)
    BY <1>1, <1>4, PollLines
  <2>2. \/ Line(s)' \in Seq(Frame) /\ Part(Line(s)', Line(s))
        \/ Line(s)' = Append(Line(s), f)
    BY <1>1, <1>2, <2>1
  <2>3. Line(p)' \in Seq(Frame) /\ Part(Line(p)', Line(p))
    BY <1>1, <1>2, <2>1
  <2> QED
    BY <1>1, <1>3, <1>4, <2>1, <2>2, <2>3, ShakenStep
<1>5. LinkFrame(s, "CONFIG") \in Frame /\ LinkFrame(s, "CONFIG").type = "CONFIG"
      /\ LinkFrame(s, "SYNC") \in Frame /\ LinkFrame(s, "SYNC").type = "SYNC"
  BY <1>1, LinkFrames DEF LinkMsg
<1>6. CASE PollLink(s)
  <2>1. Transmit(s, LinkFrame(s, IF link[s] = "IDLE" THEN "SYNC" ELSE "CONFIG")) /\ UNCHANGED uartRx
    BY <1>6 DEF PollLink
  <2>2. CASE link[s] = "IDLE"
    BY <1>3, <1>4, <1>5, <2>1, <2>2
  <2>3. CASE link[s] # "IDLE"
    BY <1>3, <1>4, <1>5, <2>1, <2>3
  <2> QED
    BY <2>2, <2>3
<1>7. CASE PollResend(s) \/ PollSend(s)
  <2>1. PICK f \in Frame : f.type \in {"DATA", "ACK"} /\ (Transmit(s, f) \/ UNCHANGED uartTx)
    BY <1>7, PollSends
  <2>2. UNCHANGED uartRx
    BY <1>7 DEF PollResend, PollSend
  <2> QED
    BY <1>3, <1>4, <2>1, <2>2
<1>8. CASE QueueTx(s)
  <2>1. UNCHANGED <<uartTx, uartRx>>
    BY <1>8 DEF QueueTx
  <2> QED
    BY <1>3, <1>4, <1>5, <2>1
<1>9. CASE UartRxIRQ(s) \/ UartDamage(s)
  <2>1. /\ Line(s)' \in Seq(Frame) /\ Part(Line(s)', Line(s))
        /\ \A r \in Side \ {s} : Line(r)' = Line(r)
    BY <1>1, <1>9, WireLines
  <2>2. Line(p)' \in Seq(Frame) /\ Part(Line(p)', Line(p))
    BY <1>1, <1>2, <2>1
  <2>3. Shaken'
    BY <1>1, <1>3, <2>1, <2>2, ShakenStep
  <2> QED
    BY <1>3, <2>3
<1> QED
  BY <1>6, <1>7, <1>8, <1>9

\* Nothing is on its way when the two sides start.
LEMMA InitLines == Init => \A s \in Side : Line(s) = << >>
<1> SUFFICES ASSUME Init, NEW s \in Side PROVE Line(s) = << >>
  OBVIOUS
<1>1. Peer[s] \in Side
  BY H5Assumption
<1>2. uartRx[Peer[s]] = << >> /\ uartTx[s] = NoFrame
  BY <1>1 DEF Init
<1>3. NoFrame.type = "NONE" /\ << >> \o << >> = << >>
  BY EmptySeq, ConcatEmptySeq DEF NoFrame
<1> QED
  BY <1>2, <1>3 DEF Line, LineOf

LEMMA InitLink == Init => LinkInv
<1> SUFFICES ASSUME Init PROVE Shaken
  BY DEF LinkInv
<1>1. ASSUME NEW s \in Side PROVE Handshake(Line(s), link[s], link[Peer[s]])
  <2>1. Line(s) = << >> /\ Len(<< >>) = 0 /\ 1..0 = {}
    BY InitLines, EmptySeq
  <2>2. link[Peer[s]] = "IDLE"
    BY H5Assumption DEF Init
  <2> QED
    BY <2>1, <2>2 DEF Handshake
<1> QED
  BY <1>1 DEF Shaken

\* What was disturbed stays disturbed: a step that leaves both counters at zero
\* found them there and is no restart.
LEMMA StillUndisturbed ==
    ASSUME IInv, [Next]_vars, Undisturbed'
    PROVE  /\ Undisturbed /\ reboots' = reboots /\ overruns' = overruns
           /\ \A s \in Side : ~Reboot(s)
<1>1. reboots \in Nat /\ overruns \in Nat /\ reboots' = 0 /\ overruns' = 0
  BY DEF IInv, TypeOK, CountType, Undisturbed
<1>2. \A s \in Side : ~Reboot(s)
  BY <1>1 DEF Reboot
<1>3. reboots' = reboots /\ overruns' \in {overruns, overruns + 1}
  <2>1. CASE Next
    BY <1>2, <2>1 DEF Next, RxHandler, RxSync, RxSyncRsp, RxConfig, RxConfigRsp, RxAck, RxReliable,
                      RxUnreliable, RxDataEarly, RxDamaged, RxSpoilt, PollLink, PollResend,
                      PollSend, QueueTx, UartRxIRQ, UartDamage, Stored, faultVars
  <2>2. CASE UNCHANGED vars
    BY <2>2 DEF vars, faultVars
  <2> QED
    BY <2>1, <2>2
<1> QED
  BY <1>1, <1>2, <1>3 DEF Undisturbed

\* Every step keeps the invariant of the handshake, and an ACTIVE link leaves that
\* state only once a side has restarted or found its UART Rx FIFO full.
LEMMA NextLink ==
    IInv /\ LinkInv /\ [Next]_vars =>
        /\ LinkInv'
        /\ \A s \in Side : link[s] = "ACTIVE" /\ link'[s] # "ACTIVE"
                             => reboots' > 0 \/ overruns' > 0
<1> SUFFICES ASSUME IInv, LinkInv, [Next]_vars
             PROVE  /\ LinkInv'
                    /\ \A s \in Side : link[s] = "ACTIVE" /\ link'[s] # "ACTIVE"
                                         => reboots' > 0 \/ overruns' > 0
  OBVIOUS
<1>1. IInv' /\ reboots' \in Nat /\ overruns' \in Nat
  <2>1. IInv'
    BY NextIInv
  <2> QED
    BY <2>1 DEF IInv, TypeOK, CountType
<1>2. CASE ~Undisturbed'
  BY <1>1, <1>2 DEF LinkInv, Undisturbed
<1>3. CASE Undisturbed'
  <2>1. CASE Next
    <3>1. PICK s \in Side :
            \/ RxHandler(s)
            \/ PollLink(s) \/ PollResend(s) \/ PollSend(s)
            \/ QueueTx(s)
            \/ UartRxIRQ(s) \/ UartDamage(s)
            \/ Reboot(s)
      BY <2>1 DEF Next
    <3>2. ~Reboot(s) /\ overruns' = overruns
      BY <1>3, StillUndisturbed
    <3>4. Shaken
      BY <1>3, StillUndisturbed DEF LinkInv
    <3>5. Shaken' /\ \A r \in Side : link[r] = "ACTIVE" => link'[r] = "ACTIVE"
      <4>1. CASE RxHandler(s)
        BY <3>2, <3>4, <4>1, RxShaken
      <4>2. CASE ~RxHandler(s)
        BY <3>1, <3>2, <3>4, <4>2, OtherShaken
      <4> QED
        BY <4>1, <4>2
    <3> QED
      BY <3>5 DEF LinkInv
  <2>2. CASE UNCHANGED vars
    <3>1. UNCHANGED <<link, uartRx, uartTx, reboots, overruns>>
      BY <2>2 DEF vars, linkVars, faultVars
    <3>2. \A r \in Side : Line(r)' = Line(r)
      BY <3>1 DEF Line
    <3> QED
      BY <3>1, <3>2 DEF LinkInv, Shaken, Undisturbed
  <2> QED
    BY <2>1, <2>2
<1> QED
  BY <1>2, <1>3

\* Late or repeated SYNC frames, in whatever order they, the answers and the timers
\* come, do not throw an established link away: a link leaves ACTIVE only after a
\* side has restarted, or a frame has found the UART Rx FIFO of
\* HCI_Tr_H5UartRxIRQHandler full and gone ahead of the frames in it.  For every
\* window, FIFO size and number of damaged frames.
THEOREM H5NoSpuriousReset == Spec => NoSpuriousReset
<1>1. Init => LinkInv
  BY InitLink
<1>2. IInv /\ LinkInv /\ [Next]_vars => LinkInv'
  BY NextLink
<1>3. IInv /\ LinkInv /\ [Next]_vars =>
          [\A s \in Side : link[s] = "ACTIVE" /\ link'[s] # "ACTIVE"
                             => reboots' > 0 \/ overruns' > 0]_vars
  BY NextLink
<1> QED
  BY <1>1, <1>2, <1>3, IInvAlways, PTL DEF Spec, NoSpuriousReset

-----------------------------------------------------------------------------
(* The exchange: what each part of it survives.                            *)

\* With at least two sequence numbers, the next one is another one.
LEMMA IncrOther ==
    ASSUME NEW n \in SN
    PROVE  Incr(n) \in SN /\ Incr(n) # n
<1>1. Incr(n) \in SN
  BY SeqNumber
<1>2. SeqMod \in Nat /\ SeqMod > 1 /\ n \in Nat /\ n < SeqMod
  BY H5Assumption DEF SN
<1>3. CASE n + 1 = SeqMod
  <2>1. (n + 1) % SeqMod = 0
    BY <1>2, <1>3
  <2> QED
    BY <1>1, <1>2, <1>3, <2>1 DEF Incr
<1>4. CASE n + 1 # SeqMod
  <2>1. n + 1 < SeqMod
    BY <1>2, <1>4
  <2>2. (n + 1) % SeqMod = n + 1
    BY <1>2, <2>1
  <2> QED
    BY <1>1, <1>2, <2>2 DEF Incr
<1> QED
  BY <1>3, <1>4

\* The places of Append(c, f).
LEMMA AppendPlaces ==
    ASSUME NEW c \in Seq(Frame), NEW f \in Frame
    PROVE  /\ Len(c) \in Nat /\ Append(c, f) \in Seq(Frame)
           /\ \A i \in 1..Len(Append(c, f)) :
                 \/ i \in 1..Len(c) /\ Append(c, f)[i] = c[i]
                 \/ i = Len(c) + 1 /\ Append(c, f)[i] = f
           /\ \A i, j \in 1..Len(Append(c, f)) : i < j => i \in 1..Len(c)
<1>1. /\ Len(c) \in Nat /\ Append(c, f) \in Seq(Frame) /\ Len(Append(c, f)) = Len(c) + 1
      /\ Append(c, f)[Len(c) + 1] = f /\ \A i \in 1..Len(c) : Append(c, f)[i] = c[i]
  BY LenProperties, AppendProperties
<1>2. \A i \in 1..Len(Append(c, f)) : i \in 1..Len(c) \/ i = Len(c) + 1
  BY <1>1
<1>3. \A i, j \in 1..Len(Append(c, f)) : i < j => i \in 1..Len(c)
  BY <1>1
<1> QED
  BY <1>1, <1>2, <1>3

\* The places of Tail(c).
LEMMA TailPlaces ==
    ASSUME NEW c \in Seq(Frame), c # << >>
    PROVE  /\ Tail(c) \in Seq(Frame) /\ 1 \in 1..Len(c) /\ Part(Tail(c), c)
           /\ \A i \in 1..Len(Tail(c)) : /\ i + 1 \in 1..Len(c) /\ 1 < i + 1
                                         /\ Tail(c)[i] = c[i + 1]
<1>1. /\ Len(c) \in Nat /\ Len(c) # 0 /\ Tail(c) \in Seq(Frame) /\ Len(Tail(c)) = Len(c) - 1
      /\ \A i \in 1..Len(Tail(c)) : Tail(c)[i] = c[i + 1]
  BY LenProperties, EmptySeq, HeadTailProperties
<1>2. 1 \in 1..Len(c) /\ \A i \in 1..Len(Tail(c)) : i + 1 \in 1..Len(c) /\ 1 < i + 1
  BY <1>1
<1> QED
  BY <1>1, <1>2, PartTail

\* Data frames: a part of them, and a frame that is not a data frame.
LEMMA DataPart ==
    ASSUME NEW c \in Seq(Frame), NEW d \in Seq(Frame), Part(d, c),
           NEW a, NEW slid, NEW seq, NEW q, NEW e, NEW b, DataOK(c, a, slid, seq, q, e, b)
    PROVE  DataOK(d, a, slid, seq, q, e, b)
<1>1. PICK k \in 0..1 : \A i \in 1..Len(d) :
          i + k \in 1..Len(c) /\ (d[i] = c[i + k] \/ d[i].type = "NONE")
  BY DEF Part
<1>2. Len(c) \in Nat /\ Len(d) \in Nat
  BY LenProperties
<1>3. \A i, j \in 1..Len(d) : i < j => i + k < j + k
  BY <1>2
<1>4. ASSUME NEW i \in 1..Len(d), NEW j \in 1..Len(d), i < j,
             d[i].type = "DATA", d[j].type = "DATA", d[i].seq = a
      PROVE  d[j].seq = a
  <2>1. /\ i + k \in 1..Len(c) /\ j + k \in 1..Len(c) /\ i + k < j + k
        /\ d[i] = c[i + k] /\ d[j] = c[j + k]
    BY <1>1, <1>3, <1>4
  <2> QED
    BY <1>4, <2>1 DEF DataOK
<1> QED
  BY <1>1, <1>4 DEF DataOK

LEMMA DataAppend ==
    ASSUME NEW c \in Seq(Frame), NEW f \in Frame, f.type # "DATA",
           NEW a, NEW slid, NEW seq, NEW q, NEW e, NEW b, DataOK(c, a, slid, seq, q, e, b)
    PROVE  DataOK(Append(c, f), a, slid, seq, q, e, b)
<1> DEFINE d == Append(c, f)
<1>1. \A i \in 1..Len(d) : d[i].type = "DATA" => i \in 1..Len(c) /\ d[i] = c[i]
  BY AppendPlaces
<1> HIDE DEF d
<1>2. DataOK(d, a, slid, seq, q, e, b)
  BY <1>1 DEF DataOK
<1> QED
  BY <1>2 DEF d

\* HCI_H5_SendData sends the first packet, for the first time or again.
LEMMA DataSend ==
    ASSUME NEW c \in Seq(Frame), NEW f \in Frame, NEW a, NEW slid, NEW seq, NEW seq2, NEW q, NEW e,
           NEW b, q # << >>,
           DataOK(c, a, slid, seq, q, e, b), f.type = "DATA" /\ f.rel /\ f.seq = a /\ f.msg = q[1]
    PROVE  DataOK(Append(c, f), a, 1, seq2, q, e, b)
<1> DEFINE d == Append(c, f)
<1>1. /\ \A i \in 1..Len(d) : (i \in 1..Len(c) /\ d[i] = c[i]) \/ d[i] = f
      /\ \A i, j \in 1..Len(d) : i < j => i \in 1..Len(c)
      /\ \A j \in 1..Len(d) : j \notin 1..Len(c) => d[j] = f
  BY AppendPlaces
<1> HIDE DEF d
<1>2. \A i \in 1..Len(d) : d[i].type = "DATA" =>
          /\ d[i].rel
          /\ \/ d[i].seq = a /\ q # << >> /\ d[i].msg = q[1]
             \/ d[i].seq # a /\ e = a
  BY <1>1 DEF DataOK
<1>3. ASSUME NEW i \in 1..Len(d), NEW j \in 1..Len(d), i < j,
             d[i].type = "DATA", d[j].type = "DATA", d[i].seq = a
      PROVE  d[j].seq = a
  <2>1. CASE d[j] = f
    BY <2>1
  <2>2. CASE d[j] # f
    <3>1. j \in 1..Len(c) /\ d[j] = c[j] /\ i \in 1..Len(c)
      BY <1>1, <1>3, <2>2
    <3>2. d[i] = c[i] \/ d[i] = f
      BY <1>1
    <3>3. Append(c, f)[i] = c[i]
      BY <3>1, AppendProperties
    <3> QED
      BY <1>3, <3>1, <3>3 DEF DataOK, d
  <2> QED
    BY <2>1, <2>2
<1>4. DataOK(d, a, 1, seq2, q, e, b)
  BY <1>2, <1>3 DEF DataOK, Sent
<1> QED
  BY <1>4 DEF d

\* The receiver takes the first packet in.
LEMMA DataTaken ==
    ASSUME NEW c \in Seq(Frame), c # << >>, NEW a, NEW slid, NEW seq, NEW q, NEW e, NEW e2,
           NEW b,
           DataOK(c, a, slid, seq, q, e, b), c[1].type = "DATA", c[1].seq = e
    PROVE  /\ e = a /\ Sent(a, slid, seq, b) /\ q # << >> /\ c[1].msg = q[1]
           /\ DataOK(Tail(c), a, slid, seq, q, e2, b)
<1> DEFINE d == Tail(c)
<1>1. /\ 1 \in 1..Len(c)
      /\ \A i \in 1..Len(d) : i + 1 \in 1..Len(c) /\ 1 < i + 1 /\ d[i] = c[i + 1]
  BY TailPlaces
<1>2. Part(d, c) /\ d \in Seq(Frame)
  BY TailPlaces
<1> HIDE DEF d
<1>3. c[1].seq = a /\ e = a /\ Sent(a, slid, seq, b) /\ q # << >> /\ c[1].msg = q[1]
  BY <1>1 DEF DataOK
<1>4. DataOK(d, a, slid, seq, q, e, b)
  BY <1>2, DataPart
<1>5. \A i \in 1..Len(d) : d[i].type = "DATA" => d[i].seq = a
  BY <1>1, <1>3 DEF DataOK
<1>6. DataOK(d, a, slid, seq, q, e2, b)
  BY <1>4, <1>5 DEF DataOK
<1> QED
  BY <1>3, <1>6 DEF d

\* The first packet, taken in, is acknowledged: what is left of it on the way is old.
LEMMA DataReleased ==
    ASSUME NEW c \in Seq(Frame), NEW a, NEW slid, NEW seq, NEW q, NEW e, NEW b, e # a,
           NEW slid2, NEW seq2, NEW q2,
           DataOK(c, a, slid, seq, q, e, b)
    PROVE  DataOK(c, e, slid2, seq2, q2, e, b)
BY DEF DataOK

\* Acknowledgements: a part of them, and a frame that is none.
LEMMA AckPart ==
    ASSUME NEW c \in Seq(Frame), NEW d \in Seq(Frame), Part(d, c),
           NEW a, NEW e, NEW rq, AckOK(c, a, e, rq)
    PROVE  AckOK(d, a, e, rq)
<1>1. PICK k \in 0..1 : \A i \in 1..Len(d) :
          i + k \in 1..Len(c) /\ (d[i] = c[i + k] \/ d[i].type = "NONE")
  BY DEF Part
<1>2. Len(c) \in Nat /\ Len(d) \in Nat
  BY LenProperties
<1>3. \A i, j \in 1..Len(d) : i < j => i + k < j + k
  BY <1>2
<1>4. ASSUME NEW i \in 1..Len(d), NEW j \in 1..Len(d), i < j,
             Acks(d[i]), Acks(d[j]), d[i].ack # a
      PROVE  d[j].ack # a
  BY <1>1, <1>3, <1>4 DEF AckOK, Acks
<1> QED
  BY <1>1, <1>4 DEF AckOK, Acks

LEMMA AckAppend ==
    ASSUME NEW c \in Seq(Frame), NEW f \in Frame, ~Acks(f),
           NEW a, NEW e, NEW rq, AckOK(c, a, e, rq)
    PROVE  AckOK(Append(c, f), a, e, rq)
<1> DEFINE d == Append(c, f)
<1>1. \A i \in 1..Len(d) : Acks(d[i]) => i \in 1..Len(c) /\ d[i] = c[i]
  BY AppendPlaces
<1> HIDE DEF d
<1>2. AckOK(d, a, e, rq)
  BY <1>1 DEF AckOK
<1> QED
  BY <1>2 DEF d

\* The receiver acknowledges what it has taken in, its FIFO emptied.
LEMMA AckSend ==
    ASSUME NEW c \in Seq(Frame), NEW f \in Frame, NEW a, NEW e, NEW rq, AckOK(c, a, e, rq),
           Acks(f) => f.ack = e
    PROVE  AckOK(Append(c, f), a, e, << >>)
<1> DEFINE d == Append(c, f)
<1>1. /\ \A i \in 1..Len(d) : (i \in 1..Len(c) /\ d[i] = c[i]) \/ (i \notin 1..Len(c) /\ d[i] = f)
      /\ \A i, j \in 1..Len(d) : i < j => i \in 1..Len(c)
  BY AppendPlaces
<1> HIDE DEF d
<1>2. \A i \in 1..Len(d) : Acks(d[i]) => d[i].ack = a \/ d[i].ack = e
  BY <1>1 DEF AckOK
<1>3. ASSUME NEW i \in 1..Len(d), NEW j \in 1..Len(d), i < j,
             Acks(d[i]), Acks(d[j]), d[i].ack # a
      PROVE  d[j].ack # a
  <2>1. i \in 1..Len(c) /\ d[i] = c[i] /\ c[i].ack = e
    BY <1>1, <1>3 DEF AckOK
  <2>2. CASE d[j] = f
    BY <1>3, <2>1, <2>2
  <2>3. CASE d[j] # f
    BY <1>1, <1>3, <2>1, <2>3 DEF AckOK
  <2> QED
    BY <2>2, <2>3
<1>4. AckOK(d, a, e, << >>)
  BY <1>2, <1>3 DEF AckOK
<1> QED
  BY <1>4 DEF d

\* The receiver takes a packet in: all that is on its way back is older.
LEMMA AckTakenIn ==
    ASSUME NEW c \in Seq(Frame), NEW a, NEW m, AckOK(c, a, a, << >>)
    PROVE  AckOK(c, a, Incr(a), <<m>>)
<1>1. \A i \in 1..Len(c) : Acks(c[i]) => c[i].ack = a
  BY DEF AckOK
<1>2. Len(<<m>>) = 1
  OBVIOUS
<1> QED
  BY <1>1, <1>2 DEF AckOK

\* The acknowledgement of the first packet arrives: the others are of it as well.
LEMMA AckReleased ==
    ASSUME NEW c \in Seq(Frame), c # << >>, NEW a, NEW e, NEW rq, AckOK(c, a, e, rq),
           Acks(c[1]), c[1].ack # a
    PROVE  c[1].ack = e /\ rq = << >> /\ AckOK(Tail(c), e, e, rq)
<1> DEFINE d == Tail(c)
<1>1. /\ 1 \in 1..Len(c) /\ d \in Seq(Frame) /\ Part(d, c)
      /\ \A i \in 1..Len(d) : i + 1 \in 1..Len(c) /\ 1 < i + 1 /\ d[i] = c[i + 1]
  BY TailPlaces
<1> HIDE DEF d
<1>2. c[1].ack = e /\ rq = << >>
  BY <1>1 DEF AckOK
<1>3. \A i \in 1..Len(d) : Acks(d[i]) => d[i].ack = e
  BY <1>1 DEF AckOK
<1>4. AckOK(d, e, e, rq)
  BY <1>2, <1>3 DEF AckOK
<1> QED
  BY <1>2, <1>4 DEF d

\* What has been taken in: the controller queues a packet.
LEMMA TakenQueue ==
    ASSUME NEW a, NEW e, NEW q \in Seq(Msg), NEW n \in Nat, NEW tk \in Seq(Nat), NEW rel,
           NEW drop, NEW b, Taken(a, e, q, n, tk, rel, drop, b)
    PROVE  Taken(a, e, Append(q, n + 1), n + 1, tk, rel, drop, b)
<1> DEFINE r == Append(q, n + 1)
           l == Len(q)
<1>1. /\ l \in Nat /\ Len(r) = l + 1 /\ r[l + 1] = n + 1 /\ \A i \in 1..l : r[i] = q[i]
  <2>1. n + 1 \in Msg
    BY DEF Msg
  <2> QED
    BY <2>1, LenProperties, AppendProperties
<1>2. \A i \in 1..l : q[i] = n - l + i
  BY DEF Taken
<1>3. e # a => l # 0 /\ q[1] \in Elems(tk)
  BY EmptySeq DEF Taken
<1>4. b = 0 => \A i \in 1..Len(tk) : tk[i] <= n - l \/ (e # a /\ tk[i] = q[1])
  BY DEF Taken
<1> HIDE DEF r, l
<1>5. \A i \in 1..Len(r) : r[i] = (n + 1) - Len(r) + i
  <2>1. (n + 1) - Len(r) = n - l
    BY <1>1
  <2>2. ASSUME NEW i \in 1..Len(r) PROVE r[i] = n - l + i
    <3>1. i \in 1..l \/ i = l + 1
      BY <1>1
    <3>2. CASE i \in 1..l
      BY <1>1, <1>2, <3>2
    <3>3. CASE i = l + 1
      BY <1>1, <3>3
    <3> QED
      BY <3>1, <3>2, <3>3
  <2> QED
    BY <2>1, <2>2
<1>6. (n + 1) - Len(r) = n - l
  BY <1>1
<1>7. e # a => r # << >> /\ r[1] = q[1]
  <2>1. e # a => 1 \in 1..l
    BY <1>1, <1>3
  <2>2. Len(<< >>) = 0
    BY EmptySeq
  <2> QED
    BY <1>1, <2>1, <2>2
<1>8. Taken(a, e, r, n + 1, tk, rel, drop, b)
  BY <1>3, <1>4, <1>5, <1>6, <1>7 DEF Taken
<1> QED
  BY <1>8 DEF r

\* HCI_H5_Reset of a link that has carried nothing discards what is queued.
LEMMA TakenReset ==
    ASSUME NEW a, NEW q \in Seq(Msg), NEW n \in Nat, NEW tk \in Seq(Nat), NEW rel, NEW drop, NEW b,
           Taken(a, a, q, n, tk, rel, drop, b)
    PROVE  Taken(a, a, << >>, n, tk, rel, drop, b)
<1>1. Len(q) \in Nat /\ Len(<< >>) = 0 /\ 1..0 = {}
  BY LenProperties, EmptySeq
<1>2. \A i \in 1..Len(tk) : tk[i] \in Nat
  BY ElementOfSeq
<1>3. b = 0 => \A i \in 1..Len(tk) : tk[i] <= n - Len(<< >>)
  BY <1>1, <1>2 DEF Taken
<1> QED
  BY <1>1, <1>3 DEF Taken

\* The first packet, not taken in before, is taken in.
LEMMA TakenNext ==
    ASSUME NEW a \in SN, NEW q \in Seq(Msg), q # << >>, NEW n \in Nat, NEW tk \in Seq(Nat),
           NEW rel, NEW drop, NEW b, Taken(a, a, q, n, tk, rel, drop, b)
    PROVE  Taken(a, Incr(a), q, n, Append(tk, q[1]), rel, drop, b)
<1> DEFINE t == Append(tk, q[1])
           l == Len(tk)
<1>1. Len(q) \in Nat /\ 1 \in 1..Len(q) /\ q[1] \in Msg /\ q[1] \in Nat
  <2>1. Len(q) \in Nat /\ Len(q) # 0
    BY LenProperties, EmptySeq
  <2>2. 1 \in 1..Len(q)
    BY <2>1
  <2> QED
    BY <2>1, <2>2, ElementOfSeq DEF Msg
<1>2. /\ l \in Nat /\ Len(t) = l + 1 /\ t[l + 1] = q[1] /\ \A i \in 1..l : t[i] = tk[i]
  BY <1>1, LenProperties, AppendProperties
<1>3. /\ q[1] = n - Len(q) + 1 /\ \A i \in 1..l : tk[i] \in Nat /\ (b = 0 => tk[i] <= n - Len(q))
  BY <1>1, ElementOfSeq DEF Taken
<1>4. /\ b = 0 => \A i, j \in 1..l : i # j => tk[i] # tk[j]
      /\ rel \subseteq Elems(tk) \cup drop /\ Incr(a) # a
  BY IncrOther DEF Taken
<1> HIDE DEF t, l
<1>5. \A i \in 1..Len(t) : i \in 1..l \/ i = l + 1
  BY <1>2
<1>6. b = 0 => \A i \in 1..l : tk[i] # q[1]
  BY <1>1, <1>3
<1>7. b = 0 => \A i \in 1..Len(t) : t[i] <= n - Len(q) \/ t[i] = q[1]
  BY <1>2, <1>3, <1>5
<1>8. b = 0 => \A i, j \in 1..Len(t) : i # j => t[i] # t[j]
  BY <1>2, <1>4, <1>5, <1>6
<1>9. q[1] \in Elems(t) /\ Elems(tk) \subseteq Elems(t)
  <2>1. l + 1 \in 1..Len(t) /\ \A i \in 1..l : i \in 1..Len(t)
    BY <1>2
  <2> QED
    BY <1>2, <2>1 DEF Elems, l
<1>10. Taken(a, Incr(a), q, n, t, rel, drop, b)
  <2>1. \A i \in 1..Len(q) : q[i] = n - Len(q) + i
    BY DEF Taken
  <2> QED
    BY <1>4, <1>7, <1>8, <1>9, <2>1 DEF Taken
<1> QED
  BY <1>10 DEF t

\* The first packet, taken in, is released.
LEMMA TakenReleased ==
    ASSUME NEW a, NEW e, e # a, NEW q \in Seq(Msg), NEW n \in Nat, NEW tk \in Seq(Nat),
           NEW rel, NEW drop, NEW b, Taken(a, e, q, n, tk, rel, drop, b)
    PROVE  q # << >> /\ Taken(e, e, Tail(q), n, tk, rel \cup {q[1]}, drop, b)
<1> DEFINE r == Tail(q)
           l == Len(q)
<1>1. q # << >> /\ q[1] \in Elems(tk)
  BY DEF Taken
<1>2. /\ l \in Nat /\ l # 0 /\ Len(r) = l - 1 /\ \A i \in 1..Len(r) : r[i] = q[i + 1]
  BY <1>1, LenProperties, EmptySeq, HeadTailProperties
<1>3. /\ \A i \in 1..l : q[i] = n - l + i
      /\ \A i \in 1..Len(tk) : tk[i] \in Nat /\ (b = 0 => tk[i] <= n - l \/ tk[i] = q[1])
  BY ElementOfSeq DEF Taken
<1> HIDE DEF r, l
<1>4. n - Len(r) = n - l + 1 /\ 1 \in 1..l /\ \A i \in 1..Len(r) : i + 1 \in 1..l
  BY <1>2
<1>5. \A i \in 1..Len(r) : r[i] = n - Len(r) + i
  BY <1>2, <1>3, <1>4
<1>6. b = 0 => \A i \in 1..Len(tk) : tk[i] <= n - Len(r)
  <2>1. q[1] = n - l + 1
    BY <1>3, <1>4
  <2>2. n - l <= n - Len(r) /\ n - l \in Int /\ n - Len(r) \in Int
    BY <1>2
  <2>3. ASSUME NEW i \in 1..Len(tk), b = 0 PROVE tk[i] <= n - Len(r)
    <3>1. tk[i] \in Nat /\ (tk[i] <= n - l \/ tk[i] = q[1])
      BY <1>3, <2>3
    <3> QED
      BY <1>4, <2>1, <2>2, <3>1
  <2> QED
    BY <2>3
<1>7. Taken(e, e, r, n, tk, rel \cup {q[1]}, drop, b)
  BY <1>1, <1>5, <1>6 DEF Taken
<1> QED
  BY <1>1, <1>7 DEF r

-----------------------------------------------------------------------------
(* The exchange: what the steps of its two ends do to it.                  *)

\* The sending half and the receiving half of side s are left alone.
SenderKept(s) ==
    /\ rxAck'[s] = rxAck[s] /\ txSlid'[s] = txSlid[s] /\ txSeq'[s] = txSeq[s]
    /\ rsT'[s] = rsT[s] /\ txq'[s] = txq[s] /\ queued'[s] = queued[s] /\ released'[s] = released[s]
ReceiverKept(s) ==
    /\ txAck'[s] = txAck[s] /\ rxq'[s] = rxq[s]
    /\ handled'[s] = handled[s] /\ dropped'[s] = dropped[s]

\* d is what the wire makes of c, or c followed by a frame of link control.
Carried(d, c) ==
    \/ d \in Seq(Frame) /\ Part(d, c)
    \/ \E f \in Frame : ~Acks(f) /\ d = Append(c, f)

LEMMA ExchangeTypes ==
    ASSUME TypeOK, NEW s \in Side
    PROVE  /\ rxAck[s] \in SN /\ txSeq[s] \in SN /\ txSlid[s] \in Nat /\ txq[s] \in Seq(Msg)
           /\ queued[s] \in Nat /\ txAck[s] \in SN /\ rxq[s] \in Seq(Nat)
           /\ handled[s] \in Seq(Nat) /\ TakenIn(s) \in Seq(Nat)
           /\ Line(s) \in Seq(Frame) /\ Line(Peer[s]) \in Seq(Frame) /\ Peer[s] \in Side
<1>1. /\ rxAck[s] \in SN /\ txSeq[s] \in SN /\ txSlid[s] \in Nat /\ txq[s] \in Seq(Msg)
      /\ queued[s] \in Nat /\ txAck[s] \in SN /\ rxq[s] \in Seq(Nat) /\ handled[s] \in Seq(Nat)
  BY DEF TypeOK, SendType, RecvType, CountType
<1>2. TakenIn(s) \in Seq(Nat)
  BY <1>1, ConcatProperties DEF TakenIn
<1>3. Peer[s] \in Side /\ Line(s) \in Seq(Frame)
  BY PeerFacts
<1>4. Line(Peer[s]) \in Seq(Frame)
  BY <1>3, PeerFacts
<1> QED
  BY <1>1, <1>2, <1>3, <1>4

LEMMA CarriedSame ==
    ASSUME NEW c \in Seq(Frame)
    PROVE  Carried(c, c)
<1>1. \A i \in 1..Len(c) : i + 0 \in 1..Len(c) /\ c[i] = c[i + 0]
  BY LenProperties
<1>2. 0 \in 0..1
  OBVIOUS
<1> QED
  BY <1>1, <1>2 DEF Carried, Part

\* A step that leaves both halves alone.
LEMMA ExchangeKept ==
    ASSUME TypeOK, NEW s \in Side, NEW b, Exchange(s, b), SenderKept(s), ReceiverKept(Peer[s]),
           Carried(Line(s)', Line(s)), Carried(Line(Peer[s])', Line(Peer[s]))
    PROVE  Exchange(s, b)'
<1> DEFINE p == Peer[s]
<1>1. Line(s) \in Seq(Frame) /\ Line(p) \in Seq(Frame)
  BY ExchangeTypes
<1>2. DataOK(Line(s)', rxAck[s], txSlid[s], txSeq[s], txq[s], txAck[p], b)
  <2>1. DataOK(Line(s), rxAck[s], txSlid[s], txSeq[s], txq[s], txAck[p], b)
    BY DEF Exchange
  <2>2. CASE Line(s)' \in Seq(Frame) /\ Part(Line(s)', Line(s))
    BY <1>1, <2>1, <2>2, DataPart
  <2>3. ASSUME NEW f \in Frame, ~Acks(f), Line(s)' = Append(Line(s), f)
        PROVE  DataOK(Line(s)', rxAck[s], txSlid[s], txSeq[s], txq[s], txAck[p], b)
    <3>1. f.type # "DATA"
      BY <2>3 DEF Acks
    <3> QED
      BY <1>1, <2>1, <2>3, <3>1, DataAppend
  <2> QED
    BY <2>2, <2>3 DEF Carried
<1>3. AckOK(Line(p)', rxAck[s], txAck[p], rxq[p])
  <2>1. AckOK(Line(p), rxAck[s], txAck[p], rxq[p])
    BY DEF Exchange
  <2>2. CASE Line(p)' \in Seq(Frame) /\ Part(Line(p)', Line(p))
    BY <1>1, <2>1, <2>2, AckPart
  <2>3. ASSUME NEW f \in Frame, ~Acks(f), Line(p)' = Append(Line(p), f)
        PROVE  AckOK(Line(p)', rxAck[s], txAck[p], rxq[p])
    BY <1>1, <2>1, <2>3, AckAppend
  <2> QED
    BY <2>2, <2>3 DEF Carried
<1>4. TakenIn(p)' = TakenIn(p)
  BY DEF TakenIn, ReceiverKept
<1> QED
  BY <1>2, <1>3, <1>4 DEF Exchange, SenderKept, ReceiverKept

\* HCI_H5_SendData sends the first packet.
LEMMA ExchangeSend ==
    ASSUME IInv, NEW s \in Side, NEW b, Exchange(s, b), ReceiverKept(Peer[s]),
           rxAck'[s] = rxAck[s], txq[s] # << >>, txq'[s] = txq[s], queued'[s] = queued[s],
           released'[s] = released[s], txSlid'[s] = 1, txSeq'[s] = Incr(rxAck[s]),
           NEW f \in Frame, f.type = "DATA" /\ f.rel /\ f.seq = rxAck[s] /\ f.msg = txq[s][1],
           Line(s)' = Append(Line(s), f), Line(Peer[s])' = Line(Peer[s])
    PROVE  Exchange(s, b)'
<1> DEFINE p == Peer[s]
<1>1. TypeOK /\ Line(s) \in Seq(Frame)
  BY ExchangeTypes DEF IInv
<1>2. DataOK(Line(s)', rxAck[s], 1, Incr(rxAck[s]), txq[s], txAck[p], b)
  <2>1. DataOK(Line(s), rxAck[s], txSlid[s], txSeq[s], txq[s], txAck[p], b)
    BY DEF Exchange
  <2> DEFINE c == Line(s)
             a == rxAck[s]
             q == txq[s]
             e == txAck[p]
  <2>2. DataOK(c, a, txSlid[s], txSeq[s], q, e, b) /\ c \in Seq(Frame) /\ q # << >>
    BY <1>1, <2>1
  <2>3. f.type = "DATA" /\ f.rel /\ f.seq = a /\ f.msg = q[1]
    OBVIOUS
  <2> HIDE DEF c, a, q, e
  <2>4. DataOK(Append(c, f), a, 1, Incr(a), q, e, b)
    BY <2>2, <2>3, DataSend
  <2> QED
    BY <2>4 DEF c, a, q, e
<1>3. Numbers(rxAck[s], 1, Incr(rxAck[s]), txAck[p], rsT'[s], b)
  BY DEF Exchange, Numbers
<1>4. TakenIn(p)' = TakenIn(p)
  BY DEF TakenIn, ReceiverKept
<1> QED
  BY <1>2, <1>3, <1>4 DEF Exchange, ReceiverKept

\* The controller queues a packet.
LEMMA ExchangeQueue ==
    ASSUME IInv, NEW s \in Side, NEW b, Exchange(s, b), ReceiverKept(Peer[s]),
           rxAck'[s] = rxAck[s], txSlid'[s] = txSlid[s], txSeq'[s] = txSeq[s], rsT'[s] = rsT[s],
           released'[s] = released[s], txq'[s] = Append(txq[s], queued[s] + 1),
           queued'[s] = queued[s] + 1,
           Line(s)' = Line(s), Line(Peer[s])' = Line(Peer[s])
    PROVE  Exchange(s, b)'
<1> DEFINE p == Peer[s]
           q == txq[s]
           r == Append(q, queued[s] + 1)
<1>1. /\ q \in Seq(Msg) /\ queued[s] \in Nat /\ txSlid[s] <= Len(q) /\ p \in Side
      /\ txSlid[s] \in Nat
  BY ExchangeTypes DEF IInv, WindowInFifo
<1>2. TakenIn(p) \in Seq(Nat)
  BY <1>1, ExchangeTypes DEF IInv
<1>3. Taken(rxAck[s], txAck[p], r, queued[s] + 1, TakenIn(p), released[s], dropped[p], b)
  <2>1. Taken(rxAck[s], txAck[p], q, queued[s], TakenIn(p), released[s], dropped[p], b)
    BY DEF Exchange
  <2> QED
    BY <1>1, <1>2, <2>1, TakenQueue
<1>4. q # << >> => r # << >> /\ r[1] = q[1]
  <2>1. /\ Len(q) \in Nat /\ Len(r) = Len(q) + 1 /\ \A i \in 1..Len(q) : r[i] = q[i]
        /\ Len(<< >>) = 0 /\ (q # << >> => Len(q) # 0)
    <3>1. queued[s] + 1 \in Msg
      BY <1>1 DEF Msg
    <3> QED
      BY <1>1, <3>1, LenProperties, EmptySeq, AppendProperties
  <2> HIDE DEF q, r
  <2>2. Len(r) # 0 /\ (q # << >> => 1 \in 1..Len(q))
    BY <2>1
  <2> QED
    BY <2>1, <2>2
<1>5. DataOK(Line(s), rxAck[s], txSlid[s], txSeq[s], r, txAck[p], b)
  <2>1. DataOK(Line(s), rxAck[s], txSlid[s], txSeq[s], q, txAck[p], b)
    BY DEF Exchange
  <2> HIDE DEF q, r
  <2> QED
    BY <1>4, <2>1 DEF DataOK
<1>6. TakenIn(p)' = TakenIn(p)
  BY DEF TakenIn, ReceiverKept
<1> QED
  BY <1>3, <1>5, <1>6 DEF Exchange, ReceiverKept

\* HCI_H5_Reset of a link that becomes ACTIVE.
LEMMA ExchangeReset ==
    ASSUME IInv, NEW s \in Side, NEW b, Exchange(s, b), ReceiverKept(Peer[s]),
           txAck[Peer[s]] = rxAck[s], txSeq[s] = rxAck[s],
           rxAck'[s] = rxAck[s], txSlid'[s] = 0, txSeq'[s] = txSeq[s],
           released'[s] = released[s], queued'[s] = queued[s], txq'[s] = << >>,
           Line(s)' = Line(s), Carried(Line(Peer[s])', Line(Peer[s])),
           \A i \in 1..Len(Line(s)) : ~Acks(Line(s)[i])
    PROVE  Exchange(s, b)'
<1> DEFINE p == Peer[s]
<1>1. /\ TypeOK /\ p \in Side /\ Line(s) \in Seq(Frame) /\ txq[s] \in Seq(Msg) /\ queued[s] \in Nat
  BY ExchangeTypes DEF IInv
<1>2. TakenIn(p) \in Seq(Nat) /\ Line(p) \in Seq(Frame)
  BY <1>1, ExchangeTypes
<1>3. txAck[p] = rxAck[s] /\ Numbers(rxAck[s], 0, txSeq[s], txAck[p], rsT'[s], b)
  BY DEF Numbers
<1>4. Taken(rxAck[s], txAck[p], << >>, queued[s], TakenIn(p), released[s], dropped[p], b)
  <2>1. Taken(rxAck[s], rxAck[s], txq[s], queued[s], TakenIn(p), released[s], dropped[p], b)
    BY <1>3 DEF Exchange
  <2>2. Taken(rxAck[s], rxAck[s], << >>, queued[s], TakenIn(p), released[s], dropped[p], b)
    BY <1>1, <1>2, <2>1, TakenReset
  <2> QED
    BY <1>3, <2>2
<1>5. DataOK(Line(s), rxAck[s], 0, txSeq[s], << >>, txAck[p], b)
  BY DEF DataOK, Acks
<1>6. AckOK(Line(p)', rxAck[s], txAck[p], rxq[p])
  <2>1. AckOK(Line(p), rxAck[s], txAck[p], rxq[p])
    BY DEF Exchange
  <2>2. CASE Line(p)' \in Seq(Frame) /\ Part(Line(p)', Line(p))
    BY <1>2, <2>1, <2>2, AckPart
  <2>3. ASSUME NEW f \in Frame, ~Acks(f), Line(p)' = Append(Line(p), f)
        PROVE  AckOK(Line(p)', rxAck[s], txAck[p], rxq[p])
    BY <1>2, <2>1, <2>3, AckAppend
  <2> QED
    BY <2>2, <2>3 DEF Carried
<1>7. TakenIn(p)' = TakenIn(p)
  BY DEF TakenIn, ReceiverKept
<1> QED
  BY <1>3, <1>4, <1>5, <1>6, <1>7 DEF Exchange, ReceiverKept

\* Releasing a window of nothing changes nothing; releasing a window of one takes
\* the first packet out.
LEMMA ReleaseWindow ==
    ASSUME IInv, NEW s \in Side, Release(s)
    PROVE  /\ txSlid'[s] = 0
           /\ txSlid[s] = 0 => txq'[s] = txq[s] /\ released'[s] = released[s]
           /\ txSlid[s] = 1 => /\ txq'[s] = Tail(txq[s])
                               /\ released'[s] = released[s] \cup {txq[s][1]}
<1> DEFINE q == txq[s]
           n == txSlid[s]
<1>1. TypeOK /\ q \in Seq(Msg) /\ Len(q) \in Nat /\ n \in Nat /\ n <= Len(q)
  BY ExchangeTypes, LenProperties DEF IInv, WindowInFifo
<1>2. /\ txSlid'[s] = 0 /\ txq'[s] = SubSeq(q, n + 1, Len(q))
      /\ released'[s] = released[s] \cup Elems(SubSeq(q, 1, n))
  BY <1>1 DEF Release, TypeOK, SendType
<1> HIDE DEF q, n
<1>3. CASE n = 0
  <2>1. SubSeq(q, n + 1, Len(q)) = q
    <3>1. n + 1 = 1
      BY <1>3
    <3> QED
      BY <1>1, <3>1, SubSeqFull
  <2>2. Elems(SubSeq(q, 1, n)) = {}
    <3>1. SubSeq(q, 1, n) = << >> /\ Len(<< >>) = 0 /\ 1..0 = {}
      BY <1>3, SubSeqEmpty, EmptySeq
    <3> QED
      BY <3>1 DEF Elems
  <2> QED
    BY <1>2, <1>3, <2>1, <2>2 DEF q, n
<1>4. CASE n = 1
  <2>1. 1 \in 1..Len(q) /\ q # << >> /\ n + 1 = 2
    <3>1. Len(<< >>) = 0
      BY EmptySeq
    <3> QED
      BY <1>1, <1>4, <3>1
  <2>2. SubSeq(q, 2, Len(q)) = Tail(q)
    BY <1>1, <2>1, TailIsSubSeq
  <2>3. Len(SubSeq(q, 1, 1)) = 1 /\ SubSeq(q, 1, 1)[1] = q[1]
    <3>1. \A i \in 1..1 : q[i] \in Msg
      BY <1>1, <2>1, ElementOfSeq
    <3>2. /\ Len(SubSeq(q, 1, 1)) = IF 1 <= 1 THEN 1 - 1 + 1 ELSE 0
          /\ \A i \in 1 .. 1 - 1 + 1 : SubSeq(q, 1, 1)[i] = q[1 + i - 1]
      BY <3>1, SubSeqProperties
    <3>3. 1 - 1 + 1 = 1 /\ 1 + 1 - 1 = 1 /\ 1 \in 1..1
      OBVIOUS
    <3> QED
      BY <3>2, <3>3
  <2>4. Elems(SubSeq(q, 1, 1)) = {q[1]}
    <3>1. 1..1 = {1}
      OBVIOUS
    <3> QED
      BY <2>3, <3>1 DEF Elems
  <2> QED
    BY <1>2, <1>4, <2>1, <2>2, <2>4 DEF q, n
<1>5. (n = 0 => txq'[s] = q /\ released'[s] = released[s])
      /\ (n = 1 => txq'[s] = Tail(q) /\ released'[s] = released[s] \cup {q[1]})
  BY <1>3, <1>4 DEF q, n
<1> QED
  BY <1>2, <1>5 DEF q, n

\* A pure ACK, or the one a packet carries, arrives.
LEMMA ExchangeAck ==
    ASSUME IInv, NEW s \in Side, NEW b, Exchange(s, b), ReceiverKept(Peer[s]),
           Line(Peer[s]) # << >>, Acks(Line(Peer[s])[1]), queued'[s] = queued[s],
           \/ ReSendCheck(s, Line(Peer[s])[1].ack)
           \/ PiggybackAck(s, Line(Peer[s])[1].ack),
           Line(s)' = Line(s), Line(Peer[s])' = Tail(Line(Peer[s]))
    PROVE  Exchange(s, b)'
<1> DEFINE p == Peer[s]
           c == Line(p)
           ack == c[1].ack
           a == rxAck[s]
           e == txAck[p]
<1>1. /\ TypeOK /\ p \in Side /\ Line(s) \in Seq(Frame) /\ c \in Seq(Frame) /\ a \in SN
      /\ txq[s] \in Seq(Msg) /\ queued[s] \in Nat
  BY ExchangeTypes DEF IInv
<1>2. TakenIn(p) \in Seq(Nat)
  BY <1>1, ExchangeTypes
<1>3. /\ Numbers(a, txSlid[s], txSeq[s], e, rsT[s], b)
      /\ DataOK(Line(s), a, txSlid[s], txSeq[s], txq[s], e, b) /\ AckOK(c, a, e, rxq[p])
      /\ Taken(a, e, txq[s], queued[s], TakenIn(p), released[s], dropped[p], b)
  BY DEF Exchange
<1>4. TakenIn(p)' = TakenIn(p) /\ txAck'[p] = e /\ rxq'[p] = rxq[p] /\ dropped'[p] = dropped[p]
  BY DEF TakenIn, ReceiverKept
<1>5. /\ txSeq'[s] = txSeq[s] /\ rxAck'[s] \in {a, ack}
      /\ ack = txSeq[s] => Release(s) /\ rxAck'[s] = ack
      /\ ack # txSeq[s] => /\ txSlid'[s] = txSlid[s] /\ txq'[s] = txq[s]
                           /\ released'[s] = released[s] /\ rsT'[s] = TRUE
  BY <1>1 DEF ReSendCheck, PiggybackAck, TypeOK, SendType
<1>6. 1 \in 1..Len(c) /\ Tail(c) \in Seq(Frame) /\ Part(Tail(c), c) /\ Incr(a) # a
  BY <1>1, TailPlaces, IncrOther
<1>7. CASE ack = a
  <2>1. /\ rxAck'[s] = a /\ txSlid'[s] = txSlid[s] /\ txq'[s] = txq[s]
        /\ released'[s] = released[s]
        /\ Numbers(a, txSlid[s], txSeq[s], e, rsT'[s], b)
    <3>1. CASE ack = txSeq[s]
      <4>1. txSlid[s] = 0 /\ txSeq[s] = a
        BY <1>3, <1>6, <1>7, <3>1 DEF Numbers
      <4>2. Numbers(a, txSlid[s], txSeq[s], e, rsT'[s], b)
        BY <1>3, <1>6, <4>1 DEF Numbers
      <4> QED
        BY <1>5, <1>7, <3>1, <4>1, <4>2, ReleaseWindow
    <3>2. CASE ack # txSeq[s]
      <4>1. Numbers(a, txSlid[s], txSeq[s], e, rsT'[s], b)
        BY <1>3, <1>5, <3>2 DEF Numbers
      <4> QED
        BY <1>5, <1>7, <3>2, <4>1
    <3> QED
      BY <3>1, <3>2
  <2>2. AckOK(Tail(c), a, e, rxq[p])
    BY <1>1, <1>3, <1>6, AckPart
  <2> QED
    BY <1>3, <1>4, <1>5, <2>1, <2>2 DEF Exchange
<1>8. CASE ack # a
  <2>1. ack = e /\ rxq[p] = << >> /\ AckOK(Tail(c), e, e, rxq[p])
    BY <1>1, <1>3, <1>8, AckReleased
  <2>2. e # a /\ e = Incr(a)
    BY <1>3, <1>8, <2>1 DEF Numbers
  <2>3. CASE txSlid[s] = 1
    <3>1. txSeq[s] = Incr(a)
      BY <1>3, <2>3 DEF Numbers
    <3>2. /\ rxAck'[s] = e /\ txSlid'[s] = 0 /\ txq'[s] = Tail(txq[s])
          /\ released'[s] = released[s] \cup {txq[s][1]}
      BY <1>5, <2>1, <2>2, <2>3, <3>1, ReleaseWindow
    <3>3. Numbers(e, 0, e, e, rsT'[s], b)
      BY DEF Numbers
    <3>4. DataOK(Line(s), e, 0, e, Tail(txq[s]), e, b)
      BY <1>1, <1>3, <2>2, DataReleased
    <3>5. Taken(e, e, Tail(txq[s]), queued[s], TakenIn(p), released[s] \cup {txq[s][1]}, dropped[p], b)
      BY <1>1, <1>2, <1>3, <2>2, TakenReleased
    <3> QED
      BY <1>4, <1>5, <2>1, <2>2, <3>1, <3>2, <3>3, <3>4, <3>5 DEF Exchange
  <2>4. CASE txSlid[s] # 1
    <3>1. b # 0 /\ txSlid[s] = 0 /\ txSeq[s] = a
      BY <1>3, <2>2, <2>4 DEF Numbers
    <3>2. /\ txSlid'[s] = 0 /\ txq'[s] = txq[s] /\ released'[s] = released[s]
          /\ rsT'[s] = TRUE /\ rxAck'[s] \in {a, e} /\ txSeq'[s] = a
      BY <1>5, <1>8, <2>1, <3>1
    <3>3. CASE rxAck'[s] = a
      <4>1. Numbers(a, 0, a, e, rsT'[s], b)
        BY <1>3, <3>1 DEF Numbers
      <4>2. AckOK(Tail(c), a, e, rxq[p])
        BY <1>1, <1>3, <1>6, AckPart
      <4> QED
        BY <1>3, <1>4, <3>1, <3>2, <3>3, <4>1, <4>2 DEF Exchange
    <3>4. CASE rxAck'[s] = e
      <4>1. Numbers(e, 0, a, e, rsT'[s], b)
        BY <2>2, <3>1, <3>2 DEF Numbers
      <4>2. DataOK(Line(s), e, 0, a, txq[s], e, b)
        BY <1>1, <1>3, <2>2, DataReleased
      <4>3. Taken(e, e, txq[s], queued[s], TakenIn(p), released[s], dropped[p], b)
        BY <1>3, <3>1 DEF Taken
      <4> QED
        BY <1>4, <2>1, <3>1, <3>2, <3>4, <4>1, <4>2, <4>3 DEF Exchange
    <3> QED
      BY <3>2, <3>3, <3>4
  <2> QED
    BY <2>3, <2>4
<1> QED
  BY <1>7, <1>8

\* HCI_RxHandler gives the packet of the FIFO to blc_hci_handler: what has been
\* taken in is the same.
LEMMA HandlerKeeps ==
    ASSUME IInv, NEW p \in Side, HciHandler(p), Len(rxq[p]) = 1 \/ rxq[p] = << >>
    PROVE  TakenIn(p)' = TakenIn(p) /\ rxq'[p] = << >>
<1>1. TypeOK /\ rxq[p] \in Seq(Nat) /\ handled[p] \in Seq(Nat)
  BY ExchangeTypes DEF IInv
<1>2. CASE rxq[p] = << >>
  BY <1>2 DEF HciHandler, TakenIn
<1>3. CASE rxq[p] # << >>
  <2> DEFINE q == rxq[p]
             m == Head(q)
  <2>1. q \in Seq(Nat) /\ Len(q) = 1 /\ m = q[1] /\ m \in Nat /\ Tail(q) \in Seq(Nat)
        /\ Len(Tail(q)) = Len(q) - 1
    BY <1>1, <1>3, HeadTailProperties
  <2>2. rxq'[p] = Tail(q) /\ handled'[p] = Append(handled[p], m)
    BY <1>1, <1>3 DEF HciHandler, TypeOK, RecvType, CountType
  <2>3. Tail(q) = << >>
    <3>1. Len(Tail(q)) = 0
      BY <2>1
    <3> QED
      BY <2>1, <3>1, EmptySeq
  <2>4. q = <<m>>
    <3>1. <<m>> \in Seq(Nat) /\ Len(<<m>>) = 1 /\ <<m>>[1] = m /\ 1..1 = {1}
      BY <2>1
    <3>2. \A i \in 1..Len(q) : q[i] = <<m>>[i]
      BY <2>1, <3>1
    <3> HIDE DEF q, m
    <3> QED
      BY <2>1, <3>1, <3>2, SeqEqual
  <2>5. /\ Append(handled[p], m) = handled[p] \o <<m>> /\ Append(handled[p], m) \in Seq(Nat)
    <3>1. handled[p] \in Seq(Nat) /\ m \in Nat
      BY <1>1, <2>1
    <3> HIDE DEF m
    <3> QED
      BY <3>1, AppendIsConcat, AppendProperties
  <2>6. Append(handled[p], m) \o << >> = Append(handled[p], m)
    BY <2>5, ConcatEmptySeq
  <2> HIDE DEF q, m
  <2>7. TakenIn(p)' = handled'[p] \o rxq'[p] /\ TakenIn(p) = handled[p] \o q
    BY DEF TakenIn, q
  <2> QED
    BY <2>2, <2>3, <2>4, <2>5, <2>6, <2>7
<1> QED
  BY <1>2, <1>3

\* HCI_H5_Poll of the receiver, with HCI_Handler: what it sends acknowledges what it
\* has taken in, and its FIFO is empty then.
LEMMA ExchangePoll ==
    ASSUME IInv, NEW s \in Side, NEW b, Exchange(s, b), SenderKept(s), HciHandler(Peer[s]),
           txAck'[Peer[s]] = txAck[Peer[s]], dropped'[Peer[s]] = dropped[Peer[s]],
           Line(s)' = Line(s),
           \/ Line(Peer[s])' = Line(Peer[s])
           \/ \E f \in Frame : /\ Acks(f) => f.ack = txAck[Peer[s]]
                               /\ Line(Peer[s])' = Append(Line(Peer[s]), f)
    PROVE  Exchange(s, b)'
<1> DEFINE p == Peer[s]
<1>1. TypeOK /\ p \in Side /\ Line(p) \in Seq(Frame)
  BY ExchangeTypes DEF IInv
<1>2. AckOK(Line(p), rxAck[s], txAck[p], rxq[p])
  BY DEF Exchange
<1>3. Len(rxq[p]) = 1 \/ rxq[p] = << >>
  BY <1>2 DEF AckOK
<1>4. TakenIn(p)' = TakenIn(p) /\ rxq'[p] = << >>
  BY <1>1, <1>3, HandlerKeeps
<1>5. AckOK(Line(p)', rxAck[s], txAck[p], << >>)
  <2>1. CASE Line(p)' = Line(p)
    BY <1>2, <2>1 DEF AckOK
  <2>2. ASSUME NEW f \in Frame, Acks(f) => f.ack = txAck[p], Line(p)' = Append(Line(p), f)
        PROVE  AckOK(Line(p)', rxAck[s], txAck[p], << >>)
    BY <1>1, <1>2, <2>2, AckSend
  <2> QED
    BY <2>1, <2>2
<1> QED
  BY <1>4, <1>5 DEF Exchange, SenderKept

\* HCI_H5_DecodeDataPdu takes a packet in: it is the sender's first, and the FIFO
\* was empty.
LEMMA ExchangeTakeIn ==
    ASSUME IInv, NEW s \in Side, NEW b, Exchange(s, b), SenderKept(s), NEW f \in Frame,
           Line(s) # << >>, Line(s)[1] = f, f.type = "DATA", f.seq = txAck[Peer[s]],
           PackHciPdu(Peer[s], f.msg), txAck'[Peer[s]] = Incr(txAck[Peer[s]]),
           handled'[Peer[s]] = handled[Peer[s]],
           Line(s)' = Tail(Line(s)), Line(Peer[s])' = Line(Peer[s])
    PROVE  Exchange(s, b)'
<1> DEFINE p == Peer[s]
           a == rxAck[s]
           m == f.msg
<1>1. /\ TypeOK /\ p \in Side /\ Line(s) \in Seq(Frame) /\ Line(p) \in Seq(Frame) /\ a \in SN
      /\ txq[s] \in Seq(Msg) /\ queued[s] \in Nat /\ txSlid[s] <= Len(txq[s])
  BY ExchangeTypes DEF IInv, WindowInFifo
<1>2. TakenIn(p) \in Seq(Nat) /\ handled[p] \in Seq(Nat) /\ rxq[p] \in Seq(Nat)
  BY <1>1, ExchangeTypes
<1>3. /\ txAck[p] = a /\ Sent(a, txSlid[s], txSeq[s], b) /\ txq[s] # << >> /\ m = txq[s][1]
      /\ DataOK(Tail(Line(s)), a, txSlid[s], txSeq[s], txq[s], Incr(a), b)
  <2>1. DataOK(Line(s), a, txSlid[s], txSeq[s], txq[s], txAck[p], b)
    BY DEF Exchange
  <2> DEFINE c == Line(s)
             e == txAck[p]
             i == Incr(a)
             w == txSlid[s]
             sq == txSeq[s]
             q == txq[s]
  <2>2. c \in Seq(Frame) /\ c # << >> /\ c[1].type = "DATA" /\ c[1].seq = e /\ c[1].msg = m
    BY <1>1
  <2> HIDE DEF a, c, e, i, w, sq, q
  <2>3. DataOK(c, a, w, sq, q, e, b)
    BY <2>1 DEF c, e, w, sq, q
  <2>4. e = a /\ Sent(a, w, sq, b) /\ q # << >> /\ c[1].msg = q[1] /\ DataOK(Tail(c), a, w, sq, q, i, b)
    BY <2>2, <2>3, DataTaken
  <2> QED
    BY <2>2, <2>4 DEF c, e, i, w, sq, q
<1>4. Incr(a) \in SN /\ Incr(a) # a
  BY <1>1, IncrOther
<1>5. rxq[p] = << >>
  BY <1>3, <1>4 DEF Exchange, AckOK
<1>6. txq[s] # << >> /\ m \in Nat
  BY <1>3 DEF Frame
<1>7. rxq'[p] = <<m>> /\ dropped'[p] = dropped[p]
  <2>1. /\ rxq'[p] = Append([i \in 1..Len(rxq[p]) |->
                               IF i + RxNum = Len(rxq[p]) + 1 THEN m ELSE rxq[p][i]], m)
        /\ dropped' = dropped
    BY <1>1 DEF PackHciPdu, TypeOK, RecvType
  <2>2. [i \in 1..Len(rxq[p]) |-> IF i + RxNum = Len(rxq[p]) + 1 THEN m ELSE rxq[p][i]] = << >>
    <3>1. Len(rxq[p]) = 0 /\ 1..0 = {}
      BY <1>5, EmptySeq
    <3>2. << >> = [i \in 1..0 |-> IF i + RxNum = 1 THEN m ELSE rxq[p][i]]
      BY <3>1
    <3> QED
      BY <3>1, <3>2
  <2>3. << >> \in Seq(Nat) /\ << >> \o <<m>> = <<m>>
    BY <1>6, EmptySeq, ConcatEmptySeq
  <2>4. Append(<< >>, m) = <<m>>
    BY <1>6, <2>3, AppendIsConcat
  <2> QED
    BY <2>1, <2>2, <2>4
<1>8. TakenIn(p)' = Append(TakenIn(p), m)
  <2>1. TakenIn(p) = handled[p]
    BY <1>2, <1>5, ConcatEmptySeq DEF TakenIn
  <2>2. TakenIn(p)' = handled[p] \o <<m>>
    BY <1>7 DEF TakenIn
  <2> QED
    BY <1>2, <1>6, <2>1, <2>2, AppendIsConcat
<1>9. Taken(a, Incr(a), txq[s], queued[s], Append(TakenIn(p), m), released[s], dropped[p], b)
  <2>1. Taken(a, a, txq[s], queued[s], TakenIn(p), released[s], dropped[p], b)
    BY <1>3 DEF Exchange
  <2>2. Taken(a, Incr(a), txq[s], queued[s], Append(TakenIn(p), txq[s][1]), released[s], dropped[p], b)
    BY <1>1, <1>2, <1>6, <2>1, TakenNext
  <2> QED
    BY <1>3, <2>2
<1>10. AckOK(Line(p), a, Incr(a), <<m>>)
  <2>1. AckOK(Line(p), a, a, << >>)
    BY <1>3, <1>5 DEF Exchange
  <2> QED
    BY <1>1, <2>1, AckTakenIn
<1>11. Numbers(a, txSlid[s], txSeq[s], Incr(a), rsT[s], b)
  BY <1>3, <1>4 DEF Exchange, Numbers, Sent
<1> QED
  BY <1>3, <1>7, <1>8, <1>9, <1>10, <1>11 DEF Exchange, SenderKept

-----------------------------------------------------------------------------
(* The exchange: one lemma per handler.                                    *)

\* A step of s leaves the other sides alone, but for their frames on the way.
OthersKept(s) ==
    \A r \in Side \ {s} : /\ link'[r] = link[r] /\ win'[r] = win[r]
                          /\ SenderKept(r) /\ ReceiverKept(r)

LEMMA HandlerOthers ==
    ASSUME IInv, NEW s \in Side, HciHandler(s)
    PROVE  \A r \in Side \ {s} : rxq'[r] = rxq[r] /\ handled'[r] = handled[r]
<1>1. rxq \in [Side -> Seq(Nat)] /\ handled \in [Side -> Seq(Nat)]
  BY DEF IInv, TypeOK, RecvType, CountType
<1>2. CASE rxq[s] = << >>
  BY <1>2 DEF HciHandler
<1>3. CASE rxq[s] # << >>
  BY <1>1, <1>3 DEF HciHandler
<1> QED
  BY <1>2, <1>3

LEMMA ResetOthers ==
    ASSUME IInv, NEW s \in Side, Reset(s)
    PROVE  \A r \in Side \ {s} :
              /\ rxAck'[r] = rxAck[r] /\ txSlid'[r] = txSlid[r] /\ txSeq'[r] = txSeq[r]
              /\ rsT'[r] = rsT[r]
              /\ txq'[r] = txq[r] /\ released'[r] = released[r] /\ txAck'[r] = txAck[r]
              /\ rxq'[r] = rxq[r] /\ dropped'[r] = dropped[r]
BY DEF Reset, IInv, TypeOK, SendType, RecvType

LEMMA AckOthers ==
    ASSUME IInv, NEW s \in Side, NEW ack, ReSendCheck(s, ack) \/ PiggybackAck(s, ack)
    PROVE  /\ UNCHANGED txSeq
           /\ \A r \in Side \ {s} :
                /\ rxAck'[r] = rxAck[r] /\ txSlid'[r] = txSlid[r] /\ rsT'[r] = rsT[r]
                /\ txq'[r] = txq[r] /\ released'[r] = released[r]
<1>1. /\ rxAck \in [Side -> SN] /\ txSlid \in [Side -> Nat] /\ txq \in [Side -> Seq(Msg)]
      /\ released \in [Side -> SUBSET Nat] /\ rsT \in [Side -> BOOLEAN]
  BY DEF IInv, TypeOK, SendType
<1>2. UNCHANGED txSeq /\ \A r \in Side \ {s} : rxAck'[r] = rxAck[r]
  BY <1>1 DEF ReSendCheck, PiggybackAck
<1>3. CASE Release(s)
  BY <1>1, <1>2, <1>3 DEF Release
<1>4. CASE ~Release(s)
  BY <1>1, <1>2, <1>4 DEF ReSendCheck, PiggybackAck
<1> QED
  BY <1>3, <1>4

LEMMA SendOthers ==
    ASSUME IInv, NEW s \in Side, NEW seq, NEW slid, NEW tick, SendData(s, seq, slid, tick)
    PROVE  \A r \in Side \ {s} : txSlid'[r] = txSlid[r] /\ txSeq'[r] = txSeq[r]
<1>1. txSlid \in [Side -> Nat] /\ txSeq \in [Side -> SN]
  BY DEF IInv, TypeOK, SendType
<1>2. CASE SendDone(s, seq, slid)
  BY <1>1, <1>2 DEF SendDone
<1>3. CASE SendRefused(s, seq, slid)
  BY <1>1, <1>3 DEF SendRefused
<1>4. CASE SendNothing(s, seq, slid, tick)
  BY <1>1, <1>4 DEF SendNothing
<1> QED
  BY <1>2, <1>3, <1>4 DEF SendData

\* The frames of a line after a step come from it, but for the one sent.
LEMMA LineFrames ==
    ASSUME NEW c \in Seq(Frame), NEW d, NEW f \in Frame,
           (d \in Seq(Frame) /\ Part(d, c)) \/ d = Append(c, f)
    PROVE  \A i \in 1..Len(d) : \/ d = Append(c, f) /\ d[i] = f
                                \/ \E j \in 1..Len(c) : d[i] = c[j]
                                \/ d[i].type = "NONE"
<1>1. CASE d \in Seq(Frame) /\ Part(d, c)
  <2>1. PICK k \in 0..1 : \A i \in 1..Len(d) :
            i + k \in 1..Len(c) /\ (d[i] = c[i + k] \/ d[i].type = "NONE")
    BY <1>1 DEF Part
  <2> QED
    BY <2>1
<1>2. CASE d = Append(c, f)
  <2>1. \A i \in 1..Len(d) : d[i] = f \/ (i \in 1..Len(c) /\ d[i] = c[i])
    BY <1>2, AppendPlaces
  <2> QED
    BY <1>2, <2>1
<1> QED
  BY <1>1, <1>2

\* Own of a side whose link does not become ACTIVE.
LEMMA OwnStep ==
    ASSUME TypeOK, NEW s \in Side, Own(s),
           link'[s] = "ACTIVE" => win'[s] = 1,
           link'[s] # "ACTIVE" =>
              /\ link[s] # "ACTIVE"
              /\ rxAck'[s] = rxAck[s] /\ txSeq'[s] = txSeq[s] /\ txSlid'[s] = txSlid[s]
              /\ txAck'[s] = txAck[s] /\ rxq'[s] = rxq[s]
              /\ txAck'[Peer[s]] = txAck[Peer[s]],
           NEW f \in Frame, Acks(f) => link'[s] = "ACTIVE", f.type = "CONFIG_RSP" => f.cfg = 1,
           (Line(s)' \in Seq(Frame) /\ Part(Line(s)', Line(s))) \/ Line(s)' = Append(Line(s), f)
    PROVE  Own(s)'
<1>1. Line(s) \in Seq(Frame)
  BY ExchangeTypes
<1>2. \A i \in 1..Len(Line(s)') : \/ Line(s)'[i] = f
                                  \/ \E j \in 1..Len(Line(s)) : Line(s)'[i] = Line(s)[j]
                                  \/ Line(s)'[i].type = "NONE"
  BY <1>1, LineFrames
<1>3. \A i \in 1..Len(Line(s)') : Line(s)'[i].type = "CONFIG_RSP" => Line(s)'[i].cfg = 1
  BY <1>2 DEF Own
<1>4. CASE link'[s] # "ACTIVE"
  <2>1. \A i \in 1..Len(Line(s)') : ~Acks(Line(s)'[i])
    BY <1>2, <1>4 DEF Own, Acks
  <2> QED
    BY <1>3, <1>4, <2>1 DEF Own
<1>5. CASE link'[s] = "ACTIVE"
  BY <1>3, <1>5 DEF Own
<1> QED
  BY <1>4, <1>5

\* A step of side s, from what it does to the two conversations of s.
LEMMA TalkingStep ==
    ASSUME IInv, NEW b, Talking(b), NEW s \in Side, OthersKept(s),
           Exchange(s, b)', Exchange(Peer[s], b)', Own(s)',
           link[Peer[s]] # "ACTIVE" => txAck'[s] = txAck[s],
           Line(Peer[s])' \in Seq(Frame), Part(Line(Peer[s])', Line(Peer[s])),
           \A r \in Side \ {s, Peer[s]} : Line(r)' = Line(r)
    PROVE  Talking(b)'
<1> DEFINE p == Peer[s]
<1>1. /\ TypeOK /\ p \in Side /\ p # s /\ Peer[p] = s
      /\ \A r \in Side \ {s, p} : Peer[r] \in Side /\ Peer[r] # s /\ Peer[r] # p
  BY PeerFacts DEF IInv
<1>2. NoFrame \in Frame /\ NoFrame.type = "NONE" /\ ~Acks(NoFrame)
  BY <1>1, FrameTypes DEF NoFrame, Acks
<1>3. ASSUME NEW r \in Side, r # s, Line(r)' \in Seq(Frame), Part(Line(r)', Line(r))
      PROVE  Own(r)'
  <2>1. /\ link'[r] = link[r] /\ win'[r] = win[r] /\ rxAck'[r] = rxAck[r] /\ txSeq'[r] = txSeq[r]
        /\ txSlid'[r] = txSlid[r] /\ txAck'[r] = txAck[r] /\ rxq'[r] = rxq[r]
    BY <1>3 DEF OthersKept, SenderKept, ReceiverKept
  <2>2. Own(r)
    BY DEF Talking
  <2>3. link'[r] = "ACTIVE" => win'[r] = 1
    BY <2>1, <2>2 DEF Own
  <2>4. link'[r] # "ACTIVE" => txAck'[Peer[r]] = txAck[Peer[r]]
    <3>1. CASE r = p
      BY <1>1, <2>1, <3>1
    <3>2. CASE r # p
      BY <1>1, <1>3, <3>2 DEF OthersKept, ReceiverKept
    <3> QED
      BY <3>1, <3>2
  <2> QED
    BY <1>1, <1>2, <1>3, <2>1, <2>2, <2>3, <2>4, OwnStep
<1>4. ASSUME NEW r \in Side, r # s, r # p PROVE Exchange(r, b)' /\ Own(r)'
  <2>1. /\ Line(r)' = Line(r) /\ Line(Peer[r])' = Line(Peer[r]) /\ Line(r) \in Seq(Frame)
        /\ Line(Peer[r]) \in Seq(Frame)
    BY <1>1, <1>4, ExchangeTypes
  <2>2. Exchange(r, b) /\ SenderKept(r) /\ ReceiverKept(Peer[r])
    BY <1>1, <1>4 DEF Talking, OthersKept
  <2>3. Exchange(r, b)'
    BY <1>1, <2>1, <2>2, CarriedSame, ExchangeKept
  <2>4. Part(Line(r), Line(r))
    BY <1>2, <2>1, PartFront
  <2> QED
    BY <1>3, <1>4, <2>1, <2>3, <2>4
<1>5. Own(p)'
  BY <1>1, <1>3
<1>6. ASSUME NEW r \in Side PROVE Exchange(r, b)' /\ Own(r)'
  BY <1>4, <1>5
<1> QED
  BY <1>6 DEF Talking

\* A step of side s that changes neither of its halves: at most its link, the frames
\* on the way, and a frame of link control sent.
LEMMA TalkingQuiet ==
    ASSUME IInv, NEW b, Talking(b), NEW s \in Side, OthersKept(s), SenderKept(s), ReceiverKept(s),
           link'[s] = "ACTIVE" <=> link[s] = "ACTIVE", win'[s] = win[s],
           NEW f \in Frame, ~Acks(f), f.type = "CONFIG_RSP" => f.cfg = 1,
           (Line(s)' \in Seq(Frame) /\ Part(Line(s)', Line(s))) \/ Line(s)' = Append(Line(s), f),
           Line(Peer[s])' \in Seq(Frame), Part(Line(Peer[s])', Line(Peer[s])),
           \A r \in Side \ {s, Peer[s]} : Line(r)' = Line(r)
    PROVE  Talking(b)'
<1> DEFINE p == Peer[s]
<1>1. TypeOK /\ p \in Side /\ p # s /\ Peer[p] = s
  BY PeerFacts DEF IInv
<1>2. Exchange(s, b) /\ Exchange(p, b) /\ Own(s) /\ SenderKept(p) /\ ReceiverKept(p)
  BY <1>1 DEF Talking, OthersKept
<1>3. Carried(Line(s)', Line(s)) /\ Carried(Line(p)', Line(p))
  BY DEF Carried
<1>4. Exchange(s, b)'
  BY <1>1, <1>2, <1>3, ExchangeKept
<1>5. Exchange(p, b)'
  BY <1>1, <1>2, <1>3, ExchangeKept
<1>6. Own(s)'
  <2>1. /\ rxAck'[s] = rxAck[s] /\ txSeq'[s] = txSeq[s] /\ txSlid'[s] = txSlid[s]
        /\ txAck'[s] = txAck[s] /\ rxq'[s] = rxq[s] /\ txAck'[p] = txAck[p]
    BY <1>2 DEF SenderKept, ReceiverKept
  <2>2. link'[s] = "ACTIVE" => win'[s] = 1
    BY <1>2 DEF Own
  <2> QED
    BY <1>1, <1>2, <2>1, <2>2, OwnStep
<1>7. txAck'[s] = txAck[s]
  BY DEF ReceiverKept
<1> QED
  BY <1>4, <1>5, <1>6, <1>7, TalkingStep

\* A frame is taken in that changes at most the link.
LEMMA RxQuiet ==
    ASSUME IInv, NEW b, Talking(b), NEW s \in Side, NEW type, Arrived(s, type), TakeFrame(s),
           NEW f \in Frame, f.type # "NONE", ~Acks(f), f.type = "CONFIG_RSP" => f.cfg = 1,
           Transmit(s, f) \/ UNCHANGED uartTx,
           UNCHANGED <<win, sendVars, recvVars, queued, handled>>,
           \A r \in Side \ {s} : link'[r] = link[r],
           link'[s] = "ACTIVE" <=> link[s] = "ACTIVE"
    PROVE  Talking(b)'
<1> DEFINE p == Peer[s]
<1>1. TypeOK /\ p \in Side /\ Line(s) \in Seq(Frame) /\ Part(Line(s), Line(s))
  <2>1. TypeOK /\ p \in Side /\ Line(s) \in Seq(Frame)
    BY ExchangeTypes DEF IInv
  <2> QED
    BY <2>1, PartFront
<1>2. /\ Line(p)' \in Seq(Frame) /\ Part(Line(p)', Line(p))
      /\ Line(s)' = Line(s) \/ Line(s)' = Append(Line(s), f)
      /\ \A r \in Side \ {s, p} : Line(r)' = Line(r)
  BY <1>1, RxLines
<1>3. \A r \in Side : win'[r] = win[r] /\ SenderKept(r) /\ ReceiverKept(r)
  BY DEF sendVars, recvVars, SenderKept, ReceiverKept
<1>4. OthersKept(s)
  BY <1>3 DEF OthersKept
<1>5. (Line(s)' \in Seq(Frame) /\ Part(Line(s)', Line(s))) \/ Line(s)' = Append(Line(s), f)
  BY <1>1, <1>2
<1> QED
  BY <1>2, <1>3, <1>4, <1>5, TalkingQuiet

\* CONFIG_RSP makes the link ACTIVE, with a window of one, and resets it.
LEMMA RxConfigRspTalking ==
    ASSUME SingleWindow, IInv, NEW b, Talking(b), NEW s \in Side, RxConfigRsp(s), link[s] = "INIT"
    PROVE  Talking(b)'
<1> DEFINE p == Peer[s]
           g == LinkFrame(s, "SYNC")
<1>1. TypeOK /\ p \in Side /\ p # s /\ Peer[p] = s
  BY PeerFacts DEF IInv
<1>2. /\ Arrived(s, "CONFIG_RSP") /\ TakeFrame(s) /\ link' = [link EXCEPT ![s] = "ACTIVE"]
      /\ win' = [win EXCEPT ![s] = IF Win[s] <= Head(uartRx[s]).cfg THEN Win[s]
                                                                     ELSE Head(uartRx[s]).cfg]
      /\ Reset(s) /\ UNCHANGED uartTx /\ UNCHANGED <<queued, handled>>
  BY DEF RxConfigRsp
<1>3. g \in Frame /\ g.type # "NONE" /\ ~Acks(g) /\ g.type # "CONFIG_RSP"
  BY <1>1, LinkFrames DEF LinkMsg
<1>4. /\ Line(p) # << >> /\ Line(p)[1] = Head(uartRx[s])
      /\ Line(p)' \in Seq(Frame) /\ Part(Line(p)', Line(p))
      /\ \A r \in Side \ {s, p} : Line(r)' = Line(r)
  BY <1>1, <1>2, <1>3, RxLines
<1>5. Line(s)' = Line(s) /\ Line(s) \in Seq(Frame) /\ Line(p) \in Seq(Frame)
  <2>1. uartRx'[p] = uartRx[p] /\ uartTx'[s] = uartTx[s]
    BY <1>1, <1>2 DEF TakeFrame, TypeOK, UartType
  <2> QED
    BY <1>1, <2>1, LineKept, ExchangeTypes
<1>6. Exchange(s, b) /\ Exchange(p, b) /\ Own(s) /\ Own(p)
  BY <1>1 DEF Talking
<1>7. /\ rxAck[s] = 0 /\ txSeq[s] = 0 /\ txSlid[s] = 0 /\ txAck[s] = 0 /\ rxq[s] = << >>
      /\ txAck[p] = 0 /\ \A i \in 1..Len(Line(s)) : ~Acks(Line(s)[i])
  BY <1>6 DEF Own
<1>8. /\ rxAck'[s] = 0 /\ txSeq'[s] = 0 /\ txSlid'[s] = 0 /\ txAck'[s] = 0 /\ rxq'[s] = << >>
      /\ txq'[s] = << >> /\ released'[s] = released[s] /\ dropped'[s] = dropped[s]
  <2>1. Elems(<< >>) = {}
    <3>1. Len(<< >>) = 0 /\ 1..0 = {}
      BY EmptySeq
    <3> QED
      BY <3>1 DEF Elems
  <2> QED
    BY <1>1, <1>2, <1>7, <2>1 DEF Reset, TypeOK, SendType, RecvType
<1>9. win'[s] = 1 /\ link'[s] = "ACTIVE"
  <2>1. 1 \in 1..Len(Line(p))
    BY <1>4, <1>5, TailPlaces
  <2>2. Head(uartRx[s]).cfg = 1
    BY <1>2, <1>4, <1>6, <2>1 DEF Own, Arrived
  <2> QED
    BY <1>1, <1>2, <2>2 DEF SingleWindow, TypeOK, LinkType
<1>10. OthersKept(s)
  <2>1. \A r \in Side \ {s} : link'[r] = link[r] /\ win'[r] = win[r]
    BY <1>1, <1>2 DEF TypeOK, LinkType
  <2> QED
    BY <1>2, <2>1, ResetOthers DEF OthersKept, SenderKept, ReceiverKept
<1>11. Exchange(s, b)'
  <2>1. ReceiverKept(p) /\ Carried(Line(p)', Line(p))
    BY <1>1, <1>4, <1>10 DEF OthersKept, Carried
  <2> QED
    BY <1>2, <1>5, <1>6, <1>7, <1>8, <2>1, ExchangeReset
<1>12. Exchange(p, b)'
  <2>1. ReceiverKept(s) /\ SenderKept(p)
    BY <1>1, <1>2, <1>7, <1>8, <1>10 DEF OthersKept, ReceiverKept
  <2>2. Carried(Line(p)', Line(p)) /\ Carried(Line(s)', Line(s))
    BY <1>4, <1>5, CarriedSame DEF Carried
  <2> QED
    BY <1>1, <1>6, <2>1, <2>2, ExchangeKept
<1>13. Own(s)'
  <2>1. Part(Line(s)', Line(s)) /\ Line(s)' \in Seq(Frame)
    BY <1>3, <1>5, PartFront
  <2> QED
    BY <1>1, <1>3, <1>6, <1>9, <2>1, OwnStep
<1> QED
  BY <1>4, <1>7, <1>8, <1>10, <1>11, <1>12, <1>13, TalkingStep

\* A pure ACK at an ACTIVE link.
LEMMA RxAckTalking ==
    ASSUME IInv, NEW b, Talking(b), NEW s \in Side, RxAck(s), link[s] = "ACTIVE"
    PROVE  Talking(b)'
<1> DEFINE p == Peer[s]
           g == LinkFrame(s, "SYNC")
<1>1. TypeOK /\ p \in Side /\ p # s /\ Peer[p] = s
  BY PeerFacts DEF IInv
<1>2. /\ Arrived(s, "ACK") /\ TakeFrame(s) /\ ReSendCheck(s, Head(uartRx[s]).ack)
      /\ UNCHANGED <<linkVars, recvVars, uartTx, queued, handled>>
  BY DEF RxAck
<1>3. g \in Frame /\ g.type # "NONE" /\ ~Acks(g) /\ g.type # "CONFIG_RSP"
  BY <1>1, LinkFrames DEF LinkMsg
<1>4. /\ Line(p) # << >> /\ Line(p)[1] = Head(uartRx[s]) /\ Line(p)' = Tail(Line(p))
      /\ Line(p)' \in Seq(Frame) /\ Part(Line(p)', Line(p))
      /\ \A r \in Side \ {s, p} : Line(r)' = Line(r)
  BY <1>1, <1>2, <1>3, RxLines
<1>5. Line(s)' = Line(s) /\ Line(s) \in Seq(Frame)
  <2>1. uartRx'[p] = uartRx[p] /\ uartTx'[s] = uartTx[s]
    BY <1>1, <1>2 DEF TakeFrame, TypeOK, UartType
  <2> QED
    BY <1>1, <2>1, LineKept, ExchangeTypes
<1>6. Exchange(s, b) /\ Exchange(p, b) /\ Own(s)
  BY <1>1 DEF Talking
<1>7. OthersKept(s) /\ ReceiverKept(s)
  <2>1. \A r \in Side : link'[r] = link[r] /\ win'[r] = win[r] /\ ReceiverKept(r)
    BY <1>2 DEF linkVars, recvVars, ReceiverKept
  <2> QED
    BY <1>2, <2>1, AckOthers DEF OthersKept, SenderKept
<1>8. Exchange(s, b)'
  <2>1. ReceiverKept(p) /\ Acks(Line(p)[1]) /\ queued'[s] = queued[s]
        /\ ReSendCheck(s, Line(p)[1].ack)
    BY <1>1, <1>2, <1>4, <1>7 DEF OthersKept, Arrived, Acks
  <2> QED
    BY <1>4, <1>5, <1>6, <2>1, ExchangeAck
<1>9. Exchange(p, b)'
  <2>1. SenderKept(p) /\ Carried(Line(p)', Line(p)) /\ Carried(Line(s)', Line(s))
    BY <1>1, <1>4, <1>5, <1>7, CarriedSame DEF OthersKept, Carried
  <2> QED
    BY <1>1, <1>6, <1>7, <2>1, ExchangeKept
<1>10. Own(s)'
  <2>1. Part(Line(s)', Line(s)) /\ Line(s)' \in Seq(Frame)
    BY <1>3, <1>5, PartFront
  <2>2. link'[s] = "ACTIVE" /\ win'[s] = 1
    BY <1>2, <1>6 DEF linkVars, Own
  <2> QED
    BY <1>1, <1>3, <1>6, <2>1, <2>2, OwnStep
<1>11. txAck'[s] = txAck[s]
  BY <1>7 DEF ReceiverKept
<1> QED
  BY <1>4, <1>7, <1>8, <1>9, <1>10, <1>11, TalkingStep

\* A reliable packet at an ACTIVE link: perhaps taken in, and what it acknowledges.
LEMMA RxReliableTalking ==
    ASSUME IInv, NEW b, Talking(b), NEW s \in Side, RxReliable(s)
    PROVE  Talking(b)'
<1> DEFINE p == Peer[s]
           g == LinkFrame(s, "SYNC")
           f == Head(uartRx[s])
<1>1. TypeOK /\ p \in Side /\ p # s /\ Peer[p] = s
  BY PeerFacts DEF IInv
<1>2. /\ Arrived(s, "DATA") /\ f.rel /\ link[s] = "ACTIVE" /\ TakeFrame(s)
      /\ (f.seq = txAck[s] /\ AcceptReliable(s, f.msg)) \/ UNCHANGED <<recvVars, uartTx>>
      /\ PiggybackAck(s, f.ack) /\ UNCHANGED <<linkVars, queued, handled>>
  BY DEF RxReliable
<1>3. Exchange(s, b) /\ Exchange(p, b) /\ Own(s) /\ win[s] = 1
  BY <1>1, <1>2 DEF Talking, Own
<1>4. UNCHANGED uartTx
  BY <1>2, <1>3 DEF AcceptReliable
<1>5. g \in Frame /\ g.type # "NONE" /\ ~Acks(g) /\ g.type # "CONFIG_RSP"
  BY <1>1, LinkFrames DEF LinkMsg
<1>6. /\ Line(p) # << >> /\ Line(p)[1] = f /\ Line(p)' = Tail(Line(p)) /\ Line(p) \in Seq(Frame)
      /\ Line(p)' \in Seq(Frame) /\ Part(Line(p)', Line(p))
      /\ \A r \in Side \ {s, p} : Line(r)' = Line(r)
  BY <1>1, <1>2, <1>4, <1>5, RxLines
<1>7. Line(s)' = Line(s) /\ Line(s) \in Seq(Frame)
  <2>1. uartRx'[p] = uartRx[p] /\ uartTx'[s] = uartTx[s]
    BY <1>1, <1>2, <1>4 DEF TakeFrame, TypeOK, UartType
  <2> QED
    BY <1>1, <2>1, LineKept, ExchangeTypes
<1>8. \A r \in Side \ {s} : txAck'[r] = txAck[r] /\ rxq'[r] = rxq[r] /\ dropped'[r] = dropped[r]
  <2>1. CASE AcceptReliable(s, f.msg)
    BY <1>1, <2>1 DEF AcceptReliable, PackHciPdu, TypeOK, RecvType
  <2>2. CASE UNCHANGED recvVars
    BY <2>2 DEF recvVars
  <2> QED
    BY <1>2, <2>1, <2>2
<1>9. OthersKept(s)
  <2>1. \A r \in Side : link'[r] = link[r] /\ win'[r] = win[r]
    BY <1>2 DEF linkVars
  <2> QED
    BY <1>2, <1>8, <2>1, AckOthers DEF OthersKept, SenderKept, ReceiverKept
<1>10. Exchange(s, b)'
  <2>1. ReceiverKept(p) /\ Acks(Line(p)[1]) /\ queued'[s] = queued[s]
        /\ PiggybackAck(s, Line(p)[1].ack)
    BY <1>1, <1>2, <1>6, <1>9 DEF OthersKept, Arrived, Acks
  <2> QED
    BY <1>3, <1>6, <1>7, <2>1, ExchangeAck
<1>11. Exchange(p, b)'
  <2>1. SenderKept(p) /\ handled'[s] = handled[s]
    BY <1>1, <1>2, <1>9 DEF OthersKept
  <2>2. CASE f.seq = txAck[s] /\ AcceptReliable(s, f.msg)
    <3>1. /\ PackHciPdu(s, f.msg) /\ txAck'[s] = Incr(txAck[s]) /\ f.type = "DATA" /\ f \in Frame
      BY <1>1, <1>2, <2>2, TakeFrameType DEF AcceptReliable, TypeOK, RecvType, Arrived
    <3> QED
      BY <1>1, <1>3, <1>6, <1>7, <2>1, <2>2, <3>1, ExchangeTakeIn
  <2>3. CASE UNCHANGED recvVars
    <3>1. ReceiverKept(s) /\ Carried(Line(p)', Line(p)) /\ Carried(Line(s)', Line(s))
      BY <1>6, <1>7, <2>1, <2>3, CarriedSame DEF recvVars, ReceiverKept, Carried
    <3> QED
      BY <1>1, <1>3, <2>1, <3>1, ExchangeKept
  <2> QED
    BY <1>2, <2>2, <2>3
<1>12. Own(s)'
  <2>1. Part(Line(s)', Line(s)) /\ Line(s)' \in Seq(Frame)
    BY <1>5, <1>7, PartFront
  <2>2. link'[s] = "ACTIVE" /\ win'[s] = 1
    BY <1>2, <1>3 DEF linkVars
  <2> QED
    BY <1>1, <1>3, <1>5, <2>1, <2>2, OwnStep
<1>13. link[p] = "ACTIVE"
  <2>1. 1 \in 1..Len(Line(p)) /\ Acks(Line(p)[1])
    BY <1>2, <1>6, TailPlaces DEF Arrived, Acks
  <2>2. Own(p)
    BY <1>1 DEF Talking
  <2> QED
    BY <2>1, <2>2 DEF Own
<1> QED
  BY <1>6, <1>9, <1>10, <1>11, <1>12, <1>13, TalkingStep

\* HCI_H5_PacketHandler keeps the exchange.
LEMMA RxTalking ==
    ASSUME SingleWindow, IInv, Shaken, NEW b, Talking(b), NEW s \in Side, RxHandler(s),
           overruns' = overruns
    PROVE  Talking(b)'
<1>1. TypeOK /\ link \in [Side -> {"IDLE", "INIT", "ACTIVE"}] /\ Win[s] = 1
  BY DEF IInv, TypeOK, LinkType, SingleWindow
<1>2. \A type \in LinkMsg : /\ LinkFrame(s, type) \in Frame /\ LinkFrame(s, type).type = type
                            /\ LinkFrame(s, type).type # "NONE" /\ ~Acks(LinkFrame(s, type))
                            /\ type = "CONFIG_RSP" => LinkFrame(s, type).cfg = 1
  BY <1>1, LinkFrames
<1>3. {"SYNC", "SYNC_RSP", "CONFIG", "CONFIG_RSP"} \subseteq LinkMsg
  BY DEF LinkMsg
<1>4. ASSUME NEW type, Arrived(s, type), TakeFrame(s), NEW sent \in LinkMsg,
             Transmit(s, LinkFrame(s, sent)) \/ UNCHANGED uartTx,
             UNCHANGED <<win, sendVars, recvVars, queued, handled>>,
             \A r \in Side \ {s} : link'[r] = link[r],
             link'[s] = "ACTIVE" <=> link[s] = "ACTIVE"
      PROVE  Talking(b)'
  BY <1>2, <1>4, RxQuiet
<1>5. CASE RxSync(s)
  <2>1. link[s] # "ACTIVE"
    BY <1>1, <1>5, NoLateSync DEF RxSync
  <2>2. /\ Arrived(s, "SYNC") /\ TakeFrame(s) /\ Transmit(s, LinkFrame(s, "SYNC_RSP"))
        /\ UNCHANGED <<link, win, sendVars, recvVars, queued, handled>>
    BY <1>5, <2>1 DEF RxSync
  <2> QED
    BY <1>3, <1>4, <2>2
<1>6. CASE RxSyncRsp(s)
  <2>1. /\ Arrived(s, "SYNC_RSP") /\ TakeFrame(s)
        /\ Transmit(s, LinkFrame(s, "CONFIG")) \/ UNCHANGED uartTx
        /\ UNCHANGED <<win, sendVars, recvVars, queued, handled>>
    BY <1>6 DEF RxSyncRsp
  <2>2. /\ \A r \in Side \ {s} : link'[r] = link[r]
        /\ link'[s] = IF link[s] = "IDLE" THEN "INIT" ELSE link[s]
    BY <1>1, <1>6 DEF RxSyncRsp
  <2>3. link'[s] = "ACTIVE" <=> link[s] = "ACTIVE"
    BY <2>2
  <2> QED
    BY <1>3, <1>4, <2>1, <2>2, <2>3
<1>7. CASE RxConfig(s)
  <2> DEFINE sent == IF link[s] = "IDLE" THEN "SYNC" ELSE "CONFIG_RSP"
  <2>1. /\ Arrived(s, "CONFIG") /\ TakeFrame(s) /\ Transmit(s, LinkFrame(s, sent))
        /\ UNCHANGED <<link, win, sendVars, recvVars, queued, handled>>
    BY <1>7 DEF RxConfig, linkVars
  <2>2. sent \in LinkMsg
    BY <1>3
  <2> HIDE DEF sent
  <2> QED
    BY <1>4, <2>1, <2>2
<1>8. CASE RxConfigRsp(s)
  <2>1. CASE link[s] = "INIT"
    BY <1>8, <2>1, RxConfigRspTalking
  <2>2. CASE link[s] # "INIT"
    <3>1. /\ Arrived(s, "CONFIG_RSP") /\ TakeFrame(s)
          /\ Transmit(s, LinkFrame(s, "SYNC")) \/ UNCHANGED uartTx
          /\ UNCHANGED <<link, win, sendVars, recvVars, queued, handled>>
      BY <1>8, <2>2 DEF RxConfigRsp, linkVars
    <3> QED
      BY <1>3, <1>4, <3>1
  <2> QED
    BY <2>1, <2>2
<1>9. CASE RxAck(s)
  <2>1. CASE link[s] = "ACTIVE"
    BY <1>9, <2>1, RxAckTalking
  <2>2. CASE link[s] # "ACTIVE"
    <3>1. /\ Arrived(s, "ACK") /\ TakeFrame(s)
          /\ UNCHANGED <<link, win, uartTx, sendVars, recvVars, queued, handled>>
      BY <1>9, <2>2 DEF RxAck, linkVars
    <3> QED
      BY <1>3, <1>4, <3>1
  <2> QED
    BY <2>1, <2>2
<1>10. CASE RxReliable(s)
  BY <1>10, RxReliableTalking
<1>11. CASE RxUnreliable(s)
  <2> DEFINE p == Peer[s]
             g == LinkFrame(s, "SYNC")
  <2>1. /\ Arrived(s, "DATA") /\ ~Head(uartRx[s]).rel /\ TakeFrame(s) /\ UNCHANGED uartTx
    BY <1>11 DEF RxUnreliable
  <2>2. g \in Frame /\ g.type # "NONE"
    BY <1>2, <1>3
  <2>3. Line(p) \in Seq(Frame) /\ Line(p) # << >> /\ Line(p)[1] = Head(uartRx[s])
    BY <1>1, <2>1, <2>2, RxLines
  <2>4. p \in Side
    BY <1>1, PeerFacts
  <2>5. 1 \in 1..Len(Line(p)) /\ Line(p)[1].type = "DATA"
    BY <2>1, <2>3, TailPlaces DEF Arrived
  <2>6. Line(p)[1].rel
    BY <2>4, <2>5 DEF Talking, Exchange, DataOK
  <2> QED
    BY <2>1, <2>3, <2>6
<1>12. CASE RxDataEarly(s) \/ RxDamaged(s)
  <2>1. /\ Arrived(s, "DATA") \/ Arrived(s, "NONE")
        /\ TakeFrame(s)
        /\ UNCHANGED <<link, win, uartTx, sendVars, recvVars, queued, handled>>
    BY <1>12 DEF RxDataEarly, RxDamaged, linkVars
  <2> QED
    BY <1>3, <1>4, <2>1
<1>13. ~RxSpoilt(s)
  BY <1>1 DEF RxSpoilt, TypeOK, CountType
<1> QED
  BY <1>5, <1>6, <1>7, <1>8, <1>9, <1>10, <1>11, <1>12, <1>13 DEF RxHandler

\* The sender sends a pure ACK; a resend that sends no packet has perhaps taken the
\* first packet out of the window.
LEMMA ExchangeAcks ==
    ASSUME TypeOK, NEW s \in Side, NEW b, Exchange(s, b), ReceiverKept(Peer[s]),
           rxAck'[s] = rxAck[s], txq'[s] = txq[s], queued'[s] = queued[s],
           released'[s] = released[s],
           \/ SenderKept(s)
           \/ txSlid'[s] = 0 /\ txSeq'[s] = rxAck[s] /\ (b = 0 => txSlid[s] = 0),
           NEW f \in Frame, f.type # "DATA",
           Line(s)' = Line(s) \/ Line(s)' = Append(Line(s), f), Line(Peer[s])' = Line(Peer[s])
    PROVE  Exchange(s, b)'
<1> DEFINE p == Peer[s]
<1>1. Line(s) \in Seq(Frame)
  BY ExchangeTypes
<1>2. /\ DataOK(Line(s), rxAck[s], txSlid[s], txSeq[s], txq[s], txAck[p], b)
      /\ Numbers(rxAck[s], txSlid[s], txSeq[s], txAck[p], rsT[s], b)
  BY DEF Exchange
<1>3. DataOK(Line(s)', rxAck[s], txSlid[s], txSeq[s], txq[s], txAck[p], b)
  <2>1. CASE Line(s)' = Append(Line(s), f)
    BY <1>1, <1>2, <2>1, DataAppend
  <2> QED
    BY <1>2, <2>1
<1>4. TakenIn(p)' = TakenIn(p)
  BY DEF TakenIn, ReceiverKept
<1>5. CASE SenderKept(s)
  BY <1>2, <1>3, <1>4, <1>5 DEF Exchange, SenderKept, ReceiverKept
<1>6. CASE txSlid'[s] = 0 /\ txSeq'[s] = rxAck[s] /\ (b = 0 => txSlid[s] = 0)
  <2>1. DataOK(Line(s)', rxAck[s], 0, rxAck[s], txq[s], txAck[p], b)
    <3>1. Sent(rxAck[s], txSlid[s], txSeq[s], b) => Sent(rxAck[s], 0, rxAck[s], b)
      BY <1>6 DEF Sent
    <3> QED
      BY <1>3, <3>1 DEF DataOK
  <2>2. Numbers(rxAck[s], 0, rxAck[s], txAck[p], rsT'[s], b)
    BY <1>2, <1>6 DEF Numbers
  <2> QED
    BY <1>4, <1>6, <2>1, <2>2 DEF Exchange, ReceiverKept
<1> QED
  BY <1>5, <1>6

\* HCI_H5_Poll of an ACTIVE link, with HCI_Handler: it sends the first packet, or
\* perhaps a pure ACK.
LEMMA PollTalking ==
    ASSUME AllReliable, IInv, NEW b, Talking(b), NEW s \in Side, link[s] = "ACTIVE", HciHandler(s),
           UNCHANGED <<linkVars, rxAck, txq, released, txAck, dropped, uartRx, queued>>,
           \A r \in Side \ {s} :
              txSlid'[r] = txSlid[r] /\ txSeq'[r] = txSeq[r] /\ rsT'[r] = rsT[r],
           \/ SendDone(s, rxAck[s], 0)
           \/ PollAck(s) /\ txSlid'[s] = txSlid[s] /\ txSeq'[s] = txSeq[s] /\ rsT'[s] = rsT[s]
           \/ PollAck(s) /\ txSlid'[s] = 0 /\ txSeq'[s] = rxAck[s] /\ (b = 0 => txSlid[s] = 0)
    PROVE  Talking(b)'
<1> DEFINE p == Peer[s]
<1>1. /\ TypeOK /\ p \in Side /\ p # s /\ Peer[p] = s /\ txAck[s] \in SN /\ rxAck[s] \in SN
      /\ Line(s) \in Seq(Frame) /\ Line(p) \in Seq(Frame)
      /\ txq[s] \in Seq(Msg)
  BY PeerFacts, ExchangeTypes DEF IInv
<1>2. Exchange(s, b) /\ Exchange(p, b) /\ Own(s) /\ win[s] = 1 /\ link'[s] = "ACTIVE" /\ win'[s] = 1
  BY <1>1 DEF Talking, Own, linkVars
<1>3. OthersKept(s)
  BY HandlerOthers DEF OthersKept, SenderKept, ReceiverKept, linkVars
<1>4. ReceiverKept(p) /\ SenderKept(p)
  BY <1>1, <1>3 DEF OthersKept
<1>5. ASSUME NEW f \in Frame, f.ack = txAck[s], f.type \in {"ACK", "DATA"}, Exchange(s, b)',
             Line(s)' = Line(s) \/ Line(s)' = Append(Line(s), f),
             \A r \in Side \ {s} : Line(r)' = Line(r)
      PROVE  Talking(b)'
  <2>1. Exchange(p, b)'
    BY <1>1, <1>2, <1>4, <1>5, ExchangePoll
  <2>2. (Line(s)' \in Seq(Frame) /\ Part(Line(s)', Line(s))) \/ Line(s)' = Append(Line(s), f)
    BY <1>1, <1>5, PartFront
  <2>3. Own(s)'
    BY <1>1, <1>2, <1>5, <2>2, OwnStep
  <2>4. Line(p)' \in Seq(Frame) /\ Part(Line(p)', Line(p))
    BY <1>1, <1>5, PartFront
  <2> QED
    BY <1>1, <1>3, <1>5, <2>1, <2>3, <2>4, TalkingStep
<1>6. CASE SendDone(s, rxAck[s], 0)
  <2> DEFINE m == txq[s][1]
             f == DataFrame(s, rxAck[s], m)
  <2>1. f \in Frame /\ f.type = "DATA" /\ Transmit(s, f)
    <3>1. 0 \in Nat /\ 0 <= Len(txq[s]) /\ 0 + 1 = 1
      BY <1>1, LenProperties
    <3> QED
      BY <1>1, <1>6, <3>1, DataSent
  <2>2. /\ UartIdle(s) /\ uartTx' = [uartTx EXCEPT ![s] = f]
        /\ txSeq' = [txSeq EXCEPT ![s] = IF IsReliablePacket(m) THEN Incr(rxAck[s]) ELSE rxAck[s]]
        /\ txSlid' = [txSlid EXCEPT ![s] = 1]
    BY <1>6 DEF SendDone
  <2>3. IsReliablePacket(m)
    BY DEF IsReliablePacket, AllReliable
  <2>4. f.rel /\ f.seq = rxAck[s] /\ f.msg = m /\ f.ack = txAck[s]
    BY <2>3 DEF DataFrame
  <2>9. txq[s] # << >>
    BY <1>6, EmptySeq DEF SendDone, HasData
  <2>5. txSeq'[s] = Incr(rxAck[s]) /\ txSlid'[s] = 1
    BY <1>1, <2>2, <2>3 DEF TypeOK, SendType
  <2>6. Line(s)' = Append(Line(s), f)
    <3>1. uartTx[s] \in Frame /\ uartRx[p] \in Seq(Frame) /\ uartTx[s].type = "NONE"
          /\ uartTx'[s] = f
      BY <1>1, <2>2 DEF TypeOK, UartType, UartIdle
    <3>2. Line(s) = uartRx[p]
      BY <3>1, LineEnd DEF Line
    <3>3. f.type # "NONE"
      BY <2>1
    <3> HIDE DEF f
    <3>4. LineOf(uartRx[p], f) = Append(uartRx[p], f)
      BY <2>1, <3>1, <3>3, LineEnd
    <3> QED
      BY <3>1, <3>2, <3>4 DEF Line
  <2>7. \A r \in Side \ {s} : Line(r)' = Line(r)
    BY <1>1, <2>1, PollLines
  <2> HIDE DEF f
  <2>8. Exchange(s, b)'
    BY <1>1, <1>2, <1>4, <2>1, <2>4, <2>5, <2>6, <2>7, <2>9, ExchangeSend
  <2> QED
    BY <1>5, <2>1, <2>4, <2>6, <2>7, <2>8
<1>7. CASE /\ PollAck(s)
           /\ \/ txSlid'[s] = txSlid[s] /\ txSeq'[s] = txSeq[s] /\ rsT'[s] = rsT[s]
              \/ txSlid'[s] = 0 /\ txSeq'[s] = rxAck[s] /\ (b = 0 => txSlid[s] = 0)
  <2> DEFINE f == AckFrame(txAck[s])
  <2>1. f \in Frame /\ f.type = "ACK" /\ f.ack = txAck[s]
    BY <1>1, AckSent
  <2>2. Transmit(s, f) \/ UNCHANGED uartTx
    BY <1>7 DEF PollAck
  <2> HIDE DEF f
  <2>3. /\ Line(s)' = Line(s) \/ Line(s)' = Append(Line(s), f)
        /\ \A r \in Side \ {s} : Line(r)' = Line(r)
    BY <1>1, <2>1, <2>2, PollLines
  <2>4. \/ SenderKept(s)
        \/ txSlid'[s] = 0 /\ txSeq'[s] = rxAck[s] /\ (b = 0 => txSlid[s] = 0)
    BY <1>7 DEF SenderKept
  <2>5. Exchange(s, b)'
    BY <1>1, <1>2, <1>4, <2>1, <2>3, <2>4, ExchangeAcks
  <2> QED
    BY <1>5, <2>1, <2>3, <2>5
<1> QED
  BY <1>6, <1>7

\* HCI_H5_Poll keeps the exchange.  When a resend timer runs out while the UART sends,
\* the number goes back and the packet does not go out: that is only for b # 0.
LEMMA ActiveTalking ==
    ASSUME AllReliable, IInv, NEW b, Talking(b), NEW s \in Side,
           (PollResend(s) /\ (b = 0 => busy' = busy)) \/ PollSend(s)
    PROVE  Talking(b)'
<1>1. /\ TypeOK /\ txq[s] \in Seq(Msg) /\ Len(txq[s]) \in Nat /\ txSlid[s] \in Nat
      /\ txSlid[s] <= Len(txq[s]) /\ txSeq \in [Side -> SN] /\ txSlid \in [Side -> Nat]
      /\ busy \in Nat
  BY ExchangeTypes, LenProperties DEF IInv, WindowInFifo, TypeOK, SendType, CountType
<1>2. /\ link[s] = "ACTIVE" /\ HciHandler(s)
      /\ UNCHANGED <<linkVars, rxAck, txq, released, txAck, dropped, uartRx, queued>>
  BY DEF PollResend, PollSend
<1>3. win[s] = 1 /\ Numbers(rxAck[s], txSlid[s], txSeq[s], txAck[Peer[s]], rsT[s], b)
  BY <1>2 DEF Talking, Own, Exchange
<1>4. \A m : IsReliablePacket(m)
  BY DEF IsReliablePacket, AllReliable
<1>5. \A r \in Side \ {s} : rsT'[r] = rsT[r]
  <2>1. rsT \in [Side -> BOOLEAN]
    BY <1>1 DEF TypeOK, SendType
  <2> QED
    BY <2>1 DEF PollResend, PollSend
<1>6. ASSUME NEW tick, SendData(s, rxAck[s], 0, tick), b = 0 => UartIdle(s) \/ txSlid[s] = 0
      PROVE  Talking(b)'
  <2>1. \A r \in Side \ {s} : txSlid'[r] = txSlid[r] /\ txSeq'[r] = txSeq[r] /\ rsT'[r] = rsT[r]
    BY <1>5, <1>6, SendOthers
  <2>2. CASE SendDone(s, rxAck[s], 0)
    BY <1>2, <2>1, <2>2, PollTalking
  <2>3. CASE SendRefused(s, rxAck[s], 0) /\ PollAck(s)
    <3>1. b = 0 => txSlid[s] = 0
      BY <1>6, <2>3 DEF SendRefused
    <3>2. txSlid'[s] = 0 /\ txSeq'[s] = rxAck[s]
      BY <1>1, <1>4, <2>3 DEF SendRefused
    <3> QED
      BY <1>2, <2>1, <2>3, <3>1, <3>2, PollTalking
  <2>4. CASE SendNothing(s, rxAck[s], 0, tick) /\ PollAck(s)
    <3>1. Len(txq[s]) = 0
      BY <1>3, <2>4 DEF SendNothing, HasData
    <3>2. txSlid[s] = 0
      BY <1>1, <3>1
    <3>3. txSlid'[s] = 0 /\ txSeq'[s] = rxAck[s]
      BY <1>1, <2>4 DEF SendNothing
    <3> QED
      BY <1>2, <2>1, <2>4, <3>2, <3>3, PollTalking
  <2> QED
    BY <1>6, <2>2, <2>3, <2>4 DEF SendData
<1>7. CASE PollResend(s) /\ (b = 0 => busy' = busy)
  <2>1. SendData(s, rxAck[s], 0, txT[s] /\ rsT[s])
    BY <1>7 DEF PollResend
  <2>2. b = 0 => UartIdle(s)
    BY <1>1, <1>7 DEF PollResend
  <2> QED
    BY <1>6, <2>1, <2>2
<1>8. CASE PollSend(s)
  <2>1. CASE ~rsT[s] /\ txSlid[s] < win[s] /\ SendData(s, txSeq[s], txSlid[s], txT[s])
    <3>1. rsT[s] # TRUE
      BY <2>1
    <3>2. txSlid[s] = 0
      BY <1>1, <1>3, <2>1
    <3>3. txSeq[s] = rxAck[s]
      BY <1>3, <3>1, <3>2 DEF Numbers
    <3> QED
      BY <1>6, <2>1, <3>2, <3>3
  <2>2. CASE PollAck(s) /\ UNCHANGED <<txSeq, txSlid>>
    <3>1. UNCHANGED rsT
      BY <1>8 DEF PollSend
    <3> QED
      BY <1>2, <2>2, <3>1, PollTalking
  <2> QED
    BY <1>8, <2>1, <2>2 DEF PollSend
<1> QED
  BY <1>7, <1>8

\* The rest of the main loop, the controller and the wire keep the exchange.
LEMMA OtherTalking ==
    ASSUME IInv, NEW b, Talking(b), NEW s \in Side, overruns' = overruns,
           PollLink(s) \/ QueueTx(s) \/ UartRxIRQ(s) \/ UartDamage(s)
    PROVE  Talking(b)'
<1> DEFINE p == Peer[s]
           g == LinkFrame(s, "SYNC")
<1>1. /\ TypeOK /\ p \in Side /\ p # s /\ Peer[p] = s /\ Line(s) \in Seq(Frame)
      /\ Line(p) \in Seq(Frame)
  BY PeerFacts, ExchangeTypes DEF IInv
<1>2. \A type \in {"SYNC", "CONFIG"} :
          /\ LinkFrame(s, type) \in Frame /\ LinkFrame(s, type).type = type
          /\ ~Acks(LinkFrame(s, type))
  BY <1>1, LinkFrames DEF LinkMsg
<1>3. Part(Line(s), Line(s)) /\ Part(Line(p), Line(p))
  BY <1>1, <1>2, PartFront
<1>4. ASSUME UNCHANGED <<linkVars, sendVars, recvVars, queued, handled>>
      PROVE  OthersKept(s) /\ SenderKept(s) /\ ReceiverKept(s) /\ link'[s] = link[s]
             /\ win'[s] = win[s]
  BY <1>4 DEF OthersKept, SenderKept, ReceiverKept, linkVars, sendVars, recvVars
<1>5. CASE PollLink(s)
  <2> DEFINE type == IF link[s] = "IDLE" THEN "SYNC" ELSE "CONFIG"
             f == LinkFrame(s, type)
  <2>1. /\ link[s] # "ACTIVE" /\ Transmit(s, f) /\ HciHandler(s)
        /\ UNCHANGED <<linkVars, sendVars, txAck, rxSlid, rxT, dropped, uartRx, queued>>
    BY <1>5 DEF PollLink
  <2>2. rxq[s] = << >>
    BY <2>1 DEF Talking, Own
  <2>3. UNCHANGED <<rxq, handled>>
    BY <2>1, <2>2 DEF HciHandler
  <2>4. UNCHANGED <<linkVars, sendVars, recvVars, queued, handled>>
    BY <2>1, <2>3 DEF recvVars
  <2>5. f \in Frame /\ f.type \in {"SYNC", "CONFIG"} /\ ~Acks(f)
    BY <1>2
  <2> HIDE DEF f
  <2>6. /\ Line(s)' = Line(s) \/ Line(s)' = Append(Line(s), f)
        /\ \A r \in Side \ {s} : Line(r)' = Line(r)
    BY <1>1, <2>1, <2>5, PollLines
  <2>7. (Line(s)' \in Seq(Frame) /\ Part(Line(s)', Line(s))) \/ Line(s)' = Append(Line(s), f)
    BY <1>1, <1>3, <2>6
  <2>8. Line(p)' \in Seq(Frame) /\ Part(Line(p)', Line(p))
    BY <1>1, <1>3, <2>6
  <2> QED
    BY <1>4, <2>4, <2>5, <2>6, <2>7, <2>8, TalkingQuiet
<1>6. CASE UartRxIRQ(s) \/ UartDamage(s)
  <2>1. /\ Line(s)' \in Seq(Frame) /\ Part(Line(s)', Line(s))
        /\ \A r \in Side \ {s} : Line(r)' = Line(r)
    BY <1>1, <1>6, WireLines
  <2>2. UNCHANGED <<linkVars, sendVars, recvVars, queued, handled>>
    BY <1>6 DEF UartRxIRQ, UartDamage
  <2>3. Line(p)' \in Seq(Frame) /\ Part(Line(p)', Line(p))
    BY <1>1, <1>3, <2>1
  <2>4. g \in Frame /\ g.type = "SYNC" /\ ~Acks(g)
    BY <1>2
  <2> HIDE DEF g
  <2> QED
    BY <1>4, <2>1, <2>2, <2>3, <2>4, TalkingQuiet
<1>7. CASE QueueTx(s)
  <2>1. /\ txq' = [txq EXCEPT ![s] = Append(@, queued[s] + 1)]
        /\ queued' = [queued EXCEPT ![s] = @ + 1]
        /\ UNCHANGED <<linkVars, txSeq, rxAck, txSlid, rsT, released, recvVars, uartTx, uartRx, handled>>
    BY <1>7 DEF QueueTx
  <2>2. \A r \in Side : Line(r)' = Line(r)
    BY <2>1, LineKept
  <2>3. /\ txq'[s] = Append(txq[s], queued[s] + 1) /\ queued'[s] = queued[s] + 1
        /\ \A r \in Side \ {s} : txq'[r] = txq[r] /\ queued'[r] = queued[r]
    BY <1>1, <2>1 DEF TypeOK, SendType, CountType
  <2>4. OthersKept(s) /\ ReceiverKept(s)
    BY <2>1, <2>3 DEF OthersKept, SenderKept, ReceiverKept, linkVars, recvVars
  <2>5. ReceiverKept(p) /\ SenderKept(p)
    BY <1>1, <2>4 DEF OthersKept
  <2>6. Exchange(s, b) /\ Exchange(p, b) /\ Own(s)
    BY <1>1 DEF Talking
  <2>7. Exchange(s, b)'
    BY <1>1, <2>1, <2>2, <2>3, <2>5, <2>6, ExchangeQueue
  <2>8. Exchange(p, b)'
    BY <1>1, <2>2, <2>4, <2>5, <2>6, CarriedSame, ExchangeKept
  <2>10. txAck'[s] = txAck[s]
    BY <2>1 DEF recvVars
  <2>9. Own(s)'
    BY <2>1, <2>2, <2>6 DEF Own, linkVars, recvVars
  <2> QED
    BY <1>1, <1>3, <2>2, <2>4, <2>7, <2>8, <2>9, <2>10, TalkingStep
<1> QED
  BY <1>5, <1>6, <1>7


\* Nothing has been exchanged when the two sides start.
LEMMA InitExchange == Init => ExchangeInv
<1> SUFFICES ASSUME Init, NEW b PROVE Talking(b)
  BY DEF ExchangeInv
<1>1. Len(<< >>) = 0 /\ 1..0 = {} /\ << >> \o << >> = << >>
  BY EmptySeq, ConcatEmptySeq
<1>2. ASSUME NEW s \in Side PROVE Exchange(s, b) /\ Own(s)
  <2> DEFINE p == Peer[s]
  <2>1. p \in Side
    BY H5Assumption
  <2>2. Line(s) = << >> /\ Line(p) = << >>
    BY <2>1, InitLines
  <2>3. /\ rxAck[s] = 0 /\ txSeq[s] = 0 /\ txSlid[s] = 0 /\ txAck[s] = 0 /\ txAck[p] = 0
        /\ txq[s] = << >> /\ rxq[s] = << >> /\ rxq[p] = << >> /\ handled[p] = << >>
        /\ queued[s] = 0 /\ released[s] = {} /\ link[s] = "IDLE"
    BY <2>1 DEF Init
  <2>4. TakenIn(p) = << >>
    BY <1>1, <2>3 DEF TakenIn
  <2>5. Numbers(0, 0, 0, 0, rsT[s], b)
    BY DEF Numbers
  <2>6. DataOK(<< >>, 0, 0, 0, << >>, 0, b) /\ AckOK(<< >>, 0, 0, << >>)
    BY <1>1 DEF DataOK, AckOK
  <2>7. Taken(0, 0, << >>, 0, << >>, {}, dropped[p], b)
    BY <1>1 DEF Taken
  <2>8. Exchange(s, b)
    BY <2>2, <2>3, <2>4, <2>5, <2>6, <2>7 DEF Exchange
  <2>9. Own(s)
    BY <1>1, <2>2, <2>3 DEF Own
  <2> QED
    BY <2>8, <2>9
<1> QED
  BY <1>2 DEF Talking

\* Every step that disturbs nothing keeps the exchange.
LEMMA NextTalking ==
    ASSUME SingleWindow, AllReliable, IInv, Shaken, NEW b, Talking(b), [Next]_vars,
           reboots' = reboots, overruns' = overruns, b = 0 => busy' = busy
    PROVE  Talking(b)'
<1>1. CASE Next
  <2>1. PICK s \in Side :
          \/ RxHandler(s)
          \/ PollLink(s) \/ PollResend(s) \/ PollSend(s)
          \/ QueueTx(s)
          \/ UartRxIRQ(s) \/ UartDamage(s)
          \/ Reboot(s)
    BY <1>1 DEF Next
  <2>2. ~Reboot(s)
    <3>1. reboots \in Nat
      BY DEF IInv, TypeOK, CountType
    <3> QED
      BY <3>1 DEF Reboot
  <2>3. CASE RxHandler(s)
    BY <2>3, RxTalking
  <2>4. CASE PollResend(s) \/ PollSend(s)
    BY <2>4, ActiveTalking
  <2>5. CASE PollLink(s) \/ QueueTx(s) \/ UartRxIRQ(s) \/ UartDamage(s)
    BY <2>5, OtherTalking
  <2> QED
    BY <2>1, <2>2, <2>3, <2>4, <2>5
<1>2. CASE UNCHANGED vars
  <2>1. UNCHANGED <<link, win, txSeq, rxAck, txSlid, rsT, txq, released, txAck, rxq, dropped,
                    uartTx, uartRx, queued, handled>>
    BY <1>2 DEF vars, linkVars, sendVars, recvVars
  <2>2. \A r \in Side : Line(r)' = Line(r) /\ TakenIn(r)' = TakenIn(r)
    BY <2>1 DEF Line, TakenIn
  <2>3. \A r \in Side : Peer[r] \in Side
    BY H5Assumption
  <2>4. ASSUME NEW r \in Side PROVE Exchange(r, b)' /\ Own(r)'
    <3>1. Exchange(r, b) /\ Own(r)
      BY DEF Talking
    <3>2. Exchange(r, b)'
      BY <2>1, <2>2, <2>3, <3>1 DEF Exchange
    <3>3. Own(r)'
      BY <2>1, <2>2, <3>1 DEF Own
    <3> QED
      BY <3>2, <3>3
  <2> QED
    BY <2>4 DEF Talking
<1> QED
  BY <1>1, <1>2

\* Every step keeps the invariant of the exchange.
LEMMA NextExchange ==
    ASSUME SingleWindow, AllReliable
    PROVE  IInv /\ LinkInv /\ ExchangeInv /\ [Next]_vars => ExchangeInv'
<1> SUFFICES ASSUME IInv, LinkInv, ExchangeInv, [Next]_vars, Undisturbed'
             PROVE  (busy' = 0 => Talking(0)') /\ Talking(1)'
  BY DEF ExchangeInv
<1>1. /\ busy \in Nat /\ Undisturbed /\ reboots' = reboots /\ overruns' = overruns
      /\ \A s \in Side : ~Reboot(s)
  BY StillUndisturbed DEF IInv, TypeOK, CountType
<1>2. busy' = busy \/ busy' = busy + 1
  <2>1. CASE Next
    <3>1. PICK s \in Side :
            \/ RxHandler(s)
            \/ PollLink(s) \/ PollResend(s) \/ PollSend(s)
            \/ QueueTx(s)
            \/ UartRxIRQ(s) \/ UartDamage(s)
            \/ Reboot(s)
      BY <2>1 DEF Next
    <3>2. ~Reboot(s)
      BY <1>1
    <3>3. CASE PollResend(s)
      BY <3>3 DEF PollResend
    <3>4. CASE ~PollResend(s)
      BY <3>1, <3>2, <3>4 DEF RxHandler, RxSync, RxSyncRsp, RxConfig, RxConfigRsp, RxAck, RxReliable,
                              RxUnreliable, RxDataEarly, RxDamaged, RxSpoilt, PollLink, PollSend,
                              QueueTx, UartRxIRQ, UartDamage, faultVars
    <3> QED
      BY <3>3, <3>4
  <2>2. CASE UNCHANGED vars
    BY <2>2 DEF vars, faultVars
  <2> QED
    BY <2>1, <2>2
<1>3. Shaken /\ (busy = 0 => Talking(0)) /\ Talking(1)
  BY <1>1 DEF LinkInv, ExchangeInv
<1>4. 1 # 0 /\ (busy' = 0 => busy = 0 /\ busy' = busy)
  BY <1>1, <1>2
<1>5. Talking(1)'
  BY <1>1, <1>3, <1>4, NextTalking
<1>6. CASE busy' = 0
  <2>1. Talking(0) /\ busy' = busy
    BY <1>3, <1>4, <1>6
  <2>2. Talking(0)'
    BY <1>1, <1>3, <2>1, NextTalking
  <2> QED
    BY <1>5, <2>2
<1> QED
  BY <1>5, <1>6

LEMMA ExchangeAlways ==
    ASSUME SingleWindow, AllReliable
    PROVE  Spec => []ExchangeInv
<1>1. IInv /\ LinkInv /\ [Next]_vars => LinkInv'
  BY NextLink
<1>2. IInv /\ LinkInv /\ ExchangeInv /\ [Next]_vars => ExchangeInv'
  BY NextExchange
<1> QED
  BY <1>1, <1>2, InitLink, InitExchange, IInvAlways, PTL DEF Spec

\* "local packet is received by peer correctly": with the window of one that the
\* code configures, an acknowledgement takes a packet out of the HCI Tx FIFO only
\* when the peer has taken it in, whatever frames are lost, resent, refused by a
\* busy UART or late, until a side restarts or its UART Rx FIFO is found full.
THEOREM H5NoSilentLoss ==
    ASSUME SingleWindow, AllReliable
    PROVE  Spec => [](Undisturbed => NoSilentLoss)
<1>1. Talking(1) => NoSilentLoss
  <2> SUFFICES ASSUME Talking(1), NEW s \in Side
               PROVE  {m \in released[s] : IsReliablePacket(m)}
                          \subseteq Elems(TakenIn(Peer[s])) \cup dropped[Peer[s]]
    BY DEF NoSilentLoss
  <2>1. released[s] \subseteq Elems(TakenIn(Peer[s])) \cup dropped[Peer[s]]
    BY DEF Talking, Exchange, Taken
  <2> QED
    BY <2>1
<1>2. ExchangeInv => (Undisturbed => NoSilentLoss)
  BY <1>1 DEF ExchangeInv
<1> QED
  BY <1>2, ExchangeAlways, PTL

\* HCI_H5_DecodeDataPdu does not take a packet in twice, until a side restarts, its
\* UART Rx FIFO is found full or a resend timer runs out during a transmission:
\* a packet sent again because its acknowledgement was lost or late carries a number
\* that the receiver does not expect any more.
THEOREM H5NoDuplicate ==
    ASSUME SingleWindow, AllReliable
    PROVE  Spec => [](Undisturbed /\ busy = 0 => NoDuplicate)
<1>1. Talking(0) => NoDuplicate
  <2> SUFFICES ASSUME Talking(0), NEW p \in Side
               PROVE  \A i, j \in 1..Len(TakenIn(p)) : i # j => TakenIn(p)[i] # TakenIn(p)[j]
    BY DEF NoDuplicate
  <2>1. Peer[p] \in Side /\ Peer[Peer[p]] = p
    BY H5Assumption
  <2>2. Exchange(Peer[p], 0)
    BY <2>1 DEF Talking
  <2> QED
    BY <2>1, <2>2 DEF Exchange, Taken
<1>2. ExchangeInv => (Undisturbed /\ busy = 0 => NoDuplicate)
  BY <1>1 DEF ExchangeInv
<1> QED
  BY <1>2, ExchangeAlways, PTL

\* HCI_H5_PackHciPdu stores without a test for a full FIFO; until a side restarts or
\* its UART Rx FIFO is found full, no HCI Rx FIFO, however small, overruns: a packet,
\* the next one or the same one taken in twice, follows only when the one before it
\* has been acknowledged, hence handled.
THEOREM H5RxFifoNotOverrun ==
    ASSUME SingleWindow, AllReliable
    PROVE  Spec => [](Undisturbed => RxFifoNotOverrun)
<1>1. Talking(1) => RxFifoNotOverrun
  <2> SUFFICES ASSUME Talking(1), NEW p \in Side PROVE Len(rxq[p]) <= RxNum
    BY DEF RxFifoNotOverrun
  <2>1. Peer[p] \in Side /\ Peer[Peer[p]] = p /\ RxNum \in Nat /\ RxNum # 0
    BY H5Assumption
  <2>2. Exchange(Peer[p], 1)
    BY <2>1 DEF Talking
  <2>3. rxq[p] = << >> \/ Len(rxq[p]) = 1
    BY <2>1, <2>2 DEF Exchange, AckOK
  <2>4. Len(<< >>) = 0
    BY EmptySeq
  <2> DEFINE n == Len(rxq[p])
  <2>5. n \in {0, 1}
    BY <2>3, <2>4
  <2> HIDE DEF n
  <2>6. n <= RxNum
    BY <2>1, <2>5
  <2> QED
    BY <2>6 DEF n
<1>2. ExchangeInv => (Undisturbed => RxFifoNotOverrun)
  BY <1>1 DEF ExchangeInv
<1> QED
  BY <1>2, ExchangeAlways, PTL

=============================================================================
