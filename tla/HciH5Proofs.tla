---------------------------- MODULE HciH5Proofs ----------------------------
(***************************************************************************)
(* Proofs about HciH5 for every window, FIFO size, sequence-number modulus *)
(* and bound: its type invariant, and that the transmit window of          *)
(* HCI_H5_SendData stays inside the HCI Tx FIFO (WindowInFifo).  Neither   *)
(* is inductive alone: HCI_H5_SendData reads txq[txSlid + 1], which is a   *)
(* packet only because the window lies inside the FIFO.                    *)
(***************************************************************************)
EXTENDS HciH5, TLAPS, SequenceTheorems

\* The inductive invariant.
IInv == TypeOK /\ WindowInFifo

-----------------------------------------------------------------------------
(* Facts about the operators the model is built from.                      *)

\* Sequence numbers wrap: Incr and Decr stay in range (the & 0x07 of
\* HCI_H5_Send, HCI_H5_SendData and HCI_H5_DecodeDataPdu).
LEMMA SeqNumber ==
    ASSUME NEW n \in SN
    PROVE  Incr(n) \in SN /\ Decr(n) \in SN /\ 0 \in SN
BY H5Assumption DEF SN, Incr, Decr

\* HCI_H5_PackHeader builds well-formed headers for link-control PDUs, pure
\* ACKs and data packets.
LEMMA FrameTypes ==
    ASSUME TypeOK, NEW s \in Side
    PROVE  /\ NoFrame \in Frame
           /\ \A type \in LinkMsg : LinkFrame(s, type) \in Frame
           /\ \A ack \in SN : AckFrame(ack) \in Frame
           /\ \A seq \in SN : \A m \in Msg : DataFrame(s, seq, m) \in Frame
<1>0. 0 \in SN /\ Win[s] \in 0..7 /\ txAck[s] \in SN
  BY H5Assumption DEF SN, TypeOK, RecvType
<1>1. NoFrame \in Frame
  BY <1>0 DEF NoFrame, Frame
<1>2. \A type \in LinkMsg : LinkFrame(s, type) \in Frame
  BY <1>0 DEF LinkFrame, Frame
<1>3. \A ack \in SN : AckFrame(ack) \in Frame
  BY <1>0 DEF AckFrame, Frame
<1>4. \A seq \in SN : \A m \in Msg : DataFrame(s, seq, m) \in Frame
  <2> TAKE seq \in SN
  <2> TAKE m \in Msg
  <2>1. IsReliablePacket(m) \in BOOLEAN
    BY DEF IsReliablePacket
  <2>2. m \in Nat
    BY DEF Msg
  <2>3. (IF IsReliablePacket(m) THEN seq ELSE 0) \in SN
    BY <1>0
  <2> QED
    BY <1>0, <2>1, <2>2, <2>3 DEF DataFrame, Frame
<1> QED
  BY <1>1, <1>2, <1>3, <1>4

\* Dropping the first n packets of a FIFO leaves a FIFO.
LEMMA SuffixType ==
    ASSUME NEW S, NEW q \in Seq(S), NEW n \in Nat
    PROVE  SubSeq(q, n + 1, Len(q)) \in Seq(S)
<1>1. \A i \in n + 1 .. Len(q) : q[i] \in S
  BY LenProperties
<1> QED
  BY <1>1, LenProperties, SubSeqProperties

\* What HCI_H5_Send leaves in the UART is a frame.
LEMMA TransmitType ==
    ASSUME TypeOK, NEW s \in Side, NEW f \in Frame, Transmit(s, f)
    PROVE  uartTx' \in [Side -> Frame]
BY DEF Transmit, TypeOK, UartType

\* Reading the next frame of the UART Rx FIFO.
LEMMA FirstFrameType ==
    ASSUME TypeOK, NEW s \in Side, uartRx[s] # << >>, TakeFrame(s)
    PROVE  Head(uartRx[s]) \in Frame /\ uartRx' \in [Side -> Seq(Frame)]
<1>1. uartRx[s] \in Seq(Frame) /\ uartRx[s] # << >>
  BY DEF TypeOK, UartType
<1>2. Head(uartRx[s]) \in Frame /\ Tail(uartRx[s]) \in Seq(Frame)
  BY <1>1, HeadTailProperties
<1> QED
  BY <1>2 DEF TypeOK, UartType, TakeFrame

LEMMA TakeFrameType ==
    ASSUME TypeOK, NEW s \in Side, NEW type, Arrived(s, type), TakeFrame(s)
    PROVE  Head(uartRx[s]) \in Frame /\ uartRx' \in [Side -> Seq(Frame)]
BY FirstFrameType DEF Arrived

-----------------------------------------------------------------------------
(* What the parts of the handlers preserve.                                *)

\* HCI_H5_Reset empties the window together with the FIFOs.
LEMMA ResetStep ==
    ASSUME IInv, NEW s \in Side, Reset(s), win' \in [Side -> 0..7],
           \A r \in Side \ {s} : win'[r] = win[r]
    PROVE  SendType' /\ RecvType' /\ WindowInFifo'
<1> USE DEF IInv, TypeOK
<1>1. Elems(rxq[s]) \subseteq Nat
  BY ElementOfSeq DEF RecvType, Elems
<1>2. 0 \in SN
  BY H5Assumption DEF SN
<1>3. << >> \in Seq(Msg) /\ << >> \in Seq(Nat) /\ Len(<< >>) = 0
  BY EmptySeq
<1>4. SendType'
  BY <1>2, <1>3 DEF Reset, SendType
<1>5. RecvType'
  BY <1>1, <1>2, <1>3 DEF Reset, RecvType
<1>6. WindowInFifo'
  <2> SUFFICES ASSUME NEW r \in Side
               PROVE  txSlid'[r] <= Len(txq'[r]) /\ txSlid'[r] <= win'[r]
    BY DEF WindowInFifo
  <2>1. CASE r = s
    <3>1. txSlid'[s] = 0 /\ txq'[s] = << >> /\ win'[s] \in 0..7
      BY DEF Reset, SendType
    <3> QED
      BY <1>3, <2>1, <3>1
  <2>2. CASE r # s
    <3>1. txSlid'[r] = txSlid[r] /\ txq'[r] = txq[r] /\ win'[r] = win[r]
      BY <2>2 DEF Reset, SendType
    <3> QED
      BY <3>1 DEF WindowInFifo
  <2> QED
    BY <2>1, <2>2
<1> QED
  BY <1>4, <1>5, <1>6

\* Releasing the window (rptr += txSlidWinSize) empties it.
LEMMA ReleaseStep ==
    ASSUME IInv, NEW s \in Side, Release(s), UNCHANGED txSeq, UNCHANGED win,
           rxAck' \in [Side -> SN]
    PROVE  SendType' /\ WindowInFifo'
<1> USE DEF IInv, TypeOK
<1>1. txq[s] \in Seq(Msg) /\ txSlid[s] \in 0..Len(txq[s])
  BY LenProperties DEF SendType, WindowInFifo
<1>2. SubSeq(txq[s], txSlid[s] + 1, Len(txq[s])) \in Seq(Msg)
  BY <1>1, SuffixType DEF SendType
<1>3. Elems(SubSeq(txq[s], 1, txSlid[s])) \subseteq Nat
  <2>1. \A i \in 1..txSlid[s] : txq[s][i] \in Msg
    BY <1>1, ElementOfSeq, LenProperties
  <2>2. SubSeq(txq[s], 1, txSlid[s]) \in Seq(Msg)
    BY <1>1, <2>1, LenProperties, SubSeqProperties
  <2> QED
    BY <2>2, ElementOfSeq DEF Elems, Msg
<1>4. SendType'
  BY <1>2, <1>3 DEF Release, SendType
<1>5. WindowInFifo'
  <2> SUFFICES ASSUME NEW r \in Side
               PROVE  txSlid'[r] <= Len(txq'[r]) /\ txSlid'[r] <= win'[r]
    BY DEF WindowInFifo
  <2>1. CASE r = s
    <3>1. txSlid'[s] = 0 /\ txq'[s] \in Seq(Msg) /\ win'[s] \in 0..7
      BY <1>4 DEF Release, SendType, LinkType
    <3> QED
      BY <2>1, <3>1, LenProperties
  <2>2. CASE r # s
    BY <2>2 DEF Release, SendType, WindowInFifo
  <2> QED
    BY <2>1, <2>2
<1> QED
  BY <1>4, <1>5

\* Both ways an acknowledgement is handled.
LEMMA AckStep ==
    ASSUME IInv, NEW s \in Side, NEW ack \in SN, UNCHANGED win,
           ReSendCheck(s, ack) \/ PiggybackAck(s, ack)
    PROVE  SendType' /\ WindowInFifo'
<1> USE DEF IInv, TypeOK
<1>0. rxAck' \in [Side -> SN] /\ UNCHANGED txSeq
  BY DEF ReSendCheck, PiggybackAck, SendType
<1>1. CASE Release(s)
  BY <1>0, <1>1, ReleaseStep
<1>2. CASE ~Release(s)
  <2>1. UNCHANGED <<txSlid, txq, released>>
    BY <1>2 DEF ReSendCheck, PiggybackAck
  <2>2. txT' \in [Side -> BOOLEAN] /\ rsT' \in [Side -> BOOLEAN]
    BY <1>2 DEF ReSendCheck, PiggybackAck, SendType
  <2>3. SendType'
    BY <1>0, <2>1, <2>2 DEF SendType
  <2>4. WindowInFifo'
    BY <2>1 DEF WindowInFifo
  <2> QED
    BY <2>3, <2>4
<1> QED
  BY <1>1, <1>2

\* HCI_H5_PackHciPdu stores a packet in the HCI Rx FIFO.
LEMMA PackStep ==
    ASSUME IInv, NEW s \in Side, NEW m \in Nat, PackHciPdu(s, m)
    PROVE  rxq' \in [Side -> Seq(Nat)] /\ UNCHANGED dropped
<1> DEFINE n == Len(rxq[s])
           kept == [i \in 1..n |-> IF i + RxNum = n + 1 THEN m ELSE rxq[s][i]]
<1>1. rxq \in [Side -> Seq(Nat)] /\ rxq[s] \in Seq(Nat) /\ n \in Nat
  BY LenProperties DEF IInv, TypeOK, RecvType
<1>2. \A i \in 1..n : rxq[s][i] \in Nat
  BY <1>1, ElementOfSeq
<1>3. kept \in [1..n -> Nat]
  BY <1>2
<1>4. kept \in Seq(Nat)
  BY <1>1, <1>3, SeqDef
<1>5. Append(kept, m) \in Seq(Nat)
  BY <1>4, AppendProperties
<1> QED
  BY <1>1, <1>5 DEF PackHciPdu

\* An expected packet is counted, stored, and perhaps acknowledged.
LEMMA AcceptStep ==
    ASSUME IInv, NEW s \in Side, NEW m \in Nat, AcceptReliable(s, m)
    PROVE  RecvType' /\ uartTx' \in [Side -> Frame]
<1> DEFINE cnt == (rxSlid[s] + 1) % 256
<1>1. PackHciPdu(s, m) /\ TypeOK
  BY DEF AcceptReliable, IInv
<1>2. rxq' \in [Side -> Seq(Nat)] /\ UNCHANGED dropped
  BY <1>1, PackStep
<1>3. Incr(txAck[s]) \in SN
  BY <1>1, SeqNumber DEF TypeOK, RecvType
<1>4. txAck' \in [Side -> SN]
  BY <1>1, <1>3 DEF AcceptReliable, TypeOK, RecvType
<1>5. rxT' \in [Side -> BOOLEAN]
  BY <1>1 DEF AcceptReliable, TypeOK, RecvType
<1>6. rxSlid' \in [Side -> 0..255]
  <2>1. rxSlid[s] \in 0..255
    BY <1>1 DEF TypeOK, RecvType
  <2>2. cnt \in 0..255
    BY <2>1
  <2>3. \/ rxSlid' = [rxSlid EXCEPT ![s] = 0]
        \/ rxSlid' = [rxSlid EXCEPT ![s] = cnt]
    BY DEF AcceptReliable
  <2>4. rxSlid \in [Side -> 0..255]
    BY <1>1 DEF TypeOK, RecvType
  <2> HIDE DEF cnt
  <2>5. CASE rxSlid' = [rxSlid EXCEPT ![s] = 0]
    BY <2>4, <2>5
  <2>6. CASE rxSlid' = [rxSlid EXCEPT ![s] = cnt]
    BY <2>2, <2>4, <2>6
  <2> QED
    BY <2>3, <2>5, <2>6
<1>7. uartTx' \in [Side -> Frame]
  <2>1. AckFrame(Incr(txAck[s])) \in Frame
    BY <1>1, <1>3, FrameTypes
  <2>2. Transmit(s, AckFrame(Incr(txAck[s]))) \/ UNCHANGED uartTx
    BY DEF AcceptReliable
  <2> QED
    BY <1>1, <2>1, <2>2, TransmitType DEF TypeOK, UartType
<1>8. dropped' \in [Side -> SUBSET Nat]
  BY <1>1, <1>2 DEF TypeOK, RecvType
<1> QED
  BY <1>2, <1>4, <1>5, <1>6, <1>7, <1>8 DEF RecvType

\* HCI_RxHandler moves one packet from the HCI Rx FIFO to blc_hci_handler.
LEMMA HandlerStep ==
    ASSUME IInv, NEW s \in Side, HciHandler(s)
    PROVE  rxq' \in [Side -> Seq(Nat)] /\ handled' \in [Side -> Seq(Nat)]
<1> USE DEF IInv, TypeOK, RecvType, CountType
<1>1. CASE rxq[s] = << >>
  BY <1>1 DEF HciHandler
<1>2. CASE rxq[s] # << >>
  <2>1. Head(rxq[s]) \in Nat /\ Tail(rxq[s]) \in Seq(Nat)
    BY <1>2, HeadTailProperties
  <2>2. Append(handled[s], Head(rxq[s])) \in Seq(Nat)
    BY <2>1, AppendProperties
  <2> QED
    BY <1>2, <2>1, <2>2 DEF HciHandler
<1> QED
  BY <1>1, <1>2

\* The delayed pure ACK.
LEMMA PollAckStep ==
    ASSUME IInv, NEW s \in Side, PollAck(s)
    PROVE  /\ rxT' \in [Side -> BOOLEAN] /\ rxSlid' \in [Side -> 0..255]
           /\ uartTx' \in [Side -> Frame]
<1> USE DEF IInv, TypeOK
<1>1. AckFrame(txAck[s]) \in Frame
  BY FrameTypes DEF RecvType
<1>2. CASE UNCHANGED <<rxT, rxSlid, uartTx>>
  BY <1>2 DEF RecvType, UartType
<1>3. CASE ~UNCHANGED <<rxT, rxSlid, uartTx>>
  <2>1. /\ rxT' = [rxT EXCEPT ![s] = FALSE]
        /\ rxSlid' = [rxSlid EXCEPT ![s] = 0]
        /\ Transmit(s, AckFrame(txAck[s]))
    BY <1>3 DEF PollAck
  <2>2. uartTx' \in [Side -> Frame]
    BY <1>1, <2>1, TransmitType
  <2>3. rxT' \in [Side -> BOOLEAN]
    BY <2>1 DEF RecvType
  <2>4. rxSlid' \in [Side -> 0..255]
    BY <2>1 DEF RecvType
  <2> QED
    BY <2>2, <2>3, <2>4
<1> QED
  BY <1>2, <1>3

\* HCI_H5_SendData, called with the window at slid, moves the window by at
\* most one packet, to one that is in the FIFO.
LEMMA SendDataStep ==
    ASSUME IInv, NEW s \in Side, NEW seq \in SN, NEW slid \in Nat,
           NEW tick \in BOOLEAN, slid <= Len(txq[s]), slid <= win[s],
           SendData(s, seq, slid, tick), UNCHANGED <<win, txq>>
    PROVE  /\ txSeq' \in [Side -> SN] /\ txSlid' \in [Side -> Nat]
           /\ txT' \in [Side -> BOOLEAN]
           /\ rxT' \in [Side -> BOOLEAN] /\ rxSlid' \in [Side -> 0..255]
           /\ uartTx' \in [Side -> Frame]
           /\ WindowInFifo'
<1> USE DEF IInv, TypeOK
<1>0. Incr(seq) \in SN /\ Decr(seq) \in SN
  BY SeqNumber
<1>1. txq[s] \in Seq(Msg) /\ Len(txq[s]) \in Nat /\ win[s] \in 0..7
  BY LenProperties DEF SendType, LinkType
<1>2. CASE SendDone(s, seq, slid)
  <2> DEFINE m == txq[s][slid + 1]
  <2>1. slid + 1 <= Len(txq[s]) /\ slid + 1 <= win[s]
    BY <1>1, <1>2 DEF SendDone, HasData
  <2>2. m \in Msg
    BY <1>1, <2>1, ElementOfSeq
  <2>3. DataFrame(s, seq, m) \in Frame
    BY <2>2, FrameTypes
  <2>4. uartTx' \in [Side -> Frame]
    BY <1>2, <2>3 DEF SendDone, UartType
  <2>5. txSeq' \in [Side -> SN]
    BY <1>0, <1>2 DEF SendDone, SendType
  <2>6. /\ txSlid' = [txSlid EXCEPT ![s] = slid + 1]
        /\ txT' \in [Side -> BOOLEAN]
        /\ rxT' \in [Side -> BOOLEAN] /\ rxSlid' \in [Side -> 0..255]
    BY <1>2 DEF SendDone, SendType, RecvType
  <2>7. txSlid' \in [Side -> Nat] /\ WindowInFifo'
    BY <2>1, <2>6 DEF WindowInFifo, SendType
  <2> QED
    BY <2>4, <2>5, <2>6, <2>7
<1>3. CASE ~SendDone(s, seq, slid)
  <2>1. PollAck(s)
    BY <1>3 DEF SendData
  <2>2. txSlid' = [txSlid EXCEPT ![s] = slid]
    BY <1>3 DEF SendData, SendRefused, SendNothing
  <2>3. txSlid' \in [Side -> Nat] /\ WindowInFifo'
    BY <2>2 DEF WindowInFifo, SendType
  <2>4. txSeq' \in [Side -> SN]
    BY <1>0, <1>3 DEF SendData, SendRefused, SendNothing, SendType
  <2>5. txT' \in [Side -> BOOLEAN]
    BY <1>3 DEF SendData, SendRefused, SendNothing, SendType
  <2> QED
    BY <2>1, <2>3, <2>4, <2>5, PollAckStep
<1> QED
  BY <1>2, <1>3

-----------------------------------------------------------------------------
(* One lemma per handler.                                                  *)

\* What depends on neither the UART nor the counters stays as it is.
LEMMA KeptStep ==
    ASSUME IInv, UNCHANGED <<linkVars, sendVars, recvVars>>
    PROVE  LinkType' /\ SendType' /\ RecvType' /\ WindowInFifo'
<1>1. LinkType'
  BY DEF IInv, TypeOK, LinkType, linkVars
<1>2. SendType'
  BY DEF IInv, TypeOK, SendType, sendVars
<1>3. RecvType'
  BY DEF IInv, TypeOK, RecvType, recvVars
<1>4. WindowInFifo'
  BY DEF IInv, WindowInFifo, linkVars, sendVars
<1> QED
  BY <1>1, <1>2, <1>3, <1>4

\* HCI_Tr_H5UartRxIRQHandler puts a frame into the UART Rx FIFO, whether it is
\* full or not.
LEMMA StoredType ==
    ASSUME TypeOK, NEW p \in Side, NEW f \in Frame, Stored(p, f)
    PROVE  uartRx' \in [Side -> Seq(Frame)] /\ overruns' \in Nat
<1>1. uartRx \in [Side -> Seq(Frame)] /\ uartRx[p] \in Seq(Frame) /\ overruns \in Nat
  BY DEF TypeOK, UartType, CountType
<1>2. CASE uartRx' = [uartRx EXCEPT ![p] = Append(uartRx[p], f)] /\ overruns' = overruns
  <2> DEFINE q == Append(uartRx[p], f)
  <2>1. q \in Seq(Frame)
    BY <1>1, AppendProperties
  <2> HIDE DEF q
  <2>2. uartRx' = [uartRx EXCEPT ![p] = q]
    BY <1>2 DEF q
  <2> QED
    BY <1>1, <1>2, <2>1, <2>2
<1>3. CASE /\ Len(uartRx[p]) >= UartNum /\ overruns' = overruns + 1
           /\ uartRx' = [uartRx EXCEPT ![p] = <<f>> \o Tail(uartRx[p])]
  <2> DEFINE q == <<f>> \o Tail(uartRx[p])
  <2>1. Len(<< >>) = 0 /\ UartNum \in Nat \ {0} /\ <<f>> \in Seq(Frame)
    BY EmptySeq, H5Assumption
  <2>2. uartRx[p] # << >>
    BY <1>3, <2>1
  <2>3. Tail(uartRx[p]) \in Seq(Frame)
    BY <1>1, <2>2, HeadTailProperties
  <2>4. q \in Seq(Frame)
    BY <2>1, <2>3, ConcatProperties
  <2> HIDE DEF q
  <2>5. uartRx' = [uartRx EXCEPT ![p] = q]
    BY <1>3 DEF q
  <2>6. uartRx' \in [Side -> Seq(Frame)]
    BY <1>1, <2>4, <2>5
  <2>7. overruns' \in Nat
    BY <1>1, <1>3
  <2> QED
    BY <2>6, <2>7
<1> QED
  BY <1>2, <1>3 DEF Stored

\* HCI_H5_PacketHandler preserves the invariant.
LEMMA RxHandlerStep ==
    ASSUME IInv, NEW s \in Side, RxHandler(s)
    PROVE  IInv'
<1> USE DEF IInv, TypeOK
<1>1. CASE RxSync(s)
  <2> USE <1>1 DEF RxSync
  <2>1. LinkFrame(s, "SYNC_RSP") \in Frame
    BY FrameTypes DEF LinkMsg
  <2>2. UartType'
    BY <2>1, TransmitType, TakeFrameType DEF UartType
  <2>3. LinkType' /\ CountType' /\ UNCHANGED win
    BY DEF LinkType, CountType, faultVars
  <2>4. CASE Reset(s)
    BY <2>2, <2>3, <2>4, ResetStep DEF LinkType
  <2>5. CASE UNCHANGED <<sendVars, recvVars>>
    BY <2>2, <2>3, <2>5
    DEF SendType, RecvType, WindowInFifo, sendVars, recvVars
  <2> QED
    BY <2>4, <2>5
<1>2. CASE RxSyncRsp(s)
  <2> USE <1>2 DEF RxSyncRsp
  <2>1. LinkFrame(s, "CONFIG") \in Frame
    BY FrameTypes DEF LinkMsg
  <2>2. uartTx' \in [Side -> Frame]
    BY <2>1, TransmitType DEF UartType
  <2>3. UartType'
    BY <2>2, TakeFrameType DEF UartType
  <2>4. LinkType' /\ CountType' /\ UNCHANGED win
    BY DEF LinkType, CountType, faultVars
  <2> QED
    BY <2>3, <2>4 DEF SendType, RecvType, WindowInFifo, sendVars, recvVars
<1>3. CASE RxConfig(s)
  <2> USE <1>3 DEF RxConfig
  <2>1. LinkFrame(s, IF link[s] = "IDLE" THEN "SYNC" ELSE "CONFIG_RSP")
            \in Frame
    BY FrameTypes DEF LinkMsg
  <2>2. UartType'
    BY <2>1, TransmitType, TakeFrameType DEF UartType
  <2> QED
    BY <2>2 DEF LinkType, SendType, RecvType, CountType, WindowInFifo,
                linkVars, sendVars, recvVars, faultVars
<1>4. CASE RxConfigRsp(s)
  <2> USE <1>4 DEF RxConfigRsp
  <2>0. Head(uartRx[s]).cfg \in 0..7
    BY TakeFrameType DEF Frame
  <2>1. uartTx' \in [Side -> Frame]
    <3>1. LinkFrame(s, "SYNC") \in Frame
      BY FrameTypes DEF LinkMsg
    <3> QED
      BY <3>1, TransmitType DEF UartType
  <2>2. UartType' /\ CountType'
    BY <2>1, TakeFrameType DEF UartType, CountType, faultVars
  <2>3. CASE link[s] = "INIT"
    <3>1. Win[s] \in 0..7
      BY H5Assumption
    <3>2. LinkType' /\ Reset(s)
      BY <2>0, <2>3, <3>1 DEF LinkType
    <3>3. \A r \in Side \ {s} : win'[r] = win[r]
      BY <2>3 DEF LinkType
    <3>4. win' \in [Side -> 0..7]
      BY <3>2 DEF LinkType
    <3>5. SendType' /\ RecvType' /\ WindowInFifo'
      BY <3>2, <3>3, <3>4, ResetStep
    <3> QED
      BY <2>2, <3>2, <3>5
  <2>4. CASE link[s] # "INIT"
    <3>1. UNCHANGED <<linkVars, sendVars, recvVars>>
      BY <2>4
    <3> QED
      BY <2>2, <3>1 DEF LinkType, SendType, RecvType, WindowInFifo,
                        linkVars, sendVars, recvVars
  <2> QED
    BY <2>3, <2>4
<1>5. CASE RxAck(s)
  <2> USE <1>5 DEF RxAck
  <2>0. Head(uartRx[s]).ack \in SN
    BY TakeFrameType DEF Frame
  <2>1. LinkType' /\ RecvType' /\ UartType' /\ CountType' /\ UNCHANGED win
    BY TakeFrameType DEF LinkType, RecvType, UartType, CountType, linkVars,
                         recvVars, faultVars
  <2>2. CASE ReSendCheck(s, Head(uartRx[s]).ack)
    BY <2>0, <2>1, <2>2, AckStep
  <2>3. CASE UNCHANGED sendVars
    BY <2>1, <2>3 DEF SendType, WindowInFifo, sendVars
  <2> QED
    BY <2>2, <2>3
<1>6. CASE RxReliable(s)
  <2> DEFINE f == Head(uartRx[s])
  <2>0. /\ Arrived(s, "DATA") /\ TakeFrame(s) /\ PiggybackAck(s, f.ack)
        /\ UNCHANGED <<linkVars, queued, handled, faultVars>>
        /\ AcceptReliable(s, f.msg) \/ UNCHANGED <<recvVars, uartTx>>
    BY <1>6 DEF RxReliable
  <2>1. f.ack \in SN /\ f.msg \in Nat /\ uartRx' \in [Side -> Seq(Frame)]
    BY <2>0, TakeFrameType DEF Frame
  <2>2. SendType' /\ WindowInFifo'
    BY <2>0, <2>1, AckStep DEF linkVars
  <2>3. RecvType' /\ uartTx' \in [Side -> Frame]
    <3>1. CASE AcceptReliable(s, f.msg)
      BY <2>1, <3>1, AcceptStep
    <3>2. CASE UNCHANGED <<recvVars, uartTx>>
      BY <3>2 DEF RecvType, UartType, recvVars
    <3> QED
      BY <2>0, <3>1, <3>2
  <2> QED
    BY <2>0, <2>1, <2>2, <2>3
    DEF LinkType, UartType, CountType, linkVars, faultVars
<1>7. CASE RxUnreliable(s)
  <2> DEFINE f == Head(uartRx[s])
  <2>0. /\ Arrived(s, "DATA") /\ TakeFrame(s) /\ PackHciPdu(s, f.msg)
        /\ txAck' = [txAck EXCEPT ![s] = Incr(@)]
        /\ UNCHANGED <<linkVars, sendVars, rxSlid, rxT, uartTx, queued,
                       handled, faultVars>>
    BY <1>7 DEF RxUnreliable
  <2>1. f.msg \in Nat /\ uartRx' \in [Side -> Seq(Frame)]
    BY <2>0, TakeFrameType DEF Frame
  <2>2. rxq' \in [Side -> Seq(Nat)] /\ UNCHANGED dropped
    BY <2>0, <2>1, PackStep
  <2>3. txAck' \in [Side -> SN]
    BY <2>0, SeqNumber DEF RecvType
  <2> QED
    BY <2>0, <2>1, <2>2, <2>3
    DEF LinkType, SendType, RecvType, UartType, CountType, WindowInFifo,
        linkVars, sendVars, faultVars
<1>8. CASE RxDataEarly(s) \/ RxDamaged(s) \/ RxSpoilt(s)
  <2>1. uartRx[s] # << >>
    <3>1. Len(<< >>) = 0 /\ UartNum \in Nat \ {0}
      BY EmptySeq, H5Assumption
    <3> QED
      BY <1>8, <3>1 DEF RxDataEarly, RxDamaged, RxSpoilt, Arrived
  <2>2. /\ TakeFrame(s) /\ UNCHANGED <<linkVars, sendVars, recvVars, uartTx, queued, handled,
                                       losses, busy, reboots>>
        /\ overruns' = overruns \/ overruns' = overruns + 1
    BY <1>8 DEF RxDataEarly, RxDamaged, RxSpoilt, faultVars
  <2>3. CountType'
    BY <2>2 DEF CountType
  <2> QED
    BY <2>1, <2>2, <2>3, FirstFrameType, KeptStep DEF UartType
<1> QED
  BY <1>1, <1>2, <1>3, <1>4, <1>5, <1>6, <1>7, <1>8 DEF RxHandler

\* HCI_H5_Poll, followed by HCI_Handler, preserves the invariant.
LEMMA PollStep ==
    ASSUME IInv, NEW s \in Side, PollLink(s) \/ PollResend(s) \/ PollSend(s)
    PROVE  IInv'
<1> USE DEF IInv, TypeOK
<1>0. HciHandler(s)
  BY DEF PollLink, PollResend, PollSend
<1>1. rxq' \in [Side -> Seq(Nat)] /\ handled' \in [Side -> Seq(Nat)]
  BY <1>0, HandlerStep
<1>2. CASE PollLink(s)
  <2>1. LinkFrame(s, IF link[s] = "IDLE" THEN "SYNC" ELSE "CONFIG") \in Frame
    BY FrameTypes DEF LinkMsg
  <2>2. uartTx' \in [Side -> Frame]
    BY <1>2, <2>1, TransmitType DEF PollLink
  <2>3. UNCHANGED <<linkVars, sendVars, txAck, rxSlid, rxT, dropped, uartRx,
                    queued, faultVars>>
    BY <1>2 DEF PollLink
  <2> QED
    BY <1>1, <2>2, <2>3
    DEF LinkType, SendType, RecvType, UartType, CountType, WindowInFifo,
        linkVars, sendVars, faultVars
<1>3. CASE PollResend(s)
  <2>1. /\ SendData(s, rxAck[s], 0, txT[s] /\ rsT[s])
        /\ UNCHANGED <<linkVars, rxAck, txq, released, txAck, dropped, uartRx,
                       queued, losses, overruns, reboots>>
    BY <1>3 DEF PollResend
  <2>2. rsT' \in [Side -> BOOLEAN]
    BY <1>3 DEF PollResend, SendType
  <2>3. busy' \in Nat
    BY <1>3 DEF PollResend, CountType
  <2>4. /\ rxAck[s] \in SN /\ 0 <= Len(txq[s]) /\ 0 <= win[s]
        /\ UNCHANGED <<win, txq>>
    <3>1. txq[s] \in Seq(Msg) /\ win[s] \in 0..7 /\ rxAck[s] \in SN
      BY DEF SendType, LinkType
    <3>2. Len(txq[s]) \in Nat
      BY <3>1, LenProperties
    <3> QED
      BY <2>1, <3>1, <3>2 DEF linkVars
  <2>5. (txT[s] /\ rsT[s]) \in BOOLEAN
    OBVIOUS
  <2>6. /\ txSeq' \in [Side -> SN] /\ txSlid' \in [Side -> Nat]
        /\ txT' \in [Side -> BOOLEAN]
        /\ rxT' \in [Side -> BOOLEAN] /\ rxSlid' \in [Side -> 0..255]
        /\ uartTx' \in [Side -> Frame] /\ WindowInFifo'
    BY <2>1, <2>4, <2>5, SendDataStep
  <2> QED
    BY <1>1, <2>1, <2>2, <2>3, <2>6
    DEF LinkType, SendType, RecvType, UartType, CountType, linkVars
<1>4. CASE PollSend(s)
  <2>1. UNCHANGED <<linkVars, rxAck, rsT, txq, released, txAck, dropped,
                    uartRx, queued, faultVars>>
    BY <1>4 DEF PollSend
  <2>2. CASE SendData(s, txSeq[s], txSlid[s], txT[s])
    <3>1. /\ txSeq[s] \in SN /\ txSlid[s] \in Nat
          /\ txSlid[s] <= Len(txq[s]) /\ txSlid[s] <= win[s]
          /\ UNCHANGED <<win, txq>>
      BY <2>1 DEF SendType, WindowInFifo, linkVars
    <3>2. txT[s] \in BOOLEAN
      BY DEF SendType
    <3>3. /\ txSeq' \in [Side -> SN] /\ txSlid' \in [Side -> Nat]
          /\ txT' \in [Side -> BOOLEAN]
          /\ rxT' \in [Side -> BOOLEAN] /\ rxSlid' \in [Side -> 0..255]
          /\ uartTx' \in [Side -> Frame] /\ WindowInFifo'
      BY <2>2, <3>1, <3>2, SendDataStep
    <3> QED
      BY <1>1, <2>1, <3>3
      DEF LinkType, SendType, RecvType, UartType, CountType, linkVars,
          faultVars
  <2>3. CASE PollAck(s) /\ UNCHANGED <<txSeq, txSlid, txT>>
    <3>1. /\ rxT' \in [Side -> BOOLEAN] /\ rxSlid' \in [Side -> 0..255]
          /\ uartTx' \in [Side -> Frame]
      BY <2>3, PollAckStep
    <3> QED
      BY <1>1, <2>1, <2>3, <3>1
      DEF LinkType, SendType, RecvType, UartType, CountType, WindowInFifo,
          linkVars, faultVars
  <2> QED
    BY <1>4, <2>2, <2>3 DEF PollSend
<1> QED
  BY <1>2, <1>3, <1>4

\* The controller, the wire and restarts preserve the invariant.
LEMMA OtherStep ==
    ASSUME IInv, NEW s \in Side,
           QueueTx(s) \/ UartRxIRQ(s) \/ UartDamage(s) \/ Reboot(s)
    PROVE  IInv'
<1> USE DEF IInv, TypeOK
<1>0. NoFrame \in Frame
  BY FrameTypes
<1>1. CASE QueueTx(s)
  <2> DEFINE q == Append(txq[s], queued[s] + 1)
  <2>1. txq[s] \in Seq(Msg) /\ queued[s] + 1 \in Msg
    BY DEF SendType, CountType, Msg
  <2>2. q \in Seq(Msg) /\ Len(q) = Len(txq[s]) + 1 /\ Len(txq[s]) \in Nat
    BY <2>1, AppendProperties, LenProperties
  <2>3. txq' = [txq EXCEPT ![s] = q]
    BY <1>1 DEF QueueTx
  <2>4. UNCHANGED <<linkVars, txSeq, rxAck, txSlid, txT, rsT, released,
                    recvVars, uartTx, uartRx, handled, faultVars>>
    BY <1>1 DEF QueueTx
  <2> HIDE DEF q
  <2>5. SendType'
    BY <2>2, <2>3, <2>4 DEF SendType
  <2>6. WindowInFifo'
    BY <2>2, <2>3, <2>4 DEF SendType, WindowInFifo, linkVars
  <2>7. CountType'
    BY <1>1 DEF QueueTx, CountType, faultVars
  <2> QED
    BY <2>4, <2>5, <2>6, <2>7
    DEF LinkType, RecvType, UartType, linkVars, recvVars
<1>2. CASE UartRxIRQ(s) \/ UartDamage(s)
  <2>1. Peer[s] \in Side /\ uartTx[s] \in Frame
    BY H5Assumption DEF UartType
  <2>2. Stored(Peer[s], uartTx[s]) \/ Stored(Peer[s], NoFrame)
    BY <1>2 DEF UartRxIRQ, UartDamage
  <2>3. uartRx' \in [Side -> Seq(Frame)] /\ overruns' \in Nat
    BY <1>0, <2>1, <2>2, StoredType
  <2>4. /\ uartTx' = [uartTx EXCEPT ![s] = NoFrame]
        /\ UNCHANGED <<linkVars, sendVars, recvVars, queued, handled, busy, reboots>>
        /\ losses' = losses \/ losses' = losses + 1
    BY <1>2 DEF UartRxIRQ, UartDamage
  <2>5. uartTx' \in [Side -> Frame]
    BY <1>0, <2>4 DEF UartType
  <2>6. CountType'
    BY <2>3, <2>4 DEF CountType
  <2> QED
    BY <2>3, <2>4, <2>5, <2>6, KeptStep DEF UartType
<1>3. CASE Reboot(s)
  <2>1. LinkType' /\ \A r \in Side \ {s} : win'[r] = win[r]
    BY <1>3 DEF Reboot, LinkType
  <2>2. SendType' /\ RecvType' /\ WindowInFifo'
    BY <1>3, <2>1, ResetStep DEF Reboot, LinkType
  <2>3. << >> \in Seq(Frame)
    BY EmptySeq
  <2>4. UartType'
    BY <1>0, <1>3, <2>3 DEF Reboot, UartType
  <2>5. CountType'
    BY <1>3 DEF Reboot, CountType
  <2> QED
    BY <2>1, <2>2, <2>4, <2>5
<1> QED
  BY <1>1, <1>2, <1>3

-----------------------------------------------------------------------------
(* The theorems.                                                           *)

\* HCI_TransportInit establishes the invariant.
LEMMA InitIInv == Init => IInv
<1> SUFFICES ASSUME Init PROVE IInv
  OBVIOUS
<1>0. 0 \in SN
  BY H5Assumption DEF SN
<1>1. NoFrame \in Frame
  BY <1>0 DEF NoFrame, Frame
<1>2. /\ << >> \in Seq(Msg) /\ << >> \in Seq(Nat) /\ << >> \in Seq(Frame)
      /\ Len(<< >>) = 0
  BY EmptySeq
<1>3. LinkType
  BY DEF Init, LinkType
<1>4. SendType
  BY <1>0, <1>2 DEF Init, SendType
<1>5. RecvType
  BY <1>0, <1>2 DEF Init, RecvType
<1>6. UartType /\ CountType
  BY <1>1, <1>2 DEF Init, UartType, CountType
<1>7. WindowInFifo
  BY <1>2 DEF Init, WindowInFifo
<1> QED
  BY <1>3, <1>4, <1>5, <1>6, <1>7 DEF IInv, TypeOK

\* Every step of the two sides and of the wire preserves the invariant.
LEMMA NextIInv == IInv /\ [Next]_vars => IInv'
<1> SUFFICES ASSUME IInv, [Next]_vars PROVE IInv'
  OBVIOUS
<1>1. CASE Next
  <2> PICK s \in Side :
          \/ RxHandler(s)
          \/ PollLink(s) \/ PollResend(s) \/ PollSend(s)
          \/ QueueTx(s)
          \/ UartRxIRQ(s) \/ UartDamage(s)
          \/ Reboot(s)
    BY <1>1 DEF Next
  <2> QED
    BY RxHandlerStep, PollStep, OtherStep
<1>2. CASE UNCHANGED vars
  BY <1>2 DEF IInv, TypeOK, LinkType, SendType, RecvType, UartType, CountType,
              WindowInFifo, vars, linkVars, sendVars, recvVars, faultVars
<1> QED
  BY <1>1, <1>2

\* The invariant holds in every state of every behaviour.
LEMMA IInvAlways == Spec => []IInv
BY InitIInv, NextIInv, PTL DEF Spec

\* The fields of hciH5Cb and the frames on the wire keep their ranges,
\* whatever the peer sends and whenever a side restarts.
THEOREM H5TypeCorrect == Spec => []TypeOK
<1>1. IInv => TypeOK
  BY DEF IInv
<1> QED
  BY <1>1, IInvAlways, PTL

\* HCI_H5_SendData never sends, and an acknowledgement never releases, what
\* is not in the HCI Tx FIFO: the transmit window stays inside the FIFO and
\* inside the negotiated window, for every window size, FIFO size and
\* sequence-number modulus.
THEOREM H5WindowInFifo == Spec => []WindowInFifo
<1>1. IInv => WindowInFifo
  BY DEF IInv
<1> QED
  BY <1>1, IInvAlways, PTL

=============================================================================
