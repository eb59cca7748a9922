------------------------------- MODULE HciH5 -------------------------------
(***************************************************************************)
(* The three-wire UART transport ("H5") of the HCI: the link-control       *)
(* handshake, sequence numbers, acknowledgements and retransmission of     *)
(* vendor/common/hci_transport/hci_h5.c, driven by the main loop of        *)
(* hci_tr.c over the UART of hci_tr_h5.c and hci_slip.c.                   *)
(*                                                                         *)
(* Two sides run this code, joined by one UART wire in each direction.     *)
(* Every variable that models a field of hciH5Cb, a FIFO or the UART is a  *)
(* function on the sides.  One UART chunk holds one SLIP frame here.  A    *)
(* timer is a Boolean (armed or not): whether an armed timer has run out   *)
(* is chosen by the action.                                                *)
(***************************************************************************)
EXTENDS Integers, Sequences, FiniteSets

CONSTANTS
    Side,        \* the two ends of the UART
    Peer,        \* Peer[s] is the other end
    SeqMod,      \* sequence numbers are 0 .. SeqMod-1 (8 in the code)
    Win,         \* Win[s] is hciH5Config.slidWinSize of side s
    UartNum,     \* HCI_H5_TR_RX_BUF_NUM, chunks the UART Rx FIFO holds
    RxNum,       \* slots of the HCI Rx FIFO (bltHci_rxfifo.num)
    TxNum,       \* slots of the HCI Tx FIFO (bltHci_txfifo.num)
    Unreliable,  \* packets of a type that is not reliable (SCO)
    MaxMsg,      \* bound: MaxMsg[s] packets are queued by side s
    Damageable,  \* types of the frames that the wire may damage
    MaxLoss,     \* bound: frames damaged on the wire
    MaxReboot,   \* bound: restarts of a side
    MaxBusy,     \* bound: resend timers that run out while the UART sends
    MaxOverrun,  \* bound: frames that find the UART Rx FIFO full
    SlowTimers   \* are the timers slower than the UART (1 Mbaud)?

ASSUME H5Assumption ==
    /\ Peer \in [Side -> Side]
    /\ \A s \in Side : Peer[s] # s /\ Peer[Peer[s]] = s
    /\ SeqMod \in Nat \ {0, 1}
    /\ Win \in [Side -> 0..7]
    /\ UartNum \in Nat \ {0}
    /\ RxNum \in Nat \ {0}
    /\ TxNum \in Nat \ {0}
    /\ MaxMsg \in [Side -> Nat]
    /\ Unreliable \subseteq Nat
    /\ Damageable \subseteq {"SYNC", "SYNC_RSP", "CONFIG", "CONFIG_RSP",
                             "ACK", "DATA"}
    /\ MaxLoss \in Nat
    /\ MaxReboot \in Nat
    /\ MaxBusy \in Nat
    /\ MaxOverrun \in Nat
    /\ SlowTimers \in BOOLEAN

VARIABLES
    link,     \* hciH5Cb.linkState
    win,      \* hciH5Cb.config.slidWinSize
    txSeq,    \* hciH5Cb.txSeq, SN of the next packet sent
    rxAck,    \* hciH5Cb.rxAck, the last SN the peer asked for
    txSlid,   \* hciH5Cb.txSlidWinSize, packets sent and not released
    txT,      \* hciH5Cb.txTick is nonzero
    rsT,      \* hciH5Cb.resendTick is nonzero
    txq,      \* bltHci_txfifo, from rptr to wptr
    txAck,    \* hciH5Cb.txAck, SN of the next packet expected
    rxSlid,   \* hciH5Cb.rxSlidWinSize, packets taken in since the last ACK
    rxT,      \* hciH5Cb.rxTick is nonzero
    rxq,      \* bltHci_rxfifo, from rptr to wptr
    uartTx,   \* the frame the UART is sending, or NoFrame
    uartRx,   \* h5TrRxFifo: frames the UART Rx interrupt has stored; a damaged
              \* one is NoFrame
    queued,   \* history: packets queued so far
    released, \* history: packets an acknowledgement released
    handled,  \* history: packets given to blc_hci_handler
    dropped,  \* history: packets a reset took out of rxq
    losses,   \* frames damaged so far
    busy,     \* resend timers that ran out during a transmission so far
    overruns, \* frames that found the UART Rx FIFO full so far
    reboots   \* restarts so far

linkVars == <<link, win>>
sendVars == <<txSeq, rxAck, txSlid, txT, rsT, txq, released>>
recvVars == <<txAck, rxSlid, rxT, rxq, dropped>>
faultVars == <<losses, busy, overruns, reboots>>
vars == <<linkVars, sendVars, recvVars, uartTx, uartRx, queued, handled,
          faultVars>>

SN == 0 .. SeqMod - 1
Msg == Nat \ {0}
LinkMsg == {"SYNC", "SYNC_RSP", "CONFIG", "CONFIG_RSP"}

\* A frame on the wire: the fields of HciH5Head_t that the receiver reads,
\* the packet a DATA frame carries, the window a CONFIG(_RSP) carries.
Frame == [type : LinkMsg \cup {"ACK", "DATA", "NONE"}, seq : SN, ack : SN,
          rel : BOOLEAN, msg : Nat, cfg : 0..7]

NoFrame == [type |-> "NONE", seq |-> 0, ack |-> 0, rel |-> FALSE,
            msg |-> 0, cfg |-> 0]

\* (A link-control frame carries txAck too; its receiver does not read it.)
LinkFrame(s, type) ==
    [type |-> type, seq |-> 0, ack |-> 0, rel |-> FALSE, msg |-> 0,
     cfg |-> IF type \in {"CONFIG", "CONFIG_RSP"} THEN Win[s] ELSE 0]

AckFrame(ack) ==
    [type |-> "ACK", seq |-> 0, ack |-> ack, rel |-> FALSE, msg |-> 0,
     cfg |-> 0]

IsReliablePacket(m) == m \notin Unreliable

DataFrame(s, seq, m) ==
    [type |-> "DATA", seq |-> IF IsReliablePacket(m) THEN seq ELSE 0,
     ack |-> txAck[s], rel |-> IsReliablePacket(m), msg |-> m, cfg |-> 0]

Elems(q) == {q[i] : i \in 1..Len(q)}
IncrNoWrap(n) == n + 1                    \* mutant of Incr
Incr(n) == (n + 1) % SeqMod
Decr(n) == (n + SeqMod - 1) % SeqMod

Init ==
    /\ link = [s \in Side |-> "IDLE"]
    /\ win = [s \in Side |-> 0]
    /\ txSeq = [s \in Side |-> 0]
    /\ rxAck = [s \in Side |-> 0]
    /\ txSlid = [s \in Side |-> 0]
    /\ txT = [s \in Side |-> FALSE]
    /\ rsT = [s \in Side |-> FALSE]
    /\ txq = [s \in Side |-> << >>]
    /\ txAck = [s \in Side |-> 0]
    /\ rxSlid = [s \in Side |-> 0]
    /\ rxT = [s \in Side |-> FALSE]
    /\ rxq = [s \in Side |-> << >>]
    /\ uartTx = [s \in Side |-> NoFrame]
    /\ uartRx = [s \in Side |-> << >>]
    /\ queued = [s \in Side |-> 0]
    /\ released = [s \in Side |-> {}]
    /\ handled = [s \in Side |-> << >>]
    /\ dropped = [s \in Side |-> {}]
    /\ losses = 0
    /\ busy = 0
    /\ overruns = 0
    /\ reboots = 0

-----------------------------------------------------------------------------
(* Sending.                                                                *)

\* ext_hci_getTxCompleteDone()
UartIdle(s) == uartTx[s].type = "NONE"

\* HCI_H5_Send and HCI_Slip_Send, the result ignored: nothing is sent, and
\* nobody is told, while the UART is transmitting.
Transmit(s, f) ==
    uartTx' = IF UartIdle(s) THEN [uartTx EXCEPT ![s] = f] ELSE uartTx

\* HCI_H5_SendData has a packet to send when the window stands at slid.
HasData(s, slid) == slid < win[s] /\ Len(txq[s]) # slid

\* HCI_H5_SendData, the packet goes out.
SendDone(s, seq, slid) ==
    LET m == txq[s][slid + 1] IN
    /\ HasData(s, slid) /\ UartIdle(s)
    /\ uartTx' = [uartTx EXCEPT ![s] = DataFrame(s, seq, m)]
    /\ txSeq' = [txSeq EXCEPT ![s] = IF IsReliablePacket(m) THEN Incr(seq)
                                                           ELSE seq]
    /\ txSlid' = [txSlid EXCEPT ![s] = slid + 1]
    /\ txT' = [txT EXCEPT ![s] = TRUE]
    /\ rxSlid' = [rxSlid EXCEPT ![s] = 0]
    /\ rxT' = [rxT EXCEPT ![s] = FALSE]

\* HCI_H5_SendData, the UART refuses: txSeq, which HCI_H5_Send advanced for a
\* reliable packet, goes back by one for a packet of any type.
SendRefused(s, seq, slid) ==
    LET m == txq[s][slid + 1] IN
    /\ HasData(s, slid) /\ ~UartIdle(s)
    /\ txSeq' = [txSeq EXCEPT ![s] = IF IsReliablePacket(m) THEN seq
                                                           ELSE Decr(seq)]
    /\ txSlid' = [txSlid EXCEPT ![s] = slid]
    /\ txT' = [txT EXCEPT ![s] = FALSE]

\* HCI_H5_SendData, nothing to send; tick is txTick when it is called.
SendNothing(s, seq, slid, tick) ==
    /\ ~HasData(s, slid)
    /\ txSeq' = [txSeq EXCEPT ![s] = seq]
    /\ txSlid' = [txSlid EXCEPT ![s] = slid]
    /\ txT' = [txT EXCEPT ![s] = tick]

-----------------------------------------------------------------------------
(* Receiving: HCI_Tr_H5RxHandler takes the next frame out of the UART Rx   *)
(* FIFO and HCI_H5_PacketHandler branches on its type.                     *)

Arrived(s, type) == uartRx[s] # << >> /\ Head(uartRx[s]).type = type

TakeFrame(s) == uartRx' = [uartRx EXCEPT ![s] = Tail(@)]

\* Mutant of Reset: the HCI Tx FIFO is kept.
ResetKeepTxFifo(s) ==
    /\ txSeq' = [txSeq EXCEPT ![s] = 0]
    /\ rxAck' = [rxAck EXCEPT ![s] = 0]
    /\ txSlid' = [txSlid EXCEPT ![s] = 0]
    /\ txT' = [txT EXCEPT ![s] = FALSE]
    /\ rsT' = [rsT EXCEPT ![s] = FALSE]
    /\ txAck' = [txAck EXCEPT ![s] = 0]
    /\ rxSlid' = [rxSlid EXCEPT ![s] = 0]
    /\ rxT' = [rxT EXCEPT ![s] = FALSE]
    /\ rxq' = [rxq EXCEPT ![s] = << >>]
    /\ dropped' = [dropped EXCEPT ![s] = @ \cup Elems(rxq[s])]
    /\ UNCHANGED <<released, txq>>

\* HCI_H5_Reset: FIFOs and counters are cleared, link state and
\* configuration are not.
Reset(s) ==
    /\ txSeq' = [txSeq EXCEPT ![s] = 0]
    /\ rxAck' = [rxAck EXCEPT ![s] = 0]
    /\ txSlid' = [txSlid EXCEPT ![s] = 0]
    /\ txT' = [txT EXCEPT ![s] = FALSE]
    /\ rsT' = [rsT EXCEPT ![s] = FALSE]
    /\ txq' = [txq EXCEPT ![s] = << >>]
    /\ txAck' = [txAck EXCEPT ![s] = 0]
    /\ rxSlid' = [rxSlid EXCEPT ![s] = 0]
    /\ rxT' = [rxT EXCEPT ![s] = FALSE]
    /\ rxq' = [rxq EXCEPT ![s] = << >>]
    /\ dropped' = [dropped EXCEPT ![s] = @ \cup Elems(rxq[s])]
    /\ UNCHANGED released

\* Mutant of RxSync: an ACTIVE link ignores SYNC.
RxSyncNoAnswer(s) ==
    /\ Arrived(s, "SYNC")
    /\ TakeFrame(s)
    /\ \/ /\ link[s] = "ACTIVE"
          /\ UNCHANGED <<link, sendVars, recvVars, uartTx>>
       \/ /\ link[s] # "ACTIVE"
          /\ Transmit(s, LinkFrame(s, "SYNC_RSP"))
          /\ UNCHANGED <<link, sendVars, recvVars>>
    /\ UNCHANGED <<win, queued, handled, faultVars>>

\* HCI_H5_DecodeLinkPdu, SYNC: answered in every state; it resets a link
\* that was ACTIVE.
RxSync(s) ==
    /\ Arrived(s, "SYNC")
    /\ TakeFrame(s)
    /\ Transmit(s, LinkFrame(s, "SYNC_RSP"))
    /\ \/ /\ link[s] = "ACTIVE"
          /\ link' = [link EXCEPT ![s] = "IDLE"]
          /\ Reset(s)
       \/ /\ link[s] # "ACTIVE"
          /\ UNCHANGED <<link, sendVars, recvVars>>
    /\ UNCHANGED <<win, queued, handled, faultVars>>

\* HCI_H5_DecodeLinkPdu, SYNC_RSP.
RxSyncRsp(s) ==
    /\ Arrived(s, "SYNC_RSP")
    /\ TakeFrame(s)
    /\ \/ /\ link[s] = "IDLE"
          /\ link' = [link EXCEPT ![s] = "INIT"]
          /\ Transmit(s, LinkFrame(s, "CONFIG"))
       \/ /\ link[s] # "IDLE"
          /\ UNCHANGED <<link, uartTx>>
    /\ UNCHANGED <<win, sendVars, recvVars, queued, handled, faultVars>>

\* HCI_H5_DecodeLinkPdu, CONFIG: invalid in state IDLE.
RxConfig(s) ==
    /\ Arrived(s, "CONFIG")
    /\ TakeFrame(s)
    /\ Transmit(s, LinkFrame(s, IF link[s] = "IDLE" THEN "SYNC"
                                                   ELSE "CONFIG_RSP"))
    /\ UNCHANGED <<linkVars, sendVars, recvVars, queued, handled, faultVars>>

\* HCI_H5_DecodeLinkPdu, CONFIG_RSP: invalid in state IDLE, it makes the link
\* ACTIVE in state INIT, it is ignored in state ACTIVE.
RxConfigRsp(s) ==
    LET cfg == Head(uartRx[s]).cfg IN
    /\ Arrived(s, "CONFIG_RSP")
    /\ TakeFrame(s)
    /\ \/ /\ link[s] = "IDLE"
          /\ Transmit(s, LinkFrame(s, "SYNC"))
          /\ UNCHANGED <<linkVars, sendVars, recvVars>>
       \/ /\ link[s] = "INIT"
          /\ link' = [link EXCEPT ![s] = "ACTIVE"]
          /\ win' = [win EXCEPT ![s] = IF Win[s] <= cfg THEN Win[s] ELSE cfg]
          /\ Reset(s)
          /\ UNCHANGED uartTx
       \/ /\ link[s] = "ACTIVE"
          /\ UNCHANGED <<linkVars, sendVars, recvVars, uartTx>>
    /\ UNCHANGED <<queued, handled, faultVars>>

\* Mutant of Release: txSlidWinSize is not cleared.
ReleaseKeepWindow(s) ==
    /\ released' = [released EXCEPT ![s] =
                        @ \cup Elems(SubSeq(txq[s], 1, txSlid[s]))]
    /\ txq' = [txq EXCEPT ![s] = SubSeq(@, txSlid[s] + 1, Len(@))]
    /\ txT' = [txT EXCEPT ![s] = FALSE]
    /\ rsT' = [rsT EXCEPT ![s] = FALSE]
    /\ UNCHANGED txSlid

\* rptr += txSlidWinSize: the packets in the window are done with.
Release(s) ==
    /\ released' = [released EXCEPT ![s] =
                        @ \cup Elems(SubSeq(txq[s], 1, txSlid[s]))]
    /\ txq' = [txq EXCEPT ![s] = SubSeq(@, txSlid[s] + 1, Len(@))]
    /\ txSlid' = [txSlid EXCEPT ![s] = 0]
    /\ txT' = [txT EXCEPT ![s] = FALSE]
    /\ rsT' = [rsT EXCEPT ![s] = FALSE]

\* A pure ACK (HCI_H5_PacketHandler) and HCI_H5_ReSendCheck.
ReSendCheck(s, ack) ==
    /\ rxAck' = [rxAck EXCEPT ![s] = ack]
    /\ \/ /\ ack = txSeq[s]
          /\ Release(s)
       \/ /\ ack # txSeq[s]
          /\ txT' = [txT EXCEPT ![s] = FALSE]
          /\ rsT' = [rsT EXCEPT ![s] = TRUE]
          /\ UNCHANGED <<txSlid, txq, released>>
    /\ UNCHANGED txSeq

RxAck(s) ==
    /\ Arrived(s, "ACK")
    /\ TakeFrame(s)
    /\ \/ /\ link[s] = "ACTIVE"
          /\ ReSendCheck(s, Head(uartRx[s]).ack)
       \/ /\ link[s] # "ACTIVE"
          /\ UNCHANGED sendVars
    /\ UNCHANGED <<linkVars, recvVars, uartTx, queued, handled, faultVars>>

\* Mutant of PiggybackAck: any acknowledgement releases the window.
PiggybackAckAny(s, ack) ==
    /\ rxAck' = [rxAck EXCEPT ![s] = ack]
    /\ Release(s)
    /\ UNCHANGED txSeq

\* The acknowledgement a reliable packet carries (HCI_H5_DecodeDataPdu): it
\* moves rxAck only when it acknowledges everything.
PiggybackAck(s, ack) ==
    /\ \/ /\ ack = txSeq[s]
          /\ rxAck' = [rxAck EXCEPT ![s] = ack]
          /\ Release(s)
       \/ /\ ack # txSeq[s]
          /\ rsT' = [rsT EXCEPT ![s] = TRUE]
          /\ UNCHANGED <<rxAck, txSlid, txT, txq, released>>
    /\ UNCHANGED txSeq

\* HCI_H5_PackHciPdu: wptr++ with no test for a full FIFO, so a packet too
\* many overwrites the slot of the oldest one.
PackHciPdu(s, m) ==
    LET n == Len(rxq[s])
        kept == [i \in 1..n |-> IF i + RxNum = n + 1 THEN m ELSE rxq[s][i]]
    IN  /\ rxq' = [rxq EXCEPT ![s] = Append(kept, m)]
        /\ UNCHANGED dropped

\* HCI_H5_DecodeDataPdu, the reliable packet that was expected.  A window of
\* more than one is acknowledged here when it is full.
AcceptReliable(s, m) ==
    LET cnt == (rxSlid[s] + 1) % 256
        full == win[s] # 1 /\ cnt >= win[s]
    IN  /\ txAck' = [txAck EXCEPT ![s] = Incr(@)]
        /\ rxT' = [rxT EXCEPT ![s] = TRUE]
        /\ rxSlid' = [rxSlid EXCEPT ![s] = IF full THEN 0 ELSE cnt]
        /\ \/ full /\ Transmit(s, AckFrame(Incr(txAck[s])))
           \/ ~full /\ UNCHANGED uartTx
        /\ PackHciPdu(s, m)

\* Mutant of RxReliable: the sequence number is not compared.
RxReliableNoSeq(s) ==
    LET f == Head(uartRx[s]) IN
    /\ Arrived(s, "DATA") /\ f.rel /\ link[s] = "ACTIVE"
    /\ TakeFrame(s)
    /\ AcceptReliable(s, f.msg)
    /\ PiggybackAck(s, f.ack)
    /\ UNCHANGED <<linkVars, queued, handled, faultVars>>

\* A reliable packet out of sequence is not taken in, nor answered.
RxReliable(s) ==
    LET f == Head(uartRx[s]) IN
    /\ Arrived(s, "DATA") /\ f.rel /\ link[s] = "ACTIVE"
    /\ TakeFrame(s)
    /\ \/ f.seq = txAck[s] /\ AcceptReliable(s, f.msg)
       \/ f.seq # txAck[s] /\ UNCHANGED <<recvVars, uartTx>>
    /\ PiggybackAck(s, f.ack)
    /\ UNCHANGED <<linkVars, queued, handled, faultVars>>

\* An unreliable packet advances the expected SN as well.
RxUnreliable(s) ==
    LET f == Head(uartRx[s]) IN
    /\ Arrived(s, "DATA") /\ ~f.rel /\ link[s] = "ACTIVE"
    /\ TakeFrame(s)
    /\ txAck' = [txAck EXCEPT ![s] = Incr(@)]
    /\ PackHciPdu(s, f.msg)
    /\ UNCHANGED <<linkVars, sendVars, rxSlid, rxT, uartTx, queued, handled,
                   faultVars>>

\* Data is discarded until the link is ACTIVE.
RxDataEarly(s) ==
    /\ Arrived(s, "DATA") /\ link[s] # "ACTIVE"
    /\ TakeFrame(s)
    /\ UNCHANGED <<linkVars, sendVars, recvVars, uartTx, queued, handled,
                   faultVars>>

\* SLIP decoding or the header checksum discards a damaged frame.
RxDamaged(s) ==
    /\ Arrived(s, "NONE")
    /\ TakeFrame(s)
    /\ UNCHANGED <<linkVars, sendVars, recvVars, uartTx, queued, handled,
                   faultVars>>

\* So it does a frame that another one has begun to overwrite: the DMA is armed
\* on the slot of the oldest frame when the UART Rx FIFO is full.
RxSpoilt(s) ==
    /\ Len(uartRx[s]) >= UartNum /\ ~UartIdle(Peer[s])
    /\ overruns < MaxOverrun
    /\ overruns' = overruns + 1
    /\ TakeFrame(s)
    /\ UNCHANGED <<linkVars, sendVars, recvVars, uartTx, queued, handled,
                   losses, busy, reboots>>

RxHandler(s) ==
    \/ RxSync(s) \/ RxSyncRsp(s) \/ RxConfig(s) \/ RxConfigRsp(s)
    \/ RxAck(s) \/ RxReliable(s) \/ RxUnreliable(s) \/ RxDataEarly(s)
    \/ RxDamaged(s) \/ RxSpoilt(s)

-----------------------------------------------------------------------------
(* The rest of the main loop: HCI_TransportPoll runs HCI_H5_Poll and       *)
(* HCI_Handler once HCI_Tr_H5RxHandler has emptied the UART Rx FIFO.       *)

\* Nothing on either wire, nothing waiting to be read, no 10 ms ACK timer
\* running: the exchange a timer was started for is over.
Quiet == \A s \in Side : UartIdle(s) /\ uartRx[s] = << >> /\ ~rxT[s]

\* HCI_RxHandler: one packet of the HCI Rx FIFO goes to blc_hci_handler.
HciHandler(s) ==
    IF rxq[s] = << >> THEN UNCHANGED <<rxq, handled>>
    ELSE /\ rxq' = [rxq EXCEPT ![s] = Tail(@)]
         /\ handled' = [handled EXCEPT ![s] = Append(@, Head(rxq[s]))]

\* Mutant of PollLink: SYNC is repeated in state INIT as well.
PollLinkSync(s) ==
    /\ uartRx[s] = << >>
    /\ SlowTimers => Quiet
    /\ link[s] # "ACTIVE"
    /\ Transmit(s, LinkFrame(s, "SYNC"))
    /\ HciHandler(s)
    /\ UNCHANGED <<linkVars, sendVars, txAck, rxSlid, rxT, dropped, uartRx,
                   queued, faultVars>>

\* HCI_H5_Poll before the link is ACTIVE: the 250 ms timer has run out.
PollLink(s) ==
    /\ uartRx[s] = << >>
    /\ SlowTimers => Quiet
    /\ link[s] # "ACTIVE"
    /\ Transmit(s, LinkFrame(s, IF link[s] = "IDLE" THEN "SYNC" ELSE "CONFIG"))
    /\ HciHandler(s)
    /\ UNCHANGED <<linkVars, sendVars, txAck, rxSlid, rxT, dropped, uartRx,
                   queued, faultVars>>

\* Mutant of PollAck: the ACK timer is cleared, the ACK is not sent.
PollAckNone(s) ==
    /\ rxT' = [rxT EXCEPT ![s] = FALSE]
    /\ UNCHANGED <<rxSlid, uartTx>>

\* The delayed pure ACK of a window of one, the second half of HCI_H5_Poll.
PollAck(s) ==
    \/ /\ win[s] = 1 /\ rxT[s]
       /\ SlowTimers => UartIdle(s)
       /\ rxT' = [rxT EXCEPT ![s] = FALSE]
       /\ Transmit(s, AckFrame(txAck[s]))
       /\ rxSlid' = [rxSlid EXCEPT ![s] = 0]
    \/ UNCHANGED <<rxT, rxSlid, uartTx>>

\* HCI_H5_SendData and what is left of HCI_H5_Poll after it; a packet that
\* goes out carries the acknowledgement.
SendData(s, seq, slid, tick) ==
    \/ SendDone(s, seq, slid)
    \/ SendRefused(s, seq, slid) /\ PollAck(s)
    \/ SendNothing(s, seq, slid, tick) /\ PollAck(s)

\* HCI_H5_Poll finds a resend timer run out (resendTick, or txTick with the
\* window full): HCI_H5_ResendStart goes back to what the peer last asked for.
PollResend(s) ==
    /\ uartRx[s] = << >>
    /\ SlowTimers => Quiet
    /\ link[s] = "ACTIVE"
    /\ rsT[s] \/ (txSlid[s] >= win[s] /\ txT[s])
    /\ \/ UartIdle(s) /\ UNCHANGED busy
       \/ ~UartIdle(s) /\ busy < MaxBusy /\ busy' = busy + 1
    /\ rsT' = [rsT EXCEPT ![s] = FALSE]
    /\ SendData(s, rxAck[s], 0, txT[s] /\ rsT[s])
    /\ HciHandler(s)
    /\ UNCHANGED <<linkVars, rxAck, txq, released, txAck, dropped, uartRx,
                   queued, losses, overruns, reboots>>

\* HCI_H5_Poll with no resend timer run out: the next packet is sent if none
\* is waited for.
PollSend(s) ==
    /\ uartRx[s] = << >>
    /\ link[s] = "ACTIVE"
    /\ \/ /\ ~rsT[s] /\ txSlid[s] < win[s]
          /\ SendData(s, txSeq[s], txSlid[s], txT[s])
       \/ /\ rsT[s] \/ txSlid[s] >= win[s]
          /\ PollAck(s) /\ UNCHANGED <<txSeq, txSlid, txT>>
    /\ HciHandler(s)
    /\ UNCHANGED <<linkVars, rxAck, rsT, txq, released, txAck, dropped, uartRx,
                   queued, faultVars>>

-----------------------------------------------------------------------------
(* The controller, the wire and restarts.                                  *)

\* The controller (a library) queues a packet for the other side.
QueueTx(s) ==
    /\ Len(txq[s]) < TxNum
    /\ queued[s] < MaxMsg[s]
    /\ txq' = [txq EXCEPT ![s] = Append(@, queued[s] + 1)]
    /\ queued' = [queued EXCEPT ![s] = @ + 1]
    /\ UNCHANGED <<linkVars, txSeq, rxAck, txSlid, txT, rsT, released, recvVars,
                   uartTx, uartRx, handled, faultVars>>

\* HCI_Tr_H5UartRxIRQHandler of side p has frame f behind the frames stored, or,
\* when the UART Rx FIFO is full, in the place of the oldest one: the DMA was
\* given that slot before the test for a full FIFO.
Stored(p, f) ==
    \/ /\ Len(uartRx[p]) < UartNum
       /\ uartRx' = [uartRx EXCEPT ![p] = Append(@, f)]
       /\ UNCHANGED overruns
    \/ /\ Len(uartRx[p]) >= UartNum /\ overruns < MaxOverrun
       /\ overruns' = overruns + 1
       /\ uartRx' = [uartRx EXCEPT ![p] = <<f>> \o Tail(@)]

\* The UART of s has sent its frame.
UartRxIRQ(s) ==
    /\ ~UartIdle(s)
    /\ Stored(Peer[s], uartTx[s])
    /\ uartTx' = [uartTx EXCEPT ![s] = NoFrame]
    /\ UNCHANGED <<linkVars, sendVars, recvVars, queued, handled, losses, busy,
                   reboots>>

\* The frame is damaged on the way; it takes its place in the FIFO all the same.
UartDamage(s) ==
    /\ uartTx[s].type \in Damageable
    /\ losses < MaxLoss
    /\ losses' = losses + 1
    /\ Stored(Peer[s], NoFrame)
    /\ uartTx' = [uartTx EXCEPT ![s] = NoFrame]
    /\ UNCHANGED <<linkVars, sendVars, recvVars, queued, handled, busy, reboots>>

\* Side s restarts: HCI_TransportInit on cleared memory.
Reboot(s) ==
    /\ reboots < MaxReboot
    /\ reboots' = reboots + 1
    /\ link' = [link EXCEPT ![s] = "IDLE"]
    /\ win' = [win EXCEPT ![s] = 0]
    /\ Reset(s)
    /\ uartTx' = [uartTx EXCEPT ![s] = NoFrame]
    /\ uartRx' = [uartRx EXCEPT ![s] = << >>]
    /\ UNCHANGED <<queued, handled, losses, busy, overruns>>

Next ==
    \E s \in Side :
        \/ RxHandler(s)
        \/ PollLink(s) \/ PollResend(s) \/ PollSend(s)
        \/ QueueTx(s)
        \/ UartRxIRQ(s) \/ UartDamage(s)
        \/ Reboot(s)

Spec == Init /\ [][Next]_vars

\* The main loop keeps running and the UART finishes what it sends; a timer
\* that is armed in round after round is found run out in one of them.
Fairness ==
    \A s \in Side :
        /\ WF_vars(UartRxIRQ(s))
        /\ WF_vars(RxHandler(s))
        /\ SF_vars(PollLink(s))
        /\ SF_vars(PollResend(s))
        /\ SF_vars(PollSend(s))
        /\ SF_vars(PollSend(s) /\ rxT[s] /\ ~rxT'[s])

FairSpec == Spec /\ Fairness

-----------------------------------------------------------------------------
(* Properties.                                                             *)

LinkType ==
    /\ link \in [Side -> {"IDLE", "INIT", "ACTIVE"}]
    /\ win \in [Side -> 0..7]

SendType ==
    /\ txSeq \in [Side -> SN] /\ rxAck \in [Side -> SN]
    /\ txSlid \in [Side -> Nat]
    /\ txT \in [Side -> BOOLEAN] /\ rsT \in [Side -> BOOLEAN]
    /\ txq \in [Side -> Seq(Msg)] /\ released \in [Side -> SUBSET Nat]

RecvType ==
    /\ txAck \in [Side -> SN] /\ rxSlid \in [Side -> 0..255]
    /\ rxT \in [Side -> BOOLEAN]
    /\ rxq \in [Side -> Seq(Nat)] /\ dropped \in [Side -> SUBSET Nat]

UartType ==
    /\ uartTx \in [Side -> Frame] /\ uartRx \in [Side -> Seq(Frame)]

CountType ==
    /\ queued \in [Side -> Nat] /\ handled \in [Side -> Seq(Nat)]
    /\ losses \in Nat /\ busy \in Nat /\ overruns \in Nat /\ reboots \in Nat

\* Every field of hciH5Cb keeps its range: SNs 3 bits, rxSlidWinSize 8 bits,
\* the frames built and stored are well formed.
TypeOK == LinkType /\ SendType /\ RecvType /\ UartType /\ CountType

\* The packets side s has taken in, oldest first: those given to
\* blc_hci_handler, then those waiting in the HCI Rx FIFO.
TakenIn(s) == handled[s] \o rxq[s]

\* The transmit window of HCI_H5_SendData lies inside the HCI Tx FIFO and
\* inside the negotiated window: rptr + txSlidWinSize never passes wptr,
\* whatever resends, failed sends, late ACKs and resets come in between.
WindowInFifo ==
    \A s \in Side : txSlid[s] <= Len(txq[s]) /\ txSlid[s] <= win[s]

\* HCI_H5_DecodeDataPdu never takes the same packet in twice.
NoDuplicate ==
    \A s \in Side : \A i, j \in 1..Len(TakenIn(s)) :
        i # j => TakenIn(s)[i] # TakenIn(s)[j]

\* "local packet is received by peer correctly" (HCI_H5_ReSendCheck): a
\* reliable packet leaves the HCI Tx FIFO on an acknowledgement only if the
\* peer did take it in.
NoSilentLoss ==
    \A s \in Side : LET p == Peer[s] IN
        {m \in released[s] : IsReliablePacket(m)}
            \subseteq Elems(TakenIn(p)) \cup dropped[p]

\* HCI_H5_PackHciPdu stores without a test for a full FIFO, and the main loop
\* takes out one packet a round: the handshake must keep the FIFO from
\* overrunning.
RxFifoNotOverrun == \A s \in Side : Len(rxq[s]) <= RxNum

\* Late or repeated SYNC frames do not throw away an established link: only
\* a restart of a side sends a link from ACTIVE back to IDLE, or a full UART Rx
\* FIFO, which puts the newest frame before older ones.
NoSpuriousReset ==
    [][\A s \in Side : link[s] = "ACTIVE" /\ link'[s] # "ACTIVE"
                          => reboots' > 0 \/ overruns' > 0]_vars

\* Whatever frames are damaged or refused by a busy UART and however often a
\* side restarts, once that stops both sides reach ACTIVE and stay there.
LinkUp == <>[](\A s \in Side : link[s] = "ACTIVE")

\* Once the link is up, every queued packet leaves the HCI Tx FIFO: "local
\* must re-send until peer response" (HCI_H5_Poll), and the response comes.
Delivery ==
    \A s \in Side : (link[s] = "ACTIVE" /\ txq[s] # << >>)
                        ~> (link[s] # "ACTIVE" \/ txq[s] = << >>)

=============================================================================
