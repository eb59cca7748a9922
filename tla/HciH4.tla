------------------------------- MODULE HciH4 -------------------------------
(***************************************************************************)
(* The receiving half of the H4 transport                                    *)
(* (vendor/common/hci_transport/hci_tr_h4.c): HCI packets come as a stream of *)
(* bytes that the UART cuts into chunks wherever it likes. Its interrupt      *)
(* queues the chunks; the main loop takes one chunk a round, cuts it into     *)
(* packets and keeps a packet that is not complete in a backup buffer, which  *)
(* a timer flushes. One packet a round goes from the HCI Rx FIFO to the HCI.  *)
(*                                                                           *)
(* A byte is the pair of the packet it belongs to and its place in it. Bytes  *)
(* are lost when the chunk FIFO is full: the receive DMA then fills the slot   *)
(* of the oldest chunk, and the receiver may read any byte as a packet type   *)
(* or a length. ISO data takes the branches of ACL data.                      *)
(***************************************************************************)
EXTENDS Naturals, Sequences, FiniteSets

CONSTANTS Packet,    \* what the host sends: records [kind, size]
          HeadLen,   \* HeadLen[kind]: the type and the header
          MaxSize,   \* bound on a size read from bytes that are no header
          Wrap,      \* 2^8, for backupCnt and the result of the backup handler
          ChunkMax,  \* HCI_H4_TR_RX_BUF_SIZE less the DMA length
          UartNum,   \* chunks in h4TrRxFifo
          RxNum,     \* packets in the HCI Rx FIFO
          Credit,    \* packets the host may have outstanding (HCI flow control)
          MaxPkt     \* bound on the packets between two restarts of the host

\* The types the receiver takes apart; SKIP stands for events and SCO data.
Kind == {"CMD", "ACL", "SKIP"}

ASSUME H4Assumption ==
  /\ HeadLen \in [Kind -> Nat \ {0}]
  /\ MaxSize \in Nat /\ Wrap \in Nat \ {0} /\ ChunkMax \in Nat \ {0}
  /\ \A p \in Packet : p.kind \in Kind /\ p.size \in HeadLen[p.kind]..MaxSize
  /\ UartNum \in Nat \ {0} /\ RxNum \in Nat \ {0} /\ Credit \in Nat /\ MaxPkt \in Nat

VARIABLES sent,   \* packets the host has begun, since it last restarted
          wire,   \* their bytes that the UART has not received
          lost,   \* a chunk has been overwritten or dropped since then
          dma,    \* the chunk the UART is receiving
          uart,   \* h4TrRxFifo
          pc,     \* the main loop: rx, loop, switch, hci, or wild after an underflow
          cur,    \* what is left of the chunk in hand: pPacket, len
          bk,     \* h4TrBackupBuf up to backupCnt
          timer,  \* flushTimer is armed
          fifo,   \* the HCI Rx FIFO
          got     \* packets blc_hci_handler has taken

vars == <<sent, wire, lost, dma, uart, pc, cur, bk, timer, fifo, got>>

Bytes(p) == [i \in 1..sent[p].size |-> <<p, i>>]

-----------------------------------------------------------------------------
(* What the receiver makes of bytes. *)

Types(b) == IF ~lost /\ b[2] = 1 THEN {sent[b[1]].kind} ELSE Kind \cup {"OTHER"}

\* The size of the packet at the front of b, whose header is complete.
Sizes(b, type) ==
  IF ~lost /\ \A i \in 1..HeadLen[type] : b[i] = <<b[1][1], i>>
  THEN {sent[b[1][1]].size} ELSE HeadLen[type]..MaxSize

\* memcpy to the backup buffer, with a count of eight bits.
Kept(b) == SubSeq(b, 1, Len(b) % Wrap)

Smaller(a, b) == IF a < b THEN a ELSE b

\* Mutant of Missing: the whole chunk is copied.
MissingAll(size, have, len) == len

\* cpyLen, computed in sixteen bits, and what there is.
Missing(size, have, len) == IF size < have THEN len ELSE Smaller(size - have, len)

\* The next slot of the HCI Rx FIFO; wptr is not tested, so that a full FIFO
\* counts one packet more than it holds and its first packet is overwritten.
Put(f, pkt) ==
  Append(IF Len(f) >= RxNum THEN [f EXCEPT ![Len(f) + 1 - RxNum] = pkt] ELSE f, pkt)

\* Mutant of Partial: the flush timer is not armed.
PartialUntimed(used, b) == [used |-> used, bk |-> Kept(b), timer |-> timer, fifo |-> fifo]

\* HCI_Tr_H4BackUpHandler: the bytes used, the buffer, the timer and the HCI Rx
\* FIFO after it.
Partial(used, b) == [used |-> used, bk |-> Kept(b), timer |-> TRUE, fifo |-> fifo]

Completed(used, b, size) ==
  IF Len(b) % Wrap = size
  THEN [used |-> used, bk |-> <<>>, timer |-> FALSE, fifo |-> Put(fifo, b)]
  ELSE Partial(used, b)

BackUpPacket(b, type) ==
  LET all == bk \o b IN
  IF type \in {"SKIP", "OTHER"}
  THEN {[used |-> Len(b), bk |-> bk, timer |-> timer, fifo |-> fifo]}
  ELSE IF Len(all) < HeadLen[type] THEN {Partial(Len(b), all)}
  ELSE {LET n == Missing(size, Len(bk), Len(b)) IN
        Completed(n, bk \o SubSeq(b, 1, n), size) : size \in Sizes(all, type)}

BackUpHandler(b) ==
  IF bk = <<>> THEN {Partial(Len(b), b)}
  ELSE UNION {BackUpPacket(b, type) : type \in Types(bk[1])}

-----------------------------------------------------------------------------
Init ==
  /\ sent = <<>> /\ wire = <<>> /\ lost = FALSE
  /\ dma = <<>> /\ uart = <<>> /\ pc = "rx" /\ cur = <<>>
  /\ bk = <<>> /\ timer = FALSE
  /\ fifo = <<>> /\ got = <<>>

\* The host sends a packet when flow control lets it.
HostSend(pkt) ==
  /\ Len(sent) < MaxPkt /\ Len(sent) < Len(got) + Credit
  /\ sent' = Append(sent, pkt)
  /\ wire' = wire \o [i \in 1..pkt.size |-> <<Len(sent) + 1, i>>]
  /\ UNCHANGED <<lost, dma, uart, pc, cur, bk, timer, fifo, got>>

\* The UART receives the next n bytes as one chunk, into the slot that
\* ext_hci_uartReceData was given: behind the queued chunks, and with UartNum of
\* them queued the one of the first, which has not been read to its end.
UartReceive(n) ==
  /\ dma = <<>> /\ n <= ChunkMax
  /\ dma' = SubSeq(wire, 1, n) /\ wire' = SubSeq(wire, n + 1, Len(wire))
  /\ lost' = (lost \/ Len(uart) >= UartNum)
  /\ UNCHANGED <<sent, uart, pc, cur, bk, timer, fifo, got>>

\* Mutant of UartFull: one chunk too many.
UartFullLate == Len(uart) > UartNum
UartFull == Len(uart) >= UartNum

\* HCI_Tr_H4UartRxIRQHandler at the end of the chunk.
UartRxIRQHandler ==
  /\ dma # <<>> /\ dma' = <<>>
  /\ uart' = IF UartFull THEN [uart EXCEPT ![1] = dma] ELSE Append(uart, dma)
  /\ UNCHANGED <<sent, wire, lost, pc, cur, bk, timer, fifo, got>>

\* The host has sent nothing for a while and all of it has been read.
Quiet == wire = <<>> /\ dma = <<>> /\ uart = <<>> /\ pc \in {"rx", "hci"}

\* Mutant of FlushHandler: the timer stays armed.
FlushHandlerArmed(expired) ==
  IF expired THEN timer /\ Quiet /\ timer' = timer /\ bk' = <<>>
  ELSE UNCHANGED <<timer, bk>>

\* Entry of HCI_Tr_H4RxHandler. The host never pauses for the flush time, one
\* second, inside a packet: the timer runs out only when it is quiet.
FlushHandler(expired) ==
  IF expired THEN timer /\ Quiet /\ timer' = FALSE /\ bk' = <<>>
  ELSE UNCHANGED <<timer, bk>>

RxHandler(expired) ==
  /\ pc = "rx"
  /\ FlushHandler(expired)
  /\ IF uart = <<>> THEN pc' = "hci" /\ cur' = cur
     ELSE pc' = "loop" /\ cur' = Head(uart)
  /\ UNCHANGED <<sent, wire, lost, dma, uart, fifo, got>>

\* The end of the chunk.
RxDone ==
  /\ pc = "loop" /\ cur = <<>>
  /\ uart' = Tail(uart) /\ pc' = "hci"
  /\ UNCHANGED <<sent, wire, lost, dma, cur, bk, timer, fifo, got>>

\* pPacket and len after n bytes, as an eight-bit result.
\* Mutant of Rest: pPacket stays where it is.
RestAll(n) == cur
Rest(n) == SubSeq(cur, (n % Wrap) + 1, Len(cur))

\* Lines 334-342: the packet in the backup buffer first.
RxBackup ==
  /\ pc = "loop" /\ cur # <<>> /\ bk # <<>>
  /\ \E r \in BackUpHandler(cur) :
       /\ cur' = Rest(r.used)
       /\ bk' = r.bk /\ timer' = r.timer /\ fifo' = r.fifo
  /\ pc' = IF cur' = <<>> THEN "loop" ELSE "switch"
  /\ UNCHANGED <<sent, wire, lost, dma, uart, got>>

\* Lines 353, 367, 428: the rest of the chunk goes to the backup buffer.
RxKeep ==
  /\ \E r \in BackUpHandler(cur) : bk' = r.bk /\ timer' = r.timer /\ fifo' = r.fifo
  /\ cur' = <<>> /\ pc' = "loop"
  /\ UNCHANGED uart

\* Lines 381-403: events and SCO data. len is reduced but pPacket stays, and a
\* size beyond len makes len wrap: the loop runs on through memory.
RxSkip ==
  /\ IF Len(cur) < HeadLen["SKIP"] THEN cur' = <<>> /\ pc' = "loop"
     ELSE \E size \in Sizes(cur, "SKIP") :
            IF size <= Len(cur) THEN cur' = SubSeq(cur, 1, Len(cur) - size) /\ pc' = "loop"
            ELSE cur' = cur /\ pc' = "wild"
  /\ UNCHANGED <<uart, bk, timer, fifo>>

\* Lines 410-426: a whole packet. When the HCI Rx FIFO is full the handler
\* returns, and the next round begins the chunk again.
RxWhole(size) ==
  /\ IF Len(fifo) >= RxNum
     THEN pc' = "hci" /\ cur' = <<>> /\ fifo' = fifo
     ELSE /\ fifo' = Put(fifo, SubSeq(cur, 1, size))
          /\ cur' = SubSeq(cur, size + 1, Len(cur)) /\ pc' = "loop"
  /\ UNCHANGED <<uart, bk, timer>>

\* One round of the loop over the chunk.
RxSwitch(type) ==
  /\ pc = "switch" \/ (pc = "loop" /\ cur # <<>> /\ bk = <<>>)
  /\ CASE type = "OTHER" -> cur' = <<>> /\ pc' = "loop" /\ UNCHANGED <<uart, bk, timer, fifo>>
       [] type = "SKIP" -> RxSkip
       [] OTHER -> IF Len(cur) < HeadLen[type] THEN RxKeep
                   ELSE \E size \in Sizes(cur, type) :
                          IF size <= Len(cur) THEN RxWhole(size) ELSE RxKeep
  /\ UNCHANGED <<sent, wire, lost, dma, got>>

\* HCI_RxHandler: one packet a round. What is taken after a loss is not
\* recorded.
HciRxHandler ==
  /\ pc = "hci" /\ pc' = "rx"
  /\ IF fifo = <<>> THEN UNCHANGED <<fifo, got>>
     ELSE /\ fifo' = Tail(fifo)
          /\ got' = IF lost THEN got ELSE Append(got, Head(fifo))
  /\ UNCHANGED <<sent, wire, lost, dma, uart, cur, bk, timer>>

\* A host whose packets were lost gives up, stays silent until longer than the
\* flush time, and begins again.
HostRestart ==
  /\ lost /\ Quiet /\ fifo = <<>> /\ ~timer
  /\ lost' = FALSE /\ sent' = <<>> /\ got' = <<>>
  /\ UNCHANGED <<wire, dma, uart, pc, cur, bk, timer, fifo>>

Poll ==
  \/ \E expired \in BOOLEAN : RxHandler(expired)
  \/ RxDone \/ RxBackup
  \/ \E type \in UNION {Types(cur[1]) : i \in 1..Len(cur)} : RxSwitch(type)
  \/ HciRxHandler

Next ==
  \/ \E pkt \in Packet : HostSend(pkt)
  \/ \E n \in 1..Len(wire) : UartReceive(n)
  \/ UartRxIRQHandler
  \/ Poll \/ HostRestart

Spec == Init /\ [][Next]_vars

\* The UART goes on receiving, the main loop polls, a second of silence ends,
\* and a host that lost packets restarts in the end.
Fairness ==
  /\ WF_vars(\E n \in 1..Len(wire) : UartReceive(n)) /\ WF_vars(UartRxIRQHandler)
  /\ WF_vars(Poll) /\ SF_vars(RxHandler(TRUE)) /\ SF_vars(HostRestart)

FairSpec == Spec /\ Fairness

-----------------------------------------------------------------------------
(* Properties. *)

Byte == (1..MaxPkt) \X (1..MaxSize)

\* Types of the control block and its buffers; backupCnt stays below 2^8 and
\* the chunk FIFO below its size.
TypeOK ==
  /\ sent \in Seq(Packet) /\ Len(sent) <= MaxPkt
  /\ wire \in Seq(Byte) /\ dma \in Seq(Byte) /\ cur \in Seq(Byte) /\ bk \in Seq(Byte)
  /\ uart \in Seq(Seq(Byte)) /\ fifo \in Seq(Seq(Byte)) /\ got \in Seq(Seq(Byte))
  /\ lost \in BOOLEAN /\ timer \in BOOLEAN
  /\ pc \in {"rx", "loop", "switch", "hci", "wild"}
  /\ Len(bk) < Wrap /\ Len(uart) <= UartNum

\* Wherever the UART cuts the stream, and in every interleaving of its
\* interrupt with the main loop, the packets that reach the HCI are those the
\* host sent, whole, once and in order, as long as no chunk was overwritten;
\* also after that, once the host has been silent for the flush time.
Reassembled ==
  ~lost => /\ Len(got \o fifo) <= Len(sent)
           /\ \A p \in 1..Len(got \o fifo) : (got \o fifo)[p] = Bytes(p)

\* A packet that waits for its rest in the backup buffer has the flush timer
\* running, so that the rest of a broken packet never meets a new one.
BackupTimed == bk # <<>> => timer

\* Every packet reaches the HCI unless a chunk is overwritten.
Delivered == \A n \in 1..MaxPkt : Len(sent) = n ~> Len(got) >= n \/ lost

\* After a chunk was overwritten the receiver finds back to the packet boundary,
\* unless the length of a skipped packet ran below zero, or what it takes for
\* packets fills the HCI Rx FIFO again and again: a chunk that meets the full
\* FIFO is begun again, and one with two packets may never end.
Recovers == (lost ~> ~lost \/ pc = "wild") \/ []<>(Len(fifo) >= RxNum)

=============================================================================
