------------------------- MODULE Ota24SessionProofs -------------------------
(***************************************************************************)
(* The first session of the update over the 2.4 GHz radio: what the slave    *)
(* assembles is one image, in order and whole, although frames are repeated   *)
(* with the length of the last frame received. The argument is that of stop   *)
(* and wait: a request and its answer are never both on their way, so that    *)
(* the master never repeats a request because of an old answer, and a request *)
(* is never cut short. A second session may begin with an old answer in the   *)
(* message queue, which OTA_MasterInit does not clear, and the argument ends. *)
(* With it ends what is known of the length of a data frame: the theorems on  *)
(* the two banks are stated here, for the first session without condition and *)
(* for a later one until a data frame cut short makes flash_write run away.   *)
(***************************************************************************)
EXTENDS Ota24Proofs

DataIn(q) == \E i \in 1..Len(q) : q[i].type = "DATA"

\* The queue holds ends of transmissions only, or these and one message more.
OnlyDone(q) == \A i \in 1..Len(q) : q[i].type = "TX_DONE"
Tidy(q) == \A i \in 1..Len(q) : i < Len(q) => q[i].type = "TX_DONE"

\* The states of the slave in which it does not look at its messages.
Resting == s.st \in {"OFF", "ERROR", "IDLE", "DOWN"}

\* The slave sends with an empty queue, and a message but TX_DONE ends its
\* listening. A slave that is started has at most the message it then drops.
SlaveQueue ==
  /\ Tidy(s.q)
  /\ s.rf = "tx" => s.q = <<>> /\ ~Resting
  /\ s.rf = "rx" => OnlyDone(s.q)
  /\ Len(s.q) <= IF Resting THEN 1 ELSE 2
  /\ s.rf = "rx" => Len(s.q) <= IF Resting THEN 0 ELSE 1

\* The answer that a repeated request brings out again.
SlaveFrame ==
  /\ s.st \in {"IDLE", "FW_VERSION_READY", "START_READY"} => s.blk = 0
  /\ s.st = "START_READY" => s.tx.kind = "VERSION_RSP"
  /\ s.st = "DATA_READY" /\ s.blk = 0 => s.tx.kind = "START_RSP"
  /\ s.st = "END_READY" => s.blk # 0
  /\ s.st \in {"DATA_READY", "END_READY"} /\ s.blk # 0 =>
       s.tx.kind = "ACK" /\ s.tx.num = s.blk

\* What has been received lies in the flash as far as it was erased.
Landed ==
  Active => /\ \A k \in 1..Len(s.got) : k <= EraseLen => flash[s.bank][k] = s.got[k]
            /\ \A k \in 1..EraseLen : k > Len(s.got) => flash[s.bank][k] = Blank

\* The same for the queue of the master, in its first session.
MasterQueue ==
  /\ Tidy(m.q)
  /\ m.rf = "tx" => m.q = <<>> /\ m.tx # NoFrame
  /\ m.rf = "rx" => OnlyDone(m.q)
  /\ press = 0 => m.st = "OFF"
  /\ press = 0 \/ m.st = "IDLE" => m.q = <<>> /\ m.rf = "off" /\ m.tx = NoFrame

\* The request of the master: of the kind its state waits for, and never cut.
MasterFrame ==
  /\ \/ m.tx = NoFrame /\ m.blk = 0
     \/ m.tx = Frame("VERSION_REQ", 0, 0) /\ m.blk = 0
     \/ m.tx = Frame("START_REQ", Blocks[m.ver], 0) /\ m.blk = 0
     \/ m.tx = Frame("DATA", m.blk, m.ver) /\ m.blk # 0 /\ m.blk <= Blocks[m.ver]
     \/ m.tx = Frame("END_REQ", Blocks[m.ver], 0) /\ m.blk = Blocks[m.ver]
  /\ m.st = "FW_VER_WAIT" => m.tx.kind = "VERSION_REQ"
  /\ m.st = "START_RSP_WAIT" => m.tx.kind = "START_REQ"
  /\ m.st = "DATA_ACK_WAIT" => m.tx.kind = "DATA"
  /\ m.st = "END_RSP_WAIT" => m.tx.kind = "END_REQ"

\* r answers the request f.
Answers(r, f) ==
  \/ r.kind = "VERSION_RSP" /\ f.kind = "VERSION_REQ"
  \/ r.kind = "START_RSP" /\ f.kind = "START_REQ"
  \/ r.kind = "ACK" /\ f.kind = "DATA" /\ r.num = f.num /\ r.len >= 3
  \/ r.kind = "END_RSP" /\ f.kind = "END_REQ"

\* Whatever is on its way is the request of the master or an answer to it, and
\* there is never an answer with anything behind it.
Paired ==
  /\ \A i \in 1..Len(s.q) : s.q[i].type = "DATA" => s.q[i].f = m.tx /\ m.tx # NoFrame
  /\ s.rf = "tx" => Answers(s.tx, m.tx)
  /\ \A i \in 1..Len(m.q) : m.q[i].type = "DATA" => Answers(m.q[i].f, m.tx)
  /\ DataIn(m.q) => s.rf # "tx" /\ ~DataIn(s.q)

\* The slave holds the first blocks of the image of the master, and not one
\* more than the master has sent.
InStep ==
  /\ s.blk <= m.blk
  /\ \A k \in 1..Len(s.got) : s.got[k] = <<m.ver, k>>
  /\ s.st = "END" => Len(s.got) = Blocks[m.ver]

Session == MasterQueue /\ MasterFrame /\ Paired /\ InStep

\* The inductive invariant, on top of OtaInv.
SessionInv == SlaveQueue /\ SlaveFrame /\ Landed /\ (press <= 1 => Session)

-----------------------------------------------------------------------------
(* Queues and frames.                                                       *)

\* A message behind ends of transmissions.
LEMMA PushTidy ==
  ASSUME NEW q \in Seq(MsgType), NEW msg \in MsgType, OnlyDone(q)
  PROVE  /\ Tidy(Push(q, msg)) /\ Len(Push(q, msg)) <= Len(q) + 1
         /\ msg.type = "TX_DONE" => OnlyDone(Push(q, msg))
         /\ DataIn(Push(q, msg)) => msg.type = "DATA"
BY DEF Push, OnlyDone, Tidy, DataIn, MsgQueueLen

\* What a round leaves of the queue.
LEMMA TailTidy ==
  ASSUME NEW q \in Seq(MsgType), q # <<>>, Tidy(q)
  PROVE  /\ Tidy(Tail(q)) /\ Len(Tail(q)) = Len(q) - 1
         /\ OnlyDone(q) => OnlyDone(Tail(q))
         /\ DataIn(Tail(q)) => DataIn(q)
         /\ Head(q).type # "TX_DONE" => Tail(q) = <<>>
         /\ Head(q).type = "DATA" => DataIn(q)
         /\ OnlyDone(q) => ~DataIn(q)
<1>1. /\ Tail(q) \in Seq(MsgType) /\ Len(Tail(q)) = Len(q) - 1 /\ Len(q) \in Nat
      /\ Len(q) # 0 /\ Head(q) = q[1] /\ 1 \in 1..Len(q)
      /\ \A i \in 1..Len(Tail(q)) : Tail(q)[i] = q[i + 1] /\ i + 1 \in 1..Len(q)
  OBVIOUS
<1>2. Tidy(Tail(q))
  BY <1>1 DEF Tidy
<1>3. OnlyDone(q) => OnlyDone(Tail(q)) /\ ~DataIn(q)
  BY <1>1 DEF OnlyDone, DataIn
<1>4. DataIn(Tail(q)) => DataIn(q)
  BY <1>1 DEF DataIn
<1>5. Head(q).type # "TX_DONE" => Tail(q) = <<>>
  <2>1. Head(q).type # "TX_DONE" => Len(q) = 1
    BY <1>1 DEF Tidy
  <2>2. QED
    BY <1>1, <2>1
<1>6. Head(q).type = "DATA" => DataIn(q)
  BY <1>1 DEF DataIn
<1>7. QED
  BY <1>1, <1>2, <1>3, <1>4, <1>5, <1>6

LEMMA EmptyTidy == Tidy(<<>>) /\ OnlyDone(<<>>) /\ ~DataIn(<<>>)
BY DEF Tidy, OnlyDone, DataIn

\* The requests of the master are none but themselves, and are read as they are.
LEMMA Requests ==
  ASSUME OtaInv, MasterFrame, m.tx # NoFrame
  PROVE  /\ ReadAs(m.tx) = {m.tx}
         /\ m.tx.kind \in {"VERSION_REQ", "START_REQ", "DATA", "END_REQ"}
         /\ m.tx.len >= 2
         /\ m.tx.kind \in {"VERSION_REQ", "START_REQ"} => m.blk = 0
         /\ m.tx.kind = "DATA" => /\ m.tx.num = m.blk /\ m.tx.ver = m.ver /\ m.blk # 0
                                  /\ Complete(m.tx) /\ m.tx.len = 51
         /\ m.tx.kind = "END_REQ" => m.tx.num = Blocks[m.ver]
BY DEF MasterFrame, Frame, ReadAs, NumLen, LenOf, Complete

\* The messages that the radio makes.
LEMMA RadioTypes ==
  /\ \A type : Msg(type, NoFrame).type = type
  /\ \A f : Msg("DATA", f).type = "DATA" /\ Msg("DATA", f).f = f
BY DEF Msg

-----------------------------------------------------------------------------
(* The radio.                                                               *)

\* Facts about the two sides that all steps start from.
LEMMA Sides ==
  ASSUME OtaInv
  PROVE  /\ m \in MasterRec /\ m.q \in Seq(MsgType) /\ Len(m.q) <= MsgQueueLen
         /\ m.tx \in FrameType /\ m.ver \in Version /\ m.blk \in Nat
         /\ Blocks[m.ver] \in Nat /\ Blocks[m.ver] # 0
         /\ s \in SlaveRec /\ s.q \in Seq(MsgType) /\ Len(s.q) <= MsgQueueLen
         /\ s.tx \in FrameType /\ s.blk \in Nat /\ s.got \in Seq(Block \cup {Spoilt})
         /\ Len(s.got) = s.blk /\ press \in Nat
<1>1. m \in MasterRec /\ s \in SlaveRec /\ press \in 0..MaxPress
      /\ Len(m.q) <= MsgQueueLen /\ Len(s.q) <= MsgQueueLen
  BY TypeParts DEF OtaInv
<1>2. m.ver \in Version /\ Blocks \in [Version -> 1..BankLen]
  BY <1>1, OtaAssumption DEF MasterRec
<1>3. Blocks[m.ver] \in 1..BankLen
  BY <1>2
<1>4. QED
  BY <1>1, <1>2, <1>3 DEF OtaInv, SlaveCount, MasterRec, SlaveRec

\* SlaveFrame and Landed do not look at the queue.
LEMMA SlaveHeard ==
  ASSUME SlaveFrame, Landed, UNCHANGED <<flash, flag, run>>,
         s'.st = s.st, s'.blk = s.blk, s'.bank = s.bank, s'.got = s.got, s'.tx = s.tx
  PROVE  SlaveFrame' /\ Landed'
BY DEF SlaveFrame, Landed, Active

\* A queue that takes one more message while its side listens, or after it has
\* sent.
LEMMA SlaveQueueHears ==
  ASSUME OtaInv, SlaveQueue, NEW msg \in MsgType, NEW rf \in {"off", "rx"},
         \/ s.rf = "rx" /\ rf = "off"
         \/ s.rf = "tx" /\ rf = "rx" /\ msg.type = "TX_DONE",
         s' = Hears(s, msg, rf)
  PROVE  /\ SlaveQueue' /\ (DataIn(s'.q) => msg.type = "DATA") /\ s'.rf = rf
         /\ s'.st = s.st /\ s'.blk = s.blk /\ s'.bank = s.bank /\ s'.got = s.got
         /\ s'.tx = s.tx
         /\ \A i \in 1..Len(s'.q) : s'.q[i].type = "DATA" => s'.q[i] = msg
<1>1. s \in SlaveRec /\ s.q \in Seq(MsgType) /\ Len(s.q) <= MsgQueueLen
  BY Sides
<1>2. /\ s'.q = Push(s.q, msg) /\ s'.rf = rf /\ s'.st = s.st /\ s'.blk = s.blk
      /\ s'.bank = s.bank /\ s'.got = s.got /\ s'.tx = s.tx
  BY <1>1, SlaveHears
<1>3. OnlyDone(s.q)
  BY EmptyTidy DEF SlaveQueue
<1>4. /\ Tidy(s'.q) /\ Len(s'.q) <= Len(s.q) + 1
      /\ msg.type = "TX_DONE" => OnlyDone(s'.q)
      /\ DataIn(s'.q) => msg.type = "DATA"
  BY <1>1, <1>2, <1>3, PushTidy
<1>5. \A i \in 1..Len(s'.q) : (i \in 1..Len(s.q) /\ s'.q[i] = s.q[i]) \/ s'.q[i] = msg
  BY <1>1, <1>2, PushTyped
<1>6. \A i \in 1..Len(s'.q) : s'.q[i].type = "DATA" => s'.q[i] = msg
  BY <1>3, <1>5 DEF OnlyDone
<1>7. Len(s.q) \in Nat /\ Len(s'.q) \in Nat
  BY <1>1, <1>2, PushTyped
<1>8. SlaveQueue'
  <2>1. CASE s.rf = "rx" /\ rf = "off"
    BY <1>2, <1>4, <1>7, <2>1 DEF SlaveQueue, Resting
  <2>2. CASE s.rf = "tx" /\ rf = "rx" /\ msg.type = "TX_DONE"
    BY <1>2, <1>4, <1>7, <2>2 DEF SlaveQueue, Resting
  <2>3. QED
    BY <2>1, <2>2
<1>9. QED
  BY <1>2, <1>4, <1>6, <1>8

LEMMA MasterQueueHears ==
  ASSUME OtaInv, MasterQueue, NEW msg \in MsgType, NEW rf \in {"off", "rx"},
         \/ m.rf = "rx" /\ rf = "off"
         \/ m.rf = "tx" /\ rf = "rx" /\ msg.type = "TX_DONE",
         m' = Hears(m, msg, rf), UNCHANGED press
  PROVE  /\ MasterQueue' /\ (DataIn(m'.q) => msg.type = "DATA") /\ m'.rf = rf
         /\ m'.st = m.st /\ m'.blk = m.blk /\ m'.ver = m.ver /\ m'.tx = m.tx
         /\ \A i \in 1..Len(m'.q) : m'.q[i].type = "DATA" => m'.q[i] = msg
<1>1. m \in MasterRec /\ m.q \in Seq(MsgType) /\ Len(m.q) <= MsgQueueLen
  BY Sides
<1>2. /\ m'.q = Push(m.q, msg) /\ m'.rf = rf /\ m'.st = m.st /\ m'.blk = m.blk
      /\ m'.ver = m.ver /\ m'.tx = m.tx
  BY <1>1, MasterHears
<1>3. OnlyDone(m.q)
  BY EmptyTidy DEF MasterQueue
<1>4. /\ Tidy(m'.q)
      /\ msg.type = "TX_DONE" => OnlyDone(m'.q)
      /\ DataIn(m'.q) => msg.type = "DATA"
  BY <1>1, <1>2, <1>3, PushTidy
<1>5. \A i \in 1..Len(m'.q) : (i \in 1..Len(m.q) /\ m'.q[i] = m.q[i]) \/ m'.q[i] = msg
  BY <1>1, <1>2, PushTyped
<1>6. \A i \in 1..Len(m'.q) : m'.q[i].type = "DATA" => m'.q[i] = msg
  BY <1>3, <1>5 DEF OnlyDone
<1>7. MasterQueue'
  <2>1. CASE m.rf = "rx" /\ rf = "off"
    BY <1>2, <1>4, <2>1 DEF MasterQueue
  <2>2. CASE m.rf = "tx" /\ rf = "rx" /\ msg.type = "TX_DONE"
    BY <1>2, <1>4, <2>2 DEF MasterQueue
  <2>3. QED
    BY <2>1, <2>2
<1>8. QED
  BY <1>2, <1>4, <1>6, <1>7

LEMMA SessionRadio ==
  ASSUME OtaInv, SessionInv, Radio
  PROVE  SessionInv'
<1>1. /\ SlaveQueue /\ SlaveFrame /\ Landed /\ press \in Nat
      /\ m.tx \in FrameType /\ s.tx \in FrameType
  BY Sides DEF SessionInv
<1>2. /\ \A type \in {"INVALID_DATA", "TX_DONE", "TIMEOUT"} :
           Msg(type, NoFrame) \in MsgType /\ Msg(type, NoFrame).type = type
      /\ \A f \in FrameType : /\ Msg("DATA", f) \in MsgType /\ Msg("DATA", f).type = "DATA"
                              /\ Msg("DATA", f).f = f
  BY RadioMessages, RadioTypes
<1>3. ASSUME NEW how \in {"received", "damaged", "lost"}, MasterTx(how) PROVE SessionInv'
  <2>1. /\ m.rf = "tx" /\ m' = Hears(m, Msg("TX_DONE", NoFrame), "rx")
        /\ s' = Arrives(s, m.tx, how) /\ UNCHANGED <<flash, flag, run, press>>
    BY <1>3 DEF MasterTx, Sent, Hears, flashVars
  <2>2. \/ s' = s
        \/ s.rf = "rx" /\ \E msg \in {Msg("INVALID_DATA", NoFrame), Msg("DATA", m.tx)} :
             s' = Hears(s, msg, "off")
    BY <2>1, ArrivesCases
  <2>3. /\ SlaveQueue' /\ SlaveFrame' /\ Landed' /\ s'.blk = s.blk /\ s'.got = s.got
        /\ s'.st = s.st /\ s'.tx = s.tx
        /\ \/ s' = s
           \/ s'.rf = "off" /\ \A i \in 1..Len(s'.q) : s'.q[i].type = "DATA" =>
                                  s'.q[i] = Msg("DATA", m.tx)
    <3>1. CASE s' = s
      BY <1>1, <2>1, <3>1 DEF SlaveQueue, SlaveFrame, Landed, Active, Tidy, OnlyDone, Resting
    <3>2. CASE s' # s
      <4>1. PICK msg \in {Msg("INVALID_DATA", NoFrame), Msg("DATA", m.tx)} :
              s.rf = "rx" /\ s' = Hears(s, msg, "off")
        BY <2>2, <3>2
      <4>2. msg \in MsgType /\ (msg.type = "DATA" => msg = Msg("DATA", m.tx))
        BY <1>1, <1>2
      <4>3. /\ SlaveQueue' /\ s'.rf = "off" /\ s'.st = s.st /\ s'.blk = s.blk
            /\ s'.bank = s.bank /\ s'.got = s.got /\ s'.tx = s.tx
            /\ \A i \in 1..Len(s'.q) : s'.q[i].type = "DATA" => s'.q[i] = msg
        BY <1>1, <4>1, <4>2, SlaveQueueHears
      <4>4. SlaveFrame' /\ Landed'
        BY <1>1, <2>1, <4>3, SlaveHeard
      <4>5. QED
        BY <4>2, <4>3, <4>4
    <3>3. QED
      BY <3>1, <3>2
  <2>4. ASSUME press <= 1 PROVE Session'
    <3>1. MasterQueue /\ MasterFrame /\ Paired /\ InStep
      BY <2>4 DEF SessionInv, Session
    <3>2. /\ MasterQueue' /\ ~DataIn(m'.q)
          /\ m'.st = m.st /\ m'.blk = m.blk /\ m'.ver = m.ver /\ m'.tx = m.tx
      BY <1>2, <2>1, <3>1, MasterQueueHears
    <3>3. MasterFrame' /\ InStep'
      BY <2>3, <3>1, <3>2 DEF MasterFrame, InStep
    <3>4. m.tx # NoFrame
      BY <2>1, <3>1 DEF MasterQueue
    <3>5. \A i \in 1..Len(s'.q) : s'.q[i].type = "DATA" => s'.q[i].f = m.tx
      BY <1>1, <1>2, <2>3, <3>1 DEF Paired
    <3>6. s'.rf = "tx" => Answers(s'.tx, m.tx)
      BY <2>3, <3>1 DEF Paired
    <3>7. Paired'
      BY <3>2, <3>4, <3>5, <3>6 DEF Paired, DataIn, Answers
    <3>8. QED
      BY <3>2, <3>3, <3>7 DEF Session
  <2>5. QED
    BY <2>1, <2>3, <2>4 DEF SessionInv
<1>4. ASSUME NEW how \in {"received", "damaged", "lost"}, SlaveTx(how) PROVE SessionInv'
  <2>1. /\ s.rf = "tx" /\ s' = Hears(s, Msg("TX_DONE", NoFrame), "rx")
        /\ m' = Arrives(m, s.tx, how) /\ UNCHANGED <<flash, flag, run, press>>
    BY <1>4 DEF SlaveTx, Sent, Hears, flashVars
  <2>2. \/ m' = m
        \/ m.rf = "rx" /\ \E msg \in {Msg("INVALID_DATA", NoFrame), Msg("DATA", s.tx)} :
             m' = Hears(m, msg, "off")
    BY <2>1, ArrivesCases
  <2>3. /\ SlaveQueue' /\ ~DataIn(s'.q) /\ s'.rf = "rx" /\ s'.st = s.st /\ s'.blk = s.blk
        /\ s'.bank = s.bank /\ s'.got = s.got /\ s'.tx = s.tx
    BY <1>1, <1>2, <2>1, SlaveQueueHears
  <2>4. SlaveFrame' /\ Landed'
    BY <1>1, <2>1, <2>3, SlaveHeard
  <2>5. ASSUME press <= 1 PROVE Session'
    <3>1. MasterQueue /\ MasterFrame /\ Paired /\ InStep
      BY <2>5 DEF SessionInv, Session
    <3>2. Answers(s.tx, m.tx)
      BY <2>1, <3>1 DEF Paired
    <3>3. /\ MasterQueue' /\ m'.st = m.st /\ m'.blk = m.blk /\ m'.ver = m.ver /\ m'.tx = m.tx
          /\ \A i \in 1..Len(m'.q) : m'.q[i].type = "DATA" => Answers(m'.q[i].f, m.tx)
      <4>1. CASE m' = m
        BY <2>1, <3>1, <4>1 DEF MasterQueue, Paired, Tidy, OnlyDone
      <4>2. CASE m' # m
        <5>1. PICK msg \in {Msg("INVALID_DATA", NoFrame), Msg("DATA", s.tx)} :
                m.rf = "rx" /\ m' = Hears(m, msg, "off")
          BY <2>2, <4>2
        <5>2. msg \in MsgType /\ (msg.type = "DATA" => msg.f = s.tx)
          BY <1>1, <1>2
        <5>3. /\ MasterQueue' /\ m'.st = m.st /\ m'.blk = m.blk /\ m'.ver = m.ver
              /\ m'.tx = m.tx
              /\ \A i \in 1..Len(m'.q) : m'.q[i].type = "DATA" => m'.q[i] = msg
          BY <2>1, <3>1, <5>1, <5>2, MasterQueueHears
        <5>4. QED
          BY <3>2, <5>2, <5>3
      <4>3. QED
        BY <4>1, <4>2
    <3>4. MasterFrame' /\ InStep'
      BY <2>3, <3>1, <3>3 DEF MasterFrame, InStep
    <3>5. Paired'
      BY <2>3, <3>3 DEF Paired, DataIn, Answers
    <3>6. QED
      BY <3>3, <3>4, <3>5 DEF Session
  <2>6. QED
    BY <2>1, <2>3, <2>4, <2>5 DEF SessionInv
<1>5. ASSUME MasterTimeout PROVE SessionInv'
  <2>1. /\ m.rf = "rx" /\ m' = Hears(m, Msg("TIMEOUT", NoFrame), "off")
        /\ UNCHANGED <<s, flash, flag, run, press>>
    BY <1>5 DEF MasterTimeout, Closed, Hears, flashVars
  <2>2. SlaveQueue' /\ SlaveFrame' /\ Landed'
    BY <1>1, <2>1 DEF SlaveQueue, SlaveFrame, Landed, Active, Tidy, OnlyDone, Resting
  <2>3. ASSUME press <= 1 PROVE Session'
    <3>1. MasterQueue /\ MasterFrame /\ Paired /\ InStep
      BY <2>3 DEF SessionInv, Session
    <3>2. /\ MasterQueue' /\ ~DataIn(m'.q)
          /\ m'.st = m.st /\ m'.blk = m.blk /\ m'.ver = m.ver /\ m'.tx = m.tx
      BY <1>2, <2>1, <3>1, MasterQueueHears
    <3>3. MasterFrame' /\ InStep' /\ Paired'
      BY <2>1, <3>1, <3>2 DEF MasterFrame, InStep, Paired, DataIn, Answers
    <3>4. QED
      BY <3>2, <3>3 DEF Session
  <2>4. QED
    BY <2>1, <2>2, <2>3 DEF SessionInv
<1>6. ASSUME SlaveTimeout PROVE SessionInv'
  <2>1. /\ s.rf = "rx" /\ s' = Hears(s, Msg("TIMEOUT", NoFrame), "off")
        /\ UNCHANGED <<m, flash, flag, run, press>>
    BY <1>6 DEF SlaveTimeout, Closed, Hears, flashVars
  <2>2. /\ SlaveQueue' /\ ~DataIn(s'.q) /\ s'.rf = "off" /\ s'.st = s.st /\ s'.blk = s.blk
        /\ s'.bank = s.bank /\ s'.got = s.got /\ s'.tx = s.tx
    BY <1>1, <1>2, <2>1, SlaveQueueHears
  <2>3. SlaveFrame' /\ Landed'
    BY <1>1, <2>1, <2>2, SlaveHeard
  <2>4. ASSUME press <= 1 PROVE Session'
    <3>1. MasterQueue /\ MasterFrame /\ Paired /\ InStep
      BY <2>4 DEF SessionInv, Session
    <3>2. MasterQueue' /\ MasterFrame'
      BY <2>1, <3>1 DEF MasterQueue, MasterFrame, Tidy, OnlyDone
    <3>3. InStep' /\ Paired'
      BY <2>1, <2>2, <3>1 DEF InStep, Paired, DataIn, Answers
    <3>4. QED
      BY <3>2, <3>3 DEF Session
  <2>5. QED
    BY <2>1, <2>2, <2>3, <2>4 DEF SessionInv
<1>7. QED
  BY <1>3, <1>4, <1>5, <1>6 DEF Radio

-----------------------------------------------------------------------------
(* The master.                                                              *)

LEMMA SlaveStays ==
  ASSUME SlaveQueue, SlaveFrame, Landed, UNCHANGED <<s, flash>>
  PROVE  SlaveQueue' /\ SlaveFrame' /\ Landed'
BY DEF SlaveQueue, SlaveFrame, Landed, Active, Tidy, OnlyDone, Resting

\* A round that only takes a message from the queue, or ends the session.
LEMMA MasterSilent ==
  ASSUME OtaInv, Session, UNCHANGED <<s, press>>, press # 0,
         m'.tx = m.tx, m'.blk = m.blk, m'.ver = m.ver, m'.rf = m.rf,
         m'.q = m.q \/ m'.q = Popped(m.q),
         m'.st \in {"OFF", "END", "ERROR"} \/ (m'.st = m.st /\ m.st # "IDLE")
  PROVE  Session'
<1>1. m.q \in Seq(MsgType) /\ Len(m.q) <= MsgQueueLen
  BY Sides
<1>2. MasterQueue /\ MasterFrame /\ Paired /\ InStep
  BY DEF Session
<1>3. /\ Tidy(m'.q) /\ (OnlyDone(m.q) => OnlyDone(m'.q)) /\ (DataIn(m'.q) => DataIn(m.q))
      /\ m.q = <<>> => m'.q = <<>>
  <2>1. CASE m'.q = m.q
    BY <1>2, <2>1 DEF MasterQueue
  <2>2. CASE m.q = <<>>
    BY <1>2, <2>2 DEF MasterQueue, Popped
  <2>3. CASE m'.q = Tail(m.q) /\ m.q # <<>>
    BY <1>1, <1>2, <2>3, TailTidy DEF MasterQueue
  <2>4. QED
    BY <2>1, <2>2, <2>3 DEF Popped
<1>4. \A i \in 1..Len(m'.q) : \E j \in 1..Len(m.q) : m'.q[i] = m.q[j]
  <2>1. CASE m'.q = m.q
    BY <2>1
  <2>2. CASE m'.q = Popped(m.q)
    <3>1. \A i \in 1..Len(Popped(m.q)) : \E j \in 1..Len(m.q) : Popped(m.q)[i] = m.q[j]
      BY <1>1, PoppedTyped
    <3>2. QED
      BY <2>2, <3>1
  <2>3. QED
    BY <2>1, <2>2
<1>5. MasterQueue'
  BY <1>2, <1>3 DEF MasterQueue
<1>6. MasterFrame' /\ InStep'
  BY <1>2 DEF MasterFrame, InStep
<1>7. Paired'
  <2>1. \A i \in 1..Len(m'.q) : m'.q[i].type = "DATA" => Answers(m'.q[i].f, m.tx)
    BY <1>2, <1>4 DEF Paired
  <2>2. QED
    BY <1>2, <1>3, <2>1 DEF Paired, Answers, DataIn
<1>8. QED
  BY <1>5, <1>6, <1>7 DEF Session

\* A request goes out while nothing of an earlier one is left, or once more.
LEMMA MasterSends ==
  ASSUME OtaInv, Session, UNCHANGED <<s, press>>, press # 0,
         m'.rf = "tx", m'.q = <<>>, m'.tx # NoFrame, m'.ver = m.ver, m'.st # "IDLE",
         m'.blk \in Nat, m.blk <= m'.blk, MasterFrame',
         m'.tx = m.tx \/ (s.rf # "tx" /\ ~DataIn(s.q))
  PROVE  Session'
<1>1. m.blk \in Nat /\ s.blk \in Nat
  BY Sides
<1>2. MasterQueue /\ MasterFrame /\ Paired /\ InStep
  BY DEF Session
<1>3. MasterQueue'
  BY EmptyTidy DEF MasterQueue
<1>4. InStep'
  <2>1. s.blk <= m'.blk
    BY <1>1, <1>2 DEF InStep
  <2>2. QED
    BY <1>2, <2>1 DEF InStep
<1>5. Paired'
  <2>1. ~DataIn(m'.q) /\ \A i \in 1..Len(m'.q) : FALSE
    BY EmptyTidy
  <2>2. CASE m'.tx = m.tx
    BY <1>2, <2>1, <2>2 DEF Paired, Answers, DataIn
  <2>3. CASE s.rf # "tx" /\ ~DataIn(s.q)
    BY <2>1, <2>3 DEF Paired, Answers, DataIn
  <2>4. QED
    BY <2>2, <2>3
<1>6. QED
  BY <1>3, <1>4, <1>5 DEF Session

LEMMA SessionPress ==
  ASSUME OtaInv, SessionInv, NEW v \in Version, MasterPress(v), press' <= 1
  PROVE  Session'
<1>1. /\ m' = [m EXCEPT !.st = "IDLE", !.blk = 0, !.retry = 0, !.ver = v, !.rf = "off"]
      /\ press' = press + 1 /\ UNCHANGED s
  BY DEF MasterPress
<1>2. press = 0 /\ press' = 1
  BY <1>1, Sides
<1>3. MasterQueue /\ MasterFrame /\ Paired /\ InStep
  BY <1>2 DEF SessionInv, Session
<1>4. m.q = <<>> /\ m.rf = "off" /\ m.tx = NoFrame
  BY <1>2, <1>3 DEF MasterQueue
<1>5. m.blk = 0
  BY <1>3, <1>4 DEF MasterFrame, NoFrame, Frame
<1>6. /\ m'.st = "IDLE" /\ m'.blk = 0 /\ m'.ver = v /\ m'.rf = "off" /\ m'.q = <<>>
      /\ m'.tx = NoFrame
  BY <1>1, <1>4, Sides DEF MasterRec
<1>7. s.blk = 0 /\ s.got \in Seq(Block \cup {Spoilt}) /\ Len(s.got) = 0 /\ s.st # "END"
  BY <1>3, <1>5, Sides DEF InStep
<1>8. MasterQueue' /\ MasterFrame'
  BY <1>2, <1>6, EmptyTidy DEF MasterQueue, MasterFrame
<1>9. InStep'
  <2>1. \A k \in 1..Len(s.got) : FALSE
    BY <1>7
  <2>2. QED
    BY <1>1, <1>6, <1>7, <2>1 DEF InStep
<1>10. Paired'
  BY <1>1, <1>3, <1>4, <1>6, EmptyTidy DEF Paired, DataIn, Answers
<1>11. QED
  BY <1>8, <1>9, <1>10 DEF Session

LEMMA SessionIdle ==
  ASSUME OtaInv, Session, MasterIdle
  PROVE  Session'
<1>1. /\ MasterQueue /\ MasterFrame /\ Paired /\ UNCHANGED <<s, press>>
      /\ m.st = "IDLE" /\ m \in MasterRec
  BY Sides DEF Session, MasterIdle
<1>2. m.q = <<>> /\ m.tx = NoFrame /\ press # 0
  BY <1>1 DEF MasterQueue
<1>3. m.blk = 0
  BY <1>1, <1>2 DEF MasterFrame, NoFrame, Frame
<1> DEFINE req == Frame("VERSION_REQ", 0, 0)
<1>4. /\ m'.tx = req /\ m'.rf = "tx" /\ m'.q = Popped(m.q) /\ m'.blk = m.blk
      /\ m'.ver = m.ver /\ m'.st \in {"FW_VER_WAIT", "OFF"}
  BY <1>1 DEF MasterIdle, FallsOff, Sending, MasterRec
<1>5. m'.q = <<>>
  BY <1>2, <1>4 DEF Popped
<1>6. req # NoFrame /\ req.kind = "VERSION_REQ"
  BY DEF Frame, NoFrame
<1>7. s.rf # "tx" /\ ~DataIn(s.q)
  BY <1>1, <1>2 DEF Paired, Answers, NoFrame, DataIn
<1>8. MasterFrame'
  BY <1>3, <1>4, <1>6 DEF MasterFrame
<1>9. QED
  BY <1>1, <1>2, <1>3, <1>4, <1>5, <1>6, <1>7, <1>8, MasterSends

\* An answer that comes is the awaited one, and nothing is left behind it.
LEMMA AnswerAwaited ==
  ASSUME OtaInv, Session, m.q # <<>>, MasterWaiting, Head(m.q).type = "DATA",
         NEW f \in ReadAs(Head(m.q).f)
  PROVE  /\ Awaited(f) /\ Tail(m.q) = <<>> /\ s.rf # "tx" /\ ~DataIn(s.q)
         /\ f.kind = Head(m.q).f.kind
<1>1. /\ m.q \in Seq(MsgType) /\ Len(m.q) <= MsgQueueLen /\ MasterQueue /\ MasterFrame
      /\ Paired
  BY Sides DEF Session
<1>2. Head(m.q) = m.q[1] /\ 1 \in 1..Len(m.q) /\ Head(m.q) \in MsgType
  BY <1>1, PoppedTyped
<1>3. DataIn(m.q) /\ Tail(m.q) = <<>>
  BY <1>1, TailTidy DEF MasterQueue
<1>4. Answers(Head(m.q).f, m.tx)
  BY <1>1, <1>2 DEF Paired
<1>5. Head(m.q).f \in FrameType
  BY <1>2 DEF MsgType
<1>6. f.kind = Head(m.q).f.kind
  BY <1>5, ReadTyped
<1>7. f.kind = "ACK" => f = Head(m.q).f
  BY <1>4, <1>6 DEF ReadAs, NumLen, LenOf, Answers
<1>8. m.tx # NoFrame
  BY <1>4 DEF Answers, NoFrame
<1>9. m.tx.kind = "DATA" => m.tx.num = m.blk
  BY <1>1, <1>8, Requests
<1>10. Awaited(f)
  <2>1. CASE m.st = "FW_VER_WAIT"
    BY <1>1, <1>4, <1>6, <2>1 DEF MasterFrame, Answers, Awaited
  <2>2. CASE m.st = "START_RSP_WAIT"
    BY <1>1, <1>4, <1>6, <2>2 DEF MasterFrame, Answers, Awaited
  <2>3. CASE m.st = "DATA_ACK_WAIT"
    BY <1>1, <1>4, <1>6, <1>7, <1>9, <2>3 DEF MasterFrame, Answers, Awaited
  <2>4. CASE m.st = "END_RSP_WAIT"
    BY <1>1, <1>4, <1>6, <2>4 DEF MasterFrame, Answers, Awaited
  <2>5. QED
    BY <2>1, <2>2, <2>3, <2>4 DEF MasterWaiting
<1>11. QED
  BY <1>1, <1>3, <1>6, <1>10 DEF Paired

LEMMA SessionWait ==
  ASSUME OtaInv, Session, MasterWait
  PROVE  Session'
<1>1. /\ UNCHANGED <<s, press>> /\ m.q # <<>> /\ MasterWaiting
      /\ m \in MasterRec /\ m.q \in Seq(MsgType) /\ Len(m.q) <= MsgQueueLen
      /\ m.blk \in Nat /\ Blocks[m.ver] \in Nat /\ Blocks[m.ver] # 0
      /\ MasterQueue /\ MasterFrame /\ Paired
  BY Sides DEF MasterWait, Session
<1>2. PICK f \in IF Head(m.q).type = "DATA" THEN ReadAs(Head(m.q).f) ELSE {NoFrame} :
        \/ MasterVersion(f) \/ MasterStartRsp(f) \/ MasterAck(f) \/ MasterEndRsp(f)
        \/ MasterRetry(Head(m.q), f)
  BY DEF MasterWait
<1>3. press # 0 /\ m.st # "IDLE" /\ m.tx # NoFrame
  BY <1>1 DEF MasterQueue, MasterWaiting, MasterFrame, NoFrame
<1>4. Popped(m.q) = Tail(m.q) /\ Tail(m.q) \in Seq(MsgType) /\ Head(m.q) \in MsgType
  BY <1>1, PoppedTyped
<1>5. Awaited(f) => Head(m.q).type = "DATA"
  BY <1>2 DEF Awaited, NoFrame
<1>6. Head(m.q).type = "DATA" =>
        Awaited(f) /\ Tail(m.q) = <<>> /\ s.rf # "tx" /\ ~DataIn(s.q)
  BY <1>1, <1>2, AnswerAwaited
<1>7. /\ MasterAccepts.q = Tail(m.q) /\ MasterAccepts.tx = m.tx /\ MasterAccepts.blk = m.blk
      /\ MasterAccepts.ver = m.ver /\ MasterAccepts.rf = m.rf /\ MasterAccepts.st = m.st
      /\ MasterAccepts \in MasterRec
  <2>1. 0 \in 0..RetryMax
    BY OtaAssumption
  <2>2. QED
    BY <1>1, <1>4, <2>1 DEF MasterAccepts, MasterRec
<1>8. CASE MasterVersion(f)
  <2>1. Awaited(f) /\ m.st = "FW_VER_WAIT"
    BY <1>8 DEF MasterVersion
  <2>2. m.blk = 0
    BY <1>1, <1>3, <2>1, Requests DEF MasterFrame
  <2>3. CASE f.num < m.ver
    <3> DEFINE req == Frame("START_REQ", Blocks[m.ver], 0)
    <3>1. m' = Sending([MasterAccepts EXCEPT !.st = "START_RSP_WAIT"], req)
      BY <1>8, <2>3 DEF MasterVersion
    <3>2. /\ m'.tx = req /\ m'.rf = "tx" /\ m'.q = Tail(m.q) /\ m'.blk = m.blk
          /\ m'.ver = m.ver /\ m'.st = "START_RSP_WAIT"
      BY <1>7, <3>1 DEF Sending, MasterRec
    <3>3. req.kind = "START_REQ" /\ req # NoFrame
      BY DEF Frame, NoFrame
    <3>4. MasterFrame'
      BY <2>2, <3>2, <3>3 DEF MasterFrame
    <3>5. QED
      BY <1>1, <1>3, <1>5, <1>6, <2>1, <3>2, <3>3, <3>4, MasterSends
  <2>4. CASE ~(f.num < m.ver)
    <3>1. m' = [MasterAccepts EXCEPT !.st = "ERROR"]
      BY <1>8, <2>4 DEF MasterVersion
    <3>2. /\ m'.tx = m.tx /\ m'.rf = m.rf /\ m'.q = Popped(m.q) /\ m'.blk = m.blk
          /\ m'.ver = m.ver /\ m'.st = "ERROR"
      BY <1>4, <1>7, <3>1 DEF MasterRec
    <3>3. QED
      BY <1>1, <1>3, <3>2, MasterSilent
  <2>5. QED
    BY <2>3, <2>4
<1>9. ASSUME Awaited(f), m.blk + 1 <= Blocks[m.ver],
             NEW c \in MasterRec, c.q = Tail(m.q), c.blk = m.blk, c.ver = m.ver,
             c.st = "DATA_ACK_WAIT", m' = NextData(c)
      PROVE  Session'
  <2> DEFINE req == Frame("DATA", m.blk + 1, m.ver)
  <2>1. /\ m'.tx = req /\ m'.rf = "tx" /\ m'.q = Tail(m.q) /\ m'.blk = m.blk + 1
        /\ m'.ver = m.ver /\ m'.st = "DATA_ACK_WAIT"
    BY <1>9 DEF NextData, Sending, MasterRec
  <2>2. req.kind = "DATA" /\ req # NoFrame
    BY DEF Frame, NoFrame
  <2>3. m'.blk \in Nat /\ m.blk <= m'.blk /\ m'.blk # 0 /\ m'.blk <= Blocks[m.ver]
    BY <1>1, <1>9, <2>1
  <2>4. MasterFrame'
    BY <2>1, <2>2, <2>3 DEF MasterFrame
  <2>5. QED
    BY <1>1, <1>3, <1>5, <1>6, <1>9, <2>1, <2>2, <2>3, <2>4, MasterSends
<1>10. CASE MasterStartRsp(f)
  <2>1. /\ Awaited(f) /\ m.st = "START_RSP_WAIT"
        /\ m' = NextData([MasterAccepts EXCEPT !.st = "DATA_ACK_WAIT"])
    BY <1>10 DEF MasterStartRsp
  <2>2. m.blk = 0 /\ m.blk + 1 <= Blocks[m.ver]
    BY <1>1, <1>3, <2>1, Requests DEF MasterFrame
  <2>3. QED
    BY <1>7, <1>9, <2>1, <2>2 DEF MasterRec
<1>11. CASE MasterAck(f)
  <2>1. Awaited(f) /\ m.st = "DATA_ACK_WAIT"
    BY <1>11 DEF MasterAck
  <2>2. m.blk <= Blocks[m.ver]
    BY <2>1 DEF OtaInv, MasterCount
  <2>3. CASE m.blk = Blocks[m.ver]
    <3> DEFINE req == Frame("END_REQ", Blocks[m.ver], 0)
    <3>1. m' = Sending([MasterAccepts EXCEPT !.st = "END_RSP_WAIT"], req)
      BY <1>11, <2>3 DEF MasterAck
    <3>2. /\ m'.tx = req /\ m'.rf = "tx" /\ m'.q = Tail(m.q) /\ m'.blk = m.blk
          /\ m'.ver = m.ver /\ m'.st = "END_RSP_WAIT"
      BY <1>7, <3>1 DEF Sending, MasterRec
    <3>3. req.kind = "END_REQ" /\ req # NoFrame
      BY DEF Frame, NoFrame
    <3>4. MasterFrame'
      BY <2>3, <3>2, <3>3 DEF MasterFrame
    <3>5. QED
      BY <1>1, <1>3, <1>5, <1>6, <2>1, <3>2, <3>3, <3>4, MasterSends
  <2>4. CASE m.blk # Blocks[m.ver]
    <3>1. m' = NextData(MasterAccepts) /\ m.blk + 1 <= Blocks[m.ver]
      BY <1>1, <1>11, <2>2, <2>4 DEF MasterAck
    <3>2. QED
      BY <1>7, <1>9, <2>1, <3>1
  <2>5. QED
    BY <2>3, <2>4
<1>12. CASE MasterEndRsp(f)
  <2>1. /\ m'.tx = m.tx /\ m'.rf = m.rf /\ m'.q = Popped(m.q) /\ m'.blk = m.blk
        /\ m'.ver = m.ver /\ m'.st = "END"
    BY <1>4, <1>7, <1>12 DEF MasterEndRsp, MasterRec
  <2>2. QED
    BY <1>1, <1>3, <2>1, MasterSilent
<1>13. CASE MasterRetry(Head(m.q), f)
  <2>1. Head(m.q).type # "DATA"
    BY <1>6, <1>13 DEF MasterRetry
  <2> DEFINE popped == [m EXCEPT !.q = Tail(@)]
  <2>2. /\ popped \in MasterRec /\ popped.q = Tail(m.q) /\ popped.tx = m.tx
        /\ popped.st = m.st /\ popped.blk = m.blk /\ popped.ver = m.ver /\ popped.rf = m.rf
    BY <1>1, <1>4 DEF MasterRec
  <2>3. m' \in IF Exhausted(m.retry) THEN {[popped EXCEPT !.st = "ERROR"]}
               ELSE IF Head(m.q).type = "TX_DONE" THEN FallsOff(popped)
               ELSE FallsOff(Sending([popped EXCEPT !.retry = Counted(@)], m.tx))
    BY <1>13, <2>1 DEF MasterRetry
  <2> HIDE DEF popped
  <2>4. CASE Exhausted(m.retry) \/ Head(m.q).type = "TX_DONE"
    <3>1. m' \in {popped, [popped EXCEPT !.st = "ERROR"], [popped EXCEPT !.st = "OFF"]}
      BY <2>3, <2>4 DEF FallsOff
    <3>2. /\ m'.tx = m.tx /\ m'.rf = m.rf /\ m'.q = Popped(m.q) /\ m'.blk = m.blk
          /\ m'.ver = m.ver /\ m'.st \in {m.st, "ERROR", "OFF"}
      BY <1>4, <2>2, <3>1 DEF MasterRec
    <3>3. QED
      BY <1>1, <1>3, <3>2, MasterSilent
  <2>5. CASE ~Exhausted(m.retry) /\ Head(m.q).type # "TX_DONE"
    <3>1. m' \in FallsOff(Sending([popped EXCEPT !.retry = Counted(@)], m.tx))
      BY <2>3, <2>5
    <3>2. /\ m'.tx = m.tx /\ m'.rf = "tx" /\ m'.q = Tail(m.q) /\ m'.blk = m.blk
          /\ m'.ver = m.ver /\ m'.st \in {m.st, "OFF"}
      BY <2>2, <3>1 DEF FallsOff, Sending, MasterRec
    <3>3. Tail(m.q) = <<>>
      BY <1>1, <2>5, TailTidy DEF MasterQueue
    <3>4. MasterFrame'
      BY <1>1, <3>2 DEF MasterFrame
    <3>5. QED
      BY <1>1, <1>3, <3>2, <3>3, <3>4, MasterSends
  <2>6. QED
    BY <2>4, <2>5
<1>14. QED
  BY <1>2, <1>8, <1>10, <1>11, <1>12, <1>13

LEMMA SessionMaster ==
  ASSUME OtaInv, SessionInv, Master
  PROVE  SessionInv'
<1>1. UNCHANGED <<s, flash>>
  BY DEF Master, MasterPress, MasterIdle, MasterWait, MasterLeave, MasterFallsOff, flashVars
<1>2. SlaveQueue' /\ SlaveFrame' /\ Landed'
  BY <1>1, SlaveStays DEF SessionInv
<1>3. SUFFICES ASSUME press' <= 1 PROVE Session'
  BY <1>2 DEF SessionInv
<1>4. ASSUME NEW v \in Version, MasterPress(v) PROVE Session'
  BY <1>3, <1>4, SessionPress
<1>5. CASE MasterIdle
  <2>1. Session
    BY <1>3, <1>5 DEF MasterIdle, SessionInv
  <2>2. QED
    BY <1>5, <2>1, SessionIdle
<1>6. CASE MasterWait
  <2>1. Session
    BY <1>3, <1>6 DEF MasterWait, SessionInv
  <2>2. QED
    BY <1>6, <2>1, SessionWait
<1>7. CASE MasterLeave \/ MasterFallsOff
  <2>1. Session /\ UNCHANGED <<s, press>> /\ m.st # "OFF"
    BY <1>3, <1>7 DEF MasterLeave, MasterFallsOff, MasterWaiting, SessionInv
  <2>2. press # 0
    BY <2>1 DEF Session, MasterQueue
  <2>3. m \in MasterRec
    BY Sides
  <2>4. /\ m'.tx = m.tx /\ m'.rf = m.rf /\ m'.blk = m.blk /\ m'.ver = m.ver
        /\ m'.st = "OFF" /\ (m'.q = m.q \/ m'.q = Popped(m.q))
    BY <1>7, <2>3 DEF MasterLeave, MasterFallsOff, MasterRec
  <2>5. QED
    BY <2>1, <2>2, <2>4, MasterSilent
<1>8. QED
  BY <1>4, <1>5, <1>6, <1>7 DEF Master

-----------------------------------------------------------------------------
(* The slave.                                                               *)

\* A slave without power, or that leaves its loop, holds nothing.
LEMMA SessionDown ==
  ASSUME OtaInv, SessionInv, s' \in {Down, [Down EXCEPT !.st = "RUNAWAY"]},
         UNCHANGED <<m, press>>
  PROVE  SessionInv'
<1>1. /\ s'.st \in {"DOWN", "RUNAWAY"} /\ s'.q = <<>> /\ s'.rf = "off" /\ s'.blk = 0
      /\ s'.got = <<>>
  <2>1. Down \in SlaveRec /\ Down.st = "DOWN" /\ Down.q = <<>> /\ Down.rf = "off"
        /\ Down.blk = 0 /\ Down.got = <<>>
    BY Sides, DownTyped
  <2>2. QED
    BY <2>1 DEF SlaveRec
<1>2. SlaveQueue' /\ SlaveFrame' /\ Landed'
  BY <1>1, EmptyTidy DEF SlaveQueue, SlaveFrame, Landed, Active, Resting
<1>3. ASSUME press <= 1 PROVE Session'
  <2>1. MasterQueue /\ MasterFrame /\ Paired /\ m.blk \in Nat
    BY <1>3, Sides DEF SessionInv, Session
  <2>2. MasterQueue' /\ MasterFrame'
    BY <2>1 DEF MasterQueue, MasterFrame, Tidy, OnlyDone
  <2>3. Paired'
    BY <1>1, <2>1, EmptyTidy DEF Paired, Answers, DataIn
  <2>4. InStep'
    BY <1>1, <2>1 DEF InStep
  <2>5. QED
    BY <2>2, <2>3, <2>4 DEF Session
<1>4. QED
  BY <1>2, <1>3 DEF SessionInv

\* A round of the slave that sends nothing.
LEMMA SlaveSilent ==
  ASSUME OtaInv, Session, UNCHANGED m,
         s'.q = s.q \/ s'.q = Popped(s.q), s'.rf # "tx",
         s'.blk \in Nat, s'.blk <= s.blk, s'.st # "END",
         s'.got = s.got \/ s'.got = <<>>, UNCHANGED press
  PROVE  Session'
<1>1. /\ s.q \in Seq(MsgType) /\ Len(s.q) <= MsgQueueLen /\ m.blk \in Nat /\ s.blk \in Nat
      /\ MasterQueue /\ MasterFrame /\ Paired /\ InStep
  BY Sides DEF Session
<1>2. MasterQueue' /\ MasterFrame'
  BY <1>1 DEF MasterQueue, MasterFrame, Tidy, OnlyDone
<1>3. \A i \in 1..Len(s'.q) : \E j \in 1..Len(s.q) : s'.q[i] = s.q[j]
  <2>1. CASE s'.q = s.q
    BY <2>1
  <2>2. CASE s'.q = Popped(s.q)
    <3>1. \A i \in 1..Len(Popped(s.q)) : \E j \in 1..Len(s.q) : Popped(s.q)[i] = s.q[j]
      BY <1>1, PoppedTyped
    <3>2. QED
      BY <2>2, <3>1
  <2>3. QED
    BY <2>1, <2>2
<1>4. DataIn(s'.q) => DataIn(s.q)
  BY <1>3 DEF DataIn
<1>5. \A i \in 1..Len(s'.q) : s'.q[i].type = "DATA" => s'.q[i].f = m.tx /\ m.tx # NoFrame
  BY <1>1, <1>3 DEF Paired
<1>6. Paired'
  BY <1>1, <1>4, <1>5 DEF Paired, Answers, DataIn
<1>7. InStep'
  <2>1. s'.blk <= m.blk
    BY <1>1 DEF InStep
  <2>2. QED
    BY <1>1, <2>1 DEF InStep
<1>8. QED
  BY <1>2, <1>6, <1>7 DEF Session

\* A round of the slave that answers the request it has found.
LEMMA SlaveAnswers ==
  ASSUME OtaInv, Session, UNCHANGED <<m, press>>, s.q # <<>>,
         Head(s.q).type = "DATA", s'.q = <<>>, Answers(s'.tx, m.tx), InStep'
  PROVE  Session'
<1>1. /\ s.q \in Seq(MsgType) /\ Len(s.q) <= MsgQueueLen
      /\ MasterQueue /\ MasterFrame /\ Paired
  BY Sides DEF Session
<1>2. MasterQueue' /\ MasterFrame'
  BY <1>1 DEF MasterQueue, MasterFrame, Tidy, OnlyDone
<1>3. DataIn(s.q)
  <2>1. Head(s.q) = s.q[1] /\ 1 \in 1..Len(s.q)
    BY <1>1, PoppedTyped
  <2>2. QED
    BY <2>1 DEF DataIn
<1>4. ~DataIn(m.q)
  BY <1>1, <1>3 DEF Paired
<1>5. Paired'
  BY <1>1, <1>4, EmptyTidy DEF Paired, Answers, DataIn
<1>6. QED
  BY <1>2, <1>5 DEF Session

LEMMA SessionSlavePress ==
  ASSUME OtaInv, SessionInv, NEW n \in 0..EraseLen, SlavePress(n)
  PROVE  SessionInv'
<1>1. /\ s.st = "OFF" /\ UNCHANGED <<m, press, run>> /\ FlashErase(Target, n)
      /\ s' = IF n < EraseLen THEN Down
              ELSE [s EXCEPT !.st = "IDLE", !.blk = 0, !.retry = 0, !.got = <<>>,
                             !.bank = Target, !.rf = "off"]
  BY DEF SlavePress
<1>2. CASE n < EraseLen
  BY <1>1, <1>2, SessionDown
<1>3. CASE ~(n < EraseLen)
  <2>1. /\ s'.st = "IDLE" /\ s'.blk = 0 /\ s'.got = <<>> /\ s'.q = s.q /\ s'.rf = "off"
        /\ s'.bank = Target
    BY <1>1, <1>3, Sides DEF SlaveRec
  <2>2. SlaveQueue' /\ SlaveFrame'
    BY <1>1, <2>1 DEF SessionInv, SlaveQueue, SlaveFrame, Resting
  <2>3. Landed'
    <3>1. n = EraseLen
      BY <1>3, OtaAssumption
    <3>2. /\ flash \in [Bank -> [1..BankLen -> Block \cup {Blank, Spoilt}]]
          /\ flag \in [Bank -> {"SET", "CLR", "FF"}] /\ Target \in Bank
      BY TypeParts DEF OtaInv, Target, Bank
    <3>3. \A k \in 1..EraseLen : flash'[Target][k] = Blank
      BY <1>1, <3>1, <3>2, EraseTyped
    <3>4. QED
      BY <2>1, <3>3 DEF Landed
  <2>4. ASSUME press <= 1 PROVE Session'
    <3>1. Session /\ s.blk \in Nat
      BY <2>4, Sides DEF SessionInv
    <3>2. s'.blk \in Nat /\ s'.blk <= s.blk
      BY <2>1, <3>1
    <3>3. QED
      BY <1>1, <2>1, <3>1, <3>2, SlaveSilent
  <2>5. QED
    BY <1>1, <2>2, <2>3, <2>4 DEF SessionInv
<1>4. QED
  BY <1>2, <1>3

LEMMA SessionSlaveIdle ==
  ASSUME OtaInv, SessionInv, SlaveIdle, UNCHANGED <<m, run, press>>
  PROVE  SessionInv'
<1>1. /\ s \in SlaveRec /\ s.q \in Seq(MsgType) /\ Len(s.q) <= MsgQueueLen /\ s.blk \in Nat
      /\ SlaveQueue /\ SlaveFrame /\ Landed
  BY Sides DEF SessionInv
<1>2. /\ s.st = "IDLE" /\ s'.st = "FW_VERSION_READY" /\ s'.q = Popped(s.q) /\ s'.rf = "rx"
      /\ s'.blk = s.blk /\ s'.got = s.got /\ s'.bank = s.bank /\ UNCHANGED <<flash, flag>>
  BY <1>1 DEF SlaveIdle, Listening, SlaveRec
<1>3. s'.q = <<>>
  <2>1. Len(s.q) <= 1
    BY <1>1, <1>2 DEF SlaveQueue, Resting
  <2>2. QED
    BY <1>1, <1>2, <2>1 DEF Popped
<1>4. SlaveQueue' /\ SlaveFrame' /\ Landed'
  BY <1>1, <1>2, <1>3, EmptyTidy DEF SlaveQueue, SlaveFrame, Landed, Active, Resting
<1>5. ASSUME press <= 1 PROVE Session'
  <2>1. Session
    BY <1>5 DEF SessionInv
  <2>2. s'.blk \in Nat /\ s'.blk <= s.blk
    BY <1>1, <1>2
  <2>3. QED
    BY <1>2, <2>1, <2>2, SlaveSilent
<1>6. QED
  BY <1>4, <1>5 DEF SessionInv

LEMMA SlaveQueueEmpty ==
  ASSUME s'.q = <<>>, ~Resting'
  PROVE  SlaveQueue'
BY EmptyTidy DEF SlaveQueue

\* A round that pops a message and then sends, listens, or does neither.
LEMMA SlaveQueuePops ==
  ASSUME OtaInv, SlaveQueue, s.q # <<>>, ~Resting, s'.q = Tail(s.q),
         \/ /\ s'.rf \in {"tx", "rx"} /\ Head(s.q).type # "TX_DONE"
            /\ s'.st \notin {"OFF", "ERROR", "IDLE", "DOWN"}
         \/ s'.rf = s.rf
  PROVE  SlaveQueue'
<1>1. s.q \in Seq(MsgType)
  BY Sides
<1>2. /\ Tidy(s'.q) /\ Len(s'.q) = Len(s.q) - 1 /\ (OnlyDone(s.q) => OnlyDone(s'.q))
      /\ Head(s.q).type # "TX_DONE" => s'.q = <<>>
  BY <1>1, TailTidy DEF SlaveQueue
<1>3. Len(s.q) \in Nat /\ Len(s'.q) \in Nat
  BY <1>1
<1>4. s.rf # "tx"
  BY DEF SlaveQueue
<1>5. CASE s'.rf = s.rf
  BY <1>2, <1>3, <1>4, <1>5 DEF SlaveQueue, Resting
<1>6. CASE s'.rf \in {"tx", "rx"} /\ Head(s.q).type # "TX_DONE"
           /\ s'.st \notin {"OFF", "ERROR", "IDLE", "DOWN"}
  <2>1. s'.q = <<>> /\ ~Resting'
    BY <1>2, <1>6 DEF Resting
  <2>2. QED
    BY <2>1, SlaveQueueEmpty
<1>7. QED
  BY <1>5, <1>6

\* The request a round of the slave has found: the last message of the queue and,
\* in the first session, the one the master waits with.
LEMMA SlaveFound ==
  ASSUME OtaInv, SlaveQueue, s.q # <<>>,
         NEW f \in IF Head(s.q).type = "DATA" THEN ReadAs(Head(s.q).f) ELSE {NoFrame},
         f.kind # "NONE"
  PROVE  /\ Head(s.q).type = "DATA" /\ Tail(s.q) = <<>>
         /\ Session => f = m.tx /\ m.tx # NoFrame
<1>1. s.q \in Seq(MsgType) /\ Len(s.q) <= MsgQueueLen
  BY Sides
<1>2. Head(s.q).type = "DATA"
  BY DEF NoFrame
<1>3. Tail(s.q) = <<>>
  BY <1>1, <1>2, TailTidy DEF SlaveQueue
<1>4. ASSUME Session PROVE f = m.tx /\ m.tx # NoFrame
  <2>1. Head(s.q) = s.q[1] /\ 1 \in 1..Len(s.q)
    BY <1>1, PoppedTyped
  <2>2. Head(s.q).f = m.tx /\ m.tx # NoFrame
    BY <1>2, <1>4, <2>1 DEF Session, Paired
  <2>3. ReadAs(m.tx) = {m.tx}
    BY <1>4, <2>2, Requests DEF Session
  <2>4. QED
    BY <1>2, <2>2, <2>3
<1>5. QED
  BY <1>2, <1>3, <1>4

\* A round that looks at a message and sends nothing.
LEMMA SlaveStill ==
  ASSUME OtaInv, SessionInv, UNCHANGED <<m, press, flash>>, s.q # <<>>,
         s.st \in {"FW_VERSION_READY", "START_READY", "DATA_READY", "END_READY"},
         s'.q = Tail(s.q), s'.st \in {s.st, "ERROR"}, s'.tx = s.tx,
         s'.blk = s.blk, s'.got = s.got, s'.bank = s.bank,
         \/ s'.rf = "rx" /\ Head(s.q).type # "TX_DONE" /\ s'.st = s.st
         \/ s'.rf = s.rf
  PROVE  SessionInv'
<1>1. /\ s.q \in Seq(MsgType) /\ Len(s.q) <= MsgQueueLen /\ s.blk \in Nat
      /\ SlaveQueue /\ SlaveFrame /\ Landed
  BY Sides DEF SessionInv
<1>2. s.rf # "tx" /\ ~Resting /\ Active /\ s'.rf # "tx"
  BY <1>1 DEF SlaveQueue, Resting, Active
<1>3. SlaveQueue'
  BY <1>1, <1>2, SlaveQueuePops
<1>4. SlaveFrame' /\ Landed'
  BY <1>1, <1>2 DEF SlaveFrame, Landed, Active
<1>5. ASSUME press <= 1 PROVE Session'
  <2>1. Session /\ s'.st # "END"
    BY <1>5 DEF SessionInv
  <2>2. s'.q = Popped(s.q)
    BY DEF Popped
  <2>3. s'.blk \in Nat /\ s'.blk <= s.blk
    BY <1>1
  <2>4. QED
    BY <1>2, <2>1, <2>2, <2>3, SlaveSilent
<1>6. QED
  BY <1>3, <1>4, <1>5 DEF SessionInv

\* A round that answers a request and writes nothing.
LEMMA SlaveReplies ==
  ASSUME OtaInv, SessionInv, UNCHANGED <<m, press, flash>>, s.q # <<>>,
         s.st \in {"FW_VERSION_READY", "START_READY", "DATA_READY", "END_READY"},
         NEW f \in IF Head(s.q).type = "DATA" THEN ReadAs(Head(s.q).f) ELSE {NoFrame},
         f.kind # "NONE", s'.q = Tail(s.q), s'.rf = "tx",
         s'.st \in {"START_READY", "DATA_READY", "END_READY", "END"},
         s'.blk = s.blk, s'.got = s.got, s'.bank = s.bank, SlaveFrame',
         Session /\ f = m.tx /\ m.tx # NoFrame =>
           /\ Answers(s'.tx, m.tx)
           /\ s'.st = "END" => Len(s.got) = Blocks[m.ver]
  PROVE  SessionInv'
<1>1. SlaveQueue /\ Landed
  BY DEF SessionInv
<1>2. /\ Head(s.q).type = "DATA" /\ Tail(s.q) = <<>>
      /\ Session => f = m.tx /\ m.tx # NoFrame
  BY <1>1, SlaveFound
<1>3. SlaveQueue'
  <2>1. s'.q = <<>> /\ ~Resting'
    BY <1>2 DEF Resting
  <2>2. QED
    BY <2>1, SlaveQueueEmpty
<1>4. Landed'
  BY <1>1 DEF Landed, Active
<1>5. ASSUME press <= 1 PROVE Session'
  <2>1. Session
    BY <1>5 DEF SessionInv
  <2>2. Answers(s'.tx, m.tx) /\ (s'.st = "END" => Len(s.got) = Blocks[m.ver])
    BY <1>2, <2>1
  <2>3. InStep'
    BY <2>1, <2>2 DEF Session, InStep
  <2>4. QED
    BY <1>2, <2>1, <2>2, <2>3, SlaveAnswers
<1>6. QED
  BY <1>3, <1>4, <1>5 DEF SessionInv

\* A message that is no frame, or a frame that does not fit the state.
LEMMA SessionListen ==
  ASSUME OtaInv, SessionInv, UNCHANGED <<m, press>>, s.q # <<>>,
         s.st \in {"FW_VERSION_READY", "START_READY", "DATA_READY", "END_READY"},
         NEW f, SlaveListen(Head(s.q), f)
  PROVE  SessionInv'
<1>1. s \in SlaveRec
  BY Sides
<1> DEFINE popped == [s EXCEPT !.q = Tail(@)]
<1>2. /\ s' = IF Exhausted(s.retry) THEN [popped EXCEPT !.st = "ERROR"]
              ELSE IF Head(s.q).type = "TX_DONE" THEN popped
              ELSE Listening([popped EXCEPT !.retry = Counted(@)])
      /\ UNCHANGED flash
  BY DEF SlaveListen
<1>3. /\ popped.q = Tail(s.q) /\ popped.st = s.st /\ popped.tx = s.tx /\ popped.rf = s.rf
      /\ popped.blk = s.blk /\ popped.got = s.got /\ popped.bank = s.bank
      /\ DOMAIN popped = DOMAIN s
  BY <1>1 DEF SlaveRec
<1>4. DOMAIN s = {"st", "blk", "retry", "max", "bank", "got", "tx", "q", "rf"}
  BY <1>1 DEF SlaveRec
<1> HIDE DEF popped
<1>5. CASE Exhausted(s.retry)
  <2>1. /\ s'.q = Tail(s.q) /\ s'.st = "ERROR" /\ s'.tx = s.tx /\ s'.rf = s.rf
        /\ s'.blk = s.blk /\ s'.got = s.got /\ s'.bank = s.bank
    BY <1>2, <1>3, <1>4, <1>5
  <2>2. QED
    BY <1>2, <2>1, SlaveStill
<1>6. CASE ~Exhausted(s.retry) /\ Head(s.q).type = "TX_DONE"
  <2>1. /\ s'.q = Tail(s.q) /\ s'.st = s.st /\ s'.tx = s.tx /\ s'.rf = s.rf
        /\ s'.blk = s.blk /\ s'.got = s.got /\ s'.bank = s.bank
    BY <1>2, <1>3, <1>6
  <2>2. QED
    BY <1>2, <2>1, SlaveStill
<1>7. CASE ~Exhausted(s.retry) /\ Head(s.q).type # "TX_DONE"
  <2>1. /\ s'.q = Tail(s.q) /\ s'.st = s.st /\ s'.tx = s.tx /\ s'.rf = "rx"
        /\ s'.blk = s.blk /\ s'.got = s.got /\ s'.bank = s.bank
    BY <1>2, <1>3, <1>4, <1>7 DEF Listening
  <2>2. QED
    BY <1>2, <1>7, <2>1, SlaveStill
<1>8. QED
  BY <1>5, <1>6, <1>7

\* VERSION_REQ, START_REQ, END_REQ and the requests that are repeated.
LEMMA SessionTalk ==
  ASSUME OtaInv, SessionInv, UNCHANGED <<m, press>>, s.q # <<>>,
         s.st \in {"FW_VERSION_READY", "START_READY", "DATA_READY", "END_READY"},
         NEW f \in IF Head(s.q).type = "DATA" THEN ReadAs(Head(s.q).f) ELSE {NoFrame},
         SlaveVersion(f) \/ SlaveAgain(f) \/ SlaveStartReq(f) \/ SlaveEndReq(f)
  PROVE  SessionInv'
<1>1. /\ s \in SlaveRec /\ s.q \in Seq(MsgType) /\ s.blk \in Nat /\ m.blk \in Nat
      /\ s.tx \in FrameType /\ s.got \in Seq(Block \cup {Spoilt}) /\ Len(s.got) = s.blk
      /\ SlaveFrame /\ SlaveQueue
  BY Sides DEF SessionInv
<1>2. UNCHANGED flash
  BY DEF SlaveVersion, SlaveAgain, SlaveStartReq, SlaveEndReq
<1>3. /\ SlaveAccepts.q = Tail(s.q) /\ SlaveAccepts.st = s.st /\ SlaveAccepts.tx = s.tx
      /\ SlaveAccepts.rf = s.rf /\ SlaveAccepts.blk = s.blk /\ SlaveAccepts.got = s.got
      /\ SlaveAccepts.bank = s.bank
      /\ DOMAIN SlaveAccepts = {"st", "blk", "retry", "max", "bank", "got", "tx", "q", "rf"}
  BY <1>1 DEF SlaveAccepts, SlaveRec
<1>4. CASE SlaveVersion(f)
  <2> DEFINE rsp == Frame("VERSION_RSP", FwVersion, 0)
  <2>1. /\ s.st = "FW_VERSION_READY" /\ f.kind = "VERSION_REQ"
        /\ s' = Sending([SlaveAccepts EXCEPT !.st = "START_READY"], rsp)
    BY <1>4 DEF SlaveVersion
  <2>2. rsp.kind = "VERSION_RSP"
    BY DEF Frame
  <2> HIDE DEF rsp
  <2>3. /\ s'.q = Tail(s.q) /\ s'.st = "START_READY" /\ s'.tx = rsp /\ s'.rf = "tx"
        /\ s'.blk = s.blk /\ s'.got = s.got /\ s'.bank = s.bank
    BY <1>3, <2>1 DEF Sending
  <2>4. SlaveFrame'
    BY <1>1, <2>1, <2>2, <2>3 DEF SlaveFrame
  <2>5. f = m.tx => Answers(s'.tx, m.tx)
    BY <2>1, <2>2, <2>3 DEF Answers
  <2>6. f.kind # "NONE" /\ s'.st # "END"
    BY <2>1, <2>3
  <2>7. QED
    BY <1>2, <2>3, <2>4, <2>5, <2>6, SlaveReplies
<1>5. CASE SlaveStartReq(f)
  <2> DEFINE rsp == Frame("START_RSP", 0, 0)
  <2>1. /\ s.st = "START_READY" /\ f.kind = "START_REQ"
        /\ s' = Sending([SlaveAccepts EXCEPT !.st = "DATA_READY", !.max = f.num], rsp)
    BY <1>5 DEF SlaveStartReq
  <2>2. rsp.kind = "START_RSP"
    BY DEF Frame
  <2> HIDE DEF rsp
  <2>3. /\ s'.q = Tail(s.q) /\ s'.st = "DATA_READY" /\ s'.tx = rsp /\ s'.rf = "tx"
        /\ s'.blk = s.blk /\ s'.got = s.got /\ s'.bank = s.bank
    BY <1>3, <2>1 DEF Sending
  <2>4. SlaveFrame'
    BY <1>1, <2>1, <2>2, <2>3 DEF SlaveFrame
  <2>5. f = m.tx => Answers(s'.tx, m.tx)
    BY <2>1, <2>2, <2>3 DEF Answers
  <2>6. f.kind # "NONE" /\ s'.st # "END"
    BY <2>1, <2>3
  <2>7. QED
    BY <1>2, <2>3, <2>4, <2>5, <2>6, SlaveReplies
<1>6. CASE SlaveAgain(f)
  <2> DEFINE rsp == [s.tx EXCEPT !.len = f.len]
  <2>1. Repeated(f) /\ s' = Sending(SlaveAccepts, rsp)
    BY <1>6 DEF SlaveAgain
  <2>2. rsp.kind = s.tx.kind /\ rsp.num = s.tx.num /\ rsp.len = f.len
    BY <1>1 DEF FrameType
  <2> HIDE DEF rsp
  <2>3. /\ s'.q = Tail(s.q) /\ s'.st = s.st /\ s'.tx = rsp /\ s'.rf = "tx"
        /\ s'.blk = s.blk /\ s'.got = s.got /\ s'.bank = s.bank
    BY <1>3, <2>1 DEF Sending
  <2>4. SlaveFrame'
    BY <1>1, <2>1, <2>2, <2>3 DEF SlaveFrame
  <2>5. f.kind # "NONE" /\ s.st # "END" /\ s.st \in {"START_READY", "DATA_READY", "END_READY"}
    BY <2>1 DEF Repeated
  <2>6. ASSUME Session, f = m.tx, m.tx # NoFrame PROVE Answers(s'.tx, m.tx)
    <3>1. /\ f.kind \in {"VERSION_REQ", "START_REQ"} => m.blk = 0
          /\ f.kind = "DATA" => f.num = m.blk /\ m.blk # 0 /\ f.len = 51
      BY <2>6, Requests DEF Session
    <3>2. s.blk <= m.blk
      BY <2>6 DEF Session, InStep
    <3>3. CASE s.st = "START_READY" /\ f.kind = "VERSION_REQ"
      BY <1>1, <2>2, <2>3, <2>6, <3>3 DEF SlaveFrame, Answers
    <3>4. CASE s.st = "DATA_READY" /\ f.kind = "START_REQ"
      <4>1. s.blk = 0
        BY <1>1, <3>1, <3>2, <3>4
      <4>2. QED
        BY <1>1, <2>2, <2>3, <2>6, <3>4, <4>1 DEF SlaveFrame, Answers
    <3>5. CASE s.st \in {"DATA_READY", "END_READY"} /\ f.kind = "DATA" /\ f.num = s.blk
      <4>1. s.blk # 0 /\ f.len >= 3
        BY <3>1, <3>5
      <4>2. QED
        BY <1>1, <2>2, <2>3, <2>6, <3>5, <4>1 DEF SlaveFrame, Answers
    <3>6. QED
      BY <2>1, <3>3, <3>4, <3>5 DEF Repeated
  <2>7. QED
    BY <1>2, <2>3, <2>4, <2>5, <2>6, SlaveReplies
<1>7. CASE SlaveEndReq(f)
  <2> DEFINE rsp == Frame("END_RSP", 0, 0)
  <2>1. s.st = "END_READY" /\ f.kind = "END_REQ"
    BY <1>7 DEF SlaveEndReq
  <2>2. CASE ~SizeMatch(f)
    <3>1. s' = [SlaveAccepts EXCEPT !.st = "ERROR"]
      BY <1>7, <2>2 DEF SlaveEndReq
    <3>2. /\ s'.q = Tail(s.q) /\ s'.st = "ERROR" /\ s'.tx = s.tx /\ s'.rf = s.rf
          /\ s'.blk = s.blk /\ s'.got = s.got /\ s'.bank = s.bank
      BY <1>3, <3>1
    <3>3. QED
      BY <1>2, <3>2, SlaveStill
  <2>3. CASE SizeMatch(f)
    <3>1. s' = Sending([SlaveAccepts EXCEPT !.st = "END"], rsp)
      BY <1>7, <2>3 DEF SlaveEndReq
    <3>2. rsp.kind = "END_RSP"
      BY DEF Frame
    <3> HIDE DEF rsp
    <3>3. /\ s'.q = Tail(s.q) /\ s'.st = "END" /\ s'.tx = rsp /\ s'.rf = "tx"
          /\ s'.blk = s.blk /\ s'.got = s.got /\ s'.bank = s.bank
      BY <1>3, <3>1 DEF Sending
    <3>4. SlaveFrame'
      BY <3>3 DEF SlaveFrame
    <3>5. f = m.tx => Answers(s'.tx, m.tx)
      BY <2>1, <3>2, <3>3 DEF Answers
    <3>6. ASSUME Session, f = m.tx, m.tx # NoFrame PROVE Len(s.got) = Blocks[m.ver]
      <4>1. f.num = Blocks[m.ver] /\ Blocks[m.ver] # 0
        BY <2>1, <3>6, Requests, Sides DEF Session
      <4>2. QED
        BY <2>3, <4>1 DEF SizeMatch
    <3>7. f.kind # "NONE"
      BY <2>1
    <3>8. QED
      BY <1>2, <3>3, <3>4, <3>5, <3>6, <3>7, SlaveReplies
  <2>4. QED
    BY <2>2, <2>3
<1>8. QED
  BY <1>4, <1>5, <1>6, <1>7

\* The next block is that of the master's image, and it is written where the flash
\* was erased.
LEMMA SessionBlock ==
  ASSUME OtaInv, OtaInv', SessionInv, UNCHANGED <<m, press>>, s.q # <<>>,
         NEW f \in IF Head(s.q).type = "DATA" THEN ReadAs(Head(s.q).f) ELSE {NoFrame},
         SlaveBlock(f)
  PROVE  SessionInv'
<1>1. /\ s \in SlaveRec /\ s.q \in Seq(MsgType) /\ s.blk \in Nat /\ m.blk \in Nat
      /\ s.got \in Seq(Block \cup {Spoilt}) /\ Len(s.got) = s.blk
      /\ SlaveFrame /\ SlaveQueue /\ Landed
  BY Sides DEF SessionInv
<1>2. s.st = "DATA_READY" /\ f.kind = "DATA" /\ f.num = s.blk + 1 /\ Active
  BY DEF SlaveBlock, NextBlock, Active
<1> DEFINE data == IF Complete(f) THEN <<f.ver, f.num>> ELSE Spoilt
           k == Len(s.got) + 1
           ack == Frame("ACK", f.num, 0)
<1>3. \/ s' \in {Down, [Down EXCEPT !.st = "RUNAWAY"]}
      \/ /\ flash' = [flash EXCEPT ![s.bank][k] = Written(@, data)]
         /\ s' = Sending([SlaveAccepts EXCEPT
                            !.blk = f.num, !.got = Append(@, data),
                            !.st = IF f.num = s.max THEN "END_READY" ELSE @], ack)
  BY DEF SlaveBlock, TakeBlock, WriteBlock, RunAway
<1>4. ack.kind = "ACK" /\ ack.num = f.num /\ ack.len = 3
  BY DEF Frame, LenOf
<1>5. k = f.num /\ k # 0 /\ k \in Nat
  BY <1>1, <1>2
<1> HIDE DEF data, ack, k
<1>6. CASE s' \in {Down, [Down EXCEPT !.st = "RUNAWAY"]}
  BY <1>6, SessionDown
<1>7. CASE s' \notin {Down, [Down EXCEPT !.st = "RUNAWAY"]}
  <2>1. /\ SlaveAccepts.q = Tail(s.q) /\ SlaveAccepts.st = s.st
        /\ SlaveAccepts.got = s.got /\ SlaveAccepts.bank = s.bank
        /\ DOMAIN SlaveAccepts = {"st", "blk", "retry", "max", "bank", "got", "tx", "q", "rf"}
    BY <1>1 DEF SlaveAccepts, SlaveRec
  <2>2. /\ s'.q = Tail(s.q) /\ s'.st \in {"DATA_READY", "END_READY"} /\ s'.tx = ack
        /\ s'.rf = "tx" /\ s'.blk = f.num /\ s'.got = Append(s.got, data)
        /\ s'.bank = s.bank
    <3> DEFINE got == Append(s.got, data)
               st == IF f.num = s.max THEN "END_READY" ELSE s.st
    <3>1. s' = Sending([SlaveAccepts EXCEPT !.blk = f.num, !.got = got, !.st = st], ack)
      BY <1>3, <1>7, <2>1
    <3>2. st \in {"DATA_READY", "END_READY"}
      BY <1>2
    <3> HIDE DEF got, st
    <3>3. /\ s'.q = Tail(s.q) /\ s'.st = st /\ s'.tx = ack /\ s'.rf = "tx"
          /\ s'.blk = f.num /\ s'.got = got /\ s'.bank = s.bank
      BY <2>1, <3>1 DEF Sending
    <3>4. QED
      BY <3>2, <3>3 DEF got
  <2>3. /\ Head(s.q).type = "DATA" /\ Tail(s.q) = <<>>
        /\ Session => f = m.tx /\ m.tx # NoFrame
    BY <1>1, <1>2, SlaveFound
  <2>4. SlaveQueue'
    <3>1. s'.q = <<>> /\ ~Resting'
      BY <2>2, <2>3 DEF Resting
    <3>2. QED
      BY <3>1, SlaveQueueEmpty
  <2>5. SlaveFrame'
    BY <1>4, <1>5, <2>2 DEF SlaveFrame
  <2>6. data \in Block \cup {Spoilt}
    <3>1. s'.got \in Seq(Block \cup {Spoilt}) /\ Len(s'.got) = s'.blk
      BY DEF OtaInv, TypeOK, SlaveCount
    <3>2. Len(s'.got) = k /\ k \in 1..Len(s'.got)
      BY <1>5, <2>2, <3>1
    <3>3. s'.got[k] = data
      BY <1>1, <2>2 DEF k
    <3>4. QED
      BY <3>1, <3>2, <3>3
  <2>7. /\ Len(s'.got) = k /\ s'.got[k] = data
        /\ \A j \in 1..Len(s'.got) : j = k \/ (j \in 1..Len(s.got) /\ s'.got[j] = s.got[j])
    <3>1. \A j \in 1..k : j = k \/ j \in 1..Len(s.got)
      BY <1>1 DEF k
    <3>2. /\ Len(Append(s.got, data)) = k /\ Append(s.got, data)[k] = data
          /\ \A j \in 1..Len(s.got) : Append(s.got, data)[j] = s.got[j]
      BY <1>1, <2>6 DEF k
    <3>3. QED
      BY <2>2, <3>1, <3>2
  <2>8. Landed'
    <3>1. /\ flash \in [Bank -> [1..BankLen -> Block \cup {Blank, Spoilt}]] /\ s.bank \in Bank
          /\ \A j \in 1..EraseLen : j \in 1..BankLen
          /\ EraseLen \in Nat
      BY TypeParts, OtaAssumption DEF OtaInv, SlaveRec
    <3>2. flash' = [flash EXCEPT ![s.bank][k] = Written(@, data)]
      BY <1>3, <1>7
    <3>3. \A j \in 1..EraseLen : flash'[s.bank][j] =
            IF j = k THEN Written(flash[s.bank][k], data) ELSE flash[s.bank][j]
      BY <3>1, <3>2
    <3>4. \A j \in 1..EraseLen : j > Len(s.got) => flash[s.bank][j] = Blank
      BY <1>1, <1>2 DEF Landed
    <3>5. \A j \in 1..Len(s.got) : j <= EraseLen => flash[s.bank][j] = s.got[j]
      BY <1>1, <1>2 DEF Landed
    <3>6. \A j \in 1..EraseLen : j = k => flash'[s.bank][j] = data
      BY <1>1, <1>5, <3>3, <3>4 DEF Written, k
    <3>7. \A j \in 1..Len(s'.got) : j <= EraseLen => flash'[s.bank][j] = s'.got[j]
      <4>1. SUFFICES ASSUME NEW j \in 1..Len(s'.got), j <= EraseLen
                     PROVE  flash'[s.bank][j] = s'.got[j]
        OBVIOUS
      <4>2. j \in 1..EraseLen
        BY <1>5, <2>7, <3>1, <4>1
      <4>3. CASE j = k
        BY <2>7, <3>6, <4>2, <4>3
      <4>4. CASE j # k
        BY <2>7, <3>3, <3>5, <4>1, <4>2, <4>4
      <4>5. QED
        BY <4>3, <4>4
    <3>8. \A j \in 1..EraseLen : j > Len(s'.got) => flash'[s.bank][j] = Blank
      <4>1. \A j \in 1..EraseLen : j > k => j > Len(s.got) /\ j # k
        BY <1>1, <3>1 DEF k
      <4>2. QED
        BY <2>7, <3>3, <3>4, <4>1
    <3>9. QED
      BY <2>2, <3>7, <3>8 DEF Landed
  <2>9. ASSUME press <= 1 PROVE Session'
    <3>1. Session
      BY <2>9 DEF SessionInv
    <3>2. f = m.tx /\ m.tx # NoFrame
      BY <2>3, <3>1
    <3>3. f.num = m.blk /\ f.ver = m.ver /\ Complete(f)
      BY <1>2, <3>1, <3>2, Requests DEF Session
    <3>4. data = <<m.ver, k>>
      BY <1>5, <3>3 DEF data
    <3>5. InStep'
      <4>1. s'.blk <= m.blk /\ s'.st # "END"
        BY <1>1, <2>2, <3>3
      <4>2. \A j \in 1..Len(s'.got) : s'.got[j] = <<m.ver, j>>
        BY <2>7, <3>1, <3>4 DEF Session, InStep
      <4>3. QED
        BY <4>1, <4>2 DEF InStep
    <3>6. Answers(s'.tx, m.tx)
      BY <1>2, <1>4, <2>2, <3>2 DEF Answers
    <3>7. QED
      BY <2>2, <2>3, <3>1, <3>5, <3>6, SlaveAnswers
  <2>10. QED
    BY <2>4, <2>5, <2>8, <2>9 DEF SessionInv
<1>8. QED
  BY <1>6, <1>7

LEMMA SessionSlaveWait ==
  ASSUME OtaInv, OtaInv', SessionInv, SlaveWait, UNCHANGED <<m, press>>
  PROVE  SessionInv'
<1>1. /\ s.st \in {"FW_VERSION_READY", "START_READY", "DATA_READY", "END_READY"}
      /\ s.q # <<>>
  BY DEF SlaveWait
<1>2. PICK f \in IF Head(s.q).type = "DATA" THEN ReadAs(Head(s.q).f) ELSE {NoFrame} :
        SlaveVersion(f) \/ SlaveAgain(f) \/ SlaveStartReq(f) \/ SlaveBlock(f)
        \/ SlaveEndReq(f) \/ SlaveListen(Head(s.q), f)
  BY DEF SlaveWait
<1>3. CASE SlaveBlock(f)
  BY <1>1, <1>2, <1>3, SessionBlock
<1>4. CASE SlaveListen(Head(s.q), f)
  BY <1>1, <1>4, SessionListen
<1>5. CASE SlaveVersion(f) \/ SlaveAgain(f) \/ SlaveStartReq(f) \/ SlaveEndReq(f)
  BY <1>1, <1>2, <1>5, SessionTalk
<1>6. QED
  BY <1>2, <1>3, <1>4, <1>5

\* A queue whose head, if there is one, is dropped.
LEMMA SlaveQueueDrops ==
  ASSUME OtaInv, SlaveQueue, s'.q = Popped(s.q), s'.rf = s.rf, s.rf # "tx",
         Resting \/ s'.st = "ERROR"
  PROVE  SlaveQueue'
<1>1. s.q \in Seq(MsgType) /\ Len(s.q) \in Nat
  BY Sides
<1>2. CASE s.q = <<>>
  <2>1. s'.q = <<>>
    BY <1>2 DEF Popped
  <2>2. QED
    BY <2>1, EmptyTidy DEF SlaveQueue
<1>3. CASE s.q # <<>>
  <2>1. s'.q = Tail(s.q)
    BY <1>3 DEF Popped
  <2>2. /\ Tidy(s'.q) /\ Len(s'.q) = Len(s.q) - 1 /\ (OnlyDone(s.q) => OnlyDone(s'.q))
    BY <1>1, <1>3, <2>1, TailTidy DEF SlaveQueue
  <2>3. QED
    BY <1>1, <2>2 DEF SlaveQueue
<1>4. QED
  BY <1>2, <1>3

LEMMA SessionSlaveEnd ==
  ASSUME OtaInv, SessionInv, NEW both \in BOOLEAN, SlaveEnd(both), UNCHANGED <<m, press>>
  PROVE  SessionInv'
<1>1. s \in SlaveRec /\ s.blk \in Nat /\ SlaveQueue /\ SlaveFrame /\ Landed
  BY Sides DEF SessionInv
<1>2. s.st = "END" /\ s.rf # "tx" /\ UNCHANGED flash
  BY DEF SlaveEnd
<1>3. CASE CrcMatch
  BY <1>3, SessionDown DEF SlaveEnd
<1>4. CASE ~CrcMatch
  <2>1. s' = [s EXCEPT !.st = "ERROR", !.q = Popped(@)]
    BY <1>4 DEF SlaveEnd
  <2>2. /\ s'.q = Popped(s.q) /\ s'.st = "ERROR" /\ s'.rf = s.rf
        /\ s'.blk = s.blk /\ s'.got = s.got /\ s'.bank = s.bank
    BY <1>1, <2>1 DEF SlaveRec
  <2>3. SlaveQueue'
    BY <1>1, <1>2, <2>2, SlaveQueueDrops
  <2>4. SlaveFrame' /\ Landed'
    BY <1>1, <1>2, <2>2 DEF SlaveFrame, Landed, Active
  <2>5. ASSUME press <= 1 PROVE Session'
    <3>1. Session /\ s'.blk \in Nat /\ s'.blk <= s.blk /\ s'.rf # "tx" /\ s'.st # "END"
      BY <1>1, <1>2, <2>2, <2>5 DEF SessionInv
    <3>2. QED
      BY <2>2, <3>1, SlaveSilent
  <2>6. QED
    BY <2>3, <2>4, <2>5 DEF SessionInv
<1>5. QED
  BY <1>3, <1>4

LEMMA SessionSlaveError ==
  ASSUME OtaInv, SessionInv, NEW n \in 0..EraseLen, SlaveError(n), UNCHANGED <<m, press>>
  PROVE  SessionInv'
<1>1. s \in SlaveRec /\ s.blk \in Nat /\ SlaveQueue
  BY Sides DEF SessionInv
<1>2. s.st = "ERROR"
  BY DEF SlaveError
<1>3. CASE n < EraseLen
  BY <1>3, SessionDown DEF SlaveError
<1>4. CASE ~(n < EraseLen)
  <2>1. s' = [s EXCEPT !.st = "OFF", !.q = Popped(@)]
    BY <1>4 DEF SlaveError
  <2>2. /\ s'.q = Popped(s.q) /\ s'.st = "OFF" /\ s'.rf = s.rf
        /\ s'.blk = s.blk /\ s'.got = s.got
    BY <1>1, <2>1 DEF SlaveRec
  <2>3. Resting /\ s.rf # "tx"
    BY <1>1, <1>2 DEF SlaveQueue, Resting
  <2>4. SlaveQueue'
    BY <1>1, <2>2, <2>3, SlaveQueueDrops
  <2>5. SlaveFrame' /\ Landed'
    BY <2>2 DEF SlaveFrame, Landed, Active
  <2>6. ASSUME press <= 1 PROVE Session'
    <3>1. Session /\ s'.blk \in Nat /\ s'.blk <= s.blk /\ s'.rf # "tx" /\ s'.st # "END"
      BY <1>1, <2>2, <2>3, <2>6 DEF SessionInv
    <3>2. QED
      BY <2>2, <3>1, SlaveSilent
  <2>7. QED
    BY <2>4, <2>5, <2>6 DEF SessionInv
<1>5. QED
  BY <1>3, <1>4

LEMMA SessionBoot ==
  ASSUME OtaInv, SessionInv, Boot
  PROVE  SessionInv'
<1>1. s \in SlaveRec /\ s.blk \in Nat /\ SlaveQueue
  BY Sides DEF SessionInv
<1>2. s.st = "DOWN" /\ s' = [s EXCEPT !.st = "OFF"] /\ UNCHANGED <<m, press>>
  BY DEF Boot
<1>3. s'.st = "OFF" /\ s'.q = s.q /\ s'.rf = s.rf /\ s'.blk = s.blk /\ s'.got = s.got
  BY <1>1, <1>2 DEF SlaveRec
<1>4. SlaveQueue' /\ s'.rf # "tx"
  BY <1>1, <1>2, <1>3 DEF SlaveQueue, Resting
<1>5. SlaveFrame' /\ Landed'
  BY <1>3 DEF SlaveFrame, Landed, Active
<1>6. ASSUME press <= 1 PROVE Session'
  <2>1. Session /\ s'.blk \in Nat /\ s'.blk <= s.blk /\ s'.st # "END"
    BY <1>1, <1>3, <1>6 DEF SessionInv
  <2>2. QED
    BY <1>2, <1>3, <1>4, <2>1, SlaveSilent
<1>7. QED
  BY <1>2, <1>4, <1>5, <1>6 DEF SessionInv

-----------------------------------------------------------------------------
(* The theorems.                                                            *)

LEMMA SessionInit == Init => SessionInv
<1>1. SUFFICES ASSUME Init PROVE SessionInv
  OBVIOUS
<1>2. /\ m.st = "OFF" /\ m.blk = 0 /\ m.tx = NoFrame /\ m.q = <<>> /\ m.rf = "off"
      /\ s.st = "OFF" /\ s.blk = 0 /\ s.got = <<>> /\ s.q = <<>> /\ s.rf = "off"
  BY <1>1 DEF Init
<1>3. SlaveQueue /\ SlaveFrame /\ Landed
  BY <1>2, EmptyTidy DEF SlaveQueue, Resting, SlaveFrame, Landed, Active
<1>4. MasterQueue /\ MasterFrame /\ Paired /\ InStep
  BY <1>2, EmptyTidy DEF MasterQueue, MasterFrame, Paired, InStep
<1>5. QED
  BY <1>3, <1>4 DEF SessionInv, Session

LEMMA SessionStep ==
  ASSUME OtaInv, OtaInv', SessionInv, [Next]_vars
  PROVE  SessionInv'
<1>1. CASE Radio
  BY <1>1, SessionRadio
<1>2. CASE Master
  BY <1>2, SessionMaster
<1>3. ASSUME NEW n \in 0..EraseLen, SlavePress(n) PROVE SessionInv'
  BY <1>3, SessionSlavePress
<1>4. CASE SlaveStart
  <2>1. UNCHANGED <<m, run, press>>
    BY <1>4 DEF SlaveStart
  <2>2. CASE SlaveIdle
    BY <2>1, <2>2, SessionSlaveIdle
  <2>3. CASE SlaveWait
    BY <2>1, <2>3, SessionSlaveWait
  <2>4. ASSUME NEW both \in BOOLEAN, SlaveEnd(both) PROVE SessionInv'
    BY <2>1, <2>4, SessionSlaveEnd
  <2>5. ASSUME NEW n \in 0..EraseLen, SlaveError(n) PROVE SessionInv'
    BY <2>1, <2>5, SessionSlaveError
  <2>6. QED
    BY <1>4, <2>2, <2>3, <2>4, <2>5 DEF SlaveStart
<1>5. CASE PowerFail
  BY <1>5, SessionDown DEF PowerFail
<1>6. CASE Boot
  BY <1>6, SessionBoot
<1>7. CASE UNCHANGED vars
  <2>1. UNCHANGED <<m, s, flash, flag, run, press>>
    BY <1>7 DEF vars
  <2>2. SlaveQueue' = SlaveQueue /\ SlaveFrame' = SlaveFrame /\ Landed' = Landed
    BY <2>1 DEF SlaveQueue, Resting, SlaveFrame, Landed, Active
  <2>3. MasterQueue' = MasterQueue /\ MasterFrame' = MasterFrame /\ Paired' = Paired
        /\ InStep' = InStep
    BY <2>1 DEF MasterQueue, MasterFrame, Paired, InStep
  <2>4. QED
    BY <2>1, <2>2, <2>3 DEF SessionInv, Session
<1>8. QED
  BY <1>1, <1>2, <1>3, <1>4, <1>5, <1>6, <1>7 DEF Next

\* In the first session no write runs away.
Tame == press <= 1 => s.st # "RUNAWAY"

\* Only a round that takes a message in can make a write run away.
LEMMA RunsAwayInWait ==
  ASSUME OtaInv, [Next]_vars, s.st # "RUNAWAY", s'.st = "RUNAWAY"
  PROVE  SlaveWait /\ UNCHANGED <<m, press>>
<1>1. s \in SlaveRec /\ Len(s.q) <= MsgQueueLen /\ m.tx \in FrameType
  BY Sides
<1>2. Down.st = "DOWN"
  BY <1>1, DownTyped
<1>3. ~Radio
  <2>1. Sent(s).st = s.st /\ Closed(s).st = s.st
    BY <1>1 DEF Sent, Closed, SlaveRec
  <2>2. \A how : Arrives(s, m.tx, how).st = s.st
    BY <1>1, SlaveArrives
  <2>3. QED
    BY <2>1, <2>2 DEF Radio, MasterTx, SlaveTx, MasterTimeout, SlaveTimeout
<1>4. ~Master
  BY DEF Master, MasterPress, MasterIdle, MasterWait, MasterLeave, MasterFallsOff
<1>5. \A n \in 0..EraseLen : ~SlavePress(n)
  BY <1>1, <1>2 DEF SlavePress, SlaveRec
<1>6. ~SlaveIdle
  BY <1>1 DEF SlaveIdle, Listening, SlaveRec
<1>7. \A both \in BOOLEAN : ~SlaveEnd(both)
  BY <1>1, <1>2 DEF SlaveEnd, SlaveRec
<1>8. \A n \in 0..EraseLen : ~SlaveError(n)
  BY <1>1, <1>2 DEF SlaveError, SlaveRec
<1>9. ~PowerFail /\ ~Boot /\ ~UNCHANGED vars
  BY <1>1, <1>2 DEF PowerFail, Boot, vars, SlaveRec
<1>10. QED
  BY <1>3, <1>4, <1>5, <1>6, <1>7, <1>8, <1>9 DEF Next, SlaveStart

LEMMA TameStep ==
  ASSUME OtaInv, SessionInv, Tame, [Next]_vars
  PROVE  Tame'
<1>1. SUFFICES ASSUME press' <= 1, s'.st = "RUNAWAY" PROVE FALSE
  BY DEF Tame
<1>2. press \in Nat /\ s \in SlaveRec /\ (press' = press \/ press' = press + 1)
  <2>1. press' = press \/ press' = press + 1
    BY DEF Next, vars, Radio, MasterTx, SlaveTx, MasterTimeout, SlaveTimeout, Master,
         MasterPress, MasterIdle, MasterWait, MasterLeave, MasterFallsOff, SlavePress,
         SlaveStart, PowerFail, Boot
  <2>2. QED
    BY <2>1, Sides
<1>3. press <= 1 /\ s.st # "RUNAWAY" /\ Session /\ SlaveQueue
  BY <1>1, <1>2 DEF Tame, SessionInv
<1>4. SlaveWait
  BY <1>1, <1>3, RunsAwayInWait
<1>5. /\ s.st \in {"FW_VERSION_READY", "START_READY", "DATA_READY", "END_READY"}
      /\ s.q # <<>>
  BY <1>4 DEF SlaveWait
<1>6. PICK f \in IF Head(s.q).type = "DATA" THEN ReadAs(Head(s.q).f) ELSE {NoFrame} :
        SlaveVersion(f) \/ SlaveAgain(f) \/ SlaveStartReq(f) \/ SlaveBlock(f)
        \/ SlaveEndReq(f) \/ SlaveListen(Head(s.q), f)
  BY <1>4 DEF SlaveWait
<1>7. SlaveBlock(f)
  <2>1. SlaveAccepts.st = s.st /\ DOMAIN SlaveAccepts = DOMAIN s /\ "st" \in DOMAIN s
    BY <1>2 DEF SlaveAccepts, SlaveRec
  <2>2. ~SlaveVersion(f) /\ ~SlaveAgain(f) /\ ~SlaveStartReq(f) /\ ~SlaveEndReq(f)
    BY <1>1, <1>3, <2>1 DEF SlaveVersion, SlaveAgain, SlaveStartReq, SlaveEndReq, Sending
  <2>3. ~SlaveListen(Head(s.q), f)
    BY <1>1, <1>2, <1>3 DEF SlaveListen, Listening, SlaveRec
  <2>4. QED
    BY <1>6, <2>2, <2>3
<1>8. f.kind = "DATA" /\ s.st = "DATA_READY"
  BY <1>7 DEF SlaveBlock, NextBlock
<1>9. f = m.tx /\ m.tx # NoFrame
  BY <1>3, <1>5, <1>8, SlaveFound
<1>10. f.len = 51
  BY <1>3, <1>8, <1>9, Requests DEF Session
<1>11. WriteBlock(f, Len(s.got) + 1)
  BY <1>7, <1>10 DEF SlaveBlock, TakeBlock, Underflows
<1>12. s'.st # "RUNAWAY"
  <2>1. Down.st = "DOWN"
    BY <1>2, DownTyped
  <2>2. SlaveAccepts.st = s.st /\ DOMAIN SlaveAccepts = DOMAIN s /\ "st" \in DOMAIN s
    BY <1>2 DEF SlaveAccepts, SlaveRec
  <2>3. QED
    BY <1>8, <1>11, <2>1, <2>2 DEF WriteBlock, Sending
<1>13. QED
  BY <1>1, <1>12

\* The inductive invariant holds in every reachable state.
THEOREM SessionInductive == Spec => [](OtaInv /\ SessionInv /\ Tame)
<1>1. OtaInv /\ OtaInv' /\ SessionInv /\ [Next]_vars => SessionInv'
  BY SessionStep
<1>2. OtaInv /\ SessionInv /\ Tame /\ [Next]_vars => Tame'
  BY TameStep
<1>3. Init => Tame
  BY DEF Init, Tame
<1>4. QED
  BY <1>1, <1>2, <1>3, SessionInit, OtaInductive, PTL DEF Spec

\* A bank with the boot flag holds a whole image, whatever the radio loses or
\* damages and wherever power fails in OTA_SlaveStart: in the first session of the
\* master without condition, and in a later one, where data frames may come cut
\* short, until one makes flash_write_page run away.
THEOREM OtaFlaggedIntact == Spec => []FlaggedIsIntact
<1>1. OtaInv /\ Tame => FlaggedIsIntact
  BY DEF OtaInv, Tame, InBounds, Intact, FlaggedIsIntact
<1>2. QED
  BY <1>1, SessionInductive, PTL

\* The slave always has a bank to boot from, in the same sessions: the new flag is
\* set before the old one is cleared, and only the bank without a flag is erased.
THEOREM OtaBootable == Spec => []SomeBankBoots
<1>1. OtaInv /\ Tame => SomeBankBoots
  BY DEF OtaInv, Tame, InBounds, Bootable, SomeBankBoots
<1>2. QED
  BY <1>1, SessionInductive, PTL

\* No step of the first session erases or writes the bank the slave runs from, and
\* of the later ones none but the write of a data frame cut short.
THEOREM OtaRunningKept == Spec => RunningBankKept
<1>1. OtaInv /\ Tame' /\ [Next]_vars =>
        [s.st # "DOWN" /\ InBounds' => flash'[run] = flash[run]]_vars
  BY OtaStep DEF Tame, InBounds
<1>2. QED
  BY <1>1, SessionInductive, PTL DEF Spec, RunningBankKept

\* In the first session of the master the slave assembles a prefix of one image,
\* in order, although OTA_MasterStart and OTA_SlaveStart repeat frames with the
\* length of the frame received last.
THEOREM OtaOneImage == Spec => []OneImage
<1>1. OtaInv /\ SessionInv => OneImage
  <2>1. SUFFICES ASSUME OtaInv, SessionInv, press <= 1
                 PROVE  \E v \in Version : \A k \in 1..Len(s.got) :
                          k <= Blocks[v] /\ s.got[k] = <<v, k>>
    BY DEF OneImage
  <2>2. /\ m.ver \in Version /\ m.blk \in Nat /\ Blocks[m.ver] \in Nat
        /\ Len(s.got) = s.blk /\ s.blk \in Nat
    BY <2>1, Sides
  <2>3. s.blk <= m.blk /\ \A k \in 1..Len(s.got) : s.got[k] = <<m.ver, k>>
    BY <2>1 DEF SessionInv, Session, InStep
  <2>4. m.blk <= Blocks[m.ver]
    BY <2>1, <2>2 DEF SessionInv, Session, MasterFrame
  <2>5. \A k \in 1..Len(s.got) : k <= Blocks[m.ver]
    BY <2>2, <2>3, <2>4
  <2>6. QED
    BY <2>2, <2>3, <2>5
<1>2. QED
  BY <1>1, SessionInductive, PTL

\* In the first session an image for which END_RSP is sent passes the CRC check
\* that OTA_SlaveStart makes after it, when the erase covers it.
THEOREM OtaAnsweredWhole == Spec => []AnsweredIsWhole
<1>1. OtaInv /\ SessionInv => AnsweredIsWhole
  <2>1. SUFFICES ASSUME OtaInv, SessionInv, press <= 1, s.st = "END", Len(s.got) <= EraseLen
                 PROVE  CrcMatch
    BY DEF AnsweredIsWhole
  <2>2. m.ver \in Version /\ Blocks[m.ver] \in Nat /\ s.got \in Seq(Block \cup {Spoilt})
    BY <2>1, Sides
  <2>3. /\ \A k \in 1..Len(s.got) : s.got[k] = <<m.ver, k>>
        /\ Len(s.got) = Blocks[m.ver]
    BY <2>1 DEF SessionInv, Session, InStep
  <2>4. s.got = Image(m.ver)
    <3>1. s.got = [k \in 1..Len(s.got) |-> s.got[k]]
      BY <2>2
    <3>2. [k \in 1..Len(s.got) |-> s.got[k]] = [k \in 1..Blocks[m.ver] |-> <<m.ver, k>>]
      BY <2>3
    <3>3. QED
      BY <3>1, <3>2 DEF Image
  <2>5. \A k \in 1..Len(s.got) : k <= EraseLen => flash[s.bank][k] = s.got[k]
    BY <2>1 DEF SessionInv, Landed, Active
  <2>6. \A k \in 1..Blocks[m.ver] : flash[s.bank][k] = <<m.ver, k>>
    <3>1. \A k \in 1..Blocks[m.ver] : k \in 1..Len(s.got) /\ k <= EraseLen
      BY <2>1, <2>2, <2>3, OtaAssumption
    <3>2. QED
      BY <2>3, <2>5, <3>1
  <2>7. QED
    BY <2>2, <2>4, <2>6 DEF CrcMatch
<1>2. QED
  BY <1>1, SessionInductive, PTL

=============================================================================
