---------------------------- MODULE Ota24Proofs ----------------------------
(***************************************************************************)
(* Proofs about the update over the 2.4 GHz radio, for images, banks and     *)
(* numbers of repetitions of every size and for any number of sessions of     *)
(* the master: the types and, as long as no data frame cut short has made     *)
(* flash_write leave the target bank, that the slave has a bank to boot from, *)
(* that a bank with the boot flag holds a whole image, and that the bank the  *)
(* slave runs from is not touched. Nothing is assumed about the radio or      *)
(* about the moment at which power fails. Ota24SessionProofs shows that no    *)
(* such frame is taken in in the first session of the master.                *)
(***************************************************************************)
EXTENDS Ota24, TLAPS

\* The slave is at work on the bank it does not run from.
Active == s.st \notin {"OFF", "DOWN", "RUNAWAY"}

\* A data frame carries a block that a bank has room for.
Fits(f) == f.kind = "DATA" => f.num \in 1..BankLen /\ f.ver \in Version

\* All data frames that the slave has yet to look at do.
FramesFit ==
  /\ Fits(m.tx)
  /\ \A i \in 1..Len(s.q) : Fits(s.q[i].f)

\* The number of the block is 0 until START_RSP has come, and never beyond the
\* last one of the image while blocks are sent.
MasterCount ==
  /\ m.st \in {"IDLE", "FW_VER_WAIT", "START_RSP_WAIT"} => m.blk = 0
  /\ m.st = "DATA_ACK_WAIT" => m.blk <= Blocks[m.ver]

\* The slave counts what it has written.
SlaveCount == Len(s.got) = s.blk

\* The slave runs from the first bank with a flag, and the bank it writes to is
\* the other one and has no flag.
RunsFlagged ==
  /\ s.st \notin {"DOWN", "RUNAWAY"} =>
       flag[run] = "SET" /\ run = IF flag[1] = "SET" THEN 1 ELSE 2
  /\ Active => s.bank = 3 - run /\ flag[s.bank] # "SET"

\* Banks with the boot flag are whole, and there is one, unless a cut block has run
\* away.
Intact == s.st # "RUNAWAY" => \A b \in Bank : flag[b] = "SET" => Whole(b)
Bootable == s.st # "RUNAWAY" => \E b \in Bank : flag[b] = "SET"

\* The inductive invariant.
OtaInv ==
  /\ TypeOK /\ FramesFit /\ MasterCount /\ SlaveCount
  /\ RunsFlagged /\ Bootable /\ Intact

-----------------------------------------------------------------------------
(* The control blocks.                                                      *)

MasterRec ==
  [st : {"OFF", "IDLE", "FW_VER_WAIT", "START_RSP_WAIT", "DATA_ACK_WAIT",
         "END_RSP_WAIT", "END", "ERROR"},
   blk : 0..BankLen, retry : 0..RetryMax, ver : Version, tx : FrameType,
   q : Seq(MsgType), rf : {"off", "tx", "rx"}]

SlaveRec ==
  [st : {"OFF", "IDLE", "FW_VERSION_READY", "START_READY", "DATA_READY",
         "END_READY", "END", "ERROR", "DOWN", "RUNAWAY"},
   blk : 0..BankLen, retry : 0..RetryMax, max : Nat, bank : Bank,
   got : Seq(Block \cup {Spoilt}), tx : FrameType,
   q : Seq(MsgType), rf : {"off", "tx", "rx"}]

\* What TypeOK says of the two sides.
LEMMA TypeParts ==
  TypeOK <=> /\ m \in MasterRec /\ s \in SlaveRec
             /\ flash \in [Bank -> [1..BankLen -> Block \cup {Blank, Spoilt}]]
             /\ flag \in [Bank -> {"SET", "CLR", "FF"}]
             /\ run \in Bank /\ press \in 0..MaxPress
             /\ Len(m.q) <= MsgQueueLen /\ Len(s.q) <= MsgQueueLen
BY DEF TypeOK, MasterRec, SlaveRec

\* A frame that one of the OTA_Build functions makes.
LEMMA FrameTyped ==
  ASSUME NEW kind \in DOMAIN LenOf, NEW num \in Nat, NEW ver \in Version \cup {0}
  PROVE  /\ Frame(kind, num, ver) \in FrameType
         /\ Frame(kind, num, ver).kind = kind
         /\ Frame(kind, num, ver).num = num
         /\ Frame(kind, num, ver).ver = ver
         /\ Frame(kind, num, ver).len = LenOf[kind]
<1>1. LenOf[kind] \in Nat
  BY DEF LenOf
<1>2. QED
  BY <1>1 DEF Frame, FrameType, FrameKind

LEMMA NoFrameTyped == NoFrame \in FrameType /\ NoFrame.kind = "NONE"
BY DEF NoFrame, FrameType, FrameKind

\* What is read of a frame has the type, the kind and the version of the frame.
LEMMA ReadTyped ==
  ASSUME NEW f \in FrameType, NEW g \in ReadAs(f)
  PROVE  /\ g \in FrameType
         /\ g.kind = f.kind /\ g.ver = f.ver /\ g.len = f.len
         /\ g = f \/ g.num \in 0..BankLen \/ f.kind = "VERSION_RSP"
<1>1. Version \subseteq Nat /\ BankLen \in Nat
  BY OtaAssumption
<1>2. CASE g = f
  BY <1>2
<1>3. CASE g # f
  <2>1. PICK n \in IF f.kind = "VERSION_RSP" THEN Version \cup {0} ELSE 0..BankLen :
           g = [f EXCEPT !.num = n]
    BY <1>3 DEF ReadAs
  <2>2. n \in Nat
    BY <1>1
  <2>3. QED
    BY <2>1, <2>2, <1>1 DEF FrameType
<1>4. QED
  BY <1>2, <1>3

\* The message queue.
LEMMA PushTyped ==
  ASSUME NEW q \in Seq(MsgType), Len(q) <= MsgQueueLen, NEW msg \in MsgType
  PROVE  /\ Push(q, msg) \in Seq(MsgType) /\ Len(Push(q, msg)) <= MsgQueueLen
         /\ \A i \in 1..Len(Push(q, msg)) :
              (i \in 1..Len(q) /\ Push(q, msg)[i] = q[i]) \/ Push(q, msg)[i] = msg
BY DEF Push, MsgQueueLen

LEMMA PoppedTyped ==
  ASSUME NEW q \in Seq(MsgType), Len(q) <= MsgQueueLen
  PROVE  /\ Popped(q) \in Seq(MsgType) /\ Len(Popped(q)) <= MsgQueueLen
         /\ \A i \in 1..Len(Popped(q)) : \E j \in 1..Len(q) : Popped(q)[i] = q[j]
         /\ q # <<>> => /\ Popped(q) = Tail(q) /\ Head(q) \in MsgType
                        /\ Head(q) = q[1] /\ 1 \in 1..Len(q)
<1>1. CASE q = <<>>
  BY <1>1 DEF Popped
<1>2. CASE q # <<>>
  <2>1. Popped(q) = Tail(q) /\ Tail(q) \in Seq(MsgType) /\ Len(Tail(q)) = Len(q) - 1
        /\ Len(q) \in Nat \ {0} /\ Head(q) = q[1]
    BY <1>2 DEF Popped
  <2>2. \A i \in 1..Len(Tail(q)) : Tail(q)[i] = q[i + 1] /\ i + 1 \in 1..Len(q)
    BY <1>2, <2>1
  <2>3. Head(q) \in MsgType
    BY <1>2
  <2>4. QED
    BY <2>1, <2>2, <2>3 DEF MsgQueueLen
<1>3. QED
  BY <1>1, <1>2

-----------------------------------------------------------------------------
(* What the steps of one side need to show.                                 *)

LEMMA MasterOnly ==
  ASSUME OtaInv, UNCHANGED <<s, flashVars>>, press' \in 0..MaxPress,
         m' \in MasterRec, Len(m'.q) <= MsgQueueLen, Fits(m'.tx), MasterCount'
  PROVE  OtaInv'
<1>1. TypeOK'
  BY TypeParts DEF OtaInv, flashVars, TypeOK, MasterRec, SlaveRec
<1>2. QED
  BY <1>1 DEF OtaInv, flashVars, FramesFit, Fits, SlaveCount, RunsFlagged, Active,
       Bootable, Intact, Whole

LEMMA SlaveOnly ==
  ASSUME OtaInv, UNCHANGED <<m, press>>,
         s' \in SlaveRec, Len(s'.q) <= MsgQueueLen,
         \A i \in 1..Len(s'.q) : Fits(s'.q[i].f),
         SlaveCount', RunsFlagged', Bootable', Intact',
         flash' \in [Bank -> [1..BankLen -> Block \cup {Blank, Spoilt}]],
         flag' \in [Bank -> {"SET", "CLR", "FF"}], run' \in Bank
  PROVE  OtaInv'
<1>1. TypeOK'
  BY TypeParts DEF OtaInv, TypeOK, MasterRec, SlaveRec
<1>2. QED
  BY <1>1 DEF OtaInv, FramesFit, Fits, MasterCount

\* A step of the slave that leaves the flash alone.
LEMMA SlaveRam ==
  ASSUME OtaInv, UNCHANGED <<m, press, flash, flag, run>>,
         s' \in SlaveRec, Len(s'.q) <= MsgQueueLen,
         \A i \in 1..Len(s'.q) : Fits(s'.q[i].f), SlaveCount',
         \/ s.st # "RUNAWAY" /\ s'.st = "DOWN"
         \/ s'.st = s.st /\ s'.bank = s.bank
         \/ Active /\ s'.bank = s.bank
  PROVE  OtaInv'
<1>1. RunsFlagged' /\ Bootable' /\ Intact'
  BY DEF OtaInv, RunsFlagged, Bootable, Intact, Whole, Active
<1>2. QED
  BY <1>1, SlaveOnly, TypeParts DEF OtaInv

-----------------------------------------------------------------------------
(* The radio.                                                               *)

\* A side whose radio has put a message in its queue and goes on as rf says.
Hears(b, msg, rf) == [b EXCEPT !.q = Push(b.q, msg), !.rf = rf]

LEMMA MasterHears ==
  ASSUME NEW b \in MasterRec, Len(b.q) <= MsgQueueLen, NEW msg \in MsgType,
         NEW rf \in {"off", "rx"}
  PROVE  LET c == Hears(b, msg, rf) IN
         /\ c \in MasterRec /\ Len(c.q) <= MsgQueueLen
         /\ c.q = Push(b.q, msg) /\ c.rf = rf
         /\ c.st = b.st /\ c.blk = b.blk /\ c.ver = b.ver
         /\ c.tx = b.tx
BY PushTyped DEF MasterRec, Hears

LEMMA SlaveHears ==
  ASSUME NEW b \in SlaveRec, Len(b.q) <= MsgQueueLen, NEW msg \in MsgType,
         NEW rf \in {"off", "rx"}
  PROVE  LET c == Hears(b, msg, rf) IN
         /\ c \in SlaveRec /\ Len(c.q) <= MsgQueueLen
         /\ c.q = Push(b.q, msg) /\ c.rf = rf
         /\ c.st = b.st /\ c.blk = b.blk /\ c.bank = b.bank
         /\ c.got = b.got /\ c.tx = b.tx /\ c.max = b.max
BY PushTyped DEF SlaveRec, Hears

LEMMA RadioMessages ==
  /\ \A type \in {"INVALID_DATA", "TX_DONE", "TIMEOUT"} :
       Msg(type, NoFrame) \in MsgType /\ Fits(Msg(type, NoFrame).f)
  /\ \A f \in FrameType : Msg("DATA", f) \in MsgType /\ Msg("DATA", f).f = f
BY NoFrameTyped DEF Msg, MsgType, Fits

LEMMA ArrivesCases ==
  ASSUME NEW b, NEW f, NEW how
  PROVE  \/ Arrives(b, f, how) = b
         \/ b.rf = "rx" /\ \E msg \in {Msg("INVALID_DATA", NoFrame), Msg("DATA", f)} :
              Arrives(b, f, how) = Hears(b, msg, "off")
BY DEF Arrives, Hears

\* What a side is after a frame may have reached it.
LEMMA MasterArrives ==
  ASSUME NEW b \in MasterRec, Len(b.q) <= MsgQueueLen, NEW f \in FrameType, NEW how
  PROVE  LET c == Arrives(b, f, how) IN
         /\ c \in MasterRec /\ Len(c.q) <= MsgQueueLen
         /\ c.st = b.st /\ c.blk = b.blk /\ c.ver = b.ver /\ c.tx = b.tx
<1>1. CASE Arrives(b, f, how) = b
  BY <1>1
<1>2. CASE Arrives(b, f, how) # b
  <2>1. PICK msg \in {Msg("INVALID_DATA", NoFrame), Msg("DATA", f)} :
           Arrives(b, f, how) = Hears(b, msg, "off")
    BY <1>2, ArrivesCases
  <2>2. msg \in MsgType
    BY RadioMessages
  <2>3. QED
    BY <2>1, <2>2, MasterHears
<1>3. QED
  BY <1>1, <1>2

LEMMA SlaveArrives ==
  ASSUME NEW b \in SlaveRec, Len(b.q) <= MsgQueueLen, NEW f \in FrameType, NEW how
  PROVE  LET c == Arrives(b, f, how) IN
         /\ c \in SlaveRec /\ Len(c.q) <= MsgQueueLen
         /\ c.st = b.st /\ c.blk = b.blk /\ c.bank = b.bank /\ c.got = b.got
         /\ \A i \in 1..Len(c.q) :
              \/ i \in 1..Len(b.q) /\ c.q[i] = b.q[i]
              \/ c.q[i] \in {Msg("INVALID_DATA", NoFrame), Msg("DATA", f)}
<1>1. b.q \in Seq(MsgType)
  BY DEF SlaveRec
<1>2. CASE Arrives(b, f, how) = b
  BY <1>2, <1>1
<1>3. CASE Arrives(b, f, how) # b
  <2>1. PICK msg \in {Msg("INVALID_DATA", NoFrame), Msg("DATA", f)} :
           Arrives(b, f, how) = Hears(b, msg, "off")
    BY <1>3, ArrivesCases
  <2>2. msg \in MsgType
    BY RadioMessages
  <2>3. Arrives(b, f, how).q = Push(b.q, msg)
    BY <2>1, <2>2, SlaveHears
  <2>4. \A i \in 1..Len(Push(b.q, msg)) :
           (i \in 1..Len(b.q) /\ Push(b.q, msg)[i] = b.q[i]) \/ Push(b.q, msg)[i] = msg
    BY <1>1, <2>2, PushTyped
  <2>5. QED
    BY <2>1, <2>2, <2>3, <2>4, SlaveHears
<1>4. QED
  BY <1>2, <1>3

LEMMA RadioStep == OtaInv /\ Radio => OtaInv'
<1>1. SUFFICES ASSUME OtaInv, Radio PROVE OtaInv'
  OBVIOUS
<1>2. /\ m \in MasterRec /\ s \in SlaveRec /\ press \in 0..MaxPress
      /\ Len(m.q) <= MsgQueueLen /\ Len(s.q) <= MsgQueueLen
      /\ m.tx \in FrameType /\ s.tx \in FrameType /\ s.q \in Seq(MsgType)
  BY <1>1, TypeParts DEF OtaInv, MasterRec, SlaveRec
<1>3. Sent(m) \in MasterRec /\ Len(Sent(m).q) <= MsgQueueLen
      /\ Sent(m).st = m.st /\ Sent(m).blk = m.blk /\ Sent(m).ver = m.ver /\ Sent(m).tx = m.tx
  BY <1>2, RadioMessages, MasterHears DEF Sent, Hears
<1>4. Closed(m) \in MasterRec /\ Len(Closed(m).q) <= MsgQueueLen
      /\ Closed(m).st = m.st /\ Closed(m).blk = m.blk /\ Closed(m).ver = m.ver
      /\ Closed(m).tx = m.tx
  BY <1>2, RadioMessages, MasterHears DEF Closed, Hears
<1>5. ASSUME NEW c \in {Sent(s), Closed(s)}
      PROVE  /\ c \in SlaveRec /\ Len(c.q) <= MsgQueueLen
             /\ c.st = s.st /\ c.blk = s.blk /\ c.bank = s.bank /\ c.got = s.got
             /\ \A i \in 1..Len(c.q) : Fits(c.q[i].f)
  <2>1. PICK msg \in {Msg("TX_DONE", NoFrame), Msg("TIMEOUT", NoFrame)}, rf \in {"off", "rx"} :
          c = Hears(s, msg, rf)
    BY DEF Sent, Closed, Hears
  <2>2. msg \in MsgType /\ Fits(msg.f)
    BY RadioMessages
  <2>3. \A i \in 1..Len(s.q) : Fits(s.q[i].f)
    BY <1>1 DEF OtaInv, FramesFit
  <2>4. c.q = Push(s.q, msg) /\ \A i \in 1..Len(c.q) : Fits(c.q[i].f)
    <3>1. c.q = Push(s.q, msg)
      BY <1>2, <2>1, <2>2, SlaveHears
    <3>2. \A i \in 1..Len(Push(s.q, msg)) :
            (i \in 1..Len(s.q) /\ Push(s.q, msg)[i] = s.q[i]) \/ Push(s.q, msg)[i] = msg
      BY <1>2, <2>2, PushTyped
    <3>3. QED
      BY <3>1, <3>2, <2>2, <2>3
  <2>5. QED
    BY <1>2, <2>1, <2>2, <2>4, SlaveHears
<1>6. ASSUME NEW how \in {"received", "damaged", "lost"}, MasterTx(how) PROVE OtaInv'
  <2>1. m' = Sent(m) /\ s' = Arrives(s, m.tx, how) /\ UNCHANGED <<flash, flag, run, press>>
    BY <1>6 DEF MasterTx, flashVars
  <2>2. \A i \in 1..Len(s'.q) : Fits(s'.q[i].f)
    BY <1>1, <1>2, <2>1, SlaveArrives, RadioMessages DEF OtaInv, FramesFit
  <2>3. s' \in SlaveRec /\ Len(s'.q) <= MsgQueueLen
        /\ s'.st = s.st /\ s'.blk = s.blk /\ s'.bank = s.bank /\ s'.got = s.got
    BY <1>2, <2>1, SlaveArrives
  <2>4. TypeOK'
    BY <1>1, <1>2, <1>3, <2>1, <2>3 DEF OtaInv, TypeOK, MasterRec, SlaveRec
  <2>5. FramesFit' /\ MasterCount' /\ SlaveCount'
    BY <1>1, <1>3, <2>1, <2>2, <2>3 DEF OtaInv, FramesFit, MasterCount, SlaveCount
  <2>6. RunsFlagged' /\ Bootable' /\ Intact'
    BY <1>1, <2>1, <2>3 DEF OtaInv, RunsFlagged, Bootable, Intact, Whole, Active
  <2>7. QED
    BY <2>4, <2>5, <2>6 DEF OtaInv
<1>7. ASSUME NEW how \in {"received", "damaged", "lost"}, SlaveTx(how) PROVE OtaInv'
  <2>1. m' = Arrives(m, s.tx, how) /\ s' = Sent(s) /\ UNCHANGED <<flash, flag, run, press>>
    BY <1>7 DEF SlaveTx, flashVars
  <2>2. m' \in MasterRec /\ Len(m'.q) <= MsgQueueLen
        /\ m'.st = m.st /\ m'.blk = m.blk /\ m'.ver = m.ver /\ m'.tx = m.tx
    BY <1>2, <2>1, MasterArrives
  <2>3. s' \in SlaveRec /\ Len(s'.q) <= MsgQueueLen
        /\ s'.st = s.st /\ s'.blk = s.blk /\ s'.bank = s.bank /\ s'.got = s.got
        /\ \A i \in 1..Len(s'.q) : Fits(s'.q[i].f)
    BY <1>5, <2>1
  <2>4. TypeOK'
    BY <1>1, <1>2, <2>1, <2>2, <2>3 DEF OtaInv, TypeOK, MasterRec, SlaveRec
  <2>5. FramesFit' /\ MasterCount' /\ SlaveCount'
    BY <1>1, <2>2, <2>3 DEF OtaInv, FramesFit, MasterCount, SlaveCount
  <2>6. RunsFlagged' /\ Bootable' /\ Intact'
    BY <1>1, <2>1, <2>3 DEF OtaInv, RunsFlagged, Bootable, Intact, Whole, Active
  <2>7. QED
    BY <2>4, <2>5, <2>6 DEF OtaInv
<1>8. ASSUME MasterTimeout PROVE OtaInv'
  <2>1. m' = Closed(m) /\ UNCHANGED <<s, flashVars, press>>
    BY <1>8 DEF MasterTimeout
  <2>2. Fits(m'.tx) /\ MasterCount'
    BY <1>1, <1>4, <2>1 DEF OtaInv, FramesFit, MasterCount
  <2>3. QED
    BY <1>1, <1>2, <1>4, <2>1, <2>2, MasterOnly
<1>9. ASSUME SlaveTimeout PROVE OtaInv'
  <2>1. s' = Closed(s) /\ UNCHANGED <<m, press, flash, flag, run>>
    BY <1>9 DEF SlaveTimeout, flashVars
  <2>2. SlaveCount'
    BY <1>1, <1>5, <2>1 DEF OtaInv, SlaveCount
  <2>3. QED
    BY <1>1, <1>5, <2>1, <2>2, SlaveRam
<1>10. QED
  BY <1>1, <1>6, <1>7, <1>8, <1>9 DEF Radio

-----------------------------------------------------------------------------
(* The master.                                                              *)

LEMMA MasterStep == OtaInv /\ Master => OtaInv'
<1>1. SUFFICES ASSUME OtaInv, Master PROVE OtaInv'
  OBVIOUS
<1>2. /\ m \in MasterRec /\ press \in 0..MaxPress /\ Len(m.q) <= MsgQueueLen
      /\ m.tx \in FrameType /\ m.q \in Seq(MsgType) /\ Fits(m.tx) /\ MasterCount
      /\ m.ver \in Version /\ m.blk \in 0..BankLen
  BY <1>1, TypeParts DEF OtaInv, MasterRec, FramesFit
<1>3. /\ Version \subseteq Nat /\ BankLen \in Nat /\ RetryMax \in Nat /\ MaxPress \in Nat
      /\ 0 \in 0..BankLen /\ 0 \in 0..RetryMax
      /\ \A v \in Version : Blocks[v] \in 1..BankLen /\ Blocks[v] \in Nat
  BY OtaAssumption
<1>4. ASSUME NEW v \in Version, MasterPress(v) PROVE OtaInv'
  <2>1. m' = [m EXCEPT !.st = "IDLE", !.blk = 0, !.retry = 0, !.ver = v, !.rf = "off"]
        /\ press' \in 0..MaxPress /\ UNCHANGED <<s, flashVars>>
    BY <1>2, <1>3, <1>4 DEF MasterPress
  <2>2. m' \in MasterRec /\ m'.q = m.q /\ m'.tx = m.tx /\ m'.st = "IDLE" /\ m'.blk = 0
    BY <1>2, <1>3, <2>1 DEF MasterRec
  <2>3. QED
    BY <1>1, <1>2, <2>1, <2>2, MasterOnly DEF MasterCount
<1>5. ASSUME MasterIdle PROVE OtaInv'
  <2>1. Frame("VERSION_REQ", 0, 0) \in FrameType /\ Frame("VERSION_REQ", 0, 0).kind = "VERSION_REQ"
    BY FrameTyped DEF LenOf
  <2>2. Popped(m.q) \in Seq(MsgType) /\ Len(Popped(m.q)) <= MsgQueueLen
    BY <1>2, PoppedTyped
  <2>3. /\ m' \in MasterRec /\ m'.q = Popped(m.q) /\ m'.tx = Frame("VERSION_REQ", 0, 0)
        /\ m'.blk = m.blk /\ m'.st \in {"FW_VER_WAIT", "OFF"} /\ m.st = "IDLE"
    BY <1>2, <1>5, <2>1, <2>2 DEF MasterIdle, FallsOff, Sending, MasterRec
  <2>4. Fits(m'.tx) /\ MasterCount'
    BY <1>2, <2>1, <2>3 DEF Fits, MasterCount
  <2>5. UNCHANGED <<s, flashVars, press>>
    BY <1>5 DEF MasterIdle
  <2>6. QED
    BY <1>1, <1>2, <2>2, <2>3, <2>4, <2>5, MasterOnly
<1>6. ASSUME MasterWait PROVE OtaInv'
  <2>0. /\ Blocks[m.ver] \in Nat /\ Blocks[m.ver] <= BankLen /\ Blocks[m.ver] >= 1
        /\ m.blk \in Nat /\ m.blk <= BankLen
    <3>1. Blocks[m.ver] \in 1..BankLen
      BY <1>2, <1>3
    <3>2. QED
      BY <1>2, <1>3, <3>1
  <2>1. UNCHANGED <<s, flashVars, press>> /\ m.q # <<>> /\ MasterWaiting
    BY <1>6 DEF MasterWait
  <2>2. PICK f \in IF Head(m.q).type = "DATA" THEN ReadAs(Head(m.q).f) ELSE {NoFrame} :
          \/ MasterVersion(f) \/ MasterStartRsp(f) \/ MasterAck(f) \/ MasterEndRsp(f)
          \/ MasterRetry(Head(m.q), f)
    BY <1>6 DEF MasterWait
  <2>3. Tail(m.q) \in Seq(MsgType) /\ Len(Tail(m.q)) <= MsgQueueLen /\ Head(m.q) \in MsgType
    BY <1>2, <2>1, PoppedTyped
  <2>4. f \in FrameType /\ f.num \in Nat /\ f.len \in Nat
    <3>1. f \in FrameType
      BY <2>3, ReadTyped, NoFrameTyped DEF MsgType
    <3>2. QED
      BY <3>1 DEF FrameType
  <2>5. /\ MasterAccepts \in MasterRec /\ MasterAccepts.q = Tail(m.q)
        /\ MasterAccepts.tx = m.tx /\ MasterAccepts.blk = m.blk
        /\ MasterAccepts.ver = m.ver
    BY <1>2, <1>3, <2>3 DEF MasterAccepts, MasterRec
  <2>6. SUFFICES m' \in MasterRec /\ m'.q = Tail(m.q) /\ Fits(m'.tx) /\ MasterCount'
    BY <1>1, <1>2, <2>1, <2>3, MasterOnly
  <2>7. CASE MasterVersion(f)
    <3>1. Frame("START_REQ", Blocks[m.ver], 0) \in FrameType
          /\ Frame("START_REQ", Blocks[m.ver], 0).kind = "START_REQ"
      BY <2>0, FrameTyped DEF LenOf
    <3>2. m.blk = 0
      BY <1>2, <2>7 DEF MasterVersion, MasterCount
    <3>3. CASE f.num < m.ver
      <4>1. m' = Sending([MasterAccepts EXCEPT !.st = "START_RSP_WAIT"],
                         Frame("START_REQ", Blocks[m.ver], 0))
        BY <2>7, <3>3 DEF MasterVersion
      <4>2. QED
        BY <2>5, <3>1, <3>2, <4>1 DEF Sending, MasterRec, Fits, MasterCount
    <3>4. CASE ~(f.num < m.ver)
      <4>1. m' = [MasterAccepts EXCEPT !.st = "ERROR"]
        BY <2>7, <3>4 DEF MasterVersion
      <4>2. QED
        BY <1>2, <2>5, <4>1 DEF MasterRec, MasterCount
    <3>5. QED
      BY <3>3, <3>4
  <2>8. ASSUME m.blk + 1 <= Blocks[m.ver],
               NEW c \in MasterRec, c.q = Tail(m.q), c.blk = m.blk, c.ver = m.ver,
               c.st = "DATA_ACK_WAIT", m' = NextData(c)
        PROVE  m' \in MasterRec /\ m'.q = Tail(m.q) /\ Fits(m'.tx) /\ MasterCount'
    <3>1. m.blk + 1 \in 1..BankLen /\ m.blk + 1 \in 0..BankLen /\ m.blk + 1 \in Nat
      BY <1>3, <2>0, <2>8
    <3>2. /\ Frame("DATA", m.blk + 1, m.ver) \in FrameType
          /\ Frame("DATA", m.blk + 1, m.ver).num = m.blk + 1
          /\ Frame("DATA", m.blk + 1, m.ver).ver = m.ver
      BY <1>2, <3>1, FrameTyped DEF LenOf
    <3>3. m' = [c EXCEPT !.blk = m.blk + 1, !.tx = Frame("DATA", m.blk + 1, m.ver), !.rf = "tx"]
      BY <2>8 DEF NextData, Sending, MasterRec
    <3>4. /\ m' \in MasterRec /\ m'.q = Tail(m.q) /\ m'.ver = m.ver /\ m'.blk = m.blk + 1
          /\ m'.tx = Frame("DATA", m.blk + 1, m.ver) /\ m'.st = "DATA_ACK_WAIT"
      BY <2>8, <3>1, <3>2, <3>3 DEF MasterRec
    <3>5. Fits(m'.tx)
      BY <1>2, <3>1, <3>2, <3>4 DEF Fits
    <3>6. QED
      BY <2>8, <3>4, <3>5 DEF MasterCount
  <2>9. CASE MasterStartRsp(f)
    <3>1. m.blk = 0 /\ m.blk + 1 <= Blocks[m.ver]
      BY <1>2, <1>3, <2>9 DEF MasterStartRsp, MasterCount
    <3>2. QED
      BY <2>5, <2>8, <2>9, <3>1 DEF MasterStartRsp, MasterRec
  <2>10. CASE MasterAck(f)
    <3>1. m.blk <= Blocks[m.ver] /\ m.st = "DATA_ACK_WAIT" /\ MasterAccepts.st = m.st
      BY <1>2, <2>3, <2>10 DEF MasterAck, MasterCount, MasterAccepts, MasterRec
    <3>2. CASE m.blk = Blocks[m.ver]
      <4>1. /\ Frame("END_REQ", Blocks[m.ver], 0) \in FrameType
            /\ Frame("END_REQ", Blocks[m.ver], 0).kind = "END_REQ"
        BY <2>0, FrameTyped DEF LenOf
      <4>2. m' = Sending([MasterAccepts EXCEPT !.st = "END_RSP_WAIT"],
                         Frame("END_REQ", Blocks[m.ver], 0))
        BY <2>10, <3>2 DEF MasterAck
      <4>3. QED
        BY <2>5, <4>1, <4>2 DEF Sending, MasterRec, Fits, MasterCount
    <3>3. CASE m.blk # Blocks[m.ver]
      <4>1. m.blk + 1 <= Blocks[m.ver]
        BY <2>0, <3>1, <3>3
      <4>2. QED
        BY <2>5, <2>8, <2>10, <3>1, <3>3, <4>1 DEF MasterAck
    <3>4. QED
      BY <3>2, <3>3
  <2>11. CASE MasterEndRsp(f)
    BY <1>2, <2>5, <2>11 DEF MasterEndRsp, MasterRec, MasterCount
  <2>12. CASE MasterRetry(Head(m.q), f)
    <3> DEFINE popped == [m EXCEPT !.q = Tail(@)]
               again == IF Head(m.q).type = "DATA" THEN [m.tx EXCEPT !.len = f.len] ELSE m.tx
    <3>1. /\ popped \in MasterRec /\ popped.q = Tail(m.q) /\ popped.tx = m.tx
          /\ popped.st = m.st /\ popped.blk = m.blk /\ popped.ver = m.ver
          /\ popped.retry = m.retry
      BY <1>2, <2>3 DEF MasterRec
    <3>2. again \in FrameType /\ Fits(again)
      <4>1. [m.tx EXCEPT !.len = f.len] \in FrameType /\ Fits([m.tx EXCEPT !.len = f.len])
        BY <1>2, <2>4 DEF FrameType, Fits
      <4>2. QED
        BY <1>2, <4>1
    <3>3. m' \in IF Exhausted(m.retry) THEN {[popped EXCEPT !.st = "ERROR"]}
                 ELSE IF Head(m.q).type = "TX_DONE" THEN FallsOff(popped)
                 ELSE FallsOff(Sending([popped EXCEPT !.retry = Counted(@)], again))
      BY <2>12 DEF MasterRetry
    <3> HIDE DEF popped, again
    <3>4. CASE Exhausted(m.retry)
      BY <1>2, <3>1, <3>3, <3>4 DEF MasterRec, MasterCount
    <3>5. CASE ~Exhausted(m.retry) /\ Head(m.q).type = "TX_DONE"
      <4>1. m' = popped \/ m' = [popped EXCEPT !.st = "OFF"]
        BY <3>3, <3>5 DEF FallsOff
      <4>2. QED
        BY <1>2, <3>1, <4>1 DEF MasterRec, MasterCount
    <3>6. CASE ~Exhausted(m.retry) /\ Head(m.q).type # "TX_DONE"
      <4>1. m.retry + 1 \in 0..RetryMax
        BY <1>2, <1>3, <3>6 DEF Exhausted, MasterRec
      <4> DEFINE c == [popped EXCEPT !.retry = m.retry + 1, !.tx = again, !.rf = "tx"]
      <4>2. c = Sending([popped EXCEPT !.retry = Counted(@)], again)
        BY <3>1 DEF Sending, Counted, MasterRec
      <4>3. m' = c \/ m' = [c EXCEPT !.st = "OFF"]
        BY <3>3, <3>6, <4>2 DEF FallsOff
      <4>4. /\ c \in MasterRec /\ c.q = Tail(m.q) /\ c.tx = again
            /\ c.st = m.st /\ c.blk = m.blk /\ c.ver = m.ver
        BY <3>1, <3>2, <4>1 DEF MasterRec
      <4> HIDE DEF c
      <4>5. QED
        BY <1>2, <3>2, <4>3, <4>4 DEF MasterRec, MasterCount
    <3>7. QED
      BY <3>4, <3>5, <3>6
  <2>13. QED
    BY <2>2, <2>7, <2>9, <2>10, <2>11, <2>12
<1>7. ASSUME MasterLeave PROVE OtaInv'
  <2>1. Popped(m.q) \in Seq(MsgType) /\ Len(Popped(m.q)) <= MsgQueueLen
    BY <1>2, PoppedTyped
  <2>2. m' \in MasterRec /\ m'.q = Popped(m.q) /\ m'.tx = m.tx /\ m'.st = "OFF"
    BY <1>2, <1>7, <2>1 DEF MasterLeave, MasterRec
  <2>3. UNCHANGED <<s, flashVars, press>>
    BY <1>7 DEF MasterLeave
  <2>4. QED
    BY <1>1, <1>2, <2>1, <2>2, <2>3, MasterOnly DEF MasterCount
<1>8. ASSUME MasterFallsOff PROVE OtaInv'
  <2>1. m' \in MasterRec /\ m'.q = m.q /\ m'.tx = m.tx /\ m'.st = "OFF"
    BY <1>2, <1>8 DEF MasterFallsOff, MasterRec
  <2>2. UNCHANGED <<s, flashVars, press>>
    BY <1>8 DEF MasterFallsOff
  <2>3. QED
    BY <1>1, <1>2, <2>1, <2>2, MasterOnly DEF MasterCount
<1>9. QED
  BY <1>1, <1>4, <1>5, <1>6, <1>7, <1>8 DEF Master

-----------------------------------------------------------------------------
(* The slave.                                                               *)

\* What the loss of power leaves.
LEMMA DownTyped ==
  ASSUME s \in SlaveRec
  PROVE  /\ Down \in SlaveRec /\ Down.st = "DOWN" /\ Down.q = <<>> /\ Down.rf = "off"
         /\ Down.blk = 0 /\ Down.got = <<>> /\ Down.bank = s.bank
<1>1. 0 \in 0..BankLen /\ 0 \in 0..RetryMax /\ 0 \in Nat
  BY OtaAssumption
<1>2. <<>> \in Seq(MsgType) /\ <<>> \in Seq(Block \cup {Spoilt})
  OBVIOUS
<1>3. QED
  BY <1>1, <1>2, NoFrameTyped DEF Down, SlaveRec

\* The erase reaches one bank, whose flag goes with its first block.
LEMMA EraseTyped ==
  ASSUME flash \in [Bank -> [1..BankLen -> Block \cup {Blank, Spoilt}]],
         flag \in [Bank -> {"SET", "CLR", "FF"}],
         NEW b \in Bank, NEW n \in 0..EraseLen, FlashErase(b, n)
  PROVE  /\ flash' \in [Bank -> [1..BankLen -> Block \cup {Blank, Spoilt}]]
         /\ flag' \in [Bank -> {"SET", "CLR", "FF"}]
         /\ \A c \in Bank : c # b => flash'[c] = flash[c] /\ flag'[c] = flag[c]
         /\ \/ flag'[b] = "FF"
            \/ flag'[b] = flag[b] /\ \A k \in 1..BankLen : flash'[b][k] = flash[b][k]
         /\ \A k \in 1..n : flash'[b][k] = Blank
<1>1. /\ flash' = [flash EXCEPT ![b] =
                     [k \in 1..BankLen |-> IF k <= n THEN Blank ELSE flash[b][k]]]
      /\ flag' = IF n = 0 THEN flag ELSE [flag EXCEPT ![b] = "FF"]
  BY DEF FlashErase
<1>2. [k \in 1..BankLen |-> IF k <= n THEN Blank ELSE flash[b][k]]
        \in [1..BankLen -> Block \cup {Blank, Spoilt}]
  OBVIOUS
<1>3. flash' \in [Bank -> [1..BankLen -> Block \cup {Blank, Spoilt}]]
      /\ \A c \in Bank : c # b => flash'[c] = flash[c]
  BY <1>1, <1>2
<1>4. \A k \in 1..BankLen : flash'[b][k] = IF k <= n THEN Blank ELSE flash[b][k]
  BY <1>1
<1>5. flag' \in [Bank -> {"SET", "CLR", "FF"}] /\ \A c \in Bank : c # b => flag'[c] = flag[c]
  BY <1>1
<1>6. flag'[b] = "FF" \/ (flag'[b] = flag[b] /\ n = 0)
  BY <1>1
<1>7. n \in Nat /\ EraseLen \in Nat /\ EraseLen <= BankLen /\ BankLen \in Nat
  BY OtaAssumption
<1>8. \A k \in 1..n : flash'[b][k] = Blank
  BY <1>4, <1>7
<1>9. n = 0 => \A k \in 1..BankLen : flash'[b][k] = flash[b][k]
  BY <1>4, <1>7
<1>10. QED
  BY <1>3, <1>5, <1>6, <1>8, <1>9

\* Blocks of a bank beyond the image do not matter, and an image fits a bank.
LEMMA WholeKept ==
  ASSUME NEW b \in Bank, \A k \in 1..BankLen : flash'[b][k] = flash[b][k], Whole(b)
  PROVE  Whole(b)'
<1>1. PICK v \in Version : \A k \in 1..Blocks[v] : flash[b][k] = <<v, k>>
  BY DEF Whole
<1>2. \A k \in 1..Blocks[v] : k \in 1..BankLen
  <2>1. Blocks[v] \in 1..BankLen /\ BankLen \in Nat
    BY OtaAssumption
  <2>2. QED
    BY <2>1
<1>3. QED
  BY <1>1, <1>2 DEF Whole

\* An erase of the bank that the slave does not run from.
LEMMA EraseSafe ==
  ASSUME OtaInv, s.st \notin {"DOWN", "RUNAWAY"}, NEW b \in Bank, b # run, NEW n \in 0..EraseLen,
         FlashErase(b, n), UNCHANGED run
  PROVE  /\ flash' \in [Bank -> [1..BankLen -> Block \cup {Blank, Spoilt}]]
         /\ flag' \in [Bank -> {"SET", "CLR", "FF"}] /\ run' \in Bank
         /\ Intact' /\ Bootable' /\ flag'[run] = "SET"
         /\ flash'[run] = flash[run]
         /\ run = 1 \/ flag'[1] # "SET"
         /\ n # 0 => flag'[b] # "SET"
<1>1. /\ flash \in [Bank -> [1..BankLen -> Block \cup {Blank, Spoilt}]]
      /\ flag \in [Bank -> {"SET", "CLR", "FF"}] /\ run \in Bank
      /\ Intact /\ RunsFlagged
  BY TypeParts DEF OtaInv
<1>2. /\ flash' \in [Bank -> [1..BankLen -> Block \cup {Blank, Spoilt}]]
      /\ flag' \in [Bank -> {"SET", "CLR", "FF"}]
      /\ \A c \in Bank : c # b => flash'[c] = flash[c] /\ flag'[c] = flag[c]
      /\ \/ flag'[b] = "FF"
         \/ flag'[b] = flag[b] /\ \A k \in 1..BankLen : flash'[b][k] = flash[b][k]
  BY <1>1, EraseTyped
<1>3. flag'[run] = "SET" /\ flash'[run] = flash[run]
  BY <1>1, <1>2 DEF RunsFlagged
<1>4. Intact'
  <2>1. SUFFICES ASSUME NEW c \in Bank, flag'[c] = "SET" PROVE Whole(c)'
    BY DEF Intact
  <2>2. flag[c] = "SET" /\ \A k \in 1..BankLen : flash'[c][k] = flash[c][k]
    BY <1>2, <2>1
  <2>3. Whole(c)
    BY <1>1, <2>2 DEF Intact
  <2>4. QED
    BY <2>2, <2>3, WholeKept
<1>5. run = 1 \/ flag'[1] # "SET"
  BY <1>1, <1>2 DEF RunsFlagged, Bank
<1>6. n # 0 => flag'[b] # "SET"
  BY <1>1 DEF FlashErase
<1>7. QED
  BY <1>1, <1>2, <1>3, <1>4, <1>5, <1>6 DEF Bootable

LEMMA SlavePressStep ==
  ASSUME OtaInv, NEW n \in 0..EraseLen, SlavePress(n)
  PROVE  OtaInv' /\ flash'[run] = flash[run]
<1>1. /\ s \in SlaveRec /\ run \in Bank /\ s.st = "OFF" /\ FlashErase(Target, n)
      /\ UNCHANGED <<m, run, press>> /\ RunsFlagged /\ SlaveCount
      /\ Len(s.q) <= MsgQueueLen /\ \A i \in 1..Len(s.q) : Fits(s.q[i].f)
      /\ s' = IF n < EraseLen THEN Down
              ELSE [s EXCEPT !.st = "IDLE", !.blk = 0, !.retry = 0, !.got = <<>>,
                             !.bank = Target, !.rf = "off"]
  BY TypeParts DEF OtaInv, SlavePress, FramesFit
<1>2. Target \in Bank /\ Target # run /\ Target = 3 - run
  BY <1>1 DEF Target, RunsFlagged, Bank
<1>3. /\ flash' \in [Bank -> [1..BankLen -> Block \cup {Blank, Spoilt}]]
      /\ flag' \in [Bank -> {"SET", "CLR", "FF"}] /\ run' \in Bank
      /\ Intact' /\ Bootable' /\ flag'[run] = "SET"
      /\ run = 1 \/ flag'[1] # "SET"
      /\ n # 0 => flag'[Target] # "SET"
      /\ flash'[run] = flash[run]
  BY <1>1, <1>2, EraseSafe
<1>4. CASE n < EraseLen
  <2>1. s' = Down
    BY <1>1, <1>4
  <2>2. RunsFlagged' /\ SlaveCount' /\ s'.q = <<>>
    <3>1. s'.st = "DOWN" /\ s'.q = <<>> /\ s'.got = <<>> /\ s'.blk = 0
      BY <1>1, <2>1, DownTyped
    <3>2. QED
      BY <3>1 DEF RunsFlagged, SlaveCount, Active
  <2>3. Len(s'.q) <= MsgQueueLen /\ \A i \in 1..Len(s'.q) : Fits(s'.q[i].f)
    BY <2>2 DEF MsgQueueLen
  <2>4. QED
    BY <1>1, <1>3, <2>1, <2>2, <2>3, DownTyped, SlaveOnly
<1>5. CASE ~(n < EraseLen)
  <2>1. n # 0
    BY <1>5, OtaAssumption
  <2>2. 0 \in 0..BankLen /\ 0 \in 0..RetryMax /\ <<>> \in Seq(Block \cup {Spoilt})
    BY OtaAssumption
  <2>3. /\ s' \in SlaveRec /\ s'.st = "IDLE" /\ s'.q = s.q /\ s'.got = <<>> /\ s'.blk = 0
        /\ s'.bank = Target
    BY <1>1, <1>2, <1>5, <2>2 DEF SlaveRec
  <2>4. RunsFlagged'
    <3>1. run' = run /\ s'.bank = 3 - run' /\ flag'[s'.bank] # "SET"
      BY <1>1, <1>2, <1>3, <2>1, <2>3
    <3>2. flag'[run'] = "SET" /\ run' = IF flag'[1] = "SET" THEN 1 ELSE 2
      BY <1>1, <1>3, <3>1 DEF Bank
    <3>3. QED
      BY <3>1, <3>2 DEF RunsFlagged
  <2>5. SlaveCount'
    BY <2>3 DEF SlaveCount
  <2>6. QED
    BY <1>1, <1>3, <2>3, <2>4, <2>5, SlaveOnly
<1>6. QED
  BY <1>3, <1>4, <1>5


LEMMA PoppedFits ==
  ASSUME NEW q \in Seq(MsgType), Len(q) <= MsgQueueLen, \A i \in 1..Len(q) : Fits(q[i].f)
  PROVE  \A i \in 1..Len(Popped(q)) : Fits(Popped(q)[i].f)
<1>1. SUFFICES ASSUME NEW i \in 1..Len(Popped(q)) PROVE Fits(Popped(q)[i].f)
  OBVIOUS
<1>2. PICK j \in 1..Len(q) : Popped(q)[i] = q[j]
  BY PoppedTyped
<1>3. QED
  BY <1>2

\* A round of the slave that does not touch the flash: it keeps the bank and the
\* blocks, and its queue only gets shorter.
LEMMA SlaveRound ==
  ASSUME OtaInv, Active, UNCHANGED <<m, press, flash, flag, run>>,
         s' \in SlaveRec, s'.q \in {s.q, Popped(s.q)},
         s'.blk = s.blk, s'.got = s.got, s'.bank = s.bank
  PROVE  OtaInv'
<1>1. /\ s \in SlaveRec /\ s.q \in Seq(MsgType) /\ Len(s.q) <= MsgQueueLen
      /\ \A i \in 1..Len(s.q) : Fits(s.q[i].f)
  BY TypeParts DEF OtaInv, FramesFit, SlaveRec
<1>2. Len(s'.q) <= MsgQueueLen /\ \A i \in 1..Len(s'.q) : Fits(s'.q[i].f)
  BY <1>1, PoppedTyped, PoppedFits
<1>3. SlaveCount'
  BY DEF OtaInv, SlaveCount
<1>4. QED
  BY <1>2, <1>3, SlaveRam

LEMMA SlaveIdleStep ==
  ASSUME OtaInv, SlaveIdle, UNCHANGED <<m, run, press>>
  PROVE  OtaInv'
<1>1. s \in SlaveRec /\ Popped(s.q) \in Seq(MsgType)
  <2>1. s \in SlaveRec /\ s.q \in Seq(MsgType) /\ Len(s.q) <= MsgQueueLen
    BY TypeParts DEF OtaInv, SlaveRec
  <2>2. QED
    BY <2>1, PoppedTyped
<1>2. /\ s' \in SlaveRec /\ s'.q = Popped(s.q) /\ s'.blk = s.blk /\ s'.got = s.got
      /\ s'.bank = s.bank /\ UNCHANGED <<flash, flag>> /\ Active
  BY <1>1 DEF SlaveIdle, Listening, SlaveRec, Active
<1>3. QED
  BY <1>2, SlaveRound

\* Any message that does not bring a block.
LEMMA SlaveTalkStep ==
  ASSUME OtaInv, UNCHANGED <<m, run, press>>, s.q # <<>>,
         s.st \in {"FW_VERSION_READY", "START_READY", "DATA_READY", "END_READY"},
         NEW msg, NEW f \in FrameType,
         SlaveVersion(f) \/ SlaveAgain(f) \/ SlaveStartReq(f) \/ SlaveEndReq(f)
           \/ SlaveListen(msg, f)
  PROVE  OtaInv'
<1>1. /\ s \in SlaveRec /\ s.q \in Seq(MsgType) /\ Len(s.q) <= MsgQueueLen
      /\ s.tx \in FrameType /\ run \in Bank
      /\ flash \in [Bank -> [1..BankLen -> Block \cup {Blank, Spoilt}]]
  BY TypeParts DEF OtaInv, SlaveRec
<1>2. Tail(s.q) \in Seq(MsgType) /\ Popped(s.q) = Tail(s.q)
  BY <1>1, PoppedTyped
<1>3. f.num \in Nat /\ f.len \in Nat
  BY DEF FrameType
<1>4. 0 \in 0..RetryMax /\ RetryMax \in Nat /\ 0 \in Nat /\ 0 \in Version \cup {0}
  BY OtaAssumption
<1>5. /\ SlaveAccepts \in SlaveRec /\ SlaveAccepts.q = Tail(s.q)
      /\ SlaveAccepts.blk = s.blk /\ SlaveAccepts.got = s.got /\ SlaveAccepts.bank = s.bank
  BY <1>1, <1>2, <1>4 DEF SlaveAccepts, SlaveRec
<1>6. SUFFICES /\ s' \in SlaveRec /\ s'.q = Tail(s.q) /\ s'.blk = s.blk
               /\ s'.got = s.got /\ s'.bank = s.bank
  <2>1. UNCHANGED <<flash, flag>>
    BY DEF SlaveVersion, SlaveAgain, SlaveStartReq, SlaveEndReq, SlaveListen
  <2>2. Active
    BY DEF Active
  <2>3. QED
    BY <1>2, <1>6, <2>1, <2>2, SlaveRound
<1>7. CASE SlaveVersion(f)
  <2>1. FwVersion \in Nat
    <3>1. flash[run][1] \in Block \cup {Blank, Spoilt}
      <4>1. 1 \in 1..BankLen
        BY OtaAssumption
      <4>2. QED
        BY <1>1, <4>1
    <3>2. \A x \in Block \cup {Blank, Spoilt} : x[1] \in Nat
      BY OtaAssumption DEF Block, Blank, Spoilt
    <3>3. QED
      BY <3>1, <3>2 DEF FwVersion
  <2>2. Frame("VERSION_RSP", FwVersion, 0) \in FrameType
    BY <1>4, <2>1, FrameTyped DEF LenOf
  <2>3. s' = Sending([SlaveAccepts EXCEPT !.st = "START_READY"],
                     Frame("VERSION_RSP", FwVersion, 0))
    BY <1>7 DEF SlaveVersion
  <2>4. QED
    BY <1>5, <2>2, <2>3 DEF Sending, SlaveRec
<1>8. CASE SlaveAgain(f)
  <2>1. s' = Sending(SlaveAccepts, [s.tx EXCEPT !.len = f.len])
    BY <1>8 DEF SlaveAgain
  <2>2. [s.tx EXCEPT !.len = f.len] \in FrameType
    BY <1>1, <1>3 DEF FrameType
  <2>3. QED
    BY <1>5, <2>1, <2>2 DEF Sending, SlaveRec
<1>9. CASE SlaveStartReq(f)
  <2>1. Frame("START_RSP", 0, 0) \in FrameType
    BY <1>4, FrameTyped DEF LenOf
  <2>2. s' = Sending([SlaveAccepts EXCEPT !.st = "DATA_READY", !.max = f.num],
                     Frame("START_RSP", 0, 0))
    BY <1>9 DEF SlaveStartReq
  <2>3. QED
    BY <1>3, <1>5, <2>1, <2>2 DEF Sending, SlaveRec
<1>10. CASE SlaveEndReq(f)
  <2>1. Frame("END_RSP", 0, 0) \in FrameType
    BY <1>4, FrameTyped DEF LenOf
  <2>2. \/ s' = [SlaveAccepts EXCEPT !.st = "ERROR"]
        \/ s' = Sending([SlaveAccepts EXCEPT !.st = "END"], Frame("END_RSP", 0, 0))
    BY <1>10 DEF SlaveEndReq
  <2>3. QED
    BY <1>5, <2>1, <2>2 DEF Sending, SlaveRec
<1>11. CASE SlaveListen(msg, f)
  <2> DEFINE popped == [s EXCEPT !.q = Tail(@)]
  <2>1. s' = IF Exhausted(s.retry) THEN [popped EXCEPT !.st = "ERROR"]
             ELSE IF msg.type = "TX_DONE" THEN popped
             ELSE Listening([popped EXCEPT !.retry = Counted(@)])
    BY <1>11 DEF SlaveListen
  <2>2. /\ popped \in SlaveRec /\ popped.q = Tail(s.q) /\ popped.blk = s.blk
        /\ popped.got = s.got /\ popped.bank = s.bank /\ popped.retry = s.retry
    BY <1>1, <1>2 DEF SlaveRec
  <2> HIDE DEF popped
  <2>3. CASE Exhausted(s.retry)
    BY <2>1, <2>2, <2>3 DEF SlaveRec
  <2>4. CASE ~Exhausted(s.retry) /\ msg.type = "TX_DONE"
    BY <2>1, <2>2, <2>4
  <2>5. CASE ~Exhausted(s.retry) /\ msg.type # "TX_DONE"
    <3>1. s.retry + 1 \in 0..RetryMax
      BY <1>1, <1>4, <2>5 DEF Exhausted, SlaveRec
    <3>2. s' = [popped EXCEPT !.retry = s.retry + 1, !.rf = "rx"]
      BY <2>1, <2>2, <2>5 DEF Listening, Counted, SlaveRec
    <3>3. QED
      BY <2>2, <3>1, <3>2 DEF SlaveRec
  <2>6. QED
    BY <2>3, <2>4, <2>5
<1>12. QED
  BY <1>7, <1>8, <1>9, <1>10, <1>11

\* The slave writes the next block behind the last one, in the bank it does not
\* run from.
LEMMA SlaveWriteStep ==
  ASSUME OtaInv, UNCHANGED <<m, run, press>>, s.q # <<>>,
         NEW g \in FrameType, Fits(g), NEW f \in ReadAs(g), NextBlock(f),
         WriteBlock(f, Len(s.got) + 1)
  PROVE  OtaInv' /\ flash'[run] = flash[run]
<1>1. /\ s \in SlaveRec /\ s.q \in Seq(MsgType) /\ Len(s.q) <= MsgQueueLen
      /\ s.tx \in FrameType /\ run \in Bank /\ s.blk \in 0..BankLen /\ s.bank \in Bank
      /\ s.got \in Seq(Block \cup {Spoilt})
      /\ flash \in [Bank -> [1..BankLen -> Block \cup {Blank, Spoilt}]]
      /\ flag \in [Bank -> {"SET", "CLR", "FF"}]
      /\ SlaveCount /\ RunsFlagged /\ Bootable /\ Intact
      /\ \A i \in 1..Len(s.q) : Fits(s.q[i].f)
  BY TypeParts DEF OtaInv, FramesFit, SlaveRec
<1>2. s.st = "DATA_READY" /\ f.kind = "DATA" /\ f.num = s.blk + 1 /\ Active
  BY DEF NextBlock, Active
<1>3. f.kind = g.kind /\ f.ver = g.ver /\ (f = g \/ f.num \in 0..BankLen)
  BY <1>2, ReadTyped
<1>4. f.num \in 1..BankLen /\ f.ver \in Version /\ f.num \in Nat /\ f.num \in 0..BankLen
  <2>1. f.num \in 0..BankLen /\ f.ver \in Version /\ BankLen \in Nat
    BY <1>2, <1>3, OtaAssumption DEF Fits
  <2>2. QED
    BY <1>1, <1>2, <2>1
<1> DEFINE data == IF Complete(f) THEN <<f.ver, f.num>> ELSE Spoilt
           k == Len(s.got) + 1
<1>5. data \in Block \cup {Spoilt}
  BY <1>4 DEF Block
<1>6. k = f.num /\ k \in 1..BankLen
  BY <1>1, <1>2, <1>4 DEF SlaveCount
<1>7. s.bank # run /\ flag[s.bank] # "SET"
  BY <1>1, <1>2 DEF RunsFlagged, Bank
<1>8. UNCHANGED flag /\
      \/ /\ flash' = [flash EXCEPT ![s.bank][k] = Written(@, data)]
         /\ s' = Sending([SlaveAccepts EXCEPT
                            !.blk = f.num, !.got = Append(@, data),
                            !.st = IF f.num = s.max THEN "END_READY" ELSE @],
                         Frame("ACK", f.num, 0))
      \/ flash' = [flash EXCEPT ![s.bank][k] = Spoilt] /\ s' = Down
  BY DEF WriteBlock
<1> HIDE DEF data, k
<1>9. PICK x \in Block \cup {Blank, Spoilt} : flash' = [flash EXCEPT ![s.bank][k] = x]
  <2>1. flash[s.bank][k] \in Block \cup {Blank, Spoilt}
    BY <1>1, <1>6
  <2>2. Written(flash[s.bank][k], data) \in Block \cup {Blank, Spoilt}
    BY <1>5, <2>1 DEF Written
  <2>3. QED
    BY <1>8, <2>2
<1>10. /\ flash' \in [Bank -> [1..BankLen -> Block \cup {Blank, Spoilt}]]
       /\ \A c \in Bank : c # s.bank => flash'[c] = flash[c]
  BY <1>1, <1>6, <1>9
<1>11. Intact' /\ Bootable' /\ flash'[run] = flash[run]
  <2>1. ASSUME NEW c \in Bank, flag[c] = "SET" PROVE Whole(c)'
    <3>1. Whole(c) /\ c # s.bank
      BY <1>1, <1>2, <1>7, <2>1 DEF Intact
    <3>2. QED
      BY <1>10, <3>1, WholeKept
  <2>2. QED
    BY <1>1, <1>2, <1>7, <1>8, <1>10, <2>1 DEF Intact, Bootable
<1>12. CASE s' = Down
  <2>1. RunsFlagged' /\ SlaveCount' /\ s'.q = <<>>
    BY <1>1, <1>12, DownTyped DEF RunsFlagged, SlaveCount, Active
  <2>2. Len(s'.q) <= MsgQueueLen /\ \A i \in 1..Len(s'.q) : Fits(s'.q[i].f)
    BY <2>1 DEF MsgQueueLen
  <2>3. QED
    BY <1>1, <1>8, <1>10, <1>11, <1>12, <2>1, <2>2, DownTyped, SlaveOnly
<1>13. CASE s' # Down
  <2>1. s' = Sending([SlaveAccepts EXCEPT
                        !.blk = f.num, !.got = Append(@, data),
                        !.st = IF f.num = s.max THEN "END_READY" ELSE @],
                     Frame("ACK", f.num, 0))
    BY <1>8, <1>13
  <2>2. Tail(s.q) \in Seq(MsgType) /\ Len(Tail(s.q)) <= MsgQueueLen
        /\ \A i \in 1..Len(Tail(s.q)) : Fits(Tail(s.q)[i].f)
    BY <1>1, PoppedTyped, PoppedFits
  <2>3. 0 \in 0..RetryMax
    BY OtaAssumption
  <2>4. /\ SlaveAccepts \in SlaveRec /\ SlaveAccepts.q = Tail(s.q) /\ SlaveAccepts.st = s.st
        /\ SlaveAccepts.got = s.got /\ SlaveAccepts.bank = s.bank
    BY <1>1, <2>2, <2>3 DEF SlaveAccepts, SlaveRec
  <2>5. Frame("ACK", f.num, 0) \in FrameType
    BY <1>4, FrameTyped DEF LenOf
  <2>6. Append(s.got, data) \in Seq(Block \cup {Spoilt}) /\ Len(Append(s.got, data)) = k
    BY <1>1, <1>5 DEF k
  <2>7. /\ s' \in SlaveRec /\ s'.q = Tail(s.q) /\ s'.bank = s.bank /\ s'.blk = f.num
        /\ s'.got = Append(s.got, data) /\ s'.st \in {"DATA_READY", "END_READY"}
    BY <1>2, <1>4, <2>1, <2>4, <2>5, <2>6 DEF Sending, SlaveRec
  <2>8. SlaveCount'
    BY <1>6, <2>6, <2>7 DEF SlaveCount
  <2>9. RunsFlagged'
    BY <1>1, <1>2, <1>8, <2>7 DEF RunsFlagged, Active
  <2>10. QED
    BY <1>1, <1>8, <1>10, <1>11, <2>2, <2>7, <2>8, <2>9, SlaveOnly
<1>14. QED
  BY <1>11, <1>12, <1>13

\* A cut block: the write that does not end stays in the target bank, which loses
\* nothing that is flagged, or leaves the slave where nothing is promised.
LEMMA SlaveRunAwayStep ==
  ASSUME OtaInv, UNCHANGED <<m, run, press>>, NEW f, NextBlock(f),
         NEW n \in 1..2 * BankLen, RunAway(Len(s.got) + 1, n)
  PROVE  OtaInv' /\ (s'.st # "RUNAWAY" => flash'[run] = flash[run])
<1>1. /\ s \in SlaveRec /\ run \in Bank /\ s.bank \in Bank
      /\ flash \in [Bank -> [1..BankLen -> Block \cup {Blank, Spoilt}]]
      /\ flag \in [Bank -> {"SET", "CLR", "FF"}]
      /\ RunsFlagged /\ Bootable /\ Intact
  BY TypeParts DEF OtaInv, SlaveRec
<1>2. s.st = "DATA_READY" /\ Active
  BY DEF NextBlock, Active
<1>3. s.bank # run /\ flag[s.bank] # "SET" /\ 3 - s.bank \in Bank
  BY <1>1, <1>2 DEF RunsFlagged, Bank
<1> DEFINE k == Len(s.got) + 1
           Reached(b, i) == IF b = s.bank THEN i \in k..k + n - 1 ELSE BankLen + i < k + n
<1>4. flash' = [b \in Bank |-> [i \in 1..BankLen |->
                  IF Reached(b, i) THEN Spoilt ELSE flash[b][i]]]
  BY DEF RunAway
<1>5. k \in Nat /\ BankLen \in Nat /\ n \in Nat
  BY <1>1, OtaAssumption DEF SlaveRec
<1>6. \A b \in Bank, i \in 1..BankLen :
        b # s.bank /\ Reached(b, i) => ~(k + n <= BankLen + 1)
  BY <1>5
<1>7. /\ IF k + n <= BankLen + 1 THEN s' = Down /\ UNCHANGED flag
         ELSE /\ s' = [Down EXCEPT !.st = "RUNAWAY"]
              /\ flag' \in {flag, [flag EXCEPT ![3 - s.bank] = "CLR"]}
  BY DEF RunAway
<1> HIDE DEF k, Reached
<1>8. flash' \in [Bank -> [1..BankLen -> Block \cup {Blank, Spoilt}]]
  BY <1>1, <1>4
<1>9. CASE k + n <= BankLen + 1
  <2>1. s' = Down /\ UNCHANGED flag
    BY <1>7, <1>9
  <2>2. s'.st = "DOWN" /\ s'.q = <<>> /\ s'.got = <<>> /\ s'.blk = 0 /\ s' \in SlaveRec
    BY <1>1, <2>1, DownTyped
  <2>3. \A b \in Bank : b # s.bank => flash'[b] = flash[b]
    <3>1. SUFFICES ASSUME NEW b \in Bank, b # s.bank PROVE flash'[b] = flash[b]
      OBVIOUS
    <3>2. flash'[b] = [i \in 1..BankLen |-> flash[b][i]]
      <4>1. \A i \in 1..BankLen : ~Reached(b, i)
        BY <1>6, <1>9, <3>1
      <4>2. QED
        BY <1>4, <4>1
    <3>3. flash[b] \in [1..BankLen -> Block \cup {Blank, Spoilt}]
      BY <1>1
    <3>4. QED
      BY <3>2, <3>3
  <2>4. Intact' /\ Bootable' /\ flash'[run] = flash[run]
    <3>1. ASSUME NEW c \in Bank, flag[c] = "SET" PROVE Whole(c)'
      <4>1. Whole(c) /\ c # s.bank
        BY <1>1, <1>2, <1>3, <3>1 DEF Intact
      <4>2. QED
        BY <2>3, <4>1, WholeKept
    <3>2. QED
      BY <1>1, <1>2, <1>3, <2>1, <2>3, <3>1 DEF Intact, Bootable
  <2>5. RunsFlagged' /\ SlaveCount'
    BY <2>2 DEF RunsFlagged, SlaveCount, Active
  <2>6. Len(s'.q) <= MsgQueueLen /\ \A i \in 1..Len(s'.q) : Fits(s'.q[i].f)
    BY <2>2 DEF MsgQueueLen
  <2>7. QED
    BY <1>1, <1>8, <2>1, <2>2, <2>4, <2>5, <2>6, SlaveOnly
<1>10. CASE ~(k + n <= BankLen + 1)
  <2>1. /\ s' = [Down EXCEPT !.st = "RUNAWAY"]
        /\ flag' \in {flag, [flag EXCEPT ![3 - s.bank] = "CLR"]}
    BY <1>7, <1>10
  <2>2. /\ s'.st = "RUNAWAY" /\ s'.q = <<>> /\ s'.got = <<>> /\ s'.blk = 0
        /\ s' \in SlaveRec
    BY <1>1, <2>1, DownTyped DEF SlaveRec
  <2>3. flag' \in [Bank -> {"SET", "CLR", "FF"}]
    BY <1>1, <1>3, <2>1
  <2>4. RunsFlagged' /\ SlaveCount' /\ Intact' /\ Bootable'
    BY <2>2 DEF RunsFlagged, SlaveCount, Active, Intact, Bootable
  <2>5. Len(s'.q) <= MsgQueueLen /\ \A i \in 1..Len(s'.q) : Fits(s'.q[i].f)
    BY <2>2 DEF MsgQueueLen
  <2>6. QED
    BY <1>1, <1>8, <2>2, <2>3, <2>4, <2>5, SlaveOnly
<1>11. QED
  BY <1>9, <1>10

LEMMA SlaveWaitStep ==
  ASSUME OtaInv, SlaveWait, UNCHANGED <<m, run, press>>
  PROVE  OtaInv' /\ (s'.st # "RUNAWAY" => flash'[run] = flash[run])
<1>1. /\ s.st \in {"FW_VERSION_READY", "START_READY", "DATA_READY", "END_READY"}
      /\ s.q # <<>>
  BY DEF SlaveWait
<1>2. PICK f \in IF Head(s.q).type = "DATA" THEN ReadAs(Head(s.q).f) ELSE {NoFrame} :
        SlaveVersion(f) \/ SlaveAgain(f) \/ SlaveStartReq(f) \/ SlaveBlock(f)
        \/ SlaveEndReq(f) \/ SlaveListen(Head(s.q), f)
  BY DEF SlaveWait
<1>3. Head(s.q) \in MsgType /\ Head(s.q).f \in FrameType /\ Fits(Head(s.q).f)
  <2>1. /\ s.q \in Seq(MsgType) /\ Len(s.q) <= MsgQueueLen
        /\ \A i \in 1..Len(s.q) : Fits(s.q[i].f)
    BY TypeParts DEF OtaInv, FramesFit, SlaveRec
  <2>2. QED
    BY <1>1, <2>1, PoppedTyped DEF MsgType
<1>4. f \in FrameType
  BY <1>2, <1>3, ReadTyped, NoFrameTyped
<1>5. CASE SlaveBlock(f)
  <2>1. f \in ReadAs(Head(s.q).f)
    BY <1>2, <1>5, NoFrameTyped DEF SlaveBlock, NextBlock
  <2>2. NextBlock(f) /\ TakeBlock(f)
    BY <1>5 DEF SlaveBlock
  <2>3. \/ WriteBlock(f, Len(s.got) + 1)
        \/ \E n \in 1..2 * BankLen : RunAway(Len(s.got) + 1, n)
    BY <2>2 DEF TakeBlock
  <2>4. QED
    BY <1>1, <1>3, <2>1, <2>2, <2>3, SlaveWriteStep, SlaveRunAwayStep
<1>6. CASE ~SlaveBlock(f)
  <2>1. UNCHANGED flash
    BY <1>2, <1>6 DEF SlaveVersion, SlaveAgain, SlaveStartReq, SlaveEndReq, SlaveListen
  <2>2. QED
    BY <1>1, <1>2, <1>4, <1>6, <2>1, SlaveTalkStep
<1>7. QED
  BY <1>5, <1>6

\* The CRC check is what makes the swap of the flags safe.
LEMMA SlaveEndStep ==
  ASSUME OtaInv, NEW both \in BOOLEAN, SlaveEnd(both), UNCHANGED <<m, run, press>>
  PROVE  OtaInv'
<1>1. /\ s \in SlaveRec /\ s.q \in Seq(MsgType) /\ Len(s.q) <= MsgQueueLen
      /\ s.st = "END" /\ Active /\ s.bank \in Bank /\ run \in Bank /\ UNCHANGED flash
      /\ flash \in [Bank -> [1..BankLen -> Block \cup {Blank, Spoilt}]]
      /\ flag \in [Bank -> {"SET", "CLR", "FF"}]
      /\ RunsFlagged /\ Bootable /\ Intact
  BY TypeParts DEF OtaInv, SlaveRec, SlaveEnd, Active
<1>2. CASE CrcMatch
  <2>1. s' = Down /\ flag' = SwapFlags(s.bank, both)
    BY <1>2 DEF SlaveEnd
  <2>2. s'.st = "DOWN" /\ s'.q = <<>> /\ s'.got = <<>> /\ s'.blk = 0 /\ s' \in SlaveRec
    BY <1>1, <2>1, DownTyped
  <2>3. 3 - s.bank \in Bank /\ 3 - s.bank # s.bank
    BY <1>1 DEF Bank
  <2>4. /\ flag' \in [Bank -> {"SET", "CLR", "FF"}] /\ flag'[s.bank] = "SET"
        /\ \A b \in Bank : flag'[b] = "SET" => b = s.bank \/ flag[b] = "SET"
    BY <1>1, <2>1, <2>3 DEF SwapFlags
  <2>5. Whole(s.bank)
    BY <1>2 DEF CrcMatch, Whole
  <2>6. \A b \in Bank : flag'[b] = "SET" => Whole(b)
    BY <1>1, <2>4, <2>5 DEF Intact
  <2>7. Intact' /\ Bootable'
    BY <1>1, <2>4, <2>6 DEF Intact, Bootable, Whole
  <2>8. RunsFlagged' /\ SlaveCount'
    BY <2>2 DEF RunsFlagged, SlaveCount, Active
  <2>9. Len(s'.q) <= MsgQueueLen /\ \A i \in 1..Len(s'.q) : Fits(s'.q[i].f)
    BY <2>2 DEF MsgQueueLen
  <2>10. QED
    BY <1>1, <2>2, <2>4, <2>7, <2>8, <2>9, SlaveOnly
<1>3. CASE ~CrcMatch
  <2>1. s' = [s EXCEPT !.st = "ERROR", !.q = Popped(@)] /\ UNCHANGED flag
    BY <1>3 DEF SlaveEnd
  <2>2. Popped(s.q) \in Seq(MsgType)
    BY <1>1, PoppedTyped
  <2>3. /\ s' \in SlaveRec /\ s'.q = Popped(s.q) /\ s'.blk = s.blk /\ s'.got = s.got
        /\ s'.bank = s.bank
    BY <1>1, <2>1, <2>2 DEF SlaveRec
  <2>4. QED
    BY <1>1, <2>1, <2>3, SlaveRound
<1>4. QED
  BY <1>2, <1>3

LEMMA SlaveErrorStep ==
  ASSUME OtaInv, NEW n \in 0..EraseLen, SlaveError(n), UNCHANGED <<m, run, press>>
  PROVE  OtaInv' /\ flash'[run] = flash[run]
<1>1. /\ s \in SlaveRec /\ s.q \in Seq(MsgType) /\ Len(s.q) <= MsgQueueLen
      /\ s.st = "ERROR" /\ Active /\ s.bank \in Bank /\ run \in Bank
      /\ FlashErase(s.bank, n) /\ RunsFlagged /\ SlaveCount
      /\ \A i \in 1..Len(s.q) : Fits(s.q[i].f)
      /\ s' = IF n < EraseLen THEN Down ELSE [s EXCEPT !.st = "OFF", !.q = Popped(@)]
  BY TypeParts DEF OtaInv, FramesFit, SlaveRec, SlaveError, Active
<1>2. s.bank # run
  BY <1>1 DEF RunsFlagged, Bank
<1>3. /\ flash' \in [Bank -> [1..BankLen -> Block \cup {Blank, Spoilt}]]
      /\ flag' \in [Bank -> {"SET", "CLR", "FF"}] /\ run' \in Bank
      /\ Intact' /\ Bootable' /\ flag'[run] = "SET"
      /\ flash'[run] = flash[run]
      /\ run = 1 \/ flag'[1] # "SET"
  BY <1>1, <1>2, EraseSafe
<1>4. CASE n < EraseLen
  <2>1. s'.st = "DOWN" /\ s'.q = <<>> /\ s'.got = <<>> /\ s'.blk = 0 /\ s' \in SlaveRec
    BY <1>1, <1>4, DownTyped
  <2>2. RunsFlagged' /\ SlaveCount'
    BY <2>1 DEF RunsFlagged, SlaveCount, Active
  <2>3. Len(s'.q) <= MsgQueueLen /\ \A i \in 1..Len(s'.q) : Fits(s'.q[i].f)
    BY <2>1 DEF MsgQueueLen
  <2>4. QED
    BY <1>1, <1>3, <2>1, <2>2, <2>3, SlaveOnly
<1>5. CASE ~(n < EraseLen)
  <2>1. Popped(s.q) \in Seq(MsgType) /\ Len(Popped(s.q)) <= MsgQueueLen
        /\ \A i \in 1..Len(Popped(s.q)) : Fits(Popped(s.q)[i].f)
    BY <1>1, PoppedTyped, PoppedFits
  <2>2. s' = [s EXCEPT !.st = "OFF", !.q = Popped(@)]
    BY <1>1, <1>5
  <2>3. /\ s' \in SlaveRec /\ s'.st = "OFF" /\ s'.q = Popped(s.q)
        /\ s'.got = s.got /\ s'.blk = s.blk
    BY <1>1, <2>1, <2>2 DEF SlaveRec
  <2>4. SlaveCount'
    BY <1>1, <2>3 DEF SlaveCount
  <2>5. RunsFlagged'
    <3>1. flag'[run'] = "SET" /\ run' = IF flag'[1] = "SET" THEN 1 ELSE 2
      BY <1>1, <1>3 DEF Bank
    <3>2. QED
      BY <2>3, <3>1 DEF RunsFlagged, Active
  <2>6. QED
    BY <1>1, <1>3, <2>1, <2>3, <2>4, <2>5, SlaveOnly
<1>6. QED
  BY <1>3, <1>4, <1>5

LEMMA SlaveStartStep ==
  ASSUME OtaInv, SlaveStart
  PROVE  OtaInv' /\ (s'.st # "RUNAWAY" => flash'[run] = flash[run])
<1>1. UNCHANGED <<m, run, press>>
  BY DEF SlaveStart
<1>2. CASE SlaveIdle
  BY <1>1, <1>2, SlaveIdleStep DEF SlaveIdle
<1>3. CASE SlaveWait
  BY <1>1, <1>3, SlaveWaitStep
<1>4. ASSUME NEW both \in BOOLEAN, SlaveEnd(both) PROVE OtaInv' /\ flash'[run] = flash[run]
  BY <1>1, <1>4, SlaveEndStep DEF SlaveEnd
<1>5. ASSUME NEW n \in 0..EraseLen, SlaveError(n) PROVE OtaInv' /\ flash'[run] = flash[run]
  BY <1>1, <1>5, SlaveErrorStep
<1>6. QED
  BY <1>2, <1>3, <1>4, <1>5 DEF SlaveStart

LEMMA PowerStep ==
  ASSUME OtaInv, PowerFail \/ Boot
  PROVE  OtaInv'
<1>1. /\ s \in SlaveRec /\ s.q \in Seq(MsgType) /\ Len(s.q) <= MsgQueueLen
      /\ flash \in [Bank -> [1..BankLen -> Block \cup {Blank, Spoilt}]]
      /\ flag \in [Bank -> {"SET", "CLR", "FF"}]
      /\ Bootable /\ Intact /\ SlaveCount
      /\ \A i \in 1..Len(s.q) : Fits(s.q[i].f)
  BY TypeParts DEF OtaInv, FramesFit, SlaveRec
<1>2. CASE PowerFail
  <2>1. s' = Down /\ s.st # "RUNAWAY" /\ UNCHANGED <<m, press, flash, flag, run>>
    BY <1>2 DEF PowerFail, flashVars
  <2>2. s'.st = "DOWN" /\ s'.q = <<>> /\ s'.got = <<>> /\ s'.blk = 0 /\ s' \in SlaveRec
    BY <1>1, <2>1, DownTyped
  <2>3. Len(s'.q) <= MsgQueueLen /\ \A i \in 1..Len(s'.q) : Fits(s'.q[i].f)
    BY <2>2 DEF MsgQueueLen
  <2>4. SlaveCount'
    BY <2>2 DEF SlaveCount
  <2>5. QED
    BY <2>1, <2>2, <2>3, <2>4, SlaveRam
<1>3. CASE Boot
  <2>1. /\ s' = [s EXCEPT !.st = "OFF"] /\ UNCHANGED <<m, press, flash, flag>>
        /\ s.st = "DOWN" /\ run' = IF flag[1] = "SET" THEN 1 ELSE 2
    BY <1>3 DEF Boot
  <2>2. s' \in SlaveRec /\ s'.st = "OFF" /\ s'.q = s.q /\ s'.got = s.got /\ s'.blk = s.blk
    BY <1>1, <2>1 DEF SlaveRec
  <2>3. run' \in Bank /\ flag[run'] = "SET"
    BY <1>1, <2>1 DEF Bootable, Bank
  <2>4. RunsFlagged' /\ SlaveCount'
    BY <1>1, <2>1, <2>2, <2>3 DEF RunsFlagged, SlaveCount, Active
  <2>5. Bootable' /\ Intact'
    BY <1>1, <2>1 DEF Bootable, Intact, Whole
  <2>6. QED
    BY <1>1, <2>1, <2>2, <2>3, <2>4, <2>5, SlaveOnly
<1>4. QED
  BY <1>2, <1>3


-----------------------------------------------------------------------------
(* The theorems.                                                            *)

LEMMA OtaInit == Init => OtaInv
<1>1. SUFFICES ASSUME Init PROVE OtaInv
  OBVIOUS
<1>2. /\ Factory \in Version /\ BankLen \in Nat /\ Blocks[Factory] \in 1..BankLen
      /\ 0 \in 0..BankLen /\ 0 \in 0..RetryMax /\ 0 \in 0..MaxPress /\ 0 \in Nat
  BY OtaAssumption
<1>3. <<>> \in Seq(MsgType) /\ <<>> \in Seq(Block \cup {Spoilt})
  OBVIOUS
<1>4. m \in MasterRec /\ m.st = "OFF" /\ m.q = <<>> /\ m.tx = NoFrame
  BY <1>1, <1>2, <1>3, NoFrameTyped DEF Init, MasterRec
<1>5. s \in SlaveRec /\ s.st = "OFF" /\ s.q = <<>> /\ s.got = <<>> /\ s.blk = 0
  BY <1>1, <1>2, <1>3, NoFrameTyped DEF Init, SlaveRec, Bank
<1>6. /\ flash \in [Bank -> [1..BankLen -> Block \cup {Blank, Spoilt}]]
      /\ \A k \in 1..Blocks[Factory] : flash[1][k] = <<Factory, k>>
  <2>1. \A k \in 1..BankLen : <<Factory, k>> \in Block
    BY <1>2 DEF Block
  <2>2. \A b \in Bank : [k \in 1..BankLen |->
            IF b = 1 /\ k <= Blocks[Factory] THEN <<Factory, k>> ELSE Blank]
          \in [1..BankLen -> Block \cup {Blank, Spoilt}]
    BY <2>1
  <2>3. flash \in [Bank -> [1..BankLen -> Block \cup {Blank, Spoilt}]]
    BY <1>1, <2>2 DEF Init
  <2>4. \A k \in 1..Blocks[Factory] : k \in 1..BankLen /\ k <= Blocks[Factory]
    BY <1>2
  <2>5. \A k \in 1..BankLen : k <= Blocks[Factory] => flash[1][k] = <<Factory, k>>
    BY <1>1 DEF Init, Bank
  <2>6. QED
    BY <2>3, <2>4, <2>5
<1>7. /\ flag \in [Bank -> {"SET", "CLR", "FF"}] /\ flag[1] = "SET" /\ flag[2] # "SET"
      /\ run = 1 /\ run \in Bank /\ press \in 0..MaxPress
  BY <1>1, <1>2 DEF Init, Bank
<1>8. TypeOK
  BY <1>4, <1>5, <1>6, <1>7, TypeParts DEF MsgQueueLen
<1>9. Whole(1)
  BY <1>2, <1>6 DEF Whole
<1>10. Intact /\ Bootable
  BY <1>7, <1>9 DEF Intact, Bootable, Bank
<1>11. FramesFit /\ MasterCount /\ SlaveCount /\ RunsFlagged
  BY <1>4, <1>5, <1>7, NoFrameTyped
    DEF FramesFit, Fits, MasterCount, SlaveCount, RunsFlagged, Active
<1>12. QED
  BY <1>8, <1>10, <1>11 DEF OtaInv

LEMMA OtaStep ==
  ASSUME OtaInv, [Next]_vars
  PROVE  OtaInv' /\ (s.st # "DOWN" /\ s'.st # "RUNAWAY" => flash'[run] = flash[run])
<1>1. CASE Radio
  <2>1. UNCHANGED flash
    BY <1>1 DEF Radio, MasterTx, SlaveTx, MasterTimeout, SlaveTimeout, flashVars
  <2>2. QED
    BY <1>1, <2>1, RadioStep
<1>2. CASE Master
  <2>1. UNCHANGED flash
    BY <1>2 DEF Master, MasterPress, MasterIdle, MasterWait, MasterLeave, MasterFallsOff,
         flashVars
  <2>2. QED
    BY <1>2, <2>1, MasterStep
<1>3. ASSUME NEW n \in 0..EraseLen, SlavePress(n)
      PROVE  OtaInv' /\ flash'[run] = flash[run]
  BY <1>3, SlavePressStep
<1>4. CASE SlaveStart
  BY <1>4, SlaveStartStep
<1>5. CASE PowerFail
  BY <1>5, PowerStep DEF PowerFail, flashVars
<1>6. CASE Boot
  BY <1>6, PowerStep DEF Boot
<1>7. CASE UNCHANGED vars
  <2>1. UNCHANGED <<m, s, flash, flag, run, press>>
    BY <1>7 DEF vars
  <2>2. TypeOK'
    BY <2>1 DEF OtaInv, TypeOK
  <2>3. FramesFit' /\ MasterCount' /\ SlaveCount'
    BY <2>1 DEF OtaInv, FramesFit, MasterCount, SlaveCount
  <2>4. RunsFlagged' /\ Bootable' /\ Intact'
    BY <2>1 DEF OtaInv, RunsFlagged, Active, Bootable, Intact, Whole
  <2>5. QED
    BY <2>1, <2>2, <2>3, <2>4 DEF OtaInv
<1>8. QED
  BY <1>1, <1>2, <1>3, <1>4, <1>5, <1>6, <1>7 DEF Next

\* The inductive invariant holds in every reachable state.
THEOREM OtaInductive == Spec => []OtaInv
<1>1. OtaInv /\ [Next]_vars => OtaInv'
  BY OtaStep
<1>2. QED
  BY <1>1, OtaInit, PTL DEF Spec

\* Types of the control blocks, the message queues, which never outgrow
\* MSG_QUEUE_LEN, the retry counters, which OTA_RETRY_MAX stops although it is
\* tested with == only, and the flash.
THEOREM OtaTypeCorrect == Spec => []TypeOK
<1>1. OtaInv => TypeOK
  BY DEF OtaInv
<1>2. QED
  BY <1>1, OtaInductive, PTL

=============================================================================
