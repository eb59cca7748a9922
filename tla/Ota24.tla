------------------------------- MODULE Ota24 -------------------------------
(***************************************************************************)
(* The unicast firmware update over the 2.4 GHz radio                        *)
(* (vendor/2p4g_feature_test/2p4g_ota): a master that sends an image from    *)
(* its flash block by block, stop and wait, and a slave that writes it to    *)
(* the bank it does not run from, checks it and swaps the boot flags.        *)
(*                                                                           *)
(* Each side is one main loop that pops a message of its radio interrupts    *)
(* per round. The radio (the genfsk library, external) sends one frame and   *)
(* then listens for one; a frame is received, damaged or lost, and a         *)
(* listening window may close at any moment. Power of the slave may fail     *)
(* between any two flash operations.                                         *)
(***************************************************************************)
EXTENDS Naturals, Sequences, FiniteSets

CONSTANTS Version,   \* versions of firmware, naturals above 0
          Factory,   \* the version in bank 1 at first
          Blocks,    \* Blocks[v]: MaxBlockNum of the image of version v
          BankLen,   \* blocks of one bank
          EraseLen,  \* blocks that OTA_FlashErase erases
          RetryMax,  \* OTA_RETRY_MAX
          MaxPress   \* bound on the key presses that start the master

ASSUME OtaAssumption ==
  /\ Version \subseteq Nat \ {0}
  /\ Factory \in Version
  /\ BankLen \in Nat \ {0}
  /\ EraseLen \in 1..BankLen
  /\ Blocks \in [Version -> 1..BankLen]
  /\ RetryMax \in Nat \ {0}
  /\ MaxPress \in Nat

VARIABLES m,      \* the master: MasterCtrl, TxFrame, MsgQueue, radio
          s,      \* the slave: SlaveCtrl, TxFrame, MsgQueue, radio
          flash,  \* flash[b][k]: block k of bank b of the slave
          flag,   \* flag[b]: the boot flag of bank b
          run,    \* the bank the slave runs from
          press   \* key presses of the master so far

vars == <<m, s, flash, flag, run, press>>
flashVars == <<flash, flag, run>>

Bank == {1, 2}
Blank == <<0, 1>>   \* erased
Spoilt == <<0, 2>>  \* written over or half written
Block == {<<v, k>> : v \in Version, k \in 1..BankLen}

\* The blocks of an image, the CRC at its end included.
Image(v) == [k \in 1..Blocks[v] |-> <<v, k>>]

\* Bank b holds a complete image.
Whole(b) == \E v \in Version : \A k \in 1..Blocks[v] : flash[b][k] = <<v, k>>

\* The version a slave reports: that of the bank it runs from.
FwVersion == flash[run][1][1]

-----------------------------------------------------------------------------
(* Frames. `len` is the length given to MAC_SendData, the static Len of each  *)
(* side: for a repeated frame it is not the length it was built with.        *)

LenOf == [VERSION_REQ |-> 2, VERSION_RSP |-> 6, START_REQ |-> 4, START_RSP |-> 2,
          DATA |-> 51, ACK |-> 3, END_REQ |-> 6, END_RSP |-> 2]

\* OTA_BuildCmdFrame, OTA_BuildDataFrame, OTA_BuildAckFrame: num is the
\* argument, ver the version whose block a data frame carries.
Frame(kind, num, ver) == [kind |-> kind, num |-> num, ver |-> ver, len |-> LenOf[kind]]

Complete(f) == f.len >= LenOf[f.kind]

\* What a side reads of a frame it has received. Of one cut short before the end
\* of its number the number is, in part, what RxFrame held before.
NumLen == [LenOf EXCEPT !.DATA = 3]
ReadAs(f) ==
  IF f.len >= NumLen[f.kind] THEN {f}
  ELSE {[f EXCEPT !.num = n] :
          n \in IF f.kind = "VERSION_RSP" THEN Version \cup {0} ELSE 0..BankLen}

NoFrame == [kind |-> "NONE", num |-> 0, ver |-> 0, len |-> 0]
Msg(type, f) == [type |-> type, f |-> f]

\* OTA_MsgQueuePush: a full queue drops the message.
MsgQueueLen == 4
Push(q, msg) == IF Len(q) < MsgQueueLen THEN Append(q, msg) ELSE q

\* OTA_MsgQueuePop at the head of each round.
Popped(q) == IF q = <<>> THEN q ELSE Tail(q)

\* MAC_SendData: transmit, then listen. MAC_RecvData: listen.
Sending(side, f) == [side EXCEPT !.tx = f, !.rf = "tx"]
Listening(side) == [side EXCEPT !.rf = "rx"]

\* RetryTimes, and its test for equality with OTA_RETRY_MAX.
\* Mutant of Counted: the repetition is not counted.
CountedNot(n) == n
Counted(n) == n + 1

\* Mutant of Exhausted: one repetition too many.
ExhaustedLate(n) == n = RetryMax + 1
Exhausted(n) == n = RetryMax

-----------------------------------------------------------------------------
Init ==
  /\ m = [st |-> "OFF", blk |-> 0, retry |-> 0, ver |-> Factory,
          tx |-> NoFrame, q |-> <<>>, rf |-> "off"]
  /\ s = [st |-> "OFF", blk |-> 0, retry |-> 0, max |-> 0, got |-> <<>>, bank |-> 2,
          tx |-> NoFrame, q |-> <<>>, rf |-> "off"]
  /\ flash = [b \in Bank |-> [k \in 1..BankLen |->
                IF b = 1 /\ k <= Blocks[Factory] THEN <<Factory, k>> ELSE Blank]]
  /\ flag = [b \in Bank |-> IF b = 1 THEN "SET" ELSE "FF"]
  /\ run = 1
  /\ press = 0

-----------------------------------------------------------------------------
(* The radio. A side that has sent its frame listens; a frame reaches a side *)
(* that listens, which then stops.                                           *)

\* The end of a transmission of side a, and what side b gets of it.
Arrives(b, f, how) ==
  IF how = "lost" \/ b.rf # "rx" THEN b
  ELSE [b EXCEPT !.q = Push(@, IF how = "damaged" THEN Msg("INVALID_DATA", NoFrame)
                               ELSE Msg("DATA", f)),
                 !.rf = "off"]

Sent(a) == [a EXCEPT !.q = Push(@, Msg("TX_DONE", NoFrame)), !.rf = "rx"]

Closed(a) == [a EXCEPT !.q = Push(@, Msg("TIMEOUT", NoFrame)), !.rf = "off"]

MasterTx(how) ==
  /\ m.rf = "tx"
  /\ m' = Sent(m) /\ s' = Arrives(s, m.tx, how)
  /\ UNCHANGED <<flashVars, press>>

SlaveTx(how) ==
  /\ s.rf = "tx"
  /\ s' = Sent(s) /\ m' = Arrives(m, s.tx, how)
  /\ UNCHANGED <<flashVars, press>>

MasterTimeout ==
  /\ m.rf = "rx" /\ m' = Closed(m)
  /\ UNCHANGED <<s, flashVars, press>>

SlaveTimeout ==
  /\ s.rf = "rx" /\ s' = Closed(s)
  /\ UNCHANGED <<m, flashVars, press>>

Radio ==
  \/ \E how \in {"received", "damaged", "lost"} : MasterTx(how) \/ SlaveTx(how)
  \/ MasterTimeout \/ SlaveTimeout

-----------------------------------------------------------------------------
(* The master. *)

\* A key starts an update with one of the two images in the master's flash:
\* MAC_Init, OTA_MasterInit. The message queue keeps what it holds.
MasterPress(v) ==
  /\ m.st = "OFF" /\ press < MaxPress
  /\ press' = press + 1
  /\ m' = [m EXCEPT !.st = "IDLE", !.blk = 0, !.retry = 0, !.ver = v, !.rf = "off"]
  /\ UNCHANGED <<s, flashVars>>

\* OTA_MasterStart ends without a return statement: a round that reaches its
\* end (one without a message, or that has sent VERSION_REQ or a repetition)
\* returns any value, and 0 leaves the loop.
FallsOff(c) == {c, [c EXCEPT !.st = "OFF"]}

MasterIdle ==
  /\ m.st = "IDLE"
  /\ m' \in FallsOff(Sending([m EXCEPT !.q = Popped(@), !.st = "FW_VER_WAIT"],
                             Frame("VERSION_REQ", 0, 0)))
  /\ UNCHANGED <<s, flashVars, press>>

\* The frame the master waits for.
Awaited(f) ==
  \/ m.st = "FW_VER_WAIT" /\ f.kind = "VERSION_RSP"
  \/ m.st = "START_RSP_WAIT" /\ f.kind = "START_RSP"
  \/ m.st = "DATA_ACK_WAIT" /\ f.kind = "ACK" /\ f.num = m.blk
  \/ m.st = "END_RSP_WAIT" /\ f.kind = "END_RSP"

\* The control block after the frame has been accepted.
MasterAccepts == [m EXCEPT !.q = Tail(@), !.retry = 0]

NextData(c) == Sending([c EXCEPT !.blk = @ + 1], Frame("DATA", c.blk + 1, c.ver))

MasterVersion(f) ==
  /\ m.st = "FW_VER_WAIT" /\ Awaited(f)
  /\ m' = IF f.num < m.ver
          THEN Sending([MasterAccepts EXCEPT !.st = "START_RSP_WAIT"],
                       Frame("START_REQ", Blocks[m.ver], 0))
          ELSE [MasterAccepts EXCEPT !.st = "ERROR"]

MasterStartRsp(f) ==
  /\ m.st = "START_RSP_WAIT" /\ Awaited(f)
  /\ m' = NextData([MasterAccepts EXCEPT !.st = "DATA_ACK_WAIT"])

MasterAck(f) ==
  /\ m.st = "DATA_ACK_WAIT" /\ Awaited(f)
  /\ m' = IF m.blk = Blocks[m.ver]
          THEN Sending([MasterAccepts EXCEPT !.st = "END_RSP_WAIT"],
                       Frame("END_REQ", Blocks[m.ver], 0))
          ELSE NextData(MasterAccepts)

MasterEndRsp(f) ==
  /\ m.st = "END_RSP_WAIT" /\ Awaited(f)
  /\ m' = [MasterAccepts EXCEPT !.st = "END"]

\* Any other message, a TX_DONE too, meets the check of the retry counter;
\* any but TX_DONE repeats the frame, with the length of what was received.
MasterRetry(msg, f) ==
  LET popped == [m EXCEPT !.q = Tail(@)] IN
  /\ ~(msg.type = "DATA" /\ Awaited(f))
  /\ m' \in IF Exhausted(m.retry) THEN {[popped EXCEPT !.st = "ERROR"]}
            ELSE IF msg.type = "TX_DONE" THEN FallsOff(popped)
            ELSE FallsOff(Sending([popped EXCEPT !.retry = Counted(@)],
                   IF msg.type = "DATA" THEN [m.tx EXCEPT !.len = f.len] ELSE m.tx))

MasterWaiting == m.st \in {"FW_VER_WAIT", "START_RSP_WAIT", "DATA_ACK_WAIT", "END_RSP_WAIT"}

MasterWait ==
  /\ MasterWaiting /\ m.q # <<>>
  /\ LET msg == Head(m.q) IN
     \E f \in IF msg.type = "DATA" THEN ReadAs(msg.f) ELSE {NoFrame} :
       MasterVersion(f) \/ MasterStartRsp(f) \/ MasterAck(f) \/ MasterEndRsp(f)
       \/ MasterRetry(msg, f)
  /\ UNCHANGED <<s, flashVars, press>>

\* END and ERROR return 0: the loop is left.
MasterLeave ==
  /\ m.st \in {"END", "ERROR"}
  /\ m' = [m EXCEPT !.st = "OFF", !.q = Popped(@)]
  /\ UNCHANGED <<s, flashVars, press>>

\* A round without a message that returns 0.
MasterFallsOff ==
  /\ MasterWaiting /\ m.q = <<>>
  /\ m' = [m EXCEPT !.st = "OFF"]
  /\ UNCHANGED <<s, flashVars, press>>

Master ==
  \/ \E v \in Version : MasterPress(v)
  \/ MasterIdle \/ MasterWait \/ MasterLeave \/ MasterFallsOff

-----------------------------------------------------------------------------
(* The slave. *)

\* The loss of power: what RAM held is gone.
Down == [s EXCEPT !.st = "DOWN", !.q = <<>>, !.rf = "off", !.tx = NoFrame,
                  !.blk = 0, !.retry = 0, !.max = 0, !.got = <<>>]

\* Mutant of FlashErase: highest sector first.
FlashEraseBackward(b, n) ==
  /\ flash' = [flash EXCEPT ![b] =
                 [k \in 1..BankLen |-> IF k \in EraseLen - n + 1..EraseLen THEN Blank ELSE @[k]]]
  /\ flag' = IF n < EraseLen THEN flag ELSE [flag EXCEPT ![b] = "FF"]

\* OTA_FlashErase of bank b, lowest sector first, cut off after n blocks. The
\* boot flag lies in the first block.
FlashErase(b, n) ==
  /\ flash' = [flash EXCEPT ![b] = [k \in 1..BankLen |-> IF k <= n THEN Blank ELSE @[k]]]
  /\ flag' = IF n = 0 THEN flag ELSE [flag EXCEPT ![b] = "FF"]

\* The bank that the flag of bank 1 leaves free.
\* Mutant of Target: decided by the flag of bank 2.
TargetByTwo == IF flag[2] = "SET" THEN 1 ELSE 2
Target == IF flag[1] = "SET" THEN 2 ELSE 1

\* A key starts the slave: MAC_Init, then OTA_SlaveInit for the target bank. The
\* message queue keeps what it holds, and MaxBlockNum its value.
SlavePress(n) ==
  /\ s.st = "OFF"
  /\ FlashErase(Target, n)
  /\ s' = IF n < EraseLen THEN Down
          ELSE [s EXCEPT !.st = "IDLE", !.blk = 0, !.retry = 0, !.got = <<>>,
                         !.bank = Target, !.rf = "off"]
  /\ UNCHANGED <<m, run, press>>

SlaveIdle ==
  /\ s.st = "IDLE"
  /\ s' = Listening([s EXCEPT !.q = Popped(@), !.st = "FW_VERSION_READY"])
  /\ UNCHANGED <<flash, flag>>

\* The control block after a frame has been accepted.
SlaveAccepts == [s EXCEPT !.q = Tail(@), !.retry = 0]

SlaveVersion(f) ==
  /\ s.st = "FW_VERSION_READY" /\ f.kind = "VERSION_REQ"
  /\ s' = Sending([SlaveAccepts EXCEPT !.st = "START_READY"],
                  Frame("VERSION_RSP", FwVersion, 0))
  /\ UNCHANGED <<flash, flag>>

\* A request that has been answered: the answer is sent again, with the length
\* of the request.
Repeated(f) ==
  \/ s.st = "START_READY" /\ f.kind = "VERSION_REQ"
  \/ s.st = "DATA_READY" /\ f.kind = "START_REQ"
  \/ s.st \in {"DATA_READY", "END_READY"} /\ f.kind = "DATA" /\ f.num = s.blk

SlaveAgain(f) ==
  /\ Repeated(f)
  /\ s' = Sending(SlaveAccepts, [s.tx EXCEPT !.len = f.len])
  /\ UNCHANGED <<flash, flag>>

SlaveStartReq(f) ==
  /\ s.st = "START_READY" /\ f.kind = "START_REQ"
  /\ s' = Sending([SlaveAccepts EXCEPT !.st = "DATA_READY", !.max = f.num],
                  Frame("START_RSP", 0, 0))
  /\ UNCHANGED <<flash, flag>>

\* Mutant of Written: a write without effect.
WrittenNot(old, data) == IF data = Spoilt THEN Spoilt ELSE old

\* Bits of flash are only ever cleared: data over other data is neither.
Written(old, data) == IF old = Blank THEN data ELSE IF old = data THEN old ELSE Spoilt

\* The next block: written behind what has been received, added to PktCRC and
\* acknowledged. Power may fail half way through. A frame cut short leaves a
\* block that is not whole.
WriteBlock(f, k) ==
  LET data == IF Complete(f) THEN <<f.ver, f.num>> ELSE Spoilt IN
  /\ \/ /\ flash' = [flash EXCEPT ![s.bank][k] = Written(@, data)]
        /\ s' = Sending([SlaveAccepts EXCEPT
                           !.blk = f.num, !.got = Append(@, data),
                           !.st = IF f.num = s.max THEN "END_READY" ELSE @],
                        Frame("ACK", f.num, 0))
     \/ /\ flash' = [flash EXCEPT ![s.bank][k] = Spoilt]
        /\ s' = Down
  /\ UNCHANGED flag

\* The length given to flash_write_page is below zero: Len - 3, or for block 1,
\* whose boot flag is left out, Len - 3 - 36.
Underflows(f) == f.len < IF f.num = 1 THEN 39 ELSE 3

\* flash_write takes it for a huge one and goes on from block k of the target for
\* n blocks, the other bank behind it (bank 1 behind bank 2 where the address
\* wraps), until something stops it: a fault, a reset, the loss of power. A slave
\* whose own bank, boot flag included, it has reached is past what this code says.
RunAway(k, n) ==
  /\ flash' = [b \in Bank |-> [i \in 1..BankLen |->
       IF (IF b = s.bank THEN i \in k..k + n - 1 ELSE BankLen + i < k + n)
       THEN Spoilt ELSE flash[b][i]]]
  /\ IF k + n <= BankLen + 1 THEN s' = Down /\ UNCHANGED flag
     ELSE /\ s' = [Down EXCEPT !.st = "RUNAWAY"]
          /\ flag' \in {flag, [flag EXCEPT ![3 - s.bank] = "CLR"]}

TakeBlock(f) ==
  LET k == Len(s.got) + 1 IN
  \/ ~Underflows(f) /\ WriteBlock(f, k)
  \/ Underflows(f) /\ \E n \in 1..2 * BankLen : RunAway(k, n)

\* Mutant of NextBlock: a block that was written already is written again.
NextBlockOrSame(f) == s.st = "DATA_READY" /\ f.kind = "DATA" /\ f.num \in {s.blk, s.blk + 1}
NextBlock(f) == s.st = "DATA_READY" /\ f.kind = "DATA" /\ f.num = s.blk + 1

SlaveBlock(f) == NextBlock(f) /\ TakeBlock(f)

\* Mutant of SizeMatch: the size is not compared.
SizeMatchNot(f) == f.num \in Nat

\* The size the master gives must be the size received. The size of blocks that
\* were cut short, or that end beyond the image, is none the master gives: 0.
SizeMatch(f) ==
  f.num = IF \E k \in 1..Len(s.got) : s.got[k] = Spoilt THEN 0 ELSE Len(s.got)

SlaveEndReq(f) ==
  /\ s.st = "END_READY" /\ f.kind = "END_REQ"
  /\ s' = IF ~SizeMatch(f)
          THEN [SlaveAccepts EXCEPT !.st = "ERROR"]
          ELSE Sending([SlaveAccepts EXCEPT !.st = "END"], Frame("END_RSP", 0, 0))
  /\ UNCHANGED <<flash, flag>>

\* Any other message, a TX_DONE too, meets the check of the retry counter;
\* any but TX_DONE opens a new listening window.
SlaveListen(msg, f) ==
  /\ ~Repeated(f) /\ ~NextBlock(f)
  /\ <<s.st, f.kind>> \notin {<<"FW_VERSION_READY", "VERSION_REQ">>,
        <<"START_READY", "START_REQ">>, <<"END_READY", "END_REQ">>}
  /\ LET popped == [s EXCEPT !.q = Tail(@)] IN
     s' = IF Exhausted(s.retry) THEN [popped EXCEPT !.st = "ERROR"]
          ELSE IF msg.type = "TX_DONE" THEN popped
          ELSE Listening([popped EXCEPT !.retry = Counted(@)])
  /\ UNCHANGED <<flash, flag>>

SlaveWait ==
  /\ s.st \in {"FW_VERSION_READY", "START_READY", "DATA_READY", "END_READY"}
  /\ s.q # <<>>
  /\ LET msg == Head(s.q) IN
     \E f \in IF msg.type = "DATA" THEN ReadAs(msg.f) ELSE {NoFrame} :
       SlaveVersion(f) \/ SlaveAgain(f) \/ SlaveStartReq(f) \/ SlaveBlock(f)
       \/ SlaveEndReq(f) \/ SlaveListen(msg, f)

\* FwCRC of the flash, PktCRC of what was received and the CRC at the end of
\* the image agree.
CrcMatch ==
  \E v \in Version : /\ s.got = Image(v)
                     /\ \A k \in 1..Blocks[v] : flash[s.bank][k] = <<v, k>>

\* Mutant of SwapFlags: the old flag is cleared first.
SwapFlagsClearFirst(new, both) ==
  [flag EXCEPT ![3 - new] = "CLR", ![new] = IF both THEN "SET" ELSE @]

\* The new flag is set, then the other one cleared, then the slave reboots:
\* power may fail between the two writes. The 5 ms sleep lets the END_RSP out.
SwapFlags(new, both) ==
  [flag EXCEPT ![new] = "SET", ![3 - new] = IF both THEN "CLR" ELSE @]

SlaveEnd(both) ==
  /\ s.st = "END" /\ s.rf # "tx"
  /\ IF CrcMatch THEN s' = Down /\ flag' = SwapFlags(s.bank, both)
     ELSE both /\ s' = [s EXCEPT !.st = "ERROR", !.q = Popped(@)] /\ flag' = flag
  /\ UNCHANGED flash

\* The target bank is erased and the loop left.
SlaveError(n) ==
  /\ s.st = "ERROR"
  /\ FlashErase(s.bank, n)
  /\ s' = IF n < EraseLen THEN Down ELSE [s EXCEPT !.st = "OFF", !.q = Popped(@)]

\* One round of the loop around OTA_SlaveStart.
SlaveStart ==
  /\ SlaveIdle \/ SlaveWait \/ (\E both \in BOOLEAN : SlaveEnd(both))
     \/ \E n \in 0..EraseLen : SlaveError(n)
  /\ UNCHANGED <<m, run, press>>

PowerFail ==
  /\ s.st \notin {"DOWN", "RUNAWAY"}
  /\ s' = Down
  /\ UNCHANGED <<m, flashVars, press>>

\* The boot ROM runs the first bank whose flag is set.
Boot ==
  /\ s.st = "DOWN"
  /\ \E b \in Bank : flag[b] = "SET"
  /\ run' = IF flag[1] = "SET" THEN 1 ELSE 2
  /\ s' = [s EXCEPT !.st = "OFF"]
  /\ UNCHANGED <<m, flash, flag, press>>

Next ==
  \/ Radio \/ Master
  \/ \E n \in 0..EraseLen : SlavePress(n)
  \/ SlaveStart \/ PowerFail \/ Boot

Spec == Init /\ [][Next]_vars

\* Both main loops run all the time, transmissions end, listening windows
\* close and a slave whose power failed boots again. Nobody has to press a key
\* and power need not fail; the value the end of OTA_MasterStart returns is not
\* fair either.
Fairness ==
  /\ WF_vars(\E how \in {"received", "damaged", "lost"} : MasterTx(how))
  /\ WF_vars(\E how \in {"received", "damaged", "lost"} : SlaveTx(how))
  /\ WF_vars(MasterTimeout) /\ WF_vars(SlaveTimeout)
  /\ WF_vars(MasterIdle \/ MasterWait \/ MasterLeave)
  /\ WF_vars(SlaveStart) /\ WF_vars(Boot)

FairSpec == Spec /\ Fairness

-----------------------------------------------------------------------------
(* Properties. *)

FrameKind == DOMAIN LenOf \cup {"NONE"}
FrameType == [kind : FrameKind, num : Nat, ver : Version \cup {0}, len : Nat]
MsgType == [type : {"INVALID_DATA", "DATA", "TIMEOUT", "TX_DONE"}, f : FrameType]

\* Types of OTA_CtrlTypeDef, the message queue and the flash. MAC messages
\* never outgrow the queue of MSG_QUEUE_LEN, and no retry counter passes
\* OTA_RETRY_MAX, which is tested with == only.
TypeOK ==
  /\ m \in [st : {"OFF", "IDLE", "FW_VER_WAIT", "START_RSP_WAIT", "DATA_ACK_WAIT",
                  "END_RSP_WAIT", "END", "ERROR"},
            blk : 0..BankLen, retry : 0..RetryMax, ver : Version, tx : FrameType,
            q : Seq(MsgType), rf : {"off", "tx", "rx"}]
  /\ s \in [st : {"OFF", "IDLE", "FW_VERSION_READY", "START_READY", "DATA_READY",
                  "END_READY", "END", "ERROR", "DOWN", "RUNAWAY"},
            blk : 0..BankLen, retry : 0..RetryMax, max : Nat, bank : Bank,
            got : Seq(Block \cup {Spoilt}), tx : FrameType,
            q : Seq(MsgType), rf : {"off", "tx", "rx"}]
  /\ flash \in [Bank -> [1..BankLen -> Block \cup {Blank, Spoilt}]]
  /\ flag \in [Bank -> {"SET", "CLR", "FF"}]
  /\ run \in Bank /\ press \in 0..MaxPress
  /\ Len(m.q) <= MsgQueueLen /\ Len(s.q) <= MsgQueueLen

\* The first session of the master, or a later one as long as no data frame cut
\* short has made flash_write leave the target bank.
InBounds == press <= 1 \/ s.st # "RUNAWAY"

\* Whatever is lost, repeated or cut off by a power failure, a bank whose boot
\* flag is set holds a whole image (the order of erase, write, check and swap
\* in OTA_SlaveStart), until a cut block of a later session runs away.
FlaggedIsIntact == InBounds => \A b \in Bank : flag[b] = "SET" => Whole(b)

\* At every moment some bank carries the boot flag: the slave boots again after a
\* power failure at any point of the update, with the same exception.
SomeBankBoots == InBounds => \E b \in Bank : flag[b] = "SET"

\* The bank the slave runs from is never erased or written: the target that
\* main_idle_loop picks by the flag of bank 1 is the other one, and no write leaves
\* it in the first session of the master, nor later but by a cut block.
RunningBankKept ==
  [][s.st # "DOWN" /\ InBounds' => flash'[run] = flash[run]]_vars

\* In the first session of the master, what a slave assembles is a prefix of
\* one image, in order and without a block that came in a frame cut short,
\* although frames are repeated with the length of the last frame received.
\* (In a later session a message left in the queue breaks the pairing.)
OneImage ==
  press <= 1 => \E v \in Version : \A k \in 1..Len(s.got) : k <= Blocks[v] /\ s.got[k] = <<v, k>>

\* OTA_CMD_ID_END_RSP goes out before the CRC check and makes the master show
\* success: in the first session of the master an image for which it is sent
\* passes the check, when the erase of OTA_FlashErase covers it.
AnsweredIsWhole ==
  press <= 1 /\ s.st = "END" /\ Len(s.got) <= EraseLen => CrcMatch

\* The same in every session for an END_REQ that has come whole: although blocks
\* cut short are taken in and one slave may be served by several sessions, the
\* comparison of the sizes lets none but a whole image through. (An END_REQ cut
\* short gives a size that is, in part, what RxFrame held before.)
ConfirmedIsWhole ==
  [][s.st = "END_READY" /\ s'.st = "END" /\ Complete(Head(s.q).f) /\ Len(s.got) <= EraseLen
       => CrcMatch]_vars

\* A master that was started gets back to its idle loop.
MasterReturns == m.st # "OFF" ~> m.st = "OFF"

\* A slave that was started gets back to its idle loop, of the old firmware
\* or the new one.
SlaveReturns == s.st # "OFF" ~> s.st = "OFF"

\* The master starts an update only when the slave runs an older version. No run
\* checks it: a VERSION_RSP that is repeated is cut to the length of the request.
NoDowngrade ==
  [][m.st = "FW_VER_WAIT" /\ m'.st = "START_RSP_WAIT" => FwVersion < m.ver]_vars

=============================================================================
