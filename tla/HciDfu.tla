------------------------------- MODULE HciDfu -------------------------------
(***************************************************************************)
(* Firmware update over HCI vendor commands: hci_dfu.c and hci_dfu_port.c  *)
(* of vendor/common/hci_transport.  Two flash banks hold firmware; the     *)
(* host writes an image into the one that does not run, END_DFU moves the  *)
(* boot flag and the controller restarts.  Power may fail between any two  *)
(* writes or sector erases.                                                *)
(*                                                                         *)
(* Flash is counted in units and one FW_DATA command carries up to Payload *)
(* of them.  The last command may reach past the announced size, and past  *)
(* the area that is erased, by less than one payload.  Block k of version  *)
(* v of the firmware is <<v, k>>; the CRC over an image is zero exactly    *)
(* when all its blocks were read back in order.  The byte at               *)
(* DFU_FW_FLAG_OFFSET, the boot flag, is kept apart as flag[bank].         *)
(***************************************************************************)
EXTENDS Integers

CONSTANTS
    Bank,        \* the two firmware areas, 0 and DFU_NEW_FW_ADDR_BASE
    Other,       \* Other[b] is the other area
    Version,     \* firmware versions
    ImageSize,   \* blocks of an image
    MaxSize,     \* DFU_NEW_FW_MAX_SIZE, units of an area
    Payload,     \* DFU_MAX_PAYLOAD, units of a FW_DATA command
    Sampled,     \* units DFU_EraseNewFwArea reads a word of
    ResendCnt,   \* DFU_RESEND_CNT
    TimeOut,     \* DFU_TIMEOUT
    EvtNum,      \* slots of the HCI Tx FIFO
    Covered,     \* does every first FW_DATA reach past DFU_FW_FLAG_OFFSET?
    Orderly,     \* does the host wait for replies and follow the sequence?
    Prompt       \* does the host collect the reply to END within TimeOut?

ASSUME DfuAssumption ==
    /\ Other \in [Bank -> Bank]
    /\ \A b \in Bank : Other[b] # b /\ Other[Other[b]] = b
    /\ \A b, c \in Bank : c \in {b, Other[b]}
    /\ ImageSize \in Nat \ {0} /\ MaxSize \in Nat /\ ImageSize <= MaxSize
    /\ Payload \in Nat \ {0}
    /\ Sampled \subseteq 1..MaxSize /\ 1 \in Sampled
    /\ ResendCnt \in Nat \ {0} /\ TimeOut \in Nat \ {0, 1}
    /\ EvtNum \in Nat \ {0}
    /\ Covered \in BOOLEAN /\ Orderly \in BOOLEAN /\ Prompt \in BOOLEAN
    /\ \A v \in Version : v \notin {"ZERO", "INIT", "BAD", "FF", "XX"}

VARIABLES
    status,   \* dfuCb.status
    newSize,  \* dfuCb.newFwSize
    offset,   \* dfuCb.fwOffset
    crc,      \* dfuCb.curCrc: "ZERO" after memset, "INIT" after DFU_Reset, v
              \* while every block so far was the next one of version v
    resend,   \* dfuCb.resendCnt
    timer,    \* dfuCb.timer: 0 when off, else the time since it was set
    evt,      \* events waiting in the HCI Tx FIFO or in the UART
    on,       \* is the controller running?
    run,      \* the bank it runs from
    flash,    \* flash[b][k]: FF, a block, or XX
    flag      \* flag[b]: "FF", "4B" or "00"

cbVars == <<status, newSize, offset, crc, resend, timer>>
flashVars == <<flash, flag>>
vars == <<cbVars, evt, on, run, flashVars>>

Unit == 1..(MaxSize + Payload - 1)             \* what FW_DATA can reach
Block == Version \X (1..ImageSize)
FF == <<"FF", 0>>                              \* an erased unit
XX == <<"XX", 0>>                              \* neither erased nor a block

\* Mutant of next: always the same area.
nextFixed == CHOOSE b \in Bank : TRUE

\* dfuCb.nextFwAddrStart
next == Other[run]

\* A complete firmware image.
Intact(b) == \E v \in Version : \A k \in 1..ImageSize : flash[b][k] = <<v, k>>

Init ==
    /\ status = "NONE" /\ newSize = 0 /\ offset = 0 /\ crc = "ZERO"
    /\ resend = 0 /\ timer = 0 /\ evt = 0 /\ on = TRUE
    /\ run \in Bank
    /\ \E v \in Version :
          flash = [b \in Bank |-> [k \in Unit |->
                      IF b = run /\ k <= ImageSize THEN <<v, k>> ELSE FF]]
    /\ flag = [b \in Bank |-> IF b = run THEN "4B" ELSE "FF"]

-----------------------------------------------------------------------------
(* Flash.                                                                  *)

\* FLASH_WritePage only clears bits.
Written(old, new) == IF old \in {FF, new} THEN new ELSE XX
FlagWritten(old, new) == IF old = "FF" \/ new = "00" THEN new ELSE old

\* Mutant of EraseNewFwArea: the area is erased from its end on.
EraseBackward(b, upto) ==
    IF \E k \in Sampled : flash[b][k] # FF
    THEN /\ flash' = [flash EXCEPT ![b] =
                        [k \in Unit |-> IF k \in (MaxSize - upto + 1)..MaxSize THEN FF ELSE @[k]]]
         /\ flag' = [flag EXCEPT ![b] = IF upto = MaxSize THEN "FF" ELSE @]
    ELSE UNCHANGED flashVars

\* DFU_EraseNewFwArea: the area is erased from its start on, unless it looks
\* erased; power fails once upto units are done.
EraseNewFwArea(b, upto) ==
    IF \E k \in Sampled : flash[b][k] # FF
    THEN /\ flash' = [flash EXCEPT ![b] =
                        [k \in Unit |-> IF k <= upto THEN FF ELSE @[k]]]
         /\ flag' = [flag EXCEPT ![b] = IF upto >= 1 THEN "FF" ELSE @]
    ELSE UNCHANGED flashVars

\* DFU_Reset
Reset ==
    /\ newSize' = 0 /\ offset' = 0 /\ crc' = "INIT"
    /\ timer' = 0 /\ status' = "NONE" /\ resend' = 0

\* Hci_SendCmdCmplEvt and Hci_SendCmdStatusEvt: lost when the FIFO is full.
SendEvt == evt' = IF evt >= EvtNum THEN evt ELSE evt + 1

\* The controller stops; dfuCb is what the memset of DFU_Init leaves of it.
Stop ==
    /\ on' = FALSE
    /\ status' = "NONE" /\ newSize' = 0 /\ offset' = 0 /\ crc' = "ZERO"
    /\ resend' = 0 /\ timer' = 0 /\ evt' = 0
    /\ UNCHANGED run

-----------------------------------------------------------------------------
(* DFU_CmdHandler: the commands of the host.                               *)

\* An orderly host has no command outstanding, and none after END succeeded.
HostReady == on /\ (Orderly => evt = 0 /\ status # "END")

\* Mutant of StartDfu: the size is not checked.
StartDfuAnySize(fwSize, ok) ==
    /\ HostReady
    /\ SendEvt
    /\ \/ /\ status = "START" \/ ~ok
          /\ UNCHANGED cbVars
       \/ /\ status # "START" /\ ok
          /\ status' = "START" /\ newSize' = fwSize /\ offset' = 0
          /\ crc' = "INIT" /\ timer' = 1 /\ resend' = 0
    /\ UNCHANGED <<on, run, flashVars>>

\* DFU_StartDfuCmdHandler; ok is the outcome of the mode and version test.
StartDfu(fwSize, ok) ==
    /\ HostReady
    /\ SendEvt
    /\ \/ /\ status = "START"
          /\ UNCHANGED cbVars
       \/ /\ status # "START" /\ fwSize > MaxSize
          /\ Reset
       \/ /\ status # "START" /\ fwSize <= MaxSize /\ ok
          /\ status' = "START" /\ newSize' = fwSize /\ offset' = 0
          /\ crc' = "INIT" /\ timer' = 1 /\ resend' = 0
       \/ /\ status # "START" /\ fwSize <= MaxSize /\ ~ok
          /\ UNCHANGED cbVars
    /\ UNCHANGED <<on, run, flashVars>>

\* DFU_Crc32Calc over the dataLen units read back, from dfuCb.fwOffset on.
Crc32Calc(dataLen, read) ==
    IF dataLen = 0 THEN crc
    ELSE IF \E v \in Version : /\ offset = 0 \/ crc = v
                               /\ \A i \in 1..dataLen : read[i] = <<v, offset + i>>
    THEN read[1][1] ELSE "BAD"

\* The whole image has been seen (or the CRC never was set).
CrcIsZero == crc = "ZERO" \/ (crc \in Version /\ offset = ImageSize)

\* Mutant of FwDataRefused: the timer is set before the resend limit is tested.
FwDataRefusedTimer(good) ==
    /\ HostReady
    /\ timer' = 1
    /\ \/ /\ resend >= ResendCnt
          /\ UNCHANGED <<evt, resend>>
       \/ /\ resend < ResendCnt /\ (status = "START" => ~good)
          /\ SendEvt
          /\ \/ UNCHANGED resend
             \/ status = "START" /\ resend' = resend + 1
    /\ UNCHANGED <<status, newSize, offset, crc, on, run, flashVars>>

\* DFU_FwDataCmdHandler refuses: too many bad blocks (no reply, and the
\* timer is left alone), not started, bad length, bad checksum, or complete.
FwDataRefused(good) ==
    /\ HostReady
    /\ \/ /\ resend >= ResendCnt
          /\ UNCHANGED <<evt, cbVars>>
       \/ /\ resend < ResendCnt /\ (status = "START" => ~good)
          /\ timer' = 1
          /\ SendEvt
          /\ \/ UNCHANGED resend                       \* status or length
             \/ status = "START" /\ resend' = resend + 1      \* checksum
          /\ UNCHANGED <<status, newSize, offset, crc>>
       \/ /\ resend < ResendCnt /\ status = "START" /\ good
          /\ offset >= newSize
          /\ timer' = 1 /\ resend' = 0
          /\ SendEvt
          /\ UNCHANGED <<status, newSize, offset, crc>>
    /\ UNCHANGED <<on, run, flashVars>>

\* The unit the boot flag lies in.
FlagUnit == IF Covered THEN 1 ELSE 2

\* What unit k of the new area is once done units of the data are programmed
\* and the next one has been begun.
Programmed(k, dataLen, data, done) ==
    LET old == flash[next][k] IN
    IF k \in (offset + 1)..(offset + done) THEN Written(old, data[k - offset])
    ELSE IF done < dataLen /\ k = offset + done + 1 THEN XX
    ELSE old

\* DFU_FwDataCmdHandler takes a payload, empty or not: that the announced size
\* is not reached yet is all it asks.  The boot flag is masked out of the first
\* command only: if that one is too short it is left to the second.
FwData(dataLen, data) ==
    LET Write(done) ==
          flash' = [flash EXCEPT ![next] =
                      [k \in Unit |-> Programmed(k, dataLen, data, done)]]
        FlagUpTo(done) ==
          flag' = IF offset # 0 /\ FlagUnit \in (offset + 1)..(offset + done)
                  THEN [flag EXCEPT ![next] = FlagWritten(@, "4B")] ELSE flag
    IN  /\ HostReady
        /\ resend < ResendCnt /\ status = "START" /\ offset < newSize
        /\ \/ /\ Write(dataLen) /\ FlagUpTo(dataLen)
              /\ crc' = Crc32Calc(dataLen, [i \in 1..dataLen |-> flash'[next][offset + i]])
              /\ offset' = offset + dataLen
              /\ timer' = 1 /\ resend' = 0
              /\ SendEvt
              /\ UNCHANGED <<status, newSize, on, run>>
           \/ \E done \in 0..(dataLen - 1) :
                  /\ Write(done) /\ (FlagUpTo(done) \/ FlagUpTo(done + 1))
                  /\ Stop

\* DFU_EndDfuCmdHandler, DFU_END_MODE_FW_UPD, the checks fail.
EndRefused ==
    /\ HostReady
    /\ Orderly => status = "START"
    /\ offset # newSize \/ ~CrcIsZero
    /\ timer' = 1
    /\ status' = "TERM"
    /\ SendEvt
    /\ UNCHANGED <<newSize, offset, crc, resend, on, run, flashVars>>

\* Mutant of EndDfu: the flag of the old bank is cleared first.
EndDfuSwapped ==
    /\ HostReady
    /\ Orderly => status = "START"
    /\ offset = newSize /\ CrcIsZero
    /\ UNCHANGED flash
    /\ \/ /\ flag' = [flag EXCEPT ![next] = FlagWritten(@, "4B"),
                                  ![run] = "00"]
          /\ timer' = 1 /\ status' = "END"
          /\ SendEvt
          /\ UNCHANGED <<newSize, offset, crc, resend, on, run>>
       \/ /\ flag' = [flag EXCEPT ![run] = "00"]
          /\ Stop

\* DFU_END_MODE_FW_UPD: the new bank is flagged, then the flag of the old one
\* is cleared.  Whether DFU was started is not asked.
EndDfu ==
    /\ HostReady
    /\ Orderly => status = "START"
    /\ offset = newSize /\ CrcIsZero
    /\ UNCHANGED flash
    /\ \/ /\ flag' = [flag EXCEPT ![next] = FlagWritten(@, "4B"),
                                  ![run] = "00"]
          /\ timer' = 1 /\ status' = "END"
          /\ SendEvt
          /\ UNCHANGED <<newSize, offset, crc, resend, on, run>>
       \/ /\ flag' = [flag EXCEPT ![next] = FlagWritten(@, "4B")]
          /\ Stop

\* DFU_END_MODE_TERM_UPD, and HCI_Reset while DFU is enabled.
Terminate ==
    /\ HostReady
    /\ \/ timer' = 1
       \/ status = "START" /\ UNCHANGED timer
    /\ status' = "TERM"
    /\ SendEvt
    /\ UNCHANGED <<newSize, offset, crc, resend, on, run, flashVars>>

\* Commands that change nothing: while DFU is enabled every other command,
\* answered or refused by DFU_CmdHandler, and END_DFU in no known mode, which
\* sets the timer (an orderly host does not send it).
OtherCmd ==
    /\ HostReady
    /\ status = "START" \/ ~Orderly
    /\ timer' \in IF Orderly THEN {timer} ELSE {timer, 1}
    /\ SendEvt
    /\ UNCHANGED <<status, newSize, offset, crc, resend, on, run, flashVars>>

-----------------------------------------------------------------------------
(* DFU_TaskStart, the UART, time and power.                                *)

\* Mutant of TaskEnd: it restarts only while the reply is being sent.
TaskEndBusy ==
    /\ on /\ status = "END" /\ evt # 0
    /\ Stop
    /\ UNCHANGED flashVars

\* The reply has gone out: restart into the new firmware.
TaskEnd ==
    /\ on /\ status = "END" /\ evt = 0
    /\ Stop
    /\ UNCHANGED flashVars

\* The reply has gone out: clear the new area.
TaskTerm ==
    /\ on /\ status = "TERM" /\ evt = 0
    /\ \/ /\ Reset /\ EraseNewFwArea(next, MaxSize)
          /\ UNCHANGED <<evt, on, run>>
       \/ \E upto \in 0..MaxSize : EraseNewFwArea(next, upto) /\ Stop

\* DFU timeout handle: whatever the state is.
TaskTimeout ==
    /\ on /\ timer = TimeOut
    /\ ~(status \in {"END", "TERM"} /\ evt = 0)
    /\ \/ /\ Reset /\ EraseNewFwArea(next, MaxSize)
          /\ UNCHANGED <<evt, on, run>>
       \/ \E upto \in 0..MaxSize : EraseNewFwArea(next, upto) /\ Stop

\* Time passes (a prompt host lets the restart happen in time).
Tick ==
    /\ on /\ timer \in 1..(TimeOut - 1)
    /\ Prompt => status # "END"
    /\ timer' = timer + 1
    /\ UNCHANGED <<status, newSize, offset, crc, resend, evt, on, run,
                   flashVars>>

\* The UART has sent an event of the FIFO.
EvtSent ==
    /\ on /\ evt > 0
    /\ evt' = evt - 1
    /\ UNCHANGED <<cbVars, on, run, flashVars>>

PowerOff == on /\ Stop /\ UNCHANGED flashVars

\* The boot ROM starts a bank that is flagged, and DFU_Init clears the other
\* one (the power may fail again meanwhile).
Boot(b) ==
    /\ ~on /\ flag[b] = "4B"
    /\ run' = b
    /\ \/ on' = TRUE /\ EraseNewFwArea(Other[b], MaxSize)
       \/ UNCHANGED on /\ \E upto \in 0..MaxSize : EraseNewFwArea(Other[b], upto)
    /\ UNCHANGED <<cbVars, evt>>

Next ==
    \/ \E fwSize \in 0..(MaxSize + 1), ok \in BOOLEAN : StartDfu(fwSize, ok)
    \/ \E dataLen \in 0..Payload : \E data \in [1..dataLen -> Block] : FwData(dataLen, data)
    \/ \E good \in BOOLEAN : FwDataRefused(good)
    \/ EndRefused \/ EndDfu \/ Terminate \/ OtherCmd
    \/ TaskEnd \/ TaskTerm \/ TaskTimeout
    \/ Tick \/ EvtSent
    \/ PowerOff \/ \E b \in Bank : Boot(b)

Spec == Init /\ [][Next]_vars

\* The main loop and the UART keep going, and time passes.
Fairness ==
    /\ WF_vars(TaskEnd) /\ WF_vars(TaskTerm) /\ WF_vars(TaskTimeout)
    /\ WF_vars(Tick) /\ SF_vars(EvtSent)
    /\ WF_vars(\E b \in Bank : Boot(b))

FairSpec == Spec /\ Fairness

-----------------------------------------------------------------------------
(* Properties.                                                             *)

\* The fields keep their ranges. The announced size fits the area, and what
\* FW_DATA has taken passes that size by less than one payload.
TypeOK ==
    /\ status \in {"NONE", "START", "TERM", "END"}
    /\ newSize \in 0..MaxSize
    /\ offset \in Nat /\ (offset = 0 \/ offset < newSize + Payload)
    /\ crc \in {"ZERO", "INIT", "BAD"} \cup Version
    /\ resend \in 0..ResendCnt /\ timer \in 0..TimeOut /\ evt \in 0..EvtNum
    /\ on \in BOOLEAN /\ run \in Bank
    /\ flash \in [Bank -> [Unit -> {FF, XX} \cup Block]]
    /\ flag \in [Bank -> {"FF", "4B", "00"}]

\* Whenever power fails, the boot ROM finds a bank to start.
SomeBankBoots == \E b \in Bank : flag[b] = "4B"

\* Whatever bank the boot ROM may start holds a complete image: END_DFU
\* flags a bank only after "overall firmware check" (DfuCb_t.curCrc).
FlaggedIsIntact == \A b \in Bank : flag[b] = "4B" => Intact(b)

\* The running firmware is never written to or erased under its own feet.
RunIntact == on => Intact(run)

\* Once END_DFU has succeeded, the controller restarts into the new image.
EndRestarts == status = "END" ~> ~on

\* A host that never gets a block right does not keep DFU open for ever: the
\* resend limit stops the timer from being set again, so it runs out.
ResendLimitEnds == (on /\ status = "START" /\ resend >= ResendCnt)
                        ~> (~on \/ status # "START")

=============================================================================
