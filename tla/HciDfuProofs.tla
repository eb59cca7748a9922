---------------------------- MODULE HciDfuProofs ----------------------------
(***************************************************************************)
(* Proof that an interrupted update always leaves a bank to start from,    *)
(* for images and areas of every size, provided that the host is orderly   *)
(* and prompt and that its first FW_DATA covers the boot flag (each of the *)
(* three conditions is needed: runs of HciDfu without it end in a          *)
(* violation).                                                             *)
(***************************************************************************)
EXTENDS HciDfu, TLAPS

\* A sector that carries a flag is not erased: DFU_EraseNewFwArea, which
\* looks at its first word, cannot overlook it.
FlagSeen == \A b \in Bank : flag[b] # "FF" => flash[b][1] # FF

\* The running bank is the one to start from until END_DFU moves the flag.
BankFlags ==
    /\ on => Intact(run)
    /\ on /\ status # "END" => flag[run] = "4B" /\ flag[next] = "FF"
    /\ status = "END" =>
          on /\ flag[run] = "00" /\ flag[next] = "4B" /\ Intact(next)

\* While crc says so, what was written are the first blocks of an image.
Progress ==
    /\ status = "START" => on /\ crc # "ZERO"
    /\ status = "START" /\ crc \in Version =>
          \A k \in 1..offset : flash[next][k] = <<crc, k>>
    /\ status = "END" => timer = 1

\* The inductive invariant.
DfuInv ==
    TypeOK /\ SomeBankBoots /\ FlaggedIsIntact /\ FlagSeen /\ BankFlags
    /\ Progress

-----------------------------------------------------------------------------
(* Facts used by the steps.                                                *)

\* The controller runs from one of the two banks and writes to the other.
LEMMA TwoBanks ==
    ASSUME run \in Bank
    PROVE  /\ next \in Bank /\ next # run
           /\ \A b \in Bank : b = run \/ b = next
BY DfuAssumption DEF next

\* An erased sector holds no block of an image.
LEMMA NoBlockIsFF ==
    ASSUME NEW v \in Version, NEW k \in Nat
    PROVE  <<v, k>> # FF /\ <<v, k>> # XX
BY DfuAssumption DEF FF, XX

\* What the image in a bank depends on.
LEMMA IntactKept ==
    ASSUME NEW b \in Bank, flash'[b] = flash[b]
    PROVE  Intact(b) <=> Intact(b)'
BY DEF Intact

\* A complete image is seen by DFU_EraseNewFwArea.
LEMMA IntactSeen ==
    ASSUME NEW b \in Bank, Intact(b)
    PROVE  flash[b][1] # FF
<1>1. PICK v \in Version : \A k \in 1..ImageSize : flash[b][k] = <<v, k>>
  BY DEF Intact
<1>2. 1 \in 1..ImageSize
  BY DfuAssumption
<1> QED
  BY <1>1, <1>2, NoBlockIsFF

\* DFU_EraseNewFwArea takes the flag away before anything else, touches no
\* other bank, and does not overlook a flagged one.
LEMMA EraseStep ==
    ASSUME TypeOK, FlaggedIsIntact, FlagSeen,
           NEW b \in Bank, NEW upto \in 0..MaxSize, EraseNewFwArea(b, upto)
    PROVE  /\ flash' \in [Bank -> [Unit -> {FF, XX} \cup Block]]
           /\ flag' \in [Bank -> {"FF", "4B", "00"}]
           /\ FlaggedIsIntact' /\ FlagSeen'
           /\ \A c \in Bank \ {b} : flash'[c] = flash[c] /\ flag'[c] = flag[c]
           /\ upto = MaxSize => flag'[b] = "FF"
<1>0. 1 \in Sampled /\ 1 \in Unit /\ MaxSize >= 1 /\ MaxSize \in Nat
  BY DfuAssumption DEF Unit
<1>1. CASE \E k \in Sampled : flash[b][k] # FF
  <2> DEFINE new == [k \in Unit |-> IF k <= upto THEN FF ELSE flash[b][k]]
  <2>1. /\ flash' = [flash EXCEPT ![b] = new]
        /\ flag' = [flag EXCEPT ![b] = IF upto >= 1 THEN "FF" ELSE flag[b]]
    BY <1>1 DEF EraseNewFwArea
  <2>2. new \in [Unit -> {FF, XX} \cup Block]
    BY DEF TypeOK
  <2>3. upto = 0 => new = flash[b]
    <3> SUFFICES ASSUME upto = 0 PROVE new = flash[b]
      OBVIOUS
    <3>1. \A k \in Unit : new[k] = flash[b][k]
      BY DEF Unit
    <3>2. flash[b] \in [Unit -> {FF, XX} \cup Block]
      BY DEF TypeOK
    <3> HIDE DEF new
    <3> QED
      BY <2>2, <3>1, <3>2
  <2> HIDE DEF new
  <2>4. /\ flash' \in [Bank -> [Unit -> {FF, XX} \cup Block]]
        /\ flag' \in [Bank -> {"FF", "4B", "00"}]
    BY <2>1, <2>2 DEF TypeOK
  <2>5. \A c \in Bank \ {b} : flash'[c] = flash[c] /\ flag'[c] = flag[c]
    BY <2>1 DEF TypeOK
  <2>6. flash'[b] = new /\ (upto >= 1 => flag'[b] = "FF")
        /\ (upto = 0 => flag'[b] = flag[b])
    BY <2>1 DEF TypeOK
  <2>7. FlaggedIsIntact'
    <3> SUFFICES ASSUME NEW c \in Bank, flag'[c] = "4B"
                 PROVE  Intact(c)'
      BY DEF FlaggedIsIntact
    <3>1. flash'[c] = flash[c] /\ flag'[c] = flag[c]
      BY <2>3, <2>5, <2>6
    <3> QED
      BY <3>1, IntactKept DEF FlaggedIsIntact
  <2>8. FlagSeen'
    <3> SUFFICES ASSUME NEW c \in Bank, flag'[c] # "FF"
                 PROVE  flash'[c][1] # FF
      BY DEF FlagSeen
    <3>1. flash'[c] = flash[c] /\ flag'[c] = flag[c]
      BY <2>3, <2>5, <2>6
    <3> QED
      BY <3>1 DEF FlagSeen
  <2> QED
    BY <1>0, <2>4, <2>5, <2>6, <2>7, <2>8
<1>2. CASE ~\E k \in Sampled : flash[b][k] # FF
  <2>1. UNCHANGED <<flash, flag>>
    BY <1>2 DEF EraseNewFwArea, flashVars
  <2>2. flag[b] = "FF"
    BY <1>0, <1>2 DEF FlagSeen
  <2> QED
    BY <2>1, <2>2 DEF TypeOK, FlaggedIsIntact, FlagSeen, Intact
<1> QED
  BY <1>1, <1>2

\* Once the controller stops, the flags are all that counts.
LEMMA StopStep ==
    ASSUME TypeOK, Stop, SomeBankBoots', FlaggedIsIntact', FlagSeen',
           flash' \in [Bank -> [Unit -> {FF, XX} \cup Block]],
           flag' \in [Bank -> {"FF", "4B", "00"}]
    PROVE  DfuInv'
<1>1. TypeOK'
  <2>1. 0 \in 0..MaxSize /\ 0 \in 0..ResendCnt /\ 0 \in 0..TimeOut
        /\ 0 \in 0..EvtNum
    BY DfuAssumption
  <2> QED
    BY <2>1 DEF TypeOK, Stop
<1>2. BankFlags' /\ Progress'
  BY DEF BankFlags, Progress, Stop
<1> QED
  BY <1>1, <1>2 DEF DfuInv

\* Steps that leave the flash and the running bank alone.
LEMMA QuietStep ==
    ASSUME DfuInv, UNCHANGED <<flash, flag, run, on>>, TypeOK', Progress',
           status' = "END" <=> status = "END"
    PROVE  DfuInv'
<1> USE DEF DfuInv
<1>1. SomeBankBoots' /\ FlaggedIsIntact' /\ FlagSeen'
  BY DEF SomeBankBoots, FlaggedIsIntact, FlagSeen, Intact
<1>2. BankFlags'
  BY DEF BankFlags, Intact, next
<1> QED
  BY <1>1, <1>2

-----------------------------------------------------------------------------
(* The commands of the host.                                               *)

\* An event more, or one lost, is still a number the FIFO can hold.
LEMMA SendEvtType ==
    ASSUME TypeOK, SendEvt
    PROVE  evt' \in 0..EvtNum
BY DfuAssumption DEF TypeOK, SendEvt

\* START_DFU.
LEMMA StartStep ==
    ASSUME DfuInv, Orderly, NEW fwSize \in 0..(MaxSize + 1),
           NEW ok \in BOOLEAN, StartDfu(fwSize, ok)
    PROVE  DfuInv'
<1> USE DEF DfuInv
<1>0. /\ HostReady /\ SendEvt /\ UNCHANGED <<on, run, flash, flag>>
      /\ evt' \in 0..EvtNum /\ status # "END"
  BY SendEvtType DEF StartDfu, HostReady, flashVars
<1>1. CASE UNCHANGED cbVars
  <2>1. TypeOK'
    BY <1>0, <1>1 DEF TypeOK, cbVars
  <2>2. Progress' /\ status' = status
    BY <1>0, <1>1 DEF Progress, cbVars, next
  <2> QED
    BY <1>0, <2>1, <2>2, QuietStep
<1>2. CASE Reset
  <2>1. TypeOK'
    <3>1. 0 \in 0..MaxSize /\ 0 \in 0..ResendCnt /\ 0 \in 0..TimeOut
      BY DfuAssumption
    <3> QED
      BY <1>0, <1>2, <3>1 DEF TypeOK, Reset
  <2>2. Progress' /\ status' # "END"
    BY <1>2 DEF Progress, Reset
  <2> QED
    BY <1>0, <2>1, <2>2, QuietStep
<1>3. CASE /\ status' = "START" /\ newSize' = fwSize /\ offset' = 0
           /\ crc' = "INIT" /\ timer' = 1 /\ resend' = 0 /\ fwSize <= MaxSize
  <2>1. TypeOK'
    <3>1. /\ 0 \in 0..MaxSize /\ 0 \in 0..ResendCnt /\ 1 \in 0..TimeOut
          /\ fwSize \in 0..MaxSize
      BY <1>3, DfuAssumption
    <3> QED
      BY <1>0, <1>3, <3>1 DEF TypeOK
  <2>2. Progress' /\ status' # "END"
    BY <1>0, <1>3, DfuAssumption DEF Progress, HostReady
  <2> QED
    BY <1>0, <2>1, <2>2, QuietStep
<1> QED
  BY <1>1, <1>2, <1>3 DEF StartDfu

\* FW_DATA that is not taken, END_DFU that fails or terminates, and other
\* commands: the timer, the resend counter and the status may change.
LEMMA RefusedStep ==
    ASSUME DfuInv, Orderly,
           \/ \E good \in BOOLEAN : FwDataRefused(good)
           \/ EndRefused \/ Terminate \/ OtherCmd
    PROVE  DfuInv'
<1> USE DEF DfuInv
<1>1. /\ HostReady /\ UNCHANGED <<on, run, flash, flag, newSize, offset, crc>>
      /\ timer' \in {1, timer} /\ status' \in {status, "TERM"}
      /\ SendEvt \/ UNCHANGED evt
  BY DEF FwDataRefused, EndRefused, Terminate, OtherCmd, flashVars, cbVars
<1>2. resend' \in 0..ResendCnt
  <2>1. CASE \E good \in BOOLEAN : FwDataRefused(good)
    <3>1. resend' \in {0, resend} \/ (resend < ResendCnt /\ resend' = resend + 1)
      BY <2>1 DEF FwDataRefused, cbVars
    <3> QED
      BY <3>1, DfuAssumption DEF TypeOK
  <2>2. CASE EndRefused \/ Terminate \/ OtherCmd
    BY <2>2 DEF EndRefused, Terminate, OtherCmd, TypeOK
  <2> QED
    BY <2>1, <2>2
<1>3. status # "END" /\ status' # "END"
  BY <1>1 DEF HostReady
<1>4. timer' \in 0..TimeOut /\ evt' \in 0..EvtNum
  BY <1>1, SendEvtType, DfuAssumption DEF TypeOK
<1>5. TypeOK'
  BY <1>1, <1>2, <1>4 DEF TypeOK
<1>6. Progress'
  BY <1>1, <1>3 DEF Progress, next
<1> QED
  BY <1>1, <1>3, <1>5, <1>6, QuietStep

\* FW_DATA that is taken goes to the bank that is neither running nor
\* flagged.
LEMMA FwDataStep ==
    ASSUME DfuInv, Orderly, Covered, NEW dataLen \in 0..Payload,
           NEW data \in [1..dataLen -> Block], FwData(dataLen, data)
    PROVE  DfuInv'
<1> USE DEF DfuInv
<1> DEFINE after(done) == [k \in Unit |-> Programmed(k, dataLen, data, done)]
           read == [i \in 1..dataLen |-> flash'[next][offset + i]]
<1>1. /\ next \in Bank /\ next # run /\ run \in Bank
      /\ \A b \in Bank : b = run \/ b = next
  BY TwoBanks DEF TypeOK
<1>2. /\ dataLen \in Nat /\ offset \in Nat /\ newSize \in Nat /\ newSize <= MaxSize
      /\ Payload \in Nat /\ dataLen <= Payload /\ MaxSize \in Nat
  BY DfuAssumption DEF TypeOK
<1>0. /\ on /\ status = "START" /\ offset < newSize /\ flag' = flag
      /\ \/ /\ flash' = [flash EXCEPT ![next] = after(dataLen)]
            /\ crc' = Crc32Calc(dataLen, read) /\ offset' = offset + dataLen
            /\ timer' = 1 /\ resend' = 0 /\ SendEvt
            /\ UNCHANGED <<status, newSize, on, run>>
         \/ \E done \in 0..(dataLen - 1) :
               flash' = [flash EXCEPT ![next] = after(done)] /\ Stop
  <2>1. \A done \in Nat : ~(offset # 0 /\ FlagUnit \in (offset + 1)..(offset + done))
    BY <1>2 DEF FlagUnit
  <2>2. \A done \in 0..(dataLen - 1) : done \in Nat /\ done + 1 \in Nat
    BY <1>2
  <2>3. \/ /\ flash' = [flash EXCEPT ![next] = after(dataLen)] /\ flag' = flag
           /\ crc' = Crc32Calc(dataLen, read) /\ offset' = offset + dataLen
           /\ timer' = 1 /\ resend' = 0 /\ SendEvt
           /\ UNCHANGED <<status, newSize, on, run>>
        \/ \E done \in 0..(dataLen - 1) :
              flash' = [flash EXCEPT ![next] = after(done)] /\ flag' = flag /\ Stop
    <3> HIDE DEF DfuInv
    <3> QED
      BY <1>2, <2>1, <2>2, Zenon DEF FwData
  <2> QED
    BY <2>3, Zenon DEF FwData, HostReady
<1>3. flag[run] = "4B" /\ flag[next] = "FF" /\ Intact(run)
  BY <1>0 DEF BankFlags
<1>4. ASSUME NEW done \in 0..dataLen
      PROVE  after(done) \in [Unit -> {FF, XX} \cup Block]
  <2> SUFFICES ASSUME NEW k \in Unit
               PROVE  Programmed(k, dataLen, data, done) \in {FF, XX} \cup Block
    OBVIOUS
  <2>1. flash[next][k] \in {FF, XX} \cup Block
    BY <1>1 DEF TypeOK
  <2>2. ASSUME k \in (offset + 1)..(offset + done)
        PROVE  data[k - offset] \in Block
    <3>1. k - offset \in 1..dataLen
      BY <1>2, <2>2
    <3> QED
      BY <3>1
  <2> QED
    BY <2>1, <2>2 DEF Programmed, Written
<1> HIDE DEF after
<1>5. PICK done \in 0..dataLen : flash' = [flash EXCEPT ![next] = after(done)]
  <2>1. dataLen \in 0..dataLen /\ \A done \in 0..(dataLen - 1) : done \in 0..dataLen
    BY <1>2
  <2> QED
    BY <1>0, <2>1, Zenon
<1>6. /\ flash' \in [Bank -> [Unit -> {FF, XX} \cup Block]]
      /\ flag' \in [Bank -> {"FF", "4B", "00"}]
  BY <1>0, <1>1, <1>4, <1>5 DEF TypeOK
<1>7. flash'[run] = flash[run]
  BY <1>1, <1>5 DEF TypeOK
<1>8. SomeBankBoots' /\ FlaggedIsIntact' /\ FlagSeen'
  <2>2. \A b \in Bank : flag'[b] # "FF" =>
            /\ flash'[b] = flash[b] /\ flag'[b] = flag[b] /\ b = run
    BY <1>0, <1>1, <1>3, <1>7
  <2>3. SomeBankBoots' /\ FlagSeen'
    BY <1>0, <1>1, <1>3, <2>2 DEF SomeBankBoots, FlagSeen
  <2>4. FlaggedIsIntact'
    <3> SUFFICES ASSUME NEW b \in Bank, flag'[b] = "4B" PROVE Intact(b)'
      BY DEF FlaggedIsIntact
    <3>1. flash'[b] = flash[b] /\ flag[b] = "4B"
      BY <2>2
    <3> QED
      BY <3>1, IntactKept DEF FlaggedIsIntact
  <2> QED
    BY <2>3, <2>4
<1>9. CASE Stop
  BY <1>6, <1>8, <1>9, StopStep
<1>10. CASE ~Stop
  <2>1. /\ flash' = [flash EXCEPT ![next] = after(dataLen)]
        /\ crc' = Crc32Calc(dataLen, read) /\ offset' = offset + dataLen
        /\ timer' = 1 /\ resend' = 0 /\ SendEvt
        /\ UNCHANGED <<status, newSize, on, run>>
    BY <1>0, <1>10
  <2>2. \/ dataLen = 0 /\ crc' = crc
        \/ dataLen # 0 /\ crc' = "BAD"
        \/ /\ dataLen # 0 /\ crc' \in Version
           /\ offset = 0 \/ crc = crc'
           /\ \A i \in 1..dataLen : read[i] = <<crc', offset + i>>
    <3>1. ASSUME dataLen # 0, NEW v \in Version,
                 \A i \in 1..dataLen : read[i] = <<v, offset + i>>
          PROVE  read[1][1] = v
      <4>1. 1 \in 1..dataLen
        BY <1>2, <3>1
      <4>2. read[1] = <<v, offset + 1>>
        BY <3>1, <4>1
      <4> HIDE DEF read
      <4> QED
        BY <4>2
    <3> HIDE DEF read
    <3> QED
      BY <2>1, <3>1 DEF Crc32Calc
  <2>3. TypeOK'
    <3>1. offset' \in Nat /\ offset' < newSize' + Payload
      BY <1>0, <1>2, <2>1
    <3>2. 0 \in 0..ResendCnt /\ 1 \in 0..TimeOut /\ evt' \in 0..EvtNum
      BY <2>1, DfuAssumption, SendEvtType
    <3>3. crc' \in {"ZERO", "INIT", "BAD"} \cup Version
      BY <2>2 DEF TypeOK
    <3> QED
      BY <1>6, <2>1, <3>1, <3>2, <3>3 DEF TypeOK
  <2>4. BankFlags'
    <3>1. run' = run /\ flag' = flag /\ status' # "END" /\ next' = next
      BY <1>0, <2>1 DEF next
    <3>2. Intact(run)'
      BY <1>3, <1>7, <3>1 DEF Intact
    <3> QED
      BY <1>3, <3>1, <3>2 DEF BankFlags
  <2>5. Progress'
    <3>1. status' = "START" /\ next' = next
      BY <1>0, <2>1 DEF next
    <3>2. crc' # "ZERO"
      BY <1>0, <2>2, DfuAssumption DEF Progress
    <3>3. ASSUME crc' \in Version, NEW i \in 1..(offset + dataLen)
          PROVE  flash'[next][i] = <<crc', i>>
      <4>1. crc' # "BAD"
        BY <3>3, DfuAssumption
      <4>2. CASE i > offset
        <5>1. i - offset \in 1..dataLen /\ offset + (i - offset) = i /\ dataLen # 0
          BY <1>2, <4>2
        <5>2. read[i - offset] = <<crc', offset + (i - offset)>>
          BY <2>2, <4>1, <5>1
        <5> QED
          BY <5>1, <5>2
      <4>3. CASE ~(i > offset)
        <5>1. i \in 1..offset /\ i \in Unit
          <6>1. i \in 1..offset
            BY <1>2, <4>3
          <6> QED
            BY <1>0, <1>2, <6>1, DfuAssumption DEF Unit
        <5>2. flash'[next][i] = flash[next][i]
          <6>1. flash'[next] = after(dataLen)
            BY <1>1, <2>1 DEF TypeOK
          <6>2. after(dataLen)[i] = Programmed(i, dataLen, data, dataLen)
            BY <5>1 DEF after
          <6>3. i \notin (offset + 1)..(offset + dataLen)
            BY <1>2, <5>1
          <6> QED
            BY <1>2, <6>1, <6>2, <6>3 DEF Programmed
        <5>3. crc \in Version /\ crc' = crc
          BY <1>2, <2>2, <3>3, <4>1, <5>1
        <5> QED
          BY <1>0, <5>1, <5>2, <5>3 DEF Progress
      <4> QED
        BY <4>2, <4>3
    <3> QED
      BY <1>0, <2>1, <3>1, <3>2, <3>3 DEF Progress
  <2> QED
    BY <1>8, <2>3, <2>4, <2>5
<1> QED
  BY <1>9, <1>10

\* END_DFU: the image is complete when its bank is flagged, and it is flagged
\* before the old one loses its flag.
LEMMA EndStep ==
    ASSUME DfuInv, Orderly, EndDfu
    PROVE  DfuInv'
<1> USE DEF DfuInv
<1>0. /\ on /\ status = "START" /\ CrcIsZero /\ flash' = flash
      /\ next \in Bank /\ next # run /\ run \in Bank
      /\ \A b \in Bank : b = run \/ b = next
  BY TwoBanks DEF EndDfu, HostReady, TypeOK
<1>1. flag[run] = "4B" /\ flag[next] = "FF" /\ Intact(run)
  BY <1>0 DEF BankFlags
<1>2. crc \in Version /\ \A k \in 1..ImageSize : flash[next][k] = <<crc, k>>
  BY <1>0 DEF CrcIsZero, Progress
<1>3. Intact(next)
  BY <1>2 DEF Intact
<1>4. FlagWritten(flag[next], "4B") = "4B"
  BY <1>1 DEF FlagWritten
<1>5. \A b \in Bank : Intact(b)'
  BY <1>0, <1>1, <1>3, IntactKept
<1>6. FlaggedIsIntact'
  BY <1>5 DEF FlaggedIsIntact
<1>7. FlagSeen'
  BY <1>0, <1>1, <1>3, IntactSeen DEF FlagSeen
<1>8. CASE flag' = [flag EXCEPT ![next] = FlagWritten(@, "4B")] /\ Stop
  <2>1. flag' \in [Bank -> {"FF", "4B", "00"}] /\ flag'[next] = "4B"
    BY <1>0, <1>4, <1>8 DEF TypeOK
  <2>2. SomeBankBoots'
    BY <1>0, <2>1 DEF SomeBankBoots
  <2> QED
    BY <1>0, <1>6, <1>7, <1>8, <2>1, <2>2, StopStep DEF TypeOK
<1>9. CASE /\ flag' = [flag EXCEPT ![next] = FlagWritten(@, "4B"),
                                   ![run] = "00"]
           /\ timer' = 1 /\ status' = "END" /\ SendEvt
           /\ UNCHANGED <<newSize, offset, crc, resend, on, run>>
  <2>1. /\ flag' \in [Bank -> {"FF", "4B", "00"}]
        /\ flag'[next] = "4B" /\ flag'[run] = "00"
    BY <1>0, <1>4, <1>9 DEF TypeOK
  <2>2. SomeBankBoots'
    BY <1>0, <2>1 DEF SomeBankBoots
  <2>3. TypeOK'
    <3>1. 1 \in 0..TimeOut /\ evt' \in 0..EvtNum
      BY <1>9, DfuAssumption, SendEvtType
    <3> QED
      BY <1>0, <1>9, <2>1, <3>1 DEF TypeOK
  <2>4. BankFlags'
    <3>1. next' = next /\ run' = run /\ on' /\ status' = "END"
      BY <1>0, <1>9 DEF next
    <3>2. Intact(run)'
      BY <1>0, <1>1, <3>1 DEF Intact
    <3>3. Intact(next)'
      BY <1>0, <1>3, <3>1 DEF Intact
    <3> QED
      BY <2>1, <3>1, <3>2, <3>3 DEF BankFlags
  <2>5. Progress'
    BY <1>9 DEF Progress
  <2> QED
    BY <1>6, <1>7, <2>2, <2>3, <2>4, <2>5
<1> QED
  BY <1>8, <1>9 DEF EndDfu

-----------------------------------------------------------------------------
(* DFU_TaskStart, the UART, time and power.                                *)

\* DFU_TaskStart gives up an update: only the bank that is not flagged is
\* erased.
LEMMA GiveUpStep ==
    ASSUME DfuInv, on, status # "END",
           \/ /\ Reset /\ EraseNewFwArea(next, MaxSize)
              /\ UNCHANGED <<evt, on, run>>
           \/ \E upto \in 0..MaxSize : EraseNewFwArea(next, upto) /\ Stop
    PROVE  DfuInv'
<1> USE DEF DfuInv
<1>0. /\ next \in Bank /\ next # run /\ run \in Bank
      /\ \A b \in Bank : b = run \/ b = next
  BY TwoBanks DEF TypeOK
<1>1. flag[run] = "4B" /\ flag[next] = "FF" /\ Intact(run)
  BY DEF BankFlags
<1>2. MaxSize \in 0..MaxSize
  BY DfuAssumption
<1>3. PICK upto \in 0..MaxSize :
        /\ EraseNewFwArea(next, upto)
        /\ \/ Reset /\ UNCHANGED <<evt, on, run>> /\ upto = MaxSize
           \/ Stop
  BY <1>2
<1>4. /\ flash' \in [Bank -> [Unit -> {FF, XX} \cup Block]]
      /\ flag' \in [Bank -> {"FF", "4B", "00"}]
      /\ FlaggedIsIntact' /\ FlagSeen'
      /\ flash'[run] = flash[run] /\ flag'[run] = flag[run]
      /\ upto = MaxSize => flag'[next] = "FF"
  BY <1>0, <1>3, EraseStep
<1>5. SomeBankBoots'
  BY <1>0, <1>1, <1>4 DEF SomeBankBoots
<1>6. CASE Stop
  BY <1>4, <1>5, <1>6, StopStep
<1>7. CASE Reset /\ UNCHANGED <<evt, on, run>> /\ upto = MaxSize
  <2>1. TypeOK'
    <3>1. 0 \in 0..MaxSize /\ 0 \in 0..ResendCnt /\ 0 \in 0..TimeOut
      BY DfuAssumption
    <3> QED
      BY <1>4, <1>7, <3>1 DEF TypeOK, Reset
  <2>2. run' = run /\ next' = next /\ status' = "NONE" /\ on'
    BY <1>7 DEF Reset, next
  <2>3. Intact(run)'
    BY <1>1, <1>4, <2>2 DEF Intact
  <2>4. BankFlags' /\ Progress'
    BY <1>1, <1>4, <1>7, <2>2, <2>3 DEF BankFlags, Progress
  <2> QED
    BY <1>4, <1>5, <2>1, <2>4
<1> QED
  BY <1>3, <1>6, <1>7

\* A flagged bank starts, and DFU_Init erases the other one.
LEMMA BootStep ==
    ASSUME DfuInv, NEW b \in Bank, Boot(b)
    PROVE  DfuInv'
<1> USE DEF DfuInv
<1>0. Other[b] \in Bank /\ Other[b] # b /\ MaxSize \in 0..MaxSize
  BY DfuAssumption
<1>1. PICK upto \in 0..MaxSize :
        /\ EraseNewFwArea(Other[b], upto) /\ ~on /\ flag[b] = "4B"
        /\ run' = b /\ UNCHANGED <<cbVars, evt>>
        /\ (on' = TRUE /\ upto = MaxSize) \/ on' = FALSE
  <2>1. ~on /\ flag[b] = "4B" /\ run' = b /\ UNCHANGED <<cbVars, evt>>
    BY DEF Boot
  <2>2. CASE on' = TRUE /\ EraseNewFwArea(Other[b], MaxSize)
    BY <1>0, <2>1, <2>2
  <2>3. CASE UNCHANGED on /\ \E upto \in 0..MaxSize :
                               EraseNewFwArea(Other[b], upto)
    <3>1. on' = FALSE
      BY <2>1, <2>3 DEF TypeOK
    <3> QED
      BY <2>1, <2>3, <3>1
  <2> QED
    BY <2>2, <2>3 DEF Boot
<1>2. /\ flash' \in [Bank -> [Unit -> {FF, XX} \cup Block]]
      /\ flag' \in [Bank -> {"FF", "4B", "00"}]
      /\ FlaggedIsIntact' /\ FlagSeen'
      /\ flash'[b] = flash[b] /\ flag'[b] = flag[b]
      /\ upto = MaxSize => flag'[Other[b]] = "FF"
  BY <1>0, <1>1, EraseStep
<1>3. SomeBankBoots'
  BY <1>1, <1>2 DEF SomeBankBoots
<1>4. TypeOK'
  BY <1>1, <1>2 DEF TypeOK, cbVars
<1>5. Intact(run)'
  <2>1. Intact(b)
    BY <1>1 DEF FlaggedIsIntact
  <2> QED
    BY <1>1, <1>2, <2>1 DEF Intact
<1>6. status' = status /\ status # "END" /\ next' = Other[b]
  BY <1>1 DEF cbVars, BankFlags, next
<1>7. BankFlags'
  BY <1>1, <1>2, <1>5, <1>6 DEF BankFlags
<1>8. status # "START"
  BY <1>1 DEF Progress
<1>9. Progress'
  BY <1>6, <1>8 DEF Progress
<1> QED
  BY <1>2, <1>3, <1>4, <1>7, <1>9

-----------------------------------------------------------------------------
(* The theorems.                                                           *)

\* A controller that starts with one good bank and nothing in the other.
LEMMA InitDfuInv == Init => DfuInv
<1> SUFFICES ASSUME Init PROVE DfuInv
  OBVIOUS
<1>0. /\ run \in Bank /\ next \in Bank /\ next # run
      /\ \A b \in Bank : b = run \/ b = next
  BY TwoBanks DEF Init
<1>1. PICK v \in Version :
        flash = [b \in Bank |-> [k \in Unit |->
                    IF b = run /\ k <= ImageSize THEN <<v, k>> ELSE FF]]
  BY DEF Init
<1>2. \A k \in 1..ImageSize : k \in Unit /\ flash[run][k] = <<v, k>>
  BY <1>0, <1>1, DfuAssumption DEF Unit
<1>3. Intact(run)
  BY <1>2 DEF Intact
<1>4. \A b \in Bank : flag[b] = IF b = run THEN "4B" ELSE "FF"
  BY DEF Init
<1>5. TypeOK
  <2>1. /\ 0 \in 0..MaxSize /\ 0 \in 0..ResendCnt /\ 0 \in 0..TimeOut
        /\ 0 \in 0..EvtNum
    BY DfuAssumption
  <2>2. \A k \in Unit : k <= ImageSize => <<v, k>> \in Block
    BY DfuAssumption DEF Unit, Block
  <2>3. flash \in [Bank -> [Unit -> {FF, XX} \cup Block]]
    BY <1>1, <2>2
  <2> QED
    BY <1>0, <2>1, <2>3 DEF Init, TypeOK
<1>6. SomeBankBoots
  BY <1>0, <1>4 DEF SomeBankBoots
<1>7. FlaggedIsIntact
  BY <1>3, <1>4 DEF FlaggedIsIntact
<1>8. FlagSeen
  BY <1>3, <1>4, IntactSeen DEF FlagSeen
<1>9. BankFlags /\ Progress
  BY <1>0, <1>3, <1>4 DEF BankFlags, Progress, Init
<1> QED
  BY <1>5, <1>6, <1>7, <1>8, <1>9 DEF DfuInv

\* Every command, every round of the main loop and every power failure
\* preserves the invariant.
LEMMA NextDfuInv ==
    ASSUME Orderly, Prompt, Covered, DfuInv, [Next]_vars
    PROVE  DfuInv'
<1>1. CASE \E fwSize \in 0..(MaxSize + 1), ok \in BOOLEAN : StartDfu(fwSize, ok)
  BY <1>1, StartStep
<1>2. CASE \E dataLen \in 0..Payload :
             \E data \in [1..dataLen -> Block] : FwData(dataLen, data)
  BY <1>2, FwDataStep
<1>3. CASE \/ \E good \in BOOLEAN : FwDataRefused(good)
           \/ EndRefused \/ Terminate \/ OtherCmd
  BY <1>3, RefusedStep
<1>4. CASE EndDfu
  BY <1>4, EndStep
<1>5. CASE TaskEnd \/ PowerOff
  <2>1. Stop /\ UNCHANGED <<flash, flag>>
    BY <1>5 DEF TaskEnd, PowerOff, flashVars
  <2>2. /\ SomeBankBoots' /\ FlaggedIsIntact' /\ FlagSeen'
        /\ flash' \in [Bank -> [Unit -> {FF, XX} \cup Block]]
        /\ flag' \in [Bank -> {"FF", "4B", "00"}] /\ TypeOK
    BY <2>1 DEF DfuInv, SomeBankBoots, FlaggedIsIntact, FlagSeen, Intact, TypeOK
  <2> QED
    BY <2>1, <2>2, StopStep
<1>6. CASE TaskTerm
  BY <1>6, GiveUpStep DEF TaskTerm
<1>7. CASE TaskTimeout
  <2>1. status # "END"
    BY <1>7, DfuAssumption DEF TaskTimeout, DfuInv, Progress
  <2> QED
    BY <1>7, <2>1, GiveUpStep DEF TaskTimeout
<1>8. CASE Tick
  <2>1. /\ status # "END" /\ timer' \in 0..TimeOut
        /\ UNCHANGED <<status, newSize, offset, crc, resend, evt, on, run,
                       flash, flag>>
    BY <1>8, DfuAssumption DEF Tick, flashVars
  <2>2. TypeOK' /\ Progress'
    BY <2>1 DEF DfuInv, TypeOK, Progress, next
  <2> QED
    BY <2>1, <2>2, QuietStep
<1>9. CASE EvtSent
  <2>1. /\ evt' \in 0..EvtNum
        /\ UNCHANGED <<status, newSize, offset, crc, resend, timer, on, run,
                       flash, flag>>
    BY <1>9, DfuAssumption DEF EvtSent, flashVars, cbVars, DfuInv, TypeOK
  <2>2. TypeOK' /\ Progress'
    BY <2>1 DEF DfuInv, TypeOK, Progress, next
  <2> QED
    BY <2>1, <2>2, QuietStep
<1>10. CASE \E b \in Bank : Boot(b)
  BY <1>10, BootStep
<1>11. CASE UNCHANGED vars
  <2>1. UNCHANGED <<status, newSize, offset, crc, resend, timer, evt, on, run,
                    flash, flag>>
    BY <1>11 DEF vars, cbVars, flashVars
  <2>2. TypeOK' /\ Progress'
    BY <2>1 DEF DfuInv, TypeOK, Progress, next
  <2> QED
    BY <2>1, <2>2, QuietStep
<1> QED
  BY <1>1, <1>2, <1>3, <1>4, <1>5, <1>6, <1>7, <1>8, <1>9, <1>10, <1>11 DEF Next

\* The invariant holds in every state of every behaviour.
LEMMA DfuInvAlways ==
    ASSUME Orderly, Prompt, Covered
    PROVE  Spec => []DfuInv
<1>1. DfuInv /\ [Next]_vars => DfuInv'
  BY NextDfuInv
<1> QED
  BY <1>1, InitDfuInv, PTL DEF Spec

\* Whenever and however often power fails during an update, the boot ROM
\* finds a flagged bank: DFU_EndDfuCmdHandler, DFU_EraseNewFwArea and DFU_Init
\* order their writes and erasures rightly, for images and areas of every size.
THEOREM UpdateKeepsBootable ==
    ASSUME Orderly, Prompt, Covered
    PROVE  Spec => []SomeBankBoots
<1>1. DfuInv => SomeBankBoots
  BY DEF DfuInv
<1> QED
  BY <1>1, DfuInvAlways, PTL

\* Every flagged bank holds a complete image: END_DFU writes the flag after the
\* check of the whole image, and an interrupted erasure never leaves the flag on
\* a bank whose blocks are gone.
THEOREM UpdateFlagsIntact ==
    ASSUME Orderly, Prompt, Covered
    PROVE  Spec => []FlaggedIsIntact
<1>1. DfuInv => FlaggedIsIntact
  BY DEF DfuInv
<1> QED
  BY <1>1, DfuInvAlways, PTL

\* The running firmware is never written to or erased by an update.
THEOREM UpdateKeepsRunning ==
    ASSUME Orderly, Prompt, Covered
    PROVE  Spec => []RunIntact
<1>1. DfuInv => RunIntact
  BY DEF DfuInv, BankFlags, RunIntact
<1> QED
  BY <1>1, DfuInvAlways, PTL

\* The fields of dfuCb keep their ranges: no size beyond the area, no more than
\* DFU_RESEND_CNT resends, and an offset that passes the announced size, for the
\* size is asked for before the payload is written, by less than one payload.
THEOREM DfuTypeCorrect ==
    ASSUME Orderly, Prompt, Covered
    PROVE  Spec => []TypeOK
<1>1. DfuInv => TypeOK
  BY DEF DfuInv
<1> QED
  BY <1>1, DfuInvAlways, PTL

=============================================================================
