--------------------------- MODULE ChipAloneProofs ---------------------------
(***************************************************************************)
(* What holds of the chip for every buffer size, modem table, fault period *)
(* and bound, whatever the bridge and the driver do with it.               *)
(***************************************************************************)
EXTENDS ChipAlone, SequenceTheorems, TLAPS

-----------------------------------------------------------------------------
\* The operators keep the chip a chip.

\* What is written into the buffer leaves it a buffer.
LEMMA StoreType ==
  ASSUME NEW mem \in [Cells -> Bytes], NEW at \in Cells,
         NEW bytes \in Seq(Bytes)
  PROVE  Store(mem, at, bytes) \in [Cells -> Bytes]
<1> SUFFICES ASSUME NEW i \in Cells, at <= i, i < at + Len(bytes)
             PROVE  bytes[i - at + 1] \in Bytes
  BY DEF Store
<1>1. i - at + 1 \in 1..Len(bytes)
  BY BufLenAssumption DEF Cells
<1> QED
  BY <1>1

\* What goes on the air is a payload.
LEMMA PrefixType ==
  ASSUME NEW mem \in [Cells -> Bytes], NEW n \in 0..MaxPayload
  PROVE  Prefix(mem, n) \in Payloads
<1>1. \A i \in 1..n : i - 1 \in Cells
  BY BufLenAssumption DEF Cells, MaxPayload
<1>2. Prefix(mem, n) \in [1..n -> Bytes]
  BY <1>1 DEF Prefix
<1> QED
  BY <1>2 DEF Payloads

\* Time and the busy counter stay natural numbers.
LEMMA ElapseType ==
  ASSUME NEW c \in Chip, NEW t \in Nat
  PROVE  Elapse(c, t) \in Chip
<1> DEFINE b == IF c.irq \cap BusyFlags # {} /\ t > c.now
                THEN c.busyMs + (t - c.now) ELSE c.busyMs
<1>1. b \in Nat
  BY DEF Chip
<1>2. Elapse(c, t) = [c EXCEPT !.busyMs = b, !.now = t]
  BY Zenon DEF Elapse
<1> HIDE DEF b
<1> QED
  BY <1>1, <1>2, ZenonT(60) DEF Chip

\* The faulty chip's own flags leave it a chip.
LEMMA SpuriousType ==
  ASSUME NEW c \in Chip
  PROVE  Spurious(c) \in Chip
<1>1. c.spuriousRaises + 1 \in Nat /\ c.now + StuckIrqMs \in Nat
  BY StuckIrqAssumption DEF Chip
<1>2. c.irq \cup {"Preamble"} \in SUBSET Flags
  BY DEF Chip, Flags, LowByte, HighByte
<1> QED
  BY <1>1, <1>2, Zenon DEF Chip, Spurious

\* So do the flags of a signal on the channel.
LEMMA DetectType ==
  ASSUME NEW c \in Chip
  PROVE  Detect(c) \in Chip
<1> DEFINE preamble == /\ c.channelBusy /\ ~c.preambleRaised
                       /\ c.now - c.busySince >= PreambleMs[c.modem]
           header == /\ c.channelBusy /\ ~c.headerRaised
                     /\ c.now - c.busySince >= HeaderMs[c.modem]
           flags == c.irq \cup (IF preamble THEN {"Preamble"} ELSE {})
                          \cup (IF header THEN {"Header", "SyncWord"} ELSE {})
<1>1. flags \in SUBSET Flags
  BY DEF Chip, Flags, LowByte, HighByte
<1>2. Detect(c) = [c EXCEPT !.irq = flags,
                            !.preambleRaised = @ \/ preamble,
                            !.headerRaised = @ \/ header]
  BY Zenon DEF Detect
<1>3. /\ (c.preambleRaised \/ preamble) \in BOOLEAN
      /\ (c.headerRaised \/ header) \in BOOLEAN
  BY Zenon DEF Chip
<1> HIDE DEF flags, preamble, header
<1> QED
  BY <1>1, <1>2, <1>3, ZenonT(60) DEF Chip

\* A delivery: the frame may be longer than the buffer, its copy is not.
LEMMA DeliverType ==
  ASSUME NEW c \in Chip
  PROVE  Deliver(c) \in Chip
<1>1. CASE c.inbox = << >>
  BY <1>1, Zenon DEF Deliver
<1>2. CASE c.inbox # << >>
  <2> DEFINE f == Head(c.inbox)
             n == RxLength(f)
             mem == Store(c.buffer, 0, SubSeq(f, 1, n))
             rest == Tail(c.inbox)
             flags == c.irq \cup {"RxDone", "Preamble", "Header", "SyncWord"}
  <2>1. c.inbox \in Seq(Seq(Bytes)) /\ c.buffer \in [Cells -> Bytes]
    BY DEF Chip
  <2>2. f \in Seq(Bytes) /\ rest \in Seq(Seq(Bytes))
    BY <1>2, <2>1
  <2>3. n \in 0..MaxPayload /\ n <= Len(f)
    BY <2>2, BufLenAssumption DEF RxLength, MaxPayload
  <2>4. SubSeq(f, 1, n) \in Seq(Bytes)
    BY <2>2, <2>3, SubSeqProperties DEF MaxPayload
  <2>5. mem \in [Cells -> Bytes]
    <3>1. 0 \in Cells
      BY BufLenAssumption DEF Cells
    <3> HIDE DEF f, n
    <3> QED
      BY <2>1, <2>4, <3>1, StoreType, Zenon
  <2>6. flags \in SUBSET Flags
    BY DEF Chip, Flags, LowByte, HighByte
  <2>7. Deliver(c) = [c EXCEPT !.rxLen = n, !.buffer = mem,
                               !.inbox = rest, !.irq = flags]
    BY <1>2, Zenon DEF Deliver
  <2> HIDE DEF f, n, mem, rest, flags
  <2> QED
    BY <2>2, <2>3, <2>5, <2>6, <2>7, ZenonT(60) DEF Chip
<1> QED
  BY <1>1, <1>2

\* So does a whole tick.
LEMMA TickType ==
  ASSUME NEW c \in Chip, NEW t \in Nat
  PROVE  Tick(c, t) \in Chip
BY ElapseType, SpuriousType, DeliverType, DetectType, Zenon DEF Tick

-----------------------------------------------------------------------------
\* The record keeps its shape: VirtualSX1262.h's members hold what their
\* declarations say, for ever.
THEOREM TypeCorrect == Spec => []TypeOK
<1>1. Init => TypeOK
  <2> SUFFICES ASSUME NEW m \in Modems, chip = PowerOn(m)
               PROVE  chip \in Chip
    BY DEF Init, TypeOK
  <2>1. << >> \in Payloads
    <3>1. << >> \in [1..0 -> Bytes]
      OBVIOUS
    <3> QED
      BY <3>1, BufLenAssumption DEF Payloads, MaxPayload
  <2>2. /\ [i \in Cells |-> 0] \in [Cells -> Bytes] /\ << >> \in Seq(Seq(Bytes))
        /\ 0 \in Nat /\ 0 \in 0..MaxPayload /\ {} \in SUBSET Flags
    BY BytesAssumption, BufLenAssumption DEF MaxPayload
  <2>3. "standby" \in Modes /\ "saving" \in Gains /\ "never" \in TxFem
    BY DEF Modes, Gains, TxFem
  <2> QED
    BY <2>1, <2>2, <2>3, Zenon DEF PowerOn, Chip
<1>2. TypeOK /\ [Next]_chip => TypeOK'
  <2> SUFFICES ASSUME chip \in Chip, [Next]_chip
               PROVE  chip' \in Chip
    BY DEF TypeOK
  <2>a. /\ chip.inbox \in Seq(Seq(Bytes)) /\ chip.buffer \in [Cells -> Bytes]
        /\ chip.txLen \in 0..MaxPayload /\ chip.now \in Nat
        /\ chip.irq \in SUBSET Flags /\ chip.irqReads \in Nat /\ chip.busyReads \in Nat
        /\ chip.preambleRaised \in BOOLEAN /\ chip.headerRaised \in BOOLEAN
    BY Zenon DEF Chip
  <2>b. /\ "standby" \in Modes /\ "rx" \in Modes /\ "tx" \in Modes
        /\ "saving" \in Gains /\ "out" \in TxFem /\ "in" \in TxFem
    BY DEF Modes, Gains, TxFem
  <2>1. CASE Advance
    <3>1. PICK d \in 0..MaxStep : chip' = Tick(chip, chip.now + d)
      BY <2>1 DEF Advance
    <3>2. chip.now + d \in Nat
      BY <2>a, BoundAssumption
    <3> QED
      BY <3>1, <3>2, TickType
  <2>2. CASE EngineFrame
    <3>1. PICK f \in Frames : chip' = QueueFrame(chip, f)
      BY <2>2 DEF EngineFrame
    <3> DEFINE q == Append(chip.inbox, f)
    <3>2. q \in Seq(Seq(Bytes))
      BY <2>a, AppendProperties, DriverAssumption
    <3>3. chip' = [chip EXCEPT !.inbox = q]
      BY <3>1, Zenon DEF QueueFrame
    <3> HIDE DEF q
    <3> QED
      BY <3>2, <3>3, Zenon DEF Chip
  <2>3. CASE EngineChannel
    <3>1. PICK busy \in BOOLEAN : chip' = SetChannelBusy(chip, busy)
      BY <2>3 DEF EngineChannel
    <3> DEFINE since == IF busy /\ ~chip.channelBusy
                        THEN chip.now ELSE chip.busySince
               preamble == busy /\ chip.preambleRaised
               header == busy /\ chip.headerRaised
    <3>2. since \in Nat /\ preamble \in BOOLEAN /\ header \in BOOLEAN
      BY Zenon, <2>a DEF Chip
    <3>3. chip' = [chip EXCEPT !.busySince = since, !.preambleRaised = preamble,
                               !.headerRaised = header, !.channelBusy = busy]
      BY <3>1, Zenon DEF SetChannelBusy
    <3> HIDE DEF since, preamble, header
    <3> QED
      BY <3>2, <3>3, ZenonT(60) DEF Chip
  <2>4. CASE EngineTxDone
    <3>1. chip.irq \cup {"TxDone"} \in SUBSET Flags
      BY <2>a DEF Flags, LowByte
    <3>2. CASE chip.mode = "tx"
      <4> DEFINE flags == chip.irq \cup {"TxDone"}
      <4>1. chip' = [chip EXCEPT !.irq = flags, !.mode = "standby"]
        BY <2>4, <3>2, Zenon DEF EngineTxDone, TransmitFinished
      <4>2. flags \in SUBSET Flags
        BY <3>1
      <4> HIDE DEF flags
      <4> QED
        BY <2>b, <4>1, <4>2, Zenon DEF Chip
    <3>3. CASE chip.mode # "tx"
      BY <2>4, <3>3, Zenon DEF EngineTxDone, TransmitFinished
    <3> QED
      BY <3>2, <3>3
  <2>5. CASE Drain
    BY <2>5, Zenon DEF Drain, TakeTx, Chip
  <2>6. CASE FemPin
    <3>1. PICK on \in BOOLEAN : chip' = SetFemEnabled(chip, on)
      BY <2>6, DriverAssumption DEF FemPin
    <3> QED
      BY <3>1, Zenon DEF SetFemEnabled, Chip
  <2>7. CASE Standby
    BY <2>7, <2>b, Zenon DEF Standby, SetStandby, Chip
  <2>8. CASE Receive
    BY <2>8, <2>b, Zenon DEF Receive, SetRx, Chip
  <2>9. CASE Transmit
    <3> DEFINE sent == Prefix(chip.buffer, chip.txLen)
    <3>1. sent \in Payloads
      BY <2>a, PrefixType
    <3> DEFINE fem == IF chip.fem THEN "in" ELSE "out"
    <3>2. chip' = [chip EXCEPT !.mode = "tx", !.femAtTx = fem,
                               !.pendingTx = sent, !.hasPendingTx = TRUE]
      BY <2>9, Zenon DEF Transmit, SetTx
    <3>3. fem \in TxFem
      BY <2>b, Zenon
    <3> HIDE DEF sent, fem
    <3> QED
      BY <2>b, <3>1, <3>2, <3>3, ZenonT(60) DEF Chip
  <2>10. CASE ChannelScan
    <3> DEFINE flags == chip.irq \cup {"CadDone"}
                          \cup (IF chip.channelBusy THEN {"CadDetected"} ELSE {})
    <3>1. flags \in SUBSET Flags
      BY <2>a DEF Flags, LowByte, HighByte
    <3>2. chip' = [chip EXCEPT !.irq = flags, !.mode = "standby"]
      BY <2>10, Zenon DEF ChannelScan, SetCad
    <3> HIDE DEF flags
    <3> QED
      BY <2>b, <3>1, <3>2, Zenon DEF Chip
  <2>11. CASE CalibrateAll
    BY <2>11, <2>b, Zenon DEF CalibrateAll, Calibrate, Chip
  <2>12. CASE ProgramGain
    <3>1. PICK g \in Gains : chip' = WriteRxGain(chip, g)
      BY <2>12, DriverAssumption DEF ProgramGain
    <3> QED
      BY <3>1, Zenon DEF WriteRxGain, Chip
  <2>13. CASE ProgramModem
    BY <2>13, Zenon DEF ProgramModem, SetModulationParams, Chip
  <2>14. CASE ProgramLength
    <3>1. PICK n \in 0..MaxPayload : chip' = SetPacketParams(chip, n)
      BY <2>14, DriverAssumption DEF ProgramLength
    <3> QED
      BY <3>1, Zenon DEF SetPacketParams, Chip
  <2>15. CASE FillBuffer
    <3>1. PICK at \in Cells, bytes \in TxWrites :
            chip' = WriteBuffer(chip, at, bytes)
      BY <2>15 DEF FillBuffer
    <3> DEFINE mem == Store(chip.buffer, at, bytes)
    <3>2. bytes \in Seq(Bytes)
      BY DriverAssumption, BufLenAssumption DEF Payloads, MaxPayload
    <3>3. mem \in [Cells -> Bytes]
      BY <2>a, <3>2, StoreType
    <3>4. chip' = [chip EXCEPT !.buffer = mem]
      BY <3>1, Zenon DEF WriteBuffer
    <3> HIDE DEF mem
    <3> QED
      BY <3>3, <3>4, Zenon DEF Chip
  <2>16. CASE ProgramIrq
    <3>1. PICK irqs \in SUBSET Flags : chip' = SetDioIrqParams(chip, irqs, irqs)
      BY <2>16, DriverAssumption DEF ProgramIrq
    <3> QED
      BY <3>1, Zenon DEF SetDioIrqParams, Chip
  <2>17. CASE ClearIrq
    <3>1. PICK clear : chip' = ClearIrqStatus(chip, clear)
      BY <2>17 DEF ClearIrq
    <3> DEFINE flags == chip.irq \ clear
    <3> DEFINE pre == chip.preambleRaised /\ "Preamble" \notin clear
    <3> DEFINE head == chip.headerRaised /\ "Header" \notin clear
    <3>2. flags \in SUBSET Flags /\ pre \in BOOLEAN /\ head \in BOOLEAN
      BY Zenon, <2>a
    <3>3. chip' = [chip EXCEPT !.irq = flags, !.preambleRaised = pre,
                               !.headerRaised = head]
      BY <3>1, Zenon DEF ClearIrqStatus
    <3> HIDE DEF flags, pre, head
    <3> QED
      BY <3>2, <3>3, ZenonT(60) DEF Chip
  <2>18. CASE ReadIrq
    <3>1. chip.irqReads + 1 \in Nat /\ chip.busyReads + 1 \in Nat
      BY <2>a
    <3> QED
      BY <2>18, <3>1, Zenon DEF ReadIrq, GetIrqStatus, Chip
  <2>19. CASE UNCHANGED chip
    BY <2>19
  <2> QED
    BY <2>1, <2>2, <2>3, <2>4, <2>5, <2>6, <2>7, <2>8, <2>9, <2>10, <2>11,
       <2>12, <2>13, <2>14, <2>15, <2>16, <2>17, <2>18, <2>19 DEF Next
<1> QED
  BY <1>1, <1>2, PTL DEF Spec

-----------------------------------------------------------------------------
\* The detector and its latches.

Latched(c) ==
  /\ c.preambleRaised => c.channelBusy /\ "Preamble" \in c.irq
  /\ c.headerRaised => c.channelBusy /\ "Header" \in c.irq

\* What the flags say of the signal at the end of a tick in receive mode.
Seen(c) ==
  c.mode = "rx" /\ c.channelBusy =>
    /\ c.now - c.busySince >= PreambleMs[c.modem] => "Preamble" \in c.irq
    /\ c.now - c.busySince >= HeaderMs[c.modem] => "Header" \in c.irq

\* Delivering a frame leaves latches and mode alone and only adds flags.
LEMMA DeliverFrame ==
  ASSUME NEW c \in Chip
  PROVE  /\ Deliver(c).preambleRaised = c.preambleRaised
         /\ Deliver(c).headerRaised = c.headerRaised
         /\ Deliver(c).channelBusy = c.channelBusy
         /\ Deliver(c).mode = c.mode
         /\ c.irq \subseteq Deliver(c).irq
<1>1. CASE c.inbox = << >>
  BY <1>1, Zenon DEF Deliver
<1>2. CASE c.inbox # << >>
  <2> DEFINE f == Head(c.inbox)
             n == RxLength(f)
             mem == Store(c.buffer, 0, SubSeq(f, 1, n))
             rest == Tail(c.inbox)
             flags == c.irq \cup {"RxDone", "Preamble", "Header", "SyncWord"}
  <2>1. Deliver(c) = [c EXCEPT !.rxLen = n, !.buffer = mem,
                               !.inbox = rest, !.irq = flags]
    BY <1>2, Zenon DEF Deliver
  <2>2. c.irq \subseteq flags
    OBVIOUS
  <2> HIDE DEF f, n, mem, rest, flags
  <2> QED
    BY <2>1, <2>2, Zenon DEF Chip
<1> QED
  BY <1>1, <1>2

\* Time passing leaves flags, latches and signal alone.
LEMMA ElapseFrame ==
  ASSUME NEW c \in Chip, NEW t \in Nat
  PROVE  /\ Elapse(c, t).preambleRaised = c.preambleRaised
         /\ Elapse(c, t).headerRaised = c.headerRaised
         /\ Elapse(c, t).channelBusy = c.channelBusy
         /\ Elapse(c, t).irq = c.irq
BY Zenon DEF Elapse, Chip

\* A spurious raise leaves latches and signal alone and only adds flags.
LEMMA SpuriousFrame ==
  ASSUME NEW c \in Chip
  PROVE  /\ Spurious(c).preambleRaised = c.preambleRaised
         /\ Spurious(c).headerRaised = c.headerRaised
         /\ Spurious(c).channelBusy = c.channelBusy
         /\ c.irq \subseteq Spurious(c).irq
BY Zenon DEF Spurious, Chip

\* Detection sets a latch only with its flag, on a busy channel, and leaves no
\* signal of the detection time unseen.
LEMMA DetectLatches ==
  ASSUME NEW c \in Chip, Latched(c)
  PROVE  Latched(Detect(c)) /\ Seen(Detect(c))
<1> DEFINE preamble == /\ c.channelBusy /\ ~c.preambleRaised
                       /\ c.now - c.busySince >= PreambleMs[c.modem]
           header == /\ c.channelBusy /\ ~c.headerRaised
                     /\ c.now - c.busySince >= HeaderMs[c.modem]
           flags == c.irq \cup (IF preamble THEN {"Preamble"} ELSE {})
                          \cup (IF header THEN {"Header", "SyncWord"} ELSE {})
           d == Detect(c)
<1>1. /\ d.irq = flags /\ d.preambleRaised = (c.preambleRaised \/ preamble)
      /\ d.headerRaised = (c.headerRaised \/ header)
      /\ d.channelBusy = c.channelBusy /\ d.now = c.now
      /\ d.busySince = c.busySince /\ d.modem = c.modem
  BY Zenon DEF Detect, Chip
<1>2. /\ preamble => "Preamble" \in flags
      /\ header => "Header" \in flags
      /\ c.irq \subseteq flags
  BY Zenon
<1>3. Latched(d)
  <2> HIDE DEF flags, d
  <2> QED
    BY <1>1, <1>2, Zenon DEF Latched
<1>4. Seen(d)
  <2> HIDE DEF flags, d
  <2> QED
    BY <1>1, <1>2, Zenon DEF Latched, Seen
<1> QED
  BY <1>3, <1>4

\* A tick keeps the latches right and, in receive mode, sees every signal that
\* has lasted the detection time.
LEMMA TickLatches ==
  ASSUME NEW c \in Chip, NEW t \in Nat, Latched(c)
  PROVE  Latched(Tick(c, t)) /\ Seen(Tick(c, t))
<1> DEFINE d == Spurious(Elapse(c, t))
<1>1. d \in Chip /\ Latched(d)
  <2>1. Elapse(c, t) \in Chip /\ Latched(Elapse(c, t))
    BY ElapseType, ElapseFrame, Zenon DEF Latched
  <2> QED
    BY <2>1, SpuriousType, SpuriousFrame, Zenon DEF Latched
<1>2. Deliver(d) \in Chip /\ Latched(Deliver(d))
  BY <1>1, DeliverType, DeliverFrame, Zenon DEF Latched
<1>3. CASE d.mode = "rx"
  BY <1>2, <1>3, DetectLatches, Zenon DEF Tick
<1>4. CASE d.mode # "rx"
  <2>1. Tick(c, t) = d
    BY <1>4, Zenon DEF Tick
  <2> HIDE DEF d
  <2> QED
    BY <1>1, <1>4, <2>1, Zenon DEF Seen
<1> QED
  BY <1>3, <1>4

\* A latch never outlives its flag or the signal it stands for.
LEMMA LatchedStep == TypeOK /\ DetectorLatched /\ [Next]_chip => DetectorLatched'
<1> SUFFICES ASSUME chip \in Chip, Latched(chip), [Next]_chip
             PROVE  Latched(chip')
  BY Zenon DEF TypeOK, DetectorLatched, Latched
<1>1. CASE Advance
  <2>1. PICK d \in 0..MaxStep : chip' = Tick(chip, chip.now + d)
    BY <1>1 DEF Advance
  <2>2. chip.now + d \in Nat
    BY BoundAssumption DEF Chip
  <2> QED
    BY <2>1, <2>2, TickLatches, Zenon
<1>2. CASE EngineFrame
  BY <1>2, Zenon DEF EngineFrame, QueueFrame, Chip, Latched
<1>3. CASE EngineChannel
  <2>1. PICK busy \in BOOLEAN : chip' = SetChannelBusy(chip, busy)
    BY <1>3 DEF EngineChannel
  <2>2. /\ chip'.irq = chip.irq /\ chip'.channelBusy = busy
        /\ chip'.preambleRaised = (busy /\ chip.preambleRaised)
        /\ chip'.headerRaised = (busy /\ chip.headerRaised)
    BY <2>1, Zenon DEF SetChannelBusy, Chip
  <2> QED
    BY <2>2, Zenon DEF Latched
<1>4. CASE EngineTxDone
  <2>1. /\ chip.irq \subseteq chip'.irq /\ chip'.channelBusy = chip.channelBusy
        /\ chip'.preambleRaised = chip.preambleRaised
        /\ chip'.headerRaised = chip.headerRaised
    BY <1>4, Zenon DEF EngineTxDone, TransmitFinished, Chip
  <2> QED
    BY <2>1, Zenon DEF Latched
<1>5. CASE ChannelScan
  <2>1. /\ chip.irq \subseteq chip'.irq /\ chip'.channelBusy = chip.channelBusy
        /\ chip'.preambleRaised = chip.preambleRaised
        /\ chip'.headerRaised = chip.headerRaised
    BY <1>5, Zenon DEF ChannelScan, SetCad, Chip
  <2> QED
    BY <2>1, Zenon DEF Latched
<1>6. CASE ClearIrq
  <2>1. PICK clear : chip' = ClearIrqStatus(chip, clear)
    BY <1>6 DEF ClearIrq
  <2>2. /\ chip'.irq = chip.irq \ clear /\ chip'.channelBusy = chip.channelBusy
        /\ chip'.preambleRaised = (chip.preambleRaised /\ "Preamble" \notin clear)
        /\ chip'.headerRaised = (chip.headerRaised /\ "Header" \notin clear)
    BY <2>1, Zenon DEF ClearIrqStatus, Chip
  <2> QED
    BY <2>2, Zenon DEF Latched
<1>7. CASE Drain \/ FemPin \/ Standby \/ Receive \/ Transmit
  BY <1>7, Zenon DEF Drain, TakeTx, FemPin, SetFemEnabled, Standby, SetStandby,
     Receive, SetRx, Transmit, SetTx, Chip, Latched
<1>8. CASE CalibrateAll \/ ProgramGain \/ ProgramModem \/ ProgramLength
  BY <1>8, Zenon DEF CalibrateAll, Calibrate, ProgramGain, WriteRxGain,
     ProgramModem, SetModulationParams, ProgramLength, SetPacketParams, Chip, Latched
<1>9. CASE FillBuffer \/ ProgramIrq \/ ReadIrq
  BY <1>9, Zenon DEF FillBuffer, WriteBuffer, ProgramIrq, SetDioIrqParams,
     ReadIrq, GetIrqStatus, Chip, Latched
<1>10. CASE UNCHANGED chip
  BY <1>10
<1> QED
  BY <1>1, <1>2, <1>3, <1>4, <1>5, <1>6, <1>7, <1>8, <1>9, <1>10 DEF Next

\* A chip just built has no latch set.
LEMMA LatchedInit == Init => DetectorLatched
<1> SUFFICES ASSUME NEW m \in Modems, chip = PowerOn(m)
             PROVE  DetectorLatched
  BY DEF Init
<1>1. ~PowerOn(m).preambleRaised /\ ~PowerOn(m).headerRaised
  BY Zenon DEF PowerOn
<1> QED
  BY <1>1, Zenon DEF DetectorLatched

\* The latches of tick(), setChannelBusy() and ClearIrqStatus agree with the
\* flags, for every modem table and every order of calls.
THEOREM DetectorLatchedHolds == Spec => []DetectorLatched
<1>1. Spec => []TypeOK
  BY TypeCorrect
<1> QED
  BY <1>1, LatchedInit, LatchedStep, PTL DEF Spec

\* Listen-before-talk: no tick in receive mode ends on a signal that has lasted
\* the detection time without its flags up, for every modem table.
THEOREM TicksSeeSignalHolds == Spec => TicksSeeSignal
<1>1. TypeOK /\ DetectorLatched /\ [Next]_chip => [Advance => SignalSeen]_chip
  <2> SUFFICES ASSUME chip \in Chip, Latched(chip), Advance
               PROVE  SignalSeen
    BY Zenon DEF TypeOK, DetectorLatched, Latched
  <2>1. PICK d \in 0..MaxStep : chip' = Tick(chip, chip.now + d)
    BY DEF Advance
  <2>2. chip.now + d \in Nat
    BY BoundAssumption DEF Chip
  <2>3. Seen(chip')
    BY <2>1, <2>2, TickLatches, Zenon
  <2> QED
    BY <2>3, Zenon DEF Seen, SignalSeen
<1> QED
  BY <1>1, TypeCorrect, DetectorLatchedHolds, PTL DEF Spec, TicksSeeSignal

-----------------------------------------------------------------------------
\* The counters reported to the host, and the fault's own schedule.

\* Each false preamble uses up one period of the schedule, and the schedule is
\* never more than one period ahead of the clock.
Scheduled(c) ==
  /\ c.spuriousRaises * StuckIrqMs <= c.nextSpurious
  /\ c.nextSpurious <= c.now + StuckIrqMs
Counted(c) == c.busyMs <= c.now /\ c.busyReads <= c.irqReads

\* What no step but a tick or a read of the register touches.
Clocks(c) == <<c.busyMs, c.now, c.busyReads, c.irqReads,
               c.spuriousRaises, c.nextSpurious>>

\* The busy time grows by no more than the time.
LEMMA ElapseCounts ==
  ASSUME NEW c \in Chip, NEW t \in Nat, t >= c.now, Counted(c), Scheduled(c)
  PROVE  Counted(Elapse(c, t)) /\ Scheduled(Elapse(c, t))
<1> DEFINE b == IF c.irq \cap BusyFlags # {} /\ t > c.now
                THEN c.busyMs + (t - c.now) ELSE c.busyMs
           d == Elapse(c, t)
<1>1. /\ d.busyMs = b /\ d.now = t
      /\ d.busyReads = c.busyReads /\ d.irqReads = c.irqReads
      /\ d.spuriousRaises = c.spuriousRaises /\ d.nextSpurious = c.nextSpurious
  BY Zenon DEF Elapse, Chip
<1>2. /\ c.busyMs \in Nat /\ c.now \in Nat /\ c.nextSpurious \in Nat
      /\ c.busyReads \in Nat /\ c.irqReads \in Nat
  BY Zenon DEF Chip
<1>3. b <= t
  BY <1>2 DEF Counted
<1>4. c.nextSpurious <= t + StuckIrqMs
  BY <1>2, StuckIrqAssumption DEF Scheduled
<1>5. Counted(d) /\ Scheduled(d)
  <2> HIDE DEF b, d
  <2> QED
    BY <1>1, <1>3, <1>4, SMT DEF Counted, Scheduled
<1> QED
  BY <1>5

\* A spurious raise is counted once and moves the next one a period on.
LEMMA SpuriousCounts ==
  ASSUME NEW c \in Chip, Counted(c), Scheduled(c)
  PROVE  Counted(Spurious(c)) /\ Scheduled(Spurious(c))
<1> DEFINE d == Spurious(c)
<1>1. CASE StuckIrqMs > 0 /\ c.mode = "rx" /\ c.now >= c.nextSpurious
  <2>1. /\ d.busyMs = c.busyMs /\ d.now = c.now
        /\ d.busyReads = c.busyReads /\ d.irqReads = c.irqReads
        /\ d.spuriousRaises = c.spuriousRaises + 1
        /\ d.nextSpurious = c.now + StuckIrqMs
    BY <1>1, Zenon DEF Spurious, Chip
  <2>2. c.now \in Nat /\ c.nextSpurious \in Nat /\ c.spuriousRaises \in Nat
    BY Zenon DEF Chip
  <2>3. (c.spuriousRaises + 1) * StuckIrqMs = c.spuriousRaises * StuckIrqMs + StuckIrqMs
    BY <2>2, StuckIrqAssumption
  <2>4. c.spuriousRaises * StuckIrqMs \in Nat
    BY <2>2, StuckIrqAssumption
  <2>5. (c.spuriousRaises + 1) * StuckIrqMs <= c.now + StuckIrqMs
    BY <1>1, <2>2, <2>3, <2>4, StuckIrqAssumption DEF Scheduled
  <2>6. c.now + StuckIrqMs <= c.now + StuckIrqMs
    BY <2>2, StuckIrqAssumption
  <2>7. Counted(d) /\ Scheduled(d)
    <3> HIDE DEF d
    <3> QED
      BY <2>1, <2>5, <2>6, SMT DEF Counted, Scheduled
  <2> QED
    BY <2>7
<1>2. CASE ~(StuckIrqMs > 0 /\ c.mode = "rx" /\ c.now >= c.nextSpurious)
  BY <1>2, Zenon DEF Spurious
<1> QED
  BY <1>1, <1>2

\* Delivery and detection leave every clock and counter alone.
LEMMA DeliverDetectClocks ==
  ASSUME NEW c \in Chip
  PROVE  Clocks(Deliver(c)) = Clocks(c) /\ Clocks(Detect(c)) = Clocks(c)
<1>1. Clocks(Detect(c)) = Clocks(c)
  BY Zenon DEF Detect, Chip, Clocks
<1>2. Clocks(Deliver(c)) = Clocks(c)
  <2>1. CASE c.inbox = << >>
    BY <2>1, Zenon DEF Deliver
  <2>2. CASE c.inbox # << >>
    <3> DEFINE f == Head(c.inbox)
               n == RxLength(f)
               mem == Store(c.buffer, 0, SubSeq(f, 1, n))
               rest == Tail(c.inbox)
               flags == c.irq \cup {"RxDone", "Preamble", "Header", "SyncWord"}
    <3>1. Deliver(c) = [c EXCEPT !.rxLen = n, !.buffer = mem,
                                 !.inbox = rest, !.irq = flags]
      BY <2>2, Zenon DEF Deliver
    <3> HIDE DEF f, n, mem, rest, flags
    <3> QED
      BY <3>1, Zenon DEF Chip, Clocks
  <2> QED
    BY <2>1, <2>2
<1> QED
  BY <1>1, <1>2

\* The two invariants depend on the clocks and counters alone.
LEMMA ClocksDecide ==
  ASSUME NEW c, NEW d, Clocks(c) = Clocks(d), Counted(c), Scheduled(c)
  PROVE  Counted(d) /\ Scheduled(d)
<1>1. /\ c.busyMs = d.busyMs /\ c.now = d.now
      /\ c.busyReads = d.busyReads /\ c.irqReads = d.irqReads
      /\ c.spuriousRaises = d.spuriousRaises /\ c.nextSpurious = d.nextSpurious
  BY DEF Clocks
<1> QED
  BY <1>1, Zenon DEF Counted, Scheduled

\* A tick keeps the two invariants.
LEMMA TickCounts ==
  ASSUME NEW c \in Chip, NEW t \in Nat, t >= c.now, Counted(c), Scheduled(c)
  PROVE  Counted(Tick(c, t)) /\ Scheduled(Tick(c, t))
<1> DEFINE d == Spurious(Elapse(c, t))
<1>1. d \in Chip /\ Counted(d) /\ Scheduled(d)
  BY ElapseType, ElapseCounts, SpuriousType, SpuriousCounts, Zenon
<1>2. Clocks(Tick(c, t)) = Clocks(d)
  <2>1. Clocks(Detect(Deliver(d))) = Clocks(d)
    BY <1>1, DeliverType, DeliverDetectClocks, Zenon
  <2> QED
    BY <2>1, Zenon DEF Tick
<1> QED
  BY <1>1, <1>2, ClocksDecide, Zenon

\* Every step keeps the counters possible and the schedule of the faulty chip.
LEMMA CountsStep ==
  TypeOK /\ Counted(chip) /\ Scheduled(chip) /\ [Next]_chip
    => Counted(chip)' /\ Scheduled(chip)'
<1> SUFFICES ASSUME chip \in Chip, Counted(chip), Scheduled(chip), [Next]_chip
             PROVE  Counted(chip') /\ Scheduled(chip')
  BY DEF TypeOK
<1>1. CASE Advance
  <2>1. PICK d \in 0..MaxStep : chip' = Tick(chip, chip.now + d)
    BY <1>1 DEF Advance
  <2>2. chip.now \in Nat
    BY Zenon DEF Chip
  <2>3. chip.now + d \in Nat /\ chip.now + d >= chip.now
    BY <2>2, BoundAssumption
  <2> QED
    BY <2>1, <2>3, TickCounts, Zenon
<1>2. CASE ReadIrq
  <2>1. /\ chip'.busyMs = chip.busyMs /\ chip'.now = chip.now
        /\ chip'.irqReads = chip.irqReads + 1
        /\ chip'.busyReads = chip.busyReads + 1 \/ chip'.busyReads = chip.busyReads
        /\ chip'.spuriousRaises = chip.spuriousRaises
        /\ chip'.nextSpurious = chip.nextSpurious
    BY <1>2, Zenon DEF ReadIrq, GetIrqStatus, Chip
  <2>2. chip.irqReads \in Nat /\ chip.busyReads \in Nat
    BY Zenon DEF Chip
  <2>3. chip'.busyReads <= chip'.irqReads
    BY <2>1, <2>2 DEF Counted
  <2> QED
    BY <2>1, <2>3, Zenon DEF Counted, Scheduled
<1>3. CASE EngineFrame \/ EngineChannel \/ EngineTxDone
  <2>1. Clocks(chip') = Clocks(chip)
    BY <1>3, Zenon DEF EngineFrame, QueueFrame, EngineChannel, SetChannelBusy,
       EngineTxDone, TransmitFinished, Chip, Clocks
  <2> QED
    BY <2>1, ClocksDecide, Zenon
<1>4. CASE Drain \/ FemPin \/ Standby \/ Receive \/ Transmit \/ ChannelScan
  <2>1. Clocks(chip') = Clocks(chip)
    BY <1>4, Zenon DEF Drain, TakeTx, FemPin, SetFemEnabled, Standby, SetStandby,
       Receive, SetRx, Transmit, SetTx, ChannelScan, SetCad, Chip, Clocks
  <2> QED
    BY <2>1, ClocksDecide, Zenon
<1>5. CASE CalibrateAll \/ ProgramGain \/ ProgramModem \/ ProgramLength
  <2>1. Clocks(chip') = Clocks(chip)
    BY <1>5, Zenon DEF CalibrateAll, Calibrate, ProgramGain, WriteRxGain,
       ProgramModem, SetModulationParams, ProgramLength, SetPacketParams, Chip, Clocks
  <2> QED
    BY <2>1, ClocksDecide, Zenon
<1>6. CASE FillBuffer \/ ProgramIrq \/ ClearIrq
  <2>1. Clocks(chip') = Clocks(chip)
    BY <1>6, Zenon DEF FillBuffer, WriteBuffer, ProgramIrq, SetDioIrqParams,
       ClearIrq, ClearIrqStatus, Chip, Clocks
  <2> QED
    BY <2>1, ClocksDecide, Zenon
<1>7. CASE UNCHANGED chip
  BY <1>7
<1> QED
  BY <1>1, <1>2, <1>3, <1>4, <1>5, <1>6, <1>7 DEF Next

\* They hold of a chip just built.
LEMMA CountsInit == Init => Counted(chip) /\ Scheduled(chip)
<1> SUFFICES ASSUME NEW m \in Modems, chip = PowerOn(m)
             PROVE  Counted(chip) /\ Scheduled(chip)
  BY DEF Init
<1>1. /\ chip.busyMs = 0 /\ chip.now = 0 /\ chip.busyReads = 0 /\ chip.irqReads = 0
      /\ chip.spuriousRaises = 0 /\ chip.nextSpurious = 0
  BY Zenon DEF PowerOn
<1> QED
  BY <1>1, StuckIrqAssumption DEF Counted, Scheduled

\* The statistics sent with an acknowledgement never claim more busy time than
\* has passed, nor more busy reads than reads.
THEOREM StatsPossibleHolds == Spec => []StatsPossible
<1>1. Counted(chip) => StatsPossible
  BY DEF Counted, StatsPossible
<1> QED
  BY <1>1, TypeCorrect, CountsInit, CountsStep, PTL DEF Spec

\* The faulty chip keeps to its rate for every period it may be built with.
THEOREM SpuriousRateHolds == Spec => []SpuriousRate
<1>1. TypeOK /\ Scheduled(chip) => SpuriousRate
  <2> SUFFICES ASSUME chip \in Chip, Scheduled(chip), chip.spuriousRaises > 0
               PROVE  (chip.spuriousRaises - 1) * StuckIrqMs <= chip.now
    BY DEF TypeOK, SpuriousRate
  <2>1. /\ chip.now \in Nat /\ chip.nextSpurious \in Nat
        /\ chip.spuriousRaises \in Nat
    BY Zenon DEF Chip
  <2>2. (chip.spuriousRaises - 1) * StuckIrqMs
          = chip.spuriousRaises * StuckIrqMs - StuckIrqMs
    BY <2>1, StuckIrqAssumption
  <2>3. chip.spuriousRaises * StuckIrqMs \in Nat
    BY <2>1, StuckIrqAssumption
  <2> QED
    BY <2>1, <2>2, <2>3, StuckIrqAssumption DEF Scheduled
<1> QED
  BY <1>1, TypeCorrect, CountsInit, CountsStep, PTL DEF Spec
=============================================================================
