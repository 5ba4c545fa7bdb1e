------------------------------ MODULE ChipAlone ------------------------------
(***************************************************************************)
(* The chip on its own, between a simulator that may call any of its       *)
(* entry points and a driver that may send any command, in any order.      *)
(* Every composition of this project moves its chip by these calls, so     *)
(* what holds here holds whatever the bridge and the firmware do.          *)
(*                                                                         *)
(* Time only moves forward: SimHal's beginTick and advanceUs never lower   *)
(* localUs_, and the radio server's clock only counts up.                  *)
(***************************************************************************)
EXTENDS VirtualSX1262

CONSTANTS
  Frames,      \* frames the engine may deliver
  ClearMasks,  \* arguments the driver gives ClearIrqStatus
  IrqMasks,    \* IRQ masks the driver gives SetDioIrqParams
  GainWrites,  \* receiver gains the driver writes
  FemLevels,   \* levels the firmware drives the front-end pin to
  TxLengths,   \* payload lengths the driver programs
  TxWrites,    \* payloads the driver writes to the buffer
  MaxStep,     \* bound: milliseconds one tick may move
  MaxMs,       \* bound: the chip's clock
  MaxInbox,    \* bound: frames waiting in the inbox
  MaxReads     \* bound: reads of the IRQ register

ASSUME DriverAssumption ==
  /\ Frames \subseteq Seq(Bytes)
  /\ ClearMasks \subseteq SUBSET Flags
  /\ IrqMasks \subseteq SUBSET Flags
  /\ GainWrites \subseteq Gains
  /\ FemLevels \subseteq BOOLEAN
  /\ TxLengths \subseteq 0..MaxPayload
  /\ TxWrites \subseteq Payloads
ASSUME BoundAssumption ==
  MaxStep \in Nat /\ MaxMs \in Nat /\ MaxInbox \in Nat /\ MaxReads \in Nat

VARIABLE chip

Init == chip \in {PowerOn(m) : m \in Modems}

-----------------------------------------------------------------------------
\* The simulator's calls.

Advance == \E d \in 0..MaxStep :
             /\ chip.now + d <= MaxMs
             /\ chip' = Tick(chip, chip.now + d)

EngineFrame == /\ Len(chip.inbox) < MaxInbox
               /\ \E f \in Frames : chip' = QueueFrame(chip, f)

EngineChannel == \E busy \in BOOLEAN : chip' = SetChannelBusy(chip, busy)
EngineTxDone == chip' = TransmitFinished(chip)
Drain == chip.hasPendingTx /\ chip' = TakeTx(chip)
FemPin == \E on \in FemLevels : chip' = SetFemEnabled(chip, on)

\* The driver's commands.
Standby == chip' = SetStandby(chip)
Receive == chip' = SetRx(chip)
Transmit == chip' = SetTx(chip)
ChannelScan == chip' = SetCad(chip)
CalibrateAll == chip' = Calibrate(chip)
ProgramGain == \E g \in GainWrites : chip' = WriteRxGain(chip, g)
ProgramModem == \E m \in Modems : chip' = SetModulationParams(chip, m)
ProgramLength == \E n \in TxLengths : chip' = SetPacketParams(chip, n)
FillBuffer == \E at \in Cells, bytes \in TxWrites :
                chip' = WriteBuffer(chip, at, bytes)
ProgramIrq == \E m \in IrqMasks : chip' = SetDioIrqParams(chip, m, m)
ClearIrq == \E clear \in ClearMasks : chip' = ClearIrqStatus(chip, clear)
ReadIrq == chip.irqReads < MaxReads /\ chip' = GetIrqStatus(chip)

Next ==
  \/ Advance \/ EngineFrame \/ EngineChannel \/ EngineTxDone \/ Drain \/ FemPin
  \/ Standby \/ Receive \/ Transmit \/ ChannelScan \/ CalibrateAll
  \/ ProgramGain \/ ProgramModem \/ ProgramLength \/ FillBuffer
  \/ ProgramIrq \/ ClearIrq \/ ReadIrq

Spec == Init /\ [][Next]_chip

-----------------------------------------------------------------------------
\* The chip's record has the shape the code declares (VirtualSX1262.h, the
\* members from line 185 on).
TypeOK == chip \in Chip

\* The detector's latches and the flags they stand for cannot part: a latch
\* that is set means the channel is still busy and its flag is still up.  A
\* latch that outlived its flag would leave the node deaf to the rest of the
\* signal, since tick() raises a flag only while its latch is down.
DetectorLatched ==
  /\ chip.preambleRaised => chip.channelBusy /\ "Preamble" \in chip.irq
  /\ chip.headerRaised => chip.channelBusy /\ "Header" \in chip.irq

\* The counters sent to the host with each acknowledgement are possible ones:
\* the channel was not busy for longer than the chip has run, and was not read
\* busy more often than it was read at all.
StatsPossible ==
  /\ chip.busyMs <= chip.now
  /\ chip.busyReads <= chip.irqReads

\* The misbehaving chip misbehaves at its stated rate: no more than one false
\* preamble in each StuckIrqMs (tick(), lines 107-111).
SpuriousRate ==
  chip.spuriousRaises > 0 =>
    (chip.spuriousRaises - 1) * StuckIrqMs <= chip.now

\* Listen-before-talk cannot miss a signal: once a tick ends in receive mode on
\* a channel that has been busy for the detection time, the flag is up, however
\* often the driver cleared it, left receive mode or was busy with another
\* frame before (tick(), lines 115-132, with the re-arming of lines 404-405).
SignalSeen ==
  chip'.mode = "rx" /\ chip'.channelBusy =>
    /\ chip'.now - chip'.busySince >= PreambleMs[chip'.modem] => "Preamble" \in chip'.irq
    /\ chip'.now - chip'.busySince >= HeaderMs[chip'.modem] => "Header" \in chip'.irq
TicksSeeSignal == [][Advance => SignalSeen]_chip
=============================================================================
