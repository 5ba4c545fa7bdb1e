---------------------------- MODULE VirtualSX1262 ----------------------------
(***************************************************************************)
(* The virtual LoRa chip of variants/host/VirtualSX1262.{h,cpp}: its state *)
(* as one record, and every call on it as an operator from a chip to a     *)
(* chip.  There are no variables here; ChipAlone, NativeNode and           *)
(* RadioServer own a chip and apply these operators in their actions.      *)
(*                                                                         *)
(* Abstractions.  The IRQ register is the set of the flags that are up.    *)
(* The modem settings (spreading factor, bandwidth) are one value m, known *)
(* by the two thresholds they imply for the detector.  Both buffer bases   *)
(* are 0, the only value RadioLib's setBufferBaseAddress ever sends.       *)
(* lastBusyTickMs_ is not kept: tick() assigns it and nowMs_ the same      *)
(* value and both start at 0.  The uint32 counters are not wrapped.        *)
(***************************************************************************)
EXTENDS Integers, Sequences

CONSTANTS
  Bytes,       \* values a payload byte takes
  BufLen,      \* cells of the data buffer; 256 in the code
  Modems,      \* modulation settings the driver may program
  PreambleMs,  \* [Modems -> Nat]: first whole ms not below 4 symbols
  HeaderMs,    \* [Modems -> Nat]: first whole ms not below 12 symbols
  StuckIrqMs   \* period of the spurious preamble; 0 is a chip that behaves

ASSUME BytesAssumption == Bytes \subseteq 0..255 /\ 0 \in Bytes
ASSUME BufLenAssumption == BufLen \in Nat /\ BufLen > 1
ASSUME ModemAssumption ==
  /\ Modems # {}
  /\ PreambleMs \in [Modems -> Nat]
  /\ HeaderMs \in [Modems -> Nat]
ASSUME StuckIrqAssumption == StuckIrqMs \in Nat

Cells == 0..(BufLen - 1)
MaxPayload == BufLen - 1        \* a length byte: 255 for 256 cells
Payloads == UNION {[1..n -> Bytes] : n \in 0..MaxPayload}

\* The flags the chip can raise or the driver names, by byte of the register.
HighByte == {"CadDetected", "Timeout"}
LowByte == {"TxDone", "RxDone", "Preamble", "SyncWord",
            "Header", "HeaderErr", "CrcErr", "CadDone"}
Flags == HighByte \cup LowByte
BusyFlags == {"Preamble", "Header"}
Modes == {"standby", "rx", "tx"}   \* CAD starts and ends inside one command
Gains == {"saving", "boosted"}
TxFem == {"never", "out", "in"}    \* femAtTx_ where hasTransmitted_ holds

Chip ==
  [mode : Modes, irq : SUBSET Flags, irqMask : SUBSET Flags,
   buffer : [Cells -> Bytes], rxLen : 0..MaxPayload, txLen : 0..MaxPayload,
   hasPendingTx : BOOLEAN, pendingTx : Payloads, inbox : Seq(Seq(Bytes)),
   modem : Modems, rxGain : Gains, fem : BOOLEAN, femAtTx : TxFem,
   now : Nat, channelBusy : BOOLEAN, busySince : Nat,
   preambleRaised : BOOLEAN, headerRaised : BOOLEAN,
   irqReads : Nat, busyReads : Nat, busyMs : Nat,
   nextSpurious : Nat, spuriousRaises : Nat]

PowerOn(m) ==
  [mode |-> "standby", irq |-> {}, irqMask |-> {},
   buffer |-> [i \in Cells |-> 0], rxLen |-> 0, txLen |-> 0,
   hasPendingTx |-> FALSE, pendingTx |-> << >>, inbox |-> << >>,
   modem |-> m, rxGain |-> "saving", fem |-> FALSE, femAtTx |-> "never",
   now |-> 0, channelBusy |-> FALSE, busySince |-> 0,
   preambleRaised |-> FALSE, headerRaised |-> FALSE,
   irqReads |-> 0, busyReads |-> 0, busyMs |-> 0,
   nextSpurious |-> 0, spuriousRaises |-> 0]

-----------------------------------------------------------------------------
\* The simulator's side.

\* Mutant of Store: the last byte is left out.
StoreShort(mem, at, bytes) ==
  [i \in Cells |-> IF at <= i /\ i < at + Len(bytes) - 1
                   THEN bytes[i - at + 1] ELSE mem[i]]

\* Bytes written into the data buffer from cell `at' on, stopping at its end.
Store(mem, at, bytes) ==
  [i \in Cells |-> IF at <= i /\ i < at + Len(bytes)
                   THEN bytes[i - at + 1] ELSE mem[i]]

\* What goes on the air: the first n cells.
Prefix(mem, n) == [i \in 1..n |-> mem[i - 1]]

\* Mutant of Elapse: the time since the channel became busy is charged anew at
\* every tick.
ElapseTwice(c, t) ==
  [c EXCEPT !.busyMs = IF c.irq \cap BusyFlags # {} /\ t > c.now
                       THEN @ + (t - c.busySince) ELSE @,
            !.now = t]

\* Elapsed time, and how much of it had a busy flag up.
Elapse(c, t) ==
  [c EXCEPT !.busyMs = IF c.irq \cap BusyFlags # {} /\ t > c.now
                       THEN @ + (t - c.now) ELSE @,
            !.now = t]

\* Mutant of Spurious: the next one is never scheduled.
SpuriousAlways(c) ==
  IF StuckIrqMs > 0 /\ c.mode = "rx" /\ c.now >= c.nextSpurious
  THEN [c EXCEPT !.irq = @ \cup {"Preamble"}, !.spuriousRaises = @ + 1]
  ELSE c

\* The fault of the -faultyirq builds: a preamble with nothing on the air.
Spurious(c) ==
  IF StuckIrqMs > 0 /\ c.mode = "rx" /\ c.now >= c.nextSpurious
  THEN [c EXCEPT !.irq = @ \cup {"Preamble"},
                 !.spuriousRaises = @ + 1,
                 !.nextSpurious = c.now + StuckIrqMs]
  ELSE c

\* Mutant of RxLength: a long frame is not cut.
RxLengthWhole(f) == Len(f)

\* What a length byte can say of a frame.
RxLength(f) == IF Len(f) > MaxPayload THEN MaxPayload ELSE Len(f)

\* Mutant of Deliver: the frame stays in the inbox.
DeliverKeeps(c) ==
  IF c.inbox = << >> THEN c
  ELSE [c EXCEPT !.rxLen = RxLength(Head(c.inbox)),
                 !.buffer = Store(@, 0, SubSeq(Head(c.inbox), 1, RxLength(Head(c.inbox)))),
                 !.irq = @ \cup {"RxDone", "Preamble", "Header", "SyncWord"}]

\* deliverPending(): the next frame overwrites the buffer, read or not.
Deliver(c) ==
  IF c.inbox = << >> THEN c
  ELSE LET f == Head(c.inbox)
       IN [c EXCEPT !.rxLen = RxLength(f),
                    !.buffer = Store(@, 0, SubSeq(f, 1, RxLength(f))),
                    !.inbox = Tail(@),
                    !.irq = @ \cup {"RxDone", "Preamble", "Header", "SyncWord"}]

\* Mutant of Detect: a preamble a millisecond late.
DetectLate(c) ==
  LET preamble == /\ c.channelBusy /\ ~c.preambleRaised
                  /\ c.now - c.busySince > PreambleMs[c.modem]
      header == /\ c.channelBusy /\ ~c.headerRaised
                /\ c.now - c.busySince >= HeaderMs[c.modem]
  IN [c EXCEPT !.irq = @ \cup (IF preamble THEN {"Preamble"} ELSE {})
                         \cup (IF header THEN {"Header", "SyncWord"} ELSE {}),
               !.preambleRaised = @ \/ preamble,
               !.headerRaised = @ \/ header]

\* Preamble and header detection, from how long the channel has been busy.
Detect(c) ==
  LET since == c.now - c.busySince
      preamble == /\ c.channelBusy /\ ~c.preambleRaised
                  /\ since >= PreambleMs[c.modem]
      header == /\ c.channelBusy /\ ~c.headerRaised
                /\ since >= HeaderMs[c.modem]
  IN [c EXCEPT !.irq = @ \cup (IF preamble THEN {"Preamble"} ELSE {})
                         \cup (IF header THEN {"Header", "SyncWord"} ELSE {}),
               !.preambleRaised = @ \/ preamble,
               !.headerRaised = @ \/ header]

Tick(c, t) ==
  LET d == Spurious(Elapse(c, t))
  IN IF d.mode = "rx" THEN Detect(Deliver(d)) ELSE d

SetChannelBusy(c, busy) ==
  [c EXCEPT !.busySince = IF busy /\ ~c.channelBusy THEN c.now ELSE @,
            !.preambleRaised = busy /\ @,
            !.headerRaised = busy /\ @,
            !.channelBusy = busy]

\* Mutants of TransmitFinished: the interrupt is forgotten; the mode is.
TransmitFinishedMute(c) ==
  IF c.mode = "tx" THEN [c EXCEPT !.mode = "standby"] ELSE c

TransmitFinishedStays(c) ==
  IF c.mode = "tx" THEN [c EXCEPT !.irq = @ \cup {"TxDone"}] ELSE c

TransmitFinished(c) ==
  IF c.mode = "tx" THEN [c EXCEPT !.irq = @ \cup {"TxDone"}, !.mode = "standby"]
  ELSE c

TakeTxKeeps(c) == c    \* mutant of TakeTx: the frame goes out at every pass

\* The bridges' own accesses: inbox.push_back, and the flag drainTx() lowers.
QueueFrame(c, f) == [c EXCEPT !.inbox = Append(@, f)]
TakeTx(c) == [c EXCEPT !.hasPendingTx = FALSE]
SetFemEnabled(c, on) == [c EXCEPT !.fem = on]

\* The DIO1 pin.
IrqAsserted(c) == c.irq \cap c.irqMask # {}

-----------------------------------------------------------------------------
\* RadioLib's side: runCommand(), one operator per opcode that changes state.

SetStandby(c) == [c EXCEPT !.mode = "standby"]      \* SetSleep does the same
SetRx(c) == [c EXCEPT !.mode = "rx"]

SetTx(c) ==
  [c EXCEPT !.mode = "tx",
            !.femAtTx = IF c.fem THEN "in" ELSE "out",
            !.pendingTx = Prefix(c.buffer, c.txLen),
            !.hasPendingTx = TRUE]

SetCad(c) ==
  [c EXCEPT !.irq = @ \cup {"CadDone"}
                      \cup (IF c.channelBusy THEN {"CadDetected"} ELSE {}),
            !.mode = "standby"]

Calibrate(c) == [c EXCEPT !.rxGain = "saving"]
WriteRxGain(c, g) == [c EXCEPT !.rxGain = g]        \* WriteRegister 0x08AC
SetModulationParams(c, m) == [c EXCEPT !.modem = m]
SetPacketParams(c, n) == [c EXCEPT !.txLen = n]
WriteBuffer(c, at, bytes) == [c EXCEPT !.buffer = Store(@, at, bytes)]

\* Only the first of the two masks in the command is kept.
SetDioIrqParams(c, irqFlags, dio1Mask) == [c EXCEPT !.irqMask = irqFlags]

\* Mutant of ClearIrqStatus: the detector is not re-armed.
ClearIrqKeepsLatches(c, clear) == [c EXCEPT !.irq = @ \ clear]
ClearIrqStatus(c, clear) ==
  [c EXCEPT !.irq = @ \ clear,
            !.preambleRaised = @ /\ "Preamble" \notin clear,
            !.headerRaised = @ /\ "Header" \notin clear]

\* The one read that changes state: the counters of the channel decisions.
GetIrqStatus(c) ==
  [c EXCEPT !.irqReads = @ + 1,
            !.busyReads = IF c.irq \cap BusyFlags # {} THEN @ + 1 ELSE @]

\* Its reply, to a command of `len' bytes: the low byte needs a fifth one.
IrqReply(c, len) == (IF len >= 4 THEN c.irq \cap HighByte ELSE {})
               \cup (IF len >= 5 THEN c.irq \cap LowByte ELSE {})
=============================================================================
