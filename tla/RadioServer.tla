------------------------------ MODULE RadioServer ------------------------------
(***************************************************************************)
(* An emulated node: bridge/radioserver.cpp, one process between the       *)
(* emulator's SPI socket and the engine's.  The same chip, the same        *)
(* firmware (MeshCore) and the same engine (Engine) as a native node's,    *)
(* but nobody holds the firmware still: it runs on the emulator's time,    *)
(* clocks its commands one byte at a time, and any message of the engine   *)
(* may be handled between two of those bytes.                              *)
(*                                                                         *)
(* A step is one message served: a request of the emulator's, which waits   *)
(* for its answer, or a message of the engine's.  Three requests make one  *)
(* step where a command is no read: the bytes before its release are not   *)
(* answered with data and do not touch the chip (SpiPaths, ActsAtRelease), *)
(* so it is the same whether the engine comes before or after them.        *)
(***************************************************************************)
EXTENDS MeshCore, SpiStream, Engine

CONSTANTS
  FemLevels,   \* levels the firmware may drive the front-end pin to
  MaxReads     \* bound: reads of the IRQ register before the last listen

ASSUME ServerAssumption ==
  /\ FemLevels \subseteq BOOLEAN /\ MaxReads \in Nat
  /\ Frames \subseteq Seq(Bytes)

VARIABLES
  chip,    \* the virtual chip
  sim,     \* gSimMillis
  txn,     \* the SPI transaction in flight
  turn,    \* the poll loop: at poll(), or about to serve the engine
  mcu,     \* the emulator: chip select, the reply so far, DIO1 as last seen
  aired    \* history: the frames written out to the engine

serverVars == <<sim, txn, turn, aired>>
engineVars == <<eng, toNode, toEngine>>
vars == <<chip, serverVars, engineVars, mcu, fw, hist>>

NoCommand == Cmd("none", 0)

Init ==
  /\ EngineInit /\ MeshCoreInit
  /\ chip \in {PowerOn(m) : m \in Modems}
  /\ sim = 0 /\ txn = BeginTransaction(NoCommand) /\ aired = << >>
  /\ turn = "poll"
  /\ mcu = [selected |-> FALSE, reply |-> << >>, pin |-> FALSE]

-----------------------------------------------------------------------------
\* serviceQemu(): one request of the emulated MCU.  What poll() reported of the
\* engine at the same time is served next.

AfterSpi == IF toNode # << >> THEN "engine" ELSE "poll"

Serve ==
  /\ turn = "poll" /\ turn' = AfterSpi
  /\ UNCHANGED <<sim, aired, engineVars>>

IsRead(cmd) == cmd.op \in ReturnsData

\* How many bytes the firmware clocks for a command.
Wanted(cmd) ==
  CASE cmd.op = "ReadBuffer" -> 3 + fw.len
    [] DataBytes(cmd.op) # {} -> GetterLength(cmd.op)
    [] cmd.op = "WriteBuffer" -> 2 + Len(cmd.arg[2])
    [] OTHER -> MinLength(cmd.op)

\* A whole command that is no read.
Write ==
  /\ Serve
  /\ fw.todo # << >> /\ ~IsRead(Head(fw.todo))
  /\ LET cmd == Head(fw.todo)
     IN chip' = EndTransaction(chip, [cmd |-> cmd, n |-> Wanted(cmd)])
  /\ fw' = [fw EXCEPT !.todo = Tail(@)]
  /\ UNCHANGED <<txn, mcu, hist>>

CsAssert ==
  /\ Serve
  /\ fw.todo # << >> /\ IsRead(Head(fw.todo)) /\ ~mcu.selected
  /\ txn' = BeginTransaction(Head(fw.todo))
  /\ mcu' = [mcu EXCEPT !.selected = TRUE, !.reply = << >>]
  /\ UNCHANGED <<chip, fw, hist>>

Xfer ==
  /\ Serve
  /\ mcu.selected /\ txn.n < Wanted(txn.cmd)
  /\ txn' = Clocked(txn)
  /\ chip' = ByteEffect(chip, Clocked(txn))
  /\ mcu' = [mcu EXCEPT !.reply = Append(@, ByteReply(chip', Clocked(txn)))]
  \* The fourth byte is the one with the busy flags, and a frame's first.
  /\ hist' = [hist EXCEPT
       !.up = IF txn.cmd.op = "GetIrqStatus" /\ txn.n = 3
              THEN chip.irq \cap BusyFlags ELSE @,
       !.fresh = IF txn.cmd.op = "ReadBuffer" /\ txn.n = 3 /\ "RxDone" \in chip.irq
                 THEN Append(@, Prefix(chip.buffer, fw.len)) ELSE @]
  /\ UNCHANGED fw

\* With the release the firmware has its reply.
CsRelease ==
  /\ Serve
  /\ mcu.selected /\ txn.n = Wanted(txn.cmd)
  /\ chip' = EndTransaction(chip, txn)
  /\ txn' = BeginTransaction(NoCommand)
  /\ mcu' = [mcu EXCEPT !.selected = FALSE, !.reply = << >>]
  /\ LET op == txn.cmd.op
         value(i) == mcu.reply[i + 1][2]
         flags(i) == IF mcu.reply[i + 1][1] = "flags" THEN value(i) ELSE {}
     IN /\ fw' = [fw EXCEPT
             !.todo = Tail(@),
             !.len = IF op # "GetRxBufferStatus" THEN @
                     ELSE IF fw.pc = "len" \/ value(2) < @ THEN value(2) ELSE @,
             !.seen = IF op = "GetIrqStatus"
                      THEN (flags(2) \cup flags(3)) \cap BusyFlags ELSE @]
        /\ hist' = [hist EXCEPT
             !.heard = IF op = "ReadBuffer"
                       THEN Append(@, [i \in 1..fw.len |-> value(i + 2)]) ELSE @]

\* The emulator polls the pin and runs the interrupt on its edge.
ReadIrq ==
  /\ Serve
  /\ ~mcu.selected
  /\ mcu' = [mcu EXCEPT !.pin = IrqAsserted(chip)]
  /\ fw' = [fw EXCEPT !.ready = @ \/ (IrqAsserted(chip) /\ ~mcu.pin)]
  /\ UNCHANGED <<chip, txn, hist>>

\* The front-end pin does not come over SPI and may move in mid-transaction.
SetFem ==
  /\ Serve
  /\ \E on \in FemLevels : chip' = SetFemEnabled(chip, on)
  /\ UNCHANGED <<txn, mcu, fw, hist>>

\* The firmware decides between its commands, and loop() runs for ever.
Firmware ==
  /\ \/ Dispatcher
     \/ At("drain") /\ fw' = [fw EXCEPT !.pc = "top"] /\ UNCHANGED hist
  /\ fw'.pc = "lbt" => chip.irqReads < MaxReads
  /\ UNCHANGED <<chip, serverVars, engineVars, mcu>>

-----------------------------------------------------------------------------
\* serviceBridge(): one message of the engine.

Take(kind) ==
  /\ toNode # << >> /\ Head(toNode).kind = kind
  /\ toNode' = Tail(toNode) /\ turn' = "poll"
  /\ UNCHANGED <<eng, txn, mcu, fw, hist>>

TakeFrame ==
  /\ Take("Frame")
  /\ chip' = QueueFrame(chip, Head(toNode).frame)
  /\ UNCHANGED <<sim, aired, toEngine>>

TakeTxDone ==
  /\ Take("TxDone")
  /\ chip' = TransmitFinished(chip)
  /\ UNCHANGED <<sim, aired, toEngine>>

TakeChannel ==
  /\ Take("ChannelBusy")
  /\ chip' = SetChannelBusy(chip, Head(toNode).busy)
  /\ UNCHANGED <<sim, aired, toEngine>>

\* Anything else is skipped.
TakeOdd ==
  /\ \E kind \in {"Originate", "Unknown"} : Take(kind)
  /\ UNCHANGED <<chip, sim, aired, toEngine>>

\* The chip stepped through the milliseconds up to `at' and once more.
Stepped(c, at) ==
  LET run[t \in sim..at] == IF t = sim THEN c ELSE Tick(run[t - 1], t)
  IN Tick(run[at], at)

\* What drainTx() writes.
Pending == IF chip.hasPendingTx THEN << chip.pendingTx >> ELSE << >>

TakeTick ==
  /\ Take("Tick")
  /\ LET at == Head(toNode).at
     IN /\ chip' = TakeTx(Stepped(chip, at))
        /\ sim' = at
        /\ aired' = aired \o Pending
        /\ toEngine' = toEngine
             \o [i \in 1..Len(Pending) |-> [kind |-> "Frame", frame |-> Pending[i]]]
             \o << [kind |-> "Stats"], [kind |-> "Ack", at |-> at] >>

Server == \/ Write \/ CsAssert \/ Xfer \/ CsRelease \/ ReadIrq \/ SetFem
          \/ TakeFrame \/ TakeTxDone \/ TakeChannel \/ TakeOdd \/ TakeTick

Turn(A) == A /\ UNCHANGED <<chip, serverVars, mcu, fw, hist>>

Next == Turn(EngineStep) \/ Firmware \/ Server

Spec == Init /\ [][Next]_vars

-----------------------------------------------------------------------------
Settled == fw.todo = << >>     \* no command of the firmware's is outstanding

\* "Anything the firmware handed its radio goes out to the engine now" (line 190,
\* drainTx()): one frame for each that was sent, none drained twice and none left behind,
\* the last perhaps still in the chip, though draining is done in ticks the firmware knows
\* nothing of; and whole, as long as nothing was received: a frame received overwrites
\* what is staged to be sent.
FramesOut ==
  Settled =>
    /\ Len(hist.sent) = Len(aired) + Len(Pending)
    /\ eng.fed = << >> => hist.sent = aired \o Pending

\* Driver, chip and engine agree whenever no command is outstanding, although the engine's
\* TxDone and ticks may have come between any two bytes of the last: a driver that waits
\* for its send has a chip that transmits or says it is done, one that listens has a chip
\* that listens, and a chip that transmits has a frame to drain or a waveform whose end is
\* still to come.
DriverMatchesChip ==
  Settled =>
    /\ Sending => chip.mode = "tx" \/ "TxDone" \in chip.irq
    /\ fw.state = "rx" /\ ~Sending => chip.mode = "rx"
    /\ chip.mode = "tx" =>
         \/ chip.hasPendingTx \/ eng.waves > 0
         \/ Holds(toEngine, "Frame") \/ Holds(toNode, "TxDone")

\* Listen-before-talk reads what is up when the byte that carries it is clocked.
ListenTruthful == At("lbt") => fw.seen = hist.up
=============================================================================
