------------------------------ MODULE NativeNode ------------------------------
(***************************************************************************)
(* A native node in lockstep with the simulation engine: bridge/main.cpp's *)
(* message loop, SimHal between RadioLib and the virtual chip, the         *)
(* firmware above it (MeshCore) and the engine at the far end of the       *)
(* socket (Engine).                                                        *)
(*                                                                         *)
(* The node is one thread.  A step is one message handled, one millisecond *)
(* begun, one SPI transaction or one decision of the firmware; the engine  *)
(* moves in between.  SPI time is below a millisecond and is modelled by a *)
(* choice: each transaction may or may not carry the clock over into the   *)
(* next one.  Console bytes and the contents of the statistics are left    *)
(* out; the Stats message itself is sent, as the code sends it.            *)
(***************************************************************************)
EXTENDS MeshCore, Engine

CONSTANTS
  SpiMs,      \* most ms one SPI transaction may carry the clock over
  RtcPeriod   \* ms to a step of the real-time clock; 1000 in the code

ASSUME NodeAssumption ==
  /\ SpiMs \in Nat /\ RtcPeriod \in Nat \ {0}
  /\ Frames \subseteq Seq(Bytes)

VARIABLES
  chip,    \* the virtual chip
  local,   \* SimHal's clock, localUs_ in whole ms
  bridge,  \* main.cpp's loop: where it is, g_sim_millis, the tick's target
  aired    \* history: the frames written out to the engine

mainVars == <<local, bridge, aired>>
engineVars == <<eng, toNode, toEngine>>
vars == <<chip, mainVars, engineVars, fw, hist>>

BootModem == CHOOSE m \in Modems : TRUE

Init ==
  /\ EngineInit /\ MeshCoreInit
  /\ chip = PowerOn(BootModem)
  /\ local = 0 /\ aired = << >>
  /\ bridge = [pc |-> "read", sim |-> 0, rtc |-> 0, at |-> 0, last |-> FALSE]

-----------------------------------------------------------------------------
\* The bridge's message loop.

Take(kind) ==
  /\ bridge.pc = "read" /\ toNode # << >> /\ Head(toNode).kind = kind
  /\ toNode' = Tail(toNode)
  /\ UNCHANGED <<eng, toEngine, fw, hist, local, aired>>

ReadFrame ==
  /\ Take("Frame")
  /\ chip' = QueueFrame(chip, Head(toNode).frame)
  /\ UNCHANGED bridge

ReadTxDone ==
  /\ Take("TxDone")
  /\ chip' = TransmitFinished(chip)
  /\ UNCHANGED bridge

ReadChannel ==
  /\ Take("ChannelBusy")
  /\ chip' = SetChannelBusy(chip, Head(toNode).busy)
  /\ UNCHANGED bridge

\* A request to originate is refused aloud and otherwise ignored.
ReadOriginate ==
  /\ Take("Originate")
  /\ UNCHANGED <<chip, bridge>>

\* A message of an unknown kind ends the node.
ReadUnknown ==
  /\ Take("Unknown")
  /\ bridge' = [bridge EXCEPT !.pc = "closed"]
  /\ UNCHANGED chip

ReadTick ==
  /\ Take("Tick")
  /\ bridge' = [bridge EXCEPT !.pc = "step", !.at = Head(toNode).at]
  /\ UNCHANGED chip

\* SimHal: the clock is raised to network time, never lowered, and the chip is
\* told; an interrupt runs here and nowhere else.
BeginTickBack(networkMs) == networkMs    \* mutant of BeginTick: it may be lowered
BeginTick(networkMs) == IF networkMs > local THEN networkMs ELSE local

\* Mutant of ServiceIrq: the pin is sampled for an edge.
ServiceIrqEdge(c) == fw.ready \/ (IrqAsserted(c) /\ ~IrqAsserted(chip))
ServiceIrq(c) == fw.ready \/ IrqAsserted(c)

\* Mutant of BeginMs: the real-time clock counts SimHal's clock.
BeginMsLocalRtc ==
  /\ bridge.pc = "step"
  /\ LET more == bridge.sim < bridge.at
         s == IF more THEN bridge.sim + 1 ELSE bridge.sim
         second == more /\ BeginTick(s) % RtcPeriod = 0
     IN /\ bridge' = [bridge EXCEPT !.pc = "loop", !.sim = s, !.last = ~more,
                                    !.rtc = IF second THEN @ + 1 ELSE @]
        /\ local' = BeginTick(s)
        /\ chip' = Tick(chip, BeginTick(s))
        /\ fw' = [fw EXCEPT !.pc = "top",
                            !.ready = ServiceIrq(Tick(chip, BeginTick(s)))]
  /\ UNCHANGED <<engineVars, hist, aired>>

\* One millisecond, or the extra pass once the target is reached.
BeginMs ==
  /\ bridge.pc = "step"
  /\ LET more == bridge.sim < bridge.at
         s == IF more THEN bridge.sim + 1 ELSE bridge.sim
         second == more /\ s % RtcPeriod = 0
     IN /\ bridge' = [bridge EXCEPT !.pc = "loop", !.sim = s, !.last = ~more,
                                    !.rtc = IF second THEN @ + 1 ELSE @]
        /\ local' = BeginTick(s)
        /\ chip' = Tick(chip, BeginTick(s))
        /\ fw' = [fw EXCEPT !.pc = "top",
                            !.ready = ServiceIrq(Tick(chip, BeginTick(s)))]
  /\ UNCHANGED <<engineVars, hist, aired>>

\* The end of loop(): drainTx(), and after the last pass the statistics and the
\* acknowledgement.
EndLoopWith(drains) ==
  /\ bridge.pc = "loop" /\ fw.pc = "drain" /\ fw.todo = << >>
  /\ bridge' = [bridge EXCEPT !.pc = IF bridge.last THEN "read" ELSE "step"]
  /\ toEngine' = toEngine
       \o (IF drains THEN << [kind |-> "Frame", frame |-> chip.pendingTx] >> ELSE << >>)
       \o (IF bridge.last
           THEN << [kind |-> "Stats"], [kind |-> "Ack", at |-> bridge.at] >>
           ELSE << >>)
  /\ aired' = IF drains THEN Append(aired, chip.pendingTx) ELSE aired
  /\ chip' = IF drains THEN TakeTx(chip) ELSE chip
  /\ UNCHANGED <<local, eng, toNode, fw, hist>>

\* Mutant of EndLoop: drained after the last pass only.
EndLoopLateDrain == EndLoopWith(chip.hasPendingTx /\ bridge.last)
EndLoop == EndLoopWith(chip.hasPendingTx)

-----------------------------------------------------------------------------
\* One SPI transaction: time before it, the command, and the microsecond
\* RadioLib waits after it, each of which ticks the chip.

Spi ==
  /\ fw.todo # << >>
  /\ \E d \in 0..SpiMs :
       LET t == local + d
           before == Tick(chip, t)
           cmd == Head(fw.todo)
           count == IF fw.pc = "len" \/ before.rxLen < fw.len
                    THEN before.rxLen ELSE fw.len
       IN /\ t <= MaxMs + 1
          /\ local' = t
          /\ chip' = Tick(RunCommand(before, cmd), t)
          /\ fw' = [fw EXCEPT
               !.todo = Tail(@),
               !.len = IF cmd.op = "GetRxBufferStatus" THEN count ELSE @,
               !.seen = IF cmd.op = "GetIrqStatus"
                        THEN IrqReply(before, GetterLength(cmd.op)) \cap BusyFlags ELSE @]
          /\ hist' = [hist EXCEPT
               !.heard = IF cmd.op = "ReadBuffer"
                         THEN Append(@, Prefix(before.buffer, fw.len)) ELSE @,
               !.fresh = IF cmd.op = "ReadBuffer" /\ "RxDone" \in before.irq
                         THEN Append(@, Prefix(before.buffer, fw.len)) ELSE @,
               !.up = IF cmd.op = "GetIrqStatus" THEN before.irq \cap BusyFlags ELSE @]
  /\ UNCHANGED <<engineVars, bridge, aired>>

-----------------------------------------------------------------------------
\* loop() runs between the millisecond begun and its drainTx().
Loop == bridge.pc = "loop" /\ Dispatcher /\ UNCHANGED <<chip, mainVars, engineVars>>

Node == \/ ReadFrame \/ ReadTxDone \/ ReadChannel \/ ReadOriginate
        \/ ReadUnknown \/ ReadTick \/ BeginMs \/ EndLoop \/ Spi \/ Loop

EngineTurn == EngineStep /\ UNCHANGED <<chip, mainVars, fw, hist>>

\* The engine asks for no more time, or the node has ended.
Finished == (bridge.pc = "closed" \/ EngineDone) /\ UNCHANGED vars

Next == EngineTurn \/ Node \/ Finished

Spec == Init /\ [][Next]_vars

-----------------------------------------------------------------------------
Between == bridge.pc \in {"read", "step"}     \* no loop() is running

\* "This node has caught up to N ms": an acknowledgement is never sent before
\* the node's clock, the chip's clock and the real-time clock are there, though
\* SPI transactions may have carried SimHal's clock ahead of the network's.
AckIsCaughtUp ==
  /\ chip.now = local /\ local >= bridge.sim
  /\ bridge.rtc = bridge.sim \div RtcPeriod
  /\ \A i \in 1..Len(toEngine) :
       toEngine[i].kind = "Ack" => toEngine[i].at = bridge.sim

\* Neither of the node's two clocks ever goes back, though the network's runs
\* behind SimHal's after SPI transactions that took time.
ClocksForward == [][local' >= local /\ chip'.now >= chip.now]_<<local, chip>>

\* No frame is lost, torn or reordered on its way in, as long as the engine
\* delivers one frame per tick: at every pass of the loop what was fed is what
\* was read while new, then the frame standing unread in the chip, then its
\* inbox, then the socket.
FramesConserved ==
  Between =>
    eng.fed = hist.fresh
               \o (IF "RxDone" \in chip.irq
                   THEN << Prefix(chip.buffer, chip.rxLen) >> ELSE << >>)
               \o chip.inbox \o FramesIn(toNode)

\* Everything sent has gone out, whole, once and in order by the end of the
\* pass that sent it, though reception shares the chip's one buffer with it.
SentGoesOut == Between => hist.sent = aired

\* Driver, chip and engine agree between passes: a driver that waits for its send has a
\* chip that is transmitting or says it is done, one that listens has a chip that listens,
\* and a chip that transmits has a waveform whose end is still to come.
DriverMatchesChip ==
  Between =>
    /\ fw.state = "tx" => chip.mode = "tx" \/ "TxDone" \in chip.irq
    /\ fw.state = "rx" => chip.mode = "rx"
    /\ bridge.pc # "closed" /\ chip.mode = "tx" =>
         Holds(toEngine, "Frame") \/ eng.waves > 0 \/ Holds(toNode, "TxDone")

\* One transmission at a time: the node has at most one waveform on the air.
NoTalkOver == eng.waves <= 1

\* What isReceiving() is told is what the chip has raised.
ListenTruthful == bridge.pc = "loop" /\ At("lbt") => fw.seen = hist.up

\* A transmission whose end the engine has reported is ended by the very next
\* pass of the loop: the interrupt is served there and cannot be missed, though
\* it was raised between two ticks.
DoneIsSeen ==
  [][bridge.pc = "loop" /\ bridge'.pc # "loop" =>
       ~(Sending /\ "TxDone" \in chip.irq)]_vars

\* The node is a RadioService, aired when drainTx() writes the frame out.
Service == INSTANCE RadioService WITH
  Frames <- Frames \cup OutFrames, sent <- hist.sent,
  aired <- aired, sending <- Sending, fed <- eng.fed, heard <- hist.heard
KeepsService == Service!Spec
=============================================================================
