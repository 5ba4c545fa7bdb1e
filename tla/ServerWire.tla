------------------------------ MODULE ServerWire ------------------------------
(***************************************************************************)
(* The radio server between its two sockets, byte by byte: radioserver.cpp *)
(* from the moment it has dialled the engine.  One thread waits in accept()*)
(* for the emulator, then in poll() for either, and once it has begun a    *)
(* request or a message it blocks until it has the rest of it and its      *)
(* answer is written.  Either peer may hang up between any two bytes.      *)
(*                                                                         *)
(* What a request does to the chip is RadioServer's business; of the chip  *)
(* there is only whether it holds a frame to send.  An answer is labelled  *)
(* with the request it answers.  The process is one that was given         *)
(* --bridge.                                                               *)
(***************************************************************************)
EXTENDS EngineEnd

CONSTANT Asked   \* tags the emulator may send, some of which the server may not know

ASSUME AskedAssumption == "byte" \notin Asked

VARIABLES
  server,      \* main()'s loop, serviceQemu() and serviceBridge()
  emulator,    \* its end of the SPI socket
  mcuUp,       \* bytes in that socket, emulator to server
  mcuDown      \* and server to emulator

engineVars == <<engine, up, down, past>>
emulatorVars == <<emulator, mcuUp, mcuDown>>
vars == <<engineVars, server, emulatorVars>>

\* Requests: their tag, and for some a second byte; for some an answer.
Tags == {"CsAssert", "CsRelease", "Xfer", "ReadIrq", "SetFem", "ReadBusy"}

\* Mutant of TwoBytes: the level of the pin is not read.
TwoBytesShort == {"Xfer"}
TwoBytes == {"Xfer", "SetFem"}
\* Mutant of Answered: the level of the pin is acknowledged.
AnsweredMore == {"Xfer", "ReadIrq", "ReadBusy", "SetFem"}
Answered == {"Xfer", "ReadIrq", "ReadBusy"}

\* What the emulator sends, and whether it waits for an answer.
Request(tag) == IF tag \in {"Xfer", "SetFem"} THEN << tag, "byte" >> ELSE << tag >>
Awaits(tag) == tag \in {"Xfer", "ReadIrq", "ReadBusy"}

Init ==
  /\ EngineInit
  /\ server = [pc |-> "accept", due |-> FALSE, tag |-> "none", packet |-> << >>,
               in |-> Reader, out |-> << >>, todo |-> << >>]
  /\ emulator = [up |-> FALSE, closed |-> FALSE, out |-> << >>, wants |-> "none",
                 odd |-> FALSE]
  /\ mcuUp = << >> /\ mcuDown = << >>

-----------------------------------------------------------------------------
\* main(): the emulator is let in once, and each time poll() returns both sockets are
\* served, the emulator's first, as they were then.

EmulatorReady == mcuUp # << >> \/ emulator.closed
EngineReady == up # << >> \/ engine.closed

At(pc) == server.pc = pc
Goes(pc) == server' = [server EXCEPT !.pc = pc]
Ends == Goes("closed")

Accept ==
  /\ At("accept") /\ emulator.up
  /\ Goes("poll")
  /\ UNCHANGED <<engineVars, emulatorVars>>

Poll ==
  /\ At("poll") /\ (EmulatorReady \/ EngineReady)
  /\ server' = [server EXCEPT !.pc = IF EmulatorReady THEN "tag" ELSE "engine",
                              !.due = EmulatorReady /\ EngineReady]
  /\ UNCHANGED <<engineVars, emulatorVars>>

\* Mutant of AfterEmulator: else if, so that an emulator that is always ready is all
\* that is served.
AfterEmulatorPolls == "poll"
AfterEmulator == IF server.due THEN "engine" ELSE "poll"

\* serviceQemu(): the tag, the second byte and the answer, each of which may block.

Takes == /\ mcuUp # << >> /\ mcuUp' = Tail(mcuUp)
         /\ UNCHANGED <<engineVars, emulator, mcuDown>>

\* Where a request that has been read leaves the server.
Served(tag, packet) ==
  [server EXCEPT !.pc = IF tag \in Answered THEN "answer" ELSE AfterEmulator,
                 !.due = @ /\ tag \in Answered,
                 !.tag = IF tag \in Answered THEN tag ELSE "none",
                 !.packet = packet]

\* What the firmware clocked may have been a SetTx, which acts at the release.
Packets(tag) == {server.packet} \cup (IF tag = "CsRelease" THEN {<< 1 >>} ELSE {})

ReadTag ==
  /\ At("tag") /\ Takes
  /\ LET tag == Head(mcuUp)
     IN \/ tag \notin Tags /\ Ends
        \/ tag \in TwoBytes /\ server' = [server EXCEPT !.pc = "operand", !.tag = tag]
        \/ /\ tag \in Tags \ TwoBytes
           /\ \E p \in Packets(tag) : server' = Served(tag, p)

ReadOperand ==
  /\ At("operand") /\ Takes
  /\ server' = Served(server.tag, server.packet)

EmulatorGone ==
  /\ emulator.closed
  /\ \/ At("tag") /\ mcuUp = << >>
     \/ At("operand") /\ mcuUp = << >>
     \/ At("answer")
  /\ Ends
  /\ UNCHANGED <<engineVars, emulatorVars>>

Answer ==
  /\ At("answer") /\ ~emulator.closed /\ Len(mcuDown) < SockCap
  /\ mcuDown' = Append(mcuDown, server.tag)
  /\ server' = [server EXCEPT !.pc = AfterEmulator, !.due = FALSE, !.tag = "none"]
  /\ UNCHANGED <<engineVars, emulator, mcuUp>>

-----------------------------------------------------------------------------
\* serviceBridge(): a whole message is read, whatever else comes meanwhile.

Free == At("engine") /\ server.out = << >> /\ server.todo = << >>

ServerReads ==
  /\ Free
  /\ \E k \in Reads(server.in, up) :
       /\ server' = [server EXCEPT !.in = Took(@, First(up, k))]
       /\ up' = Rest(up, k)
  /\ UNCHANGED <<engine, down, past, emulatorVars>>

ServerAsksPayload ==
  /\ Free /\ AtPayload(server.in)
  /\ server' = [server EXCEPT !.in.need = Length(server.in)]
  /\ UNCHANGED <<engineVars, emulatorVars>>

\* Mutant of EngineAway: a message begun is waited for.
EngineAwayAwaits == engine.closed /\ up = << >> /\ server.in.got = << >>
EngineAway == engine.closed /\ up = << >> /\ server.in.need > 0

EngineGone ==
  /\ Free /\ EngineAway /\ Ends
  /\ UNCHANGED <<engineVars, emulatorVars>>

\* Mutant of IsTick: any length will do.
IsTickAny(m) == m.kind = kTick
\* A tick whose payload is not a number is dropped, and not acknowledged.
IsTick(m) == m.kind = kTick /\ Len(m.payload) = 1

\* What a tick is answered with: drainTx(), writeRadioStats() and kAck.
Replies(at) ==
  (IF server.packet = << >> THEN << >> ELSE << Message(kFrame, server.packet) >>)
    \o << Message(kRadioStats, << 0 >>), Message(kAck, at) >>

Handle ==
  /\ Free /\ Whole(server.in)
  /\ LET m == Decoded(server.in)
     IN /\ server' = IF IsTick(m)
                     THEN [server EXCEPT !.in = Reader, !.packet = << >>,
                                         !.todo = Replies(m.payload)]
                     ELSE [server EXCEPT !.in = Reader, !.pc = "poll"]
        /\ past' = [past EXCEPT !.upGot = Append(@, m)]
  /\ UNCHANGED <<engine, up, down, emulatorVars>>

WriteMsg ==
  /\ At("engine") /\ server.out = << >> /\ server.todo # << >>
  /\ server' = [server EXCEPT !.out = Encode(Head(server.todo)), !.todo = Tail(@)]
  /\ past' = [past EXCEPT !.downSent = Append(@, Head(server.todo))]
  /\ UNCHANGED <<engine, up, down, emulatorVars>>

\* Where a write leaves the server: the last of the acknowledgement is the end of it.
Wrote(out) == IF out = << >> /\ server.todo = << >> THEN "poll" ELSE "engine"

ServerWrites ==
  /\ At("engine") /\ ~engine.closed
  /\ \E k \in Writes(server.out, down) :
       /\ down' = down \o First(server.out, k)
       /\ server' = [server EXCEPT !.out = Rest(@, k), !.pc = Wrote(Rest(server.out, k))]
  /\ UNCHANGED <<engine, up, past, emulatorVars>>

\* A write to an engine that has gone is lost, and SIGPIPE is ignored; whether it
\* fails is looked at for the acknowledgement alone.
WriteFails ==
  /\ At("engine") /\ engine.closed /\ server.out # << >>
  /\ \E pc \in {Wrote(<< >>)} \cup (IF server.todo = << >> THEN {"closed"} ELSE {}) :
       server' = [server EXCEPT !.out = << >>, !.pc = pc]
  /\ UNCHANGED <<engineVars, emulatorVars>>

Server ==
  \/ Accept \/ Poll \/ ReadTag \/ ReadOperand \/ Answer \/ EmulatorGone
  \/ ServerReads \/ ServerAsksPayload \/ EngineGone \/ Handle
  \/ WriteMsg \/ ServerWrites \/ WriteFails

-----------------------------------------------------------------------------
\* The emulator (external): a request at a time, and it waits for the answer of one
\* that has an answer.

Connects ==
  /\ ~emulator.up /\ emulator' = [emulator EXCEPT !.up = TRUE]
  /\ UNCHANGED <<engineVars, server, mcuUp, mcuDown>>

Asks ==
  /\ emulator.up /\ ~emulator.closed /\ emulator.out = << >> /\ emulator.wants = "none"
  /\ \E tag \in Asked :
       emulator' = [emulator EXCEPT !.out = Request(tag), !.odd = @ \/ tag \notin Tags,
                                    !.wants = IF Awaits(tag) THEN tag ELSE "none"]
  /\ UNCHANGED <<engineVars, server, mcuUp, mcuDown>>

EmulatorWrites ==
  /\ ~emulator.closed
  /\ \E k \in Writes(emulator.out, mcuUp) :
       /\ mcuUp' = mcuUp \o First(emulator.out, k)
       /\ emulator' = [emulator EXCEPT !.out = Rest(@, k)]
  /\ UNCHANGED <<engineVars, server, mcuDown>>

EmulatorReads ==
  /\ ~emulator.closed /\ mcuDown # << >>
  /\ mcuDown' = Tail(mcuDown)
  /\ emulator' = [emulator EXCEPT !.wants = "none"]
  /\ UNCHANGED <<engineVars, server, mcuUp>>

EmulatorQuits ==
  /\ emulator.up /\ ~emulator.closed
  /\ emulator' = [emulator EXCEPT !.closed = TRUE, !.out = << >>]
  /\ UNCHANGED <<engineVars, server, mcuUp, mcuDown>>

Emulator == Connects \/ Asks \/ EmulatorWrites \/ EmulatorReads \/ EmulatorQuits

Turn(A) == A /\ UNCHANGED <<server, emulatorVars>>

\* With both peers gone there is nothing left to do.
Gone == engine.closed /\ emulator.closed /\ UNCHANGED vars

Next == Server \/ Emulator \/ Turn(EngineMoves) \/ Gone

Spec == Init /\ [][Next]_vars

\* The server never stops of itself.  The engine finishes a message it has begun and
\* reads what has come; the emulator does the same.  Neither need begin anything.
Running ==
  /\ Spec
  /\ WF_vars(Server)
  /\ WF_vars(Turn(EngineWrites)) /\ WF_vars(Turn(EngineListens))
  /\ WF_vars(EmulatorWrites) /\ WF_vars(EmulatorReads)

-----------------------------------------------------------------------------
\* An answer is never in the socket but for the request that waits for it: the two
\* sides agree where each request ends, or every reply after it would be off by one.
AnswersMatch == \A i \in 1..Len(mcuDown) : mcuDown[i] = emulator.wants

\* "Skipped rather than fatal" (lines 293-296): the server ends with one of its peers
\* or over a tag it does not know, and over nothing else that either sends it.
EndsOnlyWithPeers ==
  At("closed") => engine.closed \/ emulator.closed \/ emulator.odd

\* No tick goes unanswered once the emulator is connected, however much the emulator has
\* to say and whatever it is in the middle of, while all three stay.
TicksAcked ==
  engine.waiting /\ emulator.up
    ~> (~engine.waiting \/ engine.closed \/ At("closed"))

\* Once the emulator is connected the server does not outlive either peer.
EndsWithPeers ==
  emulator.up /\ (engine.closed \/ emulator.closed) ~> At("closed")
=============================================================================
