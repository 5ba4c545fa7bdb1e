------------------------------ MODULE BridgeWire ------------------------------
(***************************************************************************)
(* The socket between a native node and the engine, byte by byte: framing  *)
(* (readAll, writeMsg), sockets that hold a few bytes and block, reads     *)
(* that return less than was asked for, an engine that may hang up between *)
(* any two bytes, and the console, whose bytes travel both ways.           *)
(*                                                                         *)
(* What a message does to the radio is NativeNode's business.  Here a tick *)
(* runs loop() as often as main.cpp does, and a pass of loop() may read    *)
(* the console, print and transmit.                                        *)
(***************************************************************************)
EXTENDS EngineEnd

CONSTANT Passes   \* what a pass of loop() prints and transmits: [print, packet]

\* A packet is no longer than the radio's buffer; what is printed may be of any length.
ASSUME PassesAssumption ==
  \A p \in Passes : /\ p \in [print : Seq(Nat), packet : Seq(Nat)]
                    /\ Len(p.packet) < Base * Base

VARIABLES
  node,      \* main.cpp: its end, the console queues and the tick under way
  said       \* history: the bytes read from the console, and printed

bridgeVars == <<engine, node, up, down, past, said>>

-----------------------------------------------------------------------------
\* setup() may print and transmit before the first message is read.

Flush(out) == IF out = << >> THEN << >> ELSE << Message(kConsoleOut, out) >>
Drain(packet) == IF packet = << >> THEN << >> ELSE << Message(kFrame, packet) >>

BridgeInit ==
  /\ EngineInit
  /\ \E p \in Passes :
       /\ node = [pc |-> "read", in |-> Reader, out |-> << >>,
                  todo |-> Drain(p.packet) \o Flush(p.print),
                  consoleIn |-> << >>, consoleOut |-> << >>, sim |-> 0, at |-> 0]
       /\ said = [read |-> << >>, printed |-> p.print]

-----------------------------------------------------------------------------
\* The node.  One thread: what it has to write comes before anything else.

Idle == node.pc # "closed" /\ node.out = << >> /\ node.todo = << >>

NodeWriteMsg ==
  /\ node.pc # "closed" /\ node.out = << >> /\ node.todo # << >>
  /\ node' = [node EXCEPT !.out = Encode(Head(node.todo)), !.todo = Tail(@)]
  /\ past' = [past EXCEPT !.downSent = Append(@, Head(node.todo))]
  /\ UNCHANGED <<engine, up, down, said>>

NodeWrites ==
  /\ node.pc # "closed" /\ ~engine.closed
  /\ \E k \in Writes(node.out, down) :
       /\ down' = down \o First(node.out, k)
       /\ node' = [node EXCEPT !.out = Rest(@, k)]
  /\ UNCHANGED <<engine, up, past, said>>

\* A write to an engine that has gone is lost, or ends the node: by SIGPIPE, or
\* because it was the acknowledgement's.
NodeWriteFails ==
  /\ node.pc # "closed" /\ engine.closed /\ node.out # << >>
  /\ \E pc \in {node.pc, "closed"} : node' = [node EXCEPT !.pc = pc, !.out = << >>]
  /\ UNCHANGED <<engine, up, down, past, said>>

NodeReads ==
  /\ Idle /\ node.pc = "read"
  /\ \E k \in Reads(node.in, up) :
       /\ node' = [node EXCEPT !.in = Took(@, First(up, k))]
       /\ up' = Rest(up, k)
  /\ UNCHANGED <<engine, down, past, said>>

NodeAsksPayload ==
  /\ Idle /\ AtPayload(node.in)
  /\ node' = [node EXCEPT !.in.need = Length(node.in)]
  /\ UNCHANGED <<engine, up, down, past, said>>

\* Mutant of EndOfFile: a message begun is waited for.
EndOfFileAwaits(r) == engine.closed /\ up = << >> /\ r.got = << >>
EndOfFile(r) == engine.closed /\ up = << >> /\ r.need > 0

\* readAll() fails at the end of the stream, in mid-message as well.
NodeEnds ==
  /\ Idle /\ node.pc = "read" /\ EndOfFile(node.in)
  /\ node' = [node EXCEPT !.pc = "closed"]
  /\ UNCHANGED <<engine, up, down, past, said>>

NodeHandles(kind) ==
  /\ Idle /\ node.pc = "read" /\ Whole(node.in) /\ Decoded(node.in).kind = kind
  /\ past' = [past EXCEPT !.upGot = Append(@, Decoded(node.in))]
  /\ UNCHANGED <<engine, up, down, said>>

HandleConsoleIn ==
  /\ NodeHandles(kConsoleIn)
  /\ node' = [node EXCEPT !.in = Reader,
                          !.consoleIn = @ \o Decoded(node.in).payload]

\* Mutant of Timeless: it is acknowledged all the same.
TimelessAcks == << Message(kAck, << node.at >>) >>
\* What a tick without a time in it is answered with: it is dropped.
Timeless == << >>

HandleTick ==
  /\ NodeHandles(kTick)
  /\ LET at == Decoded(node.in).payload
     IN node' = IF Len(at) = 1
                THEN [node EXCEPT !.in = Reader, !.pc = "loop", !.at = at[1]]
                ELSE [node EXCEPT !.in = Reader, !.todo = Timeless]

\* loop() asks available() before it read()s a byte of the console.
AvailableTakes(q) == Tail(q)     \* mutant of Available: asking takes a byte
Available(q) == q

CliReads ==
  /\ Idle /\ node.pc = "loop" /\ node.consoleIn # << >>
  /\ LET q == Available(node.consoleIn)
     IN /\ q # << >>
        /\ node' = [node EXCEPT !.consoleIn = Tail(q)]
        /\ said' = [said EXCEPT !.read = Append(@, Head(q))]
  /\ UNCHANGED <<engine, up, down, past>>

\* Mutants of TickDone: the console is flushed last; a node with nothing to say
\* returns early.
TickDoneFlushLast(out) ==
  << Message(kRadioStats, << 0 >>), Message(kAck, << node.at >>) >> \o Flush(out)
TickDoneQuiet(out) ==
  IF out = << >> THEN << >>
  ELSE Flush(out) \o << Message(kRadioStats, << 0 >>), Message(kAck, << node.at >>) >>

\* What follows the last pass: flushConsole(), the statistics, the acknowledgement.
TickDone(out) ==
  Flush(out) \o << Message(kRadioStats, << 0 >>), Message(kAck, << node.at >>) >>

\* The rest of a pass: loop() has printed and transmitted, drainTx() sends.  The
\* pass at the tick's target is followed by one more, the last.
EndPass ==
  /\ Idle /\ node.pc = "loop"
  /\ \E p \in Passes :
       LET out == node.consoleOut \o p.print
           last == node.sim = node.at
       IN /\ node' = [node EXCEPT
               !.pc = IF last THEN "read" ELSE "loop",
               !.sim = IF last THEN @ ELSE @ + 1,
               !.consoleOut = IF last THEN << >> ELSE out,
               !.todo = Drain(p.packet) \o (IF last THEN TickDone(out) ELSE << >>)]
          /\ said' = [said EXCEPT !.printed = @ \o p.print]
  /\ UNCHANGED <<engine, up, down, past>>

Node == \/ NodeWriteMsg \/ NodeWrites \/ NodeWriteFails \/ NodeReads \/ NodeAsksPayload
        \/ NodeEnds \/ HandleConsoleIn \/ HandleTick \/ CliReads \/ EndPass

-----------------------------------------------------------------------------
\* With the engine gone there may be nothing left to do.
EngineHasGone == engine.closed /\ UNCHANGED bridgeVars

BridgeNext == Node \/ (EngineMoves /\ UNCHANGED <<node, said>>) \/ EngineHasGone

BridgeSpec == BridgeInit /\ [][BridgeNext]_bridgeVars

\* The node never stops of itself; the engine finishes a message it has begun and
\* reads what has come.  It need not send anything, nor ever hang up.
BridgeRunning ==
  /\ BridgeSpec
  /\ WF_bridgeVars(Node)
  /\ WF_bridgeVars(EngineWrites /\ UNCHANGED <<node, said>>)
  /\ WF_bridgeVars(EngineListens /\ UNCHANGED <<node, said>>)

-----------------------------------------------------------------------------
\* A node that does not print too much: flushConsole() gives the length of all that was
\* printed since the last tick in two bytes (main.cpp 118).  A bound on what one pass
\* prints, and on a tick's length, keeps within it.
Fits(n) ==
  /\ \A p \in Passes : Len(p.print) <= n
  /\ \A k \in EngineLumps \cup {0} : (k + 1) * n < Base * Base
PrintsFit == \E n \in Nat : Fits(n)

\* "This node has caught up to N ms" (kAck, main.cpp 66): with the
\* acknowledgement the engine has everything the node printed and transmitted
\* until then.
AckIsLast ==
  engine.sim > 0 /\ ~engine.waiting /\ ~engine.closed =>
    /\ Payloads(past.downGot, kConsoleOut) = said.printed
    /\ past.downGot = past.downSent

\* Nothing typed is lost, repeated or reordered on its way to the CLI: what was
\* typed is what the firmware read, then the queue, then what is on its way.
TypedInOrder ==
  Payloads(past.upSent, kConsoleIn) =
    said.read \o node.consoleIn
      \o Payloads(Rest(past.upSent, Len(past.upGot)), kConsoleIn)

\* With sockets that hold less than a header no two writers block each other for
\* good: every tick is acknowledged, unless the engine goes away.
EveryTickAcked == engine.waiting ~> (~engine.waiting \/ engine.closed)

\* A node does not outlive its engine, wherever in a message that went away.
EndsWithEngine == engine.closed ~> node.pc = "closed"
=============================================================================
