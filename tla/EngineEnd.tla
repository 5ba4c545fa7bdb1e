------------------------------- MODULE EngineEnd -------------------------------
(***************************************************************************)
(* The engine's end of a node's socket (external: it is not in this        *)
(* repository), byte by byte: one writer, one reader, a tick at a time,    *)
(* and it may hang up between any two bytes.                               *)
(***************************************************************************)
EXTENDS Framing

CONSTANTS
  Others,      \* messages it may send besides ticks
  EngineLumps, \* tick lengths it uses, in ms
  MaxMs,       \* bound: network time it asks for
  MaxOthers    \* bound: messages that are no ticks

ASSUME EngineEndAssumption ==
  /\ EngineLumps \subseteq Nat \ {0} /\ MaxMs \in Nat /\ MaxOthers \in Nat
  /\ \A m \in Others : /\ m \in [kind : Nat, payload : Seq(Nat)]
                       /\ Len(m.payload) < Base * Base
                       /\ m.kind = kTick => Len(m.payload) # 1

VARIABLES
  engine,    \* the engine's end of the socket
  up, down,  \* bytes in the socket, engine to node and node to engine
  past       \* history: the messages sent and received, each way

EngineInit ==
  /\ engine = [out |-> << >>, in |-> Reader, sim |-> 0, waiting |-> FALSE,
               others |-> 0, closed |-> FALSE]
  /\ up = << >> /\ down = << >>
  /\ past = [upSent |-> << >>, upGot |-> << >>, downSent |-> << >>, downGot |-> << >>]

Sends(m) ==
  /\ ~engine.closed /\ engine.out = << >>
  /\ past' = [past EXCEPT !.upSent = Append(@, m)]
  /\ UNCHANGED <<up, down>>

SendsOther ==
  /\ engine.others < MaxOthers
  /\ \E m \in Others :
       /\ Sends(m)
       /\ engine' = [engine EXCEPT !.out = Encode(m), !.others = @ + 1]

SendsTick ==
  /\ ~engine.waiting
  /\ \E k \in EngineLumps :
       LET m == Message(kTick, << engine.sim + k >>)
       IN /\ engine.sim + k <= MaxMs
          /\ Sends(m)
          /\ engine' = [engine EXCEPT !.out = Encode(m), !.waiting = TRUE, !.sim = @ + k]

EngineWrites ==
  /\ ~engine.closed
  /\ \E k \in Writes(engine.out, up) :
       /\ up' = up \o First(engine.out, k)
       /\ engine' = [engine EXCEPT !.out = Rest(@, k)]
  /\ UNCHANGED <<down, past>>

EngineReads ==
  /\ ~engine.closed
  /\ \E k \in Reads(engine.in, down) :
       /\ engine' = [engine EXCEPT !.in = Took(@, First(down, k))]
       /\ down' = Rest(down, k)
  /\ UNCHANGED <<up, past>>

EngineAsksPayload ==
  /\ ~engine.closed /\ AtPayload(engine.in)
  /\ engine' = [engine EXCEPT !.in.need = Length(engine.in)]
  /\ UNCHANGED <<up, down, past>>

EngineDecodes ==
  /\ ~engine.closed /\ Whole(engine.in)
  /\ LET m == Decoded(engine.in)
     IN /\ engine' = [engine EXCEPT !.in = Reader, !.waiting = @ /\ m.kind # kAck]
        /\ past' = [past EXCEPT !.downGot = Append(@, m)]
  /\ UNCHANGED <<up, down>>

HangsUp ==
  /\ ~engine.closed
  /\ engine' = [engine EXCEPT !.closed = TRUE, !.out = << >>]
  /\ UNCHANGED <<up, down, past>>

EngineListens == EngineReads \/ EngineAsksPayload \/ EngineDecodes
EngineMoves == SendsOther \/ SendsTick \/ EngineWrites \/ EngineListens \/ HangsUp

\* Both directions are channels: every message arrives whole, once and in order,
\* however reads and writes are cut and wherever the engine hangs up.
Up == INSTANCE Channel WITH sent <- past.upSent, got <- past.upGot
Down == INSTANCE Channel WITH sent <- past.downSent, got <- past.downGot
KeepsChannels == Up!Spec /\ Down!Spec

\* The times of the acknowledgements and of the ticks among some messages.
AckOf(m) == IF m.kind = kAck THEN << m.payload >> ELSE << >>
TickOf(m) == IF m.kind = kTick /\ Len(m.payload) = 1 THEN << m.payload >> ELSE << >>
Acks(ms) == Gathered(ms, AckOf)
Ticks(ms) == Gathered(ms, TickOf)

\* Ticks are acknowledged in the order they were sent, each with its own time, once,
\* whatever else the engine sends between them.
AcksAreTicks ==
  LET acks == Acks(past.downSent)
      ticks == Ticks(past.upSent)
  IN Len(acks) <= Len(ticks) /\ SubSeq(ticks, 1, Len(acks)) = acks
=============================================================================
