--------------------------------- MODULE Engine ---------------------------------
(***************************************************************************)
(* The simulation engine at the far end of a node's socket (external): as  *)
(* much of it as the protocol comments of bridge/main.cpp and              *)
(* bridge/radioserver.cpp promise.  It prepares a tick, sends it and waits *)
(* for the acknowledgement.  It is half duplex on the node's behalf: while *)
(* a waveform of the node is on the air it delivers nothing and does not   *)
(* report another station.                                                 *)
(***************************************************************************)
EXTENDS Gathering

CONSTANTS
  Frames,        \* frames either side may send
  EngineLumps,   \* tick lengths the engine uses, in ms
  FramesPerTick, \* frames the engine may deliver before one tick
  ReportsBusy,   \* whether the engine ever reports the channel busy
  OddKinds,      \* messages of other kinds the engine may send
  MaxMs,         \* bound: network time the engine asks for
  MaxFed         \* bound: frames the engine delivers

ASSUME EngineAssumption ==
  /\ EngineLumps \subseteq Nat \ {0} /\ FramesPerTick \in Nat
  /\ OddKinds \subseteq {"Originate", "Unknown"} /\ ReportsBusy \in BOOLEAN
  /\ MaxMs \in Nat /\ MaxFed \in Nat

VARIABLES
  eng,       \* what the engine knows, and the frames it has delivered (fed)
  toNode,    \* the socket, engine to node
  toEngine   \* the socket, node to engine

EngineInit ==
  /\ eng = [waiting |-> FALSE, acked |-> 0, waves |-> 0, given |-> 0,
            told |-> FALSE, busy |-> FALSE, fed |-> << >>]
  /\ toNode = << >> /\ toEngine = << >>

Tell(m) == toNode' = Append(toNode, m) /\ UNCHANGED toEngine

GiveFrame ==
  /\ ~eng.waiting /\ eng.waves = 0
  /\ eng.given < FramesPerTick /\ Len(eng.fed) < MaxFed
  /\ \E f \in Frames :
       /\ Tell([kind |-> "Frame", frame |-> f])
       /\ eng' = [eng EXCEPT !.given = @ + 1, !.fed = Append(@, f)]

TellTxDone ==
  /\ ~eng.waiting /\ eng.waves > 0
  /\ Tell([kind |-> "TxDone"])
  /\ eng' = [eng EXCEPT !.waves = @ - 1]

TellChannel ==
  /\ ~eng.waiting /\ ~eng.told /\ ReportsBusy
  /\ eng.waves > 0 => eng.busy
  /\ Tell([kind |-> "ChannelBusy", busy |-> ~eng.busy])
  /\ eng' = [eng EXCEPT !.busy = ~@, !.told = TRUE]

TellOdd ==
  /\ ~eng.waiting /\ ~eng.told
  /\ \E k \in OddKinds : Tell([kind |-> k])
  /\ eng' = [eng EXCEPT !.told = TRUE]

SendTick ==
  /\ ~eng.waiting
  /\ eng.waves > 0 => ~eng.busy
  /\ \E k \in EngineLumps :
       /\ eng.acked + k <= MaxMs
       /\ Tell([kind |-> "Tick", at |-> eng.acked + k])
  /\ eng' = [eng EXCEPT !.waiting = TRUE, !.given = 0, !.told = FALSE]

HearNode ==
  /\ toEngine # << >>
  /\ toEngine' = Tail(toEngine)
  /\ LET m == Head(toEngine)
     IN eng' = CASE m.kind = "Frame" -> [eng EXCEPT !.waves = @ + 1]
                 [] m.kind = "Ack" -> [eng EXCEPT !.waiting = FALSE, !.acked = m.at]
                 [] OTHER -> eng
  /\ UNCHANGED toNode

EngineStep == GiveFrame \/ TellTxDone \/ TellChannel \/ TellOdd \/ SendTick \/ HearNode

\* The engine has asked for all the time it will ask for.
EngineDone == ~eng.waiting /\ \A k \in EngineLumps : eng.acked + k > MaxMs

-----------------------------------------------------------------------------
IsFrame(m) == m.kind = "Frame"
FrameOf(m) == IF IsFrame(m) THEN << m.frame >> ELSE << >>
FramesIn(s) == Gathered(s, FrameOf)
Holds(s, kind) == \E i \in 1..Len(s) : s[i].kind = kind
=============================================================================
